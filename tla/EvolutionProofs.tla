---------------------------- MODULE EvolutionProofs ----------------------------
(* The evolution loop, proved for any task classes, proposals, commands and   *)
(* processes, any number of runs and failing writes. Nothing is locked, so    *)
(* what a process has read may be stale when it writes: the proof rests on    *)
(* what can only grow - passing experiments, patterns, stored proposals,      *)
(* snapshots - and says what each process carries from its reads to its       *)
(* writes. Only what is true of one command at a time needs its exclusion.    *)
EXTENDS Evolution, TLAPS

Stored(i) == proposals[i].status # "absent"

\* What a proposal's file holds once it was written.
Founded(w) == w \in Proposal /\ w.status # "absent" /\ w.about \in pat /\ w.text \in Text
AllFounded ==
    \A i \in Prop : /\ Stored(i) => Founded(proposals[i])
                    /\ snap[i] # "absent" => Stored(i)

\* What a process that is somewhere holds: of a class, of a proposal, ...
Targeted(p) ==
    /\ pc[p] = "patterning" => target[p] \in Class
    /\ pc[p] = "proposing" => target[p] \in pat
    /\ pc[p] \in {"rejecting"} \cup Approving \cup Withdrawing =>
          target[p] \in Prop /\ Stored(target[p])
    /\ pc[p] \in {"rejecting", "restoring", "withdrawing"} \cup Approving => Founded(loaded[p])
    /\ pc[p] \in {"rebuilding", "reinstalling"} /\ running[p] => Founded(loaded[p])
    /\ pc[p] = "idle" => ~ running[p]

\* ... of what the gate has passed, and how it will go back from it.
Gated(p) ==
    /\ {old[p], draft[p]} \subseteq gated \cup {None}
    /\ pc[p] \in Approving => loaded[p].text \in gated
    /\ pc[p] \in Approving \ {"snapshotting"} => snap[target[p]] # "absent"

Held == \A p \in Proc : Targeted(p) /\ Gated(p)

\* What a process has decided stays sound while others write: what it will
\* save, what it may put back, and what it will roll back.
SoundPlan(q, u) ==
    /\ q \in Plan /\ u \in Plan
    /\ \A o \in q.obs \cup u.obs : Stored(o.of)
    /\ \A d \in q.due : Stored(d.of) /\ Founded(d.was)
AllSound == \A p \in Proc : SoundPlan(plan[p], undo[p])
AllGrounded == \A o \in obs : Stored(o.of)

\* What is being removed is in a maintenance snapshot.
AllSaved ==
    \A p \in Proc : pc[p] = "removing" => plan[p].eps \cup Names(plan[p].obs) \subseteq saved

IInv == /\ TypeOK /\ AllFounded /\ Held /\ AllGrounded /\ AllSound /\ AllSaved
        /\ GatedInForce /\ ApprovedCanReturn /\ Recoverable

\* The parts of TypeOK.
FilesTyped ==
    /\ episodes \subseteq Episode /\ recorded \subseteq File /\ saved \subseteq File
    /\ pat \subseteq Class /\ ids \in [Class -> SUBSET Episode]
    /\ obs \subseteq Observation /\ time \in 0..MaxEpisodes
StrategyTyped ==
    /\ gated \subseteq Text
    /\ proposals \in [Prop -> Proposal]
    /\ {overlay, prompt} \subseteq Text \cup {None}
    /\ snap \in [Prop -> Text \cup {None, "absent"}]
    /\ failures \in 0..MaxFailures
PlacesTyped ==
    /\ pc \in [Proc -> PC]
    /\ target \in [Proc -> Class \cup Prop \cup {None}]
    /\ old \in [Proc -> Text \cup {None}] /\ draft \in [Proc -> Text \cup {None}]
    /\ running \in [Proc -> BOOLEAN]
    /\ loaded \in [Proc -> Proposal]

-----------------------------------------------------------------------------

LEMMA EmptyPlan == /\ NoPlan \in Plan /\ NoPlan.obs = {} /\ NoPlan.due = {} /\ NoPlan.eps = {}
                   /\ NoPlan.pats = {} /\ SoundPlan(NoPlan, NoPlan)
BY DEF NoPlan, Plan, SoundPlan

LEMMA EmptyProposal ==
    NoProposal \in Proposal /\ NoProposal.status = "absent" /\ NoProposal.at = 0
BY EvolutionAssumption DEF NoProposal, Proposal

LEMMA InitInv == Init => IInv
<1> SUFFICES ASSUME Init PROVE IInv
    OBVIOUS
<1>1. FilesTyped /\ StrategyTyped
      BY EvolutionAssumption, EmptyProposal DEF Init, FilesTyped, StrategyTyped
<1>2. PlacesTyped /\ plan \in [Proc -> Plan] /\ undo \in [Proc -> Plan]
      BY EmptyPlan, EmptyProposal
         DEF Init, PlacesTyped, PC, Recording, Watching, Approving, Withdrawing, Maintaining
<1>3. TypeOK
      BY <1>1, <1>2 DEF FilesTyped, StrategyTyped, PlacesTyped, TypeOK
<1>4. AllFounded /\ ApprovedCanReturn
      BY EmptyProposal DEF Init, AllFounded, ApprovedCanReturn, Stored, Marked
<1>5. Held
      BY DEF Init, Held, Targeted, Gated, Approving, Withdrawing
<1>6. AllSound
      BY EmptyPlan DEF Init, AllSound
<1>7. AllGrounded /\ AllSaved /\ GatedInForce /\ Recoverable
      BY DEF Init, AllGrounded, AllSaved, GatedInForce, Recoverable
<1>. QED  BY <1>3, <1>4, <1>5, <1>6, <1>7 DEF IInv

\* A plan stays one when a part of it is replaced.
LEMMA PlanParts ==
    /\ NoPlan \in Plan
    /\ \A q \in Plan :
          /\ q.eps \subseteq Episode /\ q.obs \subseteq Observation
          /\ q.due \subseteq [of : Prop, was : Proposal]
          /\ q.pats \subseteq [of : Class, ids : SUBSET Episode]
          /\ \A s \in SUBSET Episode : [q EXCEPT !.eps = s] \in Plan
          /\ \A s \in SUBSET Observation : [q EXCEPT !.obs = s] \in Plan
          /\ \A s \in SUBSET [of : Prop, was : Proposal] : [q EXCEPT !.due = s] \in Plan
          /\ \A s \in SUBSET [of : Class, ids : SUBSET Episode] : [q EXCEPT !.pats = s] \in Plan
BY DEF NoPlan, Plan

\* A proposal that is saved with a status of its own is one still.
LEMMA Resaved ==
    ASSUME NEW w, Founded(w), NEW s \in {"pending", "approved", "rejected", "rolled_back"}
    PROVE  LET r == [w EXCEPT !.status = s]
           IN  Founded(r) /\ r.about = w.about /\ r.text = w.text /\ r.status = s
BY DEF Founded, Proposal

\* What Propose writes.
LEMMA Proposed ==
    ASSUME TypeOK, NEW c \in pat, NEW a \in Proposable(c)
    PROVE  LET w == [NoProposal EXCEPT !.about = c, !.text = a.text, !.at = a.at]
               r == [w EXCEPT !.status = "pending"]
           IN  a.id \in Prop /\ Founded(r) /\ r.about = c /\ r.status = "pending"
<1>1. c \in Class
      BY DEF TypeOK
<1>2. a.id \in Prop /\ a.text \in Text /\ a.at \in 0..MaxEpisodes
  <2>1. CASE a \in Answers
        BY <2>1, EvolutionAssumption
  <2>2. CASE a = [id |-> Default[c], text |-> Standard, at |-> 0]
        BY <2>2, <1>1, EvolutionAssumption
  <2>. QED  BY <2>1, <2>2 DEF Proposable
<1>. QED  BY <1>1, <1>2 DEF NoProposal, Proposal, Founded

\* What the run that records an episode learns of it.
LEMMA NewEpisode ==
    ASSUME IInv, NEW p \in Proc, NEW t \in Task, RecordEpisode(p, t[1], t[2])
    PROVE  \E e \in Episode :
             /\ e.at = time + 1 /\ time' = e.at /\ pc[p] = "idle"
             /\ episodes' = episodes \cup {e} /\ recorded' = recorded \cup {e}
             /\ running' = [running EXCEPT ![p] = TRUE]
             /\ UNCHANGED <<pat, ids, obs, saved, proposals, strategy, target, loaded, old, draft,
                            undo, gated, failures>>
             /\ \/ /\ pc' = [pc EXCEPT ![p] = "noting"]
                   /\ \E s \in SUBSET Observation :
                         /\ \A o \in s : Stored(o.of)
                         /\ plan' = [plan EXCEPT ![p] = [plan[p] EXCEPT !.obs = s]]
                \/ pc' = [pc EXCEPT ![p] = "watching"] /\ plan' = plan
<1> DEFINE c == t[1]
           e == [class |-> c, ok |-> t[2], at |-> time + 1]
           about == {i \in Marked({"approved", "rolled_back"}) :
                       proposals[i].about = c /\ proposals[i].at \in 1..time /\ c \in pat}
           noted == {[of |-> i, ep |-> e, phase |-> "after"] : i \in about}
<1>1. c \in Class /\ t[2] \in BOOLEAN
      BY EvolutionAssumption
<1>2. time < MaxEpisodes /\ time \in 0..MaxEpisodes /\ MaxEpisodes \in Nat
      BY EvolutionAssumption DEF RecordEpisode, IInv, TypeOK
<1>3. e \in Episode
      BY <1>1, <1>2 DEF Episode
<1>4. about \subseteq Prop /\ \A i \in about : Stored(i)
      BY DEF Marked, Stored
<1> HIDE DEF about
<1>5. noted \subseteq Observation /\ \A o \in noted : Stored(o.of)
      BY <1>3, <1>4 DEF Observation
<1>6. [plan EXCEPT ![p].obs = noted] = [plan EXCEPT ![p] = [plan[p] EXCEPT !.obs = noted]]
      OBVIOUS
<1>7. \/ pc' = [pc EXCEPT ![p] = "noting"] /\ plan' = [plan EXCEPT ![p].obs = noted]
      \/ pc' = [pc EXCEPT ![p] = "watching"] /\ plan' = plan
      BY DEF RecordEpisode, about
<1>8. /\ e.at = time + 1 /\ time' = e.at /\ pc[p] = "idle"
      /\ episodes' = episodes \cup {e} /\ recorded' = recorded \cup {e}
      /\ running' = [running EXCEPT ![p] = TRUE]
      /\ UNCHANGED <<pat, ids, obs, saved, proposals, strategy, target, loaded, old, draft,
                     undo, gated, failures>>
      BY DEF RecordEpisode
<1> HIDE DEF e, noted, c
<1>. QED  BY <1>3, <1>5, <1>6, <1>7, <1>8

\* What a step never takes back: patterns, experiments, maintenance snapshots,
\* stored proposals and the snapshots of overlays.
Grows ==
    /\ pat \subseteq pat' /\ gated \subseteq gated' /\ saved \subseteq saved'
    /\ \A i \in Prop : /\ Stored(i) => Stored(i)'
                       /\ snap[i] # "absent" => snap'[i] # "absent"

LEMMA StepGrows == IInv /\ [Next]_vars => Grows
<1> SUFFICES ASSUME IInv, [Next]_vars PROVE Grows
    OBVIOUS
<1> USE DEF IInv, TypeOK, Grows, Stored, SaveProposal, evidence, strategy, history, Goto
<1>1. ASSUME NEW p \in Proc, Run(p) PROVE Grows
  <2>1. ASSUME NEW t \in Task, RecordEpisode(p, t[1], t[2]) PROVE Grows
        BY <2>1 DEF RecordEpisode
  <2>2. CASE SaveObservation(p)  BY <2>2 DEF SaveObservation
  <2>3. CASE DetectPattern(p)  BY <2>3 DEF DetectPattern
  <2>4. CASE SavePattern(p)  BY <2>4 DEF SavePattern
  <2>5. CASE Propose(p)
    <3>1. CASE UNCHANGED proposals  BY <2>5, <3>1 DEF Propose
    <3>2. ASSUME NEW a \in Proposable(target[p]),
                 SaveProposal(a.id, [NoProposal EXCEPT !.about = target[p], !.text = a.text,
                                                       !.at = a.at], "pending")
          PROVE  Grows
      <4>1. target[p] \in pat
            BY <2>5 DEF Propose, Held, Targeted
      <4>. QED  BY <2>5, <3>2, <4>1, Proposed DEF Propose, Founded
    <3>. QED  BY <2>5, <3>1, <3>2 DEF Propose
  <2>6. CASE FailRecording(p)  BY <2>6 DEF FailRecording
  <2>7. CASE ObserveApproved(p)  BY <2>7 DEF ObserveApproved
  <2>8. CASE NextDue(p)  BY <2>8 DEF NextDue
  <2>. QED  BY <1>1, <2>1, <2>2, <2>3, <2>4, <2>5, <2>6, <2>7, <2>8 DEF Run
<1>2. ASSUME NEW p \in Proc, Review(p) PROVE Grows
  <2>1. ASSUME NEW i \in Prop, StartApprove(p, i) PROVE Grows
        BY <2>1 DEF StartApprove
  <2>2. ASSUME NEW i \in Prop, StartReject(p, i) PROVE Grows
        BY <2>2 DEF StartReject
  <2>3. ASSUME NEW i \in Prop, StartRollback(p, i) PROVE Grows
        BY <2>3 DEF StartRollback
  <2>4. CASE SnapshotOverlay(p)
        BY <2>4, EvolutionAssumption DEF SnapshotOverlay
  <2>5. CASE WriteOverlay(p)  BY <2>5 DEF WriteOverlay
  <2>6. CASE ComposePrompt(p)  BY <2>6 DEF ComposePrompt
  <2>7. CASE InstallPrompt(p)  BY <2>7 DEF InstallPrompt
  <2>8. CASE Approve(p)
    <3>1. Founded(loaded[p]) /\ target[p] \in Prop
          BY <2>8 DEF Approve, Held, Targeted, Approving
    <3>. QED  BY <2>8, <3>1, Resaved DEF Approve, Founded
  <2>9. CASE FailInstall(p)  BY <2>9 DEF FailInstall
  <2>10. CASE UnwindOverlay(p)  BY <2>10 DEF UnwindOverlay
  <2>11. CASE RevertPrompt(p)  BY <2>11 DEF RevertPrompt
  <2>12. CASE Reject(p)
    <3>1. Founded(loaded[p]) /\ target[p] \in Prop
          BY <2>12 DEF Reject, Held, Targeted
    <3>. QED  BY <2>12, <3>1, Resaved DEF Reject, Founded
  <2>13. CASE RollbackDue(p)  BY <2>13 DEF RollbackDue
  <2>14. CASE Withdraw(p)
    <3>1. Founded(loaded[p]) /\ target[p] \in Prop
          BY <2>14 DEF Withdraw, Held, Targeted, Withdrawing
    <3>. QED  BY <2>14, <3>1, Resaved DEF Withdraw, Founded
  <2>. QED  BY <1>2, <2>1, <2>2, <2>3, <2>4, <2>5, <2>6, <2>7, <2>8, <2>9,
                <2>10, <2>11, <2>12, <2>13, <2>14 DEF Review
<1>3. ASSUME NEW p \in Proc, Maintain(p) PROVE Grows
  <2>1. ASSUME NEW k \in Keep, StartPrune(p, k) PROVE Grows
        BY <2>1 DEF StartPrune
  <2>2. CASE StartRepair(p)  BY <2>2 DEF StartRepair
  <2>3. CASE SaveSnapshot(p)  BY <2>3 DEF SaveSnapshot
  <2>4. CASE Remove(p)  BY <2>4 DEF Remove
  <2>5. CASE Rewrite(p)  BY <2>5 DEF Rewrite
  <2>6. CASE FailMaintenance(p)  BY <2>6 DEF FailMaintenance
  <2>. QED  BY <1>3, <2>1, <2>2, <2>3, <2>4, <2>5, <2>6 DEF Maintain
<1>4. ASSUME NEW p \in Proc, Stop(p) PROVE Grows
      BY <1>4 DEF Stop
<1>5. CASE UNCHANGED vars
      BY <1>5 DEF vars
<1>. QED  BY <1>1, <1>2, <1>3, <1>4, <1>5 DEF Next

\* A process's own step leaves the others where they are.
Local(p) ==
    \A q \in Proc : q # p =>
        /\ pc'[q] = pc[q] /\ target'[q] = target[q] /\ running'[q] = running[q]
        /\ loaded'[q] = loaded[q] /\ old'[q] = old[q] /\ draft'[q] = draft[q]
        /\ plan'[q] = plan[q] /\ undo'[q] = undo[q]

LEMMA StepLocal ==
    ASSUME IInv, NEW p \in Proc, Run(p) \/ Review(p) \/ Maintain(p) \/ Stop(p)
    PROVE  Local(p)
<1> USE DEF IInv, TypeOK, Local, memory, procVars, Goto, Return, Decide, Load
<1>1. CASE Run(p)
  <2>1. ASSUME NEW t \in Task, RecordEpisode(p, t[1], t[2]) PROVE Local(p)
        BY <2>1 DEF RecordEpisode
  <2>2. CASE SaveObservation(p)  BY <2>2 DEF SaveObservation
  <2>3. CASE DetectPattern(p)  BY <2>3 DEF DetectPattern
  <2>4. CASE SavePattern(p)  BY <2>4 DEF SavePattern
  <2>5. CASE Propose(p)  BY <2>5 DEF Propose
  <2>6. CASE FailRecording(p)  BY <2>6 DEF FailRecording
  <2>7. CASE ObserveApproved(p)  BY <2>7 DEF ObserveApproved
  <2>8. CASE NextDue(p)  BY <2>8 DEF NextDue
  <2>. QED  BY <1>1, <2>1, <2>2, <2>3, <2>4, <2>5, <2>6, <2>7, <2>8 DEF Run
<1>2. CASE Review(p)
  <2>1. ASSUME NEW i \in Prop, StartApprove(p, i) PROVE Local(p)
        BY <2>1 DEF StartApprove
  <2>2. ASSUME NEW i \in Prop, StartReject(p, i) PROVE Local(p)
        BY <2>2 DEF StartReject
  <2>3. ASSUME NEW i \in Prop, StartRollback(p, i) PROVE Local(p)
        BY <2>3 DEF StartRollback
  <2>4. CASE SnapshotOverlay(p)  BY <2>4 DEF SnapshotOverlay
  <2>5. CASE WriteOverlay(p)  BY <2>5 DEF WriteOverlay
  <2>6. CASE ComposePrompt(p)  BY <2>6 DEF ComposePrompt
  <2>7. CASE InstallPrompt(p)  BY <2>7 DEF InstallPrompt
  <2>8. CASE Approve(p)  BY <2>8 DEF Approve
  <2>9. CASE FailInstall(p)  BY <2>9 DEF FailInstall
  <2>10. CASE UnwindOverlay(p)  BY <2>10 DEF UnwindOverlay
  <2>11. CASE RevertPrompt(p)  BY <2>11 DEF RevertPrompt
  <2>12. CASE Reject(p)  BY <2>12 DEF Reject
  <2>13. CASE RollbackDue(p)  BY <2>13 DEF RollbackDue
  <2>14. CASE Withdraw(p)  BY <2>14 DEF Withdraw
  <2>. QED  BY <1>2, <2>1, <2>2, <2>3, <2>4, <2>5, <2>6, <2>7, <2>8, <2>9,
                <2>10, <2>11, <2>12, <2>13, <2>14 DEF Review
<1>3. CASE Maintain(p)
  <2>1. ASSUME NEW k \in Keep, StartPrune(p, k) PROVE Local(p)
        BY <2>1 DEF StartPrune
  <2>2. CASE StartRepair(p)  BY <2>2 DEF StartRepair
  <2>3. CASE SaveSnapshot(p)  BY <2>3 DEF SaveSnapshot
  <2>4. CASE Remove(p)  BY <2>4 DEF Remove
  <2>5. CASE Rewrite(p)  BY <2>5 DEF Rewrite
  <2>6. CASE FailMaintenance(p)  BY <2>6 DEF FailMaintenance
  <2>. QED  BY <1>3, <2>1, <2>2, <2>3, <2>4, <2>5, <2>6 DEF Maintain
<1>4. CASE Stop(p)
      BY <1>4 DEF Stop
<1>. QED  BY <1>1, <1>2, <1>3, <1>4

LEMMA StepFiles == IInv /\ [Next]_vars => FilesTyped'
<1> SUFFICES ASSUME IInv, [Next]_vars PROVE FilesTyped'
    OBVIOUS
<1> DEFINE files == <<episodes, pat, ids, obs, saved, recorded, time>>
<1> USE DEF IInv, TypeOK, FilesTyped
<1>1. CASE UNCHANGED files
      BY <1>1
<1>2. ASSUME NEW p \in Proc, NEW t \in Task, RecordEpisode(p, t[1], t[2]) PROVE FilesTyped'
  <2>1. PICK e \in Episode : /\ time' = e.at /\ episodes' = episodes \cup {e}
                             /\ recorded' = recorded \cup {e} /\ UNCHANGED <<pat, ids, obs, saved>>
        BY <1>2, NewEpisode
  <2>2. e.at \in 0..MaxEpisodes /\ e \in File
        BY EvolutionAssumption DEF Episode, File
  <2>. QED  BY <2>1, <2>2
<1>3. ASSUME NEW p \in Proc, SaveObservation(p) PROVE FilesTyped'
  <2>1. PICK o \in plan[p].obs : /\ obs' = WithObservations({o})
                                 /\ recorded' = recorded \cup Names({o})
        BY <1>3 DEF SaveObservation
  <2>2. o \in Observation
        BY PlanParts
  <2>3. Names({o}) \subseteq File
        BY <2>2 DEF Names, File, Observation
  <2>. QED  BY <1>3, <2>1, <2>2, <2>3 DEF SaveObservation, WithObservations
<1>4. ASSUME NEW p \in Proc, SavePattern(p) PROVE FilesTyped'
  <2>1. target[p] \in Class /\ plan[p].eps \subseteq Episode
        BY <1>4, PlanParts DEF SavePattern, Held, Targeted
  <2>. QED  BY <1>4, <2>1 DEF SavePattern, history
<1>5. ASSUME NEW p \in Proc, SaveSnapshot(p) PROVE FilesTyped'
  <2>1. plan[p].eps \subseteq Episode /\ plan[p].obs \subseteq Observation
        BY PlanParts
  <2>2. plan[p].eps \cup Names(plan[p].obs) \subseteq File
        BY <2>1 DEF Names, File, Observation
  <2>. QED  BY <1>5, <2>2 DEF SaveSnapshot, history
<1>6. ASSUME NEW p \in Proc, Remove(p) PROVE FilesTyped'
      BY <1>6 DEF Remove, history
<1>7. ASSUME NEW p \in Proc, Rewrite(p) PROVE FilesTyped'
  <2>1. UNCHANGED <<episodes, pat, obs, saved, recorded, time>>
        BY <1>7 DEF Rewrite, history
  <2>2. \/ UNCHANGED ids
        \/ \E f \in plan[p].pats : ids' = [ids EXCEPT ![f.of] = f.ids]
        BY <1>7 DEF Rewrite
  <2>3. plan[p].pats \subseteq [of : Class, ids : SUBSET Episode]
        BY PlanParts
  <2>. QED  BY <2>1, <2>2, <2>3
<1>8. ASSUME NEW p \in Proc, FailMaintenance(p) PROVE FilesTyped'
  <2> DEFINE at(c) == {f.ids : f \in {x \in undo[p].pats : x.of = c}}
  <2>1. /\ undo[p].eps \subseteq Episode /\ undo[p].obs \subseteq Observation
        /\ \A c : at(c) \subseteq SUBSET Episode
        BY PlanParts
  <2>2. /\ episodes' = episodes \cup undo[p].eps
        /\ obs' = WithObservations(undo[p].obs)
        /\ ids' = [c \in Class |-> IF at(c) = {} THEN ids[c] ELSE UNION at(c)]
        /\ UNCHANGED <<pat, saved, time, recorded>>
        BY <1>8 DEF FailMaintenance, history
  <2> HIDE DEF at
  <2>3. \A c \in Class : UNION at(c) \subseteq Episode
        BY <2>1
  <2>. QED  BY <2>1, <2>2, <2>3 DEF WithObservations
<1>9. ASSUME NEW p \in Proc, Run(p)
      PROVE  \/ UNCHANGED files \/ \E t \in Task : RecordEpisode(p, t[1], t[2])
             \/ SaveObservation(p) \/ SavePattern(p)
  <2>1. CASE DetectPattern(p)  BY <2>1 DEF DetectPattern, evidence, history
  <2>2. CASE Propose(p)  BY <2>2 DEF Propose, evidence, history, history
  <2>3. CASE FailRecording(p)  BY <2>3 DEF FailRecording, evidence, history
  <2>4. CASE ObserveApproved(p)  BY <2>4 DEF ObserveApproved, evidence, history
  <2>5. CASE NextDue(p)  BY <2>5 DEF NextDue, evidence, history
  <2>. QED  BY <1>9, <2>1, <2>2, <2>3, <2>4, <2>5 DEF Run
<1>10. ASSUME NEW p \in Proc, Review(p) PROVE UNCHANGED files
  <2>1. ASSUME NEW i \in Prop, StartApprove(p, i) \/ StartReject(p, i) \/ StartRollback(p, i)
        PROVE  UNCHANGED files
        BY <2>1 DEF StartApprove, StartReject, StartRollback, evidence, history
  <2>2. CASE SnapshotOverlay(p) \/ WriteOverlay(p) \/ ComposePrompt(p) \/ InstallPrompt(p)
        BY <2>2 DEF SnapshotOverlay, WriteOverlay, ComposePrompt, InstallPrompt, evidence, history
  <2>3. CASE FailInstall(p) \/ UnwindOverlay(p) \/ RevertPrompt(p) \/ RollbackDue(p)
        BY <2>3 DEF FailInstall, UnwindOverlay, RevertPrompt, RollbackDue, evidence, history
  <2>4. CASE Approve(p) \/ Reject(p) \/ Withdraw(p)
        BY <2>4 DEF Approve, Reject, Withdraw, evidence, history
  <2>. QED  BY <1>10, <2>1, <2>2, <2>3, <2>4 DEF Review
<1>11. ASSUME NEW p \in Proc, Maintain(p)
       PROVE  UNCHANGED files \/ SaveSnapshot(p) \/ Remove(p) \/ Rewrite(p) \/ FailMaintenance(p)
  <2>1. ASSUME NEW k \in Keep, StartPrune(p, k) PROVE UNCHANGED files
        BY <2>1 DEF StartPrune, evidence, history
  <2>2. CASE StartRepair(p)  BY <2>2 DEF StartRepair, evidence, history
  <2>. QED  BY <1>11, <2>1, <2>2 DEF Maintain
<1>12. ASSUME NEW p \in Proc, Stop(p) PROVE UNCHANGED files
       BY <1>12 DEF Stop, evidence, history
<1>13. CASE UNCHANGED vars
       BY <1>13 DEF vars, evidence, history
<1> HIDE DEF IInv, TypeOK, files, FilesTyped
<1>. QED  BY <1>1, <1>2, <1>3, <1>4, <1>5, <1>6, <1>7, <1>8, <1>9, <1>10, <1>11, <1>12, <1>13
          DEF Next

\* The proposals, the overlay and the prompt.
LEMMA StepStrategy == IInv /\ [Next]_vars => StrategyTyped'
<1> SUFFICES ASSUME IInv, [Next]_vars PROVE StrategyTyped'
    OBVIOUS
<1> USE EvolutionAssumption
    DEF IInv, TypeOK, StrategyTyped, SaveProposal, RestoreOverlay, strategy, history, Goto
<1>1. ASSUME NEW p \in Proc, Run(p) PROVE StrategyTyped'
  <2>1. ASSUME NEW t \in Task, RecordEpisode(p, t[1], t[2]) PROVE StrategyTyped'
        BY <2>1 DEF RecordEpisode
  <2>2. CASE SaveObservation(p)  BY <2>2 DEF SaveObservation
  <2>3. CASE DetectPattern(p)  BY <2>3 DEF DetectPattern
  <2>4. CASE SavePattern(p)  BY <2>4 DEF SavePattern
  <2>5. CASE Propose(p)
    <3>1. CASE UNCHANGED proposals  BY <2>5, <3>1 DEF Propose
    <3>2. ASSUME NEW a \in Proposable(target[p]),
                 SaveProposal(a.id, [NoProposal EXCEPT !.about = target[p], !.text = a.text,
                                                       !.at = a.at], "pending")
          PROVE  StrategyTyped'
      <4>1. target[p] \in pat
            BY <2>5 DEF Propose, Held, Targeted
      <4>. QED  BY <2>5, <3>2, <4>1, Proposed DEF Propose, Founded
    <3>. QED  BY <2>5, <3>1, <3>2 DEF Propose
  <2>6. CASE FailRecording(p)  BY <2>6 DEF FailRecording
  <2>7. CASE ObserveApproved(p)  BY <2>7 DEF ObserveApproved
  <2>8. CASE NextDue(p)  BY <2>8 DEF NextDue
  <2>. QED  BY <1>1, <2>1, <2>2, <2>3, <2>4, <2>5, <2>6, <2>7, <2>8 DEF Run
<1>2. ASSUME NEW p \in Proc, Review(p) PROVE StrategyTyped'
  <2>1. ASSUME NEW i \in Prop, StartApprove(p, i) PROVE StrategyTyped'
        BY <2>1 DEF StartApprove
  <2>2. ASSUME NEW i \in Prop, StartReject(p, i) PROVE StrategyTyped'
        BY <2>2 DEF StartReject
  <2>3. ASSUME NEW i \in Prop, StartRollback(p, i) PROVE StrategyTyped'
        BY <2>3 DEF StartRollback
  <2>4. CASE SnapshotOverlay(p)  BY <2>4 DEF SnapshotOverlay
  <2>5. CASE WriteOverlay(p)
        BY <2>5 DEF WriteOverlay, Held, Targeted, Approving, Founded
  <2>6. CASE ComposePrompt(p)  BY <2>6 DEF ComposePrompt
  <2>7. CASE InstallPrompt(p)  BY <2>7 DEF InstallPrompt
  <2>8. CASE Approve(p)
    <3>1. Founded(loaded[p])
          BY <2>8 DEF Approve, Held, Targeted, Approving, Withdrawing
    <3>. QED  BY <2>8, <3>1, Resaved DEF Approve, Founded
  <2>9. CASE FailInstall(p)  BY <2>9 DEF FailInstall
  <2>10. CASE UnwindOverlay(p)
    <3>1. target[p] \in Prop /\ snap[target[p]] # "absent"
          BY <2>10 DEF UnwindOverlay, Held, Targeted, Gated, Approving
    <3>. QED  BY <2>10, <3>1 DEF UnwindOverlay
  <2>11. CASE RevertPrompt(p)  BY <2>11 DEF RevertPrompt
  <2>12. CASE Reject(p)
    <3>1. Founded(loaded[p])
          BY <2>12 DEF Reject, Held, Targeted, Approving, Withdrawing
    <3>. QED  BY <2>12, <3>1, Resaved DEF Reject, Founded
  <2>13. CASE RollbackDue(p)
        BY <2>13 DEF RollbackDue, Held, Targeted, Withdrawing
  <2>14. CASE Withdraw(p)
    <3>1. Founded(loaded[p])
          BY <2>14 DEF Withdraw, Held, Targeted, Approving, Withdrawing
    <3>. QED  BY <2>14, <3>1, Resaved DEF Withdraw, Founded
  <2>. QED  BY <1>2, <2>1, <2>2, <2>3, <2>4, <2>5, <2>6, <2>7, <2>8, <2>9,
                <2>10, <2>11, <2>12, <2>13, <2>14 DEF Review
<1>3. ASSUME NEW p \in Proc, Maintain(p) PROVE StrategyTyped'
  <2>1. ASSUME NEW k \in Keep, StartPrune(p, k) PROVE StrategyTyped'
        BY <2>1 DEF StartPrune
  <2>2. CASE StartRepair(p)  BY <2>2 DEF StartRepair
  <2>3. CASE SaveSnapshot(p)  BY <2>3 DEF SaveSnapshot
  <2>4. CASE Remove(p)  BY <2>4 DEF Remove
  <2>5. CASE Rewrite(p)  BY <2>5 DEF Rewrite
  <2>6. CASE FailMaintenance(p)  BY <2>6 DEF FailMaintenance
  <2>. QED  BY <1>3, <2>1, <2>2, <2>3, <2>4, <2>5, <2>6 DEF Maintain
<1>4. ASSUME NEW p \in Proc, Stop(p) PROVE StrategyTyped'
      BY <1>4 DEF Stop
<1>5. CASE UNCHANGED vars
      BY <1>5 DEF vars
<1>. QED  BY <1>1, <1>2, <1>3, <1>4, <1>5 DEF Next

\* Where the processes are and what they carry.
LEMMA StepPlaces == IInv /\ [Next]_vars => PlacesTyped'
<1> SUFFICES ASSUME IInv, [Next]_vars PROVE PlacesTyped'
    OBVIOUS
<1> USE EvolutionAssumption, EmptyProposal
    DEF IInv, TypeOK, PlacesTyped, PC, Recording, Watching, Approving, Withdrawing,
        Maintaining, evidence, memory, procVars, Goto, Return, Decide, Load
<1>1. ASSUME NEW p \in Proc, Run(p) PROVE PlacesTyped'
  <2>1. ASSUME NEW t \in Task, RecordEpisode(p, t[1], t[2]) PROVE PlacesTyped'
        BY <2>1 DEF RecordEpisode
  <2>2. CASE SaveObservation(p)  BY <2>2 DEF SaveObservation
  <2>3. CASE DetectPattern(p)  BY <2>3 DEF DetectPattern
  <2>4. CASE SavePattern(p)
        BY <2>4 DEF SavePattern
  <2>5. CASE Propose(p)  BY <2>5 DEF Propose
  <2>6. CASE FailRecording(p)  BY <2>6 DEF FailRecording
  <2>7. CASE ObserveApproved(p)
    <3>1. CASE Return(p)  BY <3>1
    <3>2. CASE Decide(p, "undoing", [NoPlan EXCEPT !.due = Due])  BY <3>2
    <3>. QED  BY <2>7, <3>1, <3>2 DEF ObserveApproved
  <2>8. CASE NextDue(p)
    <3>1. CASE Return(p)
          BY <3>1, <2>8 DEF NextDue
    <3>2. ASSUME NEW d \in plan[p].due, Load(p, "restoring", d.of, d.was),
                 UNCHANGED <<running, old, draft, undo>>
          PROVE  PlacesTyped'
      <4>1. d.of \in Prop /\ d.was \in Proposal
            BY PlanParts
      <4>. QED  BY <3>2, <4>1, <2>8 DEF NextDue
    <3>. QED  BY <3>1, <3>2, <2>8 DEF NextDue
  <2>. QED  BY <1>1, <2>1, <2>2, <2>3, <2>4, <2>5, <2>6, <2>7, <2>8 DEF Run
<1>2. ASSUME NEW p \in Proc, Review(p) PROVE PlacesTyped'
  <2>1. ASSUME NEW i \in Prop, StartApprove(p, i) PROVE PlacesTyped'
    <3>1. proposals[i] \in Proposal /\ time \in 0..MaxEpisodes
          OBVIOUS
    <3>2. [proposals[i] EXCEPT !.at = time] \in Proposal
          BY <3>1 DEF Proposal
    <3>. QED  BY <2>1, <3>2 DEF StartApprove
  <2>2. ASSUME NEW i \in Prop, StartReject(p, i) PROVE PlacesTyped'
        BY <2>2 DEF StartReject
  <2>3. ASSUME NEW i \in Prop, StartRollback(p, i) PROVE PlacesTyped'
        BY <2>3 DEF StartRollback
  <2>4. CASE SnapshotOverlay(p)  BY <2>4 DEF SnapshotOverlay
  <2>5. CASE WriteOverlay(p)  BY <2>5 DEF WriteOverlay
  <2>6. CASE ComposePrompt(p)  BY <2>6 DEF ComposePrompt
  <2>7. CASE InstallPrompt(p)
    <3>1. CASE pc[p] = "installing"  BY <2>7, <3>1 DEF InstallPrompt
    <3>2. CASE pc[p] = "reinstalling"
      <4>1. target[p] \in Prop
            BY <3>2 DEF Held, Targeted
      <4>2. (IF running[p] THEN loaded[p] ELSE proposals[target[p]]) \in Proposal
            BY <4>1
      <4>. QED  BY <2>7, <3>2, <4>2 DEF InstallPrompt
    <3>. QED  BY <2>7, <3>1, <3>2 DEF InstallPrompt
  <2>8. CASE Approve(p)  BY <2>8 DEF Approve
  <2>9. CASE FailInstall(p)  BY <2>9 DEF FailInstall
  <2>10. CASE UnwindOverlay(p)  BY <2>10 DEF UnwindOverlay
  <2>11. CASE RevertPrompt(p)  BY <2>11 DEF RevertPrompt
  <2>12. CASE Reject(p)  BY <2>12 DEF Reject
  <2>13. CASE RollbackDue(p)
    <3>1. CASE Return(p)  BY <3>1
    <3>2. CASE Goto(p, "rebuilding")  BY <3>2
    <3>. QED  BY <2>13, <3>1, <3>2 DEF RollbackDue
  <2>14. CASE Withdraw(p)
    <3>1. CASE Return(p)  BY <3>1
    <3>2. CASE Goto(p, "undoing")  BY <3>2
    <3>. QED  BY <2>14, <3>1, <3>2 DEF Withdraw
  <2>. QED  BY <1>2, <2>1, <2>2, <2>3, <2>4, <2>5, <2>6, <2>7, <2>8, <2>9,
                <2>10, <2>11, <2>12, <2>13, <2>14 DEF Review
<1>3. ASSUME NEW p \in Proc, Maintain(p) PROVE PlacesTyped'
  <2>1. ASSUME NEW k \in Keep, StartPrune(p, k) PROVE PlacesTyped'
        BY <2>1 DEF StartPrune
  <2>2. CASE StartRepair(p)  BY <2>2 DEF StartRepair
  <2>3. CASE SaveSnapshot(p)  BY <2>3 DEF SaveSnapshot
  <2>4. CASE Remove(p)  BY <2>4 DEF Remove
  <2>5. CASE Rewrite(p)
    <3>1. CASE Return(p)  BY <3>1
    <3>2. CASE UNCHANGED <<pc, target, running, loaded, old, draft, undo>>  BY <3>2
    <3>. QED  BY <2>5, <3>1, <3>2 DEF Rewrite
  <2>6. CASE FailMaintenance(p)  BY <2>6 DEF FailMaintenance
  <2>. QED  BY <1>3, <2>1, <2>2, <2>3, <2>4, <2>5, <2>6 DEF Maintain
<1>4. ASSUME NEW p \in Proc, Stop(p) PROVE PlacesTyped'
      BY <1>4 DEF Stop
<1>5. CASE UNCHANGED vars
      BY <1>5 DEF vars
<1>. QED  BY <1>1, <1>2, <1>3, <1>4, <1>5 DEF Next

\* A step of p changes no plan but that of p, to a sound one.
PlanMade(p) ==
    \E q, u \in Plan :
        /\ plan' = [plan EXCEPT ![p] = q] /\ undo' = [undo EXCEPT ![p] = u]
        /\ SoundPlan(q, u)'

\* What is sound before a step is sound after it.
LEMMA StaysSound ==
    ASSUME IInv, [Next]_vars, NEW q, NEW u, SoundPlan(q, u)
    PROVE  SoundPlan(q, u)'
<1>1. \A o \in q.obs \cup u.obs : o.of \in Prop
      BY DEF SoundPlan, Plan, Observation
<1>2. \A o \in q.obs \cup u.obs : Stored(o.of)'
      BY <1>1, StepGrows DEF SoundPlan, Grows
<1>3. \A d \in q.due : d.of \in Prop /\ Stored(d.of) /\ Founded(d.was)
      BY DEF SoundPlan, Plan
<1>4. \A d \in q.due : Stored(d.of)' /\ Founded(d.was)'
      BY <1>3, StepGrows DEF Grows, Founded
<1>. QED  BY <1>2, <1>4 DEF SoundPlan

LEMMA KeepsPlan ==
    ASSUME IInv, [Next]_vars, NEW p \in Proc, UNCHANGED <<plan, undo>>
    PROVE  PlanMade(p)
<1>1. PICK q \in Plan, u \in Plan : q = plan[p] /\ u = undo[p]
      BY DEF IInv, TypeOK
<1>2. plan' = [plan EXCEPT ![p] = q] /\ undo' = [undo EXCEPT ![p] = u]
      BY <1>1 DEF IInv, TypeOK
<1>3. SoundPlan(q, u)
      BY <1>1 DEF IInv, AllSound
<1>. QED  BY <1>2, <1>3, StaysSound DEF PlanMade

LEMMA ReturnsPlan ==
    ASSUME IInv, [Next]_vars, NEW p \in Proc, Return(p)
    PROVE  PlanMade(p)
<1>1. plan' = [plan EXCEPT ![p] = NoPlan] /\ undo' = [undo EXCEPT ![p] = NoPlan]
      BY DEF Return
<1>. QED  BY <1>1, EmptyPlan, StaysSound DEF PlanMade

\* The plan is replaced, by one as sound as what the files hold.
LEMMA ChangesPlan ==
    ASSUME IInv, [Next]_vars, NEW p \in Proc, NEW q \in Plan, UNCHANGED undo,
           plan' = [plan EXCEPT ![p] = q],
           \A o \in q.obs : Stored(o.of) \/ Stored(o.of)',
           \A d \in q.due : Stored(d.of) /\ Founded(d.was)
    PROVE  PlanMade(p)
<1>1. PICK u \in Plan : u = undo[p]
      BY DEF IInv, TypeOK
<1>2. undo' = [undo EXCEPT ![p] = u]
      BY <1>1 DEF IInv, TypeOK
<1>3. SoundPlan(plan[p], u)
      BY <1>1 DEF IInv, AllSound
<1>4. \A o \in q.obs \cup u.obs : o.of \in Prop /\ (Stored(o.of) \/ Stored(o.of)')
      BY <1>3 DEF SoundPlan, Plan, Observation
<1>5. \A o \in q.obs \cup u.obs : Stored(o.of)'
      BY <1>4, StepGrows DEF Grows
<1>6. \A d \in q.due : d.of \in Prop /\ Stored(d.of) /\ Founded(d.was)
      BY DEF Plan
<1>7. \A d \in q.due : Stored(d.of)' /\ Founded(d.was)'
      BY <1>6, StepGrows DEF Grows, Founded
<1>8. SoundPlan(q, u)'
      BY <1>5, <1>7 DEF SoundPlan
<1>. QED  BY <1>2, <1>8 DEF PlanMade

LEMMA DecidesPlan ==
    ASSUME IInv, [Next]_vars, NEW p \in Proc, NEW s, NEW q \in Plan, Decide(p, s, q),
           \A o \in q.obs : Stored(o.of) \/ Stored(o.of)',
           \A d \in q.due : Stored(d.of) /\ Founded(d.was)
    PROVE  PlanMade(p)
<1>1. plan' = [plan EXCEPT ![p] = q] /\ UNCHANGED undo
      BY DEF Decide
<1>. QED  BY <1>1, ChangesPlan

\* The plan and what undoes it are both replaced.
LEMMA ReplacesPlan ==
    ASSUME IInv, [Next]_vars, NEW p \in Proc, NEW q \in Plan, NEW u \in Plan,
           plan' = [plan EXCEPT ![p] = q], undo' = [undo EXCEPT ![p] = u], SoundPlan(q, u)
    PROVE  PlanMade(p)
<1>1. \E r \in Plan, v \in Plan : r = q /\ v = u
      OBVIOUS
<1>2. PICK r \in Plan, v \in Plan : r = q /\ v = u
      BY <1>1
<1>3. SoundPlan(r, v)'
      BY <1>2, StaysSound
<1>4. plan' = [plan EXCEPT ![p] = r] /\ undo' = [undo EXCEPT ![p] = v]
      BY <1>2
<1>. QED  BY <1>3, <1>4 DEF PlanMade

LEMMA PlansMade ==
    ASSUME IInv, [Next]_vars, NEW p \in Proc, Run(p) \/ Review(p) \/ Maintain(p) \/ Stop(p)
    PROVE  PlanMade(p)
<1>1. CASE Run(p)
  <2>1. ASSUME NEW t \in Task, RecordEpisode(p, t[1], t[2]) PROVE PlanMade(p)
    <3>1. CASE plan' = plan /\ UNCHANGED undo
          BY <3>1, KeepsPlan
    <3>2. ASSUME NEW s \in SUBSET Observation, \A o \in s : Stored(o.of), UNCHANGED undo,
                 plan' = [plan EXCEPT ![p] = [plan[p] EXCEPT !.obs = s]]
          PROVE  PlanMade(p)
      <4>1. plan[p] \in Plan /\ SoundPlan(plan[p], undo[p])
            BY DEF IInv, TypeOK, AllSound
      <4> PICK q \in Plan : q = [plan[p] EXCEPT !.obs = s]
          BY <4>1, PlanParts
      <4>2. q.obs = s /\ q.due = plan[p].due
            BY <4>1 DEF Plan
      <4>3. \A d \in q.due : Stored(d.of) /\ Founded(d.was)
            BY <4>1, <4>2 DEF SoundPlan
      <4>. QED  BY <3>2, <4>2, <4>3, ChangesPlan
    <3>. QED  BY <2>1, <3>1, <3>2, NewEpisode
  <2>2. CASE SaveObservation(p)
    <3>1. ASSUME NEW o \in plan[p].obs, UNCHANGED undo,
                 plan' = [plan EXCEPT ![p].obs = @ \ {o}]
          PROVE  PlanMade(p)
      <4>1. plan[p] \in Plan /\ SoundPlan(plan[p], undo[p])
            BY DEF IInv, TypeOK, AllSound
      <4> PICK q \in Plan : q = [plan[p] EXCEPT !.obs = plan[p].obs \ {o}]
          BY <4>1, PlanParts
      <4>2. q.obs \subseteq plan[p].obs /\ q.due = plan[p].due
            BY <4>1 DEF Plan
      <4>3. plan' = [plan EXCEPT ![p] = q]
            BY <3>1
      <4>4. /\ \A x \in q.obs : Stored(x.of)
            /\ \A x \in q.due : Stored(x.of) /\ Founded(x.was)
            BY <4>1, <4>2 DEF SoundPlan
      <4>. QED  BY <3>1, <4>3, <4>4, ChangesPlan
    <3>. QED  BY <2>2, <3>1 DEF SaveObservation
  <2>3. CASE DetectPattern(p)
    <3>1. CASE Goto(p, "watching")
          BY <3>1, KeepsPlan DEF Goto, memory
    <3>2. ASSUME NEW c \in Class, NEW s \in kSubset(Threshold, Failed(c)), UNCHANGED undo,
                 plan' = [plan EXCEPT ![p].eps = s]
          PROVE  PlanMade(p)
      <4>1. plan[p] \in Plan /\ SoundPlan(plan[p], undo[p])
            BY DEF IInv, TypeOK, AllSound
      <4>2. s \subseteq Episode
            BY <3>2 DEF kSubset, Failed, IInv, TypeOK
      <4> PICK q \in Plan : q = [plan[p] EXCEPT !.eps = s]
          BY <4>1, <4>2, PlanParts
      <4>3. q.obs = plan[p].obs /\ q.due = plan[p].due
            BY <4>1 DEF Plan
      <4>4. plan' = [plan EXCEPT ![p] = q]
            BY <3>2
      <4>5. /\ \A o \in q.obs : Stored(o.of)
            /\ \A d \in q.due : Stored(d.of) /\ Founded(d.was)
            BY <4>1, <4>3 DEF SoundPlan
      <4>. QED  BY <3>2, <4>4, <4>5, ChangesPlan
    <3>3. \/ Goto(p, "watching")
          \/ \E c \in Class : \E s \in kSubset(Threshold, Failed(c)) :
                plan' = [plan EXCEPT ![p].eps = s] /\ UNCHANGED undo
          BY <2>3 DEF DetectPattern
    <3>. QED  BY <3>1, <3>2, <3>3
  <2>4. CASE SavePattern(p)
        BY <2>4, KeepsPlan DEF SavePattern, Goto, Load, memory
  <2>5. CASE Propose(p)
    <3>1. CASE Goto(p, "watching")
          BY <3>1, KeepsPlan DEF Goto, memory
    <3>2. ASSUME NEW a \in Proposable(target[p]),
                 SaveProposal(a.id, [NoProposal EXCEPT !.about = target[p], !.text = a.text,
                                                       !.at = a.at], "pending"),
                 Decide(p, "backfilling", [NoPlan EXCEPT !.obs = Before(p, a.id)])
          PROVE  PlanMade(p)
      <4>1. target[p] \in pat /\ plan[p].eps \subseteq Episode
            BY <2>5, PlanParts DEF Propose, IInv, TypeOK, Held, Targeted
      <4>2. TypeOK
            BY DEF IInv
      <4>3. a.id \in Prop /\ Stored(a.id)'
            BY <3>2, <4>1, <4>2, Proposed DEF SaveProposal, TypeOK, Stored
      <4>4. Before(p, a.id) \subseteq Observation /\ \A o \in Before(p, a.id) : o.of = a.id
            BY <4>1, <4>3 DEF Before, Observation
      <4>5. \A o \in Before(p, a.id) : Stored(o.of)'
            BY <4>3, <4>4
      <4> PICK r \in Plan : r = [NoPlan EXCEPT !.obs = Before(p, a.id)]
          BY <4>4, PlanParts
      <4>6. r.obs = Before(p, a.id) /\ r.due = {}
            BY DEF NoPlan
      <4>7. Decide(p, "backfilling", r) /\ \A o \in r.obs : Stored(o.of)'
            BY <3>2, <4>5, <4>6
      <4>. QED  BY <4>6, <4>7, DecidesPlan
    <3>. QED  BY <2>5, <3>1, <3>2 DEF Propose
  <2>6. CASE FailRecording(p)
        BY <2>6, DecidesPlan, EmptyPlan DEF FailRecording
  <2>7. CASE ObserveApproved(p)
    <3>1. CASE Return(p)  BY <3>1, ReturnsPlan
    <3>2. CASE Decide(p, "undoing", [NoPlan EXCEPT !.due = Due])
      <4>1. ASSUME NEW d \in Due
            PROVE  d \in [of : Prop, was : Proposal] /\ Stored(d.of) /\ Founded(d.was)
        <5>1. PICK i \in Prop : d = [of |-> i, was |-> proposals[i]] /\ Stored(i)
              BY DEF Due, Marked, Stored
        <5>2. Founded(proposals[i])
              BY <5>1 DEF IInv, AllFounded
        <5>. QED  BY <5>1, <5>2 DEF Founded
      <4> PICK r \in Plan : r = [NoPlan EXCEPT !.due = Due]
          BY <4>1, PlanParts
      <4>2. r.due = Due /\ r.obs = {}
            BY DEF NoPlan
      <4>3. Decide(p, "undoing", r) /\ \A d \in r.due : Stored(d.of) /\ Founded(d.was)
            BY <3>2, <4>1, <4>2
      <4>. QED  BY <4>2, <4>3, DecidesPlan
    <3>. QED  BY <2>7, <3>1, <3>2 DEF ObserveApproved
  <2>8. CASE NextDue(p)
    <3>1. CASE Return(p)  BY <3>1, ReturnsPlan
    <3>2. ASSUME NEW d \in plan[p].due, UNCHANGED undo,
                 plan' = [plan EXCEPT ![p].due = @ \ {d}]
          PROVE  PlanMade(p)
      <4>1. plan[p] \in Plan /\ SoundPlan(plan[p], undo[p])
            BY DEF IInv, TypeOK, AllSound
      <4> PICK q \in Plan : q = [plan[p] EXCEPT !.due = plan[p].due \ {d}]
          BY <4>1, PlanParts
      <4>2. q.obs = plan[p].obs /\ q.due \subseteq plan[p].due
            BY <4>1 DEF Plan
      <4>3. plan' = [plan EXCEPT ![p] = q]
            BY <3>2
      <4>4. /\ \A x \in q.obs : Stored(x.of)
            /\ \A x \in q.due : Stored(x.of) /\ Founded(x.was)
            BY <4>1, <4>2 DEF SoundPlan
      <4>. QED  BY <3>2, <4>3, <4>4, ChangesPlan
    <3>. QED  BY <2>8, <3>1, <3>2 DEF NextDue
  <2>. QED  BY <1>1, <2>1, <2>2, <2>3, <2>4, <2>5, <2>6, <2>7, <2>8 DEF Run
<1>2. CASE Review(p)
  <2>1. ASSUME NEW i \in Prop, StartApprove(p, i) PROVE PlanMade(p)
        BY <2>1, KeepsPlan DEF StartApprove, Goto, Load, memory
  <2>2. ASSUME NEW i \in Prop, StartReject(p, i) PROVE PlanMade(p)
        BY <2>2, KeepsPlan DEF StartReject, Goto, Load, memory
  <2>3. ASSUME NEW i \in Prop, StartRollback(p, i) PROVE PlanMade(p)
        BY <2>3, KeepsPlan DEF StartRollback, Goto, Load, memory
  <2>4. CASE SnapshotOverlay(p)
        BY <2>4, KeepsPlan DEF SnapshotOverlay, Goto, Load, memory
  <2>5. CASE WriteOverlay(p)
        BY <2>5, KeepsPlan DEF WriteOverlay, Goto, Load, memory
  <2>6. CASE ComposePrompt(p)
        BY <2>6, KeepsPlan DEF ComposePrompt, Goto, Load, memory
  <2>7. CASE InstallPrompt(p)
        BY <2>7, KeepsPlan DEF InstallPrompt, Goto, Load, memory
  <2>8. CASE Approve(p)
        BY <2>8, ReturnsPlan DEF Approve
  <2>9. CASE FailInstall(p)
        BY <2>9, KeepsPlan DEF FailInstall, Goto, Load, memory
  <2>10. CASE UnwindOverlay(p)
        BY <2>10, KeepsPlan DEF UnwindOverlay, Goto, Load, memory
  <2>11. CASE RevertPrompt(p)
        BY <2>11, ReturnsPlan DEF RevertPrompt
  <2>12. CASE Reject(p)
        BY <2>12, ReturnsPlan DEF Reject
  <2>13. CASE RollbackDue(p)
    <3>1. CASE Return(p)  BY <3>1, ReturnsPlan
    <3>2. CASE Goto(p, "rebuilding")  BY <3>2, KeepsPlan DEF Goto, memory
    <3>. QED  BY <2>13, <3>1, <3>2 DEF RollbackDue
  <2>14. CASE Withdraw(p)
    <3>1. CASE Return(p)  BY <3>1, ReturnsPlan
    <3>2. CASE Goto(p, "undoing")  BY <3>2, KeepsPlan DEF Goto, memory
    <3>. QED  BY <2>14, <3>1, <3>2 DEF Withdraw
  <2>. QED  BY <1>2, <2>1, <2>2, <2>3, <2>4, <2>5, <2>6, <2>7, <2>8, <2>9, <2>10, <2>11,
                <2>12, <2>13, <2>14 DEF Review
<1>3. CASE Maintain(p)
  <2>1. ASSUME NEW k \in Keep, StartPrune(p, k) PROVE PlanMade(p)
    <3> DEFINE q == [NoPlan EXCEPT
                        !.eps = (episodes \cap Linked(Terminal)) \ (Linked(Active) \cup Window(k)),
                        !.obs = {o \in obs : o.of \in Terminal}]
    <3>1. Decide(p, "saving", q)
          BY <2>1 DEF StartPrune
    <3>2. q \in Plan /\ q.obs \subseteq obs /\ q.due = {}
          BY DEF NoPlan, Plan, IInv, TypeOK
    <3> PICK r \in Plan : r = q
        BY <3>2
    <3>3. Decide(p, "saving", r) /\ r.due = {} /\ \A o \in r.obs : Stored(o.of)
          BY <3>1, <3>2 DEF IInv, AllGrounded
    <3>. QED  BY <3>3, DecidesPlan
  <2>2. CASE StartRepair(p)
    <3> DEFINE orphans == {o \in obs : o.of \in Marked({"absent"}) \/ o.ep \notin episodes}
               broken == {c \in pat : ~(ids[c] \subseteq episodes)}
               kept == {[of |-> c, ids |-> ids[c] \cap episodes] : c \in broken}
               now == {[of |-> c, ids |-> ids[c]] : c \in broken}
               q == [plan[p] EXCEPT !.obs = orphans, !.pats = kept]
               u == [undo[p] EXCEPT !.obs = orphans, !.pats = now]
    <3>1. plan' = [plan EXCEPT ![p] = q] /\ undo' = [undo EXCEPT ![p] = u]
          BY <2>2 DEF StartRepair
    <3>2. /\ orphans \subseteq Observation /\ \A o \in orphans : Stored(o.of)
          /\ kept \subseteq [of : Class, ids : SUBSET Episode]
          /\ now \subseteq [of : Class, ids : SUBSET Episode]
          BY DEF IInv, TypeOK, AllGrounded
    <3>3. plan[p] \in Plan /\ undo[p] \in Plan /\ SoundPlan(plan[p], undo[p])
          BY DEF IInv, TypeOK, AllSound
    <3> HIDE DEF orphans, kept, now
    <3>4. /\ q \in Plan /\ q.obs = orphans /\ q.due = plan[p].due
          /\ u \in Plan /\ u.obs = orphans
          BY <3>2, <3>3 DEF Plan
    <3>. QED  BY <3>1, <3>2, <3>3, <3>4, ReplacesPlan DEF SoundPlan
  <2>3. CASE SaveSnapshot(p)
        BY <2>3, KeepsPlan DEF SaveSnapshot, Goto, Load, memory
  <2>4. CASE Remove(p)
    <3>1. plan[p] \in Plan /\ undo[p] \in Plan /\ SoundPlan(plan[p], undo[p])
          BY DEF IInv, TypeOK, AllSound
    <3>2. ASSUME NEW e \in plan[p].eps, plan' = [plan EXCEPT ![p].eps = @ \ {e}],
                 undo' = [undo EXCEPT ![p].eps = @ \cup {e}]
          PROVE  PlanMade(p)
      <4> DEFINE q == [plan[p] EXCEPT !.eps = plan[p].eps \ {e}]
                 u == [undo[p] EXCEPT !.eps = undo[p].eps \cup {e}]
      <4>1. plan' = [plan EXCEPT ![p] = q] /\ undo' = [undo EXCEPT ![p] = u]
            BY <3>2
      <4>2. /\ q \in Plan /\ q.obs = plan[p].obs /\ q.due = plan[p].due
            /\ u \in Plan /\ u.obs = undo[p].obs
            BY <3>2, <3>1 DEF Plan
      <4> HIDE DEF q, u
      <4>3. SoundPlan(q, u)
            BY <3>2, <3>1, <4>2 DEF SoundPlan
      <4>. QED  BY <4>1, <4>2, <4>3, ReplacesPlan
    <3>3. ASSUME NEW o \in plan[p].obs, plan' = [plan EXCEPT ![p].obs = @ \ {o}],
                 undo' = [undo EXCEPT ![p].obs = @ \cup {o}]
          PROVE  PlanMade(p)
      <4> DEFINE q == [plan[p] EXCEPT !.obs = plan[p].obs \ {o}]
                 u == [undo[p] EXCEPT !.obs = undo[p].obs \cup {o}]
      <4>1. plan' = [plan EXCEPT ![p] = q] /\ undo' = [undo EXCEPT ![p] = u]
            BY <3>3
      <4>2. /\ q \in Plan /\ q.obs \subseteq plan[p].obs /\ q.due = plan[p].due
            /\ u \in Plan /\ u.obs = undo[p].obs \cup {o}
            BY <3>3, <3>1 DEF Plan
      <4> HIDE DEF q, u
      <4>3. SoundPlan(q, u)
            BY <3>3, <3>1, <4>2 DEF SoundPlan
      <4>. QED  BY <4>1, <4>2, <4>3, ReplacesPlan
    <3>. QED  BY <2>4, <3>2, <3>3 DEF Remove
  <2>5. CASE Rewrite(p)
    <3>1. CASE Return(p)  BY <3>1, ReturnsPlan
    <3>2. ASSUME NEW f \in plan[p].pats, UNCHANGED undo,
                 plan' = [plan EXCEPT ![p].pats = @ \ {f}]
          PROVE  PlanMade(p)
      <4>1. plan[p] \in Plan /\ SoundPlan(plan[p], undo[p])
            BY DEF IInv, TypeOK, AllSound
      <4> PICK q \in Plan : q = [plan[p] EXCEPT !.pats = plan[p].pats \ {f}]
          BY <4>1, PlanParts
      <4>2. q.obs = plan[p].obs /\ q.due = plan[p].due
            BY <4>1 DEF Plan
      <4>3. plan' = [plan EXCEPT ![p] = q]
            BY <3>2
      <4>4. /\ \A x \in q.obs : Stored(x.of)
            /\ \A x \in q.due : Stored(x.of) /\ Founded(x.was)
            BY <4>1, <4>2 DEF SoundPlan
      <4>. QED  BY <3>2, <4>3, <4>4, ChangesPlan
    <3>. QED  BY <2>5, <3>1, <3>2 DEF Rewrite
  <2>6. CASE FailMaintenance(p)
        BY <2>6, ReturnsPlan DEF FailMaintenance
  <2>. QED  BY <1>3, <2>1, <2>2, <2>3, <2>4, <2>5, <2>6 DEF Maintain
<1>4. CASE Stop(p)
      BY <1>4, ReturnsPlan DEF Stop
<1>. QED  BY <1>1, <1>2, <1>3, <1>4

\* The plans stay typed and sound.
LEMMA StepPlans ==
    IInv /\ [Next]_vars => AllSound' /\ (plan \in [Proc -> Plan] /\ undo \in [Proc -> Plan])'
<1> SUFFICES ASSUME IInv, [Next]_vars
             PROVE  AllSound' /\ (plan \in [Proc -> Plan] /\ undo \in [Proc -> Plan])'
    OBVIOUS
<1>1. CASE UNCHANGED <<plan, undo>>
  <2>1. ASSUME NEW r \in Proc PROVE SoundPlan(plan[r], undo[r])'
    <3>1. PICK q, u : q = plan[r] /\ u = undo[r]
          OBVIOUS
    <3>2. SoundPlan(q, u)'
          BY <3>1, StaysSound DEF IInv, AllSound
    <3>3. plan'[r] = q /\ undo'[r] = u
          BY <1>1, <3>1
    <3>. QED  BY <3>2, <3>3 DEF SoundPlan
  <2>. QED  BY <1>1, <2>1 DEF AllSound, IInv, TypeOK
<1>2. ASSUME NEW p \in Proc, PlanMade(p)
      PROVE  AllSound' /\ (plan \in [Proc -> Plan] /\ undo \in [Proc -> Plan])'
  <2>1. PICK q \in Plan, u \in Plan : /\ plan' = [plan EXCEPT ![p] = q]
                                      /\ undo' = [undo EXCEPT ![p] = u] /\ SoundPlan(q, u)'
        BY <1>2 DEF PlanMade
  <2>2. plan \in [Proc -> Plan] /\ undo \in [Proc -> Plan]
        BY DEF IInv, TypeOK
  <2>3. ASSUME NEW r \in Proc PROVE SoundPlan(plan[r], undo[r])'
    <3>1. CASE r = p
      <4>1. plan'[r] = q /\ undo'[r] = u
            BY <2>1, <2>2, <3>1
      <4>. QED  BY <2>1, <4>1 DEF SoundPlan
    <3>2. CASE r # p
      <4>1. PICK x, y : x = plan[r] /\ y = undo[r]
            OBVIOUS
      <4>2. plan'[r] = x /\ undo'[r] = y
            BY <2>1, <2>2, <3>2, <4>1
      <4>3. SoundPlan(x, y)'
            BY <4>1, StaysSound DEF IInv, AllSound
      <4>. QED  BY <4>2, <4>3 DEF SoundPlan
    <3>. QED  BY <3>1, <3>2
  <2>. QED  BY <2>1, <2>2, <2>3 DEF AllSound
<1>3. UNCHANGED <<plan, undo>> \/ \E p \in Proc : PlanMade(p)
      BY PlansMade DEF Next, vars, procVars, memory
<1>. QED  BY <1>1, <1>2, <1>3


\* A process that does not move keeps what it holds.
LEMMA StaysHeld ==
    ASSUME IInv, [Next]_vars, NEW q \in Proc,
           pc'[q] = pc[q] /\ target'[q] = target[q] /\ running'[q] = running[q],
           loaded'[q] = loaded[q] /\ old'[q] = old[q] /\ draft'[q] = draft[q]
    PROVE  (Targeted(q) /\ Gated(q))'
<1>1. Targeted(q) /\ Gated(q) /\ Grows
      BY StepGrows DEF IInv, Held
<1>2. Founded(loaded[q]) => Founded(loaded[q])'
      BY <1>1 DEF Founded, Grows
<1>3. target[q] \in Prop /\ Stored(target[q]) => Stored(target[q])'
      BY <1>1 DEF Grows
<1>4. pc[q] \in Approving => target[q] \in Prop
      BY <1>1 DEF Targeted
<1>5. Stored(target[q])' = (proposals'[target[q]].status # "absent")
      BY DEF Stored
<1>6. Targeted(q)'
      BY <1>1, <1>2, <1>3, <1>5 DEF Targeted, Stored, Grows, Founded
<1>7. Gated(q)'
      BY <1>1, <1>4 DEF Gated, Grows
<1>. QED  BY <1>6, <1>7

\* What a step of p makes of what p itself holds.
LEMMA ActorTargeted ==
    ASSUME IInv, [Next]_vars, NEW p \in Proc, Run(p) \/ Review(p) \/ Maintain(p) \/ Stop(p)
    PROVE  Targeted(p)'
<1>0. Targeted(p) /\ Gated(p) /\ SoundPlan(plan[p], undo[p]) /\ TypeOK /\ AllFounded /\ Grows
      BY StepGrows DEF IInv, Held, AllSound
<1>a. Targeted(p) /\ TypeOK /\ pat \subseteq pat'
      BY <1>0 DEF Grows
<1> USE <1>a
    DEF TypeOK, Targeted, Stored, Founded, Approving, Withdrawing,
        evidence, memory, procVars, Goto, Return, Decide, Load
<1>1. CASE Run(p)
  <2>1. ASSUME NEW t \in Task, RecordEpisode(p, t[1], t[2]) PROVE Targeted(p)'
        BY <2>1 DEF RecordEpisode
  <2>2. CASE SaveObservation(p)  BY <2>2 DEF SaveObservation
  <2>3. CASE DetectPattern(p)  BY <2>3 DEF DetectPattern
  <2>4. CASE SavePattern(p)
        BY <2>4, EvolutionAssumption DEF SavePattern
  <2>5. CASE Propose(p)
        BY <2>5 DEF Propose
  <2>6. CASE FailRecording(p)  BY <2>6 DEF FailRecording
  <2>7. CASE ObserveApproved(p)  BY <2>7 DEF ObserveApproved
  <2>8. CASE NextDue(p)
    <3>1. CASE Return(p)
          BY <3>1, <2>8 DEF NextDue
    <3>2. ASSUME NEW d \in plan[p].due, Load(p, "restoring", d.of, d.was),
                 UNCHANGED <<running, old, draft, undo, proposals, pat>>
          PROVE  Targeted(p)'
      <4>1. d.of \in Prop /\ Stored(d.of) /\ Founded(d.was)
            BY <1>0, PlanParts DEF SoundPlan
      <4>. QED  BY <3>2, <4>1
    <3>. QED  BY <3>1, <3>2, <2>8 DEF NextDue
  <2>. QED  BY <1>1, <2>1, <2>2, <2>3, <2>4, <2>5, <2>6, <2>7, <2>8 DEF Run
<1>2. CASE Review(p)
  <2>1. ASSUME NEW i \in Prop, StartApprove(p, i) PROVE Targeted(p)'
    <3>1. Founded(proposals[i])
          BY <2>1, <1>0 DEF StartApprove, AllFounded, Stored
    <3>2. Founded([proposals[i] EXCEPT !.at = time])
          BY <3>1 DEF Proposal
    <3>. QED  BY <2>1, <3>2 DEF StartApprove
  <2>2. ASSUME NEW i \in Prop, StartReject(p, i) PROVE Targeted(p)'
    <3>1. Founded(proposals[i])
          BY <2>2, <1>0 DEF StartReject, AllFounded, Stored
    <3>. QED  BY <2>2, <3>1 DEF StartReject
  <2>3. ASSUME NEW i \in Prop, StartRollback(p, i) PROVE Targeted(p)'
    <3>1. Stored(i)
          BY <2>3, <1>0 DEF StartRollback, RestoreOverlay, AllFounded
    <3>. QED  BY <2>3, <3>1 DEF StartRollback
  <2>4. CASE SnapshotOverlay(p)  BY <2>4 DEF SnapshotOverlay
  <2>5. CASE WriteOverlay(p)  BY <2>5 DEF WriteOverlay
  <2>6. CASE ComposePrompt(p)  BY <2>6 DEF ComposePrompt
  <2>7. CASE InstallPrompt(p)
    <3>1. CASE pc[p] = "installing"  BY <2>7, <3>1 DEF InstallPrompt
    <3>2. CASE pc[p] = "reinstalling"
      <4>1. target[p] \in Prop /\ Stored(target[p])
            BY <3>2
      <4>2. Founded(IF running[p] THEN loaded[p] ELSE proposals[target[p]])
            BY <4>1, <3>2, <1>0 DEF AllFounded
      <4>. QED  BY <2>7, <3>2, <4>1, <4>2 DEF InstallPrompt
    <3>. QED  BY <2>7, <3>1, <3>2 DEF InstallPrompt
  <2>8. CASE Approve(p)  BY <2>8 DEF Approve
  <2>9. CASE FailInstall(p)  BY <2>9 DEF FailInstall
  <2>10. CASE UnwindOverlay(p)  BY <2>10 DEF UnwindOverlay
  <2>11. CASE RevertPrompt(p)  BY <2>11 DEF RevertPrompt
  <2>12. CASE Reject(p)  BY <2>12 DEF Reject
  <2>13. CASE RollbackDue(p)
    <3>1. CASE Return(p)  BY <3>1
    <3>2. CASE Goto(p, "rebuilding")  BY <2>13, <3>2 DEF RollbackDue
    <3>. QED  BY <2>13, <3>1, <3>2 DEF RollbackDue
  <2>14. CASE Withdraw(p)
    <3>1. CASE Return(p)  BY <3>1
    <3>2. CASE Goto(p, "undoing")  BY <3>2
    <3>. QED  BY <2>14, <3>1, <3>2 DEF Withdraw
  <2>. QED  BY <1>2, <2>1, <2>2, <2>3, <2>4, <2>5, <2>6, <2>7, <2>8, <2>9,
                <2>10, <2>11, <2>12, <2>13, <2>14 DEF Review
<1>3. CASE Maintain(p)
  <2>1. ASSUME NEW k \in Keep, StartPrune(p, k) PROVE Targeted(p)'
        BY <2>1 DEF StartPrune
  <2>2. CASE StartRepair(p)  BY <2>2 DEF StartRepair
  <2>3. CASE SaveSnapshot(p)  BY <2>3 DEF SaveSnapshot
  <2>4. CASE Remove(p)  BY <2>4 DEF Remove
  <2>5. CASE Rewrite(p)
    <3>1. CASE Return(p)  BY <3>1
    <3>2. CASE UNCHANGED <<pc, target, running, loaded, proposals, pat>>  BY <3>2
    <3>. QED  BY <2>5, <3>1, <3>2 DEF Rewrite
  <2>6. CASE FailMaintenance(p)  BY <2>6 DEF FailMaintenance
  <2>. QED  BY <1>3, <2>1, <2>2, <2>3, <2>4, <2>5, <2>6 DEF Maintain
<1>4. CASE Stop(p)
      BY <1>4 DEF Stop
<1>. QED  BY <1>1, <1>2, <1>3, <1>4

LEMMA ActorGated ==
    ASSUME IInv, [Next]_vars, NEW p \in Proc, Run(p) \/ Review(p) \/ Maintain(p) \/ Stop(p)
    PROVE  Gated(p)'
<1>0. Gated(p) /\ Targeted(p) /\ TypeOK /\ GatedInForce /\ gated \subseteq gated'
      BY StepGrows DEF IInv, Held, Grows
<1> USE <1>0, EvolutionAssumption
    DEF TypeOK, Gated, Approving, strategy, memory, procVars, history, Goto, Return, Decide, Load
<1>1. CASE Run(p)
  <2>1. ASSUME NEW t \in Task, RecordEpisode(p, t[1], t[2]) PROVE Gated(p)'
        BY <2>1 DEF RecordEpisode
  <2>2. CASE SaveObservation(p)  BY <2>2 DEF SaveObservation
  <2>3. CASE DetectPattern(p)  BY <2>3 DEF DetectPattern
  <2>4. CASE SavePattern(p)  BY <2>4 DEF SavePattern
  <2>5. CASE Propose(p)
    <3>1. pc'[p] \in {"backfilling", "watching"}
          BY <2>5 DEF Propose
    <3>2. UNCHANGED <<old, draft, gated>>
          BY <2>5 DEF Propose
    <3>. QED  BY <3>1, <3>2
  <2>6. CASE FailRecording(p)  BY <2>6 DEF FailRecording
  <2>7. CASE ObserveApproved(p)  BY <2>7 DEF ObserveApproved
  <2>8. CASE NextDue(p)  BY <2>8 DEF NextDue
  <2>. QED  BY <1>1, <2>1, <2>2, <2>3, <2>4, <2>5, <2>6, <2>7, <2>8 DEF Run
<1>2. CASE Review(p)
  <2>1. ASSUME NEW i \in Prop, StartApprove(p, i) PROVE Gated(p)'
        BY <2>1 DEF StartApprove, GatedInForce
  <2>2. ASSUME NEW i \in Prop, StartReject(p, i) PROVE Gated(p)'
        BY <2>2 DEF StartReject
  <2>3. ASSUME NEW i \in Prop, StartRollback(p, i) PROVE Gated(p)'
        BY <2>3 DEF StartRollback
  <2>4. CASE SnapshotOverlay(p)
        BY <2>4 DEF SnapshotOverlay, Targeted
  <2>5. CASE WriteOverlay(p)  BY <2>5 DEF WriteOverlay
  <2>6. CASE ComposePrompt(p)
        BY <2>6 DEF ComposePrompt, GatedInForce
  <2>7. CASE InstallPrompt(p)  BY <2>7 DEF InstallPrompt
  <2>8. CASE Approve(p)  BY <2>8 DEF Approve
  <2>9. CASE FailInstall(p)  BY <2>9 DEF FailInstall
  <2>10. CASE UnwindOverlay(p)  BY <2>10 DEF UnwindOverlay
  <2>11. CASE RevertPrompt(p)  BY <2>11 DEF RevertPrompt
  <2>12. CASE Reject(p)  BY <2>12 DEF Reject
  <2>13. CASE RollbackDue(p)  BY <2>13 DEF RollbackDue
  <2>14. CASE Withdraw(p)  BY <2>14 DEF Withdraw
  <2>. QED  BY <1>2, <2>1, <2>2, <2>3, <2>4, <2>5, <2>6, <2>7, <2>8, <2>9,
                <2>10, <2>11, <2>12, <2>13, <2>14 DEF Review
<1>3. CASE Maintain(p)
  <2>1. ASSUME NEW k \in Keep, StartPrune(p, k) PROVE Gated(p)'
        BY <2>1 DEF StartPrune
  <2>2. CASE StartRepair(p)  BY <2>2 DEF StartRepair
  <2>3. CASE SaveSnapshot(p)  BY <2>3 DEF SaveSnapshot
  <2>4. CASE Remove(p)  BY <2>4 DEF Remove
  <2>5. CASE Rewrite(p)  BY <2>5 DEF Rewrite
  <2>6. CASE FailMaintenance(p)  BY <2>6 DEF FailMaintenance
  <2>. QED  BY <1>3, <2>1, <2>2, <2>3, <2>4, <2>5, <2>6 DEF Maintain
<1>4. CASE Stop(p)
      BY <1>4 DEF Stop
<1>. QED  BY <1>1, <1>2, <1>3, <1>4

LEMMA StepHeld == IInv /\ [Next]_vars => Held'
<1> SUFFICES ASSUME IInv, [Next]_vars, NEW q \in Proc PROVE (Targeted(q) /\ Gated(q))'
    BY DEF Held
<1>1. CASE UNCHANGED vars
      BY <1>1, StaysHeld DEF vars, procVars, memory
<1>2. ASSUME NEW p \in Proc, Run(p) \/ Review(p) \/ Maintain(p) \/ Stop(p)
      PROVE  (Targeted(q) /\ Gated(q))'
  <2>1. CASE q = p
        BY <1>2, <2>1, ActorTargeted, ActorGated
  <2>2. CASE q # p
        BY <1>2, <2>2, StepLocal, StaysHeld DEF Local
  <2>. QED  BY <2>1, <2>2
<1>. QED  BY <1>1, <1>2 DEF Next

\* A proposal's file keeps holding a proposal about a pattern; an overlay is
\* only kept for a proposal that is stored.
LEMMA StepFounded == IInv /\ [Next]_vars => AllFounded'
<1> SUFFICES ASSUME IInv, [Next]_vars PROVE AllFounded'
    OBVIOUS
<1> USE StepGrows
    DEF IInv, TypeOK, AllFounded, Grows, Stored, Founded, SaveProposal, evidence, strategy
<1>1. ASSUME NEW p \in Proc, Run(p) PROVE AllFounded'
  <2>1. ASSUME NEW t \in Task, RecordEpisode(p, t[1], t[2]) PROVE AllFounded'
        BY <2>1 DEF RecordEpisode
  <2>2. CASE SaveObservation(p)  BY <2>2 DEF SaveObservation
  <2>3. CASE DetectPattern(p)  BY <2>3 DEF DetectPattern
  <2>4. CASE SavePattern(p)  BY <2>4 DEF SavePattern
  <2>5. CASE Propose(p)
    <3>1. CASE UNCHANGED proposals  BY <2>5, <3>1 DEF Propose
    <3>2. ASSUME NEW a \in Proposable(target[p]),
                 SaveProposal(a.id, [NoProposal EXCEPT !.about = target[p], !.text = a.text,
                                                       !.at = a.at], "pending")
          PROVE  AllFounded'
      <4>1. target[p] \in pat
            BY <2>5 DEF Propose, Held, Targeted
      <4>2. PICK r : Founded(r) /\ a.id \in Prop /\ proposals' = [proposals EXCEPT ![a.id] = r]
            BY <3>2, <4>1, Proposed
      <4>3. UNCHANGED <<pat, snap>>
            BY <2>5 DEF Propose
      <4>. QED  BY <4>2, <4>3
    <3>. QED  BY <2>5, <3>1, <3>2 DEF Propose
  <2>6. CASE FailRecording(p)  BY <2>6 DEF FailRecording
  <2>7. CASE ObserveApproved(p)  BY <2>7 DEF ObserveApproved
  <2>8. CASE NextDue(p)  BY <2>8 DEF NextDue
  <2>. QED  BY <1>1, <2>1, <2>2, <2>3, <2>4, <2>5, <2>6, <2>7, <2>8 DEF Run
<1>2. ASSUME NEW p \in Proc, Review(p) PROVE AllFounded'
  <2>1. ASSUME NEW i \in Prop, StartApprove(p, i) PROVE AllFounded'
        BY <2>1 DEF StartApprove
  <2>2. ASSUME NEW i \in Prop, StartReject(p, i) PROVE AllFounded'
        BY <2>2 DEF StartReject
  <2>3. ASSUME NEW i \in Prop, StartRollback(p, i) PROVE AllFounded'
        BY <2>3 DEF StartRollback
  <2>4. CASE SnapshotOverlay(p)
        BY <2>4 DEF SnapshotOverlay, Held, Targeted, Approving
  <2>5. CASE WriteOverlay(p)  BY <2>5 DEF WriteOverlay
  <2>6. CASE ComposePrompt(p)  BY <2>6 DEF ComposePrompt
  <2>7. CASE InstallPrompt(p)  BY <2>7 DEF InstallPrompt
  <2>8. CASE Approve(p)
    <3>1. Founded(loaded[p]) /\ target[p] \in Prop
          BY <2>8 DEF Approve, Held, Targeted, Approving, Withdrawing
    <3>. QED  BY <2>8, <3>1, Resaved DEF Approve
  <2>9. CASE FailInstall(p)  BY <2>9 DEF FailInstall
  <2>10. CASE UnwindOverlay(p)  BY <2>10 DEF UnwindOverlay
  <2>11. CASE RevertPrompt(p)  BY <2>11 DEF RevertPrompt
  <2>12. CASE Reject(p)
    <3>1. Founded(loaded[p]) /\ target[p] \in Prop
          BY <2>12 DEF Reject, Held, Targeted, Approving, Withdrawing
    <3>. QED  BY <2>12, <3>1, Resaved DEF Reject
  <2>13. CASE RollbackDue(p)  BY <2>13 DEF RollbackDue
  <2>14. CASE Withdraw(p)
    <3>1. Founded(loaded[p]) /\ target[p] \in Prop
          BY <2>14 DEF Withdraw, Held, Targeted, Approving, Withdrawing
    <3>. QED  BY <2>14, <3>1, Resaved DEF Withdraw
  <2>. QED  BY <1>2, <2>1, <2>2, <2>3, <2>4, <2>5, <2>6, <2>7, <2>8, <2>9,
                <2>10, <2>11, <2>12, <2>13, <2>14 DEF Review
<1>3. ASSUME NEW p \in Proc, Maintain(p) PROVE AllFounded'
  <2>1. ASSUME NEW k \in Keep, StartPrune(p, k) PROVE AllFounded'
        BY <2>1 DEF StartPrune
  <2>2. CASE StartRepair(p)  BY <2>2 DEF StartRepair
  <2>3. CASE SaveSnapshot(p)  BY <2>3 DEF SaveSnapshot
  <2>4. CASE Remove(p)  BY <2>4 DEF Remove
  <2>5. CASE Rewrite(p)  BY <2>5 DEF Rewrite
  <2>6. CASE FailMaintenance(p)  BY <2>6 DEF FailMaintenance
  <2>. QED  BY <1>3, <2>1, <2>2, <2>3, <2>4, <2>5, <2>6 DEF Maintain
<1>4. ASSUME NEW p \in Proc, Stop(p) PROVE AllFounded'
      BY <1>4 DEF Stop
<1>5. CASE UNCHANGED vars
      BY <1>5 DEF vars
<1>. QED  BY <1>1, <1>2, <1>3, <1>4, <1>5 DEF Next

\* An overlay is written only for a proposal that passed the gate, or put back.
LEMMA StepGated == IInv /\ [Next]_vars => GatedInForce'
<1> SUFFICES ASSUME IInv, [Next]_vars PROVE GatedInForce'
    OBVIOUS
<1> USE EvolutionAssumption
    DEF IInv, TypeOK, Held, Gated, GatedInForce, RestoreOverlay, Approving, Withdrawing,
        strategy, history
<1>1. ASSUME NEW p \in Proc, Run(p) PROVE GatedInForce'
  <2>1. ASSUME NEW t \in Task, RecordEpisode(p, t[1], t[2]) PROVE GatedInForce'
        BY <2>1 DEF RecordEpisode
  <2>2. CASE SaveObservation(p)  BY <2>2 DEF SaveObservation
  <2>3. CASE DetectPattern(p)  BY <2>3 DEF DetectPattern
  <2>4. CASE SavePattern(p)  BY <2>4 DEF SavePattern
  <2>5. CASE Propose(p)
    <3>1. UNCHANGED <<overlay, prompt, snap, gated>>
          BY <2>5 DEF Propose
    <3>. QED  BY <3>1
  <2>6. CASE FailRecording(p)  BY <2>6 DEF FailRecording
  <2>7. CASE ObserveApproved(p)  BY <2>7 DEF ObserveApproved
  <2>8. CASE NextDue(p)  BY <2>8 DEF NextDue
  <2>. QED  BY <1>1, <2>1, <2>2, <2>3, <2>4, <2>5, <2>6, <2>7, <2>8 DEF Run
<1>2. ASSUME NEW p \in Proc, Review(p) PROVE GatedInForce'
  <2>1. ASSUME NEW i \in Prop, StartApprove(p, i) PROVE GatedInForce'
        BY <2>1 DEF StartApprove
  <2>2. ASSUME NEW i \in Prop, StartReject(p, i) PROVE GatedInForce'
        BY <2>2 DEF StartReject
  <2>3. ASSUME NEW i \in Prop, StartRollback(p, i) PROVE GatedInForce'
        BY <2>3 DEF StartRollback
  <2>4. CASE SnapshotOverlay(p)  BY <2>4 DEF SnapshotOverlay
  <2>5. CASE WriteOverlay(p)  BY <2>5 DEF WriteOverlay
  <2>6. CASE ComposePrompt(p)  BY <2>6 DEF ComposePrompt
  <2>7. CASE InstallPrompt(p)  BY <2>7 DEF InstallPrompt
  <2>8. CASE Approve(p)  BY <2>8 DEF Approve
  <2>9. CASE FailInstall(p)  BY <2>9 DEF FailInstall
  <2>10. CASE UnwindOverlay(p)
        BY <2>10 DEF UnwindOverlay, Targeted
  <2>11. CASE RevertPrompt(p)  BY <2>11 DEF RevertPrompt
  <2>12. CASE Reject(p)  BY <2>12 DEF Reject
  <2>13. CASE RollbackDue(p)
        BY <2>13 DEF RollbackDue, Targeted
  <2>14. CASE Withdraw(p)  BY <2>14 DEF Withdraw
  <2>. QED  BY <1>2, <2>1, <2>2, <2>3, <2>4, <2>5, <2>6, <2>7, <2>8, <2>9,
                <2>10, <2>11, <2>12, <2>13, <2>14 DEF Review
<1>3. ASSUME NEW p \in Proc, Maintain(p) PROVE GatedInForce'
  <2>1. ASSUME NEW k \in Keep, StartPrune(p, k) PROVE GatedInForce'
        BY <2>1 DEF StartPrune
  <2>2. CASE StartRepair(p)  BY <2>2 DEF StartRepair
  <2>3. CASE SaveSnapshot(p)  BY <2>3 DEF SaveSnapshot
  <2>4. CASE Remove(p)  BY <2>4 DEF Remove
  <2>5. CASE Rewrite(p)  BY <2>5 DEF Rewrite
  <2>6. CASE FailMaintenance(p)  BY <2>6 DEF FailMaintenance
  <2>. QED  BY <1>3, <2>1, <2>2, <2>3, <2>4, <2>5, <2>6 DEF Maintain
<1>4. ASSUME NEW p \in Proc, Stop(p) PROVE GatedInForce'
      BY <1>4 DEF Stop
<1>5. CASE UNCHANGED vars
      BY <1>5 DEF vars
<1>. QED  BY <1>1, <1>2, <1>3, <1>4, <1>5 DEF Next

\* Approved only with the experiment and the snapshot, which stay.
LEMMA StepCanReturn == IInv /\ [Next]_vars => ApprovedCanReturn'
<1> SUFFICES ASSUME IInv, [Next]_vars PROVE ApprovedCanReturn'
    OBVIOUS
<1> USE StepGrows
    DEF IInv, TypeOK, ApprovedCanReturn, Marked, Grows, SaveProposal
<1>1. ASSUME NEW p \in Proc, Run(p) PROVE ApprovedCanReturn'
  <2>1. ASSUME NEW t \in Task, RecordEpisode(p, t[1], t[2]) PROVE ApprovedCanReturn'
        BY <2>1 DEF RecordEpisode
  <2>2. CASE SaveObservation(p)  BY <2>2 DEF SaveObservation
  <2>3. CASE DetectPattern(p)  BY <2>3 DEF DetectPattern
  <2>4. CASE SavePattern(p)  BY <2>4 DEF SavePattern
  <2>5. CASE Propose(p)
    <3>1. CASE UNCHANGED proposals  BY <2>5, <3>1 DEF Propose
    <3>2. ASSUME NEW a \in Proposable(target[p]),
                 SaveProposal(a.id, [NoProposal EXCEPT !.about = target[p], !.text = a.text,
                                                       !.at = a.at], "pending")
          PROVE  ApprovedCanReturn'
      <4>1. target[p] \in pat
            BY <2>5 DEF Propose, Held, Targeted
      <4>. QED  BY <2>5, <3>2, <4>1, Proposed DEF Propose
    <3>. QED  BY <2>5, <3>1, <3>2 DEF Propose
  <2>6. CASE FailRecording(p)  BY <2>6 DEF FailRecording
  <2>7. CASE ObserveApproved(p)  BY <2>7 DEF ObserveApproved
  <2>8. CASE NextDue(p)  BY <2>8 DEF NextDue
  <2>. QED  BY <1>1, <2>1, <2>2, <2>3, <2>4, <2>5, <2>6, <2>7, <2>8 DEF Run
<1>2. ASSUME NEW p \in Proc, Review(p) PROVE ApprovedCanReturn'
  <2>1. ASSUME NEW i \in Prop, StartApprove(p, i) PROVE ApprovedCanReturn'
        BY <2>1 DEF StartApprove
  <2>2. ASSUME NEW i \in Prop, StartReject(p, i) PROVE ApprovedCanReturn'
        BY <2>2 DEF StartReject
  <2>3. ASSUME NEW i \in Prop, StartRollback(p, i) PROVE ApprovedCanReturn'
        BY <2>3 DEF StartRollback
  <2>4. CASE SnapshotOverlay(p)  BY <2>4 DEF SnapshotOverlay
  <2>5. CASE WriteOverlay(p)  BY <2>5 DEF WriteOverlay
  <2>6. CASE ComposePrompt(p)  BY <2>6 DEF ComposePrompt
  <2>7. CASE InstallPrompt(p)  BY <2>7 DEF InstallPrompt
  <2>8. CASE Approve(p)
    <3>1. Founded(loaded[p]) /\ target[p] \in Prop
          BY <2>8 DEF Approve, Held, Targeted, Approving
    <3>2. loaded[p].text \in gated /\ snap[target[p]] # "absent"
          BY <2>8 DEF Approve, Held, Gated, Approving
    <3>3. PICK r : /\ r.text = loaded[p].text /\ r.status = "approved"
                   /\ proposals' = [proposals EXCEPT ![target[p]] = r]
          BY <2>8, <3>1, Resaved DEF Approve
    <3>4. UNCHANGED <<gated, snap>>
          BY <2>8 DEF Approve, strategy, history
    <3>. QED  BY <3>1, <3>2, <3>3, <3>4
  <2>9. CASE FailInstall(p)  BY <2>9 DEF FailInstall
  <2>10. CASE UnwindOverlay(p)  BY <2>10 DEF UnwindOverlay
  <2>11. CASE RevertPrompt(p)  BY <2>11 DEF RevertPrompt
  <2>12. CASE Reject(p)
    <3>1. Founded(loaded[p]) /\ target[p] \in Prop
          BY <2>12 DEF Reject, Held, Targeted, Approving, Withdrawing
    <3>. QED  BY <2>12, <3>1, Resaved DEF Reject
  <2>13. CASE RollbackDue(p)  BY <2>13 DEF RollbackDue
  <2>14. CASE Withdraw(p)
    <3>1. Founded(loaded[p]) /\ target[p] \in Prop
          BY <2>14 DEF Withdraw, Held, Targeted, Approving, Withdrawing
    <3>. QED  BY <2>14, <3>1, Resaved DEF Withdraw
  <2>. QED  BY <1>2, <2>1, <2>2, <2>3, <2>4, <2>5, <2>6, <2>7, <2>8, <2>9,
                <2>10, <2>11, <2>12, <2>13, <2>14 DEF Review
<1>3. ASSUME NEW p \in Proc, Maintain(p) PROVE ApprovedCanReturn'
  <2>1. ASSUME NEW k \in Keep, StartPrune(p, k) PROVE ApprovedCanReturn'
        BY <2>1 DEF StartPrune
  <2>2. CASE StartRepair(p)  BY <2>2 DEF StartRepair
  <2>3. CASE SaveSnapshot(p)  BY <2>3 DEF SaveSnapshot
  <2>4. CASE Remove(p)  BY <2>4 DEF Remove
  <2>5. CASE Rewrite(p)  BY <2>5 DEF Rewrite
  <2>6. CASE FailMaintenance(p)  BY <2>6 DEF FailMaintenance
  <2>. QED  BY <1>3, <2>1, <2>2, <2>3, <2>4, <2>5, <2>6 DEF Maintain
<1>4. ASSUME NEW p \in Proc, Stop(p) PROVE ApprovedCanReturn'
      BY <1>4 DEF Stop
<1>5. CASE UNCHANGED vars
      BY <1>5 DEF vars
<1>. QED  BY <1>1, <1>2, <1>3, <1>4, <1>5 DEF Next

\* Only observations of stored proposals are saved or put back.
LEMMA StepGrounded == IInv /\ [Next]_vars => AllGrounded'
<1> SUFFICES ASSUME IInv, [Next]_vars PROVE AllGrounded'
    OBVIOUS
<1> USE StepGrows
    DEF IInv, TypeOK, AllGrounded, AllSound, SoundPlan, WithObservations, evidence
<1>0. \A o : o \in obs => o.of \in Prop /\ Stored(o.of)'
      BY DEF Observation, Grows
<1>a. \A q \in Proc : \A o \in plan[q].obs \cup undo[q].obs : o.of \in Prop /\ Stored(o.of)'
      BY DEF Plan, Observation, Grows
<1> USE <1>0, <1>a
<1>1. ASSUME NEW p \in Proc, Run(p) PROVE AllGrounded'
  <2>1. ASSUME NEW t \in Task, RecordEpisode(p, t[1], t[2]) PROVE AllGrounded'
        BY <2>1 DEF RecordEpisode
  <2>2. CASE SaveObservation(p)  BY <2>2 DEF SaveObservation
  <2>3. CASE DetectPattern(p)  BY <2>3 DEF DetectPattern
  <2>4. CASE SavePattern(p)  BY <2>4 DEF SavePattern
  <2>5. CASE Propose(p)  BY <2>5 DEF Propose
  <2>6. CASE FailRecording(p)  BY <2>6 DEF FailRecording
  <2>7. CASE ObserveApproved(p)  BY <2>7 DEF ObserveApproved
  <2>8. CASE NextDue(p)  BY <2>8 DEF NextDue
  <2>. QED  BY <1>1, <2>1, <2>2, <2>3, <2>4, <2>5, <2>6, <2>7, <2>8 DEF Run
<1>2. ASSUME NEW p \in Proc, Review(p) PROVE AllGrounded'
  <2>1. ASSUME NEW i \in Prop, StartApprove(p, i) PROVE AllGrounded'
        BY <2>1 DEF StartApprove
  <2>2. ASSUME NEW i \in Prop, StartReject(p, i) PROVE AllGrounded'
        BY <2>2 DEF StartReject
  <2>3. ASSUME NEW i \in Prop, StartRollback(p, i) PROVE AllGrounded'
        BY <2>3 DEF StartRollback
  <2>4. CASE SnapshotOverlay(p)  BY <2>4 DEF SnapshotOverlay
  <2>5. CASE WriteOverlay(p)  BY <2>5 DEF WriteOverlay
  <2>6. CASE ComposePrompt(p)  BY <2>6 DEF ComposePrompt
  <2>7. CASE InstallPrompt(p)  BY <2>7 DEF InstallPrompt
  <2>8. CASE Approve(p)  BY <2>8 DEF Approve
  <2>9. CASE FailInstall(p)  BY <2>9 DEF FailInstall
  <2>10. CASE UnwindOverlay(p)  BY <2>10 DEF UnwindOverlay
  <2>11. CASE RevertPrompt(p)  BY <2>11 DEF RevertPrompt
  <2>12. CASE Reject(p)  BY <2>12 DEF Reject
  <2>13. CASE RollbackDue(p)  BY <2>13 DEF RollbackDue
  <2>14. CASE Withdraw(p)  BY <2>14 DEF Withdraw
  <2>. QED  BY <1>2, <2>1, <2>2, <2>3, <2>4, <2>5, <2>6, <2>7, <2>8, <2>9,
                <2>10, <2>11, <2>12, <2>13, <2>14 DEF Review
<1>3. ASSUME NEW p \in Proc, Maintain(p) PROVE AllGrounded'
  <2>1. ASSUME NEW k \in Keep, StartPrune(p, k) PROVE AllGrounded'
        BY <2>1 DEF StartPrune
  <2>2. CASE StartRepair(p)  BY <2>2 DEF StartRepair
  <2>3. CASE SaveSnapshot(p)  BY <2>3 DEF SaveSnapshot
  <2>4. CASE Remove(p)  BY <2>4 DEF Remove
  <2>5. CASE Rewrite(p)  BY <2>5 DEF Rewrite
  <2>6. CASE FailMaintenance(p)  BY <2>6 DEF FailMaintenance
  <2>. QED  BY <1>3, <2>1, <2>2, <2>3, <2>4, <2>5, <2>6 DEF Maintain
<1>4. ASSUME NEW p \in Proc, Stop(p) PROVE AllGrounded'
      BY <1>4 DEF Stop
<1>5. CASE UNCHANGED vars
      BY <1>5 DEF vars
<1>. QED  BY <1>1, <1>2, <1>3, <1>4, <1>5 DEF Next

\* The names of observations stay when others are saved over them.
LEMMA NamesKept ==
    ASSUME NEW s
    PROVE  Names(obs) \cup Names(s) \subseteq Names(WithObservations(s))
<1>1. ASSUME NEW x \in obs PROVE [of |-> x.of, ep |-> x.ep] \in Names(WithObservations(s))
  <2>1. CASE \A o \in s : x.of # o.of \/ x.ep # o.ep
        BY <2>1 DEF Names, WithObservations
  <2>2. CASE \E o \in s : x.of = o.of /\ x.ep = o.ep
        BY <2>2 DEF Names, WithObservations
  <2>. QED  BY <2>1, <2>2
<1>2. ASSUME NEW x \in s PROVE [of |-> x.of, ep |-> x.ep] \in Names(WithObservations(s))
      BY DEF Names, WithObservations
<1>. QED  BY <1>1, <1>2 DEF Names

\* What is removed was put into a snapshot before, whoever else writes.
LEMMA StepSaved == IInv /\ [Next]_vars => AllSaved'
<1> SUFFICES ASSUME IInv, [Next]_vars PROVE AllSaved'
    OBVIOUS
<1> USE StepGrows
    DEF IInv, TypeOK, AllSaved, Grows, memory, procVars, Goto, Return, Decide, Load
<1>1. ASSUME NEW p \in Proc, Run(p) PROVE AllSaved'
  <2>1. ASSUME NEW t \in Task, RecordEpisode(p, t[1], t[2]) PROVE AllSaved'
    <3>1. pc'[p] \in {"noting", "watching"} /\ Local(p)
          BY <2>1, <1>1, StepLocal DEF RecordEpisode
    <3>. QED  BY <3>1 DEF Local
  <2>2. CASE SaveObservation(p)  BY <2>2 DEF SaveObservation
  <2>3. CASE DetectPattern(p)  BY <2>3 DEF DetectPattern
  <2>4. CASE SavePattern(p)  BY <2>4 DEF SavePattern
  <2>5. CASE Propose(p)
    <3>1. pc'[p] \in {"backfilling", "watching"} /\ Local(p)
          BY <2>5, <1>1, StepLocal DEF Propose
    <3>. QED  BY <3>1 DEF Local
  <2>6. CASE FailRecording(p)  BY <2>6 DEF FailRecording
  <2>7. CASE ObserveApproved(p)  BY <2>7 DEF ObserveApproved
  <2>8. CASE NextDue(p)  BY <2>8 DEF NextDue
  <2>. QED  BY <1>1, <2>1, <2>2, <2>3, <2>4, <2>5, <2>6, <2>7, <2>8 DEF Run
<1>2. ASSUME NEW p \in Proc, Review(p) PROVE AllSaved'
  <2>1. ASSUME NEW i \in Prop, StartApprove(p, i) PROVE AllSaved'
        BY <2>1 DEF StartApprove
  <2>2. ASSUME NEW i \in Prop, StartReject(p, i) PROVE AllSaved'
        BY <2>2 DEF StartReject
  <2>3. ASSUME NEW i \in Prop, StartRollback(p, i) PROVE AllSaved'
        BY <2>3 DEF StartRollback
  <2>4. CASE SnapshotOverlay(p)  BY <2>4 DEF SnapshotOverlay
  <2>5. CASE WriteOverlay(p)  BY <2>5 DEF WriteOverlay
  <2>6. CASE ComposePrompt(p)  BY <2>6 DEF ComposePrompt
  <2>7. CASE InstallPrompt(p)  BY <2>7 DEF InstallPrompt
  <2>8. CASE Approve(p)  BY <2>8 DEF Approve
  <2>9. CASE FailInstall(p)  BY <2>9 DEF FailInstall
  <2>10. CASE UnwindOverlay(p)  BY <2>10 DEF UnwindOverlay
  <2>11. CASE RevertPrompt(p)  BY <2>11 DEF RevertPrompt
  <2>12. CASE Reject(p)  BY <2>12 DEF Reject
  <2>13. CASE RollbackDue(p)  BY <2>13 DEF RollbackDue
  <2>14. CASE Withdraw(p)  BY <2>14 DEF Withdraw
  <2>. QED  BY <1>2, <2>1, <2>2, <2>3, <2>4, <2>5, <2>6, <2>7, <2>8, <2>9,
                <2>10, <2>11, <2>12, <2>13, <2>14 DEF Review
<1>3. ASSUME NEW p \in Proc, Maintain(p) PROVE AllSaved'
  <2>1. ASSUME NEW k \in Keep, StartPrune(p, k) PROVE AllSaved'
        BY <2>1 DEF StartPrune
  <2>2. CASE StartRepair(p)  BY <2>2 DEF StartRepair
  <2>3. CASE SaveSnapshot(p)  BY <2>3 DEF SaveSnapshot
  <2>4. CASE Remove(p)
    <3>1. Local(p) /\ saved \subseteq saved'
          BY <1>3, StepLocal
    <3>2. plan[p] \in Plan
          OBVIOUS
    <3>3. plan'[p].eps \subseteq plan[p].eps /\ plan'[p].obs \subseteq plan[p].obs
      <4>1. CASE \E e : plan' = [plan EXCEPT ![p].eps = @ \ {e}]
            BY <4>1, <3>2 DEF Plan
      <4>2. CASE \E o : plan' = [plan EXCEPT ![p].obs = @ \ {o}]
            BY <4>2, <3>2 DEF Plan
      <4>. QED  BY <2>4, <4>1, <4>2 DEF Remove
    <3>4. Names(plan'[p].obs) \subseteq Names(plan[p].obs)
          BY <3>3 DEF Names
    <3>. QED  BY <2>4, <3>1, <3>3, <3>4 DEF Remove, Local
  <2>5. CASE Rewrite(p)
    <3>1. Local(p) /\ saved \subseteq saved'
          BY <1>3, StepLocal
    <3>2. plan[p] \in Plan
          OBVIOUS
    <3>3. CASE Return(p)
          BY <3>1, <3>3 DEF Local
    <3>4. CASE plan'[p].eps = plan[p].eps /\ plan'[p].obs = plan[p].obs /\ UNCHANGED pc
          BY <2>5, <3>1, <3>4 DEF Rewrite, Local
    <3>5. CASE UNCHANGED pc /\ \E f : plan' = [plan EXCEPT ![p].pats = @ \ {f}]
      <4>1. plan'[p].eps = plan[p].eps /\ plan'[p].obs = plan[p].obs
            BY <3>5, <3>2 DEF Plan
      <4>. QED  BY <3>5, <3>4, <4>1
    <3>. QED  BY <2>5, <3>3, <3>5 DEF Rewrite
  <2>6. CASE FailMaintenance(p)  BY <2>6 DEF FailMaintenance
  <2>. QED  BY <1>3, <2>1, <2>2, <2>3, <2>4, <2>5, <2>6 DEF Maintain
<1>4. ASSUME NEW p \in Proc, Stop(p) PROVE AllSaved'
      BY <1>4 DEF Stop
<1>5. CASE UNCHANGED vars
      BY <1>5 DEF vars
<1>. QED  BY <1>1, <1>2, <1>3, <1>4, <1>5 DEF Next

\* No step loses a file of evidence.
LEMMA StepRecoverable == IInv /\ [Next]_vars => Recoverable'
<1> SUFFICES ASSUME IInv, [Next]_vars PROVE Recoverable'
    OBVIOUS
<1> USE DEF IInv, Recoverable, evidence, history
<1>1. ASSUME NEW p \in Proc, Run(p) PROVE Recoverable'
  <2>1. ASSUME NEW t \in Task, RecordEpisode(p, t[1], t[2]) PROVE Recoverable'
    <3>1. PICK e : /\ episodes' = episodes \cup {e} /\ recorded' = recorded \cup {e}
                   /\ UNCHANGED <<obs, saved>>
          BY <2>1, NewEpisode
    <3>. QED  BY <3>1
  <2>2. CASE SaveObservation(p)
    <3>1. PICK o : /\ obs' = WithObservations({o}) /\ recorded' = recorded \cup Names({o})
                   /\ UNCHANGED <<episodes, saved>>
          BY <2>2 DEF SaveObservation
    <3>2. Names(obs') = Names(WithObservations({o}))
          BY <3>1
    <3>. QED  BY <3>1, <3>2, NamesKept
  <2>3. CASE DetectPattern(p)  BY <2>3 DEF DetectPattern
  <2>4. CASE SavePattern(p)  BY <2>4 DEF SavePattern
  <2>5. CASE Propose(p)
    <3>1. UNCHANGED <<episodes, obs, saved, recorded>>
          BY <2>5 DEF Propose
    <3>. QED  BY <3>1
  <2>6. CASE FailRecording(p)  BY <2>6 DEF FailRecording
  <2>7. CASE ObserveApproved(p)  BY <2>7 DEF ObserveApproved
  <2>8. CASE NextDue(p)  BY <2>8 DEF NextDue
  <2>. QED  BY <1>1, <2>1, <2>2, <2>3, <2>4, <2>5, <2>6, <2>7, <2>8 DEF Run
<1>2. ASSUME NEW p \in Proc, Review(p) PROVE Recoverable'
  <2>1. ASSUME NEW i \in Prop, StartApprove(p, i) PROVE Recoverable'
        BY <2>1 DEF StartApprove
  <2>2. ASSUME NEW i \in Prop, StartReject(p, i) PROVE Recoverable'
        BY <2>2 DEF StartReject
  <2>3. ASSUME NEW i \in Prop, StartRollback(p, i) PROVE Recoverable'
        BY <2>3 DEF StartRollback
  <2>4. CASE SnapshotOverlay(p)  BY <2>4 DEF SnapshotOverlay
  <2>5. CASE WriteOverlay(p)  BY <2>5 DEF WriteOverlay
  <2>6. CASE ComposePrompt(p)  BY <2>6 DEF ComposePrompt
  <2>7. CASE InstallPrompt(p)  BY <2>7 DEF InstallPrompt
  <2>8. CASE Approve(p)  BY <2>8 DEF Approve
  <2>9. CASE FailInstall(p)  BY <2>9 DEF FailInstall
  <2>10. CASE UnwindOverlay(p)  BY <2>10 DEF UnwindOverlay
  <2>11. CASE RevertPrompt(p)  BY <2>11 DEF RevertPrompt
  <2>12. CASE Reject(p)  BY <2>12 DEF Reject
  <2>13. CASE RollbackDue(p)  BY <2>13 DEF RollbackDue
  <2>14. CASE Withdraw(p)  BY <2>14 DEF Withdraw
  <2>. QED  BY <1>2, <2>1, <2>2, <2>3, <2>4, <2>5, <2>6, <2>7, <2>8, <2>9,
                <2>10, <2>11, <2>12, <2>13, <2>14 DEF Review
<1>3. ASSUME NEW p \in Proc, Maintain(p) PROVE Recoverable'
  <2>1. ASSUME NEW k \in Keep, StartPrune(p, k) PROVE Recoverable'
        BY <2>1 DEF StartPrune
  <2>2. CASE StartRepair(p)  BY <2>2 DEF StartRepair
  <2>3. CASE SaveSnapshot(p)  BY <2>3 DEF SaveSnapshot
  <2>4. CASE Remove(p)
    <3>1. /\ plan[p].eps \cup Names(plan[p].obs) \subseteq saved
          /\ saved' = saved /\ recorded' = recorded
          BY <2>4 DEF Remove, AllSaved
    <3>2. episodes \subseteq episodes' \cup plan[p].eps
          BY <2>4 DEF Remove
    <3>3. ASSUME NEW x \in obs PROVE [of |-> x.of, ep |-> x.ep] \in Names(obs') \cup saved
      <4>1. CASE x \in obs'  BY <4>1 DEF Names
      <4>2. CASE x \notin obs'
        <5>1. \E o \in plan[p].obs : x.of = o.of /\ x.ep = o.ep
              BY <2>4, <4>2 DEF Remove
        <5>2. [of |-> x.of, ep |-> x.ep] \in Names(plan[p].obs)
              BY <5>1 DEF Names
        <5>. QED  BY <5>2, <3>1
      <4>. QED  BY <4>1, <4>2
    <3>4. Names(obs) \subseteq Names(obs') \cup saved
          BY <3>3 DEF Names
    <3>. QED  BY <3>1, <3>2, <3>4
  <2>5. CASE Rewrite(p)  BY <2>5 DEF Rewrite
  <2>6. CASE FailMaintenance(p)
    <3>1. /\ episodes \subseteq episodes' /\ obs' = WithObservations(undo[p].obs)
          /\ UNCHANGED <<saved, recorded>>
          BY <2>6 DEF FailMaintenance
    <3>2. Names(obs') = Names(WithObservations(undo[p].obs))
          BY <3>1
    <3>. QED  BY <3>1, <3>2, NamesKept
  <2>. QED  BY <1>3, <2>1, <2>2, <2>3, <2>4, <2>5, <2>6 DEF Maintain
<1>4. ASSUME NEW p \in Proc, Stop(p) PROVE Recoverable'
      BY <1>4 DEF Stop
<1>5. CASE UNCHANGED vars
      BY <1>5 DEF vars
<1>. QED  BY <1>1, <1>2, <1>3, <1>4, <1>5 DEF Next

LEMMA StepInv == IInv /\ [Next]_vars => IInv'
<1> SUFFICES ASSUME IInv, [Next]_vars PROVE IInv'
    OBVIOUS
<1>1. TypeOK'
      BY StepFiles, StepStrategy, StepPlaces, StepPlans
         DEF TypeOK, FilesTyped, StrategyTyped, PlacesTyped
<1>2. AllSound'
      BY StepPlans
<1>. QED  BY <1>1, <1>2, StepHeld, StepFounded, StepGated, StepCanReturn, StepGrounded,
             StepSaved, StepRecoverable DEF IInv

-----------------------------------------------------------------------------
(* What the proofs establish, however many commands run at once             *)

\* The inductive invariant holds of every behaviour.
THEOREM Invariant == Spec => []IInv
<1>1. Init => IInv
      BY InitInv
<1>2. IInv /\ [Next]_vars => IInv'
      BY StepInv
<1>. QED  BY <1>1, <1>2, PTL DEF Spec

\* What the stores and the processes of omr run, evolve and repair hold keeps
\* its type, however many of them run at once.
THEOREM AlwaysTyped == Spec => []TypeOK
<1>1. IInv => TypeOK
      BY DEF IInv
<1>. QED  BY <1>1, Invariant, PTL

\* Whatever overlay is in force, is in the installed prompt, or can be restored
\* passed the promotion gate of evolve approve.
THEOREM AlwaysGated == Spec => []GatedInForce
<1>1. IInv => GatedInForce
      BY DEF IInv
<1>. QED  BY <1>1, Invariant, PTL

\* A proposal that is marked approved has its experiment and its snapshot.
THEOREM AlwaysCanReturn == Spec => []ApprovedCanReturn
<1>1. IInv => ApprovedCanReturn
      BY DEF IInv
<1>. QED  BY <1>1, Invariant, PTL

\* Every observation is about a proposal and a pattern that exist.
THEOREM AlwaysGrounded == Spec => []EvidenceGrounded
<1>1. IInv => EvidenceGrounded
  <2> SUFFICES ASSUME IInv, NEW o \in obs
               PROVE  o.of \notin Marked({"absent"}) /\ proposals[o.of].about \in pat
      BY DEF EvidenceGrounded
  <2>1. o.of \in Prop /\ Stored(o.of)
        BY DEF IInv, TypeOK, AllGrounded, Observation
  <2>2. Founded(proposals[o.of])
        BY <2>1 DEF IInv, AllFounded
  <2>. QED  BY <2>1, <2>2 DEF Marked, Stored, Founded
<1>. QED  BY <1>1, Invariant, PTL

\* Prune and repair take no episode and no observation that a snapshot does not
\* hold, whatever they race with and wherever they die.
THEOREM AlwaysRecoverable == Spec => []Recoverable
<1>1. IInv => Recoverable
      BY DEF IInv
<1>. QED  BY <1>1, Invariant, PTL

-----------------------------------------------------------------------------
(* One command at a time                                                    *)

OneAtATime == \A p, q \in Proc : p = q

\* What the only command has chosen: the episodes that it lists in a pattern are
\* there, and what it removes or rewrites is of no proposal that is active.
Keeps(p) ==
    /\ pc[p] = "idle" => plan[p] = NoPlan /\ undo[p] = NoPlan
    /\ pc[p] = "patterning" => plan[p].eps \subseteq episodes
    /\ pc[p] = "proposing" => ids[target[p]] \subseteq episodes
    /\ pc[p] \in Approving => ids[loaded[p].about] \subseteq episodes
    /\ pc[p] \in Maintaining =>
          \A i \in Active :
              /\ ids[proposals[i].about] \cap plan[p].eps = {}
              /\ \A f \in plan[p].pats \cup undo[p].pats : f.of # proposals[i].about

KInv == IInv /\ (OneAtATime => EvidenceKept /\ \A p \in Proc : Keeps(p))

\* A proposal that is active is about a pattern.
LEMMA ActiveFounded == ASSUME IInv, NEW i \in Active
                       PROVE  i \in Prop /\ Founded(proposals[i]) /\ proposals[i].about \in Class
BY DEF IInv, TypeOK, AllFounded, Founded, Stored, Active, Marked

\* No removal and no rewriting reaches the pattern of an active proposal, and
\* what becomes active has its episodes.
LEMMA StepKept ==
    ASSUME KInv, [Next]_vars, OneAtATime PROVE EvidenceKept'
<1>0. /\ IInv /\ TypeOK /\ EvidenceKept
      /\ \A p \in Proc : Keeps(p) /\ Targeted(p) /\ SoundPlan(plan[p], undo[p])
      BY DEF KInv, IInv, Held, AllSound
<1>a. CASE UNCHANGED <<ids, proposals>> /\ episodes \subseteq episodes'
      BY <1>a, <1>0 DEF EvidenceKept, Active, Marked
<1>1. ASSUME NEW p \in Proc, Run(p) PROVE EvidenceKept'
  <2>1. CASE \E t \in Task : RecordEpisode(p, t[1], t[2])
        BY <2>1, <1>a DEF RecordEpisode
  <2>2. CASE SaveObservation(p) \/ DetectPattern(p) \/ FailRecording(p) \/ ObserveApproved(p)
               \/ NextDue(p)
        BY <2>2, <1>a
           DEF SaveObservation, DetectPattern, FailRecording, ObserveApproved, NextDue, evidence
  <2>3. CASE SavePattern(p)
    <3>1. /\ plan[p].eps \subseteq episodes /\ UNCHANGED <<episodes, proposals>>
          /\ ids' = [ids EXCEPT ![target[p]] = plan[p].eps]
          BY <2>3, <1>0 DEF SavePattern, Keeps
    <3>2. \A i \in Active : proposals[i].about \in Class
          BY <1>0, ActiveFounded
    <3>. QED  BY <3>1, <3>2, <1>0 DEF EvidenceKept, Active, Marked, TypeOK
  <2>4. CASE Propose(p)
    <3>1. UNCHANGED <<ids, episodes>> /\ target[p] \in pat /\ ids[target[p]] \subseteq episodes
          BY <2>4, <1>0 DEF Propose, evidence, Keeps, Targeted
    <3>2. CASE UNCHANGED proposals
          BY <3>1, <3>2, <1>a
    <3>3. ASSUME NEW a \in Proposable(target[p]),
                 SaveProposal(a.id, [NoProposal EXCEPT !.about = target[p], !.text = a.text,
                                                       !.at = a.at], "pending")
          PROVE  EvidenceKept'
      <4>1. PICK r : /\ r.about = target[p] /\ a.id \in Prop
                     /\ proposals' = [proposals EXCEPT ![a.id] = r]
            BY <3>1, <3>3, <1>0, Proposed DEF SaveProposal
      <4>. QED  BY <3>1, <4>1, <1>0 DEF EvidenceKept, Active, Marked, TypeOK
    <3>. QED  BY <2>4, <3>2, <3>3 DEF Propose
  <2>. QED  BY <1>1, <2>1, <2>2, <2>3, <2>4 DEF Run
<1>2. ASSUME NEW p \in Proc, Review(p) PROVE EvidenceKept'
  <2>1. ASSUME NEW i \in Prop, StartApprove(p, i) \/ StartReject(p, i) \/ StartRollback(p, i)
        PROVE  EvidenceKept'
        BY <2>1, <1>a DEF StartApprove, StartReject, StartRollback, evidence
  <2>2. CASE SnapshotOverlay(p) \/ WriteOverlay(p) \/ ComposePrompt(p) \/ InstallPrompt(p)
        BY <2>2, <1>a DEF SnapshotOverlay, WriteOverlay, ComposePrompt, InstallPrompt, evidence
  <2>3. CASE FailInstall(p) \/ UnwindOverlay(p) \/ RevertPrompt(p) \/ RollbackDue(p)
        BY <2>3, <1>a DEF FailInstall, UnwindOverlay, RevertPrompt, RollbackDue, evidence
  <2>4. CASE Approve(p)
    <3>1. /\ UNCHANGED <<ids, episodes>> /\ ids[loaded[p].about] \subseteq episodes
          /\ Founded(loaded[p]) /\ target[p] \in Prop
          BY <2>4, <1>0 DEF Approve, evidence, Keeps, Targeted, Approving
    <3>2. PICK r : r.about = loaded[p].about /\ proposals' = [proposals EXCEPT ![target[p]] = r]
          BY <2>4, <3>1, Resaved DEF Approve, SaveProposal
    <3>. QED  BY <3>1, <3>2, <1>0 DEF EvidenceKept, Active, Marked, TypeOK
  <2>5. CASE Reject(p) \/ Withdraw(p)
    <3>1. UNCHANGED <<ids, episodes>> /\ Founded(loaded[p]) /\ target[p] \in Prop
          BY <2>5, <1>0 DEF Reject, Withdraw, evidence, Targeted, Withdrawing
    <3>2. PICK s \in {"rejected", "rolled_back"} :
             proposals' = [proposals EXCEPT ![target[p]] = [loaded[p] EXCEPT !.status = s]]
          BY <2>5 DEF Reject, Withdraw, SaveProposal
    <3>3. [loaded[p] EXCEPT !.status = s].status = s
          BY <3>1 DEF Founded, Proposal
    <3>. QED  BY <3>1, <3>2, <3>3, <1>0 DEF EvidenceKept, Active, Marked, TypeOK
  <2>. QED  BY <1>2, <2>1, <2>2, <2>3, <2>4, <2>5 DEF Review
<1>3. ASSUME NEW p \in Proc, Maintain(p) PROVE EvidenceKept'
  <2>1. ASSUME NEW k \in Keep, StartPrune(p, k) PROVE EvidenceKept'
        BY <2>1, <1>a DEF StartPrune, evidence
  <2>2. CASE StartRepair(p) \/ SaveSnapshot(p)
        BY <2>2, <1>a DEF StartRepair, SaveSnapshot, evidence
  <2>3. CASE Remove(p)
    <3>1. \A i \in Active : ids[proposals[i].about] \cap plan[p].eps = {}
          BY <2>3, <1>0 DEF Remove, Keeps, Maintaining
    <3>2. episodes \ plan[p].eps \subseteq episodes' /\ UNCHANGED <<ids, proposals>>
          BY <2>3 DEF Remove
    <3>. QED  BY <3>1, <3>2, <1>0 DEF EvidenceKept, Active, Marked
  <2>4. CASE Rewrite(p)
    <3>1. UNCHANGED <<episodes, proposals>>
          BY <2>4 DEF Rewrite
    <3>2. CASE UNCHANGED ids
          BY <3>1, <3>2, <1>a
    <3>3. ASSUME NEW f \in plan[p].pats, ids' = [ids EXCEPT ![f.of] = f.ids]
          PROVE  EvidenceKept'
      <4>1. \A i \in Active : f.of # proposals[i].about /\ proposals[i].about \in Class
            BY <2>4, <1>0, ActiveFounded DEF Rewrite, Keeps, Maintaining
      <4>. QED  BY <3>1, <3>3, <4>1, <1>0 DEF EvidenceKept, Active, Marked, TypeOK
    <3>. QED  BY <2>4, <3>2, <3>3 DEF Rewrite
  <2>5. CASE FailMaintenance(p)
    <3> DEFINE at(c) == {f.ids : f \in {x \in undo[p].pats : x.of = c}}
    <3>1. /\ UNCHANGED proposals /\ episodes \subseteq episodes'
          /\ ids' = [c \in Class |-> IF at(c) = {} THEN ids[c] ELSE UNION at(c)]
          BY <2>5 DEF FailMaintenance
    <3>2. \A i \in Active : at(proposals[i].about) = {} /\ proposals[i].about \in Class
          BY <2>5, <1>0, ActiveFounded DEF FailMaintenance, Keeps, Maintaining
    <3> HIDE DEF at
    <3>. QED  BY <3>1, <3>2, <1>0 DEF EvidenceKept, Active, Marked
  <2>. QED  BY <1>3, <2>1, <2>2, <2>3, <2>4, <2>5 DEF Maintain
<1>4. ASSUME NEW p \in Proc, Stop(p) PROVE EvidenceKept'
      BY <1>4, <1>a DEF Stop, evidence
<1>5. CASE UNCHANGED vars
      BY <1>5, <1>a DEF vars, evidence
<1>. QED  BY <1>1, <1>2, <1>3, <1>4, <1>5 DEF Next

\* What the command chooses, it chooses well; and nobody changes it meanwhile.
LEMMA ActorKeeps ==
    ASSUME KInv, OneAtATime, NEW p \in Proc, Run(p) \/ Review(p) \/ Maintain(p) \/ Stop(p)
    PROVE  Keeps(p)'
<1>0. IInv /\ TypeOK /\ EvidenceKept /\ Keeps(p) /\ Targeted(p)
      BY DEF KInv, IInv, Held
<1>a. TypeOK /\ Keeps(p)
      BY <1>0
<1> USE <1>a
    DEF TypeOK, Keeps, Approving, Maintaining, Active, Marked, evidence, memory, procVars,
        Goto, Return, Decide, Load
<1>1. CASE Run(p)
  <2>1. ASSUME NEW t \in Task, RecordEpisode(p, t[1], t[2]) PROVE Keeps(p)'
        BY <2>1 DEF RecordEpisode
  <2>2. CASE SaveObservation(p)  BY <2>2 DEF SaveObservation
  <2>3. CASE DetectPattern(p)
    <3>1. CASE Goto(p, "watching")
          BY <3>1
    <3>2. ASSUME NEW c \in Class, NEW s \in kSubset(Threshold, Failed(c)),
                 Load(p, "patterning", c, NoProposal), plan' = [plan EXCEPT ![p].eps = s],
                 UNCHANGED episodes
          PROVE  Keeps(p)'
      <4>1. plan'[p].eps = s
            BY <3>2 DEF Plan
      <4>2. s \subseteq episodes
            BY DEF kSubset, Failed
      <4>. QED  BY <3>2, <4>1, <4>2
    <3>. QED  BY <2>3, <3>1, <3>2 DEF DetectPattern
  <2>4. CASE SavePattern(p)
    <3>1. target[p] \in Class
          BY <2>4, <1>0 DEF SavePattern, Targeted
    <3>. QED  BY <2>4, <3>1 DEF SavePattern
  <2>5. CASE Propose(p)
    <3>1. pc'[p] \in {"backfilling", "watching"}
          BY <2>5 DEF Propose
    <3>. QED  BY <3>1
  <2>6. CASE FailRecording(p)  BY <2>6 DEF FailRecording
  <2>7. CASE ObserveApproved(p)  BY <2>7 DEF ObserveApproved
  <2>8. CASE NextDue(p)  BY <2>8 DEF NextDue
  <2>. QED  BY <1>1, <2>1, <2>2, <2>3, <2>4, <2>5, <2>6, <2>7, <2>8 DEF Run
<1>2. CASE Review(p)
  <2>1. ASSUME NEW i \in Prop, StartApprove(p, i) PROVE Keeps(p)'
    <3>1. ids[proposals[i].about] \subseteq episodes
          BY <2>1, <1>0 DEF StartApprove, EvidenceKept
    <3>2. loaded'[p].about = proposals[i].about /\ pc'[p] = "snapshotting"
          BY <2>1 DEF StartApprove, Proposal
    <3>. QED  BY <2>1, <3>1, <3>2 DEF StartApprove
  <2>2. ASSUME NEW i \in Prop, StartReject(p, i) PROVE Keeps(p)'
        BY <2>2 DEF StartReject
  <2>3. ASSUME NEW i \in Prop, StartRollback(p, i) PROVE Keeps(p)'
        BY <2>3 DEF StartRollback
  <2>4. CASE SnapshotOverlay(p)  BY <2>4 DEF SnapshotOverlay
  <2>5. CASE WriteOverlay(p)  BY <2>5 DEF WriteOverlay
  <2>6. CASE ComposePrompt(p)  BY <2>6 DEF ComposePrompt
  <2>7. CASE InstallPrompt(p)  BY <2>7 DEF InstallPrompt
  <2>8. CASE Approve(p)  BY <2>8 DEF Approve
  <2>9. CASE FailInstall(p)  BY <2>9 DEF FailInstall
  <2>10. CASE UnwindOverlay(p)  BY <2>10 DEF UnwindOverlay
  <2>11. CASE RevertPrompt(p)  BY <2>11 DEF RevertPrompt
  <2>12. CASE Reject(p)  BY <2>12 DEF Reject
  <2>13. CASE RollbackDue(p)  BY <2>13 DEF RollbackDue
  <2>14. CASE Withdraw(p)  BY <2>14 DEF Withdraw
  <2>. QED  BY <1>2, <2>1, <2>2, <2>3, <2>4, <2>5, <2>6, <2>7, <2>8, <2>9,
                <2>10, <2>11, <2>12, <2>13, <2>14 DEF Review
<1>3. CASE Maintain(p)
  <2>1. ASSUME NEW k \in Keep, StartPrune(p, k) PROVE Keeps(p)'
    <3> DEFINE gone == (episodes \cap Linked(Terminal)) \ (Linked(Active) \cup Window(k))
               over == {o \in obs : o.of \in Terminal}
    <3>1. /\ pc'[p] = "saving" /\ plan'[p] = [NoPlan EXCEPT !.eps = gone, !.obs = over]
          /\ undo'[p] = NoPlan /\ UNCHANGED <<ids, proposals>>
          BY <2>1 DEF StartPrune
    <3>2. \A i \in Active : ids[proposals[i].about] \subseteq Linked(Active)
      <4> SUFFICES ASSUME NEW i \in Active PROVE ids[proposals[i].about] \subseteq Linked(Active)
          OBVIOUS
      <4>1. proposals[i].about \in pat
            BY <1>0, ActiveFounded DEF Founded
      <4>2. proposals[i].about \in {proposals[j].about : j \in Active} \cap pat
            BY <4>1
      <4>. QED  BY <4>2 DEF Linked
    <3>3. plan'[p].eps = gone /\ plan'[p].pats = {} /\ undo'[p].pats = {}
          BY <3>1 DEF NoPlan
    <3>4. \A i \in Active : ids[proposals[i].about] \cap gone = {}
          BY <3>2
    <3> HIDE DEF gone, over
    <3>. QED  BY <3>1, <3>3, <3>4
  <2>2. CASE StartRepair(p)
    <3> DEFINE orphans == {o \in obs : o.of \in Marked({"absent"}) \/ o.ep \notin episodes}
               broken == {c \in pat : ~(ids[c] \subseteq episodes)}
               kept == {[of |-> c, ids |-> ids[c] \cap episodes] : c \in broken}
               now == {[of |-> c, ids |-> ids[c]] : c \in broken}
    <3>1. /\ pc'[p] = "saving" /\ UNCHANGED <<ids, proposals>>
          /\ plan' = [plan EXCEPT ![p].obs = orphans, ![p].pats = kept]
          /\ undo' = [undo EXCEPT ![p].obs = orphans, ![p].pats = now]
          /\ plan[p] = NoPlan /\ undo[p] = NoPlan
          BY <2>2 DEF StartRepair
    <3>2. \A f \in kept \cup now : f.of \in broken
          OBVIOUS
    <3>3. \A i \in Active : proposals[i].about \notin broken
          BY <1>0 DEF EvidenceKept
    <3> HIDE DEF orphans, broken, kept, now
    <3>4. plan'[p].eps = {} /\ plan'[p].pats = kept /\ undo'[p].pats = now
          BY <3>1 DEF NoPlan
    <3>. QED  BY <3>1, <3>2, <3>3, <3>4
  <2>3. CASE SaveSnapshot(p)  BY <2>3 DEF SaveSnapshot
  <2>4. CASE Remove(p)
    <3>1. UNCHANGED <<pc, ids, proposals>> /\ pc[p] = "removing"
          BY <2>4 DEF Remove
    <3>2. plan'[p].eps \subseteq plan[p].eps /\ plan'[p].pats = plan[p].pats
      <4>1. CASE \E e : plan' = [plan EXCEPT ![p].eps = @ \ {e}]
            BY <4>1 DEF Plan
      <4>2. CASE \E o : plan' = [plan EXCEPT ![p].obs = @ \ {o}]
            BY <4>2 DEF Plan
      <4>. QED  BY <2>4, <4>1, <4>2 DEF Remove
    <3>3. undo'[p].pats = undo[p].pats
      <4>1. CASE \E e : undo' = [undo EXCEPT ![p].eps = @ \cup {e}]
            BY <4>1 DEF Plan
      <4>2. CASE \E o : undo' = [undo EXCEPT ![p].obs = @ \cup {o}]
            BY <4>2 DEF Plan
      <4>. QED  BY <2>4, <4>1, <4>2 DEF Remove
    <3>. QED  BY <3>1, <3>2, <3>3
  <2>5. CASE Rewrite(p)
    <3>1. CASE Return(p)
          BY <3>1
    <3>2. ASSUME NEW f \in plan[p].pats, ids' = [ids EXCEPT ![f.of] = f.ids],
                 plan' = [plan EXCEPT ![p].pats = @ \ {f}], UNCHANGED <<pc, undo, proposals>>
          PROVE  Keeps(p)'
      <4>1. plan'[p].eps = plan[p].eps /\ plan'[p].pats \subseteq plan[p].pats
            BY <3>2 DEF Plan
      <4>2. pc[p] = "removing"
            BY <2>5 DEF Rewrite
      <4>3. \A i \in Active : f.of # proposals[i].about /\ proposals[i].about \in Class
            BY <4>2, <1>0, ActiveFounded
      <4>. QED  BY <3>2, <4>1, <4>2, <4>3
    <3>. QED  BY <2>5, <3>1, <3>2 DEF Rewrite
  <2>6. CASE FailMaintenance(p)  BY <2>6 DEF FailMaintenance
  <2>. QED  BY <1>3, <2>1, <2>2, <2>3, <2>4, <2>5, <2>6 DEF Maintain
<1>4. CASE Stop(p)
      BY <1>4 DEF Stop
<1>. QED  BY <1>1, <1>2, <1>3, <1>4

LEMMA StepKInv == KInv /\ [Next]_vars => KInv'
<1> SUFFICES ASSUME KInv, [Next]_vars PROVE KInv'
    OBVIOUS
<1>1. IInv'
      BY StepInv DEF KInv
<1>2. ASSUME OneAtATime, NEW q \in Proc PROVE Keeps(q)'
  <2>1. CASE UNCHANGED vars
        BY <1>2, <2>1
           DEF KInv, Keeps, Active, Marked, vars, evidence, procVars, memory
  <2>2. CASE Next
        BY <1>2, <2>2, ActorKeeps DEF Next, OneAtATime
  <2>. QED  BY <2>1, <2>2
<1>. QED  BY <1>1, <1>2, StepKept DEF KInv, OneAtATime

\* Of one command at a time, prune and repair leave an active proposal the
\* evidence its pattern lists, also where a removal fails or the command dies,
\* and whichever proposals share a pattern or took over an id.
THEOREM AlwaysKept == Spec => [](OneAtATime => EvidenceKept)
<1>1. Init => KInv
  <2> SUFFICES ASSUME Init PROVE KInv
      OBVIOUS
  <2>1. Active = {} /\ \A p \in Proc : Keeps(p)
        BY EmptyProposal DEF Init, Active, Marked, Keeps, Approving, Maintaining
  <2>. QED  BY <2>1, InitInv DEF KInv, EvidenceKept
<1>2. KInv /\ [Next]_vars => KInv'
      BY StepKInv
<1>3. KInv => (OneAtATime => EvidenceKept)
      BY DEF KInv
<1>. QED  BY <1>1, <1>2, <1>3, PTL DEF Spec

=============================================================================
