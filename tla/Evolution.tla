------------------------------- MODULE Evolution -------------------------------
(***************************************************************************)
(* The evolution loop of a project: runs record episodes, three failures   *)
(* of one task class make a pattern and a proposal, an operator approves   *)
(* or rejects it, an approved overlay goes into the installed prompt, and  *)
(* two failures take it out again. Prune and repair maintain the store.    *)
(*                                                                         *)
(* Nothing is locked: every command is a process that reads whole          *)
(* collections, decides, and replaces files one by one. A pattern's id is  *)
(* a hash of its task class, so the class stands for it. A proposal's file *)
(* is named by its id: the hash of the pattern's, or whatever id the model *)
(* that was asked for a proposal has put into its answer, which may be the *)
(* id of another proposal. What a command reads at one point of its code   *)
(* is read in one step; every write is a step of its own.                  *)
(***************************************************************************)
EXTENDS Naturals, FiniteSets, FiniteSetsExt

CONSTANTS
    Class,        \* task classes
    Task,         \* the tasks that are run: their class, and whether they succeed
    Rank,         \* the order of their keys
    Prop,         \* ids of proposals
    Default,      \* the id that is the hash of a class's pattern
    Text,         \* texts of overlays
    Standard,     \* the text of a proposal that no model was asked for
    Answers,      \* the proposals a model may answer with: id, text, approved_at
    Sound,        \* texts that pass the promotion gate's checks
    Threshold,    \* failures that make a pattern (3)
    Proc,         \* processes that may run at the same time
    Command,      \* commands that operators use, besides the runs
    Keep,         \* values of --keep-episodes
    MaxEpisodes,  \* bound on runs
    MaxFailures,  \* bound on failing writes and deaths
    None

ASSUME EvolutionAssumption ==
    /\ None \notin Class \cup Prop \cup Text /\ "absent" \notin Text \cup {None}
    /\ Rank \in [Class -> Nat] /\ \A c, d \in Class : Rank[c] = Rank[d] => c = d
    /\ Task \subseteq Class \X BOOLEAN
    /\ Default \in [Class -> Prop]
    /\ Standard \in Text /\ Sound \subseteq Text
    /\ Answers \subseteq [id : Prop, text : Text, at : 0..MaxEpisodes]
    /\ Command \subseteq {"approve", "reject", "rollback", "prune", "repair"}
    /\ Threshold \in Nat \ {0} /\ Keep \subseteq Nat
    /\ MaxEpisodes \in Nat /\ MaxFailures \in Nat

VARIABLES
    episodes,    \* episodes/
    pat,         \* patterns/: the classes that have one
    ids,         \* the episodes each pattern lists
    proposals,   \* proposals/, by id
    obs,         \* observations/
    overlay,     \* overlay.md: its text
    snap,        \* snapshots/<proposal>.md: the overlay it holds, or "absent"
    prompt,      \* the overlay in the installed prompt
    saved,       \* the files that maintenance snapshots hold
    time,        \* the clock: how many runs have ended
    pc, target,  \* where each process is, and with which class or proposal
    running,     \* whether it is a run
    loaded,      \* the proposal as it has loaded it
    old,         \* the prompt it has saved in memory, to go back to
    draft,       \* the overlay that its prompt is composed with
    plan,        \* what it has decided to write or remove
    undo,        \* what its maintenance snapshot holds
    recorded,    \* history: the files of evidence ever written
    gated,       \* history: texts with a passing experiment
    failures     \* bound

evidence == <<episodes, pat, ids, obs, saved>>
strategy == <<overlay, snap, prompt>>
memory == <<target, running, loaded, old, draft, plan, undo>>
procVars == <<pc, memory>>
history == <<recorded, gated>>
vars == <<evidence, proposals, strategy, time, procVars, history, failures>>

Episode == [class : Class, ok : BOOLEAN, at : 1..MaxEpisodes]
Observation == [of : Prop, ep : Episode, phase : {"before", "after"}]

\* approved_at is 0 if empty; no proposal is a status too.
Proposal == [status : {"absent", "pending", "approved", "rejected", "rolled_back"},
             about : Class \cup {None}, text : Text \cup {None}, at : 0..MaxEpisodes]
NoProposal == [status |-> "absent", about |-> None, text |-> None, at |-> 0]

Plan == [eps : SUBSET Episode, obs : SUBSET Observation,
         due : SUBSET [of : Prop, was : Proposal],
         pats : SUBSET [of : Class, ids : SUBSET Episode]]
NoPlan == [eps |-> {}, obs |-> {}, due |-> {}, pats |-> {}]

Recording == {"noting", "patterning", "proposing", "backfilling"}
Watching == {"watching", "undoing"}
Approving == {"snapshotting", "overlaying", "applying", "installing",
              "approving", "unwinding", "reverting"}
Withdrawing == {"restoring", "rebuilding", "reinstalling", "withdrawing"}
Maintaining == {"saving", "removing"}
PC == Recording \cup Watching \cup Approving \cup Withdrawing \cup Maintaining
        \cup {"idle", "rejecting"}

\* A file of evidence: an episode, or an observation by what its name is a hash of.
File == Episode \cup [of : Prop, ep : Episode]
Names(s) == {[of |-> o.of, ep |-> o.ep] : o \in s}

TypeOK ==
    /\ episodes \subseteq Episode /\ obs \subseteq Observation
    /\ recorded \subseteq File /\ saved \subseteq File
    /\ pat \subseteq Class /\ ids \in [Class -> SUBSET Episode]
    /\ proposals \in [Prop -> Proposal]
    /\ gated \subseteq Text /\ {overlay, prompt} \subseteq Text \cup {None}
    /\ snap \in [Prop -> Text \cup {None, "absent"}]
    /\ time \in 0..MaxEpisodes
    /\ pc \in [Proc -> PC]
    /\ target \in [Proc -> Class \cup Prop \cup {None}]
    /\ old \in [Proc -> Text \cup {None}] /\ draft \in [Proc -> Text \cup {None}]
    /\ running \in [Proc -> BOOLEAN]
    /\ loaded \in [Proc -> Proposal]
    /\ plan \in [Proc -> Plan] /\ undo \in [Proc -> Plan]
    /\ failures \in 0..MaxFailures

Init ==
    /\ episodes = {} /\ pat = {} /\ obs = {} /\ saved = {}
    /\ ids = [c \in Class |-> {}]
    /\ proposals = [i \in Prop |-> NoProposal]
    /\ overlay = None /\ prompt = None
    /\ snap = [i \in Prop |-> "absent"]
    /\ time = 0
    /\ pc = [p \in Proc |-> "idle"] /\ loaded = [p \in Proc |-> NoProposal]
    /\ target = [p \in Proc |-> None] /\ running = [p \in Proc |-> FALSE]
    /\ old = [p \in Proc |-> None] /\ draft = [p \in Proc |-> None]
    /\ plan = [p \in Proc |-> NoPlan] /\ undo = [p \in Proc |-> NoPlan]
    /\ recorded = {} /\ gated = {}
    /\ failures = 0

-----------------------------------------------------------------------------
(* Helpers *)

Goto(p, s) == pc' = [pc EXCEPT ![p] = s] /\ UNCHANGED memory

\* The command of p ends, with or without an error.
Return(p) ==
    /\ pc' = [pc EXCEPT ![p] = "idle"]
    /\ target' = [target EXCEPT ![p] = None]
    /\ running' = [running EXCEPT ![p] = FALSE]
    /\ loaded' = [loaded EXCEPT ![p] = NoProposal]
    /\ old' = [old EXCEPT ![p] = None]
    /\ draft' = [draft EXCEPT ![p] = None]
    /\ plan' = [plan EXCEPT ![p] = NoPlan]
    /\ undo' = [undo EXCEPT ![p] = NoPlan]

Decide(p, s, what) ==
    /\ pc' = [pc EXCEPT ![p] = s]
    /\ plan' = [plan EXCEPT ![p] = what]
    /\ UNCHANGED <<target, running, loaded, old, draft, undo>>

\* A command on x starts, having loaded the proposal w.
Load(p, s, x, w) ==
    /\ pc' = [pc EXCEPT ![p] = s]
    /\ target' = [target EXCEPT ![p] = x]
    /\ loaded' = [loaded EXCEPT ![p] = w]

Failed(c) == {e \in episodes : e.class = c /\ ~e.ok}

\* An observation's id is a hash of its proposal and its episode.
WithObservations(s) ==
    {x \in obs : \A o \in s : x.of # o.of \/ x.ep # o.ep} \cup s

\* ListPatterns validates: a pattern needs its three episodes.
Readable(c) == Cardinality(ids[c]) >= Threshold
PatternsReadable == \A c \in pat : Readable(c)

Marked(states) == {i \in Prop : proposals[i].status \in states}
Terminal == Marked({"rejected", "rolled_back"})
Active == Marked({"pending", "approved"})

\* The whole file is written, from the copy w that its writer has.
SaveProposal(i, w, s) == proposals' = [proposals EXCEPT ![i] = [w EXCEPT !.status = s]]

-----------------------------------------------------------------------------
(* omr run: recordRun, then ObserveApproved                                 *)

\* A task has ended: RecordEpisode, and what recordObservations reads. An
\* episode after the approval counts for the proposals of its class; one before
\* it would count if their pattern listed it, which no pattern does so early. An
\* invalid pattern ends the recording.
RecordEpisode(p, c, ok) ==
    LET e == [class |-> c, ok |-> ok, at |-> time + 1]
        about == {i \in Marked({"approved", "rolled_back"}) :
                    proposals[i].about = c /\ proposals[i].at \in 1..time /\ c \in pat}
        noted == {[of |-> i, ep |-> e, phase |-> "after"] : i \in about}
    IN  /\ pc[p] = "idle"
        /\ time < MaxEpisodes
        /\ time' = time + 1
        /\ episodes' = episodes \cup {e}
        /\ recorded' = recorded \cup {e}
        /\ running' = [running EXCEPT ![p] = TRUE]
        /\ \/ /\ PatternsReadable
              /\ pc' = [pc EXCEPT ![p] = "noting"]
              /\ plan' = [plan EXCEPT ![p].obs = noted]
           \/ /\ ~PatternsReadable
              /\ pc' = [pc EXCEPT ![p] = "watching"]
              /\ UNCHANGED plan
        /\ UNCHANGED <<pat, ids, obs, saved, proposals, strategy, target, loaded, old,
                       draft, undo, gated, failures>>

\* One of the observations it has decided on is saved.
SaveObservation(p) ==
    /\ pc[p] \in {"noting", "backfilling"}
    /\ \E o \in plan[p].obs :
          /\ obs' = WithObservations({o})
          /\ recorded' = recorded \cup Names({o})
          /\ plan' = [plan EXCEPT ![p].obs = @ \ {o}]
    /\ UNCHANGED <<episodes, pat, ids, saved, proposals, strategy, time, pc, target,
                   running, loaded, old, draft, undo, gated, failures>>

\* DetectPattern: of the classes that have failed often enough, the first by
\* key, with the first episodes by id. The caller drops it if it is known; the
\* patterns it knows end at the first invalid file, whatever the file's name.
DetectPattern(p) ==
    LET often == {c \in Class : Cardinality(Failed(c)) >= Threshold}
        first == {c \in often : \A d \in often : Rank[c] <= Rank[d]}
    IN  /\ pc[p] = "noting" /\ plan[p].obs = {}
        /\ \E known \in IF PatternsReadable THEN {pat}
                       ELSE SUBSET {c \in pat : Readable(c)} :
              \/ /\ first \subseteq known
                 /\ Goto(p, "watching")
              \/ \E c \in first \ known : \E s \in kSubset(Threshold, Failed(c)) :
                    /\ Load(p, "patterning", c, NoProposal)
                    /\ plan' = [plan EXCEPT ![p].eps = s]
                    /\ UNCHANGED <<running, old, draft, undo>>
        /\ UNCHANGED <<evidence, proposals, strategy, time, history, failures>>

SavePattern(p) ==
    LET c == target[p]
    IN  /\ pc[p] = "patterning"
        /\ pat' = pat \cup {c}
        /\ ids' = [ids EXCEPT ![c] = plan[p].eps]
        /\ Goto(p, "proposing")
        /\ UNCHANGED <<episodes, obs, saved, proposals, strategy, time, history, failures>>

\* The control window of proposal i: the episodes that its pattern was made of.
Before(p, i) == {[of |-> i, ep |-> e, phase |-> "before"] : e \in plan[p].eps}

\* What may be proposed: the standard proposal, under the id of the pattern,
\* or a model's answer, which keeps its id and its approved_at.
Proposable(c) == {[id |-> Default[c], text |-> Standard, at |-> 0]} \cup Answers

\* Mutant: the control window is saved before its proposal.
Propose_ObservationsFirst(p) ==
    /\ pc[p] = "proposing"
    /\ obs' = obs \cup Before(p, Default[target[p]])
    /\ Decide(p, "backfilling", NoPlan)
    /\ UNCHANGED <<episodes, pat, ids, saved, proposals, strategy, time, history, failures>>

\* The proposer answers or fails, and the proposal is written as pending and
\* about this pattern, whatever the file of its id holds by now. The triggering
\* episodes become its control window.
Propose(p) ==
    /\ pc[p] = "proposing"
    /\ \/ \E a \in Proposable(target[p]) :
             /\ SaveProposal(a.id, [NoProposal EXCEPT !.about = target[p], !.text = a.text,
                                                     !.at = a.at], "pending")
             /\ Decide(p, "backfilling", [NoPlan EXCEPT !.obs = Before(p, a.id)])
       \/ Goto(p, "watching") /\ UNCHANGED proposals
    /\ UNCHANGED <<evidence, strategy, time, history, failures>>

\* Approved proposals with two failures, of any class, after their approval.
Due ==
    {[of |-> i, was |-> proposals[i]] : i \in
        {i \in Marked({"approved"}) :
            /\ proposals[i].at # 0
            /\ Cardinality({e \in episodes : ~e.ok /\ e.at > proposals[i].at}) >= 2}}

ObserveApproved(p) ==
    /\ \/ pc[p] = "watching"
       \/ pc[p] = "backfilling" /\ plan[p].obs = {}
    /\ \/ Due = {} /\ Return(p)
       \/ Due # {} /\ Decide(p, "undoing", [NoPlan EXCEPT !.due = Due])
    /\ UNCHANGED <<evidence, proposals, strategy, time, history, failures>>

NextDue(p) ==
    /\ pc[p] = "undoing"
    /\ \/ plan[p].due = {} /\ Return(p)
       \/ \E d \in plan[p].due :
             /\ Load(p, "restoring", d.of, d.was)
             /\ plan' = [plan EXCEPT ![p].due = @ \ {d}]
             /\ UNCHANGED <<running, old, draft, undo>>
    /\ UNCHANGED <<evidence, proposals, strategy, time, history, failures>>

\* A write fails while the run is recorded: that is reported, and the
\* observation of the approved proposals follows all the same.
FailRecording(p) ==
    /\ pc[p] \in Recording
    /\ failures < MaxFailures
    /\ failures' = failures + 1
    /\ Decide(p, "watching", NoPlan)
    /\ UNCHANGED <<evidence, proposals, strategy, time, history>>

-----------------------------------------------------------------------------
(* omr evolve approve                                                       *)

\* Mutant: the verdict of the promotion gate is not looked at.
StartApprove_Ungated(p, i) ==
    /\ pc[p] = "idle"
    /\ proposals[i].status \notin {"absent", "approved"}
    /\ gated' = gated \cup ({proposals[i].text} \cap Sound)
    /\ Load(p, "snapshotting", i, [proposals[i] EXCEPT !.at = time])
    /\ old' = [old EXCEPT ![p] = prompt]
    /\ UNCHANGED <<evidence, proposals, strategy, time, running, draft, plan, undo,
                   recorded, failures>>

\* The installed prompt is kept in memory. A proposal that is not pending as
\* loaded, or not sound, does not pass the gate; for one that does, the passing
\* experiment is saved and approved_at is now.
StartApprove(p, i) ==
    /\ pc[p] = "idle"
    /\ proposals[i].status = "pending"
    /\ proposals[i].text \in Sound
    /\ gated' = gated \cup {proposals[i].text}
    /\ Load(p, "snapshotting", i, [proposals[i] EXCEPT !.at = time])
    /\ old' = [old EXCEPT ![p] = prompt]
    /\ UNCHANGED <<evidence, proposals, strategy, time, running, draft, plan, undo,
                   recorded, failures>>

\* Mutant: nothing is kept when there is no overlay yet.
SnapshotOverlay_NotEmpty(p) ==
    /\ pc[p] = "snapshotting"
    /\ snap' = [snap EXCEPT ![target[p]] = IF overlay = None THEN @ ELSE overlay]
    /\ Goto(p, "overlaying")
    /\ UNCHANGED <<evidence, proposals, overlay, prompt, time, history, failures>>

SnapshotOverlay(p) ==
    /\ pc[p] = "snapshotting"
    /\ snap' = [snap EXCEPT ![target[p]] = overlay]
    /\ Goto(p, "overlaying")
    /\ UNCHANGED <<evidence, proposals, overlay, prompt, time, history, failures>>

WriteOverlay(p) ==
    /\ pc[p] = "overlaying"
    /\ overlay' = loaded[p].text
    /\ Goto(p, "applying")
    /\ UNCHANGED <<evidence, proposals, prompt, snap, time, history, failures>>

\* runInstall composes the prompt with the overlay it reads, and writes it.
ComposePrompt(p) ==
    /\ \/ pc[p] = "applying" /\ pc' = [pc EXCEPT ![p] = "installing"]
       \/ pc[p] = "rebuilding" /\ pc' = [pc EXCEPT ![p] = "reinstalling"]
    /\ draft' = [draft EXCEPT ![p] = overlay]
    /\ UNCHANGED <<evidence, proposals, strategy, time, target, running, loaded, old,
                   plan, undo, history, failures>>

\* After it the rollback command loads the proposal it is about.
InstallPrompt(p) ==
    /\ \/ /\ pc[p] = "installing"
          /\ pc' = [pc EXCEPT ![p] = "approving"]
          /\ UNCHANGED <<target, running, loaded, old, plan, undo>>
       \/ /\ pc[p] = "reinstalling"
          /\ Load(p, "withdrawing", target[p],
                  IF running[p] THEN loaded[p] ELSE proposals[target[p]])
          /\ UNCHANGED <<running, old, plan, undo>>
    /\ prompt' = draft[p]
    /\ draft' = [draft EXCEPT ![p] = None]
    /\ UNCHANGED <<evidence, proposals, overlay, snap, time, history, failures>>

\* The installation of an approval fails: the overlay goes back to what the
\* snapshot holds, and the prompt to what was in memory.
FailInstall(p) ==
    /\ pc[p] \in {"applying", "installing"}
    /\ failures < MaxFailures
    /\ failures' = failures + 1
    /\ Goto(p, "unwinding")
    /\ UNCHANGED <<evidence, proposals, strategy, time, history>>

UnwindOverlay(p) ==
    /\ pc[p] = "unwinding"
    /\ overlay' = snap[target[p]]
    /\ Goto(p, "reverting")
    /\ UNCHANGED <<evidence, proposals, snap, prompt, time, history, failures>>

RevertPrompt(p) ==
    /\ pc[p] = "reverting"
    /\ prompt' = old[p]
    /\ Return(p)
    /\ UNCHANGED <<evidence, proposals, snap, overlay, time, history, failures>>

\* The proposal is saved as it was loaded, but approved.
Approve(p) ==
    /\ pc[p] = "approving"
    /\ SaveProposal(target[p], loaded[p], "approved")
    /\ Return(p)
    /\ UNCHANGED <<evidence, strategy, time, history, failures>>

-----------------------------------------------------------------------------
(* omr evolve reject and rollback, and the rollback of a due proposal       *)

StartReject(p, i) ==
    /\ pc[p] = "idle"
    /\ proposals[i].status \notin {"absent", "rejected"}
    /\ Load(p, "rejecting", i, proposals[i])
    /\ UNCHANGED <<evidence, proposals, strategy, time, running, old, draft, plan, undo,
                   history, failures>>

Reject(p) ==
    /\ pc[p] = "rejecting"
    /\ SaveProposal(target[p], loaded[p], "rejected")
    /\ Return(p)
    /\ UNCHANGED <<evidence, strategy, time, history, failures>>

\* The overlay goes back to the snapshot of the proposal, if there is one.
RestoreOverlay(i) == snap[i] # "absent" /\ overlay' = snap[i]

\* The rollback command, which asks nothing of the proposal's status.
StartRollback(p, i) ==
    /\ pc[p] = "idle"
    /\ RestoreOverlay(i)
    /\ Load(p, "rebuilding", i, NoProposal)
    /\ UNCHANGED <<evidence, proposals, prompt, snap, time, running, old, draft, plan,
                   undo, history, failures>>

\* The rollback of a due proposal; without its snapshot the observation ends.
RollbackDue(p) ==
    /\ pc[p] = "restoring"
    /\ \/ RestoreOverlay(target[p]) /\ Goto(p, "rebuilding")
       \/ snap[target[p]] = "absent" /\ Return(p) /\ UNCHANGED overlay
    /\ UNCHANGED <<evidence, proposals, prompt, snap, time, history, failures>>

\* The proposal is saved as it was loaded, but rolled back; a run goes on with
\* the next due proposal.
Withdraw(p) ==
    /\ pc[p] = "withdrawing"
    /\ SaveProposal(target[p], loaded[p], "rolled_back")
    /\ \/ running[p] /\ Goto(p, "undoing")
       \/ ~running[p] /\ Return(p)
    /\ UNCHANGED <<evidence, strategy, time, history, failures>>

-----------------------------------------------------------------------------
(* omr evolve prune and repair                                              *)

\* The episodes that the patterns or the observations of some proposals name.
Linked(s) == (UNION {ids[c] : c \in {proposals[i].about : i \in s} \cap pat})
                \cup {o.ep : o \in {x \in obs : x.of \in s}}

\* The newest k episodes.
Window(k) == {e \in episodes : Cardinality({f \in episodes : f.at > e.at}) < k}

\* Mutant: a proposal is terminal unless it is approved.
StartPrune_PendingToo(p, k) ==
    LET over == Marked({"pending", "rejected", "rolled_back"})
        live == Marked({"approved"})
        removable == [NoPlan EXCEPT
            !.eps = (episodes \cap Linked(over)) \ (Linked(live) \cup Window(k)),
            !.obs = {o \in obs : o.of \in over}]
    IN  /\ pc[p] = "idle"
        /\ PatternsReadable
        /\ removable # NoPlan
        /\ Decide(p, "saving", removable)
        /\ UNCHANGED <<evidence, proposals, strategy, time, history, failures>>

\* The evidence of proposals that are over, but not what others rest on, nor
\* the newest episodes. An invalid pattern ends the command.
StartPrune(p, k) ==
    LET removable == [NoPlan EXCEPT
            !.eps = (episodes \cap Linked(Terminal)) \ (Linked(Active) \cup Window(k)),
            !.obs = {o \in obs : o.of \in Terminal}]
    IN  /\ pc[p] = "idle"
        /\ PatternsReadable
        /\ removable # NoPlan
        /\ Decide(p, "saving", removable)
        /\ UNCHANGED <<evidence, proposals, strategy, time, history, failures>>

\* Observations whose proposal or episode is missing go, and patterns keep the
\* episodes there are. All that will change can be undone from the start.
StartRepair(p) ==
    LET orphans == {o \in obs : o.of \in Marked({"absent"}) \/ o.ep \notin episodes}
        broken == {c \in pat : ~(ids[c] \subseteq episodes)}
        kept == {[of |-> c, ids |-> ids[c] \cap episodes] : c \in broken}
        now == {[of |-> c, ids |-> ids[c]] : c \in broken}
    IN  /\ pc[p] = "idle"
        /\ orphans # {} \/ broken # {}
        /\ pc' = [pc EXCEPT ![p] = "saving"]
        /\ plan' = [plan EXCEPT ![p].obs = orphans, ![p].pats = kept]
        /\ undo' = [undo EXCEPT ![p].obs = orphans, ![p].pats = now]
        /\ UNCHANGED <<evidence, proposals, strategy, time, target, running, loaded, old,
                       draft, history, failures>>

\* Mutant: only the episodes are worth a snapshot.
SaveSnapshot_EpisodesOnly(p) ==
    /\ pc[p] = "saving"
    /\ saved' = saved \cup plan[p].eps
    /\ Goto(p, "removing")
    /\ UNCHANGED <<episodes, pat, ids, obs, proposals, strategy, time, history, failures>>

\* The maintenance snapshot holds whatever will be removed or rewritten.
SaveSnapshot(p) ==
    /\ pc[p] = "saving"
    /\ saved' = saved \cup plan[p].eps \cup Names(plan[p].obs)
    /\ Goto(p, "removing")
    /\ UNCHANGED <<episodes, pat, ids, obs, proposals, strategy, time, history, failures>>

\* One by one, in the order of their paths: episodes, then observations.
Remove(p) ==
    LET q == plan[p]
    IN  /\ pc[p] = "removing"
        /\ \/ \E e \in q.eps :
                 /\ episodes' = episodes \ {e}
                 /\ plan' = [plan EXCEPT ![p].eps = @ \ {e}]
                 /\ undo' = [undo EXCEPT ![p].eps = @ \cup {e}]
                 /\ UNCHANGED obs
           \/ /\ q.eps = {}
              /\ \E o \in q.obs :
                    /\ obs' = {x \in obs : x.of # o.of \/ x.ep # o.ep}
                    /\ plan' = [plan EXCEPT ![p].obs = @ \ {o}]
                    /\ undo' = [undo EXCEPT ![p].obs = @ \cup {o}]
              /\ UNCHANGED episodes
        /\ UNCHANGED <<pat, ids, saved, proposals, strategy, time, pc, target, running,
                       loaded, old, draft, history, failures>>

\* The removals are done; repair rewrites the indexes of patterns.
Rewrite(p) ==
    LET q == plan[p]
    IN  /\ pc[p] = "removing"
        /\ q.eps = {} /\ q.obs = {}
        /\ \/ \E f \in q.pats :
                 /\ ids' = [ids EXCEPT ![f.of] = f.ids]
                 /\ plan' = [plan EXCEPT ![p].pats = @ \ {f}]
                 /\ UNCHANGED <<pc, target, running, loaded, old, draft, undo>>
           \/ /\ q.pats = {}
              /\ Return(p)
              /\ UNCHANGED ids
        /\ UNCHANGED <<episodes, pat, obs, saved, proposals, strategy, time, history,
                       failures>>

\* A removal or a rewrite fails: prune puts back what it has removed, repair
\* all that its snapshot holds.
FailMaintenance(p) ==
    LET u == undo[p]
        at(c) == {f.ids : f \in {x \in u.pats : x.of = c}}
    IN  /\ pc[p] = "removing"
        /\ plan[p] # NoPlan
        /\ failures < MaxFailures
        /\ failures' = failures + 1
        /\ episodes' = episodes \cup u.eps
        /\ obs' = WithObservations(u.obs)
        /\ ids' = [c \in Class |-> IF at(c) = {} THEN ids[c] ELSE UNION at(c)]
        /\ Return(p)
        /\ UNCHANGED <<pat, saved, proposals, strategy, time, history>>

-----------------------------------------------------------------------------

\* A process dies, or returns at a write that fails and that nothing answers.
Stop(p) ==
    /\ pc[p] # "idle"
    /\ failures < MaxFailures
    /\ failures' = failures + 1
    /\ Return(p)
    /\ UNCHANGED <<evidence, proposals, strategy, time, history>>

Run(p) ==
    \/ \E t \in Task : RecordEpisode(p, t[1], t[2])
    \/ SaveObservation(p) \/ DetectPattern(p)
    \/ SavePattern(p) \/ Propose(p) \/ FailRecording(p)
    \/ ObserveApproved(p) \/ NextDue(p)

Review(p) ==
    \/ \E i \in Prop :
          \/ "approve" \in Command /\ StartApprove(p, i)
          \/ "reject" \in Command /\ StartReject(p, i)
          \/ "rollback" \in Command /\ StartRollback(p, i)
    \/ SnapshotOverlay(p) \/ WriteOverlay(p)
    \/ ComposePrompt(p) \/ InstallPrompt(p) \/ Approve(p)
    \/ FailInstall(p) \/ UnwindOverlay(p) \/ RevertPrompt(p)
    \/ Reject(p) \/ RollbackDue(p) \/ Withdraw(p)

Maintain(p) ==
    \/ "prune" \in Command /\ \E k \in Keep : StartPrune(p, k)
    \/ "repair" \in Command /\ StartRepair(p)
    \/ SaveSnapshot(p) \/ Remove(p) \/ Rewrite(p)
    \/ FailMaintenance(p)

Next == \E p \in Proc : Run(p) \/ Review(p) \/ Maintain(p) \/ Stop(p)

Spec == Init /\ [][Next]_vars

-----------------------------------------------------------------------------
(* Properties *)

\* Whatever overlay is in force, is in the installed prompt, or can be restored
\* by a rollback, passed the promotion gate, whatever approvals and rollbacks
\* ran at the same time, failed half-way or died, and whatever a proposal's file
\* was overwritten with.
GatedInForce ==
    {overlay, prompt} \cup {snap[i] : i \in Prop} \subseteq gated \cup {None, "absent"}

\* A proposal is only marked approved with a passing experiment for its overlay
\* and with a snapshot to go back to: both are written before it.
ApprovedCanReturn ==
    \A i \in Marked({"approved"}) : proposals[i].text \in gated /\ snap[i] # "absent"

\* Every observation is about a proposal and a pattern that exist: the control
\* window is written last, and maintenance never undoes that order.
EvidenceGrounded ==
    \A o \in obs : o.of \notin Marked({"absent"}) /\ proposals[o.of].about \in pat

\* A proposal that is to be reviewed, or is in force, has all the episodes of
\* its pattern, although prune takes those of other proposals, of the same
\* pattern too, and repair rewrites patterns; when a removal fails, a process
\* dies in the middle, and when a model's answer takes over a proposal's id. It
\* is promised, and true, of one command at a time.
EvidenceKept ==
    \A i \in Active : ids[proposals[i].about] \subseteq episodes

\* Every episode and observation that was ever recorded is in its place, or in
\* a maintenance snapshot from which it can be put back: at every point of any
\* number of prunes and repairs, of what they race with, and of their deaths.
Recoverable ==
    recorded \subseteq episodes \cup Names(obs) \cup saved

-----------------------------------------------------------------------------
(* What the design promises and the code does not keep; configurations that  *)
(* are kept beside the runs find the counterexamples.                       *)

\* V2 plan 13: after two failures the snapshot is restored, the prompt rebuilt
\* and the proposal marked rolled_back: then its overlay is out of the prompt.
\* An approval that is repeated after dying half-way snapshots its own overlay.
RolledBackIsOut ==
    \A i \in Marked({"rolled_back"}) :
        prompt # proposals[i].text \/ \E j \in Marked({"approved"}) : proposals[j].text = prompt

\* "After an approved proposal, two subsequent failed episodes trigger a
\* rollback": the approval that a run undoes has had its two failures. What the
\* run saves is the proposal as it had listed it, and an approval that is saved
\* in between is undone with fewer.
RollbackEarned ==
    [][\A p \in Proc :
          pc[p] = "withdrawing" /\ running[p] /\ pc'[p] = "undoing"
              /\ proposals[target[p]].status = "approved" =>
            Cardinality({e \in recorded \cap Episode :
                           ~e.ok /\ e.at > proposals[target[p]].at}) >= 2]_vars

=============================================================================
