---------------------------- MODULE CommentGuard ----------------------------
(***************************************************************************)
(* The guard that the Comment Checker entry of settings.json runs before a  *)
(* shell command (internal/commenthook guard.go): it reads the call, checks *)
(* the comments of the project when the command is a git commit             *)
(* (internal/commentchecker), and appends its decision to the audit log     *)
(* (audit.go), which is read whole, cut to its limits and replaced, without *)
(* a lock.  No name here is one of Installation's: InstallationProofs is    *)
(* about both.                                                              *)
(***************************************************************************)
EXTENDS Integers, Sequences, SequencesExt, Folds

CONSTANTS
  Guard,        \* guards that may run at the same time
  Tree,         \* the projects the user moves between: sets of files
  Absent,
  EntrySize,    \* the length of an entry, by decision
  MaxEntries,   \* maxAuditEntries
  MaxBytes,     \* maxAuditBytes
  MaxDecisions, \* bound on the guards that are run
  MaxLogFails   \* bound on the log writes that fail

Outcome == {"parse_failure", "pass", "warning", "blocking"}

(* MaxEntries entries of any decision fit: 1000 of them may have 262 bytes  *)
(* each, and an entry holds its time, its counts by rule and its version.   *)
ASSUME CommentGuardAssumption ==
  /\ MaxEntries \in Nat \ {0} /\ MaxBytes \in Nat
  /\ \E size \in 0..MaxBytes :
       MaxEntries * size <= MaxBytes /\ \A d \in Outcome : EntrySize[d] \in 0..size

VARIABLES
  tree,       \* the files of the project
  log,        \* audit.jsonl: its entries, oldest first
  held,       \* the decision a guard has taken, or Absent
  seen,       \* the log it has read, or Absent
  exit,       \* the exit code of the guard that the last step ended, or Absent
  appended,   \* the entries appended since the log was last cleared
  raced,      \* a guard replaced a log that had changed since it read it
  decisions, logFails

guardVars == <<tree, log, held, seen, exit, appended, raced, decisions, logFails>>

-----------------------------------------------------------------------------
(* One line of a file: what its comment holds.  The first rule that matches *)
(* is the line's only finding.                                              *)
Line == [empty : BOOLEAN, marker : {Absent, "TODO", "FIXME"},
         credential : BOOLEAN, similar : BOOLEAN]

Severity(line) ==
  IF line.empty THEN "warning"                                  \* R002
  ELSE IF line.marker = "FIXME" THEN "warning"                  \* R001
  ELSE IF line.marker = "TODO" THEN "info"
  ELSE IF line.credential THEN "blocking"                       \* R004
  ELSE IF line.similar THEN "warning" ELSE "none"               \* R003

(* Files that are too large, binary or not readable to their end are        *)
(* skipped; a directory that cannot be walked fails the whole scan.         *)
Findings(files) ==
  {Severity(l) : l \in UNION {f.lines : f \in {g \in files : ~g.skipped}}} \ {"none"}

Call == {"malformed", "not a commit", "commit"}

Decision(kind, code) == [decision |-> kind, exit |-> code]

Decide(call, scanFails) ==
  IF call = "malformed" THEN Decision("parse_failure", 1)
  ELSE IF call = "not a commit" THEN Decision("pass", 0)
  ELSE IF scanFails \/ "blocking" \in Findings(tree) THEN Decision("blocking", 2)
  ELSE IF Findings(tree) # {} THEN Decision("warning", 0)
  ELSE Decision("pass", 0)

(* applyRetention: the last MaxEntries lines; of these, from the oldest on, *)
(* each one that still fits, and the first one in any case.                 *)
Fitting(acc, e) ==
  LET next == acc.total + EntrySize[e.decision]
  IN  IF next > MaxBytes /\ acc.out # <<>> THEN acc
      ELSE [out |-> Append(acc.out, e), total |-> next]

\* Mutant: the first entries are kept.
FirstEntries(entries) == SubSeq(entries, 1, MaxEntries)

LastEntries(entries) ==
  SubSeq(entries, Len(entries) - MaxEntries + 1, Len(entries))

ApplyRetention(entries) ==
  LET lines == IF Len(entries) > MaxEntries THEN LastEntries(entries) ELSE entries
  IN  FoldLeft(Fitting, [out |-> <<>>, total |-> 0], lines).out

-----------------------------------------------------------------------------
GuardInit ==
  /\ tree \in Tree /\ log = <<>>
  /\ held = [g \in Guard |-> Absent] /\ seen = [g \in Guard |-> Absent]
  /\ exit = Absent /\ decisions = 0
  /\ appended = <<>> /\ raced = FALSE /\ logFails = 0

(* Reasonix runs a guard, which reads the call and scans the project. *)
RunGuard(g) ==
  /\ held[g] = Absent /\ decisions < MaxDecisions
  /\ decisions' = decisions + 1
  /\ \E call \in Call : \E scanFails \in BOOLEAN :
       held' = [held EXCEPT ![g] = Decide(call, scanFails)]
  /\ exit' = Absent
  /\ UNCHANGED <<tree, log, seen, appended, raced, logFails>>

(* AuditStore.Append reads the log *)
ReadLog(g) ==
  /\ held[g] # Absent /\ seen[g] = Absent
  /\ seen' = [seen EXCEPT ![g] = log]
  /\ exit' = Absent
  /\ UNCHANGED <<tree, log, held, appended, raced, decisions, logFails>>

End(g, code) ==
  /\ exit' = code
  /\ held' = [held EXCEPT ![g] = Absent]
  /\ seen' = [seen EXCEPT ![g] = Absent]

(* and replaces it by what it read and its own entry. *)
ReplaceLog(g) ==
  /\ seen[g] # Absent
  /\ LET new == [id |-> Len(appended) + 1, decision |-> held[g].decision] IN
     /\ log' = ApplyRetention(Append(seen[g], new))
     /\ appended' = Append(appended, new)
  /\ raced' = (raced \/ seen[g] # log)
  /\ End(g, held[g].exit)
  /\ UNCHANGED <<tree, decisions, logFails>>

\* Mutant: a failed write keeps the decision's code.
FailedCodeKept(code) == code

FailedCode(code) == IF code = 2 THEN 2 ELSE 1

(* The log cannot be read or written: a guard that would have let the       *)
(* command go fails instead.                                                *)
FailLog(g) ==
  /\ held[g] # Absent /\ logFails < MaxLogFails
  /\ logFails' = logFails + 1
  /\ End(g, FailedCode(held[g].exit))
  /\ UNCHANGED <<tree, log, appended, raced, decisions>>

(* omr hook comment-check logs --clear *)
Clear ==
  /\ log # <<>> /\ log' = <<>> /\ appended' = <<>> /\ exit' = Absent
  /\ UNCHANGED <<tree, held, seen, raced, decisions, logFails>>

EditTree ==
  /\ tree' \in Tree \ {tree}
  /\ exit' = Absent
  /\ UNCHANGED <<log, held, seen, appended, raced, decisions, logFails>>

GuardNext ==
  \/ \E g \in Guard : RunGuard(g) \/ ReadLog(g) \/ ReplaceLog(g) \/ FailLog(g)
  \/ Clear \/ EditTree

GuardSpec == GuardInit /\ [][GuardNext]_guardVars

-----------------------------------------------------------------------------
(* As long as no guard replaced a log that had changed under it, the log   *)
(* holds the latest decisions, MaxEntries of them if there were as many:    *)
(* overflow evicts the oldest first, and the limit on bytes, which evicts   *)
(* the newest, is never met by MaxEntries entries of the guard.             *)
LogKeepsLatest ==
  ~raced => log = SubSeq(appended, Len(appended) - Len(log) + 1, Len(appended))
            /\ (Len(log) < Len(appended) => Len(log) = MaxEntries)

(* Two guards at once may lose entries, but never the one just written: a   *)
(* guard lets a command go only with its own decision as the log's last, so *)
(* that a log that cannot be written never looks like a success.            *)
NeverSilent ==
  [][\A g \in Guard : held[g] # Absent /\ held'[g] = Absent /\ exit' = 0 =>
       log' # <<>> /\ log'[Len(log')].decision = held[g].decision]_guardVars
=============================================================================
