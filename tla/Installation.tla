---------------------------- MODULE Installation ----------------------------
(***************************************************************************)
(* What oh-my-reasonix keeps in a user's project: the generated prompt, the *)
(* profiles, one key of reasonix.toml, the Comment Checker entry of         *)
(* settings.json, and the manifest that says which of these are its own.    *)
(* internal/install writes and removes them all, internal/commenthook       *)
(* enables and disables the entry; every command reads, plans, and then     *)
(* writes file by file, taking its files back when a write fails.           *)
(*                                                                          *)
(* A file's content is what the commands compare: a prompt is the release   *)
(* and the text of the user's file that it was composed of, a profile the   *)
(* release that shipped it, an entry the release whose executable it calls. *)
(* Hashes stand for contents; files of equal text make one prompt.  The     *)
(* user's files exist and keep their text.  The backups are written and     *)
(* never read: the steps that write them are not kept.  One command runs at *)
(* a time.                                                                  *)
(***************************************************************************)
EXTENDS Naturals, Sequences, Functions

CONSTANTS
  Profile,     \* the profiles of all releases
  Ships,       \* the profiles each release ships
  UserFile,    \* values a user gives agent.system_prompt_file
  TextOf,      \* the text of the file each names; TextOf[None] is the blank text
  None,        \* no such file, key, entry or record; no command
  Omr,         \* the key's value that names the generated prompt
  Legacy,      \* the entry with the old relative command
  Foreign,     \* a content that is not OMR's
  MaxEdits,    \* bound on what the user and the editor do to these files
  MaxFails,    \* bound on the writes that fail
  MaxDeaths    \* bound on the commands that die

Release == 1 .. Len(Ships)
Fixed == {"config", "prompt", "settings", "manifest"}
File == Fixed \cup Profile

Text == {TextOf[v] : v \in UserFile \cup {None}}
Composition == [release : Release, text : Text]
HookRecord == [enabled : BOOLEAN, entry : Release \cup {Legacy, Foreign}]
Manifest ==
  [prompt : Composition, profiles : [Profile -> Release \cup {None}],
   source : UserFile \cup {None}, base : UserFile \cup {None}, hook : HookRecord \cup {None}]

ASSUME InstallationAssumption ==
  /\ Ships \in Seq(SUBSET Profile) /\ Ships # <<>>
  /\ MaxEdits \in Nat /\ MaxFails \in Nat /\ MaxDeaths \in Nat
  /\ DOMAIN TextOf = UserFile \cup {None}
  /\ Profile \cap Fixed = {}
  /\ None \notin {Omr, Legacy, Foreign} /\ Omr \notin {Legacy, Foreign} /\ Legacy # Foreign
  /\ {None, Omr, Legacy, Foreign} \cap (UserFile \cup Release \cup Composition \cup Manifest) = {}
  /\ None \notin {"install", "uninstall", "enable", "disable"}

VARIABLES
  disk,        \* the content of each file
  release,     \* the release of the omr executable and of its assets
  cmd,         \* the command that runs, or None
  todo,        \* the files it still has to write, with what it writes there
  before,      \* what it read in the files its rollback puts back
  userValue,   \* the value the user last gave the key
  touched,     \* a file was edited under a running command, or the prompt
               \* after an installation died
  scars,       \* what deaths have left: see Die
  edits, fails, deaths

vars == <<disk, release, cmd, todo, before, userValue, touched, scars,
          edits, fails, deaths>>

-----------------------------------------------------------------------------
(* The plans, from what is on the disk *)

manifest == disk["manifest"]
entry == disk["settings"]

(* agent.system_prompt_file of reasonix.toml. *)
AgentFile == disk["config"]

(* DisableMerge takes an entry for the executable's own or the manifest's. *)
OwnCommand == entry \in {release, Legacy}
Recorded == manifest # None /\ manifest.hook # None /\ manifest.hook.entry = entry
LifecycleEntryOwned == OwnCommand \/ (Recorded /\ entry # Foreign)

Enabled(r) == [enabled |-> TRUE, entry |-> r]
Disabled(e) == [enabled |-> FALSE, entry |-> e]
WithHook(record) == [manifest EXCEPT !.hook = record]

(* The hook part of an upgrade: the entry it leaves and its record. *)
UpgradeBlocked ==
  IF entry = None
  THEN manifest.hook # None /\ manifest.hook.enabled
  ELSE \/ manifest.hook # None /\ ~manifest.hook.enabled
       \/ ~LifecycleEntryOwned
UpgradedHook == IF entry = None THEN manifest.hook ELSE Enabled(release)

(* A prompt the manifest claims keeps the source and the base value of the  *)
(* first installation, the source only if its file is not blank; otherwise  *)
(* both are the key's present value.                                        *)
PromptOwned == manifest # None /\ AgentFile = Omr
UserSource ==
  IF ~PromptOwned THEN AgentFile
  ELSE IF TextOf[manifest.source] # TextOf[None] THEN manifest.source ELSE None

\* Mutant: the present value is taken for the baseline.
BaseReread == AgentFile

BaseValue == IF PromptOwned THEN manifest.base ELSE AgentFile

Claims(p) == IF manifest = None THEN None ELSE manifest.profiles[p]
PromptConflict ==
  disk["prompt"] # None /\ (manifest = None \/ disk["prompt"] # manifest.prompt)
ProfileConflict(p) == disk[p] \notin {None, Claims(p)}

NewManifest(hook) ==
  [prompt |-> [release |-> release, text |-> TextOf[UserSource]],
   source |-> UserSource,
   profiles |-> [p \in Profile |-> IF p \in Ships[release] THEN release ELSE None],
   base |-> BaseValue,
   hook |-> hook]

(* A plan gives files a content; those that have it already are not written. *)
Changed(plan) == {f \in DOMAIN plan : disk[f] # plan[f]}

ProfilesNeedWrite == \E p \in Ships[release] : disk[p] # release

InstallPlan(hook, newEntry) ==
  [f \in Fixed \cup Ships[release] |->
    CASE f = "prompt"   -> NewManifest(hook).prompt
      [] f = "config"   -> Omr
      [] f = "settings" -> newEntry
      [] f = "manifest" -> NewManifest(hook)
      [] OTHER          -> release]

(* One profile that differs has all of them written. *)
InstallWrites(hook, newEntry) ==
  LET plan == InstallPlan(hook, newEntry) IN
  Restrict(plan, Changed(plan) \cup (IF ProfilesNeedWrite THEN Ships[release] ELSE {}))

InstallBlocked ==
  \/ AgentFile = Omr /\ ~PromptOwned
  \/ PromptConflict
  \/ \E p \in Ships[release] : ProfileConflict(p)

\* Mutant: a key that is the user's again is refused.
UninstallBlockedStrict ==
  \/ entry # None /\ ~LifecycleEntryOwned
  \/ AgentFile # Omr
  \/ PromptConflict
  \/ \E p \in Profile : Claims(p) # None /\ ProfileConflict(p)

(* Uninstall refuses what was changed after the installation. *)
UninstallBlocked ==
  \/ entry # None /\ ~LifecycleEntryOwned
  \/ AgentFile \notin {Omr, manifest.base}
  \/ PromptConflict
  \/ \E p \in Profile : Claims(p) # None /\ ProfileConflict(p)

CanUninstall == manifest # None /\ ~UninstallBlocked

OwnedProfiles == {p \in Profile : Claims(p) # None /\ disk[p] # None}

UninstallFiles ==
  (IF AgentFile = Omr THEN {"config"} ELSE {})
  \cup {f \in {"prompt", "settings"} : disk[f] # None}
  \cup OwnedProfiles \cup {"manifest"}

UninstallWrites == [f \in UninstallFiles |-> IF f = "config" THEN manifest.base ELSE None]

-----------------------------------------------------------------------------
Nothing == [f \in {} |-> None]

Init ==
  /\ disk \in [File -> {None, Legacy} \cup UserFile]
  /\ disk["config"] \in UserFile \cup {None}
  /\ disk["settings"] \in {None, Legacy}
  /\ \A f \in File \ {"config", "settings"} : disk[f] = None
  /\ release = 1
  /\ cmd = None /\ todo = Nothing /\ before = Nothing
  /\ userValue = disk["config"]
  /\ touched = FALSE /\ scars = {}
  /\ edits = 0 /\ fails = 0 /\ deaths = 0

Idle == cmd = None

(* A command has read the disk and made its plan. *)
Start(name, writes, restores) ==
  /\ Idle /\ DOMAIN writes # {}
  /\ cmd' = name /\ todo' = writes /\ before' = Restrict(disk, restores)
  /\ scars' = IF name = "uninstall" THEN scars ELSE scars \ {"uninstall"}
  /\ UNCHANGED <<disk, release, userValue, touched, edits, fails, deaths>>

(* install.Init: omr init, which leaves the entry and its record alone *)
Install ==
  LET hook == IF manifest = None THEN None ELSE manifest.hook
      writes == InstallWrites(hook, entry) IN
  /\ ~InstallBlocked
  /\ Start("install", writes, DOMAIN writes)

(* install.Init with Upgrade: the entry is moved to the new executable *)
Upgrade ==
  LET newEntry == IF entry = None THEN None ELSE release
      writes == InstallWrites(UpgradedHook, newEntry) IN
  /\ manifest # None
  /\ ~UpgradeBlocked /\ ~InstallBlocked
  /\ Start("install", writes, DOMAIN writes)

Uninstall ==
  /\ CanUninstall
  /\ Start("uninstall", UninstallWrites, UninstallFiles)

(* Enabling and disabling put back the settings only. *)
\* Mutant: nothing is put back.
HookRestoresNothing(writes) == {}

HookRestores(writes) == {"settings"} \cap DOMAIN writes

(* EnableHook and DisableHook: the entry, and its record in a manifest *)
HookPlan(newEntry, record) ==
  [f \in {"settings"} \cup (IF manifest = None THEN {} ELSE {"manifest"}) |->
    IF f = "settings" THEN newEntry ELSE WithHook(record)]

HookWrites(newEntry, record) ==
  LET plan == HookPlan(newEntry, record) IN Restrict(plan, Changed(plan))

(* An entry already there has its record repaired. *)
EnableWrites == HookWrites(release, Enabled(release))

Enable ==
  /\ entry \in {None, release, Legacy}
  /\ Start("enable", EnableWrites, HookRestores(EnableWrites))

(* Without an entry, a record that says enabled is repaired. *)
DisableWrites ==
  IF entry # None THEN HookWrites(None, Disabled(entry))
  ELSE IF manifest # None /\ manifest.hook # None
       THEN HookWrites(None, Disabled(manifest.hook.entry))
       ELSE Nothing

Disable ==
  /\ entry = None \/ OwnCommand \/ Recorded
  /\ Start("disable", DisableWrites, HookRestores(DisableWrites))

(* The order in which the files of a plan are written: an installation puts *)
(* the prompt and the profiles in place before the key that names them, an  *)
(* uninstall gives the key back first; the manifest comes last.             *)
Rank(f) ==
  CASE f = "config"   -> IF cmd = "install" THEN 3 ELSE 0
    [] f = "prompt"   -> 1
    [] f = "settings" -> 4
    [] f = "manifest" -> 5
    [] OTHER          -> 2

(* The next write of the running command; the last one ends it. *)
Done == cmd' = None /\ before' = Nothing

WriteNext ==
  /\ \E f \in DOMAIN todo :
       /\ \A g \in DOMAIN todo : Rank(f) <= Rank(g)
       /\ disk' = [disk EXCEPT ![f] = todo[f]]
       /\ todo' = Restrict(todo, DOMAIN todo \ {f})
  /\ IF DOMAIN todo' = {}
     THEN /\ Done
          /\ scars' = IF cmd \in {"enable", "disable"} THEN scars \ {"hook"} ELSE scars
     ELSE UNCHANGED <<cmd, before, scars>>
  /\ UNCHANGED <<release, userValue, touched, edits, fails, deaths>>

\* Mutant: the profiles are not put back.
RestoreButProfiles ==
  [f \in File |-> IF f \in DOMAIN before \ Profile THEN before[f] ELSE disk[f]]

(* A write fails: the files of the plan get back what was read. *)
RestoreFiles ==
  [f \in File |-> IF f \in DOMAIN before THEN before[f] ELSE disk[f]]

Fail ==
  /\ ~Idle /\ fails < MaxFails
  /\ fails' = fails + 1
  /\ disk' = RestoreFiles
  /\ todo' = Nothing /\ Done
  /\ UNCHANGED <<release, userValue, touched, scars, edits, deaths>>

(* A command dies between two writes.  Its scar: "install" when the files   *)
(* may be of two installations, "hook" when the entry and its record may    *)
(* disagree, "uninstall" while nothing but uninstalling has happened since. *)
Die ==
  /\ ~Idle /\ deaths < MaxDeaths
  /\ deaths' = deaths + 1
  /\ scars' = scars \cup {"hook"}
                    \cup (IF cmd = "install" THEN {"install"} ELSE {})
                    \cup (IF cmd = "uninstall" /\ ~touched THEN {"uninstall"} ELSE {})
  /\ todo' = Nothing /\ UNCHANGED disk /\ Done
  /\ UNCHANGED <<release, userValue, touched, edits, fails>>

(* The user edits or deletes one of the files, at any time. *)
Edit(f, content) ==
  /\ edits < MaxEdits /\ edits' = edits + 1
  /\ disk[f] # content /\ disk' = [disk EXCEPT ![f] = content]
  /\ touched' = (touched \/ ~Idle \/ (f = "prompt" /\ "install" \in scars))
  /\ scars' = scars \ {"uninstall"}
  /\ UNCHANGED <<release, cmd, todo, before, fails, deaths>>

EditKey ==
  \E v \in UserFile \cup {None} : Edit("config", v) /\ userValue' = v

EditFile ==
  \E f \in {"prompt"} \cup Profile : \E content \in {None, Foreign} :
    Edit(f, content) /\ UNCHANGED userValue

(* The user changes or removes the entry: the record is not told. *)
EditEntry ==
  /\ entry # None
  /\ \E content \in {None, Foreign} :
       Edit("settings", content) /\ UNCHANGED userValue

(* A new omr is installed elsewhere: other assets, another path. *)
NewRelease ==
  /\ Idle /\ release < Len(Ships)
  /\ release' = release + 1 /\ scars' = scars \ {"uninstall"}
  /\ UNCHANGED <<disk, cmd, todo, before, userValue, touched, edits, fails, deaths>>

Next ==
  \/ Install \/ Upgrade \/ Uninstall \/ Enable \/ Disable
  \/ WriteNext \/ Fail \/ Die
  \/ EditKey \/ EditFile \/ EditEntry \/ NewRelease

Spec == Init /\ [][Next]_vars

-----------------------------------------------------------------------------
Content(f) ==
  CASE f = "config"   -> UserFile \cup {None, Omr}
    [] f = "prompt"   -> Composition \cup {None, Foreign}
    [] f = "settings" -> Release \cup {None, Legacy, Foreign}
    [] f = "manifest" -> Manifest \cup {None}
    [] OTHER          -> Release \cup {None, Foreign}

Fits(d) == d = [f \in DOMAIN d |-> d[f]] /\ \A f \in DOMAIN d : d[f] \in Content(f)

(* Every file holds a content of its kind, whichever command last wrote it  *)
(* or put it back, and a running command knows such a content for every     *)
(* file it still has to write or may restore.                               *)
TypeOK ==
  /\ DOMAIN disk = File /\ Fits(disk)
  /\ DOMAIN todo \subseteq File /\ Fits(todo) /\ DOMAIN before \subseteq File /\ Fits(before)
  /\ cmd \in {None, "install", "uninstall", "enable", "disable"}
  /\ Idle <=> DOMAIN todo = {}
  /\ release \in Release /\ userValue \in UserFile \cup {None}
  /\ scars \subseteq {"install", "hook", "uninstall"} /\ touched \in BOOLEAN
  /\ edits \in 0 .. MaxEdits /\ fails \in 0 .. MaxFails /\ deaths \in 0 .. MaxDeaths

(* Whenever uninstalling is not refused, it gives the key back the value    *)
(* the user last chose: the baseline survives upgrades, repeated            *)
(* installations and rollbacks.  An installation that died may have left a  *)
(* stale baseline under the new key.  Then the prompt it wrote is not the   *)
(* manifest's and uninstall refuses, unless the two values name files of    *)
(* one text: the value given back is an old one, of the same text.          *)
UninstallGivesBack ==
  Idle /\ ~touched /\ CanUninstall /\ disk["config"] = Omr
    => \/ manifest.base = userValue
       \/ "install" \in scars /\ TextOf[manifest.base] = TextOf[userValue]

(* Not so: with a dead installation behind it uninstall gives the key back  *)
(* the very value the user last chose.                                      *)
ValueGivenBack ==
  Idle /\ ~touched /\ CanUninstall /\ disk["config"] = Omr
    => manifest.base = userValue

(* On a disk d everything OMR wrote is claimed by the manifest, but a       *)
(* profile that a later release ships no more: buildManifest drops it.      *)
Dropped(p, r) == \E later \in r + 1 .. release : p \notin Ships[later]

Claimed(d) ==
  /\ d["config"] = Omr => d["manifest"] # None
  /\ d["prompt"] \in Composition =>
       d["manifest"] # None /\ d["manifest"].prompt = d["prompt"]
  /\ \A p \in Profile : d[p] \in Release =>
       \/ d["manifest"] # None /\ d["manifest"].profiles[p] = d[p]
       \/ Dropped(p, d[p])

(* Unless an installation died, everything OMR wrote can be upgraded and    *)
(* uninstalled: no failed write, no dead uninstall and no new release       *)
(* leaves a file behind that is not claimed.                                *)
NothingOrphaned == Idle /\ "install" \notin scars => Claimed(disk)

(* On a disk d the manifest's record and the entry agree, unless the user   *)
(* changed the entry.                                                       *)
Agree(d) ==
  d["manifest"] # None /\ d["manifest"].hook # None =>
    LET hook == d["manifest"].hook IN
    /\ d["settings"] \in Release => hook = Enabled(d["settings"])
    /\ hook.enabled => hook.entry = d["settings"] \/ edits > 0

(* They agree unless a command died between the two; and then the next      *)
(* enable or disable that completes makes them agree again.                 *)
HookClaimed == Idle /\ "hook" \notin scars => Agree(disk)

(* After an uninstall died, uninstalling again is not refused, whichever of *)
(* its files the first one had removed.                                     *)
UninstallResumes ==
  Idle /\ "uninstall" \in scars /\ manifest # None => CanUninstall
=============================================================================
