-------------------------- MODULE InstallationProofs --------------------------
(* What a project's files keep through every order of commands, edits,       *)
(* failing writes and deaths, for any releases and any profiles they ship.   *)
(* A running command relates three disks: the one that is there, the one it  *)
(* leaves when its writes are done, and the one it leaves when a write       *)
(* fails.  A write brings the first closer to the second and changes neither *)
(* of the others, so that each fact need only be kept on all three.          *)
EXTENDS Installation, CommentGuard, TLAPS, FiniteSetTheorems, WellFoundedInduction

(* The disk that the running command works towards. *)
Goal == [f \in File |-> IF f \in DOMAIN todo THEN todo[f] ELSE disk[f]]

Disk == {disk, Goal, RestoreFiles}

(* A write that fails has all the files of its plan put back; the manifest  *)
(* of a hook command is written last, and so never.                         *)
Restorable ==
  /\ \A f \in DOMAIN todo \ DOMAIN before : f = "manifest"
  /\ Idle => DOMAIN before = {}

(* A profile is of a release that shipped it. *)
Shipped(d) == \A p \in Profile : d[p] \in Release => d[p] <= release /\ p \in Ships[d[p]]

(* The prompt of a manifest is made of the text the key named before, and   *)
(* its source names that text too.                                          *)
Based(d) ==
  LET m == d["manifest"] IN
  m # None => m.prompt.text = TextOf[m.base] /\ TextOf[m.source] = TextOf[m.base]

(* The disks that no installation is half done on. *)
Whole == IF cmd = "install" THEN {Goal, RestoreFiles} ELSE Disk

Safe ==
  /\ \A d \in Disk : Shipped(d) /\ Based(d)
  /\ "install" \notin scars => \A d \in Whole : Claimed(d)

(* The disks whose entry and record no death has parted. *)
Tidy == (IF "hook" \notin scars THEN {Goal, RestoreFiles} ELSE {})
        \cup (IF cmd \in {"enable", "disable"} THEN {Goal} ELSE {})

Agreed == \A d \in Tidy : Agree(d)

(* The key is the user's, or else the manifest gives the user's value back, *)
(* or at least the prompt recalls its text.                                 *)
Alike(v) == TextOf[v] = TextOf[userValue]
Returns(d) == d["manifest"] # None /\ d["manifest"].base = userValue
Resembles(d) == d["manifest"] # None /\ Alike(d["manifest"].base)
Recalls(d) == d["prompt"] \in Composition /\ d["prompt"].text = TextOf[userValue]

Kept(d) ==
  /\ d["config"] = Omr \/ Alike(d["config"])
  /\ d["config"] = Omr => Resembles(d) \/ Recalls(d)
Exact(d) == d["config"] = userValue \/ (d["config"] = Omr /\ Returns(d))

Returned ==
  ~touched =>
    /\ \A d \in Disk : Kept(d)
    /\ "install" \notin scars => \A d \in Whole : Exact(d)
    /\ cmd = "install" => \A d \in {Goal} : Recalls(d)

(* An uninstall that runs. *)
Removing ==
  cmd = "uninstall" =>
    /\ manifest # None /\ "manifest" \in DOMAIN todo
    /\ todo = [f \in DOMAIN todo |-> IF f = "config" THEN manifest.base ELSE None]
    /\ Goal["config"] # Omr

Hooking == cmd \in {"enable", "disable"} => DOMAIN todo \subseteq {"settings", "manifest"}

(* UninstallBlocked denied, of a disk d. *)
Uninstallable(d) ==
  LET m == d["manifest"]
      e == d["settings"] IN
  /\ e \in {None, release, Legacy} \/ (m.hook # None /\ m.hook.entry = e /\ e # Foreign)
  /\ d["config"] \in {Omr, m.base}
  /\ d["prompt"] \in {None, m.prompt}
  /\ \A p \in Profile : m.profiles[p] # None => d[p] \in {None, m.profiles[p]}

Resumable ==
  /\ cmd \in {"install", "enable", "disable"} => "uninstall" \notin scars
  /\ manifest # None /\ ("uninstall" \in scars \/ (cmd = "uninstall" /\ ~touched)) =>
       \A d \in {disk, RestoreFiles} : Uninstallable(d)

IInv == TypeOK /\ Restorable /\ Safe /\ Agreed /\ Returned /\ Removing /\ Hooking /\ Resumable

-------------------------------------------------------------------------------
(* Values and contents *)

LEMMA Apart ==
    /\ None \notin {Omr, Legacy, Foreign} /\ Omr \notin {Legacy, Foreign} /\ Legacy # Foreign
    /\ \A x \in UserFile \cup Release \cup Composition \cup Manifest :
          x \notin {None, Omr, Legacy, Foreign}
    /\ \A p \in Profile : p \notin Fixed
    /\ \A r \in Release : r \in Nat /\ Ships[r] \subseteq Profile
    /\ 1 \in Release
    /\ None \notin {"install", "uninstall", "enable", "disable"}
<1>1. Len(Ships) \in Nat /\ Len(Ships) >= 1 /\ \A r \in 1..Len(Ships) : Ships[r] \in SUBSET Profile
      BY InstallationAssumption
<1>2. \A r \in Release : r \in Nat /\ Ships[r] \subseteq Profile
      BY <1>1 DEF Release
<1>3. 1 \in Release
      BY <1>1 DEF Release
<1>4. \A x \in UserFile \cup Release \cup Composition \cup Manifest :
          x \notin {None, Omr, Legacy, Foreign}
      BY InstallationAssumption
<1>. QED  BY <1>2, <1>3, <1>4, InstallationAssumption

LEMMA Contents ==
    /\ Content("config") = UserFile \cup {None, Omr}
    /\ Content("prompt") = Composition \cup {None, Foreign}
    /\ Content("settings") = Release \cup {None, Legacy, Foreign}
    /\ Content("manifest") = Manifest \cup {None}
    /\ \A p \in Profile : Content(p) = Release \cup {None, Foreign}
    /\ Fixed \subseteq File /\ Profile \subseteq File
BY Apart DEF Content, File, Fixed

\* What every disk holds.
LEMMA Holds ==
    ASSUME NEW d, DOMAIN d = File, Fits(d)
    PROVE  /\ d["config"] \in UserFile \cup {None, Omr}
           /\ d["prompt"] \in Composition \cup {None, Foreign}
           /\ d["settings"] \in Release \cup {None, Legacy, Foreign}
           /\ d["manifest"] \in Manifest \cup {None}
           /\ \A p \in Profile : d[p] \in Release \cup {None, Foreign}
           /\ d = [f \in File |-> d[f]]
<1>1. \A f \in File : d[f] \in Content(f)
      BY DEF Fits
<1>2. "config" \in File /\ "prompt" \in File /\ "settings" \in File /\ "manifest" \in File
      BY Contents DEF Fixed
<1>3. d["config"] \in Content("config") /\ d["prompt"] \in Content("prompt")
      /\ d["settings"] \in Content("settings") /\ d["manifest"] \in Content("manifest")
      BY <1>1, <1>2
<1>4. \A p \in Profile : d[p] \in Content(p)
      BY <1>1, Contents
<1>. QED  BY <1>3, <1>4, Contents DEF Fits

LEMMA InManifest ==
    ASSUME NEW m \in Manifest
    PROVE  /\ m.prompt \in Composition /\ m.source \in UserFile \cup {None}
           /\ m.prompt.release \in Release
           /\ m.base \in UserFile \cup {None} /\ m.hook \in HookRecord \cup {None}
           /\ \A p \in Profile : m.profiles[p] \in Release \cup {None}
           /\ m # None
<1>1. m # None
      BY Apart
<1>. QED  BY <1>1 DEF Manifest, Composition

\* A function made of two that fit.
LEMMA FitsBoth ==
    ASSUME NEW d, NEW e, DOMAIN d \subseteq File, DOMAIN e = File, Fits(d), Fits(e)
    PROVE  LET both == [f \in File |-> IF f \in DOMAIN d THEN d[f] ELSE e[f]]
           IN  DOMAIN both = File /\ Fits(both)
BY DEF Fits

LEMMA FitsSome ==
    ASSUME NEW d, NEW S, S \subseteq DOMAIN d, Fits(d)
    PROVE  DOMAIN Restrict(d, S) = S /\ Fits(Restrict(d, S)) /\ \A f \in S : Restrict(d, S)[f] = d[f]
BY DEF Fits, Restrict

LEMMA Typed ==
    TypeOK => /\ \A d \in Disk : DOMAIN d = File /\ Fits(d)
              /\ manifest \in Manifest \cup {None}
              /\ entry \in Release \cup {None, Legacy, Foreign}
              /\ AgentFile \in UserFile \cup {None, Omr}
<1> SUFFICES ASSUME TypeOK
             PROVE  /\ \A d \in Disk : DOMAIN d = File /\ Fits(d)
                    /\ manifest \in Manifest \cup {None}
                    /\ entry \in Release \cup {None, Legacy, Foreign}
                    /\ AgentFile \in UserFile \cup {None, Omr}
    OBVIOUS
<1>1. DOMAIN Goal = File /\ Fits(Goal)
      BY FitsBoth DEF TypeOK, Goal
<1>2. DOMAIN RestoreFiles = File /\ Fits(RestoreFiles)
      BY FitsBoth DEF TypeOK, RestoreFiles
<1>3. DOMAIN disk = File /\ Fits(disk)
      BY DEF TypeOK
<1>. QED  BY <1>1, <1>2, <1>3, Holds DEF Disk, manifest, entry, AgentFile

LEMMA FitsNothing == DOMAIN Nothing = {} /\ Fits(Nothing)
BY DEF Nothing, Fits

-------------------------------------------------------------------------------
(* The plans *)

\* What is on the disk when the writes of a plan are done.
Over(writes) == [f \in File |-> IF f \in DOMAIN writes THEN writes[f] ELSE disk[f]]

LEMMA NewManifestOk ==
    ASSUME TypeOK, ~InstallBlocked, NEW hook \in HookRecord \cup {None}
    PROVE  NewManifest(hook) \in Manifest
<1>1. UserSource \in UserFile \cup {None} /\ BaseValue \in UserFile \cup {None}
  <2>1. CASE PromptOwned
        BY <2>1, Typed, InManifest DEF UserSource, BaseValue, PromptOwned
  <2>2. CASE ~PromptOwned
        BY <2>2, Typed DEF UserSource, BaseValue, InstallBlocked
  <2>. QED  BY <2>1, <2>2
<1>2. [release |-> release, text |-> TextOf[UserSource]] \in Composition
      BY <1>1 DEF Composition, Text, TypeOK
<1>3. [p \in Profile |-> IF p \in Ships[release] THEN release ELSE None]
        \in [Profile -> Release \cup {None}]
      BY DEF TypeOK
<1>. QED  BY <1>1, <1>2, <1>3 DEF NewManifest, Manifest

LEMMA InstallPlanned ==
    ASSUME TypeOK, ~InstallBlocked, NEW hook \in HookRecord \cup {None},
           NEW newEntry \in Release \cup {None, Legacy, Foreign},
           NEW w, w = InstallWrites(hook, newEntry)
    PROVE  /\ DOMAIN w \subseteq File /\ Fits(w)
           /\ Over(w)["prompt"] = NewManifest(hook).prompt
           /\ Over(w)["config"] = Omr
           /\ Over(w)["settings"] = newEntry
           /\ Over(w)["manifest"] = NewManifest(hook)
           /\ \A p \in Profile : Over(w)[p] = IF p \in Ships[release] THEN release ELSE disk[p]
<1> DEFINE plan == InstallPlan(hook, newEntry)
           S == Changed(plan) \cup (IF ProfilesNeedWrite THEN Ships[release] ELSE {})
<1>1. release \in Release /\ Ships[release] \subseteq Profile
      BY Apart DEF TypeOK
<1>2. DOMAIN plan = Fixed \cup Ships[release] /\ plan = [f \in DOMAIN plan |-> plan[f]]
      BY DEF InstallPlan
<1>3. /\ plan["prompt"] = NewManifest(hook).prompt /\ plan["config"] = Omr
      /\ plan["settings"] = newEntry /\ plan["manifest"] = NewManifest(hook)
      BY DEF InstallPlan, Fixed
<1>4. \A p \in Ships[release] : plan[p] = release
      BY <1>1, Apart DEF InstallPlan, Fixed
<1>5. Fits(plan)
  <2>1. \A f \in Fixed : plan[f] \in Content(f)
        BY <1>3, Contents, NewManifestOk, InManifest DEF Fixed
  <2>2. \A p \in Ships[release] : plan[p] \in Content(p)
        BY <1>1, <1>4, Contents
  <2> HIDE DEF plan
  <2>. QED  BY <1>2, <2>1, <2>2 DEF Fits
<1> HIDE DEF plan
<1>6. S \subseteq DOMAIN plan /\ w = Restrict(plan, S)
      BY <1>2 DEF Changed, InstallWrites, plan
<1>7. DOMAIN plan \subseteq File
      BY <1>1, <1>2, Contents
<1>8. DOMAIN w = S /\ Fits(w) /\ \A f \in S : w[f] = plan[f]
      BY <1>5, <1>6, FitsSome
<1>9. \A f \in Fixed : Over(w)[f] = plan[f]
      BY <1>2, <1>7, <1>8 DEF Over, Changed
<1>10. \A p \in Ships[release] : Over(w)[p] = release
      BY <1>1, <1>2, <1>4, <1>7, <1>8 DEF Over, ProfilesNeedWrite
<1>11. \A p \in Profile \ Ships[release] : p \notin S /\ Over(w)[p] = disk[p]
      BY <1>2, <1>6, <1>8, Contents, Apart DEF Over
<1>. QED  BY <1>3, <1>6, <1>7, <1>8, <1>9, <1>10, <1>11 DEF Fixed

LEMMA UninstallPlanned ==
    ASSUME TypeOK, CanUninstall, NEW w, w = UninstallWrites
    PROVE  /\ DOMAIN w = UninstallFiles /\ DOMAIN w \subseteq File /\ Fits(w)
           /\ "manifest" \in DOMAIN w /\ manifest \in Manifest
           /\ w = [f \in DOMAIN w |-> IF f = "config" THEN manifest.base ELSE None]
           /\ Over(w)["config"] = IF AgentFile = Omr THEN manifest.base ELSE AgentFile
           /\ Over(w)["config"] # Omr
           /\ Over(w)["prompt"] = None
           /\ Over(w)["settings"] = None
           /\ Over(w)["manifest"] = None
           /\ \A p \in Profile : Over(w)[p] \in {None, disk[p]} /\ (Claims(p) # None => Over(w)[p] = None)
<1>1. manifest \in Manifest /\ manifest.base \in UserFile \cup {None}
      BY Typed, InManifest DEF CanUninstall
<1>2. UninstallFiles \subseteq File /\ "manifest" \in UninstallFiles
      BY Contents DEF UninstallFiles, OwnedProfiles, Fixed
<1>3. w = [f \in UninstallFiles |-> IF f = "config" THEN manifest.base ELSE None]
      BY DEF UninstallWrites
<1>4. \A f \in File : f # "config" => None \in Content(f)
      BY Contents DEF File, Fixed
<1>5. Fits(w)
      BY <1>1, <1>2, <1>3, <1>4, Contents DEF Fits
<1>6. \A f \in UninstallFiles : Over(w)[f] = IF f = "config" THEN manifest.base ELSE None
      BY <1>2, <1>3 DEF Over
<1>7. \A f \in File \ UninstallFiles : Over(w)[f] = disk[f]
      BY <1>3 DEF Over
<1>8. manifest.base # Omr
      BY <1>1, Apart
<1>9. "config" \in UninstallFiles <=> AgentFile = Omr
      BY Apart DEF UninstallFiles, OwnedProfiles, Fixed
<1>10. \A f \in {"prompt", "settings"} : f \in UninstallFiles <=> disk[f] # None
      BY Apart DEF UninstallFiles, OwnedProfiles, Fixed
<1>11. \A p \in Profile : p \in UninstallFiles <=> p \in OwnedProfiles
      BY Apart DEF UninstallFiles, Fixed
<1>12. Over(w)["config"] = IF AgentFile = Omr THEN manifest.base ELSE AgentFile
      BY <1>6, <1>7, <1>9, Contents DEF AgentFile, Fixed
<1>13. /\ Over(w)["prompt"] = None /\ Over(w)["settings"] = None
      BY <1>6, <1>7, <1>10, Contents DEF Fixed
<1>14. Over(w)["manifest"] = None
      BY <1>2, <1>6
<1>15. \A p \in Profile : Over(w)[p] \in {None, disk[p]} /\ (Claims(p) # None => Over(w)[p] = None)
      BY <1>6, <1>7, <1>11, Contents, Apart DEF OwnedProfiles, Fixed
<1>. QED  BY <1>1, <1>2, <1>3, <1>5, <1>8, <1>12, <1>13, <1>14, <1>15

\* Enabling and disabling: the entry, and its record when there is a manifest.
LEMMA HookPlanned ==
    ASSUME TypeOK, NEW newEntry \in Release \cup {None}, NEW record \in HookRecord,
           NEW w, w = HookWrites(newEntry, record)
    PROVE  /\ DOMAIN w \subseteq {"settings", "manifest"} /\ DOMAIN w \subseteq File /\ Fits(w)
           /\ Over(w)["settings"] = newEntry
           /\ Over(w)["manifest"] = IF manifest = None THEN None ELSE WithHook(record)
           /\ \A f \in File \ {"settings", "manifest"} : Over(w)[f] = disk[f]
<1> DEFINE plan == HookPlan(newEntry, record)
<1>1. DOMAIN plan = {"settings"} \cup (IF manifest = None THEN {} ELSE {"manifest"})
      /\ plan = [f \in DOMAIN plan |-> plan[f]]
      BY DEF HookPlan
<1>2. plan["settings"] = newEntry /\ (manifest # None => plan["manifest"] = WithHook(record))
      BY DEF HookPlan
<1>3. manifest # None => WithHook(record) \in Manifest
      BY Typed DEF WithHook, Manifest
<1>4. Fits(plan)
      BY <1>1, <1>2, <1>3, Contents DEF Fits
<1> HIDE DEF plan
<1>5. Changed(plan) \subseteq DOMAIN plan /\ w = Restrict(plan, Changed(plan))
      BY DEF Changed, HookWrites, plan
<1>6. DOMAIN w = Changed(plan) /\ Fits(w) /\ \A f \in Changed(plan) : w[f] = plan[f]
      BY <1>4, <1>5, FitsSome
<1>7. \A f \in DOMAIN plan : f \in File => Over(w)[f] = plan[f]
      BY <1>6 DEF Over, Changed
<1>8. \A f \in File \ DOMAIN plan : Over(w)[f] = disk[f]
      BY <1>5, <1>6 DEF Over
<1>9. "settings" \in File /\ "manifest" \in File
      BY Contents DEF Fixed
<1>. QED  BY <1>1, <1>2, <1>5, <1>6, <1>7, <1>8, <1>9 DEF manifest

LEMMA EnablePlanned ==
    ASSUME TypeOK, NEW w, w = EnableWrites
    PROVE  /\ DOMAIN w \subseteq {"settings", "manifest"} /\ DOMAIN w \subseteq File /\ Fits(w)
           /\ Over(w)["settings"] = release
           /\ Over(w)["manifest"] = IF manifest = None THEN None ELSE WithHook(Enabled(release))
           /\ \A f \in File \ {"settings", "manifest"} : Over(w)[f] = disk[f]
<1>1. release \in Release /\ Enabled(release) \in HookRecord
      BY DEF TypeOK, Enabled, HookRecord
<1>. QED  BY <1>1, HookPlanned DEF EnableWrites

LEMMA DisablePlanned ==
    ASSUME TypeOK, Disable, NEW w, w = DisableWrites
    PROVE  /\ DOMAIN w \subseteq {"settings", "manifest"} /\ DOMAIN w \subseteq File /\ Fits(w)
           /\ Over(w)["settings"] = None
           /\ \/ manifest = None /\ Over(w)["manifest"] = None
              \/ manifest # None /\ \E e \in Release \cup {Legacy, Foreign} :
                                      Over(w)["manifest"] = WithHook(Disabled(e))
           /\ \A f \in File \ {"settings", "manifest"} : Over(w)[f] = disk[f]
<1>1. \A e \in Release \cup {Legacy, Foreign} : Disabled(e) \in HookRecord
      BY DEF Disabled, HookRecord
<1>2. CASE entry # None
  <2>1. entry \in Release \cup {Legacy, Foreign} /\ w = HookWrites(None, Disabled(entry))
        BY <1>2, Typed DEF DisableWrites
  <2>. QED  BY <1>1, <2>1, HookPlanned
<1>3. CASE entry = None /\ manifest # None /\ manifest.hook # None
  <2>1. manifest.hook.entry \in Release \cup {Legacy, Foreign}
        BY <1>3, Typed, InManifest DEF HookRecord
  <2>2. w = HookWrites(None, Disabled(manifest.hook.entry))
        BY <1>3 DEF DisableWrites
  <2>. QED  BY <1>1, <1>3, <2>1, <2>2, HookPlanned
<1>4. CASE entry = None /\ ~(manifest # None /\ manifest.hook # None)
      BY <1>4 DEF Disable, Start, DisableWrites, Nothing
<1>. QED  BY <1>2, <1>3, <1>4

-------------------------------------------------------------------------------
(* What the actions do to the three disks *)

LEMMA AtRest == TypeOK /\ Restorable /\ Idle => Goal = disk /\ RestoreFiles = disk
BY Typed, Holds DEF TypeOK, Restorable, Goal, RestoreFiles, Disk

\* A manifest is written last, a generated prompt before the key that names
\* it, and the key is given back before anything else.
LEMMA Ranks ==
    /\ \A f \in File : Rank(f) \in 0..5 /\ (f # "manifest" => Rank(f) < 5)
    /\ Rank("manifest") = 5
    /\ cmd = "install" => Rank("prompt") < Rank("config")
    /\ cmd = "uninstall" => \A f \in File \ {"config"} : Rank("config") < Rank(f)
<1>1. Rank("config") = (IF cmd = "install" THEN 3 ELSE 0) /\ Rank("prompt") = 1
      /\ Rank("settings") = 4 /\ Rank("manifest") = 5
      BY DEF Rank
<1>2. \A p \in Profile : Rank(p) = 2
      BY Apart DEF Rank, Fixed
<1>3. \A f \in File : Rank(f) \in 0..5 /\ (f # "manifest" => Rank(f) < 5)
      BY <1>1, <1>2 DEF File, Fixed
<1>4. cmd = "uninstall" => \A f \in File \ {"config"} : Rank("config") < Rank(f)
      BY <1>1, <1>2 DEF File, Fixed
<1>. QED  BY <1>1, <1>3, <1>4

LEMMA StartDisks ==
    ASSUME TypeOK, Restorable, NEW name \in {"install", "uninstall", "enable", "disable"},
           NEW w, NEW restores, DOMAIN w \subseteq File, Fits(w), restores \subseteq DOMAIN w,
           \A f \in DOMAIN w \ restores : f = "manifest", Start(name, w, restores)
    PROVE  /\ TypeOK' /\ Restorable'
           /\ Idle /\ cmd' = name /\ todo' = w
           /\ disk' = disk /\ Goal' = Over(w) /\ RestoreFiles' = disk
<1>1. Idle /\ disk' = disk /\ cmd' = name /\ todo' = w /\ before' = Restrict(disk, restores)
      BY DEF Start
<1>2. DOMAIN disk = File /\ Fits(disk) /\ disk = [f \in File |-> disk[f]]
      BY Typed, Holds DEF TypeOK
<1>3. DOMAIN before' = restores /\ Fits(before') /\ \A f \in restores : before'[f] = disk[f]
      BY <1>1, <1>2, FitsSome
<1>4. Goal' = Over(w)
      BY <1>1 DEF Goal, Over
<1>5. RestoreFiles' = disk
      BY <1>1, <1>2, <1>3 DEF RestoreFiles
<1>6. Restorable'
      BY <1>1, <1>3, Apart DEF Restorable, Idle
<1>7. TypeOK'
  <2>1. DOMAIN disk' = File /\ Fits(disk')
        BY <1>1, <1>2
  <2>2. DOMAIN todo' \subseteq File /\ Fits(todo') /\ DOMAIN before' \subseteq File /\ Fits(before')
        BY <1>1, <1>3
  <2>3. Idle' <=> DOMAIN todo' = {}
        BY <1>1, Apart DEF Start, Idle
  <2>4. /\ cmd' \in {None, "install", "uninstall", "enable", "disable"}
        /\ release' \in Release /\ userValue' \in UserFile \cup {None}
        /\ scars' \subseteq {"install", "hook", "uninstall"} /\ touched' \in BOOLEAN
        /\ edits' \in 0 .. MaxEdits /\ fails' \in 0 .. MaxFails /\ deaths' \in 0 .. MaxDeaths
        BY DEF Start, TypeOK
  <2>. QED  BY <2>1, <2>2, <2>3, <2>4 DEF TypeOK
<1>. QED  BY <1>1, <1>4, <1>5, <1>6, <1>7

LEMMA FitsChanged ==
    ASSUME NEW d, DOMAIN d = File, Fits(d), NEW f \in File, NEW c \in Content(f)
    PROVE  LET e == [d EXCEPT ![f] = c]
           IN  DOMAIN e = File /\ Fits(e) /\ e[f] = c /\ \A g \in File \ {f} : e[g] = d[g]
BY DEF Fits

LEMMA WriteDisks ==
    ASSUME TypeOK, Restorable, WriteNext
    PROVE  /\ TypeOK' /\ Restorable' /\ ~Idle /\ Goal' = Goal
           /\ \E f \in DOMAIN todo :
                /\ \A g \in DOMAIN todo : Rank(f) <= Rank(g)
                /\ disk' = [disk EXCEPT ![f] = Goal[f]] /\ disk'[f] = Goal[f]
                /\ \A g \in File \ {f} : disk'[g] = disk[g]
                /\ todo' = Restrict(todo, DOMAIN todo \ {f})
                /\ f = "manifest" => cmd' = None
           /\ \/ cmd' = cmd /\ RestoreFiles' = RestoreFiles /\ scars' = scars
              \/ cmd' = None /\ disk' = Goal /\ RestoreFiles' = Goal
<1>1. PICK f \in DOMAIN todo :
         /\ \A g \in DOMAIN todo : Rank(f) <= Rank(g)
         /\ disk' = [disk EXCEPT ![f] = todo[f]]
         /\ todo' = Restrict(todo, DOMAIN todo \ {f})
      BY DEF WriteNext
<1>2. /\ DOMAIN disk = File /\ Fits(disk) /\ disk = [g \in File |-> disk[g]]
      /\ DOMAIN todo \subseteq File /\ Fits(todo) /\ DOMAIN before \subseteq File /\ Fits(before)
      BY Typed, Holds DEF TypeOK
<1>3. f \in File /\ todo[f] \in Content(f) /\ Goal[f] = todo[f]
      BY <1>2 DEF Fits, Goal
<1>4. /\ DOMAIN disk' = File /\ Fits(disk') /\ disk'[f] = todo[f]
      /\ \A g \in File \ {f} : disk'[g] = disk[g]
      BY <1>1, <1>2, <1>3, FitsChanged
<1>5. /\ DOMAIN todo' = DOMAIN todo \ {f} /\ Fits(todo')
      /\ \A g \in DOMAIN todo' : todo'[g] = todo[g]
      BY <1>1, <1>2, FitsSome
<1>6. Goal' = Goal
  <2>1. Goal' = [g \in File |-> IF g \in DOMAIN todo' THEN todo'[g] ELSE disk'[g]]
        BY DEF Goal
  <2>2. \A g \in File : (IF g \in DOMAIN todo' THEN todo'[g] ELSE disk'[g])
                          = (IF g \in DOMAIN todo THEN todo[g] ELSE disk[g])
        BY <1>4, <1>5
  <2>. QED  BY <2>1, <2>2 DEF Goal
<1>7. ASSUME f = "manifest" PROVE DOMAIN todo' = {}
  <2>1. \A g \in DOMAIN todo : g \in File /\ 5 <= Rank(g)
        BY <1>1, <1>2, <1>7, Ranks
  <2>2. \A g \in DOMAIN todo : g = "manifest"
        BY <2>1, Ranks
  <2>. QED  BY <1>5, <1>7, <2>2
<1>8. ~Idle
      BY <1>1 DEF TypeOK
<1>9. CASE DOMAIN todo' = {}
  <2>1. cmd' = None /\ before' = Nothing
        BY <1>9 DEF WriteNext, Done
  <2>2. disk' = Goal
    <3>1. Goal' = [g \in File |-> disk'[g]]
          BY <1>9 DEF Goal
    <3>. QED  BY <1>4, <1>6, <3>1 DEF Fits
  <2>3. RestoreFiles' = disk'
    <3>1. RestoreFiles' = [g \in File |-> disk'[g]]
          BY <2>1, FitsNothing DEF RestoreFiles
    <3>. QED  BY <1>4, <3>1 DEF Fits
  <2>4. Idle' <=> DOMAIN todo' = {}
        BY <1>9, <2>1 DEF Idle
  <2>5. scars' \subseteq {"install", "hook", "uninstall"}
        BY <1>9 DEF WriteNext, TypeOK
  <2>6. TypeOK'
        BY <1>2, <1>4, <1>5, <2>1, <2>4, <2>5, FitsNothing DEF TypeOK, WriteNext
  <2>7. Restorable'
        BY <1>9, <2>1, FitsNothing DEF Restorable
  <2>. QED  BY <1>1, <1>3, <1>4, <1>6, <1>8, <2>1, <2>2, <2>3, <2>6, <2>7
<1>10. CASE DOMAIN todo' # {}
  <2>1. cmd' = cmd /\ before' = before /\ scars' = scars
        BY <1>10 DEF WriteNext
  <2>2. f \in DOMAIN before
        BY <1>7, <1>10 DEF Restorable
  <2>3. RestoreFiles' = RestoreFiles
    <3>1. RestoreFiles' = [g \in File |-> IF g \in DOMAIN before THEN before[g] ELSE disk'[g]]
          BY <2>1 DEF RestoreFiles
    <3>. QED  BY <1>4, <2>2, <3>1 DEF RestoreFiles
  <2>4. Idle' <=> DOMAIN todo' = {}
        BY <1>8, <1>10, <2>1 DEF Idle
  <2>5. TypeOK'
        BY <1>2, <1>4, <1>5, <2>1, <2>4 DEF TypeOK, WriteNext
  <2>6. Restorable'
        BY <1>5, <1>8, <2>1 DEF Restorable, Idle
  <2>. QED  BY <1>1, <1>3, <1>4, <1>6, <1>7, <1>8, <1>10, <2>1, <2>3, <2>5, <2>6
<1>. QED  BY <1>9, <1>10

\* A command that has failed or died leaves its disk at rest.
LEMMA StopDisks ==
    ASSUME TypeOK, Restorable, NEW d \in Disk, disk' = d, todo' = Nothing, Done,
           UNCHANGED <<release, userValue, touched, edits>>,
           scars' \subseteq {"install", "hook", "uninstall"},
           fails' \in 0 .. MaxFails, deaths' \in 0 .. MaxDeaths
    PROVE  TypeOK' /\ Restorable' /\ Goal' = d /\ RestoreFiles' = d /\ cmd' = None
<1>1. DOMAIN d = File /\ Fits(d) /\ d = [g \in File |-> d[g]]
      BY Typed, Holds
<1>2. cmd' = None /\ before' = Nothing /\ DOMAIN todo' = {} /\ DOMAIN before' = {}
      /\ Fits(todo') /\ Fits(before')
      BY FitsNothing DEF Done
<1>3. Goal' = d /\ RestoreFiles' = d
      BY <1>1, <1>2 DEF Goal, RestoreFiles
<1>4. TypeOK'
      BY <1>1, <1>2 DEF TypeOK, Idle
<1>5. Restorable'
      BY <1>2 DEF Restorable
<1>. QED  BY <1>2, <1>3, <1>4, <1>5

LEMMA FailDisks ==
    ASSUME TypeOK, Restorable, Fail
    PROVE  /\ TypeOK' /\ Restorable' /\ ~Idle /\ cmd' = None
           /\ disk' = RestoreFiles /\ Goal' = RestoreFiles /\ RestoreFiles' = RestoreFiles
<1>1. fails' \in 0 .. MaxFails
      BY InstallationAssumption DEF Fail, TypeOK
<1>2. PICK d : d = RestoreFiles
      OBVIOUS
<1>3. d \in Disk /\ disk' = d
      BY <1>2 DEF Disk, Fail
<1>4. TypeOK' /\ Restorable' /\ Goal' = d /\ RestoreFiles' = d /\ cmd' = None
      BY <1>1, <1>3, StopDisks DEF Fail, TypeOK
<1>. QED  BY <1>2, <1>3, <1>4 DEF Fail

LEMMA DieDisks ==
    ASSUME TypeOK, Restorable, Die
    PROVE  /\ TypeOK' /\ Restorable' /\ ~Idle /\ cmd' = None
           /\ disk' = disk /\ Goal' = disk /\ RestoreFiles' = disk
<1>1. deaths' \in 0 .. MaxDeaths
      BY InstallationAssumption DEF Die, TypeOK
<1>2. PICK d : d = disk
      OBVIOUS
<1>3. d \in Disk /\ disk' = d
      BY <1>2 DEF Disk, Die
<1>4. scars' \subseteq {"install", "hook", "uninstall"}
      BY DEF Die, TypeOK
<1>5. TypeOK' /\ Restorable' /\ Goal' = d /\ RestoreFiles' = d /\ cmd' = None
      BY <1>1, <1>3, <1>4, StopDisks DEF Die, TypeOK
<1>. QED  BY <1>2, <1>3, <1>5 DEF Die

LEMMA EditDisks ==
    ASSUME TypeOK, Restorable, NEW f \in File, NEW c \in Content(f), Edit(f, c),
           userValue' \in UserFile \cup {None}
    PROVE  /\ TypeOK' /\ Restorable'
           /\ disk' = [disk EXCEPT ![f] = c]
           /\ Goal' \in {Goal, [Goal EXCEPT ![f] = c]}
           /\ RestoreFiles' \in {RestoreFiles, [RestoreFiles EXCEPT ![f] = c]}
           /\ Idle => Goal' = disk' /\ RestoreFiles' = disk'
<1>1. disk' = [disk EXCEPT ![f] = c] /\ UNCHANGED <<release, cmd, todo, before, fails, deaths>>
      BY DEF Edit
<1>2. DOMAIN disk = File /\ Fits(disk)
      BY DEF TypeOK
<1>3. DOMAIN disk' = File /\ Fits(disk') /\ disk'[f] = c /\ \A g \in File \ {f} : disk'[g] = disk[g]
      BY <1>1, <1>2, FitsChanged
<1>4. Goal' \in {Goal, [Goal EXCEPT ![f] = c]}
  <2>1. Goal' = [g \in File |-> IF g \in DOMAIN todo THEN todo[g] ELSE disk'[g]]
        BY <1>1 DEF Goal
  <2>2. CASE f \in DOMAIN todo  BY <1>3, <2>1, <2>2 DEF Goal
  <2>3. CASE f \notin DOMAIN todo  BY <1>3, <2>1, <2>3 DEF Goal
  <2>. QED  BY <2>2, <2>3
<1>5. RestoreFiles' \in {RestoreFiles, [RestoreFiles EXCEPT ![f] = c]}
  <2>1. RestoreFiles' = [g \in File |-> IF g \in DOMAIN before THEN before[g] ELSE disk'[g]]
        BY <1>1 DEF RestoreFiles
  <2>2. CASE f \in DOMAIN before  BY <1>3, <2>1, <2>2 DEF RestoreFiles
  <2>3. CASE f \notin DOMAIN before  BY <1>3, <2>1, <2>3 DEF RestoreFiles
  <2>. QED  BY <2>2, <2>3
<1>6. Restorable'
      BY <1>1 DEF Restorable, Idle
<1>7. edits' \in 0 .. MaxEdits /\ scars' \subseteq {"install", "hook", "uninstall"}
      /\ touched' \in BOOLEAN
      BY InstallationAssumption DEF Edit, TypeOK
<1>8. TypeOK'
      BY <1>1, <1>3, <1>7 DEF TypeOK, Idle
<1>9. ASSUME Idle PROVE Goal' = disk' /\ RestoreFiles' = disk'
  <2>1. DOMAIN todo' = {} /\ DOMAIN before' = {}
        BY <1>1, <1>9 DEF TypeOK, Restorable
  <2>2. Goal' = [g \in File |-> disk'[g]] /\ RestoreFiles' = [g \in File |-> disk'[g]]
        BY <2>1 DEF Goal, RestoreFiles
  <2>. QED  BY <1>3, <2>2 DEF Fits
<1>. QED  BY <1>1, <1>4, <1>5, <1>6, <1>8, <1>9

-------------------------------------------------------------------------------
(* The commands that start *)

LEMMA InstallStarts ==
    ASSUME TypeOK, Restorable, Install \/ Upgrade
    PROVE  /\ TypeOK' /\ Restorable' /\ Idle /\ ~InstallBlocked
           /\ cmd' = "install" /\ disk' = disk /\ RestoreFiles' = disk
           /\ scars' = scars \ {"uninstall"} /\ UNCHANGED <<release, userValue, touched, edits>>
           /\ \E hook \in HookRecord \cup {None} :
                /\ NewManifest(hook) \in Manifest
                /\ Goal'["manifest"] = NewManifest(hook)
                /\ Goal'["prompt"] = NewManifest(hook).prompt
                /\ Goal'["config"] = Omr
                /\ \A p \in Profile : Goal'[p] = IF p \in Ships[release] THEN release ELSE disk[p]
                /\ \/ Goal'["settings"] = entry /\ manifest # None /\ hook = manifest.hook
                   \/ hook = None
                   \/ Goal'["settings"] = release /\ hook = Enabled(release)
<1>1. PICK hook, newEntry :
         /\ ~InstallBlocked
         /\ Start("install", InstallWrites(hook, newEntry), DOMAIN InstallWrites(hook, newEntry))
         /\ \/ hook = (IF manifest = None THEN None ELSE manifest.hook) /\ newEntry = entry
            \/ /\ manifest # None /\ hook = UpgradedHook
               /\ newEntry = IF entry = None THEN None ELSE release
      BY DEF Install, Upgrade
<1>2. manifest \in Manifest \cup {None} /\ entry \in Release \cup {None, Legacy, Foreign}
      /\ release \in Release
      BY Typed DEF TypeOK
<1>3. hook \in HookRecord \cup {None} /\ newEntry \in Release \cup {None, Legacy, Foreign}
  <2>1. manifest # None => manifest.hook \in HookRecord \cup {None}
        BY <1>2, InManifest
  <2>2. Enabled(release) \in HookRecord
        BY <1>2 DEF Enabled, HookRecord
  <2>3. UpgradedHook \in {manifest.hook, Enabled(release)}
        BY DEF UpgradedHook
  <2>. QED  BY <1>1, <1>2, <2>1, <2>2, <2>3
<1>4. PICK w : w = InstallWrites(hook, newEntry)
      OBVIOUS
<1>5. /\ DOMAIN w \subseteq File /\ Fits(w)
      /\ Over(w)["prompt"] = NewManifest(hook).prompt
      /\ Over(w)["config"] = Omr
      /\ Over(w)["settings"] = newEntry
      /\ Over(w)["manifest"] = NewManifest(hook)
      /\ \A p \in Profile : Over(w)[p] = IF p \in Ships[release] THEN release ELSE disk[p]
      BY <1>1, <1>3, <1>4, InstallPlanned
<1>6. Start("install", w, DOMAIN w)
      BY <1>1, <1>4
<1>7. /\ TypeOK' /\ Restorable' /\ Idle /\ cmd' = "install"
      /\ disk' = disk /\ Goal' = Over(w) /\ RestoreFiles' = disk
      BY <1>5, <1>6, StartDisks
<1>8. scars' = scars \ {"uninstall"} /\ UNCHANGED <<release, userValue, touched, edits>>
      BY <1>6 DEF Start
<1>9. \/ Goal'["settings"] = entry /\ manifest # None /\ hook = manifest.hook
      \/ hook = None
      \/ Goal'["settings"] = release /\ hook = Enabled(release)
      BY <1>1, <1>5, <1>7 DEF UpgradedHook
<1>10. NewManifest(hook) \in Manifest
      BY <1>1, <1>3, NewManifestOk
<1>. QED  BY <1>1, <1>3, <1>5, <1>7, <1>8, <1>9, <1>10

LEMMA UninstallStarts ==
    ASSUME TypeOK, Restorable, Uninstall
    PROVE  /\ TypeOK' /\ Restorable' /\ Idle /\ CanUninstall
           /\ cmd' = "uninstall" /\ disk' = disk /\ RestoreFiles' = disk
           /\ scars' = scars /\ UNCHANGED <<release, userValue, touched, edits>>
           /\ "manifest" \in DOMAIN todo' /\ manifest \in Manifest
           /\ todo' = [f \in DOMAIN todo' |-> IF f = "config" THEN manifest.base ELSE None]
           /\ Goal'["config"] = IF AgentFile = Omr THEN manifest.base ELSE AgentFile
           /\ Goal'["config"] # Omr
           /\ Goal'["prompt"] = None /\ Goal'["settings"] = None /\ Goal'["manifest"] = None
           /\ \A p \in Profile : /\ Goal'[p] \in {None, disk[p]}
                                 /\ Claims(p) # None => Goal'[p] = None
<1>1. CanUninstall /\ Start("uninstall", UninstallWrites, UninstallFiles)
      BY DEF Uninstall
<1>2. PICK w : w = UninstallWrites
      OBVIOUS
<1>3. /\ DOMAIN w = UninstallFiles /\ DOMAIN w \subseteq File /\ Fits(w)
      /\ "manifest" \in DOMAIN w /\ manifest \in Manifest
      /\ w = [f \in DOMAIN w |-> IF f = "config" THEN manifest.base ELSE None]
      /\ Over(w)["config"] = IF AgentFile = Omr THEN manifest.base ELSE AgentFile
      /\ Over(w)["config"] # Omr
      /\ Over(w)["prompt"] = None
      /\ Over(w)["settings"] = None
      /\ Over(w)["manifest"] = None
      /\ \A p \in Profile : Over(w)[p] \in {None, disk[p]} /\ (Claims(p) # None => Over(w)[p] = None)
      BY <1>1, <1>2, UninstallPlanned
<1>4. Start("uninstall", w, UninstallFiles)
      BY <1>1, <1>2
<1>5. /\ TypeOK' /\ Restorable' /\ Idle /\ cmd' = "uninstall" /\ todo' = w
      /\ disk' = disk /\ Goal' = Over(w) /\ RestoreFiles' = disk
      BY <1>3, <1>4, StartDisks
<1>6. scars' = scars /\ UNCHANGED <<release, userValue, touched, edits>>
      BY <1>4 DEF Start
<1>. QED  BY <1>1, <1>3, <1>5, <1>6

LEMMA HookStarts ==
    ASSUME TypeOK, Restorable, Enable \/ Disable
    PROVE  /\ TypeOK' /\ Restorable' /\ Idle
           /\ cmd' \in {"enable", "disable"} /\ disk' = disk /\ RestoreFiles' = disk
           /\ DOMAIN todo' \subseteq {"settings", "manifest"}
           /\ scars' = scars \ {"uninstall"} /\ UNCHANGED <<release, userValue, touched, edits>>
           /\ \A f \in File \ {"settings", "manifest"} : Goal'[f] = disk[f]
           /\ \/ manifest = None /\ Goal'["manifest"] = None
              \/ /\ manifest # None
                 /\ \E record \in HookRecord :
                      /\ Goal'["manifest"] = WithHook(record)
                      /\ \/ Goal'["settings"] = release /\ record = Enabled(release)
                         \/ Goal'["settings"] = None /\ ~record.enabled
<1>1. CASE Enable
  <2>1. Start("enable", EnableWrites, HookRestores(EnableWrites))
        BY <1>1 DEF Enable
  <2>2. PICK w : w = EnableWrites
        OBVIOUS
  <2>3. /\ DOMAIN w \subseteq {"settings", "manifest"} /\ DOMAIN w \subseteq File /\ Fits(w)
        /\ Over(w)["settings"] = release
        /\ Over(w)["manifest"] = IF manifest = None THEN None ELSE WithHook(Enabled(release))
        /\ \A f \in File \ {"settings", "manifest"} : Over(w)[f] = disk[f]
        BY <2>2, EnablePlanned
  <2>4. Start("enable", w, HookRestores(w))
        BY <2>1, <2>2
  <2>5. HookRestores(w) \subseteq DOMAIN w /\ \A f \in DOMAIN w \ HookRestores(w) : f = "manifest"
        BY <2>3 DEF HookRestores
  <2>6. /\ TypeOK' /\ Restorable' /\ Idle /\ cmd' = "enable" /\ todo' = w
        /\ disk' = disk /\ Goal' = Over(w) /\ RestoreFiles' = disk
        BY <2>3, <2>4, <2>5, StartDisks
  <2>7. scars' = scars \ {"uninstall"} /\ UNCHANGED <<release, userValue, touched, edits>>
        BY <2>4 DEF Start
  <2>8. Enabled(release) \in HookRecord
        BY DEF Enabled, HookRecord, TypeOK
  <2>. QED  BY <2>3, <2>6, <2>7, <2>8
<1>2. CASE Disable
  <2>1. Start("disable", DisableWrites, HookRestores(DisableWrites))
        BY <1>2 DEF Disable
  <2>2. PICK w : w = DisableWrites
        OBVIOUS
  <2>3. /\ DOMAIN w \subseteq {"settings", "manifest"} /\ DOMAIN w \subseteq File /\ Fits(w)
        /\ Over(w)["settings"] = None
        /\ \/ manifest = None /\ Over(w)["manifest"] = None
           \/ manifest # None /\ \E e \in Release \cup {Legacy, Foreign} :
                                   Over(w)["manifest"] = WithHook(Disabled(e))
        /\ \A f \in File \ {"settings", "manifest"} : Over(w)[f] = disk[f]
        BY <1>2, <2>2, DisablePlanned
  <2>4. Start("disable", w, HookRestores(w))
        BY <2>1, <2>2
  <2>5. HookRestores(w) \subseteq DOMAIN w /\ \A f \in DOMAIN w \ HookRestores(w) : f = "manifest"
        BY <2>3 DEF HookRestores
  <2>6. /\ TypeOK' /\ Restorable' /\ Idle /\ cmd' = "disable" /\ todo' = w
        /\ disk' = disk /\ Goal' = Over(w) /\ RestoreFiles' = disk
        BY <2>3, <2>4, <2>5, StartDisks
  <2>7. scars' = scars \ {"uninstall"} /\ UNCHANGED <<release, userValue, touched, edits>>
        BY <2>4 DEF Start
  <2>8. \A e \in Release \cup {Legacy, Foreign} : Disabled(e) \in HookRecord /\ ~Disabled(e).enabled
        BY DEF Disabled, HookRecord
  <2>. QED  BY <2>3, <2>6, <2>7, <2>8
<1>. QED  BY <1>1, <1>2

\* What the user does.
UserEdit(f, c) ==
  /\ f \in {"config", "prompt", "settings"} \cup Profile
  /\ c \in (IF f = "config" THEN UserFile \cup {None} ELSE {None, Foreign})
  /\ Edit(f, c)
  /\ userValue' = IF f = "config" THEN c ELSE userValue

LEMMA UserEdits ==
    ASSUME TypeOK, Restorable, EditKey \/ EditFile \/ EditEntry
    PROVE  \E f \in File : \E c \in Content(f) :
             /\ UserEdit(f, c) /\ TypeOK' /\ Restorable'
             /\ disk' = [disk EXCEPT ![f] = c]
             /\ Goal' \in {Goal, [Goal EXCEPT ![f] = c]}
             /\ RestoreFiles' \in {RestoreFiles, [RestoreFiles EXCEPT ![f] = c]}
             /\ Idle => Goal' = disk' /\ RestoreFiles' = disk'
<1>1. PICK f, c : UserEdit(f, c)
  <2>1. CASE EditKey  BY <2>1 DEF EditKey, UserEdit
  <2>2. CASE EditFile  BY <2>2, Apart DEF EditFile, UserEdit, Fixed
  <2>3. CASE EditEntry  BY <2>3 DEF EditEntry, UserEdit
  <2>. QED  BY <2>1, <2>2, <2>3
<1>2. f \in File /\ c \in Content(f)
      BY <1>1, Contents, Apart DEF UserEdit, Fixed
<1>3. userValue' \in UserFile \cup {None}
      BY <1>1 DEF UserEdit, TypeOK
<1>. QED  BY <1>1, <1>2, <1>3, EditDisks DEF UserEdit

LEMMA Released ==
    ASSUME TypeOK, Restorable, NewRelease
    PROVE  /\ TypeOK' /\ Restorable' /\ Idle /\ cmd' = cmd
           /\ disk' = disk /\ Goal' = disk /\ RestoreFiles' = disk
<1>1. release' \in Release /\ scars' \subseteq {"install", "hook", "uninstall"}
      BY InstallationAssumption DEF NewRelease, TypeOK, Release
<1>2. TypeOK'
      BY <1>1 DEF NewRelease, TypeOK, Idle
<1>3. Restorable'
      BY DEF NewRelease, Restorable, Idle
<1>4. Goal' = Goal /\ RestoreFiles' = RestoreFiles
      BY DEF NewRelease, Goal, RestoreFiles
<1>. QED  BY <1>2, <1>3, <1>4, AtRest DEF NewRelease

LEMMA Stutters ==
    ASSUME UNCHANGED vars
    PROVE  /\ disk' = disk /\ Goal' = Goal /\ RestoreFiles' = RestoreFiles
           /\ UNCHANGED <<release, cmd, todo, before, userValue, touched, scars, edits, fails, deaths>>
BY DEF vars, Goal, RestoreFiles

-------------------------------------------------------------------------------
(* Types *)

LEMMA TypeStep == TypeOK /\ Restorable /\ [Next]_vars => TypeOK' /\ Restorable'
<1> SUFFICES ASSUME TypeOK, Restorable, [Next]_vars PROVE TypeOK' /\ Restorable'
    OBVIOUS
<1>1. CASE Install \/ Upgrade  BY <1>1, InstallStarts
<1>2. CASE Uninstall  BY <1>2, UninstallStarts
<1>3. CASE Enable \/ Disable  BY <1>3, HookStarts
<1>4. CASE WriteNext  BY <1>4, WriteDisks
<1>5. CASE Fail  BY <1>5, FailDisks
<1>6. CASE Die  BY <1>6, DieDisks
<1>7. CASE EditKey \/ EditFile \/ EditEntry  BY <1>7, UserEdits
<1>8. CASE NewRelease  BY <1>8, Released
<1>9. CASE UNCHANGED vars  BY <1>9 DEF vars, TypeOK, Restorable, Idle
<1>. QED  BY <1>1, <1>2, <1>3, <1>4, <1>5, <1>6, <1>7, <1>8, <1>9 DEF Next

LEMMA Later ==
    ASSUME TypeOK, release' \in {release, release + 1}
    PROVE  \A d : /\ Shipped(d) => Shipped(d)'
                  /\ Based(d) => Based(d)'
                  /\ Claimed(d) => Claimed(d)'
<1>1. release \in Nat /\ \A r \in Release : r \in Nat
      BY Apart DEF TypeOK
<1>2. \A d : Shipped(d) => Shipped(d)'
      BY <1>1 DEF Shipped
<1>3. \A p, r : Dropped(p, r) => Dropped(p, r)'
      BY <1>1 DEF Dropped
<1>4. \A d : Claimed(d) => Claimed(d)'
      BY <1>3 DEF Claimed
<1>. QED  BY <1>2, <1>4 DEF Based

LEMMA ReleaseGrows ==
    ASSUME TypeOK, Restorable, [Next]_vars
    PROVE  release' \in {release, release + 1}
<1>1. CASE Install \/ Upgrade  BY <1>1, InstallStarts
<1>2. CASE Uninstall  BY <1>2, UninstallStarts
<1>3. CASE Enable \/ Disable  BY <1>3, HookStarts
<1>4. CASE WriteNext \/ Fail \/ Die  BY <1>4 DEF WriteNext, Fail, Die
<1>5. CASE EditKey \/ EditFile \/ EditEntry  BY <1>5 DEF EditKey, EditFile, EditEntry, Edit
<1>6. CASE NewRelease  BY <1>6 DEF NewRelease
<1>7. CASE UNCHANGED vars  BY <1>7 DEF vars
<1>. QED  BY <1>1, <1>2, <1>3, <1>4, <1>5, <1>6, <1>7 DEF Next

\* A disk of which the user changes one file.
LEMMA EditKeeps ==
    ASSUME NEW d, DOMAIN d = File, NEW f \in File, NEW c, NEW e, e \in {d, [d EXCEPT ![f] = c]},
           f \in {"config", "prompt", "settings"} \cup Profile,
           c \in (IF f = "config" THEN UserFile \cup {None} ELSE {None, Foreign})
    PROVE  /\ e["manifest"] = d["manifest"]
           /\ Shipped(d) => Shipped(e)
           /\ Based(d) => Based(e)
           /\ Claimed(d) => Claimed(e)
           /\ e["settings"] \in {d["settings"], None, Foreign}
           /\ e["config"] = Omr => d["config"] = Omr
<1>1. CASE e = d  BY <1>1
<1>2. CASE e = [d EXCEPT ![f] = c]
  <2>1. e[f] = c /\ \A g \in File \ {f} : e[g] = d[g]
        BY <1>2
  <2>2. "manifest" \in File \ {f} /\ {"config", "prompt", "settings"} \subseteq File
        BY Apart, Contents DEF Fixed
  <2>3. e["manifest"] = d["manifest"]
        BY <2>1, <2>2
  <2>4. None \notin Release /\ Foreign \notin Release /\ None \notin Composition
        /\ Foreign \notin Composition /\ Omr \notin UserFile \cup {None}
        BY Apart
  <2>5. e["config"] = Omr => d["config"] = Omr
        BY <2>1, <2>2, <2>4
  <2>6. e["prompt"] \in Composition => e["prompt"] = d["prompt"]
        BY <2>1, <2>2, <2>4
  <2>7. \A p \in Profile : p \in File /\ p # "config"
        BY Apart, Contents DEF Fixed
  <2>8. \A p \in Profile : e[p] \in Release => e[p] = d[p]
        BY <2>1, <2>4, <2>7
  <2>9. e["settings"] \in {d["settings"], None, Foreign}
        BY <2>1, <2>2
  <2>10. Shipped(d) => Shipped(e)
        BY <2>8 DEF Shipped
  <2>11. Claimed(d) => Claimed(e)
        BY <2>3, <2>5, <2>6, <2>8 DEF Claimed
  <2>. QED  BY <2>3, <2>5, <2>9, <2>10, <2>11 DEF Based
<1>. QED  BY <1>1, <1>2

-------------------------------------------------------------------------------
(* Whatever OMR writes is claimed *)

LEMMA InstallSafe ==
    ASSUME TypeOK, Restorable, Safe, Install \/ Upgrade
    PROVE  /\ Shipped(Goal') /\ Based(Goal')
           /\ "install" \notin scars => Claimed(Goal')
<1>1. PICK hook \in HookRecord \cup {None} :
         /\ NewManifest(hook) \in Manifest
         /\ Goal'["manifest"] = NewManifest(hook)
         /\ Goal'["prompt"] = NewManifest(hook).prompt
         /\ \A p \in Profile : Goal'[p] = IF p \in Ships[release] THEN release ELSE disk[p]
      BY InstallStarts
<1>2. Idle /\ disk \in Whole /\ Shipped(disk) /\ Based(disk)
      BY InstallStarts, Apart DEF Safe, Whole, Disk, Idle
<1>3. release \in Release /\ release \in Nat /\ \A r \in Release : r \in Nat
      BY Apart DEF TypeOK
<1>4. PICK g : g = Goal'
      OBVIOUS
<1>5. PICK m : m = NewManifest(hook)
      OBVIOUS
<1>6. /\ m # None /\ m.prompt.text = TextOf[UserSource] /\ m.base = BaseValue
      /\ m.source = UserSource
      /\ \A p \in Ships[release] : p \in Profile => m.profiles[p] = release
      BY <1>1, <1>5, Apart DEF NewManifest
<1>7. g["manifest"] = m /\ g["prompt"] = m.prompt
      /\ \A p \in Profile : g[p] = IF p \in Ships[release] THEN release ELSE disk[p]
      BY <1>1, <1>4, <1>5
<1>8. TextOf[UserSource] = TextOf[BaseValue]
      BY <1>2 DEF UserSource, BaseValue, PromptOwned, Based, manifest
<1>9. Based(g)
      BY <1>6, <1>7, <1>8 DEF Based
<1>10. Shipped(g)
      BY <1>2, <1>3, <1>7 DEF Shipped
<1>11. ASSUME NEW p \in Profile, g[p] \in Release
       PROVE  m.profiles[p] = g[p] \/ Dropped(p, g[p])
  <2>1. CASE p \in Ships[release]  BY <1>6, <1>7, <2>1
  <2>2. CASE p \notin Ships[release]
    <3>1. g[p] = disk[p] /\ disk[p] <= release /\ p \in Ships[disk[p]]
          BY <1>2, <1>7, <1>11, <2>2 DEF Shipped
    <3>2. g[p] \in Nat /\ g[p] # release
          BY <1>3, <1>11, <2>2, <3>1
    <3>3. release \in g[p] + 1 .. release
          BY <1>3, <3>1, <3>2
    <3>. QED  BY <2>2, <3>3 DEF Dropped
  <2>. QED  BY <2>1, <2>2
<1>12. Claimed(g)
      BY <1>6, <1>7, <1>11 DEF Claimed
<1>. QED  BY <1>4, <1>9, <1>10, <1>12

LEMMA UninstallSafe ==
    ASSUME TypeOK, Restorable, Safe, Uninstall
    PROVE  /\ Shipped(Goal') /\ Based(Goal')
           /\ "install" \notin scars => Claimed(Goal')
<1>1. /\ Goal'["config"] # Omr /\ Goal'["prompt"] = None /\ Goal'["manifest"] = None
      /\ \A p \in Profile : Goal'[p] \in {None, disk[p]} /\ (Claims(p) # None => Goal'[p] = None)
      /\ manifest \in Manifest /\ Idle
      BY UninstallStarts
<1>2. PICK g : g = Goal'
      OBVIOUS
<1>3. None \notin Release /\ None \notin Composition
      BY Apart
<1>4. Shipped(disk) /\ ("install" \notin scars => Claimed(disk))
      BY <1>1, Apart DEF Safe, Whole, Disk, Idle
<1>5. Shipped(g) /\ Based(g)
      BY <1>1, <1>2, <1>3, <1>4 DEF Shipped, Based
<1>6. ASSUME "install" \notin scars, NEW p \in Profile, g[p] \in Release PROVE Dropped(p, g[p])
  <2>1. g[p] = disk[p] /\ manifest.profiles[p] = None
        BY <1>1, <1>2, <1>3, <1>6, InManifest DEF Claims
  <2>. QED  BY <1>3, <1>4, <1>6, <2>1 DEF Claimed, manifest
<1>7. "install" \notin scars => Claimed(g)
      BY <1>1, <1>2, <1>3, <1>6 DEF Claimed
<1>. QED  BY <1>2, <1>5, <1>7

LEMMA HookSafe ==
    ASSUME TypeOK, Restorable, Safe, Enable \/ Disable
    PROVE  /\ Shipped(Goal') /\ Based(Goal')
           /\ "install" \notin scars => Claimed(Goal')
<1>1. PICK g : g = Goal'
      OBVIOUS
<1>2. /\ \A f \in File \ {"settings", "manifest"} : g[f] = disk[f]
      /\ \/ manifest = None /\ g["manifest"] = None
         \/ manifest # None /\ \E record \in HookRecord : g["manifest"] = WithHook(record)
      /\ Idle
      BY <1>1, HookStarts
<1>3. Shipped(disk) /\ Based(disk) /\ ("install" \notin scars => Claimed(disk))
      BY <1>2, Apart DEF Safe, Whole, Disk, Idle
<1>4. g["config"] = disk["config"] /\ g["prompt"] = disk["prompt"] /\ \A p \in Profile : g[p] = disk[p]
      BY <1>2, Contents, Apart DEF Fixed
<1>5. manifest \in Manifest \cup {None} /\ None \notin Manifest
      BY Typed, Apart
<1>6. \/ g["manifest"] = None /\ manifest = None
      \/ /\ g["manifest"] # None /\ manifest # None
         /\ g["manifest"].prompt = manifest.prompt /\ g["manifest"].base = manifest.base
         /\ g["manifest"].profiles = manifest.profiles
         /\ g["manifest"].source = manifest.source
  <2>1. CASE manifest = None  BY <1>2, <2>1
  <2>2. CASE manifest # None
    <3>1. PICK record \in HookRecord : g["manifest"] = WithHook(record)
          BY <1>2, <2>2
    <3>2. WithHook(record) \in Manifest /\ WithHook(record).prompt = manifest.prompt
          /\ WithHook(record).base = manifest.base /\ WithHook(record).profiles = manifest.profiles
          /\ WithHook(record).source = manifest.source
          BY <1>5, <2>2 DEF WithHook, Manifest
    <3>. QED  BY <1>5, <2>2, <3>1, <3>2
  <2>. QED  BY <2>1, <2>2
<1>7. Shipped(g)
      BY <1>3, <1>4 DEF Shipped
<1>8. Based(g)
      BY <1>3, <1>6 DEF Based, manifest
<1>9. "install" \notin scars => Claimed(g)
      BY <1>3, <1>4, <1>6 DEF Claimed, manifest
<1>. QED  BY <1>1, <1>7, <1>8, <1>9

LEMMA WriteSafe ==
    ASSUME TypeOK, Restorable, Safe, Removing, Hooking, WriteNext
    PROVE  /\ Shipped(disk') /\ Based(disk')
           /\ "install" \notin scars /\ cmd' # "install" => Claimed(disk')
<1>1. PICK f \in DOMAIN todo :
         /\ disk'[f] = Goal[f] /\ \A g \in File \ {f} : disk'[g] = disk[g]
         /\ f = "manifest" => cmd' = None
      BY WriteDisks
<1>2. Goal \in Disk /\ disk \in Disk
      BY DEF Disk
<1>3. \A g \in File : disk'[g] \in {disk[g], Goal[g]}
      BY <1>1
<1>4. PICK d : d = disk'
      OBVIOUS
<1>5. "manifest" \in File /\ "config" \in File /\ "prompt" \in File /\ Profile \subseteq File
      BY Contents DEF Fixed
<1>6. Shipped(d) /\ Based(d)
  <2>1. Shipped(disk) /\ Shipped(Goal) /\ Based(disk) /\ Based(Goal)
        BY <1>2 DEF Safe
  <2>2. \A g \in File : d[g] \in {disk[g], Goal[g]}
        BY <1>3, <1>4
  <2>3. Shipped(d)
        BY <1>5, <2>1, <2>2 DEF Shipped
  <2>4. Based(d)
        BY <1>5, <2>1, <2>2 DEF Based
  <2>. QED  BY <2>3, <2>4
<1>7. ASSUME "install" \notin scars, cmd' # "install" PROVE Claimed(d)
  <2>1. CASE d = Goal
        BY <1>7, <2>1 DEF Safe, Whole, Disk
  <2>2. CASE d # Goal
    <3>1. cmd' = cmd /\ f # "manifest" /\ ~Idle
          BY <1>1, <1>4, <2>2, WriteDisks DEF Idle
    <3>2. cmd \in {"uninstall", "enable", "disable"}
          BY <1>7, <3>1 DEF TypeOK, Idle
    <3>3. Claimed(disk)
          BY <1>7, <3>1 DEF Safe, Whole, Disk
    <3>4. f \in File /\ Goal[f] = todo[f]
          BY DEF Goal, TypeOK
    <3>5. CASE cmd = "uninstall"
      <4>1. todo[f] = IF f = "config" THEN manifest.base ELSE None
            BY <3>5 DEF Removing
      <4>2. d[f] = (IF f = "config" THEN manifest.base ELSE None) /\ \A g \in File \ {f} : d[g] = disk[g]
            BY <1>1, <1>4, <3>4, <4>1
      <4>3. manifest \in Manifest /\ manifest.base \in UserFile \cup {None}
            BY <3>5, Typed, InManifest DEF Removing
      <4>4. manifest.base # Omr /\ None # Omr /\ None \notin Composition /\ None \notin Release
            BY <4>3, Apart
      <4>5. d["manifest"] = disk["manifest"]
            BY <1>5, <3>1, <4>2
      <4>6. d["config"] = Omr => disk["config"] = Omr
            BY <1>5, <4>2, <4>4
      <4>7. d["prompt"] \in Composition => d["prompt"] = disk["prompt"]
            BY <1>5, <4>2, <4>4
      <4>8. \A p \in Profile : p \in File /\ p # "config"
            BY Contents, Apart DEF Fixed
      <4>9. \A p \in Profile : d[p] \in Release => d[p] = disk[p]
            BY <4>2, <4>4, <4>8
      <4>. QED  BY <3>3, <4>5, <4>6, <4>7, <4>9 DEF Claimed
    <3>6. CASE cmd \in {"enable", "disable"}
      <4>1. f = "settings"
            BY <3>1, <3>6 DEF Hooking
      <4>2. \A g \in File \ {"settings"} : d[g] = disk[g]
            BY <1>1, <1>4, <4>1
      <4>3. \A p \in Profile : p # "settings"
            BY Apart DEF Fixed
      <4>. QED  BY <1>5, <3>3, <4>2, <4>3 DEF Claimed
    <3>. QED  BY <3>2, <3>5, <3>6
  <2>. QED  BY <2>1, <2>2
<1>. QED  BY <1>4, <1>6, <1>7

LEMMA SafeStep ==
    ASSUME TypeOK, Restorable, Safe, Removing, Hooking, [Next]_vars
    PROVE  Safe'
<1> SUFFICES /\ \A d \in Disk' : Shipped(d) /\ Based(d)
             /\ "install" \notin scars' => \A d \in Whole' : Claimed(d)
    BY Later, ReleaseGrows DEF Safe
<1>1. Idle => disk \in Whole
      BY Apart DEF Whole, Disk, Idle
<1>2. /\ Disk' = {disk', Goal', RestoreFiles'}
      /\ Whole' = IF cmd' = "install" THEN {Goal', RestoreFiles'} ELSE Disk'
      BY DEF Disk, Whole
<1>3. /\ \A d \in Disk : Shipped(d) /\ Based(d)
      /\ "install" \notin scars => \A d \in Whole : Claimed(d)
      /\ disk \in Disk /\ Goal \in Disk /\ RestoreFiles \in Disk
      /\ Goal \in Whole /\ RestoreFiles \in Whole
      BY DEF Safe, Disk, Whole
<1>4. CASE Install \/ Upgrade
  <2>1. Idle /\ disk' = disk /\ RestoreFiles' = disk /\ scars' = scars \ {"uninstall"}
        BY <1>4, InstallStarts
  <2>. QED  BY <1>1, <1>2, <1>3, <1>4, <2>1, InstallSafe
<1>5. CASE Uninstall
  <2>1. Idle /\ disk' = disk /\ RestoreFiles' = disk /\ scars' = scars
        BY <1>5, UninstallStarts
  <2>. QED  BY <1>1, <1>2, <1>3, <1>5, <2>1, UninstallSafe
<1>6. CASE Enable \/ Disable
  <2>1. Idle /\ disk' = disk /\ RestoreFiles' = disk /\ scars' = scars \ {"uninstall"}
        BY <1>6, HookStarts
  <2>. QED  BY <1>1, <1>2, <1>3, <1>6, <2>1, HookSafe
<1>7. CASE WriteNext
  <2>1. Goal' = Goal /\ RestoreFiles' \in {RestoreFiles, Goal}
        BY <1>7, WriteDisks
  <2>2. "install" \notin scars' => "install" \notin scars
        BY <1>7 DEF WriteNext
  <2>. QED  BY <1>2, <1>3, <1>7, <2>1, <2>2, WriteSafe
<1>8. CASE Fail
  <2>1. disk' = RestoreFiles /\ Goal' = RestoreFiles /\ RestoreFiles' = RestoreFiles /\ scars' = scars
        BY <1>8, FailDisks DEF Fail
  <2>. QED  BY <1>2, <1>3, <2>1
<1>9. CASE Die
  <2>1. disk' = disk /\ Goal' = disk /\ RestoreFiles' = disk
        BY <1>9, DieDisks
  <2>2. "install" \notin scars' => "install" \notin scars /\ cmd # "install"
        BY <1>9 DEF Die
  <2>3. cmd # "install" => disk \in Whole
        BY DEF Whole, Disk
  <2>. QED  BY <1>2, <1>3, <2>1, <2>2, <2>3
<1>10. CASE EditKey \/ EditFile \/ EditEntry
  <2>0. PICK f \in File : \E c \in Content(f) :
           /\ UserEdit(f, c)
           /\ disk' = [disk EXCEPT ![f] = c]
           /\ Goal' \in {Goal, [Goal EXCEPT ![f] = c]}
           /\ RestoreFiles' \in {RestoreFiles, [RestoreFiles EXCEPT ![f] = c]}
        BY <1>10, UserEdits
  <2>1. PICK c \in Content(f) :
           /\ UserEdit(f, c)
           /\ disk' = [disk EXCEPT ![f] = c]
           /\ Goal' \in {Goal, [Goal EXCEPT ![f] = c]}
           /\ RestoreFiles' \in {RestoreFiles, [RestoreFiles EXCEPT ![f] = c]}
        BY <2>0
  <2>2. cmd' = cmd /\ ("install" \notin scars' => "install" \notin scars)
        BY <2>1 DEF UserEdit, Edit
  <2>3. \A d \in Disk : \A e \in {d, [d EXCEPT ![f] = c]} :
           (Shipped(d) => Shipped(e)) /\ (Based(d) => Based(e)) /\ (Claimed(d) => Claimed(e))
        BY <2>1, Typed, EditKeeps DEF UserEdit
  <2>4. \A e \in Disk' : Shipped(e) /\ Based(e)
        BY <1>2, <1>3, <2>1, <2>3
  <2>5. ASSUME "install" \notin scars', NEW e \in Whole' PROVE Claimed(e)
    <3>1. \E d \in Whole : e \in {d, [d EXCEPT ![f] = c]}
          BY <1>2, <2>1, <2>2, <2>5 DEF Whole, Disk
    <3>2. Whole \subseteq Disk
          BY DEF Whole, Disk
    <3>. QED  BY <1>3, <2>2, <2>3, <2>5, <3>1, <3>2
  <2>. QED  BY <2>4, <2>5
<1>11. CASE NewRelease
  <2>1. Idle /\ disk' = disk /\ Goal' = disk /\ RestoreFiles' = disk
        BY <1>11, Released
  <2>2. "install" \notin scars' => "install" \notin scars
        BY <1>11 DEF NewRelease
  <2>. QED  BY <1>1, <1>2, <1>3, <2>1, <2>2
<1>12. CASE UNCHANGED vars
  <2>1. Disk' = Disk /\ Whole' = Whole /\ scars' = scars
        BY <1>2, <1>12, Stutters DEF Disk, Whole
  <2>. QED  BY <1>3, <2>1
<1>. QED  BY <1>4, <1>5, <1>6, <1>7, <1>8, <1>9, <1>10, <1>11, <1>12 DEF Next

-------------------------------------------------------------------------------
(* The record and the entry *)

LEMMA AgreedStep ==
    ASSUME TypeOK, Restorable, Agreed, [Next]_vars
    PROVE  Agreed'
<1>1. edits \in Nat
      BY InstallationAssumption DEF TypeOK
<1> SUFFICES (edits' = edits \/ edits' = edits + 1) /\ \A d \in Tidy' : Agree(d) \/ Agree(d)'
  <2>1. \A d : Agree(d) /\ (edits' = edits \/ edits' = edits + 1) => Agree(d)'
        BY <1>1 DEF Agree
  <2>. QED  BY <2>1 DEF Agreed
<1>2. Tidy' = (IF "hook" \notin scars' THEN {Goal', RestoreFiles'} ELSE {})
              \cup (IF cmd' \in {"enable", "disable"} THEN {Goal'} ELSE {})
      BY DEF Tidy
<1>3. Idle => Goal = disk /\ RestoreFiles = disk
      BY AtRest
<1>4. "hook" \notin scars => Agree(Goal) /\ Agree(RestoreFiles)
      BY DEF Agreed, Tidy
<1>5. manifest \in Manifest \cup {None} /\ None \notin Manifest /\ release \in Release
      /\ entry \in Release \cup {None, Legacy, Foreign} /\ None \notin Release
      BY Typed, Apart DEF TypeOK
<1>6. CASE Install \/ Upgrade
  <2>1. /\ Idle /\ cmd' = "install" /\ RestoreFiles' = disk /\ scars' = scars \ {"uninstall"}
        /\ edits' = edits
        BY <1>6, InstallStarts
  <2>2. PICK hook \in HookRecord \cup {None} :
           /\ Goal'["manifest"] = NewManifest(hook)
           /\ \/ Goal'["settings"] = entry /\ manifest # None /\ hook = manifest.hook
              \/ hook = None
              \/ Goal'["settings"] = release /\ hook = Enabled(release)
        BY <1>6, InstallStarts
  <2>3. PICK g : g = Goal'
        OBVIOUS
  <2>4. g["manifest"].hook = hook
        BY <2>2, <2>3 DEF NewManifest
  <2>5. ASSUME "hook" \notin scars PROVE Agree(g)
    <3>1. CASE g["settings"] = entry /\ manifest # None /\ hook = manifest.hook
      <4>1. Agree(disk)
            BY <1>3, <1>4, <2>1, <2>5
      <4>. QED  BY <2>4, <3>1, <4>1 DEF Agree, entry, manifest
    <3>2. CASE hook = None  BY <2>4, <3>2 DEF Agree
    <3>3. CASE g["settings"] = release /\ hook = Enabled(release)
          BY <2>4, <3>3 DEF Agree, Enabled
    <3>. QED  BY <2>2, <2>3, <3>1, <3>2, <3>3
  <2>. QED  BY <1>2, <1>3, <1>4, <2>1, <2>3, <2>5
<1>7. CASE Uninstall
  <2>1. /\ Idle /\ cmd' = "uninstall" /\ RestoreFiles' = disk /\ scars' = scars /\ edits' = edits
        /\ Goal'["manifest"] = None
        BY <1>7, UninstallStarts
  <2>2. PICK g : g = Goal'
        OBVIOUS
  <2>3. Agree(g)
        BY <2>1, <2>2 DEF Agree
  <2>. QED  BY <1>2, <1>3, <1>4, <2>1, <2>2, <2>3
<1>8. CASE Enable \/ Disable
  <2>1. /\ Idle /\ RestoreFiles' = disk /\ scars' = scars \ {"uninstall"} /\ edits' = edits
        /\ \/ manifest = None /\ Goal'["manifest"] = None
           \/ /\ manifest # None
              /\ \E record \in HookRecord :
                   /\ Goal'["manifest"] = WithHook(record)
                   /\ \/ Goal'["settings"] = release /\ record = Enabled(release)
                      \/ Goal'["settings"] = None /\ ~record.enabled
        BY <1>8, HookStarts
  <2>2. PICK g : g = Goal'
        OBVIOUS
  <2>3. Agree(g)
    <3>1. CASE g["manifest"] = None  BY <3>1 DEF Agree
    <3>2. CASE g["manifest"] # None
      <4>1. manifest \in Manifest
            BY <1>5, <2>1, <2>2, <3>2
      <4>2. PICK record \in HookRecord :
               /\ g["manifest"] = WithHook(record)
               /\ \/ g["settings"] = release /\ record = Enabled(release)
                  \/ g["settings"] = None /\ ~record.enabled
            BY <2>1, <2>2, <3>2
      <4>3. g["manifest"].hook = record
            BY <4>1, <4>2 DEF WithHook, Manifest
      <4>. QED  BY <1>5, <4>2, <4>3 DEF Agree, Enabled
    <3>. QED  BY <3>1, <3>2
  <2>. QED  BY <1>2, <1>3, <1>4, <2>1, <2>2, <2>3
<1>9. CASE WriteNext
  <2>1. Goal' = Goal /\ (RestoreFiles' = RestoreFiles \/ RestoreFiles' = Goal)
        BY <1>9, WriteDisks
  <2>2. /\ edits' = edits
        /\ cmd' \in {cmd, None}
        /\ \/ scars' = scars
           \/ cmd \in {"enable", "disable"} /\ cmd' = None
        BY <1>9 DEF WriteNext, Done
  <2>3. cmd \in {"enable", "disable"} => Agree(Goal)
        BY DEF Agreed, Tidy
  <2>4. CASE scars' = scars
        BY <1>2, <1>4, <2>1, <2>2, <2>3, <2>4, Apart
  <2>5. CASE cmd \in {"enable", "disable"} /\ cmd' = None
    <3>1. RestoreFiles' = Goal
          BY <1>9, <2>5, WriteDisks, Apart
    <3>. QED  BY <1>2, <2>1, <2>2, <2>3, <2>5, <3>1
  <2>. QED  BY <2>2, <2>4, <2>5
<1>10. CASE Fail
  <2>1. Goal' = RestoreFiles /\ RestoreFiles' = RestoreFiles /\ cmd' = None
        /\ scars' = scars /\ edits' = edits
        BY <1>10, FailDisks DEF Fail
  <2>. QED  BY <1>2, <1>4, <2>1, Apart
<1>11. CASE Die
  <2>1. "hook" \in scars' /\ cmd' = None /\ edits' = edits
        BY <1>11, DieDisks DEF Die
  <2>. QED  BY <1>2, <2>1, Apart
<1>12. CASE EditKey \/ EditFile \/ EditEntry
  <2>0. PICK f \in File : \E c \in Content(f) :
           /\ UserEdit(f, c)
           /\ Goal' \in {Goal, [Goal EXCEPT ![f] = c]}
           /\ RestoreFiles' \in {RestoreFiles, [RestoreFiles EXCEPT ![f] = c]}
        BY <1>12, UserEdits
  <2>1. PICK c \in Content(f) :
           /\ UserEdit(f, c)
           /\ Goal' \in {Goal, [Goal EXCEPT ![f] = c]}
           /\ RestoreFiles' \in {RestoreFiles, [RestoreFiles EXCEPT ![f] = c]}
        BY <2>0
  <2>2. cmd' = cmd /\ ("hook" \notin scars' => "hook" \notin scars) /\ edits' = edits + 1
        BY <2>1 DEF UserEdit, Edit
  <2>3. ASSUME NEW d \in Disk, NEW e \in {d, [d EXCEPT ![f] = c]}, Agree(d)
        PROVE  Agree(e)'
    <3>1. e["manifest"] = d["manifest"] /\ e["settings"] \in {d["settings"], None, Foreign}
          BY <2>1, <2>3, Typed, EditKeeps DEF UserEdit
    <3>2. edits' > 0 /\ None \notin Release /\ Foreign \notin Release
          BY <1>1, <2>2, Apart
    <3>. QED  BY <2>3, <3>1, <3>2 DEF Agree
  <2>4. \A e \in Tidy' : \E d \in Tidy : e \in {d, [d EXCEPT ![f] = c]}
        BY <1>2, <2>1, <2>2 DEF Tidy
  <2>5. Tidy \subseteq Disk
        BY DEF Tidy, Disk
  <2>. QED  BY <2>2, <2>3, <2>4, <2>5 DEF Agreed
<1>13. CASE NewRelease
  <2>1. /\ Idle /\ Goal' = disk /\ RestoreFiles' = disk /\ cmd' = cmd
        /\ scars' = scars \ {"uninstall"} /\ edits' = edits
        BY <1>13, Released DEF NewRelease
  <2>. QED  BY <1>2, <1>3, <1>4, <2>1, Apart DEF Idle
<1>14. CASE UNCHANGED vars
  <2>1. Tidy' = Tidy /\ edits' = edits
        BY <1>2, <1>14, Stutters DEF Tidy
  <2>. QED  BY <2>1 DEF Agreed
<1>. QED  BY <1>6, <1>7, <1>8, <1>9, <1>10, <1>11, <1>12, <1>13, <1>14 DEF Next

-------------------------------------------------------------------------------
(* The user's key *)

LEMMA KeyApart == TypeOK => userValue # Omr
BY Apart DEF TypeOK

LEMMA InstallReturns ==
    ASSUME TypeOK, Restorable, Safe, Returned, ~touched, Install \/ Upgrade
    PROVE  /\ Goal'["config"] = Omr
           /\ Goal'["manifest"] # None /\ Alike(Goal'["manifest"].base)
           /\ "install" \notin scars => Goal'["manifest"].base = userValue
           /\ Goal'["prompt"] \in Composition /\ Goal'["prompt"].text = TextOf[userValue]
<1>1. PICK hook \in HookRecord \cup {None} :
         /\ NewManifest(hook) \in Manifest
         /\ Goal'["manifest"] = NewManifest(hook)
         /\ Goal'["prompt"] = NewManifest(hook).prompt
         /\ Goal'["config"] = Omr
      BY InstallStarts
<1>2. NewManifest(hook) # None /\ NewManifest(hook).prompt \in Composition
      /\ NewManifest(hook).base = BaseValue
      /\ NewManifest(hook).prompt.text = TextOf[UserSource]
      BY <1>1, InManifest DEF NewManifest
<1>3. Kept(disk) /\ Based(disk) /\ ~InstallBlocked /\ ("install" \notin scars => Exact(disk))
      BY InstallStarts, Apart DEF Returned, Safe, Disk, Whole, Idle
<1>4. /\ Alike(BaseValue) /\ TextOf[UserSource] = TextOf[userValue]
      /\ "install" \notin scars => BaseValue = userValue
  <2>1. CASE PromptOwned
    <3>1. /\ manifest # None /\ disk["config"] = Omr
          /\ manifest.prompt.text = TextOf[manifest.base]
          /\ TextOf[manifest.source] = TextOf[manifest.base]
          BY <1>3, <2>1 DEF PromptOwned, AgentFile, Based, manifest
    <3>2. disk["prompt"] \in {None, manifest.prompt}
          BY <1>3, <3>1 DEF InstallBlocked, PromptConflict
    <3>3. None \notin Composition
          BY Apart
    <3>4. Alike(manifest.base)
          BY <1>3, <3>1, <3>2, <3>3 DEF Kept, Resembles, Recalls, Alike, manifest
    <3>5. "install" \notin scars => manifest.base = userValue
          BY <1>3, <3>1, KeyApart DEF Exact, Returns, manifest
    <3>. QED  BY <2>1, <3>1, <3>4, <3>5 DEF BaseValue, UserSource, Alike
  <2>2. CASE ~PromptOwned
    <3>1. AgentFile # Omr
          BY <1>3, <2>2 DEF InstallBlocked
    <3>2. Alike(disk["config"]) /\ ("install" \notin scars => disk["config"] = userValue)
          BY <1>3, <3>1 DEF AgentFile, Kept, Exact
    <3>. QED  BY <2>2, <3>2 DEF BaseValue, UserSource, AgentFile, Alike
  <2>. QED  BY <2>1, <2>2
<1>. QED  BY <1>1, <1>2, <1>4

\* An uninstall that is not refused finds its baseline to be the user's
\* value, or after a dead installation one of the same text.
LEMMA BaseIsUsers ==
    ASSUME TypeOK, Safe, Returned, ~touched, Idle, CanUninstall, disk["config"] = Omr
    PROVE  /\ Alike(manifest.base)
           /\ "install" \notin scars => manifest.base = userValue
<1>1. Kept(disk) /\ Based(disk) /\ manifest # None
      BY DEF Returned, Safe, Disk, CanUninstall
<1>2. disk["prompt"] \in {None, manifest.prompt}
      BY DEF CanUninstall, UninstallBlocked, PromptConflict
<1>3. None \notin Composition
      BY Apart
<1>4. Alike(manifest.base)
      BY <1>1, <1>2, <1>3 DEF Kept, Resembles, Recalls, Based, Alike, manifest
<1>5. "install" \notin scars => Exact(disk)
      BY Apart DEF Returned, Whole, Disk, Idle
<1>6. "install" \notin scars => manifest.base = userValue
      BY <1>5, KeyApart DEF Exact, Returns, manifest
<1>. QED  BY <1>4, <1>6

\* The next write of a plan keeps what a dead command would leave.
LEMMA WriteReturns ==
    ASSUME TypeOK, Restorable, Returned, Removing, Hooking, ~touched, WriteNext
    PROVE  /\ Kept(disk')
           /\ "install" \notin scars /\ cmd' # "install" => Exact(disk')
<1>1. PICK f \in DOMAIN todo :
         /\ \A g \in DOMAIN todo : Rank(f) <= Rank(g)
         /\ disk'[f] = Goal[f] /\ \A g \in File \ {f} : disk'[g] = disk[g]
         /\ f = "manifest" => cmd' = None
      BY WriteDisks
<1>2. PICK d : d = disk'
      OBVIOUS
<1>3. Kept(disk) /\ Kept(Goal) /\ Goal \in Disk /\ Goal \in Whole
      BY DEF Returned, Disk, Whole
<1>4. CASE d = Goal
      BY <1>2, <1>3, <1>4 DEF Returned
<1>5. CASE d # Goal
  <2>1. cmd' = cmd /\ f # "manifest" /\ ~Idle
        BY <1>1, <1>2, <1>5, WriteDisks DEF Idle
  <2>2. "config" \in File /\ "prompt" \in File /\ "manifest" \in File /\ f \in File
        BY Contents DEF Fixed, TypeOK
  <2>3. d[f] = Goal[f] /\ d["manifest"] = disk["manifest"] /\ \A g \in File \ {f} : d[g] = disk[g]
        BY <1>1, <1>2, <2>1, <2>2
  <2>4. cmd # "install" /\ "install" \notin scars =>
            Exact(disk)
        BY DEF Returned, Whole, Disk
  <2>8. "install" \notin scars => Exact(Goal)
        BY <1>3 DEF Returned
  <2>5. CASE cmd = "install"
    <3>1. Recalls(Goal)
          BY <2>5 DEF Returned
    <3>2. CASE f = "config"
      <4>1. "prompt" \notin DOMAIN todo
        <5>1. "prompt" \in DOMAIN todo => Rank("config") <= Rank("prompt")
              BY <1>1, <3>2
        <5>2. Rank("prompt") < Rank("config") /\ Rank("prompt") \in 0..5 /\ Rank("config") \in 0..5
              BY <2>2, <2>5, Ranks
        <5>. QED  BY <5>1, <5>2
      <4>2. d["prompt"] = Goal["prompt"]
            BY <2>2, <2>3, <3>2, <4>1 DEF Goal
      <4>. QED  BY <1>2, <1>3, <2>1, <2>3, <2>5, <3>1, <3>2, <4>2 DEF Kept, Recalls
    <3>3. CASE f = "prompt"
          BY <1>2, <1>3, <2>1, <2>2, <2>3, <2>5, <3>1, <3>3 DEF Kept, Recalls
    <3>4. CASE f \notin {"config", "prompt"}
          BY <1>2, <1>3, <2>1, <2>2, <2>3, <2>5, <3>4 DEF Kept, Recalls, Resembles
    <3>. QED  BY <3>2, <3>3, <3>4
  <2>6. CASE cmd = "uninstall"
    <3>1. Goal["config"] # Omr
          BY <2>6 DEF Removing
    <3>2. CASE f = "config"
          BY <1>2, <1>3, <2>2, <2>3, <3>1, <3>2, <2>8 DEF Kept, Exact
    <3>3. CASE f # "config"
      <4>1. "config" \notin DOMAIN todo
        <5>1. "config" \in DOMAIN todo => Rank(f) <= Rank("config")
              BY <1>1
        <5>2. Rank("config") < Rank(f) /\ Rank(f) \in 0..5 /\ Rank("config") \in 0..5
              BY <2>2, <2>6, <3>3, Ranks
        <5>. QED  BY <5>1, <5>2
      <4>2. d["config"] = Goal["config"]
            BY <2>2, <2>3, <3>3, <4>1 DEF Goal
      <4>. QED  BY <1>2, <1>3, <2>8, <3>1, <4>2 DEF Kept, Exact
    <3>. QED  BY <3>2, <3>3
  <2>7. CASE cmd \in {"enable", "disable"}
    <3>1. f = "settings"
          BY <2>1, <2>7 DEF Hooking
    <3>2. d["config"] = disk["config"] /\ d["prompt"] = disk["prompt"]
          BY <2>2, <2>3, <3>1
    <3>. QED  BY <1>2, <1>3, <2>1, <2>3, <2>4, <2>7, <3>2 DEF Kept, Returns, Resembles, Recalls, Exact
  <2>. QED  BY <2>1, <2>5, <2>6, <2>7 DEF TypeOK, Idle
<1>. QED  BY <1>4, <1>5

LEMMA EditReturns ==
    ASSUME TypeOK, Restorable, Returned, ~touched', EditKey \/ EditFile \/ EditEntry
    PROVE  Returned'
<1>1. PICK f \in File : \E c \in Content(f) :
         /\ UserEdit(f, c) /\ disk' = [disk EXCEPT ![f] = c]
         /\ Idle => Goal' = disk' /\ RestoreFiles' = disk'
      BY UserEdits
<1>2. PICK c \in Content(f) :
         /\ UserEdit(f, c) /\ disk' = [disk EXCEPT ![f] = c]
         /\ Idle => Goal' = disk' /\ RestoreFiles' = disk'
      BY <1>1
<1>3. /\ ~touched /\ Idle /\ (f = "prompt" => "install" \notin scars)
      /\ cmd' = None /\ scars' = scars \ {"uninstall"}
      BY <1>2 DEF UserEdit, Edit, Idle
<1>4. Disk' = {disk'} /\ Whole' \subseteq {disk'} /\ cmd' # "install"
      BY <1>2, <1>3, Apart DEF Disk, Whole
<1>5. DOMAIN disk = File /\ {"config", "prompt", "manifest"} \subseteq File
      BY Contents DEF TypeOK, Fixed
<1>6. disk'[f] = c /\ \A g \in File \ {f} : disk'[g] = disk[g]
      BY <1>2, <1>5
<1>7. f # "manifest" /\ disk'["manifest"] = disk["manifest"]
      BY <1>2, <1>5, <1>6, Apart DEF UserEdit, Fixed
<1>8. Kept(disk) /\ ("install" \notin scars => Exact(disk))
      BY <1>3, Apart DEF Returned, Disk, Whole, Idle
<1>9. PICK d : d = disk'
      OBVIOUS
<1>10. Kept(d)' /\ ("install" \notin scars => Exact(d)')
  <2>1. CASE f = "config"
    <3>1. d["config"] = userValue' /\ d["config"] # Omr
          BY <1>2, <1>6, <1>9, <2>1, Apart DEF UserEdit
    <3>. QED  BY <3>1 DEF Kept, Exact, Alike
  <2>2. CASE f # "config"
    <3>1. d["config"] = disk["config"] /\ userValue' = userValue /\ d["manifest"] = disk["manifest"]
          BY <1>2, <1>5, <1>6, <1>7, <1>9, <2>2 DEF UserEdit
    <3>2. f # "prompt" => d["prompt"] = disk["prompt"]
          BY <1>5, <1>6, <1>9
    <3>. QED  BY <1>3, <1>8, <3>1, <3>2, KeyApart DEF Kept, Returns, Resembles, Recalls, Exact, Alike
  <2>. QED  BY <2>1, <2>2
<1>. QED  BY <1>3, <1>4, <1>9, <1>10 DEF Returned

LEMMA ReturnedStep ==
    ASSUME TypeOK, Restorable, Safe, Returned, Removing, Hooking, [Next]_vars
    PROVE  Returned'
<1>1. CASE EditKey \/ EditFile \/ EditEntry
  <2>1. CASE touched'  BY <2>1 DEF Returned
  <2>2. CASE ~touched'  BY <1>1, <2>2, EditReturns
  <2>. QED  BY <2>1, <2>2
<1>2. ASSUME userValue' = userValue, touched' = touched,
             ~touched => /\ \A d \in Disk' : Kept(d)
                         /\ "install" \notin scars' =>
                               \A d \in Whole' : Exact(d)
                         /\ cmd' = "install" => \A d \in {Goal'} : Recalls(d)
      PROVE  Returned'
  <2>1. \A d : (Kept(d) => Kept(d)') /\ (Exact(d) => Exact(d)') /\ (Recalls(d) => Recalls(d)')
        BY <1>2 DEF Kept, Returns, Resembles, Recalls, Exact, Alike
  <2>. QED  BY <1>2, <2>1 DEF Returned
<1>3. /\ Disk' = {disk', Goal', RestoreFiles'}
      /\ Whole' = IF cmd' = "install" THEN {Goal', RestoreFiles'} ELSE Disk'
      BY DEF Disk, Whole
<1>4. ~touched => /\ Kept(disk) /\ Kept(Goal) /\ Kept(RestoreFiles)
                  /\ "install" \notin scars =>
                        \A d \in Whole : Exact(d)
                  /\ cmd = "install" => Recalls(Goal)
      BY DEF Returned, Disk
<1>5. /\ Goal \in Whole /\ RestoreFiles \in Whole
      /\ Idle => disk \in Whole
      /\ cmd # "install" => disk \in Whole
      BY Apart DEF Whole, Disk, Idle
<1>6. CASE Install \/ Upgrade
  <2>1. /\ Idle /\ cmd' = "install" /\ disk' = disk /\ RestoreFiles' = disk
        /\ scars' = scars \ {"uninstall"} /\ userValue' = userValue /\ touched' = touched
        BY <1>6, InstallStarts
  <2>2. PICK g : g = Goal'
        OBVIOUS
  <2>3. ~touched => Recalls(g) /\ Kept(g) /\ ("install" \notin scars => Exact(g))
        BY <1>6, <2>2, InstallReturns DEF Returns, Resembles, Recalls, Kept, Exact
  <2>. QED  BY <1>2, <1>3, <1>4, <1>5, <2>1, <2>2, <2>3
<1>7. CASE Uninstall
  <2>1. /\ Idle /\ cmd' = "uninstall" /\ disk' = disk /\ RestoreFiles' = disk
        /\ scars' = scars /\ userValue' = userValue /\ touched' = touched /\ CanUninstall
        /\ Goal'["config"] = IF AgentFile = Omr THEN manifest.base ELSE AgentFile
        /\ Goal'["config"] # Omr
        BY <1>7, UninstallStarts
  <2>2. PICK g : g = Goal'
        OBVIOUS
  <2>3. ~touched => Kept(g) /\ ("install" \notin scars => Exact(g))
    <3>1. ~touched => /\ Alike(g["config"])
                      /\ "install" \notin scars => g["config"] = userValue
      <4>1. CASE AgentFile = Omr
            BY <2>1, <2>2, <4>1, BaseIsUsers DEF AgentFile
      <4>2. CASE AgentFile # Omr
            BY <1>4, <1>5, <2>1, <2>2, <4>2 DEF AgentFile, Kept, Exact
      <4>. QED  BY <4>1, <4>2
    <3>. QED  BY <2>1, <2>2, <3>1 DEF Kept, Exact
  <2>. QED  BY <1>2, <1>3, <1>4, <1>5, <2>1, <2>2, <2>3
<1>8. CASE Enable \/ Disable
  <2>1. /\ Idle /\ cmd' \in {"enable", "disable"} /\ disk' = disk /\ RestoreFiles' = disk
        /\ scars' = scars \ {"uninstall"} /\ userValue' = userValue /\ touched' = touched
        /\ \A f \in File \ {"settings", "manifest"} : Goal'[f] = disk[f]
        /\ \/ manifest = None /\ Goal'["manifest"] = None
           \/ /\ manifest # None
              /\ \E record \in HookRecord : Goal'["manifest"] = WithHook(record)
        BY <1>8, HookStarts
  <2>2. PICK g : g = Goal'
        OBVIOUS
  <2>3. g["config"] = disk["config"] /\ g["prompt"] = disk["prompt"]
        BY <2>1, <2>2, Contents DEF Fixed
  <2>4. manifest # None => g["manifest"] # None /\ g["manifest"].base = manifest.base
    <3>1. manifest \in Manifest \cup {None} /\ None \notin Manifest
          BY Typed, Apart
    <3>2. ASSUME manifest # None PROVE g["manifest"] # None /\ g["manifest"].base = manifest.base
      <4>1. PICK record \in HookRecord : g["manifest"] = WithHook(record)
            BY <2>1, <2>2, <3>2
      <4>2. WithHook(record) \in Manifest /\ WithHook(record).base = manifest.base
            BY <3>1, <3>2 DEF WithHook, Manifest
      <4>. QED  BY <3>1, <4>1, <4>2
    <3>. QED  BY <3>2
  <2>5. ~touched => Kept(g)
        BY <1>4, <2>3, <2>4 DEF Kept, Resembles, Recalls, manifest
  <2>6. ~touched /\ "install" \notin scars => Exact(g)
        BY <1>4, <1>5, <2>1, <2>3, <2>4 DEF Exact, Returns, manifest
  <2>. QED  BY <1>2, <1>3, <1>4, <1>5, <2>1, <2>2, <2>5, <2>6
<1>9. CASE WriteNext
  <2>1. Goal' = Goal /\ RestoreFiles' \in {RestoreFiles, Goal} /\ cmd' \in {cmd, None}
        BY <1>9, WriteDisks
  <2>2. /\ userValue' = userValue /\ touched' = touched
        /\ "install" \notin scars' => "install" \notin scars
        BY <1>9 DEF WriteNext
  <2>3. PICK d : d = disk'
        OBVIOUS
  <2>4. ~touched => /\ Kept(d)
                    /\ "install" \notin scars /\ cmd' # "install" => Exact(d)
        BY <1>9, <2>3, WriteReturns
  <2>. QED  BY <1>2, <1>3, <1>4, <1>5, <2>1, <2>2, <2>3, <2>4, Apart
<1>10. CASE Fail
  <2>1. /\ disk' = RestoreFiles /\ Goal' = RestoreFiles /\ RestoreFiles' = RestoreFiles /\ cmd' = None
        /\ scars' = scars /\ userValue' = userValue /\ touched' = touched
        BY <1>10, FailDisks DEF Fail
  <2>. QED  BY <1>2, <1>3, <1>4, <1>5, <2>1, Apart
<1>11. CASE Die
  <2>1. /\ disk' = disk /\ Goal' = disk /\ RestoreFiles' = disk /\ cmd' = None
        /\ userValue' = userValue /\ touched' = touched
        /\ "install" \notin scars' => "install" \notin scars /\ cmd # "install"
        BY <1>11, DieDisks DEF Die
  <2>. QED  BY <1>2, <1>3, <1>4, <1>5, <2>1, Apart
<1>12. CASE NewRelease
  <2>1. /\ Idle /\ disk' = disk /\ Goal' = disk /\ RestoreFiles' = disk /\ cmd' = cmd
        /\ scars' = scars \ {"uninstall"} /\ userValue' = userValue /\ touched' = touched
        BY <1>12, Released DEF NewRelease
  <2>. QED  BY <1>2, <1>3, <1>4, <1>5, <2>1, Apart DEF Idle
<1>13. CASE UNCHANGED vars
  <2>1. /\ Disk' = Disk /\ Whole' = Whole /\ scars' = scars /\ cmd' = cmd /\ Goal' = Goal
        /\ userValue' = userValue /\ touched' = touched
        BY <1>3, <1>13, Stutters DEF Disk, Whole
  <2>. QED  BY <1>2, <2>1 DEF Returned
<1>. QED  BY <1>1, <1>6, <1>7, <1>8, <1>9, <1>10, <1>11, <1>12, <1>13 DEF Next

-------------------------------------------------------------------------------
(* Uninstalling, and again after a death *)

LEMMA RemovingStep ==
    ASSUME TypeOK, Restorable, Removing, Hooking, [Next]_vars
    PROVE  Removing' /\ Hooking'
<1>1. manifest' = disk'["manifest"]
      BY DEF manifest
<1>2. CASE Install \/ Upgrade
      BY <1>2, InstallStarts DEF Removing, Hooking
<1>3. CASE Uninstall
  <2>1. /\ cmd' = "uninstall" /\ disk' = disk /\ "manifest" \in DOMAIN todo' /\ manifest \in Manifest
        /\ todo' = [f \in DOMAIN todo' |-> IF f = "config" THEN manifest.base ELSE None]
        /\ Goal'["config"] # Omr
        BY <1>3, UninstallStarts
  <2>2. manifest' = manifest /\ manifest # None
        BY <1>1, <2>1, Apart DEF manifest
  <2>. QED  BY <2>1, <2>2 DEF Removing, Hooking
<1>4. CASE Enable \/ Disable
      BY <1>4, HookStarts DEF Removing, Hooking
<1>5. CASE WriteNext
  <2>1. PICK f \in DOMAIN todo :
           /\ \A g \in File \ {f} : disk'[g] = disk[g]
           /\ todo' = Restrict(todo, DOMAIN todo \ {f})
           /\ f = "manifest" => cmd' = None
        BY <1>5, WriteDisks
  <2>2. Goal' = Goal /\ cmd' \in {cmd, None}
        BY <1>5, WriteDisks
  <2>3. DOMAIN todo' = DOMAIN todo \ {f} /\ todo' = [g \in DOMAIN todo' |-> todo[g]]
        BY <2>1 DEF Restrict
  <2>4. Hooking'
        BY <2>2, <2>3, Apart DEF Hooking
  <2>5. ASSUME cmd' = "uninstall" PROVE Removing'
    <3>1. cmd = "uninstall" /\ f # "manifest"
          BY <2>1, <2>2, <2>5, Apart
    <3>2. manifest' = manifest
          BY <1>1, <2>1, <3>1, Contents DEF manifest, Fixed
    <3>. QED  BY <2>2, <2>3, <3>1, <3>2 DEF Removing
  <2>. QED  BY <2>4, <2>5 DEF Removing
<1>6. CASE Fail
      BY <1>6, FailDisks, Apart DEF Removing, Hooking
<1>7. CASE Die
      BY <1>7, DieDisks, Apart DEF Removing, Hooking
<1>8. CASE EditKey \/ EditFile \/ EditEntry
  <2>0. PICK f \in File : \E c \in Content(f) :
           /\ UserEdit(f, c) /\ disk' = [disk EXCEPT ![f] = c]
           /\ Goal' \in {Goal, [Goal EXCEPT ![f] = c]}
        BY <1>8, UserEdits
  <2>1. PICK c \in Content(f) :
           /\ UserEdit(f, c) /\ disk' = [disk EXCEPT ![f] = c]
           /\ Goal' \in {Goal, [Goal EXCEPT ![f] = c]}
        BY <2>0
  <2>2. cmd' = cmd /\ todo' = todo
        BY <2>1 DEF UserEdit, Edit
  <2>3. Goal'["config"] = Omr => Goal["config"] = Omr
        BY <2>1, Typed, EditKeeps DEF UserEdit, Disk
  <2>4. manifest' = manifest
        BY <1>1, <2>1, Typed, EditKeeps DEF UserEdit, Disk, manifest
  <2>. QED  BY <2>2, <2>3, <2>4 DEF Removing, Hooking
<1>9. CASE NewRelease
      BY <1>9, Released, Apart DEF Removing, Hooking, Idle
<1>10. CASE UNCHANGED vars
      BY <1>10, <1>1, Stutters DEF Removing, Hooking, manifest
<1>. QED  BY <1>2, <1>3, <1>4, <1>5, <1>6, <1>7, <1>8, <1>9, <1>10 DEF Next

LEMMA CanIs == TypeOK /\ manifest # None => (CanUninstall <=> Uninstallable(disk))
<1> SUFFICES ASSUME TypeOK, manifest # None PROVE CanUninstall <=> Uninstallable(disk)
    OBVIOUS
<1>1. manifest = disk["manifest"] /\ entry = disk["settings"] /\ AgentFile = disk["config"]
      BY DEF manifest, entry, AgentFile
<1>2. \A p \in Profile : Claims(p) = manifest.profiles[p]
      BY DEF Claims
<1>3. (entry # None /\ ~LifecycleEntryOwned)
        <=> ~(\/ entry \in {None, release, Legacy}
              \/ manifest.hook # None /\ manifest.hook.entry = entry /\ entry # Foreign)
      BY DEF LifecycleEntryOwned, OwnCommand, Recorded
<1>4. PromptConflict <=> disk["prompt"] \notin {None, manifest.prompt}
      BY DEF PromptConflict
<1>. QED  BY <1>1, <1>2, <1>3, <1>4 DEF CanUninstall, UninstallBlocked, ProfileConflict,
             Uninstallable

\* An uninstall only empties files, and gives the key its baseline.
LEMMA WriteUninstalls ==
    ASSUME TypeOK, Restorable, Removing, WriteNext, cmd = "uninstall", cmd' = "uninstall",
           Uninstallable(disk)
    PROVE  Uninstallable(disk')
<1>1. PICK f \in DOMAIN todo :
         /\ disk'[f] = Goal[f] /\ \A g \in File \ {f} : disk'[g] = disk[g]
         /\ f = "manifest" => cmd' = None
      BY WriteDisks
<1>2. f # "manifest" /\ f \in File
      BY <1>1, Apart DEF TypeOK
<1>3. disk'[f] = IF f = "config" THEN manifest.base ELSE None
      BY <1>1, <1>2 DEF Removing, Goal
<1>4. PICK d : d = disk'
      OBVIOUS
<1>5. {"config", "prompt", "settings", "manifest"} \subseteq File /\ Profile \subseteq File
      /\ \A p \in Profile : p # "config"
      BY Contents, Apart DEF Fixed
<1>6. d["manifest"] = manifest /\ d["config"] \in {disk["config"], manifest.base}
      /\ d["prompt"] \in {disk["prompt"], None} /\ d["settings"] \in {disk["settings"], None}
      /\ \A p \in Profile : d[p] \in {disk[p], None}
      BY <1>1, <1>2, <1>3, <1>4, <1>5 DEF manifest
<1>7. Uninstallable(d)
      BY <1>6 DEF Uninstallable, manifest
<1>. QED  BY <1>4, <1>7

LEMMA ResumableStep ==
    ASSUME TypeOK, Restorable, Removing, Resumable, [Next]_vars
    PROVE  Resumable'
<1>1. ASSUME release' = release,
             cmd' \in {"install", "enable", "disable"} => "uninstall" \notin scars',
             manifest' # None /\ ("uninstall" \in scars' \/ (cmd' = "uninstall" /\ ~touched')) =>
                \A d \in {disk', RestoreFiles'} : Uninstallable(d)
      PROVE  Resumable'
  <2>1. \A d : Uninstallable(d) => Uninstallable(d)'
        BY <1>1 DEF Uninstallable
  <2>. QED  BY <1>1, <2>1 DEF Resumable
<1>2. manifest' = disk'["manifest"]
      BY DEF manifest
<1>3. Idle => RestoreFiles = disk
      BY AtRest
<1>4. /\ cmd \in {"install", "enable", "disable"} => "uninstall" \notin scars
      /\ manifest # None /\ ("uninstall" \in scars \/ (cmd = "uninstall" /\ ~touched)) =>
            Uninstallable(disk) /\ Uninstallable(RestoreFiles)
      BY DEF Resumable
<1>5. CASE Install \/ Upgrade
      BY <1>1, <1>5, InstallStarts
<1>6. CASE Uninstall
  <2>1. /\ CanUninstall /\ cmd' = "uninstall" /\ disk' = disk /\ RestoreFiles' = disk
        /\ release' = release /\ manifest \in Manifest
        BY <1>6, UninstallStarts
  <2>2. Uninstallable(disk)
        BY <2>1, CanIs, Apart
  <2>. QED  BY <1>1, <2>1, <2>2
<1>7. CASE Enable \/ Disable
      BY <1>1, <1>7, HookStarts
<1>8. CASE WriteNext
  <2>1. /\ release' = release /\ touched' = touched
        /\ "uninstall" \in scars' <=> "uninstall" \in scars
        /\ ~Idle
        BY <1>8, WriteDisks DEF WriteNext
  <2>2. CASE cmd' = cmd /\ RestoreFiles' = RestoreFiles
    <3>1. CASE cmd = "uninstall"
      <4>1. manifest # None
            BY <3>1 DEF Removing
      <4>2. PICK d : d = disk'
            OBVIOUS
      <4>3. Uninstallable(disk) => Uninstallable(d)
            BY <1>8, <2>2, <3>1, <4>2, WriteUninstalls
      <4>. QED  BY <1>1, <1>4, <2>1, <2>2, <3>1, <4>1, <4>2, <4>3
    <3>2. CASE cmd # "uninstall"
          BY <1>1, <1>4, <2>1, <2>2, <3>2 DEF TypeOK, Idle
    <3>. QED  BY <3>1, <3>2
  <2>3. CASE cmd' = None /\ disk' = Goal
    <3>1. CASE cmd = "uninstall"
      <4>1. "manifest" \in DOMAIN todo /\ todo["manifest"] = None /\ "manifest" \in File
            BY <3>1, Contents DEF Removing, Fixed
      <4>2. manifest' = None
            BY <1>2, <2>3, <4>1 DEF Goal
      <4>. QED  BY <1>1, <2>1, <2>3, <4>2, Apart
    <3>2. CASE cmd # "uninstall"
          BY <1>1, <1>4, <2>1, <2>3, <3>2, Apart DEF TypeOK, Idle
    <3>. QED  BY <3>1, <3>2
  <2>. QED  BY <1>8, <2>2, <2>3, WriteDisks
<1>9. CASE Fail
  <2>1. /\ ~Idle /\ cmd' = None /\ disk' = RestoreFiles /\ RestoreFiles' = RestoreFiles
        /\ release' = release /\ scars' = scars
        BY <1>9, FailDisks DEF Fail
  <2>2. CASE cmd = "uninstall"
    <3>1. manifest # None
          BY <2>2 DEF Removing
    <3>. QED  BY <1>1, <1>4, <2>1, <3>1, Apart
  <2>3. CASE cmd # "uninstall"
        BY <1>1, <1>4, <2>1, <2>3, Apart DEF TypeOK, Idle
  <2>. QED  BY <2>2, <2>3
<1>10. CASE Die
  <2>1. /\ ~Idle /\ cmd' = None /\ disk' = disk /\ RestoreFiles' = disk /\ release' = release
        /\ "uninstall" \in scars' => "uninstall" \in scars \/ (cmd = "uninstall" /\ ~touched)
        BY <1>10, DieDisks DEF Die
  <2>2. manifest' = manifest
        BY <1>2, <2>1 DEF manifest
  <2>. QED  BY <1>1, <1>4, <2>1, <2>2, Apart
<1>11. CASE EditKey \/ EditFile \/ EditEntry
  <2>1. /\ scars' = scars \ {"uninstall"} /\ cmd' = cmd /\ release' = release
        /\ cmd = "uninstall" => touched'
        BY <1>11, Apart DEF EditKey, EditFile, EditEntry, Edit, Idle
  <2>. QED  BY <1>1, <2>1
<1>12. CASE NewRelease
  <2>1. scars' = scars \ {"uninstall"} /\ cmd' = None
        BY <1>12 DEF NewRelease, Idle
  <2>. QED  BY <2>1, Apart DEF Resumable
<1>13. CASE UNCHANGED vars
  <2>1. /\ disk' = disk /\ RestoreFiles' = RestoreFiles /\ manifest' = manifest
        /\ UNCHANGED <<release, cmd, touched, scars>>
        BY <1>2, <1>13, Stutters DEF manifest
  <2>. QED  BY <1>1, <1>4, <2>1
<1>. QED  BY <1>5, <1>6, <1>7, <1>8, <1>9, <1>10, <1>11, <1>12, <1>13 DEF Next

-------------------------------------------------------------------------------
(* What the proofs establish *)

LEMMA InitInv == Init => IInv
<1> SUFFICES ASSUME Init PROVE IInv
    OBVIOUS
<1>1. /\ disk \in [File -> {None, Legacy} \cup UserFile]
      /\ disk["config"] \in UserFile \cup {None} /\ disk["settings"] \in {None, Legacy}
      /\ \A f \in File \ {"config", "settings"} : disk[f] = None
      BY DEF Init
<1>2. disk["prompt"] = None /\ disk["manifest"] = None /\ \A p \in Profile : disk[p] = None
      BY <1>1, Contents, Apart DEF Fixed
<1>3. TypeOK
  <2>1. \A f \in File : disk[f] \in Content(f)
        BY <1>1, <1>2, Contents DEF File, Fixed
  <2>2. DOMAIN disk = File /\ Fits(disk)
        BY <1>1, <2>1 DEF Fits
  <2>3. DOMAIN todo = {} /\ DOMAIN before = {} /\ Fits(todo) /\ Fits(before)
        BY FitsNothing DEF Init, Nothing
  <2>4. cmd = None /\ (Idle <=> DOMAIN todo = {})
        BY <2>3 DEF Init, Idle
  <2>5. release = 1 /\ 1 \in Release /\ userValue \in UserFile \cup {None}
        BY <1>1, InstallationAssumption DEF Init, Release
  <2>6. scars = {} /\ touched = FALSE /\ edits = 0 /\ fails = 0 /\ deaths = 0
        BY DEF Init
  <2>7. 0 \in 0 .. MaxEdits /\ 0 \in 0 .. MaxFails /\ 0 \in 0 .. MaxDeaths
        BY InstallationAssumption
  <2>. QED  BY <2>2, <2>3, <2>4, <2>5, <2>6, <2>7 DEF TypeOK
<1>4. Restorable
      BY FitsNothing DEF Init, Restorable
<1>5. Goal = disk /\ RestoreFiles = disk /\ cmd = None /\ scars = {} /\ userValue = disk["config"]
      BY <1>3, <1>4, AtRest DEF Init, Idle
<1>6. None \notin Release /\ None \notin Composition /\ Omr \notin UserFile \cup {None}
      BY Apart
<1>7. Safe
      BY <1>1, <1>2, <1>5, <1>6 DEF Safe, Whole, Disk, Shipped, Based, Claimed
<1>8. Agreed
      BY <1>2, <1>5 DEF Agreed, Tidy, Agree
<1>9. Returned
      BY <1>1, <1>5, <1>6, Apart DEF Returned, Whole, Disk, Kept, Exact, Alike
<1>10. Removing /\ Hooking /\ Resumable
      BY <1>2, <1>5, Apart DEF Removing, Hooking, Resumable, manifest
<1>. QED  BY <1>3, <1>4, <1>7, <1>8, <1>9, <1>10 DEF IInv

THEOREM Invariant == Spec => []IInv
<1>1. IInv /\ [Next]_vars => IInv'
      BY TypeStep, SafeStep, AgreedStep, ReturnedStep, RemovingStep, ResumableStep DEF IInv
<1>. QED  BY InitInv, <1>1, PTL DEF Spec

\* A file holds a content of its kind, and a command that runs knows one for
\* every file it still writes or may put back (writeInstall, Uninstall).
THEOREM AlwaysTyped == Spec => []TypeOK
<1>1. IInv => TypeOK
      BY DEF IInv
<1>. QED  BY <1>1, Invariant, PTL

\* Init and Uninstall: in every order of commands and failing writes the key
\* that uninstalling gives back is the one the user last chose; after a dead
\* installation it names at least a file of the same text.
THEOREM AlwaysGivesBack == Spec => []UninstallGivesBack
<1>1. IInv => UninstallGivesBack
      BY BaseIsUsers DEF IInv, UninstallGivesBack, Alike
<1>. QED  BY <1>1, Invariant, PTL

\* writeInstall and its rollback: unless an installation died, whatever OMR
\* wrote is claimed, whichever profiles the releases ship.
THEOREM NeverOrphans == Spec => []NothingOrphaned
<1>1. IInv => NothingOrphaned
  <2>1. cmd # "install" => disk \in Whole
        BY DEF Whole, Disk
  <2>. QED  BY <2>1, Apart DEF IInv, Safe, NothingOrphaned, Idle
<1>. QED  BY <1>1, Invariant, PTL

\* EnableHook, DisableHook and the hook part of an upgrade: the record and
\* the entry agree, as long as no death has come between them.
THEOREM AlwaysClaimed == Spec => []HookClaimed
<1>1. IInv => HookClaimed
  <2>1. IInv /\ Idle => Goal = disk
        BY AtRest DEF IInv
  <2>. QED  BY <2>1 DEF IInv, Agreed, Tidy, HookClaimed
<1>. QED  BY <1>1, Invariant, PTL

\* Uninstall: wherever it died, and if nothing else has happened since, it is
\* not refused when it is called again.
THEOREM AlwaysResumes == Spec => []UninstallResumes
<1>1. IInv => UninstallResumes
  <2>1. IInv /\ "uninstall" \in scars /\ manifest # None => Uninstallable(disk)
        BY DEF IInv, Resumable
  <2>. QED  BY <2>1, CanIs DEF IInv, UninstallResumes
<1>. QED  BY <1>1, Invariant, PTL

(***************************************************************************)
(* The guard that an installation's Comment Checker entry runs, for any      *)
(* guards and projects and any limits that the guard's entries fit in.  The  *)
(* log that one guard leaves is worked out first: the fold of ApplyRetention *)
(* never meets the limit on bytes, by induction on what it has kept.         *)
(***************************************************************************)
Entry == [id : Nat, decision : Outcome]

(* q is the end of a, and all of it unless it holds MaxEntries. *)
IsEnd(q, a) ==
  /\ q = SubSeq(a, Len(a) - Len(q) + 1, Len(a)) /\ Len(q) <= Len(a)
  /\ Len(q) < Len(a) => Len(q) = MaxEntries

(* What AuditStore has read, or written, is within its limits. *)
LogInv ==
  /\ log \in Seq(Entry) /\ Len(log) <= MaxEntries /\ appended \in Seq(Entry)
  /\ ~raced => IsEnd(log, appended)
  /\ held = [g \in Guard |-> held[g]] /\ seen = [g \in Guard |-> seen[g]]
  /\ \A g \in Guard : held[g] = Absent \/ held[g].decision \in Outcome
  /\ \A g \in Guard : seen[g] # Absent =>
       held[g] # Absent /\ seen[g] \in Seq(Entry) /\ Len(seen[g]) <= MaxEntries

(* Induction for a set of numbers, from the well-foundedness of <. *)
LEMMA NatInduct == ASSUME NEW T \in SUBSET Nat, 0 \in T, \A n \in T : n + 1 \in T
                   PROVE  T = Nat
<1>. SUFFICES ASSUME Nat \ T # {} PROVE FALSE
     OBVIOUS
<1>1. PICK x \in Nat \ T : \A y \in Nat \ T : ~ (<<y, x>> \in OpToRel(<, Nat))
      BY WFMin, NatLessThanWellFounded, Zenon
<1>2. x \in Nat /\ x \notin T /\ \A y \in Nat \ T : ~ (y < x)
      BY <1>1, Zenon DEF OpToRel
<1> HIDE <1>1
<1>3. x # 0 /\ x - 1 \in Nat /\ x - 1 < x /\ x = (x - 1) + 1
      BY <1>2
<1>. QED  BY <1>2, <1>3

NoLines == [out |-> <<>>, total |-> 0]

(* FoldLeft as it unfolds, over the sets of positions that are left. *)
Largest(s) == CHOOSE k \in s : \A l \in s : k >= l
Iter(q, f, s) == IF s = {} THEN NoLines ELSE Fitting(f[s \ {Largest(s)}], q[Largest(s)])

LEMMA LargestOk == ASSUME NEW s, IsFiniteSet(s), s \subseteq Nat, s # {} PROVE Largest(s) \in s
<1> DEFINE T == {n \in Nat : \A r \in SUBSET s : Cardinality(r) = n /\ r # {} =>
                                \E k \in r : \A l \in r : k >= l}
<1>1. 0 \in T
  <2>1. \A r \in SUBSET s : Cardinality(r) = 0 => r = {}
        BY FS_Subset, FS_EmptySet
  <2>. QED  BY <2>1
<1>2. ASSUME NEW n \in T PROVE n + 1 \in T
  <2>. SUFFICES ASSUME NEW r \in SUBSET s, Cardinality(r) = n + 1, r # {}
                PROVE  \E k \in r : \A l \in r : k >= l
       OBVIOUS
  <2>0. PICK x \in r : TRUE
        OBVIOUS
  <2>1. Cardinality(r \ {x}) = n
    <3>1. IsFiniteSet(r)
          BY FS_Subset
    <3>2. Cardinality(r \ {x}) = Cardinality(r) - 1
          BY <3>1, FS_RemoveElement
    <3>. QED  BY <3>2
  <2>2. CASE r = {x}
        BY <2>2
  <2>3. CASE r # {x}
    <3>1. PICK k \in r \ {x} : \A l \in r \ {x} : k >= l
          BY <2>1, <2>3
    <3>2. k \in Nat /\ x \in Nat /\ \A l \in r : l \in Nat
          OBVIOUS
    <3>. QED  BY <3>1, <3>2
  <2>. QED  BY <2>2, <2>3
<1>3. T = Nat
  <2>1. T \subseteq Nat
        OBVIOUS
  <2>. HIDE DEF T
  <2>. QED  BY <1>1, <1>2, <2>1, NatInduct
<1>4. \E k \in s : \A l \in s : k >= l
  <2>1. s \in SUBSET s /\ Cardinality(s) \in Nat
        BY FS_CardinalityType
  <2>. QED  BY <1>3, <2>1
<1>. QED  BY <1>4 DEF Largest

LEMMA FoldExists == ASSUME NEW q, NEW S, IsFiniteSet(S), S \subseteq Nat
                    PROVE  \E f : f = [s \in SUBSET S |-> Iter(q, f, s)]
<1> DEFINE From(f, n) == /\ f = [s \in SUBSET S |-> f[s]]
                         /\ \A s \in SUBSET S : Cardinality(s) <= n => f[s] = Iter(q, f, s)
           T == {n \in Nat : \E f : From(f, n)}
<1>0. \A s \in SUBSET S : IsFiniteSet(s) /\ Cardinality(s) \in Nat /\ (Cardinality(s) = 0 <=> s = {})
      BY FS_Subset, FS_CardinalityType, FS_EmptySet
<1>1. 0 \in T
  <2> DEFINE f == [s \in SUBSET S |-> NoLines]
  <2>1. \A s \in SUBSET S : Cardinality(s) <= 0 => s = {}
        BY <1>0
  <2>2. From(f, 0)
        BY <2>1 DEF Iter
  <2>. QED  BY <2>2
<1>2. ASSUME NEW n \in T PROVE n + 1 \in T
  <2>1. PICK f : From(f, n)
        OBVIOUS
  <2>2. PICK g : g = [s \in SUBSET S |-> Iter(q, f, s)]
        OBVIOUS
  <2>3. ASSUME NEW s \in SUBSET S, Cardinality(s) <= n + 1 PROVE g[s] = Iter(q, g, s)
    <3>1. CASE s = {}
          BY <2>2, <3>1 DEF Iter
    <3>2. CASE s # {}
      <4> DEFINE r == s \ {Largest(s)}
      <4>1. Largest(s) \in s
            BY <1>0, <3>2, LargestOk
      <4>2. r \in SUBSET S /\ Cardinality(r) <= n
        <5>1. Cardinality(r) = Cardinality(s) - 1
              BY <1>0, <4>1, FS_RemoveElement
        <5>. QED  BY <1>0, <2>3, <5>1
      <4>3. f[r] = g[r]
            BY <2>1, <2>2, <4>2
      <4>. QED  BY <2>2, <3>2, <4>3 DEF Iter
    <3>. QED  BY <3>1, <3>2
  <2>4. g = [s \in SUBSET S |-> g[s]]
        BY <2>2
  <2>. HIDE DEF T
  <2>5. From(g, n + 1)
        BY <2>3, <2>4
  <2>6. n + 1 \in Nat
        BY DEF T
  <2>. QED  BY <2>5, <2>6 DEF T
<1>3. T = Nat
  <2>1. T \subseteq Nat
        OBVIOUS
  <2>. HIDE DEF T
  <2>. QED  BY <1>1, <1>2, <2>1, NatInduct
<1>4. PICK f : From(f, Cardinality(S))
      BY <1>0, <1>3
<1>5. \A s \in SUBSET S : Cardinality(s) <= Cardinality(S)
      BY FS_Subset
<1>6. f = [s \in SUBSET S |-> Iter(q, f, s)]
      BY <1>4, <1>5
<1>. QED  BY <1>6

LEMMA FoldUnfolds ==
  ASSUME NEW q \in Seq(Entry)
  PROVE  \E f : /\ \A s \in SUBSET (1..Len(q)) : f[s] = Iter(q, f, s)
                /\ FoldLeft(Fitting, NoLines, q) = f[1..Len(q)]
<1> DEFINE S == DOMAIN q
           fold == CHOOSE f : f = [s \in SUBSET S |-> Iter(q, f, s)]
<1>1. S = 1..Len(q) /\ IsFiniteSet(S) /\ S \subseteq Nat
  <2>1. IsFiniteSet(1..Len(q))
        BY FS_Interval
  <2>. QED  BY <2>1
<1>2. fold = [s \in SUBSET S |-> Iter(q, fold, s)]
  <2>. HIDE DEF S
  <2>. QED  BY <1>1, FoldExists
<1>3. FoldLeft(Fitting, NoLines, q) = fold[S]
      BY DEF FoldLeft, MapThenFoldSet, Max, Iter, Largest
<1>. HIDE DEF fold, S
<1>. QED  BY <1>1, <1>2, <1>3

(* Entries that are as many as MaxEntries are all kept. *)
LEMMA AllKept ==
  ASSUME NEW q \in Seq(Entry), Len(q) <= MaxEntries
  PROVE  FoldLeft(Fitting, NoLines, q).out = q
<1>1. PICK f : /\ \A s \in SUBSET (1..Len(q)) : f[s] = Iter(q, f, s)
               /\ FoldLeft(Fitting, NoLines, q) = f[1..Len(q)]
      BY FoldUnfolds
<1>2. PICK size \in 0..MaxBytes : MaxEntries * size <= MaxBytes
                                  /\ \A d \in Outcome : EntrySize[d] \in 0..size
      BY CommentGuardAssumption
<1>3. MaxEntries \in Nat /\ MaxBytes \in Nat /\ size \in Nat
      BY CommentGuardAssumption
<1> DEFINE Fill(n) == /\ f[1..n].out = SubSeq(q, 1, n)
                      /\ f[1..n].total \in Nat
                      /\ f[1..n].total + (MaxEntries - n) * size <= MaxBytes
           T == {n \in Nat : n <= Len(q) => Fill(n)}
<1>4. 0 \in T
  <2>1. f[1..0] = NoLines
    <3>1. 1..0 = {}
          OBVIOUS
    <3>. QED  BY <1>1, <3>1 DEF Iter
  <2>2. SubSeq(q, 1, 0) = <<>> /\ (MaxEntries - 0) * size = MaxEntries * size
        BY <1>3
  <2>3. Fill(0)
    <3>1. f[1..0].out = <<>> /\ f[1..0].total = 0
          BY <2>1 DEF NoLines
    <3>. QED  BY <1>2, <1>3, <2>2, <3>1
  <2>. QED  BY <2>3
<1>5. ASSUME NEW n \in T PROVE n + 1 \in T
  <2>. SUFFICES ASSUME n + 1 <= Len(q) PROVE Fill(n + 1)
       OBVIOUS
  <2>0. n \in Nat /\ n + 1 \in Nat /\ Len(q) \in Nat /\ n + 1 <= Len(q)
        OBVIOUS
  <2>1. n \in Nat /\ Fill(n) /\ n + 1 \in 1..Len(q)
        BY <2>0
  <2>. HIDE DEF T, Fill
  <2>2. f[1..n + 1] = Fitting(f[1..n], q[n + 1])
    <3>1. Largest(1..n + 1) = n + 1
      <4>1. \A k \in 1..n + 1 : (\A l \in 1..n + 1 : k >= l) => k = n + 1
            BY <2>0
      <4>2. n + 1 \in 1..n + 1 /\ \A l \in 1..n + 1 : n + 1 >= l
            BY <2>0
      <4>. QED  BY <4>1, <4>2 DEF Largest
    <3>2. (1..n + 1) \ {n + 1} = 1..n
          BY <2>1
    <3>3. 1..n + 1 # {} /\ 1..n + 1 \in SUBSET (1..Len(q))
      <4>1. \A m, l \in Nat : m <= l => 1..m \in SUBSET (1..l)
            OBVIOUS
      <4>2. 1..n + 1 \in SUBSET (1..Len(q))
            BY <2>0, <4>1, Zenon
      <4>3. n + 1 \in 1..n + 1
            BY <2>0
      <4>. QED  BY <4>2, <4>3
    <3>. QED  BY <1>1, <3>1, <3>2, <3>3 DEF Iter
  <2> DEFINE e == q[n + 1]
             d == EntrySize[e.decision]
             next == f[1..n].total + d
  <2>3. e \in Entry /\ d \in Nat /\ d <= size
    <3>1. e \in Entry
          BY <2>1
    <3>. QED  BY <1>2, <1>3, <3>1 DEF Entry
  <2>4. (MaxEntries - n) * size = (MaxEntries - (n + 1)) * size + size
        BY <1>3, <2>1
  <2>5. MaxEntries - (n + 1) \in Nat
        BY <1>3, <2>1
  <2>6. (MaxEntries - (n + 1)) * size \in Nat
        BY <1>3, <2>5
  <2>. HIDE DEF d
  <2>7. next \in Nat /\ next + (MaxEntries - (n + 1)) * size <= MaxBytes /\ next <= MaxBytes
    <3> DEFINE rest == (MaxEntries - (n + 1)) * size
    <3>1. f[1..n].total \in Nat /\ f[1..n].total + (rest + size) <= MaxBytes /\ rest \in Nat
          BY <2>1, <2>4, <2>6 DEF Fill
    <3>. HIDE DEF rest
    <3>0. PICK total \in Nat : total = f[1..n].total
          BY <3>1
    <3>2. next = total + d
          BY <3>0
    <3>3. total + (rest + size) <= MaxBytes
          BY <3>0, <3>1
    <3>. HIDE DEF next
    <3>4. next \in Nat /\ next + rest <= MaxBytes /\ next <= MaxBytes
          BY <1>3, <2>3, <3>1, <3>2, <3>3
    <3>. QED  BY <3>4 DEF rest
  <2>8. f[1..n + 1] = [out |-> Append(f[1..n].out, e), total |-> next]
    <3>1. ~ (next > MaxBytes)
          BY <1>3, <2>7
    <3>. QED  BY <2>2, <3>1 DEF Fitting, d
  <2>9. Append(SubSeq(q, 1, n), e) = SubSeq(q, 1, n + 1)
        BY <2>1
  <2>. HIDE DEF e, next
  <2>10. f[1..n].out = SubSeq(q, 1, n)
        BY <2>1 DEF Fill
  <2>11. f[1..n + 1] = [out |-> SubSeq(q, 1, n + 1), total |-> next]
        BY <2>8, <2>9, <2>10, Zenon
  <2>12. PICK x : x = SubSeq(q, 1, n + 1)
        OBVIOUS
  <2>13. f[1..n + 1] = [out |-> x, total |-> next]
        BY <2>11, <2>12, Zenon
  <2>14. PICK r : r = f[1..n + 1]
        OBVIOUS
  <2>15. r = [out |-> x, total |-> next]
        BY <2>13, <2>14, Zenon
  <2>16. r.out = x /\ r.total = next
        BY <2>15
  <2>. QED  BY <2>7, <2>12, <2>14, <2>16, Zenon DEF Fill
<1>6. T = Nat
  <2>1. T \subseteq Nat
        OBVIOUS
  <2>. HIDE DEF T
  <2>. QED  BY <1>4, <1>5, <2>1, NatInduct
<1>7. Len(q) \in Nat /\ SubSeq(q, 1, Len(q)) = q
      OBVIOUS
<1>8. Fill(Len(q))
  <2>. HIDE DEF Fill
  <2>. QED  BY <1>6, <1>7
<1>. QED  BY <1>1, <1>7, <1>8

(* So the limit on bytes is never met, and the oldest entries go first. *)
LEMMA Retained ==
  ASSUME NEW q \in Seq(Entry)
  PROVE  ApplyRetention(q) = IF Len(q) > MaxEntries
                                     THEN SubSeq(q, Len(q) - MaxEntries + 1, Len(q)) ELSE q
<1> DEFINE lines == IF Len(q) > MaxEntries THEN LastEntries(q) ELSE q
<1>1. lines \in Seq(Entry) /\ Len(lines) <= MaxEntries
      BY CommentGuardAssumption DEF LastEntries
<1>2. ApplyRetention(q) = FoldLeft(Fitting, NoLines, lines).out
      BY DEF ApplyRetention, NoLines
<1>. HIDE DEF lines
<1>3. ApplyRetention(q) = lines
      BY <1>1, <1>2, AllKept
<1>. QED  BY <1>3 DEF lines, LastEntries

LEMMA DecideOk == \A call, scanFails : Decide(call, scanFails).decision \in Outcome
BY DEF Decide, Decision, Outcome

LEMMA LogInit == GuardInit => LogInv
BY CommentGuardAssumption DEF GuardInit, LogInv, IsEnd

(* What a guard leaves of the log it has read: its entry is the last. *)
LEMMA Appended ==
  ASSUME NEW q \in Seq(Entry), Len(q) <= MaxEntries, NEW e \in Entry,
         NEW new, new = ApplyRetention(Append(q, e))
  PROVE  /\ new \in Seq(Entry) /\ Len(new) <= MaxEntries /\ new # <<>> /\ new[Len(new)] = e
         /\ Len(q) < MaxEntries => new = Append(q, e)
         /\ Len(q) = MaxEntries => new = SubSeq(Append(q, e), 2, MaxEntries + 1)
<1> DEFINE r == Append(q, e)
<1>1. r \in Seq(Entry) /\ Len(r) = Len(q) + 1 /\ r[Len(r)] = e /\ Len(q) \in Nat
      /\ MaxEntries \in Nat \ {0}
      BY CommentGuardAssumption
<1>2. new = IF Len(r) > MaxEntries THEN SubSeq(r, Len(r) - MaxEntries + 1, Len(r)) ELSE r
      BY <1>1, Retained
<1>. HIDE DEF r
<1>3. CASE Len(r) > MaxEntries
  <2>1. Len(q) = MaxEntries /\ Len(r) = MaxEntries + 1 /\ Len(r) - MaxEntries + 1 = 2
        BY <1>1, <1>3
  <2>2. new = SubSeq(r, 2, MaxEntries + 1)
        BY <1>2, <1>3, <2>1
  <2>3. Len(new) = MaxEntries /\ new \in Seq(Entry) /\ new[MaxEntries] = r[MaxEntries + 1]
        BY <1>1, <2>1, <2>2
  <2>4. new # <<>>
        BY <1>1, <2>3
  <2>. QED  BY <1>1, <2>1, <2>2, <2>3, <2>4 DEF r
<1>4. CASE ~ (Len(r) > MaxEntries)
  <2>1. new = r /\ Len(q) < MaxEntries /\ r # <<>>
        BY <1>1, <1>2, <1>4
  <2>. QED  BY <1>1, <2>1 DEF r
<1>. QED  BY <1>3, <1>4

(* The last n entries of a sequence, one by one. *)
LEMMA EndOf ==
  ASSUME NEW a \in Seq(Entry), NEW n \in Nat, n <= Len(a)
  PROVE  /\ SubSeq(a, Len(a) - n + 1, Len(a)) \in Seq(Entry)
         /\ Len(SubSeq(a, Len(a) - n + 1, Len(a))) = n
         /\ \A i \in 1..n : SubSeq(a, Len(a) - n + 1, Len(a))[i] = a[Len(a) - n + i]
<1>1. Len(a) \in Nat
      OBVIOUS
<1>. QED  BY <1>1

LEMMA EndIs ==
  ASSUME NEW a \in Seq(Entry), NEW x \in Seq(Entry), Len(x) <= Len(a),
         \A i \in 1..Len(x) : x[i] = a[Len(a) - Len(x) + i]
  PROVE  x = SubSeq(a, Len(a) - Len(x) + 1, Len(a))
<1>1. PICK n \in Nat : n = Len(x)
      OBVIOUS
<1>2. PICK y : y = SubSeq(a, Len(a) - n + 1, Len(a))
      OBVIOUS
<1>3. y \in Seq(Entry) /\ Len(y) = n /\ \A i \in 1..n : y[i] = a[Len(a) - n + i]
      BY <1>1, <1>2, EndOf
<1>4. x = y
  <2>1. \A i \in 1..n : x[i] = y[i]
        BY <1>1, <1>3
  <2>. QED  BY <1>1, <1>3, <2>1
<1>. QED  BY <1>1, <1>2, <1>4

(* The log stays the end of what was appended when its own guard adds to it. *)
LEMMA Latest ==
  ASSUME NEW q \in Seq(Entry), Len(q) <= MaxEntries, NEW e \in Entry,
         NEW a \in Seq(Entry), IsEnd(q, a),
         NEW new, new = ApplyRetention(Append(q, e)), NEW b, b = Append(a, e)
  PROVE  IsEnd(new, b)
<1>0. PICK n \in Nat : n = Len(q)
      OBVIOUS
<1>1. MaxEntries \in Nat \ {0} /\ Len(a) \in Nat /\ n <= MaxEntries /\ n <= Len(a)
      /\ (n < Len(a) => n = MaxEntries)
      BY <1>0, CommentGuardAssumption DEF IsEnd
<1>2. /\ b \in Seq(Entry) /\ Len(b) = Len(a) + 1 /\ b[Len(a) + 1] = e
      /\ \A i \in 1..Len(a) : b[i] = a[i]
      OBVIOUS
<1>3. PICK p : p = Append(q, e)
      OBVIOUS
<1>4. /\ p \in Seq(Entry) /\ Len(p) = n + 1 /\ p[n + 1] = e
      /\ \A i \in 1..n : p[i] = q[i]
      BY <1>0, <1>3
<1>5. \A i \in 1..n : q[i] = a[Len(a) - n + i]
  <2>1. PICK y : y = SubSeq(a, Len(a) - n + 1, Len(a))
        OBVIOUS
  <2>2. y = q /\ \A i \in 1..n : y[i] = a[Len(a) - n + i]
        BY <1>0, <1>1, <2>1, EndOf DEF IsEnd
  <2>. QED  BY <2>2
<1>6. /\ new \in Seq(Entry)
      /\ n < MaxEntries => new = p
      /\ n = MaxEntries => new = SubSeq(p, 2, MaxEntries + 1)
      BY <1>0, <1>3, Appended
<1>7. \A i \in 1..n + 1 : p[i] = b[Len(a) - n + i]
  <2>. SUFFICES ASSUME NEW i \in 1..n + 1 PROVE p[i] = b[Len(a) - n + i]
       OBVIOUS
  <2>1. CASE i = n + 1
    <3>1. Len(a) - n + i = Len(a) + 1
          BY <1>1, <2>1
    <3>. QED  BY <1>2, <1>4, <2>1, <3>1
  <2>2. CASE i # n + 1
    <3>1. i \in 1..n /\ Len(a) - n + i \in 1..Len(a)
          BY <1>1, <2>2
    <3>. QED  BY <1>2, <1>4, <1>5, <3>1
  <2>. QED  BY <2>1, <2>2
<1>8. /\ Len(new) <= Len(b)
      /\ Len(new) < Len(b) => Len(new) = MaxEntries
      /\ \A i \in 1..Len(new) : new[i] = b[Len(b) - Len(new) + i]
  <2>1. CASE n < MaxEntries
    <3>1. new = p /\ Len(new) = n + 1 /\ n = Len(a)
          BY <1>1, <1>4, <1>6, <2>1
    <3>2. Len(b) - Len(new) = 0 /\ Len(a) - n = 0
          BY <1>1, <1>2, <3>1
    <3>. QED  BY <1>1, <1>2, <1>7, <3>1, <3>2
  <2>2. CASE n = MaxEntries
    <3>1. new = SubSeq(p, 2, n + 1)
          BY <1>6, <2>2
    <3>2. Len(new) = n /\ \A i \in 1..n : new[i] = p[i + 1]
          BY <1>4, <3>1
    <3>3. ASSUME NEW i \in 1..n PROVE new[i] = b[Len(b) - n + i]
      <4>1. i + 1 \in 1..n + 1 /\ Len(a) - n + (i + 1) = Len(b) - n + i
            BY <1>1, <1>2
      <4>2. PICK j \in 1..n + 1 : j = i + 1
            BY <4>1
      <4>3. new[i] = p[j] /\ Len(a) - n + j = Len(b) - n + i
            BY <3>2, <4>1, <4>2
      <4>. QED  BY <1>7, <4>3
    <3>4. Len(b) >= n /\ Len(new) = MaxEntries /\ Len(new) <= Len(b)
          BY <1>1, <1>2, <2>2, <3>2
    <3>5. \A i \in 1..n : new[i] = b[Len(b) - n + i]
          BY <3>3
    <3>6. \A i \in 1..Len(new) : new[i] = b[Len(b) - Len(new) + i]
          BY <3>2, <3>5, Zenon
    <3>7. Len(new) < Len(b) => Len(new) = MaxEntries
          BY <3>4
    <3>8. Len(new) <= Len(b)
          BY <3>4
    <3>. QED  BY <3>6, <3>7, <3>8, Zenon
  <2>3. n < MaxEntries \/ n = MaxEntries
        BY <1>1
  <2>. QED  BY <2>1, <2>2, <2>3, Zenon
<1>. QED  BY <1>2, <1>6, <1>8, EndIs DEF IsEnd

(* A guard that replaces the log. *)
LEMMA Replace ==
  ASSUME LogInv, NEW g \in Guard, ReplaceLog(g)
  PROVE  /\ LogInv'
         /\ log' # <<>> /\ log'[Len(log')].decision = held[g].decision
<1>1. PICK e : e = [id |-> Len(appended) + 1, decision |-> held[g].decision]
      OBVIOUS
<1>2. /\ seen[g] # Absent /\ held[g].decision \in Outcome
      /\ seen[g] \in Seq(Entry) /\ Len(seen[g]) <= MaxEntries
      BY Zenon DEF LogInv, ReplaceLog
<1>3. e \in Entry /\ e.decision = held[g].decision
  <2>1. Len(appended) + 1 \in Nat
        BY DEF LogInv
  <2>. QED  BY <1>1, <1>2, <2>1 DEF Entry
<1>4. /\ log' = ApplyRetention(Append(seen[g], e))
      /\ appended' = Append(appended, e)
      /\ raced' = (raced \/ seen[g] # log)
      /\ held' = [held EXCEPT ![g] = Absent] /\ seen' = [seen EXCEPT ![g] = Absent]
      BY <1>1 DEF ReplaceLog, End
<1>5. log' \in Seq(Entry) /\ Len(log') <= MaxEntries /\ log' # <<>> /\ log'[Len(log')] = e
      BY <1>2, <1>3, <1>4, Appended
<1>6. appended' \in Seq(Entry)
      BY <1>3, <1>4 DEF LogInv
<1>7. ~raced' => IsEnd(log', appended')
  <2>. SUFFICES ASSUME ~raced' PROVE IsEnd(log', appended')
       OBVIOUS
  <2>1. ~raced /\ seen[g] = log
        BY <1>4
  <2>2. /\ IsEnd(log, appended) /\ log \in Seq(Entry) /\ Len(log) <= MaxEntries
        /\ appended \in Seq(Entry)
        BY <2>1 DEF LogInv
  <2>3. log' = ApplyRetention(Append(log, e)) /\ appended' = Append(appended, e)
        BY <1>4, <2>1
  <2>. QED  BY <1>3, <2>2, <2>3, Latest
<1>8. /\ held' = [h \in Guard |-> held'[h]] /\ seen' = [h \in Guard |-> seen'[h]]
      /\ held'[g] = Absent /\ seen'[g] = Absent
      /\ \A h \in Guard : h # g => held'[h] = held[h] /\ seen'[h] = seen[h]
      BY <1>4 DEF LogInv
<1>9. /\ \A h \in Guard : held'[h] = Absent \/ held'[h].decision \in Outcome
      /\ \A h \in Guard : seen'[h] # Absent =>
           held'[h] # Absent /\ seen'[h] \in Seq(Entry) /\ Len(seen'[h]) <= MaxEntries
      BY <1>8, Zenon DEF LogInv
<1>10. LogInv'
      BY <1>5, <1>6, <1>7, <1>8, <1>9, Zenon DEF LogInv, IsEnd, Outcome, Entry
<1>. QED  BY <1>3, <1>5, <1>10

LEMMA LogStep ==
  ASSUME LogInv, [GuardNext]_guardVars
  PROVE  LogInv'
<1>1. ASSUME NEW g \in Guard, RunGuard(g) PROVE LogInv'
  <2>1. PICK call \in Call : \E scanFails \in BOOLEAN :
           held' = [held EXCEPT ![g] = Decide(call, scanFails)]
        BY <1>1, Zenon DEF RunGuard
  <2>2. PICK scanFails \in BOOLEAN : held' = [held EXCEPT ![g] = Decide(call, scanFails)]
        BY <2>1
  <2>3. PICK d : d = Decide(call, scanFails)
        OBVIOUS
  <2>4. d.decision \in Outcome
        BY <2>3, DecideOk, Zenon
  <2>5. held' = [held EXCEPT ![g] = d] /\ held[g] = Absent
        /\ UNCHANGED <<log, seen, appended, raced>>
        BY <1>1, <2>2, <2>3 DEF RunGuard
  <2>. QED  BY <2>4, <2>5 DEF LogInv, IsEnd
<1>2. ASSUME NEW g \in Guard, ReadLog(g) PROVE LogInv'
      BY <1>2 DEF ReadLog, LogInv, IsEnd
<1>3. ASSUME NEW g \in Guard, ReplaceLog(g) PROVE LogInv'
      BY <1>3, Replace
<1>4. ASSUME NEW g \in Guard, FailLog(g) PROVE LogInv'
      BY <1>4 DEF FailLog, End, LogInv, IsEnd
<1>5. CASE Clear
  <2>1. /\ log' = <<>> /\ appended' = <<>> /\ UNCHANGED <<held, seen, raced>>
        BY <1>5 DEF Clear
  <2>2. Len(<<>>) = 0 /\ <<>> \in Seq(Entry) /\ SubSeq(<<>>, 0 - 0 + 1, 0) = <<>>
        OBVIOUS
  <2>3. MaxEntries \in Nat
        BY CommentGuardAssumption
  <2>. QED  BY <2>1, <2>2, <2>3 DEF LogInv, IsEnd
<1>6. CASE EditTree
      BY <1>6 DEF EditTree, LogInv, IsEnd
<1>7. CASE UNCHANGED guardVars
      BY <1>7 DEF guardVars, LogInv, IsEnd
<1>. QED  BY <1>1, <1>2, <1>3, <1>4, <1>5, <1>6, <1>7, Zenon DEF GuardNext

(* Whatever the limits are, as long as the guard's own entries fit: the log *)
(* of audit.go that no guard replaced under another holds the latest        *)
(* decisions, and evicts the oldest first.                                  *)
THEOREM LogStaysLatest == GuardSpec => []LogKeepsLatest
<1>0. GuardInit => LogInv
      BY LogInit
<1>1. LogInv /\ [GuardNext]_guardVars => LogInv'
      BY LogStep
<1>2. LogInv => LogKeepsLatest
      BY DEF LogInv, IsEnd, LogKeepsLatest
<1>. QED  BY <1>0, <1>1, <1>2, PTL DEF GuardSpec

(* A guard (guard.go) lets a command go only with its own decision as the   *)
(* log's last entry, whatever the other guards write and whatever fails.        *)
THEOREM SilenceNeverPasses == GuardSpec => NeverSilent
<1> DEFINE Told == \A g \in Guard : held[g] # Absent /\ held'[g] = Absent /\ exit' = 0 =>
                     log' # <<>> /\ log'[Len(log')].decision = held[g].decision
<1>1. ASSUME LogInv, [GuardNext]_guardVars
      PROVE  [Told]_guardVars
  <2>. SUFFICES ASSUME GuardNext, NEW g \in Guard, held[g] # Absent, held'[g] = Absent, exit' = 0
                PROVE  log' # <<>> /\ log'[Len(log')].decision = held[g].decision
       BY <1>1
  <2>0. held = [h \in Guard |-> held[h]]
        BY <1>1 DEF LogInv
  <2>1. ASSUME NEW h \in Guard, RunGuard(h) PROVE FALSE
    <3>1. held[h] = Absent /\ h # g
          BY <2>1, Zenon DEF RunGuard
    <3>2. \E d : held' = [held EXCEPT ![h] = d]
          BY <2>1, Zenon DEF RunGuard
    <3>. QED  BY <2>0, <3>1, <3>2
  <2>2. ASSUME NEW h \in Guard, ReadLog(h) PROVE FALSE
        BY <2>2 DEF ReadLog
  <2>3. ASSUME NEW h \in Guard, ReplaceLog(h)
        PROVE  log' # <<>> /\ log'[Len(log')].decision = held[g].decision
    <3>1. h = g
          BY <2>0, <2>3 DEF ReplaceLog, End
    <3>. QED  BY <1>1, <2>3, <3>1, Replace
  <2>4. ASSUME NEW h \in Guard, FailLog(h) PROVE FALSE
    <3>1. exit' \in {1, 2}
          BY <2>4 DEF FailLog, End, FailedCode
    <3>. QED  BY <3>1
  <2>5. CASE Clear
        BY <2>5 DEF Clear
  <2>6. CASE EditTree
        BY <2>6 DEF EditTree
  <2>. QED  BY <2>1, <2>2, <2>3, <2>4, <2>5, <2>6, Zenon DEF GuardNext
<1>0. GuardInit => LogInv
      BY LogInit
<1>2. LogInv /\ [GuardNext]_guardVars => LogInv'
      BY LogStep
<1>. QED  BY <1>0, <1>1, <1>2, PTL DEF GuardSpec, NeverSilent

===============================================================================
