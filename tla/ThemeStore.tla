----------------------------- MODULE ThemeStore -----------------------------
(***************************************************************************)
(* The settings file and the themes directory, and the processes that      *)
(* write them: windows of the settings application (full windows, of which *)
(* several may be open, and the quick menu, of which one may) and the      *)
(* broker's menu action.                                                   *)
(*                                                                         *)
(* Every process works on its own copy of the settings.  A save writes the *)
(* whole copy to a temporary file and moves it over settings.ini; the      *)
(* settings application's windows share one temporary name.  Themes are    *)
(* directories: an import extracts into a fresh staging directory and      *)
(* renames it to the theme's identifier when every check has passed; a     *)
(* deletion renames the directory away and removes it in the background.   *)
(* A window's UI thread runs one handler at a time; its background jobs,   *)
(* the other processes and every system call interleave.                   *)
(*                                                                         *)
(* A directory is a number: a rename keeps it, as it keeps the file        *)
(* identity the code compares; a new directory takes a number nobody has.  *)
(***************************************************************************)
EXTENDS Naturals, Sequences, FiniteSets

CONSTANTS
  Windows,       \* processes of the settings application
  Broker,        \* the broker process
  Ids,           \* theme identifiers
  Default,       \* the built-in theme
  None,          \* no theme, no settings
  Packages,      \* what the user can pick in the import dialog
  FirstThemes,   \* the packages one of which is installed at the start
  FirstWindows,  \* the windows that are open at the start
  MaxDirs,       \* directories ever created
  MaxEvents,     \* what the user does
  MaxFailures    \* system calls that fail

Flaws == {"none", "archive", "tree", "manifest", "assets"}

(* `flaw' names the check of the import that refuses the package; `crowded': it unpacks to *)
(* more than 128 entries, the archive's own and the directories their paths imply.         *)
Known == Packages \cup FirstThemes
ASSUME PackagesAssumption ==
  Known \subseteq [id : Ids, flaw : Flaws, ssf : BOOLEAN, crowded : BOOLEAN]
ASSUME ProcessesAssumption == Broker \notin Windows
ASSUME ThemesAssumption == Default \notin Ids /\ None \notin Ids \cup {Default}
ASSUME BoundsAssumption ==
  MaxDirs \in Nat \ {0} /\ MaxEvents \in Nat /\ MaxFailures \in Nat
ASSUME FirstAssumption ==
  /\ \A p \in FirstThemes : p.flaw = "none"
  /\ FirstWindows \subseteq Windows

VARIABLES
  file,     \* settings.ini
  temp,     \* the temporary files, by their name
  app,      \* the processes
  disk,     \* the directories below the themes directory
  past      \* what happened, for the properties

vars == <<file, temp, app, disk, past>>

-----------------------------------------------------------------------------
(* Types. *)

Procs == Windows \cup {Broker}
Dirs == 1 .. MaxDirs
Themes == Ids \cup {Default}
CharacterSets == {"simplified", "traditional"}

Settings == [theme : Themes, characters : CharacterSets]
DefaultSettings == [theme |-> Default, characters |-> "simplified"]
SettingsFile == [value : Settings, mixed : BOOLEAN]
ASSUME NoneAssumption == None \notin Settings \cup Known

(* Mutant: every writer uses one temporary name. *)
OneTempName(p) == "app"

TempName(p) == IF p = Broker THEN "broker" ELSE "app"
TempFile ==
  [there : BOOLEAN, users : SUBSET Procs, value : Settings \cup {None}, mixed : BOOLEAN]
NoFile == [there |-> FALSE, users |-> {}, value |-> None, mixed |-> FALSE]

(* A save under way: its next system call, and what its caller does with the result. *)
Save ==
  [step : {"none", "open", "write", "move"},
   caller : {"none", "plain", "select", "reset", "closing", "deletion", "fallback"},
   before : Settings \cup {None}, dir : Dirs \cup {0}, next : Themes \cup {None}]
NoSave == [step |-> "none", caller |-> "none", before |-> None, dir |-> 0, next |-> None]

Posted == [job : {"import", "removal"}, id : Ids \cup {None}]

Directory ==
  [where : {"none", "staging", "installed", "deleting"}, package : Known \cup {None},
   content : {"empty", "copied", "partial", "whole", "checked"}, by : SUBSET Windows]
NoDirectory == [where |-> "none", package |-> None, content |-> "empty", by |-> {}]

Process ==
  [up : {"no", "full", "menu", "broker"}, own : Settings, combo : CharacterSets,
   listed : SUBSET Themes, package : Packages \cup {None}, importing : BOOLEAN,
   posted : Seq(Posted), save : Save]

Closed ==
  [up |-> "no", own |-> DefaultSettings,
   combo |-> "simplified", listed |-> {Default}, package |-> None, importing |-> FALSE,
   posted |-> <<>>, save |-> NoSave]

Past ==
  [events : 0 .. MaxEvents, failures : 0 .. MaxFailures, fresh : [Procs -> BOOLEAN],
   together : BOOLEAN, crossed : BOOLEAN, cut : BOOLEAN, left : BOOLEAN]

TypeOK ==
  /\ file \in SettingsFile
  /\ temp \in [{"app", "broker"} -> TempFile]
  /\ app \in [Procs -> Process]
  /\ disk \in [Dirs -> Directory]
  /\ past \in Past

(* A theme is installed and in use; some windows have just been opened on it. *)
Init ==
  /\ \E first \in FirstThemes :
       /\ disk = [d \in Dirs |->
            IF d = 1 THEN [where |-> "installed", package |-> first, content |-> "checked",
                           by |-> {}]
            ELSE NoDirectory]
       /\ file = [value |-> [theme |-> first.id, characters |-> "simplified"], mixed |-> FALSE]
       /\ app = [p \in Procs |->
            IF p = Broker THEN [Closed EXCEPT !.up = "broker"]
            ELSE IF p \in FirstWindows
            THEN [Closed EXCEPT !.up = "full", !.own = file.value, !.listed = {first.id, Default}]
            ELSE Closed]
  /\ temp = [name \in {"app", "broker"} |-> NoFile]
  /\ past = [events |-> 0, failures |-> 0, fresh |-> [p \in Procs |-> p \in FirstWindows],
             together |-> FALSE, crossed |-> FALSE, cut |-> FALSE, left |-> FALSE]

-----------------------------------------------------------------------------
(* The themes directory. *)

InstalledDirs == {d \in Dirs : disk[d].where = "installed"}
InstalledIds == {disk[d].package.id : d \in InstalledDirs}
Asking(w) == {d \in InstalledDirs : w \in disk[d].by}
Fresh == {d \in Dirs : disk[d].where = "none"}
Renamed(d, where, by) == [disk EXCEPT ![d] = [@ EXCEPT !.where = where, !.by = by]]
Removed(d) == [disk EXCEPT ![d] = NoDirectory]

(* LoadInstalledThemes sees the directories whose name is the identifier their manifest gives. *)
LoadInstalledThemes(ids) == ids \cup {Default}

(* The handles of a process close and its background jobs stop when it ends. *)
Released(w) == [d \in Dirs |-> [disk[d] EXCEPT !.by = @ \ {w}]]

-----------------------------------------------------------------------------
(* Steps of a window's handlers, on its record. *)

BeginSave(r, caller, before, dir, next) ==
  [r EXCEPT !.save = [step |-> "open", caller |-> caller, before |-> before, dir |-> dir,
                      next |-> next]]

(* SaveFromControls takes every control; the character set stands for those of them *)
(* that are not saved when they change.                                             *)
FromControls(r) ==
  IF r.up = "full" THEN [r EXCEPT !.own = [@ EXCEPT !.characters = r.combo]] ELSE r

(* Mutant: the theme is not looked up in the list. *)
SelectAnyTheme(r, id) ==
  IF r.own.theme = id THEN r
  ELSE BeginSave([r EXCEPT !.own = [@ EXCEPT !.theme = id]], "select", r.own, 0, None)

SelectTheme(r, id) ==
  IF id \notin r.listed \/ r.own.theme = id THEN r
  ELSE LET taken == FromControls(r)
           chosen == [taken EXCEPT !.own = [@ EXCEPT !.theme = id]]
       IN  BeginSave(chosen, "select", r.own, 0, None)

(* Mutant: a theme that is gone stays selected. *)
ReloadWithoutFallback(r, ids, next) ==
  SelectTheme([r EXCEPT !.listed = LoadInstalledThemes(ids)], next)

(* ReloadThemeCatalog, and what its caller does after it: `next' is the theme to select. *)
ReloadThemeCatalog(r, ids, next) ==
  LET seen == [r EXCEPT !.listed = LoadInstalledThemes(ids)]
  IN  IF r.own.theme \in seen.listed THEN SelectTheme(seen, next)
      ELSE BeginSave([seen EXCEPT !.own = [@ EXCEPT !.theme = Default]], "fallback", r.own, 0,
                     next)

(* The removal of d waits for the handler, and so for a save the reload has begun. *)
Removing(r, d) ==
  IF r.save.step = "none" THEN r ELSE [r EXCEPT !.save = [@ EXCEPT !.dir = d]]

Post(r, job, id) == [r EXCEPT !.posted = Append(@, [job |-> job, id |-> id])]

-----------------------------------------------------------------------------
(* Who may step. *)

Idle(w) == app[w].save.step = "none"
Showing(w, up) == app[w].up = up /\ Idle(w)
Acts == past.events < MaxEvents
Acted == [past EXCEPT !.events = @ + 1]
MayFail == past.failures < MaxFailures
Failed == [past EXCEPT !.failures = @ + 1]

-----------------------------------------------------------------------------
(* Saving: SaveSettings of the settings application, and the broker's own. *)

(* The list still has a theme that is gone. *)
Stale(r, id) == id \in r.listed /\ id \notin InstalledIds \cup {Default}

(* What the caller of a save does when it has returned; the broker's copy was its own. *)
Returns(p, done, history) ==
  LET s == app[p].save
      r == [app[p] EXCEPT !.save = NoSave, !.own = IF p = Broker THEN DefaultSettings ELSE @]
      undone == [r EXCEPT !.own = [@ EXCEPT !.theme = s.before.theme]]
      Keep(record) == app' = [app EXCEPT ![p] = record] /\ UNCHANGED disk /\ past' = history
  IN  \/ s.caller = "plain" /\ Keep(r)
      \/ /\ s.caller = "fallback"
         /\ app' = [app EXCEPT ![p] = SelectTheme(r, s.next)]
         /\ UNCHANGED disk
         /\ past' = [history EXCEPT !.crossed = @ \/ Stale(r, s.next)]
      \/ s.caller = "select" /\ Keep(IF done THEN r ELSE undone)
      \/ s.caller = "reset" /\ Keep(IF done THEN r ELSE [r EXCEPT !.own = s.before])
      \/ /\ s.caller = "closing"
         /\ app' = [app EXCEPT ![p] = Closed]
         /\ disk' = Released(p)
         /\ past' = [history EXCEPT !.fresh = [@ EXCEPT ![p] = FALSE],
              !.left = @ \/ \E d \in Dirs : disk[d].where # "installed" /\ p \in disk[d].by]
      \/ /\ s.caller = "deletion" /\ done
         /\ Keep(ReloadThemeCatalog(r, InstalledIds, None))
      \/ /\ s.caller = "deletion" /\ ~done
         /\ disk[s.dir].package.id \notin InstalledIds
         /\ disk' = Renamed(s.dir, "installed", {})
         /\ app' = [app EXCEPT ![p] =
              ReloadThemeCatalog(undone, InstalledIds \cup {disk[s.dir].package.id}, None)]
         /\ past' = history
      \/ /\ s.caller = "deletion" /\ ~done
         /\ disk[s.dir].package.id \in InstalledIds \/ history.failures < MaxFailures
         /\ disk' = Renamed(s.dir, "deleting", {})
         /\ app' = [app EXCEPT ![p] = ReloadThemeCatalog(undone, InstalledIds, None)]
         /\ past' = [history EXCEPT !.left = TRUE, !.failures =
                       IF disk[s.dir].package.id \in InstalledIds THEN @ ELSE @ + 1]

(* The temporary file is opened, and emptied.  The stream shares it with every other *)
(* opener, but not its deletion.                                                     *)
SaveOpen(p) ==
  LET t == TempName(p)
  IN  /\ app[p].save.step = "open"
      /\ \/ /\ temp' = [temp EXCEPT ![t] =
                 [there |-> TRUE, users |-> @.users \cup {p}, value |-> None, mixed |-> FALSE]]
            /\ app' = [app EXCEPT ![p].save.step = "write"]
            /\ past' = [past EXCEPT !.together = @ \/ \E q \in Windows \ {p} :
                          p \in Windows /\ app[q].save.step \in {"write", "move"}]
            /\ UNCHANGED disk
         \/ /\ MayFail
            /\ UNCHANGED temp
            /\ Returns(p, FALSE, Failed)
      /\ UNCHANGED file

(* Without its last user a temporary file that is no longer wanted disappears. *)
Dropped(t, users) ==
  [temp EXCEPT ![t] = IF users = {} THEN NoFile ELSE [@ EXCEPT !.users = users]]

(* The copy is written from the start of the file and the stream is closed: over what  *)
(* another writer has put there, the longer of the two keeps its tail, and a reader    *)
(* takes each key from either.                                                         *)
SaveWrite(p) ==
  LET t == TempName(p)
      others == temp[t].users \ {p}
  IN  /\ app[p].save.step = "write"
      /\ \/ /\ \/ temp' = [temp EXCEPT ![t] =
                    [@ EXCEPT !.users = others, !.value = app[p].own, !.mixed = FALSE]]
               \/ /\ temp[t].value # None
                  /\ \E value \in Settings :
                       /\ value.theme \in {app[p].own.theme, temp[t].value.theme}
                       /\ value.characters \in {app[p].own.characters, temp[t].value.characters}
                       /\ temp' = [temp EXCEPT ![t] =
                            [@ EXCEPT !.users = others, !.value = value, !.mixed = TRUE]]
            /\ app' = [app EXCEPT ![p].save.step = "move"]
            /\ UNCHANGED <<disk, past>>
         \/ /\ MayFail
            /\ temp' = Dropped(t, others)
            /\ Returns(p, FALSE, Failed)
      /\ UNCHANGED file

(* The move replaces settings.ini, unless the file is gone, still open elsewhere, or the *)
(* system refuses (a reader has settings.ini open).  An empty file reads as the defaults. *)
SaveMove(p) ==
  LET t == TempName(p)
      movable == temp[t].there /\ temp[t].users = {}
  IN  /\ app[p].save.step = "move"
      /\ \/ /\ movable
            /\ file' = IF temp[t].value = None THEN [value |-> DefaultSettings, mixed |-> TRUE]
                       ELSE [value |-> temp[t].value, mixed |-> temp[t].mixed]
            /\ temp' = [temp EXCEPT ![t] = NoFile]
            /\ Returns(p, TRUE,
                 [past EXCEPT !.fresh = [q \in Procs |-> q = p /\ q # Broker],
                              !.crossed = @ \/ ~past.fresh[p]])
         \/ /\ ~movable \/ MayFail
            /\ temp' = Dropped(t, temp[t].users)
            /\ UNCHANGED file
            /\ Returns(p, FALSE, IF movable THEN Failed ELSE past)

SaveStep(p) == SaveOpen(p) \/ SaveWrite(p) \/ SaveMove(p)

-----------------------------------------------------------------------------
(* The settings windows. *)

Becomes(w, record) == app' = [app EXCEPT ![w] = record]

LoadSettings == file.value

(* Every control takes what the settings say; the catalog is read. *)
InitializeSettingsControls(r, ids) ==
  ReloadThemeCatalog([r EXCEPT !.combo = r.own.characters], ids, None)

(* A second quick menu hands over to the first one and exits. *)
OnLaunched(up) == up = "menu" => \A v \in Windows : app[v].up # "menu"

(* A new process. *)
Open(w, up) ==
  LET loaded == [Closed EXCEPT !.up = up, !.own = LoadSettings]
  IN  /\ Acts
      /\ app[w].up = "no"
      /\ OnLaunched(up)
      /\ Becomes(w, IF up = "full" THEN InitializeSettingsControls(loaded, InstalledIds)
                    ELSE loaded)
      /\ past' = [Acted EXCEPT !.fresh = [@ EXCEPT ![w] = TRUE]]
      /\ UNCHANGED <<file, temp, disk>>

(* A full window saves when it closes. *)
Close(w) ==
  /\ \/ /\ Showing(w, "full")
        /\ Becomes(w, BeginSave(FromControls(app[w]), "closing", None, 0, None))
        /\ UNCHANGED past
     \/ /\ Showing(w, "menu")
        /\ Becomes(w, Closed)
        /\ past' = [past EXCEPT !.fresh = [@ EXCEPT ![w] = FALSE]]
  /\ UNCHANGED <<file, temp, disk>>

(* The process is killed, wherever it is. *)
Crash(w) ==
  /\ Acts
  /\ app[w].up # "no"
  /\ app' = [app EXCEPT ![w] = Closed]
  /\ temp' = [temp EXCEPT !["app"].users = @ \ {w}]
  /\ disk' = Released(w)
  /\ past' = [Acted EXCEPT !.fresh = [@ EXCEPT ![w] = FALSE],
              !.cut = @ \/ app[w].save.caller \in {"deletion", "fallback"},
              !.left = @ \/ \E d \in Dirs : disk[d].where # "installed" /\ w \in disk[d].by]
  /\ UNCHANGED file

Other(characters) == IF characters = "simplified" THEN "traditional" ELSE "simplified"
Toggled(own) == [own EXCEPT !.characters = Other(@)]

(* A control that is saved only with the next save. *)
EditControl(w) ==
  /\ Acts /\ Showing(w, "full") /\ Asking(w) = {}
  /\ Becomes(w, [app[w] EXCEPT !.combo = Other(@)])
  /\ past' = Acted
  /\ UNCHANGED <<file, temp, disk>>

(* A control of the appearance page, each of which saves at once. *)
ChangeAppearance(w) ==
  /\ Acts /\ Showing(w, "full") /\ Asking(w) = {}
  /\ Becomes(w, BeginSave(FromControls(app[w]), "plain", None, 0, None))
  /\ past' = Acted
  /\ UNCHANGED <<file, temp, disk>>

ResetAppearance(w) ==
  /\ Acts /\ Showing(w, "full") /\ Asking(w) = {}
  /\ LET taken == FromControls(app[w])
         chosen == [taken EXCEPT !.own = [@ EXCEPT !.theme = Default]]
     IN  Becomes(w, BeginSave(chosen, "reset", app[w].own, 0, None))
  /\ past' = Acted
  /\ UNCHANGED <<file, temp, disk>>

(* The button every theme of the list has that is not in use. *)
ApplyTheme(w, id) ==
  /\ Acts /\ Showing(w, "full") /\ Asking(w) = {}
  /\ id \in app[w].listed /\ id # app[w].own.theme
  /\ Becomes(w, SelectTheme(app[w], id))
  /\ past' = [Acted EXCEPT !.crossed = @ \/ Stale(app[w], id)]
  /\ UNCHANGED <<file, temp, disk>>

(* The quick menu's toggle, and the broker's menu action on a copy it has just read. *)
MenuToggle(w) ==
  /\ Acts /\ Showing(w, "menu")
  /\ Becomes(w, BeginSave([app[w] EXCEPT !.own = Toggled(@)], "plain", None, 0, None))
  /\ past' = Acted
  /\ UNCHANGED <<file, temp, disk>>

RunMenuAction ==
  /\ Acts /\ Idle(Broker)
  /\ LET read == [app[Broker] EXCEPT !.own = file.value]
     IN  Becomes(Broker, BeginSave([read EXCEPT !.own = Toggled(@)], "plain", None, 0, None))
  /\ past' = [Acted EXCEPT !.fresh = [@ EXCEPT ![Broker] = TRUE]]
  /\ UNCHANGED <<file, temp, disk>>

-----------------------------------------------------------------------------
(* Importing a theme: the window, and its background job. *)

(* MaxDirs bounds the imports: one starts only while there is a number for its directory. *)
ImportTheme(w, package) ==
  /\ Acts /\ Showing(w, "full") /\ Asking(w) = {}
  /\ ~app[w].importing
  /\ Cardinality(Fresh) > Cardinality({v \in Windows : app[v].package # None})
  /\ Becomes(w, [app[w] EXCEPT !.importing = TRUE, !.package = package])
  /\ past' = Acted
  /\ UNCHANGED <<file, temp, disk>>

Staging(w, d) == disk[d].where = "staging" /\ w \in disk[d].by

(* The job is over: its result goes to the UI thread. *)
ImportEnds(w, id) ==
  app' = [app EXCEPT ![w] = Post([@ EXCEPT !.package = None], "import", id)]

(* Mutant: a failing step leaves its staging directory. *)
ImportFailsUncleaned(w, d, history) ==
  ImportEnds(w, None) /\ disk' = Renamed(d, "staging", {}) /\ past' = history

(* Mutant: a failing step never reports to the window. *)
ImportFailsSilently(w, d, history) ==
  /\ app' = [app EXCEPT ![w] = [@ EXCEPT !.package = None]]
  /\ disk' = Removed(d) /\ past' = history

(* A failing step leaves InstallThemePackage through the destructor that removes the *)
(* staging directory; what cannot be removed stays.                                   *)
ImportFails(w, d, history) ==
  /\ ImportEnds(w, None)
  /\ \/ disk' = Removed(d) /\ past' = history
     \/ /\ history.failures < MaxFailures
        /\ disk' = Renamed(d, "staging", {})
        /\ past' = [history EXCEPT !.failures = @ + 1, !.left = TRUE]

ImportStage(w) ==
  /\ app[w].package # None
  /\ \A d \in Dirs : ~Staging(w, d)
  /\ \/ \E d \in Dirs :
          /\ d \in Fresh /\ \A e \in Fresh : d <= e
          /\ disk' = [disk EXCEPT ![d] = [where |-> "staging", package |-> app[w].package,
                                         content |-> "empty", by |-> {w}]]
          /\ UNCHANGED <<app, past>>
     \/ MayFail /\ ImportEnds(w, None) /\ past' = Failed /\ UNCHANGED disk
  /\ UNCHANGED <<file, temp>>

(* The job takes the directory from one content to the next, or fails there: because of the *)
(* package, or of the system (the extraction tool is also killed after 15 seconds).          *)
ImportStep(w, d, from, to, refused) ==
  /\ Staging(w, d) /\ disk[d].content = from
  /\ \/ /\ ~refused
        /\ disk' = [disk EXCEPT ![d] = [@ EXCEPT !.content = to]]
        /\ UNCHANGED <<app, past>>
     \/ refused /\ ImportFails(w, d, past)
     \/ MayFail /\ ImportFails(w, d, Failed)
  /\ UNCHANGED <<file, temp>>

(* The package is copied into the staging directory, and the copy is checked. *)
ImportCopy(w, d) ==
  ImportStep(w, d, "empty", "copied", disk[d].package.flaw = "archive")

(* A .ssf package looks for its theme before it writes the converted files. *)
ImportExtract(w, d) ==
  ImportStep(w, d, "copied", "whole",
             disk[d].package.ssf /\ disk[d].package.id \in InstalledIds)

(* Mutant: the images the manifest names are not looked for. *)
ImportCheckWithoutAssets(w, d) ==
  ImportStep(w, d, "whole", "checked", disk[d].package.flaw \in {"tree", "manifest"})

(* The files are those the archive declared; the manifest is valid, not reserved, and its *)
(* images are there.                                                                       *)
ImportCheck(w, d) ==
  ImportStep(w, d, "whole", "checked", disk[d].package.flaw \in {"tree", "manifest", "assets"})

(* Mutant: an installed theme of the same identifier is replaced. *)
ImportReplaces(w, d) ==
  /\ Staging(w, d) /\ disk[d].content = "checked"
  /\ LET Same(e) == e \in InstalledDirs /\ disk[e].package.id = disk[d].package.id
     IN  disk' = [e \in Dirs |-> IF Same(e) THEN NoDirectory
                                ELSE IF e = d THEN Renamed(d, "installed", {})[d] ELSE disk[e]]
  /\ ImportEnds(w, disk[d].package.id)
  /\ UNCHANGED <<file, temp, past>>

ImportPublish(w, d) ==
  /\ Staging(w, d) /\ disk[d].content = "checked"
  /\ LET id == disk[d].package.id
     IN  \/ /\ id \notin InstalledIds
            /\ disk' = Renamed(d, "installed", {})
            /\ ImportEnds(w, id)
            /\ UNCHANGED past
         \/ id \in InstalledIds /\ ImportFails(w, d, past)
         \/ MayFail /\ ImportFails(w, d, Failed)
  /\ UNCHANGED <<file, temp>>

ImportJob(w) ==
  \/ ImportStage(w)
  \/ \E d \in Dirs :
       ImportCopy(w, d) \/ ImportExtract(w, d) \/ ImportCheck(w, d) \/ ImportPublish(w, d)

(* The result reaches the window: the catalog is read again and the theme selected. *)
ImportDone(w) ==
  /\ Showing(w, "full") /\ app[w].posted # <<>> /\ Head(app[w].posted).job = "import"
  /\ LET id == Head(app[w].posted).id
         r == [app[w] EXCEPT !.importing = FALSE, !.posted = Tail(@)]
     IN  Becomes(w, IF id = None THEN r ELSE ReloadThemeCatalog(r, InstalledIds, id))
  /\ UNCHANGED <<file, temp, disk, past>>

-----------------------------------------------------------------------------
(* Deleting a theme: the confirmation, the rename, and the background removal. *)

(* Mutant: the directory is opened sharing its deletion. *)
DeleteThemeShared(w, d) ==
  /\ Acts /\ Showing(w, "full") /\ Asking(w) = {}
  /\ d \in InstalledDirs /\ disk[d].package.id \in app[w].listed
  /\ disk' = Renamed(d, "installed", disk[d].by \cup {w})
  /\ past' = Acted
  /\ UNCHANGED <<file, temp, app>>

(* The directory is opened for the rename, without sharing its deletion, and the dialog  *)
(* shows; a directory another handle holds cannot be opened.                             *)
DeleteTheme(w, d) ==
  /\ Acts /\ Showing(w, "full") /\ Asking(w) = {}
  /\ d \in InstalledDirs /\ disk[d].package.id \in app[w].listed
  /\ disk[d].by = {}
  /\ disk' = Renamed(d, "installed", {w})
  /\ past' = Acted
  /\ UNCHANGED <<file, temp, app>>

Cancel(w, d) ==
  /\ Showing(w, "full") /\ d \in Asking(w)
  /\ disk' = Renamed(d, "installed", disk[d].by \ {w})
  /\ UNCHANGED <<file, temp, app, past>>

(* The theme is in use where the window does not see it: its copy is older than the file or *)
(* was never saved, or it is another process that has the theme selected.                   *)
Crosses(w, id) ==
  \/ ~past.fresh[w]
  \/ file.value.theme = id /\ app[w].own.theme # id
  \/ \E p \in Procs \ {w} : app[p].up # "no" /\ app[p].own.theme = id

(* Mutant: the settings are left as they are; the reload that follows will see to them. *)
ConfirmWithoutSwitch(w, d) ==
  /\ Showing(w, "full") /\ d \in Asking(w)
  /\ disk' = Renamed(d, "deleting", {w})
  /\ Becomes(w, ReloadThemeCatalog(app[w], InstalledIds \ {disk[d].package.id}, None))
  /\ past' = [past EXCEPT !.crossed = @ \/ Crosses(w, disk[d].package.id)]
  /\ UNCHANGED <<file, temp>>

(* The user confirms: if the path still leads to the directory the handle is open on, that   *)
(* directory is renamed away.  Whether its theme is in use is what this window's copy says.  *)
(* The handle keeps the directory in place and complete, so the identity and the catalog     *)
(* agree.  A call that fails before the rename leaves everything as it was.  If the renamed  *)
(* directory cannot be identified the handler stops there: the directory stays quarantined,  *)
(* the catalog is not read again and the settings are not switched to the default.           *)
Confirm(w, d) ==
  /\ Showing(w, "full") /\ d \in Asking(w)
  /\ LET id == disk[d].package.id
         ids == InstalledIds \ {id}
         taken == FromControls(app[w])
         away == [taken EXCEPT !.own = [@ EXCEPT !.theme = Default]]
     IN  \/ /\ disk' = Renamed(d, "deleting", {w})
            /\ Becomes(w, IF app[w].own.theme = id
                          THEN BeginSave(away, "deletion", app[w].own, d, None)
                          ELSE Removing(ReloadThemeCatalog(app[w], ids, None), d))
            /\ past' = [past EXCEPT !.crossed = @ \/ Crosses(w, id)]
         \/ /\ MayFail
            /\ disk' = Renamed(d, "installed", {})
            /\ past' = Failed
            /\ UNCHANGED app
         \/ /\ MayFail
            /\ disk' = Renamed(d, "deleting", {})
            /\ past' = [Failed EXCEPT !.left = TRUE, !.crossed = @ \/ Crosses(w, id),
                                      !.cut = @ \/ app[w].own.theme = id]
            /\ UNCHANGED app
  /\ UNCHANGED <<file, temp>>

Deleting(w, d) ==
  /\ disk[d].where = "deleting" /\ w \in disk[d].by
  /\ app[w].save.dir # d

(* The job checks the whole tree, removes what is in it, then the directory itself; a tree of *)
(* more than 128 entries is refused, and a file in use stops it.                               *)
RemoveTree(w, d) ==
  /\ Deleting(w, d)
  /\ \/ /\ disk[d].content = "checked" /\ ~disk[d].package.crowded
        /\ disk' = [disk EXCEPT ![d] = [@ EXCEPT !.content = "partial"]]
        /\ UNCHANGED <<app, past>>
     \/ /\ disk[d].content = "partial"
        /\ disk' = Removed(d)
        /\ app' = [app EXCEPT ![w] = Post(@, "removal", None)]
        /\ UNCHANGED past
     \/ /\ disk[d].content = "checked" /\ disk[d].package.crowded
        /\ disk' = Renamed(d, "deleting", {})
        /\ app' = [app EXCEPT ![w] = Post(@, "removal", None)]
        /\ UNCHANGED past
     \/ /\ MayFail
        /\ disk' = Renamed(d, "deleting", {})
        /\ app' = [app EXCEPT ![w] = Post(@, "removal", None)]
        /\ past' = [Failed EXCEPT !.left = TRUE]
  /\ UNCHANGED <<file, temp>>

RemovalDone(w) ==
  /\ Showing(w, "full") /\ app[w].posted # <<>> /\ Head(app[w].posted).job = "removal"
  /\ Becomes(w, ReloadThemeCatalog([app[w] EXCEPT !.posted = Tail(@)], InstalledIds, None))
  /\ UNCHANGED <<file, temp, disk, past>>

-----------------------------------------------------------------------------
UserActs(w) ==
  \/ \E up \in {"full", "menu"} : Open(w, up)
  \/ Close(w)
  \/ EditControl(w) \/ ChangeAppearance(w) \/ ResetAppearance(w) \/ MenuToggle(w)
  \/ \E id \in Themes : ApplyTheme(w, id)
  \/ \E package \in Packages : ImportTheme(w, package)
  \/ \E d \in Dirs : DeleteTheme(w, d) \/ Cancel(w, d) \/ Confirm(w, d)
  \/ Crash(w)

RemovalJob(w) == \E d \in Dirs : RemoveTree(w, d)
Answers(w) == ImportDone(w) \/ RemovalDone(w)

(* What goes on without the user. *)
Runs ==
  \/ \E w \in Windows : ImportJob(w) \/ RemovalJob(w) \/ Answers(w)
  \/ \E p \in Procs : SaveStep(p)

Next == (\E w \in Windows : UserActs(w)) \/ RunMenuAction \/ Runs

Spec == Init /\ [][Next]_vars

-----------------------------------------------------------------------------
(* Properties. *)

(* A directory under a theme's identifier has passed every check and is complete: neither a *)
(* failed step nor the end of a process in the middle of an import or a removal leaves half  *)
(* a theme where the broker and the candidate window look for one (InstallThemePackage,      *)
(* QuarantineThemeDirectory).                                                                *)
InstalledWhole ==
  \A d \in InstalledDirs : disk[d].content = "checked" /\ disk[d].package.flaw = "none"

Quiet == \A p \in Procs : Idle(p)

(* While nobody is saving, the theme settings.ini names is installed or the default, through *)
(* any two failing system calls that are undone or repaired, one after the other.  It is not *)
(* where processes cross (`crossed': an older copy or list, or a theme removed by a window   *)
(* which does not see that it is in use; `together': two writers of one temporary file), and *)
(* where a removal, or its repair, ends before it has saved the replacement (`cut'): the     *)
(* process is killed, or the quarantined directory cannot be identified and DeleteTheme      *)
(* stops; then the file names the theme until a window reads the catalog again.              *)
ActiveIsInstalled ==
  Quiet /\ past.failures <= 2 /\ ~past.together /\ ~past.crossed /\ ~past.cut
    => file.value.theme \in InstalledIds \cup {Default}

(* settings.ini holds one process's copy, never parts of two, unless two windows of the     *)
(* settings application save at the same time: the broker's writer has its own file name.   *)
FileWhole == file.mixed => past.together

(* A window at rest shows its own theme in its list: what another window removed is replaced *)
(* by the default as soon as the catalog is read again (ReloadThemeCatalog).                 *)
SelectedIsListed ==
  \A w \in Windows : Showing(w, "full") => app[w].own.theme \in app[w].listed

(* A staging or quarantined directory nobody works on is left behind only by a process that  *)
(* ended at work, by a system call that failed, or because its theme unpacked to more than   *)
(* 128 entries: the import counts the archive's entries, the removal the directories too.    *)
LeftoversExplained ==
  \A d \in Dirs :
    disk[d].where \in {"staging", "deleting"} /\ disk[d].by = {} =>
      past.left \/ (disk[d].where = "deleting" /\ disk[d].package.crowded)

(* A directory leaves its identifier's path only in the hands of the one window whose user   *)
(* was asked about it: no other process moves it between the question and the answer.        *)
HeldStays ==
  [][\A d \in Dirs :
       disk[d].where = "installed" /\ disk'[d].where # "installed" =>
         Cardinality(disk[d].by) = 1 /\ disk'[d].by \subseteq disk[d].by]_vars

(* While the import button is disabled the import is under way or its result is on its way  *)
(* to the window: no failing step, and no directory that is taken, leaves it disabled.       *)
ImportsAnswer ==
  \A w \in Windows : app[w].importing =>
    \/ app[w].package # None
    \/ \E i \in DOMAIN app[w].posted : app[w].posted[i].job = "import"

(* Seen by path, the directory is the catalog of ThemeCatalog. *)
Catalog == INSTANCE ThemeCatalog WITH
  Ids <- Ids, Contents <- Known,
  catalog <- {[id |-> disk[d].package.id, content |-> disk[d].package] : d \in InstalledDirs}
NeverReplaced == Catalog!Spec
=============================================================================
