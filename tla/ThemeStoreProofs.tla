-------------------------- MODULE ThemeStoreProofs --------------------------
(***************************************************************************)
(* Proofs about ThemeStore: the state is well typed; a directory under a   *)
(* theme's identifier is whole, has its identifier for itself and leaves   *)
(* it only in the hands of the window that was asked; every import answers *)
(* its window; the settings file is never made of two copies; and the      *)
(* directories, seen by path, are the catalog of ThemeCatalog.             *)
(*                                                                         *)
(* What is said of the installed directories alone is not inductive: a     *)
(* staging directory must have passed the checks its content stands for,   *)
(* and the directory of a deletion whose save is under way must be the one *)
(* that was renamed away, still complete and in nobody else's hands.       *)
(*                                                                         *)
(* That the theme in use is installed needs a second invariant, at the     *)
(* end, about the processes rather than the file: what a copy that is as   *)
(* new as the file has selected, and who still has to replace a theme that *)
(* is gone.                                                                *)
(***************************************************************************)
EXTENDS ThemeStore, FiniteSetTheorems, TLAPS

(***************************************************************************)
(* The inductive invariant.                                                *)
(***************************************************************************)
(* A directory: what its content says of its package. *)
Sound(e) ==
  /\ e.where # "none" => e.package \in Known
  /\ e.content \in {"copied", "whole"} => e.package.flaw # "archive"
  /\ e.content = "checked" => e.package.flaw = "none"
  /\ e.where = "installed" =>
       e.content = "checked" /\ (e.by = {} \/ \E w \in Windows : e.by = {w})

SoundDirs == \A d \in Dirs : disk[d].where # "none" => Sound(disk[d])

OneAtAPath ==
  \A d, e \in InstalledDirs : disk[d].package.id = disk[e].package.id => d = e

(* The directory of a deletion waits for the save, which may bring it back. *)
Deletion(p) == app[p].save.caller = "deletion"
Deletions ==
  \A p \in Procs : Deletion(p) =>
    /\ app[p].save.dir \in Dirs
    /\ disk[app[p].save.dir].where = "deleting"
    /\ disk[app[p].save.dir].content = "checked"
    /\ disk[app[p].save.dir].by = {p}

(* A process: its selection is in its list, and stays there if the save is undone. *)
Undoable(r) == r.save.caller \in {"select", "reset"}
Waiting(r) == \E i \in DOMAIN r.posted : r.posted[i].job = "import"
Consistent(r) ==
  /\ Default \in r.listed
  /\ r.save.step = "none" => r.save = NoSave
  /\ Undoable(r) \/ r.save.caller = "deletion" => r.save.before \in Settings
  /\ r.up = "full" => r.own.theme \in r.listed
  /\ r.up = "full" /\ Undoable(r) => r.save.before.theme \in r.listed
  /\ r.importing => r.package # None \/ Waiting(r)

(* The broker saves its menu action, and has no window. *)
InMenu(r) == r.up = "broker" /\ r.save.caller \in {"none", "plain"}

(* The settings file: without two windows saving at a time the temporary file *)
(* is the work of the one process that has it open.                           *)
Writing(p) == app[p].save.step \in {"write", "move"}
Unmixed ==
  /\ ~file.mixed
  /\ \A v, w \in Windows : Writing(v) /\ Writing(w) => v = w
  /\ \A p \in Procs :
       /\ app[p].save.step = "write" => temp[TempName(p)].value = None
       /\ app[p].save.step = "move" =>
            temp[TempName(p)].value # None /\ ~temp[TempName(p)].mixed

IInv ==
  /\ TypeOK
  /\ SoundDirs
  /\ OneAtAPath
  /\ Deletions
  /\ \A p \in Procs : Consistent(app[p])
  /\ InMenu(app[Broker])
  /\ ~past.together => Unmixed
  /\ LeftoversExplained

------------------------------------------------------------------------------
(***************************************************************************)
(* The helpers on directories.                                             *)
(***************************************************************************)
Where == {"none", "staging", "installed", "deleting"}

(* Renaming a directory changes where it is and who holds it, and nothing else. *)
LEMMA RenamedDir ==
  ASSUME disk \in [Dirs -> Directory], NEW d \in Dirs, NEW where \in Where,
         NEW by \in SUBSET Windows
  PROVE  /\ Renamed(d, where, by) \in [Dirs -> Directory]
         /\ Renamed(d, where, by)[d].where = where
         /\ Renamed(d, where, by)[d].by = by
         /\ Renamed(d, where, by)[d].package = disk[d].package
         /\ Renamed(d, where, by)[d].content = disk[d].content
         /\ \A e \in Dirs \ {d} : Renamed(d, where, by)[e] = disk[e]
<1> DEFINE moved == [disk[d] EXCEPT !.where = where, !.by = by]
<1>1. moved \in Directory /\ moved.where = where /\ moved.by = by
      /\ moved.package = disk[d].package /\ moved.content = disk[d].content
  BY DEF Directory, Where
<1>2. Renamed(d, where, by) = [disk EXCEPT ![d] = moved]
  BY DEF Renamed
<1> QED
  BY <1>1, <1>2

(* Removing one frees its number. *)
LEMMA RemovedDir ==
  ASSUME disk \in [Dirs -> Directory], NEW d \in Dirs
  PROVE  /\ Removed(d) \in [Dirs -> Directory]
         /\ Removed(d)[d] = NoDirectory
         /\ NoDirectory.where = "none" /\ NoDirectory.by = {}
         /\ \A e \in Dirs \ {d} : Removed(d)[e] = disk[e]
  BY DEF Removed, NoDirectory, Directory

(* The end of a process takes its handles and jobs away, and moves nothing. *)
LEMMA ReleasedDirs ==
  ASSUME disk \in [Dirs -> Directory], NEW w
  PROVE  /\ Released(w) \in [Dirs -> Directory]
         /\ \A d \in Dirs : /\ Released(w)[d].where = disk[d].where
                           /\ Released(w)[d].package = disk[d].package
                           /\ Released(w)[d].content = disk[d].content
                           /\ Released(w)[d].by = disk[d].by \ {w}
<1>1. ASSUME NEW d \in Dirs
      PROVE  /\ Released(w)[d] = [disk[d] EXCEPT !.by = disk[d].by \ {w}]
             /\ Released(w)[d] \in Directory
  BY DEF Released, Directory
<1>2. Released(w) = [d \in Dirs |-> Released(w)[d]]
  BY DEF Released
<1> QED
  BY <1>1, <1>2 DEF Directory

------------------------------------------------------------------------------
(***************************************************************************)
(* The helpers on a process's record.                                      *)
(***************************************************************************)
(* What a handler leaves alone. *)
Framed(q, r) ==
  /\ q \in Process
  /\ q.up = r.up /\ q.package = r.package
  /\ q.importing = r.importing /\ q.posted = r.posted

(* It saves nothing, or has begun a save that is not a deletion's. *)
Calm(q) == q.save.step \in {"none", "open"} /\ q.save.caller # "deletion"

Callers == {"none", "plain", "select", "reset", "closing", "deletion", "fallback"}

LEMMA NoSaveTyped ==
  NoSave \in Save /\ NoSave.step = "none" /\ NoSave.caller = "none"
  BY DEF NoSave, Save

(* A process's record with another copy of the settings, or another save. *)
LEMMA OwnSet ==
  ASSUME NEW r \in Process, NEW own \in Settings
  PROVE  /\ Framed([r EXCEPT !.own = own], r)
         /\ [r EXCEPT !.own = own].own = own
         /\ [r EXCEPT !.own = own].listed = r.listed
         /\ [r EXCEPT !.own = own].save = r.save
  BY DEF Process, Framed

LEMMA SaveSet ==
  ASSUME NEW r \in Process, NEW save \in Save
  PROVE  /\ Framed([r EXCEPT !.save = save], r)
         /\ [r EXCEPT !.save = save].own = r.own
         /\ [r EXCEPT !.save = save].listed = r.listed
         /\ [r EXCEPT !.save = save].save = save
  BY DEF Process, Framed

LEMMA ListedSet ==
  ASSUME NEW r \in Process, NEW listed \in SUBSET Themes
  PROVE  /\ Framed([r EXCEPT !.listed = listed], r)
         /\ [r EXCEPT !.listed = listed].own = r.own
         /\ [r EXCEPT !.listed = listed].listed = listed
         /\ [r EXCEPT !.listed = listed].save = r.save
  BY DEF Process, Framed

LEMMA ThemeSet ==
  ASSUME NEW own \in Settings, NEW theme \in Themes
  PROVE  /\ [own EXCEPT !.theme = theme] \in Settings
         /\ [own EXCEPT !.theme = theme].theme = theme
  BY DEF Settings

LEMMA CharactersSet ==
  ASSUME NEW own \in Settings, NEW characters \in CharacterSets
  PROVE  /\ [own EXCEPT !.characters = characters] \in Settings
         /\ [own EXCEPT !.characters = characters].theme = own.theme
  BY DEF Settings

(* BeginSave. *)
LEMMA Begun ==
  ASSUME NEW r \in Process, NEW caller \in Callers, NEW before \in Settings \cup {None},
         NEW dir \in Dirs \cup {0}, NEW next \in Themes \cup {None}
  PROVE  /\ Framed(BeginSave(r, caller, before, dir, next), r)
         /\ BeginSave(r, caller, before, dir, next).own = r.own
         /\ BeginSave(r, caller, before, dir, next).listed = r.listed
         /\ BeginSave(r, caller, before, dir, next).save =
              [step |-> "open", caller |-> caller, before |-> before, dir |-> dir,
               next |-> next]
<1> DEFINE save == [step |-> "open", caller |-> caller, before |-> before, dir |-> dir,
                    next |-> next]
<1>1. save \in Save
  BY DEF Save, Callers
<1>2. BeginSave(r, caller, before, dir, next) = [r EXCEPT !.save = save]
  BY DEF BeginSave
<1> HIDE DEF save
<1> QED
  BY <1>1, <1>2, SaveSet DEF save

(* SaveFromControls keeps the theme. *)
LEMMA Controls ==
  ASSUME NEW r \in Process
  PROVE  /\ Framed(FromControls(r), r)
         /\ FromControls(r).own \in Settings
         /\ FromControls(r).own.theme = r.own.theme
         /\ FromControls(r).listed = r.listed
         /\ FromControls(r).save = r.save
<1> DEFINE own == [r.own EXCEPT !.characters = r.combo]
<1>1. own \in Settings /\ own.theme = r.own.theme
  BY CharactersSet DEF Process
<1>2. FromControls(r) = IF r.up = "full" THEN [r EXCEPT !.own = own] ELSE r
  BY DEF FromControls
<1> HIDE DEF own
<1>3. CASE r.up = "full"
  BY <1>1, <1>2, <1>3, OwnSet
<1>4. CASE r.up # "full"
  BY <1>2, <1>4 DEF Framed, Process
<1> QED
  BY <1>3, <1>4

(* SelectTheme. *)
LEMMA Selected ==
  ASSUME NEW r \in Process, Consistent(r), Calm(r), NEW id \in Themes \cup {None}
  PROVE  /\ Framed(SelectTheme(r, id), r)
         /\ Consistent(SelectTheme(r, id))
         /\ Calm(SelectTheme(r, id))
<1> DEFINE q == SelectTheme(r, id)
           taken == FromControls(r)
           own == [taken.own EXCEPT !.theme = id]
           chosen == [taken EXCEPT !.own = own]
           stays == id \notin r.listed \/ r.own.theme = id
<1>0. q = IF stays THEN r ELSE BeginSave(chosen, "select", r.own, 0, None)
  BY DEF SelectTheme
<1>1. CASE stays
  <2>1. q = r
    BY <1>0, <1>1
  <2>2. Framed(r, r)
    BY DEF Framed
  <2> QED
    BY <2>1, <2>2
<1>2. CASE ~stays
  <2>1. id \in r.listed /\ id \in Themes
    BY <1>2 DEF Process
  <2>2. Framed(taken, r) /\ taken.own \in Settings /\ taken.listed = r.listed
    BY Controls
  <2>3. own \in Settings /\ own.theme = id
    BY <2>1, <2>2, ThemeSet
  <2> HIDE DEF own, taken
  <2>4. Framed(chosen, taken) /\ chosen.own = own /\ chosen.listed = r.listed
    BY <2>2, <2>3, OwnSet DEF Framed
  <2> HIDE DEF chosen
  <2>5. r.own \in Settings
    BY DEF Process
  <2>6. /\ Framed(q, chosen) /\ q.own = own /\ q.listed = r.listed
        /\ q.save = [step |-> "open", caller |-> "select", before |-> r.own, dir |-> 0,
                     next |-> None]
    BY <1>0, <1>2, <2>4, <2>5, Begun DEF Framed, Callers
  <2> HIDE DEF q
  <2>7. Framed(q, r)
    BY <2>2, <2>4, <2>6 DEF Framed
  <2>8. Calm(q)
    BY <2>6 DEF Calm
  <2>9. Consistent(q)
    BY <2>1, <2>3, <2>5, <2>6, <2>7 DEF Consistent, Framed, Undoable, Waiting
  <2> QED
    BY <2>7, <2>8, <2>9 DEF q
<1> QED
  BY <1>1, <1>2

(* ReloadThemeCatalog, from a record that saves nothing. *)
LEMMA Reloaded ==
  ASSUME NEW r \in Process, r.save = NoSave, r.importing => r.package # None \/ Waiting(r),
         NEW ids \in SUBSET Ids, NEW next \in Themes \cup {None}
  PROVE  /\ Framed(ReloadThemeCatalog(r, ids, next), r)
         /\ Consistent(ReloadThemeCatalog(r, ids, next))
         /\ Calm(ReloadThemeCatalog(r, ids, next))
<1> DEFINE q == ReloadThemeCatalog(r, ids, next)
           listed == LoadInstalledThemes(ids)
           seen == [r EXCEPT !.listed = listed]
           own == [r.own EXCEPT !.theme = Default]
           back == [seen EXCEPT !.own = own]
<1>1. listed \in SUBSET Themes /\ Default \in listed
  BY DEF LoadInstalledThemes, Themes
<1> HIDE DEF listed
<1>2. Framed(seen, r) /\ seen.own = r.own /\ seen.listed = listed /\ seen.save = NoSave
  BY <1>1, ListedSet
<1>3. Default \in Themes /\ r.own \in Settings
  BY DEF Process, Themes
<1>4. own \in Settings /\ own.theme = Default
  BY <1>3, ThemeSet
<1>5. q = IF r.own.theme \in seen.listed THEN SelectTheme(seen, next)
          ELSE BeginSave(back, "fallback", r.own, 0, next)
  BY <1>2 DEF ReloadThemeCatalog, listed
<1> HIDE DEF own, seen
<1>6. Framed(back, seen) /\ back.own = own /\ back.listed = listed
  BY <1>2, <1>4, OwnSet DEF Framed
<1> HIDE DEF back, q
<1>7. CASE r.own.theme \in listed
  <2>1. Calm(seen)
    BY <1>2, NoSaveTyped DEF Calm
  <2>2. Consistent(seen)
    BY <1>1, <1>2, <1>7, NoSaveTyped DEF Consistent, Framed, Undoable, Waiting
  <2>3. q = SelectTheme(seen, next)
    BY <1>2, <1>5, <1>7
  <2>4. seen \in Process
    BY <1>2 DEF Framed
  <2>5. Framed(q, seen) /\ Consistent(q) /\ Calm(q)
    BY <2>1, <2>2, <2>3, <2>4, Selected
  <2>6. Framed(q, r)
    BY <1>2, <2>5 DEF Framed
  <2> QED
    BY <2>5, <2>6 DEF q
<1>8. CASE r.own.theme \notin listed
  <2>1. q = BeginSave(back, "fallback", r.own, 0, next)
    BY <1>2, <1>5, <1>8
  <2>2. /\ Framed(q, back) /\ q.own = own /\ q.listed = listed
        /\ q.save = [step |-> "open", caller |-> "fallback", before |-> r.own, dir |-> 0,
                     next |-> next]
    BY <1>3, <1>6, <2>1, Begun DEF Framed, Callers
  <2>3. Framed(q, r)
    BY <1>2, <1>6, <2>2 DEF Framed
  <2>4. Calm(q)
    BY <2>2 DEF Calm
  <2>5. Consistent(q)
    BY <1>1, <1>4, <2>2, <2>3 DEF Consistent, Framed, Undoable, Waiting
  <2> QED
    BY <2>3, <2>4, <2>5 DEF q
<1> QED
  BY <1>7, <1>8

------------------------------------------------------------------------------
(***************************************************************************)
(* What a step does to each part of the state, and what follows for the    *)
(* invariant.                                                              *)
(***************************************************************************)
PastStep ==
  /\ past' \in Past
  /\ past.together => past'.together
  /\ past.left => past'.left

(* Process p's record becomes r. *)
Becoming(p, r) ==
  /\ r \in Process /\ Consistent(r)
  /\ p \in Windows \/ InMenu(r)
  /\ app' = [app EXCEPT ![p] = r]

Elsewhere(d) == \A e \in Dirs \ {d} : disk'[e] = disk[e]

(* A directory is renamed to its identifier, which no other has. *)
Published(d) ==
  /\ disk[d].where \notin {"none", "installed"} /\ disk[d].package.id \notin InstalledIds
  /\ disk'[d].where = "installed" /\ disk'[d].package = disk[d].package
  /\ Elsewhere(d)

(* A directory is renamed away by the one window that holds it, and may let go of it. *)
Taken(d) ==
  /\ disk[d].where = "installed" /\ disk'[d].where # "installed"
  /\ \E w \in Windows : disk[d].by = {w} /\ disk'[d].by \subseteq {w}
  /\ Elsewhere(d)

(* The installed directories stay. *)
Kept ==
  \A d \in Dirs :
    /\ disk'[d].where = "installed" <=> disk[d].where = "installed"
    /\ disk[d].where = "installed" => disk'[d].package = disk[d].package

DiskStep == Kept \/ \E d \in Dirs : Published(d) \/ Taken(d)

(* The processes after a step of p. *)
LEMMA AppTyped ==
  ASSUME IInv, NEW p \in Procs, NEW r, Becoming(p, r)
  PROVE  /\ app' \in [Procs -> Process]
         /\ app'[p] = r /\ \A q \in Procs \ {p} : app'[q] = app[q]
         /\ \A q \in Procs : Consistent(app'[q])
         /\ InMenu(app'[Broker])
<1>1. /\ app \in [Procs -> Process]
      /\ \A q \in Procs : Consistent(app[q])
      /\ InMenu(app[Broker])
  BY DEF IInv, TypeOK
<1>2. /\ r \in Process /\ Consistent(r) /\ app' = [app EXCEPT ![p] = r]
      /\ p \in Windows \/ InMenu(r)
  BY DEF Becoming
<1>3. Broker \in Procs /\ (p \in Windows => p # Broker)
  BY ProcessesAssumption DEF Procs
<1> QED
  BY <1>1, <1>2, <1>3

(* A step that touches no file leaves the files unmixed, unless it starts to write one. *)
LEMMA FilesKept ==
  ASSUME IInv, NEW p \in Procs, NEW r, Becoming(p, r), PastStep,
         r.save.step \in {"none", "open"} \/ r.save = app[p].save,
         UNCHANGED file, \A t \in {"app", "broker"} : /\ temp'[t].value = temp[t].value
                                                      /\ temp'[t].mixed = temp[t].mixed
  PROVE  (~past.together => Unmixed)'
<1> SUFFICES ASSUME ~past'.together PROVE Unmixed'
  OBVIOUS
<1>1. Unmixed
  BY DEF IInv, PastStep
<1>2. app'[p] = r /\ \A q \in Procs \ {p} : app'[q] = app[q]
  BY AppTyped
<1>3. \A q \in Procs :
        /\ app'[q].save.step = "write" => app[q].save.step = "write"
        /\ app'[q].save.step = "move" => app[q].save.step = "move"
  BY <1>2
<1>4. ~file'.mixed
  BY <1>1 DEF Unmixed
<1>5. \A v, w \in Windows : Writing(v)' /\ Writing(w)' => v = w
  BY <1>1, <1>3 DEF Unmixed, Writing, Procs
<1>6. \A q \in Procs : TempName(q) \in {"app", "broker"}
  BY DEF TempName
<1>7. ASSUME NEW q \in Procs
      PROVE  /\ app'[q].save.step = "write" => temp'[TempName(q)].value = None
             /\ app'[q].save.step = "move" =>
                  temp'[TempName(q)].value # None /\ ~temp'[TempName(q)].mixed
  BY <1>1, <1>3, <1>6 DEF Unmixed
<1> QED
  BY <1>4, <1>5, <1>7 DEF Unmixed, TempName

(* Two directories never share an identifier. *)
LEMMA PathsKept ==
  ASSUME IInv, disk' \in [Dirs -> Directory], DiskStep
  PROVE  OneAtAPath'
<1> SUFFICES ASSUME NEW d \in Dirs, NEW e \in Dirs,
                    disk'[d].where = "installed", disk'[e].where = "installed",
                    disk'[d].package.id = disk'[e].package.id, d # e
             PROVE  FALSE
  BY DEF OneAtAPath, InstalledDirs
<1>1. \A x, y \in Dirs : /\ disk[x].where = "installed" /\ disk[y].where = "installed"
                         /\ disk[x].package.id = disk[y].package.id
                         => x = y
  BY DEF IInv, OneAtAPath, InstalledDirs
<1>2. CASE Kept
  BY <1>1, <1>2 DEF Kept
<1>3. ASSUME NEW x \in Dirs, Published(x) PROVE FALSE
  <2>1. \A y \in Dirs : disk[y].where = "installed" => disk[y].package.id # disk[x].package.id
    BY <1>3 DEF Published, InstalledIds, InstalledDirs
  <2> QED
    BY <1>1, <1>3, <2>1 DEF Published, Elsewhere
<1>4. ASSUME NEW x \in Dirs, Taken(x) PROVE FALSE
  BY <1>1, <1>4 DEF Taken, Elsewhere
<1> QED
  BY <1>2, <1>3, <1>4 DEF DiskStep

(* One directory changes. *)
LEMMA OneDir ==
  ASSUME IInv, PastStep, NEW d \in Dirs, Elsewhere(d), disk' \in [Dirs -> Directory],
         disk'[d].where # "none" => Sound(disk'[d]),
         disk'[d].where \in {"staging", "deleting"} /\ disk'[d].by = {} =>
           past'.left \/ (disk'[d].where = "deleting" /\ disk'[d].package.crowded),
         \/ Published(d) \/ Taken(d)
         \/ disk[d].where # "installed" /\ disk'[d].where # "installed"
         \/ /\ disk[d].where = "installed" /\ disk'[d].where = "installed"
            /\ disk'[d].package = disk[d].package
  PROVE  SoundDirs' /\ LeftoversExplained' /\ DiskStep
<1>1. \A e \in Dirs \ {d} : disk'[e] = disk[e]
  BY DEF Elsewhere
<1>2. ASSUME NEW e \in Dirs, disk'[e].where # "none" PROVE Sound(disk'[e])
  BY <1>1, <1>2 DEF IInv, SoundDirs
<1>3. ASSUME NEW e \in Dirs, disk'[e].where \in {"staging", "deleting"}, disk'[e].by = {}
      PROVE  past'.left \/ (disk'[e].where = "deleting" /\ disk'[e].package.crowded)
  BY <1>1, <1>3 DEF IInv, LeftoversExplained, PastStep
<1>4. DiskStep
  <2>1. CASE Published(d) \/ Taken(d)
    BY <2>1 DEF DiskStep
  <2>2. CASE ~Published(d) /\ ~Taken(d)
    BY <1>1, <2>2 DEF DiskStep, Kept
  <2> QED
    BY <2>1, <2>2
<1> QED
  BY <1>2, <1>3, <1>4 DEF SoundDirs, LeftoversExplained, Sound

(* No directory changes. *)
LEMMA NoDir ==
  ASSUME IInv, PastStep, UNCHANGED disk
  PROVE  SoundDirs' /\ LeftoversExplained' /\ DiskStep /\ disk' \in [Dirs -> Directory]
  BY DEF IInv, TypeOK, PastStep, SoundDirs, LeftoversExplained, DiskStep, Kept, Sound

(* A directory a deletion may bring back. *)
Recallable(d) == \E q \in Procs : Deletion(q) /\ app[q].save.dir = d

LEMMA RecallableDir ==
  ASSUME IInv, NEW d \in Dirs, Recallable(d)
  PROVE  disk[d].where = "deleting" /\ disk[d].content = "checked"
  BY DEF IInv, Recallable, Deletions

LEMMA DeletionsKept ==
  ASSUME IInv, NEW p \in Procs, NEW r, Becoming(p, r), Calm(r) \/ r.save = app[p].save,
         \A d \in Dirs : Recallable(d) => disk'[d] = disk[d]
  PROVE  Deletions'
<1>1. app'[p] = r /\ \A q \in Procs \ {p} : app'[q] = app[q]
  BY AppTyped
<1> SUFFICES ASSUME NEW q \in Procs, app'[q].save.caller = "deletion"
             PROVE  /\ app'[q].save.dir \in Dirs
                    /\ disk'[app'[q].save.dir].where = "deleting"
                    /\ disk'[app'[q].save.dir].content = "checked"
                    /\ disk'[app'[q].save.dir].by = {q}
  BY DEF Deletions, Deletion
<1>2. app'[q].save = app[q].save /\ Deletion(q)
  BY <1>1 DEF Calm, Deletion
<1>3. /\ app[q].save.dir \in Dirs
      /\ disk[app[q].save.dir].where = "deleting"
      /\ disk[app[q].save.dir].content = "checked"
      /\ disk[app[q].save.dir].by = {q}
  BY <1>2 DEF IInv, Deletions
<1>4. disk'[app[q].save.dir] = disk[app[q].save.dir]
  BY <1>2, <1>3 DEF Recallable
<1> QED
  BY <1>2, <1>3, <1>4

(* The two kinds of step that leave the files alone: of a background job, and of a handler. *)
LEMMA JobStep ==
  ASSUME IInv, PastStep, NEW p \in Procs, NEW r, Becoming(p, r),
         Calm(r) \/ r.save = app[p].save, UNCHANGED <<file, temp>>,
         disk' \in [Dirs -> Directory], SoundDirs', LeftoversExplained', DiskStep,
         \A d \in Dirs : Recallable(d) => disk'[d] = disk[d]
  PROVE  IInv'
<1>1. /\ app' \in [Procs -> Process] /\ InMenu(app'[Broker])
      /\ \A q \in Procs : Consistent(app'[q])
  BY AppTyped
<1>2. TypeOK'
  BY <1>1 DEF IInv, TypeOK, PastStep
<1>3. OneAtAPath' /\ Deletions'
  BY PathsKept, DeletionsKept
<1>4. (~past.together => Unmixed)'
  BY FilesKept DEF Calm
<1> QED
  BY <1>1, <1>2, <1>3, <1>4 DEF IInv, Consistent, InMenu

LEMMA HandlerStep ==
  ASSUME IInv, PastStep, NEW p \in Procs, NEW r, Becoming(p, r),
         Calm(r) \/ r.save = app[p].save, UNCHANGED <<file, temp, disk>>
  PROVE  IInv' /\ DiskStep
  BY NoDir, JobStep

(* What the user does and what fails is counted. *)
LEMMA Counted ==
  ASSUME IInv
  PROVE  /\ past \in Past
         /\ Acts => Acted \in Past /\ Acted.together = past.together
                    /\ Acted.left = past.left /\ Acted.fresh = past.fresh
         /\ MayFail => Failed \in Past /\ Failed.together = past.together
                       /\ Failed.left = past.left /\ Failed.fresh = past.fresh
  BY BoundsAssumption DEF IInv, TypeOK, Past, Acts, Acted, MayFail, Failed

LEMMA ThingsStay ==
  ASSUME IInv
  PROVE  /\ UNCHANGED past => PastStep
         /\ Acts /\ past' = Acted => PastStep
         /\ MayFail /\ past' = Failed => PastStep
  BY Counted DEF PastStep

------------------------------------------------------------------------------
(***************************************************************************)
(* The handlers of a window that change no file and no directory.          *)
(***************************************************************************)
(* The record of a window at rest. *)
LEMMA AtRest ==
  ASSUME IInv, NEW p \in Procs, Idle(p)
  PROVE  app[p] \in Process /\ Consistent(app[p]) /\ app[p].save = NoSave /\ Calm(app[p])
  BY NoSaveTyped DEF IInv, TypeOK, Idle, Consistent, Calm

(* Directories and identifiers. *)
LEMMA IdsInstalled ==
  ASSUME IInv
  PROVE  InstalledIds \in SUBSET Ids
  BY PackagesAssumption DEF IInv, InstalledIds, InstalledDirs, SoundDirs, Sound

(* Another save than a deletion's begins with a selection that is in the list. *)
LEMMA BegunConsistent ==
  ASSUME NEW r \in Process, Consistent(r),
         NEW caller \in {"plain", "reset", "closing"}, NEW before \in Settings \cup {None},
         caller = "reset" => before \in Settings /\ (r.up = "full" => before.theme \in r.listed)
  PROVE  LET q == BeginSave(r, caller, before, 0, None)
         IN  q \in Process /\ Consistent(q) /\ Calm(q)
<1> DEFINE q == BeginSave(r, caller, before, 0, None)
<1>1. /\ Framed(q, r) /\ q.own = r.own /\ q.listed = r.listed
      /\ q.save = [step |-> "open", caller |-> caller, before |-> before, dir |-> 0,
                   next |-> None]
  BY Begun DEF Callers
<1> HIDE DEF q
<1>2. q.save.step = "open" /\ q.save.caller = caller /\ q.save.before = before
  BY <1>1
<1>3. Consistent(q)
  BY <1>1, <1>2 DEF Consistent, Framed, Undoable, Waiting
<1>4. Calm(q)
  BY <1>2 DEF Calm
<1> QED
  BY <1>1, <1>3, <1>4 DEF Framed, q

(* SaveFromControls keeps a record consistent. *)
LEMMA ControlsConsistent ==
  ASSUME NEW r \in Process, Consistent(r)
  PROVE  FromControls(r) \in Process /\ Consistent(FromControls(r))
<1> DEFINE q == FromControls(r)
<1>1. Framed(q, r) /\ q.own.theme = r.own.theme /\ q.listed = r.listed /\ q.save = r.save
  BY Controls
<1> HIDE DEF q
<1> QED
  BY <1>1 DEF Consistent, Framed, Undoable, Waiting, q

LEMMA EditControlStep ==
  ASSUME IInv, NEW w \in Windows, EditControl(w) PROVE IInv' /\ DiskStep
<1> DEFINE r == [app[w] EXCEPT !.combo = Other(app[w].combo)]
<1>1. w \in Procs /\ Idle(w) /\ app' = [app EXCEPT ![w] = r]
  BY DEF EditControl, Showing, Procs, Becomes
<1>2. app[w] \in Process /\ Consistent(app[w])
  BY <1>1, AtRest
<1>3. Framed(r, app[w]) /\ r.own = app[w].own /\ r.listed = app[w].listed /\ r.save = app[w].save
  BY <1>2 DEF Framed, Process, Other, CharacterSets
<1> HIDE DEF r
<1>4. Becoming(w, r)
  BY <1>1, <1>2, <1>3 DEF Becoming, Framed, Consistent, Undoable, Waiting
<1>5. PastStep /\ UNCHANGED <<file, temp, disk>>
  BY ThingsStay DEF EditControl
<1> QED
  BY <1>1, <1>3, <1>4, <1>5, HandlerStep

LEMMA ChangeAppearanceStep ==
  ASSUME IInv, NEW w \in Windows, ChangeAppearance(w) PROVE IInv' /\ DiskStep
<1> DEFINE r == BeginSave(FromControls(app[w]), "plain", None, 0, None)
<1>1. w \in Procs /\ Idle(w) /\ app' = [app EXCEPT ![w] = r]
  BY DEF ChangeAppearance, Showing, Procs, Becomes
<1>2. FromControls(app[w]) \in Process /\ Consistent(FromControls(app[w]))
  BY <1>1, AtRest, ControlsConsistent
<1>3. Becoming(w, r) /\ Calm(r)
  BY <1>1, <1>2, BegunConsistent DEF Becoming
<1>4. PastStep /\ UNCHANGED <<file, temp, disk>>
  BY ThingsStay DEF ChangeAppearance
<1> QED
  BY <1>1, <1>3, <1>4, HandlerStep

LEMMA ResetAppearanceStep ==
  ASSUME IInv, NEW w \in Windows, ResetAppearance(w) PROVE IInv' /\ DiskStep
<1> DEFINE taken == FromControls(app[w])
           own == [taken.own EXCEPT !.theme = Default]
           chosen == [taken EXCEPT !.own = own]
           r == BeginSave(chosen, "reset", app[w].own, 0, None)
<1>1. w \in Procs /\ Idle(w) /\ app' = [app EXCEPT ![w] = r]
  BY DEF ResetAppearance, Showing, Procs, Becomes
<1>2. app[w] \in Process /\ Consistent(app[w])
  BY <1>1, AtRest
<1>3. /\ Framed(taken, app[w]) /\ taken.own \in Settings
      /\ taken.listed = app[w].listed /\ taken.save = app[w].save /\ Consistent(taken)
  BY <1>2, Controls, ControlsConsistent
<1>4. own \in Settings /\ own.theme = Default
  BY <1>3, ThemeSet DEF Themes
<1> HIDE DEF taken, own
<1>5. Framed(chosen, taken) /\ chosen.own = own /\ chosen.listed = taken.listed
      /\ chosen.save = taken.save
  BY <1>3, <1>4, OwnSet DEF Framed
<1> HIDE DEF chosen
<1>6. Consistent(chosen)
  BY <1>3, <1>4, <1>5 DEF Consistent, Framed, Undoable, Waiting
<1>7. /\ app[w].own \in Settings
      /\ chosen.up = "full" => app[w].own.theme \in chosen.listed
  BY <1>2, <1>3, <1>5 DEF Process, Consistent, Framed
<1>8. Becoming(w, r) /\ Calm(r)
  BY <1>1, <1>5, <1>6, <1>7, BegunConsistent DEF Becoming, Framed
<1>9. PastStep /\ UNCHANGED <<file, temp, disk>>
  BY ThingsStay DEF ResetAppearance
<1> QED
  BY <1>1, <1>8, <1>9, HandlerStep

LEMMA ApplyThemeStep ==
  ASSUME IInv, NEW w \in Windows, NEW id \in Themes, ApplyTheme(w, id)
  PROVE  IInv' /\ DiskStep
<1>1. w \in Procs /\ Idle(w) /\ app' = [app EXCEPT ![w] = SelectTheme(app[w], id)]
  BY DEF ApplyTheme, Showing, Procs, Becomes
<1>2. Becoming(w, SelectTheme(app[w], id)) /\ Calm(SelectTheme(app[w], id))
  BY <1>1, AtRest, Selected DEF Becoming, Framed
<1>3. PastStep
  <2>1. Acted \in Past /\ Acted.together = past.together /\ Acted.left = past.left
    BY Counted DEF ApplyTheme
  <2>2. \E x \in BOOLEAN : past' = [Acted EXCEPT !.crossed = x]
    BY <2>1 DEF ApplyTheme, Past
  <2> QED
    BY <2>1, <2>2 DEF PastStep, Past
<1>4. UNCHANGED <<file, temp, disk>>
  BY DEF ApplyTheme
<1> QED
  BY <1>1, <1>2, <1>3, <1>4, HandlerStep

(* A process that saves nothing takes other settings, in the menu or the broker. *)
LEMMA MenuStep ==
  ASSUME IInv, PastStep, NEW p \in Windows, Idle(p), app[p].up # "full",
         NEW own \in Settings, UNCHANGED <<file, temp, disk>>,
         app' = [app EXCEPT ![p] =
                   BeginSave([app[p] EXCEPT !.own = own], "plain", None, 0, None)]
  PROVE  IInv' /\ DiskStep
<1> DEFINE q == [app[p] EXCEPT !.own = own]
           r == BeginSave(q, "plain", None, 0, None)
<1>1. p \in Procs /\ app[p] \in Process /\ Consistent(app[p])
  BY AtRest DEF Procs
<1>2. Framed(q, app[p]) /\ q.listed = app[p].listed /\ q.save = app[p].save
  BY <1>1, OwnSet
<1>3. app' = [app EXCEPT ![p] = r]
  OBVIOUS
<1> HIDE DEF q
<1>4. q \in Process /\ Consistent(q)
  BY <1>1, <1>2 DEF Consistent, Framed, Undoable, Waiting
<1>5. Becoming(p, r) /\ Calm(r)
  BY <1>3, <1>4, BegunConsistent DEF Becoming
<1> QED
  BY <1>1, <1>5, HandlerStep

LEMMA MenuToggleStep ==
  ASSUME IInv, NEW w \in Windows, MenuToggle(w) PROVE IInv' /\ DiskStep
<1> DEFINE own == Toggled(app[w].own)
<1>1. w \in Procs /\ Idle(w) /\ app[w].up # "full"
  BY DEF MenuToggle, Showing, Procs
<1>2. app[w].own \in Settings /\ Other(app[w].own.characters) \in CharacterSets
  BY <1>1, AtRest DEF Process, Other, CharacterSets
<1>3. own \in Settings
  BY <1>2, CharactersSet DEF Toggled
<1>4. app' = [app EXCEPT ![w] =
                BeginSave([app[w] EXCEPT !.own = own], "plain", None, 0, None)]
  BY DEF MenuToggle, Becomes
<1>5. PastStep /\ UNCHANGED <<file, temp, disk>>
  BY ThingsStay DEF MenuToggle
<1> HIDE DEF own
<1> QED
  BY <1>1, <1>3, <1>4, <1>5, MenuStep

(* Another process has, or no longer has, a fresh copy. *)
LEMMA FreshSet ==
  ASSUME NEW past1 \in Past, NEW p \in Procs, NEW b \in BOOLEAN
  PROVE  LET past2 == [past1 EXCEPT !.fresh = [past1.fresh EXCEPT ![p] = b]]
         IN  past2 \in Past /\ past2.together = past1.together /\ past2.left = past1.left
  BY DEF Past

(* A process is opened on the settings of the file. *)
LEMMA Loaded ==
  ASSUME IInv, NEW up \in {"full", "menu"}
  PROVE  LET r == [Closed EXCEPT !.up = up, !.own = file.value]
         IN  /\ r \in Process /\ r.up = up /\ r.own = file.value /\ r.listed = {Default}
             /\ r.save = NoSave /\ r.importing = FALSE
<1>1. file.value \in Settings
  BY DEF IInv, TypeOK, SettingsFile
<1>2. Closed \in Process
  BY NoSaveTyped DEF Closed, Process, DefaultSettings, Settings, Themes, CharacterSets, Posted
<1> QED
  BY <1>1, <1>2 DEF Closed, Process

LEMMA ClosedConsistent == Closed \in Process /\ Consistent(Closed) /\ Calm(Closed)
<1>1. Closed \in Process
  BY NoSaveTyped DEF Closed, Process, DefaultSettings, Settings, Themes, CharacterSets, Posted
<1> QED
  BY <1>1, NoSaveTyped DEF Closed, Consistent, Undoable, Calm

LEMMA OpenStep ==
  ASSUME IInv, NEW w \in Windows, NEW up \in {"full", "menu"}, Open(w, up)
  PROVE  IInv' /\ DiskStep
<1> DEFINE loaded == [Closed EXCEPT !.up = up, !.own = LoadSettings]
           set == [loaded EXCEPT !.combo = loaded.own.characters]
<1>1. /\ loaded \in Process /\ loaded.up = up /\ loaded.own = file.value
      /\ loaded.listed = {Default} /\ loaded.save = NoSave /\ loaded.importing = FALSE
  BY Loaded DEF LoadSettings
<1>2. w \in Procs
  BY DEF Procs
<1>3. app' = [app EXCEPT ![w] = IF up = "full" THEN ReloadThemeCatalog(set, InstalledIds, None)
                                ELSE loaded]
  BY DEF Open, Becomes, InitializeSettingsControls
<1> HIDE DEF loaded
<1>4. set \in Process /\ set.save = NoSave /\ set.importing = FALSE
  BY <1>1 DEF Process, Settings
<1> HIDE DEF set
<1>5. CASE up = "full"
  <2>1. Becoming(w, ReloadThemeCatalog(set, InstalledIds, None))
        /\ Calm(ReloadThemeCatalog(set, InstalledIds, None))
    BY <1>3, <1>4, <1>5, IdsInstalled, Reloaded DEF Becoming, Framed
  <2>2. PastStep /\ UNCHANGED <<file, temp, disk>>
    BY <1>2, Counted, FreshSet DEF Open, PastStep
  <2> QED
    BY <1>2, <2>1, <2>2, HandlerStep
<1>6. CASE up # "full"
  <2>1. Consistent(loaded) /\ Calm(loaded)
    BY <1>1, <1>6, NoSaveTyped DEF Consistent, Undoable, Calm
  <2>2. Becoming(w, loaded)
    BY <1>1, <1>3, <1>6, <2>1 DEF Becoming
  <2>3. PastStep /\ UNCHANGED <<file, temp, disk>>
    BY <1>2, Counted, FreshSet DEF Open, PastStep
  <2> QED
    BY <1>2, <2>1, <2>2, <2>3, HandlerStep
<1> QED
  BY <1>5, <1>6

LEMMA CloseStep ==
  ASSUME IInv, NEW w \in Windows, Close(w) PROVE IInv' /\ DiskStep
<1>1. w \in Procs /\ UNCHANGED <<file, temp, disk>> /\ past \in Past
  BY Counted DEF Close, Procs
<1>2. CASE /\ Showing(w, "full") /\ UNCHANGED past
           /\ Becomes(w, BeginSave(FromControls(app[w]), "closing", None, 0, None))
  <2> DEFINE r == BeginSave(FromControls(app[w]), "closing", None, 0, None)
  <2>1. Idle(w) /\ app' = [app EXCEPT ![w] = r]
    BY <1>2 DEF Showing, Becomes
  <2>2. FromControls(app[w]) \in Process /\ Consistent(FromControls(app[w]))
    BY <1>1, <2>1, AtRest, ControlsConsistent
  <2>3. Becoming(w, r) /\ Calm(r)
    BY <2>1, <2>2, BegunConsistent DEF Becoming
  <2> QED
    BY <1>1, <1>2, <2>3, HandlerStep, ThingsStay
<1>3. CASE /\ Showing(w, "menu") /\ Becomes(w, Closed)
           /\ past' = [past EXCEPT !.fresh = [past.fresh EXCEPT ![w] = FALSE]]
  <2>1. Becoming(w, Closed) /\ Calm(Closed)
    BY <1>3, ClosedConsistent DEF Becoming, Becomes
  <2>2. PastStep
    BY <1>1, <1>3, FreshSet DEF PastStep
  <2> QED
    BY <1>1, <2>1, <2>2, HandlerStep
<1> QED
  BY <1>2, <1>3 DEF Close

LEMMA RunMenuActionStep ==
  ASSUME IInv, RunMenuAction PROVE IInv' /\ DiskStep
<1> DEFINE read == [app[Broker] EXCEPT !.own = file.value]
           own == Toggled(file.value)
           q == [read EXCEPT !.own = own]
           r == BeginSave(q, "plain", None, 0, None)
<1>1. Broker \in Procs /\ Idle(Broker)
  BY DEF RunMenuAction, Procs
<1>2. app[Broker] \in Process /\ Consistent(app[Broker]) /\ app[Broker].up = "broker"
  BY <1>1, AtRest DEF IInv, InMenu
<1>3. file.value \in Settings /\ Other(file.value.characters) \in CharacterSets
  BY DEF IInv, TypeOK, SettingsFile, Other, CharacterSets
<1>4. own \in Settings
  BY <1>3, CharactersSet DEF Toggled
<1>5. app' = [app EXCEPT ![Broker] =
                BeginSave([read EXCEPT !.own = Toggled(read.own)], "plain", None, 0, None)]
  BY DEF RunMenuAction, Becomes
<1>6. Framed(read, app[Broker]) /\ read.own = file.value
      /\ read.listed = app[Broker].listed /\ read.save = app[Broker].save
  BY <1>2, <1>3, OwnSet
<1>7. app' = [app EXCEPT ![Broker] = r]
  BY <1>5, <1>6
<1> HIDE DEF read, own
<1>8. Framed(q, read) /\ q.listed = read.listed /\ q.save = read.save
  BY <1>4, <1>6, OwnSet DEF Framed
<1> HIDE DEF q
<1>9. q \in Process /\ Consistent(q)
  BY <1>2, <1>6, <1>8 DEF Consistent, Framed, Undoable, Waiting
<1>10. r \in Process /\ Consistent(r) /\ Calm(r) /\ InMenu(r)
  <2>1. /\ Framed(r, q)
        /\ r.save = [step |-> "open", caller |-> "plain", before |-> None, dir |-> 0,
                     next |-> None]
    BY <1>9, Begun DEF Callers
  <2>2. r \in Process /\ Consistent(r) /\ Calm(r)
    BY <1>9, BegunConsistent
  <2> HIDE DEF r
  <2>3. r.up = "broker" /\ r.save.caller = "plain"
    BY <1>2, <1>6, <1>8, <2>1 DEF Framed
  <2> QED
    BY <2>2, <2>3 DEF InMenu
<1>11. PastStep /\ UNCHANGED <<file, temp, disk>>
  BY <1>1, Counted, FreshSet DEF RunMenuAction, PastStep
<1> QED
  BY <1>1, <1>7, <1>10, <1>11, HandlerStep DEF Becoming

LEMMA ImportThemeStep ==
  ASSUME IInv, NEW w \in Windows, NEW package \in Packages, ImportTheme(w, package)
  PROVE  IInv' /\ DiskStep
<1> DEFINE r == [app[w] EXCEPT !.importing = TRUE, !.package = package]
<1>1. w \in Procs /\ Idle(w) /\ app' = [app EXCEPT ![w] = r]
  BY DEF ImportTheme, Showing, Procs, Becomes
<1>2. app[w] \in Process /\ Consistent(app[w]) /\ Calm(app[w])
  BY <1>1, AtRest
<1>3. /\ r \in Process /\ r.up = app[w].up /\ r.own = app[w].own /\ r.listed = app[w].listed
      /\ r.save = app[w].save /\ r.package = package
  BY <1>2 DEF Process
<1>4. package # None
  BY NoneAssumption DEF Known
<1> HIDE DEF r
<1>5. Becoming(w, r)
  BY <1>1, <1>2, <1>3, <1>4 DEF Becoming, Consistent, Undoable
<1>6. PastStep /\ UNCHANGED <<file, temp, disk>>
  BY ThingsStay DEF ImportTheme
<1> QED
  BY <1>1, <1>3, <1>5, <1>6, HandlerStep

(* A message that is taken from the queue is the only one it loses. *)
LEMMA Answered ==
  ASSUME NEW r \in Process, r.posted # <<>>
  PROVE  LET q == [r EXCEPT !.posted = Tail(@)]
         IN  /\ q \in Process /\ q.save = r.save /\ q.package = r.package
             /\ q.importing = r.importing
             /\ Waiting(r) => Head(r.posted).job = "import" \/ Waiting(q)
<1> DEFINE q == [r EXCEPT !.posted = Tail(r.posted)]
<1>1. r.posted \in Seq(Posted)
  BY DEF Process
<1>2. Tail(r.posted) \in Seq(Posted)
  BY <1>1
<1>3. q \in Process /\ q.save = r.save /\ q.posted = Tail(r.posted) /\ q.package = r.package
      /\ q.importing = r.importing
  BY <1>2 DEF Process
<1> HIDE DEF q
<1>4. ASSUME NEW i \in DOMAIN r.posted, r.posted[i].job = "import", Head(r.posted).job # "import"
      PROVE  i - 1 \in DOMAIN q.posted /\ q.posted[i - 1].job = "import"
  <2>1. i \in 1 .. Len(r.posted) /\ i # 1
    BY <1>1, <1>4
  <2>2. Len(Tail(r.posted)) = Len(r.posted) - 1 /\ Tail(r.posted)[i - 1] = r.posted[i]
    BY <1>1, <2>1
  <2> QED
    BY <1>1, <1>2, <1>3, <1>4, <2>1, <2>2
<1> QED
  BY <1>3, <1>4 DEF Waiting, q

LEMMA ImportDoneStep ==
  ASSUME IInv, NEW w \in Windows, ImportDone(w) PROVE IInv' /\ DiskStep
<1> DEFINE id == Head(app[w].posted).id
           r == [app[w] EXCEPT !.importing = FALSE, !.posted = Tail(app[w].posted)]
           q == IF id = None THEN r ELSE ReloadThemeCatalog(r, InstalledIds, id)
<1>1. w \in Procs /\ Idle(w) /\ app' = [app EXCEPT ![w] = q] /\ app[w].posted # <<>>
  BY DEF ImportDone, Showing, Procs, Becomes
<1>2. app[w] \in Process /\ Consistent(app[w]) /\ app[w].save = NoSave
  BY <1>1, AtRest
<1>3. Tail(app[w].posted) \in Seq(Posted) /\ Head(app[w].posted) \in Posted
  BY <1>1, <1>2 DEF Process
<1>4. id \in Themes \cup {None}
  BY <1>3 DEF Posted, Themes
<1>5. /\ r \in Process /\ r.up = app[w].up /\ r.own = app[w].own /\ r.listed = app[w].listed
      /\ r.save = NoSave /\ r.importing = FALSE
  BY <1>2, <1>3 DEF Process
<1> HIDE DEF r, id
<1>6. CASE id = None
  <2>1. Consistent(r) /\ Calm(r)
    BY <1>2, <1>5, NoSaveTyped DEF Consistent, Undoable, Calm
  <2> QED
    BY <1>1, <1>5, <1>6, <2>1, HandlerStep, ThingsStay DEF Becoming, ImportDone
<1>7. CASE id # None
  <2>1. q = ReloadThemeCatalog(r, InstalledIds, id)
    BY <1>7
  <2>2. q \in Process /\ Consistent(q) /\ Calm(q)
    BY <1>4, <1>5, <2>1, IdsInstalled, Reloaded DEF Framed
  <2> HIDE DEF q
  <2>3. Becoming(w, q)
    BY <1>1, <2>2 DEF Becoming
  <2> QED
    BY <1>1, <2>2, <2>3, HandlerStep, ThingsStay DEF ImportDone
<1> QED
  BY <1>6, <1>7

LEMMA RemovalDoneStep ==
  ASSUME IInv, NEW w \in Windows, RemovalDone(w) PROVE IInv' /\ DiskStep
<1> DEFINE r == [app[w] EXCEPT !.posted = Tail(@)]
           q == ReloadThemeCatalog(r, InstalledIds, None)
<1>1. /\ w \in Procs /\ Idle(w) /\ app' = [app EXCEPT ![w] = q]
      /\ app[w].posted # <<>> /\ Head(app[w].posted).job # "import"
  BY DEF RemovalDone, Showing, Procs, Becomes
<1>2. app[w] \in Process /\ Consistent(app[w]) /\ app[w].save = NoSave
  BY <1>1, AtRest
<1>3. r \in Process /\ r.save = NoSave /\ (r.importing => r.package # None \/ Waiting(r))
  BY <1>1, <1>2, Answered DEF Consistent
<1> HIDE DEF r
<1>4. q \in Process /\ Consistent(q) /\ Calm(q)
  BY <1>3, IdsInstalled, Reloaded DEF Framed
<1> HIDE DEF q
<1>5. Becoming(w, q)
  BY <1>1, <1>4 DEF Becoming
<1> QED
  BY <1>1, <1>4, <1>5, HandlerStep, ThingsStay DEF RemovalDone

------------------------------------------------------------------------------
(***************************************************************************)
(* The steps that change a directory.                                      *)
(***************************************************************************)
LEMMA DirTyped ==
  ASSUME IInv, NEW d \in Dirs
  PROVE  /\ disk \in [Dirs -> Directory] /\ disk[d] \in Directory
         /\ disk[d].where \in Where /\ disk[d].by \in SUBSET Windows
         /\ disk[d].where # "none" => Sound(disk[d])
  BY DEF IInv, TypeOK, Directory, SoundDirs, Where

(* The record of a process that keeps its own. *)
LEMMA SameRecord ==
  ASSUME IInv, NEW w \in Windows
  PROVE  /\ w \in Procs /\ app[w] \in Process /\ Consistent(app[w])
         /\ UNCHANGED app => Becoming(w, app[w])
  BY DEF IInv, TypeOK, Becoming, Procs

(* An installed directory stays where it is, under the handle of at most one window. *)
LEMMA HeldStep ==
  ASSUME IInv, PastStep, NEW w \in Windows, NEW d \in Dirs, disk[d].where = "installed",
         NEW by \in SUBSET Windows, by = {} \/ \E v \in Windows : by = {v},
         disk' = Renamed(d, "installed", by), UNCHANGED <<file, temp, app>>
  PROVE  IInv' /\ DiskStep
<1>1. disk \in [Dirs -> Directory] /\ Sound(disk[d])
  BY DirTyped
<1>2. /\ disk' \in [Dirs -> Directory] /\ disk'[d].where = "installed" /\ disk'[d].by = by
      /\ disk'[d].package = disk[d].package /\ disk'[d].content = disk[d].content
      /\ Elsewhere(d)
  BY <1>1, RenamedDir DEF Where, Elsewhere
<1>3. Sound(disk'[d])
  BY <1>1, <1>2 DEF Sound
<1>4. SoundDirs' /\ LeftoversExplained' /\ DiskStep
  BY <1>2, <1>3, OneDir
<1>5. \A e \in Dirs : Recallable(e) => disk'[e] = disk[e]
  BY <1>2, RecallableDir DEF Elsewhere
<1> QED
  BY <1>2, <1>4, <1>5, SameRecord, JobStep

LEMMA DeleteThemeStep ==
  ASSUME IInv, NEW w \in Windows, NEW d \in Dirs, DeleteTheme(w, d) PROVE IInv' /\ DiskStep
  BY HeldStep, ThingsStay DEF DeleteTheme, InstalledDirs

LEMMA CancelStep ==
  ASSUME IInv, NEW w \in Windows, NEW d \in Dirs, Cancel(w, d) PROVE IInv' /\ DiskStep
<1>1. disk[d].where = "installed" /\ disk[d].by \in SUBSET Windows /\ Sound(disk[d])
  BY DirTyped DEF Cancel, Asking, InstalledDirs
<1>2. disk[d].by \ {w} = {} \/ \E v \in Windows : disk[d].by \ {w} = {v}
  BY <1>1 DEF Sound
<1> QED
  BY <1>1, <1>2, HeldStep, ThingsStay DEF Cancel

(* The rename of a confirmed deletion. *)
LEMMA TakenAway ==
  ASSUME IInv, PastStep, NEW w \in Windows, NEW d \in Asking(w), NEW by,
         by = {w} \/ (by = {} /\ past'.left), disk' = Renamed(d, "deleting", by)
  PROVE  /\ d \in Dirs /\ disk' \in [Dirs -> Directory]
         /\ Elsewhere(d) /\ SoundDirs' /\ LeftoversExplained' /\ DiskStep
         /\ \A e \in Dirs : Recallable(e) => disk'[e] = disk[e]
<1>1. d \in Dirs /\ disk[d].where = "installed" /\ w \in disk[d].by
  BY DEF Asking, InstalledDirs
<1>2. disk \in [Dirs -> Directory] /\ Sound(disk[d])
  BY <1>1, DirTyped
<1>3. /\ disk' \in [Dirs -> Directory] /\ disk'[d].where = "deleting" /\ disk'[d].by = by
      /\ disk'[d].package = disk[d].package /\ disk'[d].content = disk[d].content
      /\ Elsewhere(d)
  BY <1>1, <1>2, RenamedDir DEF Where, Elsewhere
<1>4. disk[d].by = {w} /\ disk[d].content = "checked"
  BY <1>1, <1>2 DEF Sound
<1>5. Taken(d) /\ Sound(disk'[d])
  BY <1>1, <1>2, <1>3, <1>4 DEF Taken, Sound
<1>6. SoundDirs' /\ LeftoversExplained' /\ DiskStep
  BY <1>1, <1>3, <1>5, OneDir
<1>7. \A e \in Dirs : Recallable(e) => disk'[e] = disk[e]
  BY <1>1, <1>3, RecallableDir DEF Elsewhere
<1> QED
  BY <1>1, <1>3, <1>4, <1>6, <1>7

(* The window's own theme is the one that goes: the settings are saved first. *)
LEMMA ConfirmOwnStep ==
  ASSUME IInv, PastStep, NEW w \in Windows, NEW d \in Asking(w), Idle(w),
         disk' = Renamed(d, "deleting", {w}), UNCHANGED <<file, temp>>,
         Becomes(w, BeginSave([FromControls(app[w]) EXCEPT !.own = [@ EXCEPT !.theme = Default]],
                              "deletion", app[w].own, d, None))
  PROVE  IInv' /\ DiskStep
<1> DEFINE taken == FromControls(app[w])
           own == [taken.own EXCEPT !.theme = Default]
           away == [taken EXCEPT !.own = own]
           r == BeginSave(away, "deletion", app[w].own, d, None)
<1>1. /\ d \in Dirs /\ disk' \in [Dirs -> Directory]
      /\ disk'[d].where = "deleting" /\ disk'[d].content = "checked" /\ disk'[d].by = {w}
      /\ SoundDirs' /\ LeftoversExplained' /\ DiskStep
      /\ \A e \in Dirs : Recallable(e) => disk'[e] = disk[e]
  <2>1. /\ d \in Dirs /\ disk' \in [Dirs -> Directory] /\ Elsewhere(d)
        /\ SoundDirs' /\ LeftoversExplained' /\ DiskStep
        /\ \A e \in Dirs : Recallable(e) => disk'[e] = disk[e]
    BY TakenAway
  <2>2. disk \in [Dirs -> Directory] /\ disk[d].content = "checked"
    BY <2>1, DirTyped DEF Asking, InstalledDirs, Sound
  <2>3. {w} \in SUBSET Windows
    OBVIOUS
  <2>4. /\ disk'[d].where = "deleting" /\ disk'[d].content = disk[d].content
        /\ disk'[d].by = {w}
    BY <2>1, <2>2, <2>3, RenamedDir DEF Where
  <2> QED
    BY <2>1, <2>2, <2>4
<1>2. w \in Procs /\ app[w] \in Process /\ Consistent(app[w]) /\ app[w].save = NoSave
  BY AtRest DEF Procs
<1>3. app' = [app EXCEPT ![w] = r]
  BY DEF Becomes
<1>4. Framed(taken, app[w]) /\ taken.own \in Settings /\ taken.listed = app[w].listed
  BY <1>2, Controls
<1>5. own \in Settings /\ own.theme = Default
  BY <1>4, ThemeSet DEF Themes
<1> HIDE DEF taken, own
<1>6. Framed(away, taken) /\ away.own = own /\ away.listed = taken.listed
  BY <1>4, <1>5, OwnSet DEF Framed
<1>7. app[w].own \in Settings
  BY <1>2 DEF Process
<1> HIDE DEF away
<1>8. /\ Framed(r, away) /\ r.own = own /\ r.listed = app[w].listed
      /\ r.save = [step |-> "open", caller |-> "deletion", before |-> app[w].own, dir |-> d,
                   next |-> None]
  BY <1>1, <1>4, <1>6, <1>7, Begun DEF Framed, Callers
<1> HIDE DEF r
<1>9. Consistent(r)
  BY <1>2, <1>4, <1>5, <1>6, <1>7, <1>8 DEF Consistent, Framed, Undoable, Waiting
<1>10. Becoming(w, r)
  BY <1>3, <1>8, <1>9 DEF Becoming, Framed
<1>11. /\ app' \in [Procs -> Process] /\ InMenu(app'[Broker])
       /\ app'[w] = r /\ \A q \in Procs \ {w} : app'[q] = app[q]
       /\ \A q \in Procs : Consistent(app'[q])
  BY <1>2, <1>10, AppTyped
<1>12. TypeOK'
  BY <1>1, <1>11 DEF IInv, TypeOK, PastStep
<1>13. OneAtAPath'
  BY <1>1, PathsKept
<1>14. Deletions'
  <2> SUFFICES ASSUME NEW q \in Procs, app'[q].save.caller = "deletion"
               PROVE  /\ app'[q].save.dir \in Dirs
                      /\ disk'[app'[q].save.dir].where = "deleting"
                      /\ disk'[app'[q].save.dir].content = "checked"
                      /\ disk'[app'[q].save.dir].by = {q}
    BY DEF Deletions, Deletion
  <2>1. CASE q = w
    <3>1. app'[q].save.dir = d
      BY <1>8, <1>11, <2>1
    <3> QED
      BY <1>1, <2>1, <3>1
  <2>2. CASE q # w
    <3>1. app'[q] = app[q] /\ Deletion(q)
      BY <1>11, <2>2 DEF Deletion
    <3>2. /\ app[q].save.dir \in Dirs
          /\ disk[app[q].save.dir].where = "deleting"
          /\ disk[app[q].save.dir].content = "checked"
          /\ disk[app[q].save.dir].by = {q}
      BY <3>1 DEF IInv, Deletions
    <3>3. disk'[app[q].save.dir] = disk[app[q].save.dir]
      BY <1>1, <3>1, <3>2 DEF Recallable
    <3> QED
      BY <3>1, <3>2, <3>3
  <2> QED
    BY <2>1, <2>2
<1>15. (~past.together => Unmixed)'
  BY <1>2, <1>8, <1>10, FilesKept
<1> QED
  BY <1>1, <1>11, <1>12, <1>13, <1>14, <1>15 DEF IInv, Consistent, InMenu

(* It is not: the catalog is read again, and the removal waits for the handler. *)
LEMMA ConfirmOtherStep ==
  ASSUME IInv, PastStep, NEW w \in Windows, NEW d \in Asking(w), Idle(w),
         NEW ids \in SUBSET Ids,
         disk' = Renamed(d, "deleting", {w}), UNCHANGED <<file, temp>>,
         Becomes(w, Removing(ReloadThemeCatalog(app[w], ids, None), d))
  PROVE  IInv' /\ DiskStep
<1> DEFINE q == ReloadThemeCatalog(app[w], ids, None)
           save == [q.save EXCEPT !.dir = d]
           r == Removing(q, d)
<1>1. /\ d \in Dirs /\ disk' \in [Dirs -> Directory]
      /\ SoundDirs' /\ LeftoversExplained' /\ DiskStep
      /\ \A e \in Dirs : Recallable(e) => disk'[e] = disk[e]
  BY TakenAway
<1>2. w \in Procs /\ app[w] \in Process /\ Consistent(app[w]) /\ app[w].save = NoSave
  BY AtRest DEF Procs
<1>3. Framed(q, app[w]) /\ Consistent(q) /\ Calm(q)
  BY <1>2, Reloaded DEF Consistent
<1>4. app' = [app EXCEPT ![w] = r]
  BY DEF Becomes
<1> HIDE DEF q
<1>5. q \in Process /\ q.save \in Save
  BY <1>3 DEF Framed, Process
<1>6. /\ save \in Save /\ save.step = q.save.step /\ save.caller = q.save.caller
      /\ save.before = q.save.before
  BY <1>1, <1>5 DEF Save
<1>7. r = IF q.save.step = "none" THEN q ELSE [q EXCEPT !.save = save]
  BY DEF Removing
<1> HIDE DEF save, r
<1>8. Becoming(w, r) /\ Calm(r)
  <2>1. CASE q.save.step = "none"
    BY <1>3, <1>4, <1>5, <1>7, <2>1 DEF Becoming
  <2>2. CASE q.save.step # "none"
    <3>1. Framed(r, q) /\ r.own = q.own /\ r.listed = q.listed /\ r.save = save
      BY <1>5, <1>6, <1>7, <2>2, SaveSet
    <3>2. Consistent(r)
      BY <1>3, <1>6, <2>2, <3>1 DEF Consistent, Framed, Undoable, Waiting
    <3>3. Calm(r)
      BY <1>3, <1>6, <3>1 DEF Calm
    <3> QED
      BY <1>4, <3>1, <3>2, <3>3 DEF Becoming, Framed
  <2> QED
    BY <2>1, <2>2
<1> QED
  BY <1>1, <1>2, <1>8, JobStep

(* The handler stops after the rename. *)
LEMMA ConfirmStoppedStep ==
  ASSUME IInv, PastStep, past'.left, NEW w \in Windows, NEW d \in Asking(w),
         disk' = Renamed(d, "deleting", {}), UNCHANGED <<file, temp, app>>
  PROVE  IInv' /\ DiskStep
<1>1. /\ disk' \in [Dirs -> Directory] /\ SoundDirs' /\ LeftoversExplained' /\ DiskStep
      /\ \A e \in Dirs : Recallable(e) => disk'[e] = disk[e]
  BY TakenAway
<1> QED
  BY <1>1, SameRecord, JobStep

LEMMA ConfirmStep ==
  ASSUME IInv, NEW w \in Windows, NEW d \in Dirs, Confirm(w, d) PROVE IInv' /\ DiskStep
<1> DEFINE id == disk[d].package.id
           ids == InstalledIds \ {id}
           taken == FromControls(app[w])
<1>1. Idle(w) /\ d \in Asking(w) /\ UNCHANGED <<file, temp>>
  BY DEF Confirm, Showing
<1>2. CASE /\ disk' = Renamed(d, "deleting", {w})
           /\ Becomes(w, IF app[w].own.theme = id
                THEN BeginSave([taken EXCEPT !.own = [@ EXCEPT !.theme = Default]], "deletion",
                               app[w].own, d, None)
                ELSE Removing(ReloadThemeCatalog(app[w], ids, None), d))
           /\ \E x \in BOOLEAN : past' = [past EXCEPT !.crossed = x]
  <2>1. PastStep
    BY <1>2, Counted DEF PastStep, Past
  <2>2. ids \in SUBSET Ids
    BY IdsInstalled
  <2>3. CASE app[w].own.theme = id
    BY <1>1, <1>2, <2>1, <2>3, ConfirmOwnStep
  <2>4. CASE app[w].own.theme # id
    BY <1>1, <1>2, <2>1, <2>2, <2>4, ConfirmOtherStep
  <2> QED
    BY <2>3, <2>4
<1>3. CASE MayFail /\ disk' = Renamed(d, "installed", {}) /\ past' = Failed /\ UNCHANGED app
  BY <1>1, <1>3, HeldStep, ThingsStay DEF Asking, InstalledDirs
<1>4. past.crossed \in BOOLEAN
  BY Counted DEF Past
<1>5. CASE /\ MayFail /\ disk' = Renamed(d, "deleting", {}) /\ UNCHANGED app
           /\ \E x, y \in BOOLEAN :
                past' = [Failed EXCEPT !.left = TRUE, !.crossed = x, !.cut = y]
  <2>1. PastStep /\ past'.left
    BY <1>5, Counted DEF PastStep, Past
  <2> QED
    BY <1>1, <1>5, <2>1, ConfirmStoppedStep
<1>6. MayFail => Failed.crossed = past.crossed /\ past.cut \in BOOLEAN /\ Failed.cut = past.cut
  BY Counted DEF Past, Failed
<1> DEFINE crosses == Crosses(w, id)
<1>7. crosses \in BOOLEAN
  BY DEF Crosses
<1> HIDE DEF crosses
<1>8. CASE /\ MayFail /\ disk' = Renamed(d, "deleting", {}) /\ UNCHANGED app
           /\ past' = [Failed EXCEPT !.left = TRUE, !.crossed = @ \/ crosses,
                                     !.cut = @ \/ app[w].own.theme = id]
  <2>1. past' = [Failed EXCEPT !.left = TRUE, !.crossed = past.crossed \/ crosses,
                               !.cut = past.cut \/ app[w].own.theme = id]
    BY <1>6, <1>8
  <2> QED
    BY <1>4, <1>5, <1>6, <1>7, <1>8, <2>1
<1>9. CASE /\ disk' = Renamed(d, "deleting", {w})
           /\ Becomes(w, IF app[w].own.theme = id
                THEN BeginSave([taken EXCEPT !.own = [@ EXCEPT !.theme = Default]], "deletion",
                               app[w].own, d, None)
                ELSE Removing(ReloadThemeCatalog(app[w], ids, None), d))
           /\ past' = [past EXCEPT !.crossed = @ \/ crosses]
  BY <1>2, <1>4, <1>7, <1>9
<1> QED
  BY <1>3, <1>8, <1>9 DEF Confirm, crosses

(* A background job's result is posted to the window. *)
LEMMA PostedRecord ==
  ASSUME IInv, NEW w \in Windows, NEW job \in {"import", "removal"}, NEW id \in Ids \cup {None},
         NEW r, r = app[w] \/ (r = [app[w] EXCEPT !.package = None] /\ job = "import"),
         app' = [app EXCEPT ![w] = Post(r, job, id)]
  PROVE  Becoming(w, Post(r, job, id)) /\ Post(r, job, id).save = app[w].save
<1> DEFINE message == [job |-> job, id |-> id]
           q == Post(r, job, id)
<1>1. app[w] \in Process /\ Consistent(app[w])
  BY SameRecord
<1>2. /\ r \in Process /\ r.up = app[w].up /\ r.own = app[w].own /\ r.listed = app[w].listed
      /\ r.save = app[w].save /\ r.importing = app[w].importing /\ r.posted = app[w].posted
      /\ job # "import" => r.package = app[w].package
  BY <1>1 DEF Process
<1>3. message \in Posted /\ message.job = job
  BY DEF Posted
<1>4. q = [r EXCEPT !.posted = Append(r.posted, message)]
  BY DEF Post
<1> HIDE DEF message
<1>5. r.posted \in Seq(Posted) /\ Append(r.posted, message) \in Seq(Posted)
  BY <1>2, <1>3 DEF Process
<1>6. /\ q \in Process /\ q.up = r.up /\ q.own = r.own /\ q.listed = r.listed
      /\ q.save = r.save /\ q.importing = r.importing /\ q.package = r.package
      /\ q.posted = Append(r.posted, message)
  BY <1>2, <1>4, <1>5 DEF Process
<1> HIDE DEF q
<1>7. job = "import" => Waiting(q)
  <2>1. Len(r.posted) + 1 \in DOMAIN q.posted /\ q.posted[Len(r.posted) + 1] = message
    BY <1>5, <1>6
  <2> QED
    BY <1>3, <2>1 DEF Waiting
<1>8. Waiting(r) => Waiting(q)
  <2>1. \A i \in DOMAIN r.posted : i \in DOMAIN q.posted /\ q.posted[i] = r.posted[i]
    BY <1>5, <1>6
  <2> QED
    BY <2>1 DEF Waiting
<1>9. Consistent(q)
  BY <1>1, <1>2, <1>6, <1>7, <1>8 DEF Consistent, Undoable, Waiting
<1>10. app' = [app EXCEPT ![w] = q]
  BY DEF q
<1> QED
  BY <1>2, <1>6, <1>9, <1>10 DEF Becoming, q

LEMMA ImportEnded ==
  ASSUME IInv, NEW w \in Windows, NEW id \in Ids \cup {None}, ImportEnds(w, id)
  PROVE  \E r : Becoming(w, r) /\ r.save = app[w].save
<1> DEFINE r == [app[w] EXCEPT !.package = None]
<1>1. app' = [app EXCEPT ![w] = Post(r, "import", id)]
  BY DEF ImportEnds
<1> HIDE DEF r
<1>2. Becoming(w, Post(r, "import", id)) /\ Post(r, "import", id).save = app[w].save
  BY <1>1, PostedRecord DEF r
<1> QED
  BY <1>2

(* A past that tells as much. *)
Continued(history) ==
  /\ history \in Past
  /\ past.together => history.together
  /\ past.left => history.left

LEMMA HistoryKept ==
  ASSUME IInv
  PROVE  Continued(past) /\ (MayFail => Continued(Failed))
  BY Counted DEF Continued

(* Another failure is counted, and may leave a directory behind. *)
LEMMA LeftBehind ==
  ASSUME NEW history, Continued(history), NEW n \in 0 .. MaxFailures,
         past' = [history EXCEPT !.failures = n, !.left = TRUE]
  PROVE  PastStep /\ past'.left
<1>1. past' \in Past /\ past'.left /\ past'.together = history.together
  BY DEF Past, Continued
<1> QED
  BY <1>1 DEF PastStep, Continued

(* A directory that is not installed, and not a deletion's, moves on or goes. *)
LEMMA LooseDir ==
  ASSUME IInv, PastStep, NEW w \in Windows, NEW r, Becoming(w, r), r.save = app[w].save,
         UNCHANGED <<file, temp>>, NEW d \in Dirs, disk[d].where # "installed",
         ~Recallable(d), Elsewhere(d), disk' \in [Dirs -> Directory],
         disk'[d].where # "installed" \/ Published(d),
         disk'[d].where # "none" => Sound(disk'[d]),
         disk'[d].where \in {"staging", "deleting"} /\ disk'[d].by = {} =>
           past'.left \/ (disk'[d].where = "deleting" /\ disk'[d].package.crowded)
  PROVE  IInv' /\ DiskStep
<1>1. SoundDirs' /\ LeftoversExplained' /\ DiskStep
  BY OneDir
<1>2. \A e \in Dirs : Recallable(e) => disk'[e] = disk[e]
  BY DEF Elsewhere
<1> QED
  BY <1>1, <1>2, SameRecord, JobStep

LEMMA ImportFailsStep ==
  ASSUME IInv, NEW w \in Windows, NEW d \in Dirs, Staging(w, d), NEW history,
         Continued(history), ImportFails(w, d, history), UNCHANGED <<file, temp>>
  PROVE  IInv' /\ DiskStep
<1>1. disk[d].where = "staging" /\ ~Recallable(d)
  BY RecallableDir DEF Staging
<1>2. disk \in [Dirs -> Directory] /\ Sound(disk[d])
  BY <1>1, DirTyped
<1>3. PICK r : Becoming(w, r) /\ r.save = app[w].save
  BY ImportEnded DEF ImportFails
<1>4. CASE disk' = Removed(d) /\ past' = history
  <2>1. PastStep
    BY <1>4 DEF PastStep, Continued
  <2>2. disk' \in [Dirs -> Directory] /\ disk'[d].where = "none" /\ Elsewhere(d)
    BY <1>2, <1>4, RemovedDir DEF Elsewhere
  <2> QED
    BY <1>1, <1>3, <2>1, <2>2, LooseDir
<1>5. CASE /\ history.failures < MaxFailures /\ disk' = Renamed(d, "staging", {})
           /\ past' = [history EXCEPT !.failures = @ + 1, !.left = TRUE]
  <2>1. PastStep /\ past'.left
    <3> DEFINE n == history.failures + 1
    <3>1. n \in 0 .. MaxFailures
      BY <1>5, BoundsAssumption DEF Continued, Past
    <3>2. past' = [history EXCEPT !.failures = n, !.left = TRUE]
      BY <1>5
    <3> HIDE DEF n
    <3> QED
      BY <3>1, <3>2, LeftBehind
  <2>2. /\ disk' \in [Dirs -> Directory] /\ disk'[d].where = "staging" /\ disk'[d].by = {}
        /\ disk'[d].package = disk[d].package /\ disk'[d].content = disk[d].content
        /\ Elsewhere(d)
    BY <1>2, <1>5, RenamedDir DEF Where, Elsewhere
  <2>3. Sound(disk'[d])
    BY <1>1, <1>2, <2>2 DEF Sound
  <2> QED
    BY <1>1, <1>3, <2>1, <2>2, <2>3, LooseDir
<1> QED
  BY <1>4, <1>5 DEF ImportFails

LEMMA ImportStageStep ==
  ASSUME IInv, NEW w \in Windows, ImportStage(w) PROVE IInv' /\ DiskStep
<1>1. UNCHANGED <<file, temp>>
  BY DEF ImportStage
<1>2. ASSUME NEW d \in Dirs, d \in Fresh, UNCHANGED <<app, past>>,
             disk' = [disk EXCEPT ![d] = [where |-> "staging", package |-> app[w].package,
                                          content |-> "empty", by |-> {w}]]
      PROVE  IInv' /\ DiskStep
  <2>1. disk[d].where = "none" /\ ~Recallable(d) /\ disk \in [Dirs -> Directory]
    BY <1>2, RecallableDir, DirTyped DEF Fresh
  <2>2. app[w].package \in Known
    BY SameRecord DEF ImportStage, Process, Known
  <2>3. /\ disk' \in [Dirs -> Directory] /\ disk'[d].where = "staging" /\ disk'[d].by = {w}
        /\ disk'[d].content = "empty" /\ disk'[d].package \in Known /\ Elsewhere(d)
    BY <1>2, <2>1, <2>2 DEF Directory, Elsewhere
  <2>4. Sound(disk'[d])
    BY <2>3 DEF Sound
  <2>5. Becoming(w, app[w]) /\ PastStep
    BY <1>2, SameRecord, ThingsStay
  <2> QED
    BY <1>1, <2>1, <2>3, <2>4, <2>5, LooseDir
<1>3. CASE MayFail /\ ImportEnds(w, None) /\ past' = Failed /\ UNCHANGED disk
  <2>1. PICK r : Becoming(w, r) /\ r.save = app[w].save
    BY <1>3, ImportEnded
  <2> QED
    BY <1>1, <1>3, <2>1, SameRecord, HandlerStep, ThingsStay
<1> QED
  BY <1>2, <1>3 DEF ImportStage

(* A step of the job is sound if what it does not refuse is what the content stands for. *)
LEMMA ImportStepStep ==
  ASSUME IInv, NEW w \in Windows, NEW d \in Dirs,
         NEW from \in {"empty", "copied", "whole"}, NEW to \in {"copied", "whole", "checked"},
         NEW refused, ImportStep(w, d, from, to, refused),
         disk[d].where = "staging" /\ disk[d].content = from /\ ~refused =>
           /\ to \in {"copied", "whole"} => disk[d].package.flaw # "archive"
           /\ to = "checked" => disk[d].package.flaw = "none"
  PROVE  IInv' /\ DiskStep
<1>1. Staging(w, d) /\ disk[d].content = from /\ UNCHANGED <<file, temp>>
  BY DEF ImportStep
<1>2. disk[d].where = "staging" /\ w \in disk[d].by /\ ~Recallable(d)
  BY <1>1, RecallableDir DEF Staging
<1>3. disk \in [Dirs -> Directory] /\ Sound(disk[d])
  BY <1>2, DirTyped
<1>4. CASE /\ ~refused /\ UNCHANGED <<app, past>>
           /\ disk' = [disk EXCEPT ![d] = [@ EXCEPT !.content = to]]
  <2>1. /\ disk' \in [Dirs -> Directory] /\ disk'[d].where = "staging"
        /\ disk'[d].by = disk[d].by /\ disk'[d].content = to
        /\ disk'[d].package = disk[d].package /\ Elsewhere(d)
    BY <1>2, <1>3, <1>4 DEF Directory, Elsewhere
  <2>2. Sound(disk'[d])
    BY <1>1, <1>2, <1>3, <1>4, <2>1 DEF Sound
  <2>3. Becoming(w, app[w]) /\ PastStep
    BY <1>4, SameRecord, ThingsStay
  <2>4. disk'[d].by # {}
    BY <1>2, <2>1
  <2> QED
    BY <1>1, <1>2, <2>1, <2>2, <2>3, <2>4, LooseDir
<1>5. CASE ImportFails(w, d, past)
  BY <1>1, <1>5, HistoryKept, ImportFailsStep
<1>6. CASE MayFail /\ ImportFails(w, d, Failed)
  BY <1>1, <1>6, HistoryKept, ImportFailsStep
<1> QED
  BY <1>4, <1>5, <1>6 DEF ImportStep

LEMMA FlawOf ==
  ASSUME IInv, NEW d \in Dirs, disk[d].where # "none"
  PROVE  disk[d].package.flaw \in Flaws
  BY PackagesAssumption DEF IInv, SoundDirs, Sound

LEMMA ImportCopyStep ==
  ASSUME IInv, NEW w \in Windows, NEW d \in Dirs, ImportCopy(w, d) PROVE IInv' /\ DiskStep
<1> DEFINE refused == disk[d].package.flaw = "archive"
<1>1. ImportStep(w, d, "empty", "copied", refused)
  BY DEF ImportCopy
<1>2. ~refused => disk[d].package.flaw # "archive"
  OBVIOUS
<1> HIDE DEF refused
<1> QED
  BY <1>1, <1>2, ImportStepStep

LEMMA ImportExtractStep ==
  ASSUME IInv, NEW w \in Windows, NEW d \in Dirs, ImportExtract(w, d) PROVE IInv' /\ DiskStep
<1> DEFINE refused == disk[d].package.ssf /\ disk[d].package.id \in InstalledIds
<1>1. ImportStep(w, d, "copied", "whole", refused)
  BY DEF ImportExtract
<1>2. disk[d].where = "staging" /\ disk[d].content = "copied" => disk[d].package.flaw # "archive"
  BY DirTyped DEF Sound
<1> HIDE DEF refused
<1> QED
  BY <1>1, <1>2, ImportStepStep

LEMMA ImportCheckStep ==
  ASSUME IInv, NEW w \in Windows, NEW d \in Dirs, ImportCheck(w, d) PROVE IInv' /\ DiskStep
<1> DEFINE refused == disk[d].package.flaw \in {"tree", "manifest", "assets"}
<1>1. ImportStep(w, d, "whole", "checked", refused)
  BY DEF ImportCheck
<1>2. disk[d].where = "staging" /\ disk[d].content = "whole" /\ ~refused =>
        disk[d].package.flaw = "none"
  BY DirTyped, FlawOf DEF Sound, Flaws
<1> HIDE DEF refused
<1> QED
  BY <1>1, <1>2, ImportStepStep

LEMMA ImportPublishStep ==
  ASSUME IInv, NEW w \in Windows, NEW d \in Dirs, ImportPublish(w, d) PROVE IInv' /\ DiskStep
<1> DEFINE id == disk[d].package.id
<1>1. Staging(w, d) /\ disk[d].content = "checked" /\ UNCHANGED <<file, temp>>
  BY DEF ImportPublish
<1>2. disk[d].where = "staging" /\ ~Recallable(d)
  BY <1>1, RecallableDir DEF Staging
<1>3. disk \in [Dirs -> Directory] /\ Sound(disk[d])
  BY <1>2, DirTyped
<1>4. CASE /\ id \notin InstalledIds /\ disk' = Renamed(d, "installed", {})
           /\ ImportEnds(w, id) /\ UNCHANGED past
  <2>1. /\ disk' \in [Dirs -> Directory] /\ disk'[d].where = "installed" /\ disk'[d].by = {}
        /\ disk'[d].package = disk[d].package /\ disk'[d].content = disk[d].content
        /\ Elsewhere(d)
    BY <1>3, <1>4, RenamedDir DEF Where, Elsewhere
  <2>2. Sound(disk'[d]) /\ Published(d)
    BY <1>1, <1>2, <1>3, <1>4, <2>1 DEF Sound, Published
  <2>3. id \in Ids
    BY <1>2, <1>3, PackagesAssumption DEF Sound
  <2>4. PICK r : Becoming(w, r) /\ r.save = app[w].save
    BY <1>4, <2>3, ImportEnded
  <2>5. PastStep
    BY <1>4, ThingsStay
  <2> QED
    BY <1>1, <1>2, <2>1, <2>2, <2>4, <2>5, LooseDir
<1>5. CASE ImportFails(w, d, past)
  BY <1>1, <1>5, HistoryKept, ImportFailsStep
<1>6. CASE MayFail /\ ImportFails(w, d, Failed)
  BY <1>1, <1>6, HistoryKept, ImportFailsStep
<1> QED
  BY <1>4, <1>5, <1>6 DEF ImportPublish

LEMMA RemoveTreeStep ==
  ASSUME IInv, NEW w \in Windows, NEW d \in Dirs, RemoveTree(w, d) PROVE IInv' /\ DiskStep
<1>1. disk[d].where = "deleting" /\ w \in disk[d].by /\ app[w].save.dir # d
      /\ UNCHANGED <<file, temp>>
  BY DEF RemoveTree, Deleting
<1>2. ~Recallable(d)
  BY <1>1 DEF IInv, Recallable, Deletions
<1>3. disk \in [Dirs -> Directory] /\ Sound(disk[d])
  BY <1>1, DirTyped
<1>4. CASE /\ UNCHANGED <<app, past>>
           /\ disk' = [disk EXCEPT ![d] = [@ EXCEPT !.content = "partial"]]
  <2>1. /\ disk' \in [Dirs -> Directory] /\ disk'[d].where = "deleting"
        /\ disk'[d].by = disk[d].by /\ disk'[d].content = "partial"
        /\ disk'[d].package = disk[d].package /\ Elsewhere(d)
    BY <1>1, <1>3, <1>4 DEF Directory, Elsewhere
  <2>2. Sound(disk'[d]) /\ disk'[d].by # {}
    BY <1>1, <1>3, <2>1 DEF Sound
  <2>3. Becoming(w, app[w]) /\ PastStep
    BY <1>4, SameRecord, ThingsStay
  <2> QED
    BY <1>1, <1>2, <2>1, <2>2, <2>3, LooseDir
<1>5. ASSUME app' = [app EXCEPT ![w] = Post(@, "removal", None)]
      PROVE  \E r : Becoming(w, r) /\ r.save = app[w].save
  <2>1. app' = [app EXCEPT ![w] = Post(app[w], "removal", None)]
    BY <1>5
  <2> QED
    BY <2>1, PostedRecord
<1>6. CASE /\ disk' = Removed(d) /\ UNCHANGED past
           /\ app' = [app EXCEPT ![w] = Post(@, "removal", None)]
  <2>1. disk' \in [Dirs -> Directory] /\ disk'[d].where = "none" /\ Elsewhere(d)
    BY <1>3, <1>6, RemovedDir DEF Elsewhere
  <2>2. PICK r : Becoming(w, r) /\ r.save = app[w].save
    BY <1>5, <1>6
  <2> QED
    BY <1>1, <1>2, <1>6, <2>1, <2>2, LooseDir, ThingsStay
<1>7. CASE /\ disk' = Renamed(d, "deleting", {}) /\ PastStep
           /\ past'.left \/ disk[d].package.crowded
           /\ app' = [app EXCEPT ![w] = Post(@, "removal", None)]
  <2>1. /\ disk' \in [Dirs -> Directory] /\ disk'[d].where = "deleting" /\ disk'[d].by = {}
        /\ disk'[d].package = disk[d].package /\ disk'[d].content = disk[d].content
        /\ Elsewhere(d)
    BY <1>3, <1>7, RenamedDir DEF Where, Elsewhere
  <2>2. Sound(disk'[d])
    BY <1>1, <1>3, <2>1 DEF Sound
  <2>3. PICK r : Becoming(w, r) /\ r.save = app[w].save
    BY <1>5, <1>7
  <2> QED
    BY <1>1, <1>2, <1>7, <2>1, <2>2, <2>3, LooseDir
<1>8. UNCHANGED past => PastStep
  BY ThingsStay
<1>9. MayFail /\ past' = [Failed EXCEPT !.left = TRUE] => PastStep /\ past'.left
  BY Counted DEF PastStep, Past
<1> QED
  BY <1>4, <1>6, <1>7, <1>8, <1>9 DEF RemoveTree

(* A process ends: its handles close, and what it was about to bring back stays away. *)
LEMMA ReleasedStep ==
  ASSUME IInv, PastStep, NEW w \in Procs, Becoming(w, Closed), disk' = Released(w),
         past'.left \/ \A d \in Dirs : w \in disk[d].by => disk[d].where = "installed"
  PROVE  /\ disk' \in [Dirs -> Directory] /\ SoundDirs' /\ LeftoversExplained'
         /\ DiskStep /\ OneAtAPath' /\ Deletions'
<1>1. disk \in [Dirs -> Directory]
  BY DEF IInv, TypeOK
<1>2. /\ disk' \in [Dirs -> Directory]
      /\ \A d \in Dirs : /\ disk'[d].where = disk[d].where
                         /\ disk'[d].package = disk[d].package
                         /\ disk'[d].content = disk[d].content
                         /\ disk'[d].by = disk[d].by \ {w}
  BY <1>1, ReleasedDirs
<1>3. ASSUME NEW d \in Dirs, disk'[d].where # "none" PROVE Sound(disk'[d])
  <2>1. Sound(disk[d])
    BY <1>2, <1>3, DirTyped
  <2>2. (\E v \in Windows : disk[d].by = {v}) =>
          disk'[d].by = {} \/ \E v \in Windows : disk'[d].by = {v}
    BY <1>2
  <2>3. disk[d].by = {} => disk'[d].by = {}
    BY <1>2
  <2> QED
    BY <1>2, <2>1, <2>2, <2>3 DEF Sound
<1>4. ASSUME NEW d \in Dirs, disk'[d].where \in {"staging", "deleting"}, disk'[d].by = {}
      PROVE  past'.left \/ (disk'[d].where = "deleting" /\ disk'[d].package.crowded)
  <2>1. CASE w \in disk[d].by
    BY <1>2, <1>4, <2>1
  <2>2. CASE w \notin disk[d].by
    BY <1>2, <1>4, <2>2 DEF IInv, LeftoversExplained, PastStep
  <2> QED
    BY <2>1, <2>2
<1>5. DiskStep
  BY <1>2 DEF DiskStep, Kept
<1>6. OneAtAPath'
  BY <1>2, <1>5, PathsKept
<1>7. Deletions'
  <2> SUFFICES ASSUME NEW q \in Procs, app'[q].save.caller = "deletion"
               PROVE  /\ app'[q].save.dir \in Dirs
                      /\ disk'[app'[q].save.dir].where = "deleting"
                      /\ disk'[app'[q].save.dir].content = "checked"
                      /\ disk'[app'[q].save.dir].by = {q}
    BY DEF Deletions, Deletion
  <2>1. app'[w] = Closed /\ \A p \in Procs \ {w} : app'[p] = app[p]
    BY AppTyped
  <2>2. q # w
    BY <2>1, ClosedConsistent DEF Calm
  <2>3. app'[q] = app[q] /\ Deletion(q)
    BY <2>1, <2>2 DEF Deletion
  <2>4. /\ app[q].save.dir \in Dirs
        /\ disk[app[q].save.dir].where = "deleting"
        /\ disk[app[q].save.dir].content = "checked"
        /\ disk[app[q].save.dir].by = {q}
    BY <2>3 DEF IInv, Deletions
  <2> QED
    BY <1>2, <2>2, <2>3, <2>4
<1> QED
  BY <1>2, <1>3, <1>4, <1>5, <1>6, <1>7 DEF SoundDirs, LeftoversExplained, Sound

LEMMA CrashStep ==
  ASSUME IInv, NEW w \in Windows, Crash(w) PROVE IInv' /\ DiskStep
<1> DEFINE held == \E d \in Dirs : disk[d].where # "installed" /\ w \in disk[d].by
<1>1. w \in Procs /\ app' = [app EXCEPT ![w] = Closed] /\ disk' = Released(w) /\ UNCHANGED file
  BY DEF Crash, Procs
<1>2. Becoming(w, Closed) /\ Calm(Closed)
  BY <1>1, ClosedConsistent DEF Becoming
<1>3. PastStep /\ past'.left = (past.left \/ held)
  <2>1. \E fresh \in [Procs -> BOOLEAN], cut \in BOOLEAN :
          past' = [Acted EXCEPT !.fresh = fresh, !.cut = cut, !.left = past.left \/ held]
    BY <1>1, Counted DEF Crash, Past
  <2>2. Acted \in Past /\ Acted.together = past.together /\ Acted.left = past.left
    BY Counted DEF Crash
  <2>3. past.left \in BOOLEAN /\ held \in BOOLEAN
    BY Counted DEF Past
  <2> HIDE DEF held
  <2> QED
    BY <2>1, <2>2, <2>3 DEF PastStep, Past
<1>4. /\ disk' \in [Dirs -> Directory] /\ SoundDirs' /\ LeftoversExplained'
      /\ DiskStep /\ OneAtAPath' /\ Deletions'
  BY <1>1, <1>2, <1>3, ReleasedStep
<1>5. /\ temp' \in [{"app", "broker"} -> TempFile]
      /\ \A t \in {"app", "broker"} : /\ temp'[t].value = temp[t].value
                                      /\ temp'[t].mixed = temp[t].mixed
  BY DEF Crash, IInv, TypeOK, TempFile
<1>6. (~past.together => Unmixed)'
  BY <1>1, <1>2, <1>3, <1>5, FilesKept DEF Calm
<1>7. /\ app' \in [Procs -> Process] /\ InMenu(app'[Broker])
      /\ \A q \in Procs : Consistent(app'[q])
  BY <1>1, <1>2, AppTyped
<1>8. TypeOK'
  BY <1>1, <1>3, <1>4, <1>5, <1>7 DEF IInv, TypeOK, PastStep
<1> QED
  BY <1>4, <1>6, <1>7, <1>8 DEF IInv, Consistent, InMenu

------------------------------------------------------------------------------
(***************************************************************************)
(* The save, and what its callers do with its result.                      *)
(***************************************************************************)
Returned(p) ==
  /\ \E r : Becoming(p, r) /\ Calm(r)
  /\ PastStep
  /\ disk' \in [Dirs -> Directory] /\ SoundDirs' /\ LeftoversExplained'
  /\ DiskStep /\ OneAtAPath' /\ Deletions'

LEMMA ReturnedSame ==
  ASSUME IInv, PastStep, NEW p \in Procs, NEW r, Becoming(p, r), Calm(r), UNCHANGED disk
  PROVE  Returned(p)
<1>1. disk' \in [Dirs -> Directory] /\ SoundDirs' /\ LeftoversExplained' /\ DiskStep
  BY NoDir
<1>2. OneAtAPath' /\ Deletions'
  BY <1>1, PathsKept, DeletionsKept
<1> QED
  BY <1>1, <1>2 DEF Returned

(* The record of a process whose save has returned. *)
AfterSave(p) ==
  [app[p] EXCEPT !.save = NoSave, !.own = IF p = Broker THEN DefaultSettings ELSE @]

LEMMA AfterSaveRecord ==
  ASSUME IInv, NEW p \in Procs
  PROVE  LET r == AfterSave(p)
         IN  /\ Framed(r, app[p]) /\ r.listed = app[p].listed /\ r.save = NoSave
             /\ p \in Windows => r.own = app[p].own
             /\ p \notin Windows => r.own = DefaultSettings
             /\ Consistent(r) /\ Calm(r) /\ (p \in Windows \/ InMenu(r))
             /\ r.importing => r.package # None \/ Waiting(r)
<1> DEFINE own == IF p = Broker THEN DefaultSettings ELSE app[p].own
           r == AfterSave(p)
<1>1. /\ app[p] \in Process /\ Consistent(app[p]) /\ (p \in Windows => p # Broker)
      /\ p \notin Windows => p = Broker /\ InMenu(app[p])
  BY ProcessesAssumption DEF IInv, TypeOK, Procs
<1>2. /\ own \in Settings
      /\ p \in Windows => own = app[p].own
      /\ p \notin Windows => own = DefaultSettings
  BY <1>1 DEF Process, DefaultSettings, Settings, Themes, CharacterSets
<1>3. r = [app[p] EXCEPT !.save = NoSave, !.own = own]
  BY DEF AfterSave
<1> HIDE DEF own
<1>4. /\ Framed(r, app[p]) /\ r.own = own /\ r.listed = app[p].listed /\ r.save = NoSave
  BY <1>1, <1>2, <1>3, NoSaveTyped DEF Process, Framed
<1> HIDE DEF r
<1>5. Consistent(r)
  BY <1>1, <1>2, <1>4, NoSaveTyped DEF Consistent, Framed, Undoable, Waiting, InMenu
<1>6. Calm(r) /\ (p \in Windows \/ InMenu(r))
  BY <1>1, <1>4, NoSaveTyped DEF Calm, InMenu, Framed
<1> QED
  BY <1>2, <1>4, <1>5, <1>6 DEF r, Consistent

(* Another deletion keeps its directory: no two wait for one. *)
LEMMA DeletionEnded ==
  ASSUME IInv, NEW p \in Procs, Deletion(p), NEW r, Becoming(p, r), Calm(r),
         Elsewhere(app[p].save.dir)
  PROVE  Deletions'
<1>1. app'[p] = r /\ \A q \in Procs \ {p} : app'[q] = app[q]
  BY AppTyped
<1>2. \A q \in Procs : Deletion(q) =>
        /\ app[q].save.dir \in Dirs
        /\ disk[app[q].save.dir].where = "deleting"
        /\ disk[app[q].save.dir].content = "checked"
        /\ disk[app[q].save.dir].by = {q}
  BY DEF IInv, Deletions
<1> SUFFICES ASSUME NEW q \in Procs, app'[q].save.caller = "deletion"
             PROVE  /\ app'[q].save.dir \in Dirs
                    /\ disk'[app'[q].save.dir].where = "deleting"
                    /\ disk'[app'[q].save.dir].content = "checked"
                    /\ disk'[app'[q].save.dir].by = {q}
  BY DEF Deletions, Deletion
<1>3. q # p /\ app'[q] = app[q] /\ Deletion(q)
  BY <1>1 DEF Calm, Deletion
<1>4. app[q].save.dir # app[p].save.dir
  BY <1>2, <1>3
<1>5. disk'[app[q].save.dir] = disk[app[q].save.dir]
  BY <1>2, <1>3, <1>4 DEF Elsewhere
<1> QED
  BY <1>2, <1>3, <1>5

(* The directory comes back under its identifier, or stays away. *)
LEMMA ReturnedDir ==
  ASSUME IInv, PastStep, NEW p \in Procs, Deletion(p), NEW r, Becoming(p, r), Calm(r),
         NEW where \in {"installed", "deleting"},
         disk' = Renamed(app[p].save.dir, where, {}),
         where = "installed" => disk[app[p].save.dir].package.id \notin InstalledIds,
         where = "deleting" => past'.left
  PROVE  Returned(p)
<1> DEFINE d == app[p].save.dir
<1>1. d \in Dirs /\ disk[d].where = "deleting" /\ disk[d].content = "checked"
  BY DEF IInv, Deletions
<1> HIDE DEF d
<1>2. disk \in [Dirs -> Directory] /\ Sound(disk[d])
  BY <1>1, DirTyped
<1>3. /\ disk' \in [Dirs -> Directory] /\ disk'[d].where = where /\ disk'[d].by = {}
      /\ disk'[d].package = disk[d].package /\ disk'[d].content = disk[d].content
      /\ Elsewhere(d)
  BY <1>1, <1>2, RenamedDir DEF Where, Elsewhere, d
<1>4. Sound(disk'[d])
  BY <1>1, <1>2, <1>3 DEF Sound
<1>5. where = "installed" => Published(d)
  BY <1>1, <1>3 DEF Published, d
<1>6. SoundDirs' /\ LeftoversExplained' /\ DiskStep
  BY <1>1, <1>3, <1>4, <1>5, OneDir
<1>7. OneAtAPath'
  BY <1>3, <1>6, PathsKept
<1>8. Deletions'
  BY <1>3, DeletionEnded DEF d
<1> QED
  BY <1>3, <1>6, <1>7, <1>8 DEF Returned

(* The save is undone: the selection returns to what it was. *)
Undone(p) ==
  [AfterSave(p) EXCEPT !.own = [@ EXCEPT !.theme = app[p].save.before.theme]]

LEMMA UndoneRecord ==
  ASSUME IInv, NEW p \in Procs, app[p].save.caller \in {"select", "deletion"}
  PROVE  LET r == Undone(p)
         IN  /\ Framed(r, app[p]) /\ r.save = NoSave /\ p \in Windows
             /\ r.importing => r.package # None \/ Waiting(r)
             /\ app[p].save.caller = "select" => Consistent(r) /\ Calm(r)
<1> DEFINE q == AfterSave(p)
           own == [q.own EXCEPT !.theme = app[p].save.before.theme]
           r == Undone(p)
<1>1. /\ Consistent(app[p]) /\ app[p].save.before \in Settings
      /\ app[p].save.before.theme \in Themes
  BY DEF IInv, Consistent, Undoable, Settings
<1>2. /\ Framed(q, app[p]) /\ q.listed = app[p].listed /\ q.save = NoSave /\ Consistent(q)
      /\ q.importing => q.package # None \/ Waiting(q)
  BY AfterSaveRecord
<1>3. p \in Windows
  BY DEF Procs, IInv, InMenu
<1> HIDE DEF q
<1>4. own \in Settings /\ own.theme = app[p].save.before.theme
  BY <1>1, <1>2, ThemeSet DEF Framed, Process
<1>5. r = [q EXCEPT !.own = own]
  BY DEF Undone, q
<1> HIDE DEF own, r
<1>6. /\ Framed(r, q) /\ r.own = own /\ r.listed = q.listed /\ r.save = NoSave
  BY <1>2, <1>4, <1>5, OwnSet DEF Framed
<1>7. Framed(r, app[p]) /\ (r.importing => r.package # None \/ Waiting(r))
  BY <1>2, <1>6 DEF Framed, Waiting
<1>8. ASSUME app[p].save.caller = "select" PROVE Consistent(r) /\ Calm(r)
  BY <1>1, <1>2, <1>4, <1>6, <1>7, <1>8, NoSaveTyped
     DEF Consistent, Framed, Undoable, Calm
<1> QED
  BY <1>3, <1>6, <1>7, <1>8 DEF r

LEMMA ReturnedSelect ==
  ASSUME IInv, NEW p \in Procs, NEW done, app[p].save.caller = "select", PastStep,
         app' = [app EXCEPT ![p] = IF done THEN AfterSave(p) ELSE Undone(p)], UNCHANGED disk
  PROVE  Returned(p)
<1>1. CASE done
  BY <1>1, AfterSaveRecord, ReturnedSame DEF Becoming, Framed
<1>2. CASE ~done
  BY <1>2, UndoneRecord, ReturnedSame DEF Becoming, Framed
<1> QED
  BY <1>1, <1>2

LEMMA ReturnedReset ==
  ASSUME IInv, NEW p \in Procs, NEW done, app[p].save.caller = "reset", PastStep,
         app' = [app EXCEPT ![p] = IF done THEN AfterSave(p)
                                   ELSE [AfterSave(p) EXCEPT !.own = app[p].save.before]],
         UNCHANGED disk
  PROVE  Returned(p)
<1> DEFINE q == AfterSave(p)
           r == [q EXCEPT !.own = app[p].save.before]
<1>1. /\ Framed(q, app[p]) /\ q.listed = app[p].listed /\ q.save = NoSave
      /\ Consistent(q) /\ Calm(q) /\ (p \in Windows \/ InMenu(q))
  BY AfterSaveRecord
<1>2. p \in Windows
  BY DEF Procs, IInv, InMenu
<1>3. CASE done
  BY <1>1, <1>3, ReturnedSame DEF Becoming, Framed
<1>4. CASE ~done
  <2>1. Consistent(app[p]) /\ app[p].save.before \in Settings
    BY DEF IInv, Consistent, Undoable
  <2>2. app' = [app EXCEPT ![p] = r]
    BY <1>4
  <2> HIDE DEF q
  <2>3. /\ Framed(r, q) /\ r.own = app[p].save.before /\ r.listed = q.listed
        /\ r.save = NoSave
    BY <1>1, <2>1, OwnSet DEF Framed
  <2> HIDE DEF r
  <2>4. Consistent(r) /\ Calm(r)
    BY <1>1, <2>1, <2>3, NoSaveTyped DEF Consistent, Framed, Undoable, Calm, Waiting
  <2>5. Becoming(p, r)
    BY <1>2, <2>2, <2>3, <2>4 DEF Becoming, Framed
  <2> QED
    BY <2>4, <2>5, ReturnedSame
<1> QED
  BY <1>3, <1>4

(* The catalog is read again, from the record the save has left. *)
LEMMA ReloadedAfter ==
  ASSUME IInv, NEW p \in Windows, NEW q, Framed(q, app[p]), q.save = NoSave,
         q.importing => q.package # None \/ Waiting(q), NEW ids \in SUBSET Ids,
         app' = [app EXCEPT ![p] = ReloadThemeCatalog(q, ids, None)]
  PROVE  Becoming(p, ReloadThemeCatalog(q, ids, None)) /\ Calm(ReloadThemeCatalog(q, ids, None))
  BY Reloaded DEF Becoming, Framed

LEMMA ReturnedDeletion ==
  ASSUME IInv, NEW p \in Procs, NEW history, Continued(history), Deletion(p),
         \/ /\ app' = [app EXCEPT ![p] = ReloadThemeCatalog(AfterSave(p), InstalledIds, None)]
            /\ UNCHANGED disk /\ past' = history
         \/ LET d == app[p].save.dir
                id == disk[d].package.id
            IN  /\ id \notin InstalledIds
                /\ disk' = Renamed(d, "installed", {})
                /\ app' = [app EXCEPT ![p] =
                     ReloadThemeCatalog(Undone(p), InstalledIds \cup {id}, None)]
                /\ past' = history
         \/ LET d == app[p].save.dir
                id == disk[d].package.id
            IN  /\ id \in InstalledIds \/ history.failures < MaxFailures
                /\ disk' = Renamed(d, "deleting", {})
                /\ app' = [app EXCEPT ![p] = ReloadThemeCatalog(Undone(p), InstalledIds, None)]
                /\ past' = [history EXCEPT !.left = TRUE, !.failures =
                              IF id \in InstalledIds THEN @ ELSE @ + 1]
  PROVE  Returned(p)
<1> DEFINE d == app[p].save.dir
           id == disk[d].package.id
<1>1. p \in Windows
  BY DEF Procs, IInv, InMenu, Deletion
<1>2. d \in Dirs /\ disk[d].where = "deleting"
  BY DEF IInv, Deletions
<1>3. id \in Ids
  BY <1>2, DirTyped, PackagesAssumption DEF Sound
<1>4. InstalledIds \in SUBSET Ids /\ InstalledIds \cup {id} \in SUBSET Ids
  BY <1>3, IdsInstalled
<1> HIDE DEF d, id
<1>5. past' = history => PastStep
  BY DEF PastStep, Continued
<1>6. CASE /\ app' = [app EXCEPT ![p] = ReloadThemeCatalog(AfterSave(p), InstalledIds, None)]
           /\ UNCHANGED disk /\ past' = history
  <2> DEFINE r == ReloadThemeCatalog(AfterSave(p), InstalledIds, None)
  <2>1. Becoming(p, r) /\ Calm(r)
    BY <1>1, <1>4, <1>6, AfterSaveRecord, ReloadedAfter
  <2> HIDE DEF r
  <2> QED
    BY <1>5, <1>6, <2>1, ReturnedSame
<1>7. CASE /\ id \notin InstalledIds /\ disk' = Renamed(d, "installed", {}) /\ past' = history
           /\ app' = [app EXCEPT ![p] =
                ReloadThemeCatalog(Undone(p), InstalledIds \cup {id}, None)]
  <2> DEFINE r == ReloadThemeCatalog(Undone(p), InstalledIds \cup {id}, None)
  <2>1. Becoming(p, r) /\ Calm(r)
    BY <1>1, <1>4, <1>7, UndoneRecord, ReloadedAfter DEF Deletion
  <2> HIDE DEF r
  <2> QED
    BY <1>5, <1>7, <2>1, ReturnedDir DEF d, id
<1>8. CASE /\ id \in InstalledIds \/ history.failures < MaxFailures
           /\ disk' = Renamed(d, "deleting", {})
           /\ app' = [app EXCEPT ![p] = ReloadThemeCatalog(Undone(p), InstalledIds, None)]
           /\ past' = [history EXCEPT !.left = TRUE, !.failures =
                         IF id \in InstalledIds THEN @ ELSE @ + 1]
  <2> DEFINE r == ReloadThemeCatalog(Undone(p), InstalledIds, None)
             n == IF id \in InstalledIds THEN history.failures ELSE history.failures + 1
  <2>1. Becoming(p, r) /\ Calm(r)
    BY <1>1, <1>4, <1>8, UndoneRecord, ReloadedAfter DEF Deletion
  <2>2. n \in 0 .. MaxFailures
    BY <1>8, BoundsAssumption DEF Continued, Past
  <2>3. past' = [history EXCEPT !.failures = n, !.left = TRUE]
    BY <1>8 DEF Continued, Past
  <2> HIDE DEF r, n
  <2>4. PastStep /\ past'.left
    BY <2>2, <2>3, LeftBehind
  <2> QED
    BY <1>8, <2>1, <2>4, ReturnedDir DEF d
<1> QED
  BY <1>6, <1>7, <1>8 DEF d, id

LEMMA ReturnedFallback ==
  ASSUME IInv, NEW p \in Procs, app[p].save.caller = "fallback", PastStep, UNCHANGED disk,
         app' = [app EXCEPT ![p] = SelectTheme(AfterSave(p), app[p].save.next)]
  PROVE  Returned(p)
<1> DEFINE q == AfterSave(p)
           r == SelectTheme(q, app[p].save.next)
<1>1. p \in Windows
  BY DEF Procs, IInv, InMenu
<1>2. app[p].save.next \in Themes \cup {None}
  BY DEF IInv, TypeOK, Process, Save
<1>3. q \in Process /\ Consistent(q) /\ Calm(q)
  BY AfterSaveRecord DEF Framed
<1> HIDE DEF q
<1>4. Becoming(p, r) /\ Calm(r)
  BY <1>1, <1>2, <1>3, Selected DEF Becoming, Framed, q
<1> HIDE DEF r
<1> QED
  BY <1>4, ReturnedSame

LEMMA ReturnedClosing ==
  ASSUME IInv, NEW p \in Procs, app[p].save.caller = "closing", NEW history,
         Continued(history), app' = [app EXCEPT ![p] = Closed], disk' = Released(p),
         past' = [history EXCEPT !.fresh = [@ EXCEPT ![p] = FALSE],
              !.left = @ \/ \E d \in Dirs : disk[d].where # "installed" /\ p \in disk[d].by]
  PROVE  Returned(p)
<1> DEFINE held == \E d \in Dirs : disk[d].where # "installed" /\ p \in disk[d].by
<1>1. p \in Windows
  BY DEF Procs, IInv, InMenu
<1>2. Becoming(p, Closed) /\ Calm(Closed)
  BY <1>1, ClosedConsistent DEF Becoming
<1>3. PastStep /\ past'.left = (history.left \/ held)
  <2>1. history \in Past /\ held \in BOOLEAN
    BY DEF Continued
  <2>2. PICK fresh \in [Procs -> BOOLEAN] :
          past' = [history EXCEPT !.fresh = fresh, !.left = history.left \/ held]
    BY <2>1 DEF Past
  <2> HIDE DEF held
  <2> QED
    BY <2>1, <2>2 DEF PastStep, Past, Continued
<1>4. /\ disk' \in [Dirs -> Directory] /\ SoundDirs' /\ LeftoversExplained'
      /\ DiskStep /\ OneAtAPath' /\ Deletions'
  BY <1>2, <1>3, ReleasedStep
<1> QED
  BY <1>2, <1>3, <1>4 DEF Returned

LEMMA ReturnsStep ==
  ASSUME IInv, NEW p \in Procs, NEW done, NEW history, Continued(history),
         Returns(p, done, history)
  PROVE  Returned(p)
<1> DEFINE s == app[p].save
           r == [app[p] EXCEPT !.save = NoSave,
                               !.own = IF p = Broker THEN DefaultSettings ELSE @]
           undone == [r EXCEPT !.own = [@ EXCEPT !.theme = s.before.theme]]
<1>1. past' = history => PastStep
  BY DEF PastStep, Continued
<1>2. r = AfterSave(p) /\ undone = Undone(p)
  BY DEF AfterSave, Undone
<1>3. CASE /\ s.caller = "plain" /\ app' = [app EXCEPT ![p] = r]
           /\ UNCHANGED disk /\ past' = history
  BY <1>1, <1>2, <1>3, AfterSaveRecord, ReturnedSame DEF Becoming, Framed
<1>4. CASE /\ s.caller = "fallback" /\ app' = [app EXCEPT ![p] = SelectTheme(r, s.next)]
           /\ UNCHANGED disk
           /\ past' = [history EXCEPT !.crossed = @ \/ Stale(r, s.next)]
  <2>1. history \in Past /\ Stale(r, s.next) \in BOOLEAN
    BY DEF Continued, Stale
  <2>2. \E x \in BOOLEAN : past' = [history EXCEPT !.crossed = x]
    BY <1>4, <2>1 DEF Past
  <2>3. PastStep
    BY <2>1, <2>2 DEF PastStep, Continued, Past
  <2> QED
    BY <1>2, <1>4, <2>3, ReturnedFallback
<1>5. CASE /\ s.caller = "select" /\ app' = [app EXCEPT ![p] = IF done THEN r ELSE undone]
           /\ UNCHANGED disk /\ past' = history
  BY <1>1, <1>2, <1>5, ReturnedSelect
<1>6. CASE /\ s.caller = "reset"
           /\ app' = [app EXCEPT ![p] = IF done THEN r ELSE [r EXCEPT !.own = s.before]]
           /\ UNCHANGED disk /\ past' = history
  BY <1>1, <1>2, <1>6, ReturnedReset
<1>7. CASE /\ s.caller = "closing" /\ app' = [app EXCEPT ![p] = Closed] /\ disk' = Released(p)
           /\ past' = [history EXCEPT !.fresh = [@ EXCEPT ![p] = FALSE],
                !.left = @ \/ \E d \in Dirs : disk[d].where # "installed" /\ p \in disk[d].by]
  BY <1>7, ReturnedClosing
<1>8. CASE /\ s.caller = "deletion"
           /\ app' = [app EXCEPT ![p] = ReloadThemeCatalog(r, InstalledIds, None)]
           /\ UNCHANGED disk /\ past' = history
  BY <1>2, <1>8, ReturnedDeletion DEF Deletion
<1>9. CASE /\ s.caller = "deletion"
           /\ disk[s.dir].package.id \notin InstalledIds
           /\ disk' = Renamed(s.dir, "installed", {})
           /\ app' = [app EXCEPT ![p] =
                ReloadThemeCatalog(undone, InstalledIds \cup {disk[s.dir].package.id}, None)]
           /\ past' = history
  BY <1>2, <1>9, ReturnedDeletion DEF Deletion
<1>10. CASE /\ s.caller = "deletion"
            /\ disk[s.dir].package.id \in InstalledIds \/ history.failures < MaxFailures
            /\ disk' = Renamed(s.dir, "deleting", {})
            /\ app' = [app EXCEPT ![p] = ReloadThemeCatalog(undone, InstalledIds, None)]
            /\ past' = [history EXCEPT !.left = TRUE, !.failures =
                          IF disk[s.dir].package.id \in InstalledIds THEN @ ELSE @ + 1]
  BY <1>2, <1>10, ReturnedDeletion DEF Deletion
<1> QED
  BY <1>3, <1>4, <1>5, <1>6, <1>7, <1>8, <1>9, <1>10, Zenon DEF Returns

(* Two processes that write at a time have their own temporary files, or are two windows. *)
LEMMA TempNames ==
  ASSUME NEW p \in Procs, NEW q \in Procs, p # q, TempName(p) = TempName(q)
  PROVE  p \in Windows /\ q \in Windows
  BY DEF TempName, Procs

LEMMA TempNamed ==
  ASSUME NEW p \in Procs PROVE TempName(p) \in {"app", "broker"}
  BY DEF TempName

(* The process at work on its temporary file goes on with it. *)
LEMMA FilesWritten ==
  ASSUME IInv, NEW p \in Procs, NEW r, Becoming(p, r), PastStep, Writing(p),
         ~past'.together => ~file'.mixed,
         \A t \in {"app", "broker"} \ {TempName(p)} : temp'[t] = temp[t],
         r.save.step # "write",
         ~past'.together /\ r.save.step = "move" =>
           temp'[TempName(p)].value # None /\ ~temp'[TempName(p)].mixed
  PROVE  (~past.together => Unmixed)'
<1> SUFFICES ASSUME ~past'.together PROVE Unmixed'
  OBVIOUS
<1>1. Unmixed
  BY DEF IInv, PastStep
<1>2. app'[p] = r /\ \A q \in Procs \ {p} : app'[q] = app[q]
  BY AppTyped
<1>3. ASSUME NEW v \in Windows, NEW w \in Windows, Writing(v)', Writing(w)' PROVE v = w
  BY <1>1, <1>2, <1>3 DEF Unmixed, Writing, Procs
<1>4. ASSUME NEW q \in Procs
      PROVE  /\ app'[q].save.step = "write" => temp'[TempName(q)].value = None
             /\ app'[q].save.step = "move" =>
                  temp'[TempName(q)].value # None /\ ~temp'[TempName(q)].mixed
  <2>1. CASE q = p
    BY <1>2, <2>1
  <2>2. CASE q # p /\ app[q].save.step \in {"write", "move"}
    <3>1. TempName(q) # TempName(p)
      BY <1>1, <2>2, TempNames DEF Unmixed, Writing
    <3>2. temp'[TempName(q)] = temp[TempName(q)] /\ app'[q] = app[q]
      BY <1>2, <2>2, <3>1, TempNamed
    <3> QED
      BY <1>1, <3>2 DEF Unmixed
  <2>3. CASE q # p /\ app[q].save.step \notin {"write", "move"}
    BY <1>2, <2>3
  <2> QED
    BY <2>1, <2>2, <2>3
<1> QED
  BY <1>3, <1>4 DEF Unmixed, TempName

(* The invariant, from the save that has returned and its files. *)
LEMMA ReturnedInv ==
  ASSUME IInv, NEW p \in Procs, Returned(p), file' \in SettingsFile,
         temp' \in [{"app", "broker"} -> TempFile], (~past.together => Unmixed)'
  PROVE  IInv' /\ DiskStep
<1>1. PICK r : Becoming(p, r)
  BY DEF Returned
<1>2. /\ app' \in [Procs -> Process] /\ InMenu(app'[Broker])
      /\ \A q \in Procs : Consistent(app'[q])
  BY <1>1, AppTyped
<1>3. /\ PastStep /\ disk' \in [Dirs -> Directory] /\ SoundDirs' /\ LeftoversExplained'
      /\ DiskStep /\ OneAtAPath' /\ Deletions'
  BY DEF Returned
<1>4. TypeOK'
  BY <1>2, <1>3 DEF TypeOK, PastStep
<1> QED
  BY <1>2, <1>3, <1>4 DEF IInv, Consistent, InMenu

(* A save goes on to its next system call. *)
LEMMA NextCall ==
  ASSUME IInv, NEW p \in Procs, app[p].save.step # "none", NEW step \in {"write", "move"},
         app' = [app EXCEPT ![p].save.step = step]
  PROVE  \E r : /\ Becoming(p, r) /\ r.save.step = step
                /\ r.save.caller = app[p].save.caller /\ r.save.dir = app[p].save.dir
                /\ r.own = app[p].own
<1> DEFINE save == [app[p].save EXCEPT !.step = step]
           r == [app[p] EXCEPT !.save = save]
<1>1. app[p] \in Process /\ Consistent(app[p]) /\ (p \in Windows \/ InMenu(app[p]))
  BY DEF IInv, TypeOK, Procs
<1>2. /\ save \in Save /\ save.step = step /\ save.caller = app[p].save.caller
      /\ save.dir = app[p].save.dir /\ save.before = app[p].save.before
  BY <1>1 DEF Process, Save
<1>3. app' = [app EXCEPT ![p] = r]
  OBVIOUS
<1> HIDE DEF save
<1>4. /\ Framed(r, app[p]) /\ r.own = app[p].own /\ r.listed = app[p].listed /\ r.save = save
  BY <1>1, <1>2, SaveSet
<1> HIDE DEF r
<1>5. Consistent(r)
  BY <1>1, <1>2, <1>4 DEF Consistent, Framed, Undoable, Waiting
<1>6. Becoming(p, r)
  BY <1>1, <1>2, <1>3, <1>4, <1>5 DEF Becoming, Framed, InMenu
<1> QED
  BY <1>2, <1>4, <1>6

LEMMA GoesOn ==
  ASSUME IInv, PastStep, NEW p \in Procs, NEW r, Becoming(p, r), UNCHANGED <<disk, file>>,
         r.save.caller = app[p].save.caller, r.save.dir = app[p].save.dir,
         temp' \in [{"app", "broker"} -> TempFile], (~past.together => Unmixed)'
  PROVE  IInv' /\ DiskStep
<1>1. /\ app' \in [Procs -> Process] /\ InMenu(app'[Broker])
      /\ app'[p] = r /\ \A q \in Procs \ {p} : app'[q] = app[q]
      /\ \A q \in Procs : Consistent(app'[q])
  BY AppTyped
<1>2. disk' \in [Dirs -> Directory] /\ SoundDirs' /\ LeftoversExplained' /\ DiskStep
  BY NoDir
<1>3. OneAtAPath'
  BY <1>2, PathsKept
<1>4. Deletions'
  BY <1>1 DEF IInv, Deletions, Deletion
<1>5. TypeOK'
  BY <1>1, <1>2 DEF IInv, TypeOK, PastStep
<1> QED
  BY <1>1, <1>2, <1>3, <1>4, <1>5 DEF IInv, Consistent, InMenu

LEMMA NoFileTyped == NoFile \in TempFile /\ NoFile.value = None /\ ~NoFile.mixed
  BY DEF NoFile, TempFile

LEMMA DroppedTyped ==
  ASSUME IInv, NEW t \in {"app", "broker"}, NEW users \in SUBSET Procs
  PROVE  /\ Dropped(t, users) \in [{"app", "broker"} -> TempFile]
         /\ \A u \in {"app", "broker"} \ {t} : Dropped(t, users)[u] = temp[u]
<1> DEFINE dropped == IF users = {} THEN NoFile ELSE [temp[t] EXCEPT !.users = users]
<1>1. temp \in [{"app", "broker"} -> TempFile]
  BY DEF IInv, TypeOK
<1>2. dropped \in TempFile
  BY <1>1, NoFileTyped DEF TempFile
<1>3. Dropped(t, users) = [temp EXCEPT ![t] = dropped]
  BY DEF Dropped
<1> QED
  BY <1>1, <1>2, <1>3

(* A save that fails, or has moved its file: its writer has finished with it. *)
LEMMA ReturnedFiles ==
  ASSUME IInv, NEW p \in Procs, NEW done, NEW history, Continued(history),
         Returns(p, done, history), Writing(p), file' \in SettingsFile,
         ~past'.together => ~file'.mixed,
         temp' \in [{"app", "broker"} -> TempFile],
         \A t \in {"app", "broker"} \ {TempName(p)} : temp'[t] = temp[t]
  PROVE  IInv' /\ DiskStep
<1>1. Returned(p)
  BY ReturnsStep
<1>2. PICK r : Becoming(p, r) /\ Calm(r)
  BY <1>1 DEF Returned
<1>3. PastStep
  BY <1>1 DEF Returned
<1>4. (~past.together => Unmixed)'
  BY <1>2, <1>3, FilesWritten DEF Calm
<1> QED
  BY <1>1, <1>4, ReturnedInv

LEMMA SaveOpenStep ==
  ASSUME IInv, NEW p \in Procs, SaveOpen(p) PROVE IInv' /\ DiskStep
<1> DEFINE t == TempName(p)
           other == \E q \in Windows \ {p} :
                      p \in Windows /\ app[q].save.step \in {"write", "move"}
<1>1. app[p].save.step = "open" /\ UNCHANGED file
  BY DEF SaveOpen
<1>2. temp \in [{"app", "broker"} -> TempFile] /\ file \in SettingsFile
  BY DEF IInv, TypeOK
<1>3. CASE /\ temp' = [temp EXCEPT ![t] =
                [there |-> TRUE, users |-> @.users \cup {p}, value |-> None, mixed |-> FALSE]]
           /\ app' = [app EXCEPT ![p].save.step = "write"]
           /\ past' = [past EXCEPT !.together = @ \/ other]
           /\ UNCHANGED disk
  <2>1. PICK r : /\ Becoming(p, r) /\ r.save.step = "write"
                 /\ r.save.caller = app[p].save.caller /\ r.save.dir = app[p].save.dir
    BY <1>1, <1>3, NextCall
  <2>2. PastStep /\ past'.together = (past.together \/ other)
    <3>1. past \in Past /\ other \in BOOLEAN
      BY Counted
    <3> HIDE DEF other
    <3> QED
      BY <1>3, <3>1 DEF PastStep, Past
  <2>3. /\ temp' \in [{"app", "broker"} -> TempFile]
        /\ temp'[t].value = None /\ ~temp'[t].mixed
        /\ \A u \in {"app", "broker"} \ {t} : temp'[u] = temp[u]
    BY <1>2, <1>3, TempNamed DEF TempFile
  <2>4. app'[p] = r /\ \A q \in Procs \ {p} : app'[q] = app[q]
    BY <2>1, AppTyped
  <2>5. ASSUME ~past'.together PROVE Unmixed'
    <3>1. Unmixed /\ ~other
      BY <2>2, <2>5 DEF IInv, PastStep
    <3>2. ASSUME NEW q \in Windows, p \in Windows, Writing(q)' PROVE q = p
      BY <2>4, <3>1, <3>2 DEF Writing, Procs
    <3>3. ASSUME NEW v \in Windows, NEW w \in Windows, Writing(v)', Writing(w)' PROVE v = w
      <4>1. CASE p \in Windows
        BY <3>2, <3>3, <4>1
      <4>2. CASE p \notin Windows
        BY <2>4, <3>1, <3>3, <4>2 DEF Writing, Unmixed, Procs
      <4> QED
        BY <4>1, <4>2
    <3>4. ASSUME NEW q \in Procs, q # p, app'[q].save.step \in {"write", "move"}
          PROVE  TempName(q) # t /\ temp'[TempName(q)] = temp[TempName(q)]
      <4>1. TempName(q) # t
        BY <3>2, <3>4, TempNames DEF Writing
      <4> QED
        BY <2>3, <4>1, TempNamed
    <3>5. ASSUME NEW q \in Procs
          PROVE  /\ app'[q].save.step = "write" => temp'[TempName(q)].value = None
                 /\ app'[q].save.step = "move" =>
                      temp'[TempName(q)].value # None /\ ~temp'[TempName(q)].mixed
      <4>1. CASE q = p
        BY <2>1, <2>3, <2>4, <4>1
      <4>2. CASE q # p
        BY <2>4, <3>1, <3>4, <4>2 DEF Unmixed
      <4> QED
        BY <4>1, <4>2
    <3>6. ~file'.mixed
      BY <1>1, <3>1 DEF Unmixed
    <3> QED
      BY <3>3, <3>5, <3>6 DEF Unmixed, TempName
  <2> QED
    BY <1>1, <1>3, <2>1, <2>2, <2>3, <2>5, GoesOn
<1>4. CASE MayFail /\ UNCHANGED temp /\ Returns(p, FALSE, Failed)
  <2>1. Returned(p)
    BY <1>4, HistoryKept, ReturnsStep
  <2>2. PICK r : Becoming(p, r) /\ Calm(r)
    BY <2>1 DEF Returned
  <2>3. (~past.together => Unmixed)'
    BY <1>1, <1>4, <2>1, <2>2, FilesKept DEF Calm, Returned
  <2> QED
    BY <1>1, <1>2, <1>4, <2>1, <2>3, ReturnedInv
<1> QED
  BY <1>3, <1>4 DEF SaveOpen

LEMMA SaveWriteStep ==
  ASSUME IInv, NEW p \in Procs, SaveWrite(p) PROVE IInv' /\ DiskStep
<1> DEFINE t == TempName(p)
           others == temp[t].users \ {p}
<1>1. app[p].save.step = "write" /\ UNCHANGED file /\ t \in {"app", "broker"}
  BY TempNamed DEF SaveWrite
<1>2. /\ temp \in [{"app", "broker"} -> TempFile] /\ file \in SettingsFile
      /\ app[p].own \in Settings /\ others \in SUBSET Procs
  BY <1>1 DEF IInv, TypeOK, Process, TempFile
<1>3. Writing(p) /\ (~past.together => ~file.mixed /\ temp[t].value = None)
  BY <1>1 DEF Writing, IInv, Unmixed
<1> HIDE DEF t, others
<1>4. ASSUME NEW value \in Settings, NEW mixed \in BOOLEAN,
             temp' = [temp EXCEPT ![t] = [@ EXCEPT !.users = others, !.value = value,
                                                   !.mixed = mixed]],
             mixed => temp[t].value # None,
             app' = [app EXCEPT ![p].save.step = "move"], UNCHANGED <<disk, past>>
      PROVE  IInv' /\ DiskStep
  <2>1. PICK r : /\ Becoming(p, r) /\ r.save.step = "move"
                 /\ r.save.caller = app[p].save.caller /\ r.save.dir = app[p].save.dir
    BY <1>1, <1>4, NextCall
  <2>2. /\ temp' \in [{"app", "broker"} -> TempFile]
        /\ temp'[t].value = value /\ temp'[t].mixed = mixed
        /\ \A u \in {"app", "broker"} \ {t} : temp'[u] = temp[u]
    BY <1>1, <1>2, <1>4 DEF TempFile
  <2>3. value # None
    BY NoneAssumption
  <2>4. PastStep
    BY <1>4, ThingsStay
  <2>5. (~past.together => Unmixed)'
    BY <1>1, <1>3, <1>4, <2>1, <2>2, <2>3, <2>4, FilesWritten DEF t
  <2> QED
    BY <1>1, <1>4, <2>1, <2>2, <2>4, <2>5, GoesOn
<1>5. CASE MayFail /\ temp' = Dropped(t, others) /\ Returns(p, FALSE, Failed)
  <2>1. /\ temp' \in [{"app", "broker"} -> TempFile]
        /\ \A u \in {"app", "broker"} \ {t} : temp'[u] = temp[u]
    BY <1>1, <1>2, <1>5, DroppedTyped
  <2>2. ~past'.together => ~file'.mixed
    BY <1>1, <1>3, <1>5, HistoryKept, ReturnsStep DEF Returned, PastStep
  <2> QED
    BY <1>1, <1>2, <1>3, <1>5, <2>1, <2>2, HistoryKept, ReturnedFiles DEF t
<1> QED
  BY <1>2, <1>4, <1>5 DEF SaveWrite, t, others

LEMMA SaveMoveStep ==
  ASSUME IInv, NEW p \in Procs, SaveMove(p) PROVE IInv' /\ DiskStep
<1> DEFINE t == TempName(p)
           movable == temp[t].there /\ temp[t].users = {}
           history == [past EXCEPT !.fresh = [q \in Procs |-> q = p /\ q # Broker],
                                   !.crossed = @ \/ ~past.fresh[p]]
<1>1. app[p].save.step = "move" /\ t \in {"app", "broker"}
  BY TempNamed DEF SaveMove
<1>2. /\ temp \in [{"app", "broker"} -> TempFile] /\ file \in SettingsFile
      /\ temp[t].users \in SUBSET Procs /\ temp[t].value \in Settings \cup {None}
      /\ temp[t].mixed \in BOOLEAN
  BY <1>1 DEF IInv, TypeOK, TempFile
<1>3. Writing(p) /\ (~past.together => ~file.mixed /\ temp[t].value # None /\ ~temp[t].mixed)
  BY <1>1 DEF Writing, IInv, Unmixed
<1> HIDE DEF t
<1>4. CASE /\ file' = IF temp[t].value = None THEN [value |-> DefaultSettings, mixed |-> TRUE]
                      ELSE [value |-> temp[t].value, mixed |-> temp[t].mixed]
           /\ temp' = [temp EXCEPT ![t] = NoFile]
           /\ Returns(p, TRUE, history)
  <2>1. Continued(history)
    BY Counted DEF Continued, Past
  <2> HIDE DEF history
  <2>2. file' \in SettingsFile
    BY <1>2, <1>4 DEF SettingsFile, DefaultSettings, Settings, Themes, CharacterSets
  <2>3. /\ temp' \in [{"app", "broker"} -> TempFile]
        /\ \A u \in {"app", "broker"} \ {t} : temp'[u] = temp[u]
    BY <1>1, <1>2, <1>4, NoFileTyped
  <2>4. ~past'.together => ~past.together
    BY <1>4, <2>1, ReturnsStep DEF Returned, PastStep
  <2>5. ~past'.together => ~file'.mixed
    BY <1>3, <1>4, <2>4
  <2> QED
    BY <1>3, <1>4, <2>1, <2>2, <2>3, <2>5, ReturnedFiles DEF t
<1>5. ASSUME NEW after, Continued(after), temp' = Dropped(t, temp[t].users), UNCHANGED file,
             Returns(p, FALSE, after)
      PROVE  IInv' /\ DiskStep
  <2>1. /\ temp' \in [{"app", "broker"} -> TempFile]
        /\ \A u \in {"app", "broker"} \ {t} : temp'[u] = temp[u]
    BY <1>1, <1>2, <1>5, DroppedTyped
  <2>2. ~past'.together => ~file'.mixed
    BY <1>3, <1>5, ReturnsStep DEF Returned, PastStep
  <2> QED
    BY <1>2, <1>3, <1>5, <2>1, <2>2, ReturnedFiles DEF t
<1>6. Continued(past) /\ (MayFail => Continued(Failed))
  BY HistoryKept
<1> QED
  BY <1>4, <1>5, <1>6 DEF SaveMove, t

------------------------------------------------------------------------------
(***************************************************************************)
(* The invariant holds at the start and is kept by every step.             *)
(***************************************************************************)
LEMMA InitInv == ASSUME Init PROVE IInv
<1>1. PICK first \in FirstThemes :
        /\ disk = [d \in Dirs |->
             IF d = 1 THEN [where |-> "installed", package |-> first, content |-> "checked",
                            by |-> {}]
             ELSE NoDirectory]
        /\ file = [value |-> [theme |-> first.id, characters |-> "simplified"], mixed |-> FALSE]
        /\ app = [p \in Procs |->
             IF p = Broker THEN [Closed EXCEPT !.up = "broker"]
             ELSE IF p \in FirstWindows
             THEN [Closed EXCEPT !.up = "full", !.own = file.value,
                                 !.listed = {first.id, Default}]
             ELSE Closed]
  BY DEF Init
<1>2. first \in Known /\ first.flaw = "none" /\ first.id \in Ids
  BY FirstAssumption, PackagesAssumption DEF Known
<1>3. file \in SettingsFile /\ ~file.mixed /\ file.value.theme = first.id
  BY <1>1, <1>2 DEF SettingsFile, Settings, Themes, CharacterSets
<1>4. Closed \in Process /\ Consistent(Closed) /\ Closed.save = NoSave /\ Calm(Closed)
      /\ Closed.importing = FALSE /\ Closed.listed = {Default}
  BY ClosedConsistent DEF Closed
<1>5. /\ disk \in [Dirs -> Directory] /\ SoundDirs /\ LeftoversExplained
      /\ \A d \in InstalledDirs : d = 1
  <2>1. \A d \in Dirs : d # 1 => disk[d] = NoDirectory
    BY <1>1
  <2>2. \A d \in Dirs : d = 1 =>
          disk[d] = [where |-> "installed", package |-> first, content |-> "checked", by |-> {}]
    BY <1>1
  <2>3. NoDirectory \in Directory /\ NoDirectory.where = "none"
    BY DEF NoDirectory, Directory
  <2>4. [where |-> "installed", package |-> first, content |-> "checked", by |-> {}] \in Directory
    BY <1>2 DEF Directory
  <2>5. disk \in [Dirs -> Directory]
    BY <1>1, <2>3, <2>4
  <2>6. SoundDirs
    BY <1>2, <2>1, <2>2, <2>3 DEF SoundDirs, Sound
  <2>7. LeftoversExplained
    BY <2>1, <2>2, <2>3 DEF LeftoversExplained
  <2>8. \A d \in InstalledDirs : d = 1
    BY <2>1, <2>3 DEF InstalledDirs
  <2> QED
    BY <2>5, <2>6, <2>7, <2>8
<1>6. ASSUME NEW p \in Procs
      PROVE  /\ app[p] \in Process /\ Consistent(app[p]) /\ Calm(app[p])
             /\ app[p].save = NoSave
  <2>1. CASE app[p] = Closed
    BY <1>4, <2>1
  <2>2. CASE app[p] = [Closed EXCEPT !.up = "broker"]
    BY <1>4, <2>2, NoSaveTyped DEF Process, Consistent, Undoable, Calm
  <2>3. CASE app[p] = [Closed EXCEPT !.up = "full", !.own = file.value,
                                     !.listed = {first.id, Default}]
    <3>1. /\ app[p] \in Process /\ app[p].own = file.value /\ app[p].save = NoSave
          /\ app[p].listed = {first.id, Default} /\ app[p].importing = FALSE
      <4> DEFINE own == file.value
                 listed == {first.id, Default}
      <4>1. own \in Settings /\ listed \in SUBSET Themes
        BY <1>2, <1>3 DEF SettingsFile, Themes
      <4> HIDE DEF own, listed
      <4>2. app[p] = [Closed EXCEPT !.up = "full", !.own = own, !.listed = listed]
        BY <2>3 DEF own, listed
      <4> QED
        BY <1>4, <4>1, <4>2 DEF Process, own, listed
    <3> QED
      BY <1>3, <3>1, NoSaveTyped DEF Consistent, Undoable, Calm
  <2> QED
    BY <1>1, <2>1, <2>2, <2>3
<1>7. app \in [Procs -> Process]
  <2>1. DOMAIN app = Procs /\ app = [p \in Procs |-> app[p]]
    BY <1>1
  <2> QED
    BY <1>6, <2>1
<1>8. InMenu(app[Broker])
  <2>1. Broker \in Procs
    BY DEF Procs
  <2>2. app[Broker] = [Closed EXCEPT !.up = "broker"]
    BY <1>1, <2>1
  <2>3. app[Broker].up = "broker"
    BY <1>4, <2>2 DEF Process
  <2>4. app[Broker].save.caller = "none"
    BY <1>6, <2>1, NoSaveTyped
  <2> QED
    BY <2>3, <2>4 DEF InMenu
<1>9. temp \in [{"app", "broker"} -> TempFile]
  BY NoFileTyped DEF Init
<1>10. past \in Past
  BY BoundsAssumption DEF Init, Past
<1>11. Deletions
  BY <1>6 DEF Deletions, Deletion, Calm
<1>12. Unmixed
  <2>1. \A p \in Procs : app[p].save.step = "none"
    BY <1>6, NoSaveTyped
  <2> QED
    BY <1>3, <2>1 DEF Unmixed, Writing, Procs
<1>13. OneAtAPath
  BY <1>5 DEF OneAtAPath
<1> QED
  BY <1>3, <1>5, <1>6, <1>7, <1>8, <1>9, <1>10, <1>11, <1>12, <1>13 DEF IInv, TypeOK

(* Every step keeps the invariant, and takes the directories one step of the catalog on. *)
LEMMA NextInv == ASSUME IInv, Next PROVE IInv' /\ DiskStep
<1>1. ASSUME NEW w \in Windows, UserActs(w) PROVE IInv' /\ DiskStep
  <2>1. ASSUME NEW up \in {"full", "menu"}, Open(w, up) PROVE IInv' /\ DiskStep
    BY <2>1, OpenStep
  <2>2. CASE Close(w)
    BY <2>2, CloseStep
  <2>3. CASE EditControl(w)
    BY <2>3, EditControlStep
  <2>4. CASE ChangeAppearance(w)
    BY <2>4, ChangeAppearanceStep
  <2>5. CASE ResetAppearance(w)
    BY <2>5, ResetAppearanceStep
  <2>6. CASE MenuToggle(w)
    BY <2>6, MenuToggleStep
  <2>7. ASSUME NEW id \in Themes, ApplyTheme(w, id) PROVE IInv' /\ DiskStep
    BY <2>7, ApplyThemeStep
  <2>8. ASSUME NEW package \in Packages, ImportTheme(w, package) PROVE IInv' /\ DiskStep
    BY <2>8, ImportThemeStep
  <2>9. ASSUME NEW d \in Dirs, DeleteTheme(w, d) PROVE IInv' /\ DiskStep
    BY <2>9, DeleteThemeStep
  <2>10. ASSUME NEW d \in Dirs, Cancel(w, d) PROVE IInv' /\ DiskStep
    BY <2>10, CancelStep
  <2>11. ASSUME NEW d \in Dirs, Confirm(w, d) PROVE IInv' /\ DiskStep
    BY <2>11, ConfirmStep
  <2>12. CASE Crash(w)
    BY <2>12, CrashStep
  <2> QED
    BY <1>1, <2>1, <2>2, <2>3, <2>4, <2>5, <2>6, <2>7, <2>8, <2>9, <2>10, <2>11, <2>12
       DEF UserActs
<1>2. CASE RunMenuAction
  BY <1>2, RunMenuActionStep
<1>3. ASSUME NEW w \in Windows, ImportJob(w) \/ RemovalJob(w) \/ Answers(w)
      PROVE  IInv' /\ DiskStep
  <2>1. CASE ImportStage(w)
    BY <2>1, ImportStageStep
  <2>2. ASSUME NEW d \in Dirs,
               ImportCopy(w, d) \/ ImportExtract(w, d) \/ ImportCheck(w, d) \/ ImportPublish(w, d)
        PROVE  IInv' /\ DiskStep
    BY <2>2, ImportCopyStep, ImportExtractStep, ImportCheckStep, ImportPublishStep
  <2>3. ASSUME NEW d \in Dirs, RemoveTree(w, d) PROVE IInv' /\ DiskStep
    BY <2>3, RemoveTreeStep
  <2>4. CASE ImportDone(w)
    BY <2>4, ImportDoneStep
  <2>5. CASE RemovalDone(w)
    BY <2>5, RemovalDoneStep
  <2> QED
    BY <1>3, <2>1, <2>2, <2>3, <2>4, <2>5 DEF ImportJob, RemovalJob, Answers
<1>4. ASSUME NEW p \in Procs, SaveStep(p) PROVE IInv' /\ DiskStep
  BY <1>4, SaveOpenStep, SaveWriteStep, SaveMoveStep DEF SaveStep
<1> QED
  BY <1>1, <1>2, <1>3, <1>4 DEF Next, Runs

LEMMA StutterInv == ASSUME IInv, UNCHANGED vars PROVE IInv' /\ DiskStep
<1>1. /\ UNCHANGED <<file, temp, app, disk, past>>
      /\ PastStep
  BY ThingsStay DEF vars
<1>2. /\ SoundDirs' /\ LeftoversExplained' /\ DiskStep /\ disk' \in [Dirs -> Directory]
  BY <1>1, NoDir
<1>3. OneAtAPath'
  BY <1>2, PathsKept
<1>4. TypeOK' /\ Deletions' /\ (\A p \in Procs : Consistent(app'[p])) /\ InMenu(app'[Broker])
  BY <1>1 DEF IInv, TypeOK, Deletions, Deletion
<1>5. (~past.together => Unmixed)'
  BY <1>1 DEF IInv, Unmixed, Writing, TempName
<1> QED
  BY <1>2, <1>3, <1>4, <1>5 DEF IInv, Consistent, InMenu

------------------------------------------------------------------------------
(***************************************************************************)
(* What follows for the directories seen by path.                          *)
(***************************************************************************)
(* The catalog of ThemeCatalog, as the refinement maps it. *)
ThemeOf(d) == [id |-> disk[d].package.id, content |-> disk[d].package]
Installed == {[id |-> disk[d].package.id, content |-> disk[d].package] : d \in InstalledDirs}

LEMMA CatalogInit == ASSUME IInv PROVE Catalog!Init
<1>1. \A d \in InstalledDirs : d \in Dirs /\ Sound(disk[d]) /\ disk[d].where = "installed"
  BY DirTyped DEF InstalledDirs
<1>2. \A d \in InstalledDirs : ThemeOf(d) \in [id : Ids, content : Known]
  BY <1>1, PackagesAssumption DEF Sound, ThemeOf
<1>3. \A d, e \in InstalledDirs : ThemeOf(d).id = ThemeOf(e).id => d = e
  BY DEF IInv, OneAtAPath, ThemeOf
<1> QED
  BY <1>2, <1>3 DEF Catalog!Init, Catalog!Theme, ThemeOf

LEMMA CatalogNext ==
  ASSUME IInv, IInv', DiskStep
  PROVE  Catalog!Next \/ Installed' = Installed
<1>1. \A d \in Dirs : disk[d].where = "installed" <=> d \in InstalledDirs
  BY DEF InstalledDirs
<1>2. \A d \in Dirs : disk'[d].where = "installed" <=> d \in InstalledDirs'
  BY DEF InstalledDirs
<1>3. InstalledDirs \subseteq Dirs /\ InstalledDirs' \subseteq Dirs
  BY DEF InstalledDirs
<1>4. CASE Kept
  <2>1. InstalledDirs' = InstalledDirs
    BY <1>1, <1>2, <1>3, <1>4 DEF Kept
  <2>2. \A d \in InstalledDirs : disk'[d].package = disk[d].package
    BY <1>1, <1>3, <1>4 DEF Kept
  <2> QED
    BY <2>1, <2>2 DEF Installed
<1>5. ASSUME NEW d \in Dirs, Published(d) PROVE Catalog!Next
  <2> DEFINE theme == ThemeOf(d)
  <2>1. theme \in Catalog!Theme
    BY <1>5, DirTyped, PackagesAssumption DEF Published, Sound, ThemeOf, Catalog!Theme
  <2>2. theme.id \notin InstalledIds
    BY <1>5 DEF Published, ThemeOf
  <2>3. \A other \in Installed : other.id # theme.id
    BY <2>2 DEF Installed, InstalledIds
  <2>4. InstalledDirs' = InstalledDirs \cup {d}
    BY <1>1, <1>2, <1>3, <1>5 DEF Published, Elsewhere
  <2>5. \A e \in InstalledDirs' : disk'[e].package = disk[e].package
    BY <1>3, <1>5 DEF Published, Elsewhere
  <2>6. Installed' = Installed \cup {theme}
    BY <2>4, <2>5 DEF Installed, ThemeOf
  <2> QED
    BY <2>1, <2>3, <2>6 DEF Catalog!Next, Catalog!Install, Installed
<1>6. ASSUME NEW d \in Dirs, Taken(d) PROVE Catalog!Next
  <2> DEFINE theme == ThemeOf(d)
  <2>1. d \in InstalledDirs
    BY <1>1, <1>6 DEF Taken
  <2>2. theme \in Installed
    BY <2>1 DEF Installed, ThemeOf
  <2>3. InstalledDirs' = InstalledDirs \ {d}
    BY <1>1, <1>2, <1>3, <1>6 DEF Taken, Elsewhere
  <2>4. \A e \in InstalledDirs' : disk'[e] = disk[e] /\ ThemeOf(e) # theme
    BY <1>3, <1>6, <2>1, <2>3 DEF Taken, Elsewhere, IInv, OneAtAPath, ThemeOf
  <2>5. \A e \in InstalledDirs : e = d \/ e \in InstalledDirs'
    BY <2>3
  <2>6. Installed' = Installed \ {theme}
    BY <2>3, <2>4, <2>5 DEF Installed, ThemeOf
  <2> QED
    BY <2>2, <2>6 DEF Catalog!Next, Catalog!Remove, Installed
<1> QED
  BY <1>4, <1>5, <1>6 DEF DiskStep

(* The step of one directory out of its place. *)
LEMMA HeldNext ==
  ASSUME IInv, DiskStep
  PROVE  \A d \in Dirs :
           disk[d].where = "installed" /\ disk'[d].where # "installed" =>
             Cardinality(disk[d].by) = 1 /\ disk'[d].by \subseteq disk[d].by
<1> SUFFICES ASSUME NEW d \in Dirs, disk[d].where = "installed", disk'[d].where # "installed"
             PROVE  Cardinality(disk[d].by) = 1 /\ disk'[d].by \subseteq disk[d].by
  OBVIOUS
<1>1. Taken(d)
  BY DEF DiskStep, Kept, Published, Taken, Elsewhere
<1>2. PICK w \in Windows : disk[d].by = {w} /\ disk'[d].by \subseteq {w}
  BY <1>1 DEF Taken
<1> QED
  BY <1>2, FS_Singleton

(* The properties the invariant contains. *)
LEMMA InvariantParts ==
  ASSUME IInv
  PROVE  /\ TypeOK /\ InstalledWhole /\ LeftoversExplained /\ ImportsAnswer
         /\ FileWhole /\ SelectedIsListed
<1>1. TypeOK /\ LeftoversExplained
  BY DEF IInv
<1>2. InstalledWhole
  BY DirTyped DEF InstalledWhole, InstalledDirs, Sound
<1>3. ImportsAnswer
  BY DEF IInv, Consistent, Waiting, ImportsAnswer, Procs
<1>4. FileWhole
  BY DEF IInv, Unmixed, FileWhole, TypeOK, Past
<1>5. SelectedIsListed
  BY DEF IInv, Consistent, SelectedIsListed, Showing, Procs
<1> QED
  BY <1>1, <1>2, <1>3, <1>4, <1>5

(* Hence the invariant holds in every behaviour. *)
LEMMA SpecInv == Spec => []IInv
<1>1. IInv /\ [Next]_vars => IInv'
  BY NextInv, StutterInv
<1> QED
  BY InitInv, <1>1, PTL DEF Spec

(* The state of the store is well typed. *)
THEOREM TypeCorrect == Spec => []TypeOK
  BY SpecInv, InvariantParts, PTL

(* A directory under a theme's identifier has passed every check of the import and is      *)
(* complete, for every number of windows, packages and directories, whichever system calls *)
(* fail and whenever a process is killed.                                                  *)
THEOREM InstalledWholeAlways == Spec => []InstalledWhole
  BY SpecInv, InvariantParts, PTL

(* A staging or quarantined directory that nobody works on is explained by a process that *)
(* ended, a call that failed, or a theme of more entries than the removal accepts.        *)
THEOREM LeftoversExplainedAlways == Spec => []LeftoversExplained
  BY SpecInv, InvariantParts, PTL

(* The import button is never disabled without an import whose result the window will see. *)
THEOREM ImportsAnswerAlways == Spec => []ImportsAnswer
  BY SpecInv, InvariantParts, PTL

(* settings.ini is mixed from two copies only after two windows saved at the same time. *)
THEOREM FileWholeAlways == Spec => []FileWhole
  BY SpecInv, InvariantParts, PTL

(* A window at rest has its own theme in its list. *)
THEOREM SelectedIsListedAlways == Spec => []SelectedIsListed
  BY SpecInv, InvariantParts, PTL

(* A directory leaves its identifier's path only in the hands of the one window whose user *)
(* was asked about it.                                                                     *)
THEOREM HeldStaysAlways == Spec => HeldStays
<1>1. IInv /\ [Next]_vars =>
        [\A d \in Dirs :
           disk[d].where = "installed" /\ disk'[d].where # "installed" =>
             Cardinality(disk[d].by) = 1 /\ disk'[d].by \subseteq disk[d].by]_vars
  BY NextInv, HeldNext
<1> QED
  BY <1>1, SpecInv, PTL DEF Spec, HeldStays

(* Seen by path, the directories implement ThemeCatalog: one theme under an identifier, *)
(* complete when it appears, never replaced in place.                                   *)
THEOREM ImplementsCatalog == Spec => NeverReplaced
<1>1. Init => Catalog!Init
  BY InitInv, CatalogInit
<1>2. IInv /\ IInv' /\ [Next]_vars => [Catalog!Next]_Installed
  BY NextInv, StutterInv, CatalogNext
<1> QED
  BY <1>1, <1>2, SpecInv, PTL DEF Spec, NeverReplaced, Catalog!Spec, Installed
------------------------------------------------------------------------------
(***************************************************************************)
(* The theme in use.  ActiveIsInstalled is about the file while nobody     *)
(* saves; what makes it inductive is about the processes: which theme a    *)
(* copy that is as new as the file has selected, or had before the save    *)
(* under way, and who still has to replace a theme that is gone.           *)
(***************************************************************************)
Excused == past.failures > 2 \/ past.together \/ past.crossed \/ past.cut

Usable == InstalledIds \cup {Default}

(* A temporary file is open where its writers are between two calls, and there meanwhile. *)
Writers(t) == {p \in Procs : app[p].save.step = "write" /\ TempName(p) = t}
Temps ==
  \A t \in {"app", "broker"} :
    temp[t].users = Writers(t) /\ (temp[t].users # {} => temp[t].there)

(* What is about to replace the file is the copy of the process that moves it. *)
Ready(p) ==
  app[p].save.step = "move" => temp[TempName(p)].there /\ temp[TempName(p)].value = app[p].own

(* A process that is not there does nothing; a deletion, a fallback and a reset select the *)
(* default.                                                                                *)
Settled(r) ==
  /\ r.up = "no" => r.save.step = "none" /\ r.own.theme = Default
  /\ r.save.caller \in {"deletion", "fallback", "reset"} => r.own.theme = Default

(* The deletion brings back the theme that was selected before it. *)
Undoes(p) == Deletion(p) => app[p].save.before.theme = disk[app[p].save.dir].package.id

(* A fresh copy selects the theme of the file or the default, or is about to save another *)
(* one that can be used; the save would be undone to one of the two.                      *)
Follows(r, usable, theme) ==
  /\ r.own.theme \in usable \cup {Default, theme}
  /\ r.save.caller # "select" => r.own.theme \in {Default, theme}
  /\ r.save.caller \in {"select", "reset", "deletion"} => r.save.before.theme \in {Default, theme}

(* The process has to replace the theme of the file: its deletion, or the fallback after *)
(* a deletion that could be neither saved nor undone.                                    *)
Owed(p) ==
  \/ Deletion(p) /\ disk[app[p].save.dir].package.id = file.value.theme
  \/ app[p].save.caller = "fallback" /\ past.failures >= 2

Covered == file.value.theme \in Usable \/ \E p \in Procs : Owed(p)
Coverage ==
  ~Excused =>
    Covered /\ \A p \in Procs : past.fresh[p] => Follows(app[p], Usable, file.value.theme)

ActiveInv ==
  /\ Temps
  /\ ~past.together => \A p \in Procs : Ready(p)
  /\ \A p \in Procs : Settled(app[p]) /\ Undoes(p)
  /\ Coverage

------------------------------------------------------------------------------
(* What was counted against the property stays so. *)
Grows(past1, past2) ==
  /\ past2 \in Past
  /\ past2.failures >= past1.failures
  /\ past1.together => past2.together
  /\ past1.crossed => past2.crossed
  /\ past1.cut => past2.cut

LEMMA GrowsIsExcused ==
  ASSUME IInv, Grows(past, past')
  PROVE  (Excused => Excused')
  BY DEF Grows, Excused, IInv, TypeOK, Past

LEMMA CountedGrows ==
  ASSUME IInv
  PROVE  /\ past \in Past /\ Grows(past, past)
         /\ Acts => Grows(past, Acted) /\ Acted.fresh = past.fresh
                    /\ Acted.crossed = past.crossed
         /\ MayFail => Grows(past, Failed) /\ Failed.fresh = past.fresh
                       /\ Failed.failures = past.failures + 1
  BY BoundsAssumption DEF IInv, TypeOK, Past, Acts, Acted, MayFail, Failed, Grows

(* Directories that stay under their identifier. *)
LEMMA StayInstalled ==
  ASSUME disk \in [Dirs -> Directory],
         \A d \in Dirs : disk[d].where = "installed" =>
           disk'[d].where = "installed" /\ disk'[d].package = disk[d].package
  PROVE  InstalledIds \subseteq InstalledIds' /\ Usable \subseteq Usable'
<1>1. \A d \in InstalledDirs : d \in InstalledDirs' /\ disk'[d].package = disk[d].package
  BY DEF InstalledDirs
<1> QED
  BY <1>1 DEF InstalledIds, Usable

(* A save that has just begun. *)
Begins(r, caller, before) ==
  r.save.step = "open" /\ r.save.caller = caller /\ r.save.before = before

(* SelectTheme: the record as it was, or another selection that is to be saved. *)
LEMMA SelectedTheme ==
  ASSUME NEW r \in Process, NEW id \in Themes \cup {None}
  PROVE  LET q == SelectTheme(r, id)
         IN  \/ q = r
             \/ /\ id \in r.listed /\ id \in Themes /\ q.own.theme = id /\ q.up = r.up
                /\ Begins(q, "select", r.own)
<1> DEFINE q == SelectTheme(r, id)
           taken == FromControls(r)
           own == [taken.own EXCEPT !.theme = id]
           chosen == [taken EXCEPT !.own = own]
           stays == id \notin r.listed \/ r.own.theme = id
<1>1. q = IF stays THEN r ELSE BeginSave(chosen, "select", r.own, 0, None)
  BY DEF SelectTheme
<1>2. CASE stays
  BY <1>1, <1>2
<1>3. CASE ~stays
  <2>1. id \in r.listed /\ id \in Themes
    BY <1>3 DEF Process
  <2>2. Framed(taken, r) /\ taken.own \in Settings
    BY Controls
  <2>3. own \in Settings /\ own.theme = id
    BY <2>1, <2>2, ThemeSet
  <2> HIDE DEF own, taken
  <2>4. Framed(chosen, taken) /\ chosen.own = own
    BY <2>2, <2>3, OwnSet DEF Framed
  <2> HIDE DEF chosen
  <2>5. r.own \in Settings
    BY DEF Process
  <2>6. /\ Framed(q, chosen) /\ q.own = own
        /\ q.save = [step |-> "open", caller |-> "select", before |-> r.own, dir |-> 0,
                     next |-> None]
    BY <1>1, <1>3, <2>4, <2>5, Begun DEF Framed, Callers
  <2> HIDE DEF q
  <2>7. q.up = r.up /\ Begins(q, "select", r.own)
    BY <2>2, <2>4, <2>6 DEF Framed, Begins
  <2> QED
    BY <2>1, <2>3, <2>6, <2>7 DEF q
<1> QED
  BY <1>2, <1>3

(* ReloadThemeCatalog: the theme is still there, and perhaps another selected; or it is gone. *)
LEMMA ReloadedTheme ==
  ASSUME NEW r \in Process, r.save = NoSave, NEW ids \in SUBSET Ids,
         NEW next \in Themes \cup {None}
  PROVE  LET q == ReloadThemeCatalog(r, ids, next)
         IN  /\ q.up = r.up
             /\ \/ /\ r.own.theme \in ids \cup {Default}
                   /\ q.save = NoSave /\ q.own = r.own
                \/ /\ r.own.theme \in ids \cup {Default}
                   /\ q.own.theme \in ids \cup {Default}
                   /\ Begins(q, "select", r.own)
                \/ /\ r.own.theme \notin ids \cup {Default}
                   /\ q.own.theme = Default
                   /\ Begins(q, "fallback", r.own)
<1> DEFINE q == ReloadThemeCatalog(r, ids, next)
           listed == LoadInstalledThemes(ids)
           seen == [r EXCEPT !.listed = listed]
           own == [r.own EXCEPT !.theme = Default]
           back == [seen EXCEPT !.own = own]
<1>1. listed \in SUBSET Themes /\ listed = ids \cup {Default}
  BY DEF LoadInstalledThemes, Themes
<1> HIDE DEF listed
<1>2. Framed(seen, r) /\ seen.own = r.own /\ seen.listed = listed /\ seen.save = NoSave
  BY <1>1, ListedSet
<1>3. r.own \in Settings /\ own \in Settings /\ own.theme = Default
  BY ThemeSet DEF Process, Themes
<1>4. q = IF r.own.theme \in seen.listed THEN SelectTheme(seen, next)
          ELSE BeginSave(back, "fallback", r.own, 0, next)
  BY <1>2 DEF ReloadThemeCatalog, listed
<1> HIDE DEF own, seen
<1>5. Framed(back, seen) /\ back.own = own
  BY <1>2, <1>3, OwnSet DEF Framed
<1> HIDE DEF back, q
<1>6. CASE r.own.theme \in listed
  <2>1. q = SelectTheme(seen, next) /\ seen \in Process
    BY <1>2, <1>4, <1>6 DEF Framed
  <2>2. \/ q = seen
        \/ /\ next \in seen.listed /\ q.own.theme = next /\ q.up = seen.up
           /\ Begins(q, "select", seen.own)
    BY <2>1, SelectedTheme
  <2> QED
    BY <1>1, <1>2, <1>6, <2>2 DEF q, Framed
<1>7. CASE r.own.theme \notin listed
  <2>1. q = BeginSave(back, "fallback", r.own, 0, next)
    BY <1>2, <1>4, <1>7
  <2>2. /\ Framed(q, back) /\ q.own = own
        /\ q.save = [step |-> "open", caller |-> "fallback", before |-> r.own, dir |-> 0,
                     next |-> next]
    BY <1>3, <1>5, <2>1, Begun DEF Framed, Callers
  <2>3. Begins(q, "fallback", r.own)
    BY <2>2 DEF Begins
  <2> QED
    BY <1>1, <1>2, <1>3, <1>5, <1>7, <2>2, <2>3 DEF Framed, q
<1> QED
  BY <1>6, <1>7

(* A record that saves nothing. *)
LEMMA RestFollows ==
  ASSUME NEW r, r.save = NoSave, r.up # "no" \/ r.own.theme = Default, NEW usable, NEW theme
  PROVE  /\ Settled(r)
         /\ r.own.theme \in {Default, theme} <=> Follows(r, usable, theme)
  BY NoSaveTyped DEF Settled, Follows

LEMMA ReloadFollows ==
  ASSUME NEW r \in Process, r.save = NoSave, r.up # "no", NEW ids \in SUBSET Ids,
         NEW next \in Themes \cup {None},
         NEW usable, ids \cup {Default} \subseteq usable, NEW theme
  PROVE  LET q == ReloadThemeCatalog(r, ids, next)
         IN  /\ Settled(q) /\ q.save.step \in {"none", "open"} /\ q.save.caller # "deletion"
             /\ r.own.theme \in {Default, theme} => Follows(q, usable, theme)
             /\ r.own.theme \notin ids \cup {Default} => q.save.caller = "fallback"
<1> DEFINE q == ReloadThemeCatalog(r, ids, next)
<1>1. /\ q.up = r.up
      /\ \/ r.own.theme \in ids \cup {Default} /\ q.save = NoSave /\ q.own = r.own
         \/ /\ r.own.theme \in ids \cup {Default} /\ q.own.theme \in ids \cup {Default}
            /\ Begins(q, "select", r.own)
         \/ /\ r.own.theme \notin ids \cup {Default} /\ q.own.theme = Default
            /\ Begins(q, "fallback", r.own)
  BY ReloadedTheme
<1> HIDE DEF q
<1>2. CASE r.own.theme \in ids \cup {Default} /\ q.save = NoSave /\ q.own = r.own
  BY <1>1, <1>2, RestFollows, NoSaveTyped DEF q
<1>3. CASE /\ r.own.theme \in ids \cup {Default} /\ q.own.theme \in ids \cup {Default}
           /\ Begins(q, "select", r.own)
  BY <1>1, <1>3 DEF Begins, Settled, Follows, q
<1>4. CASE /\ r.own.theme \notin ids \cup {Default} /\ q.own.theme = Default
           /\ Begins(q, "fallback", r.own)
  BY <1>1, <1>4 DEF Begins, Settled, Follows, q
<1> QED
  BY <1>1, <1>2, <1>3, <1>4
------------------------------------------------------------------------------
(* The directories of the deletions keep their packages. *)
PackagesStay ==
  \A d \in Dirs : disk[d].where = "deleting" /\ disk'[d].where = "deleting" =>
    disk'[d].package = disk[d].package

(* A process whose record a step leaves alone. *)
LEMMA BystanderUndoes ==
  ASSUME IInv, IInv', PackagesStay, NEW q \in Procs, app'[q] = app[q], Undoes(q)
  PROVE  Undoes(q)'
<1> SUFFICES ASSUME app'[q].save.caller = "deletion"
             PROVE  app'[q].save.before.theme = disk'[app'[q].save.dir].package.id
  BY DEF Undoes, Deletion
<1>1. /\ app[q].save.dir \in Dirs
      /\ disk[app[q].save.dir].where = "deleting"
      /\ disk'[app[q].save.dir].where = "deleting"
  BY DEF IInv, Deletions, Deletion
<1>2. disk'[app[q].save.dir].package = disk[app[q].save.dir].package
  BY <1>1 DEF PackagesStay
<1> QED
  BY <1>2 DEF Undoes, Deletion

LEMMA BystanderOwes ==
  ASSUME IInv, IInv', PackagesStay, Grows(past, past'), NEW q \in Procs, app'[q] = app[q],
         file'.value.theme = file.value.theme, Owed(q)
  PROVE  Owed(q)'
<1>1. CASE Deletion(q) /\ disk[app[q].save.dir].package.id = file.value.theme
  <2>1. /\ app[q].save.dir \in Dirs
        /\ disk[app[q].save.dir].where = "deleting"
        /\ disk'[app[q].save.dir].where = "deleting"
    BY <1>1 DEF IInv, Deletions, Deletion
  <2>2. disk'[app[q].save.dir].package = disk[app[q].save.dir].package
    BY <2>1 DEF PackagesStay
  <2> QED
    BY <1>1, <2>2 DEF Owed, Deletion
<1>2. CASE app[q].save.caller = "fallback" /\ past.failures >= 2
  BY <1>2 DEF Owed, Grows, Past, IInv, TypeOK
<1> QED
  BY <1>1, <1>2 DEF Owed

(* A step of p that leaves the settings file alone. *)
LEMMA CoverageKept ==
  ASSUME IInv, ActiveInv, IInv', Grows(past, past'), PackagesStay, UNCHANGED file,
         NEW p \in Procs, NEW r, app' = [app EXCEPT ![p] = r],
         \A q \in Procs \ {p} : past'.fresh[q] => past.fresh[q],
         ~Excused' => \A q \in Procs \ {p} : past.fresh[q] /\ app[q].own.theme \in Usable =>
                        app[q].own.theme \in Usable',
         ~Excused' /\ (file.value.theme \in Usable \/ Owed(p)) =>
           file.value.theme \in Usable' \/ Owed(p)',
         ~Excused' /\ past'.fresh[p] => Follows(r, Usable', file.value.theme)
  PROVE  Coverage'
<1> SUFFICES ASSUME ~Excused'
             PROVE  /\ file'.value.theme \in Usable' \/ \E q \in Procs : Owed(q)'
                    /\ \A q \in Procs : past'.fresh[q] =>
                         Follows(app'[q], Usable', file'.value.theme)
  BY DEF Coverage, Covered
<1>1. app'[p] = r /\ \A q \in Procs \ {p} : app'[q] = app[q]
  BY DEF IInv, TypeOK
<1>2. Covered /\ \A q \in Procs : past.fresh[q] => Follows(app[q], Usable, file.value.theme)
  BY GrowsIsExcused DEF ActiveInv, Coverage
<1>3. file'.value.theme \in Usable' \/ \E q \in Procs : Owed(q)'
  <2>1. CASE file.value.theme \in Usable \/ Owed(p)
    BY <2>1
  <2>2. ASSUME NEW q \in Procs \ {p}, Owed(q) PROVE Owed(q)'
    BY <1>1, <2>2, BystanderOwes
  <2> QED
    BY <1>2, <2>1, <2>2 DEF Covered
<1>4. ASSUME NEW q \in Procs, past'.fresh[q]
      PROVE  Follows(app'[q], Usable', file'.value.theme)
  <2>1. CASE q = p
    BY <1>1, <1>4, <2>1
  <2>2. CASE q # p
    <3>1. past.fresh[q] /\ app'[q] = app[q] /\ Follows(app[q], Usable, file.value.theme)
      BY <1>1, <1>2, <1>4, <2>2
    <3>2. app[q].own.theme \in Usable => app[q].own.theme \in Usable'
      BY <2>2, <3>1
    <3> QED
      BY <3>1, <3>2 DEF Follows
  <2> QED
    BY <2>1, <2>2
<1> QED
  BY <1>3, <1>4

(* Such a step of a process that is not between two calls, and does not get there. *)
LEMMA TempsKept ==
  ASSUME IInv, ActiveInv, Grows(past, past'), NEW p \in Procs, NEW r,
         app' = [app EXCEPT ![p] = r], UNCHANGED temp,
         (r.save.step # "write" /\ app[p].save.step # "write") \/ r.save = app[p].save,
         r.save.step = "move" => r.save = app[p].save /\ r.own = app[p].own
  PROVE  Temps' /\ (~past.together => \A q \in Procs : Ready(q))'
<1>1. app'[p] = r /\ \A q \in Procs \ {p} : app'[q] = app[q]
  BY DEF IInv, TypeOK
<1>2. \A q \in Procs : app'[q].save.step = "write" <=> app[q].save.step = "write"
  BY <1>1
<1>3. ASSUME NEW t \in {"app", "broker"} PROVE Writers(t)' = Writers(t)
  BY <1>2 DEF Writers, TempName
<1>4. Temps'
  BY <1>3 DEF ActiveInv, Temps
<1>5. ASSUME ~past'.together, NEW q \in Procs PROVE Ready(q)'
  <2>1. Ready(q)
    BY <1>5 DEF ActiveInv, Grows
  <2>2. app'[q].save.step = "move" => app[q].save.step = "move" /\ app'[q].own = app[q].own
    BY <1>1
  <2> QED
    BY <2>1, <2>2 DEF Ready, TempName
<1> QED
  BY <1>4, <1>5

(* The records that a step of p leaves alone, and p's own. *)
LEMMA SavesKept ==
  ASSUME IInv, ActiveInv, IInv', PackagesStay, NEW p \in Procs, NEW r,
         app' = [app EXCEPT ![p] = r], Settled(r), Undoes(p)'
  PROVE  (\A q \in Procs : Settled(app[q]) /\ Undoes(q))'
<1>1. app'[p] = r /\ \A q \in Procs \ {p} : app'[q] = app[q]
  BY DEF IInv, TypeOK
<1>2. ASSUME NEW q \in Procs PROVE Settled(app'[q]) /\ Undoes(q)'
  <2>1. CASE q = p
    BY <1>1, <2>1
  <2>2. CASE q # p
    BY <1>1, <2>2, BystanderUndoes DEF ActiveInv
  <2> QED
    BY <2>1, <2>2
<1>3. Settled(app[p])' = Settled(app'[p])
  BY DEF Settled
<1> QED
  BY <1>2 DEF Settled

(* A background job of p, or a handler that touches neither its selection nor a save. *)
LEMMA JobActive ==
  ASSUME IInv, ActiveInv, IInv', Grows(past, past'), UNCHANGED <<file, temp>>,
         past'.fresh = past.fresh, PackagesStay, Usable \subseteq Usable',
         NEW p \in Procs, NEW r, app' = [app EXCEPT ![p] = r],
         r.save = app[p].save, r.own = app[p].own, r.up = app[p].up
  PROVE  ActiveInv'
<1>1. app'[p] = r
  BY DEF IInv, TypeOK
<1>2. Settled(r) /\ Undoes(p)'
  <2>1. Settled(r)
    BY DEF ActiveInv, Settled
  <2>2. Undoes(p)'
    <3> SUFFICES ASSUME r.save.caller = "deletion"
                 PROVE  r.save.before.theme = disk'[r.save.dir].package.id
      BY <1>1 DEF Undoes, Deletion
    <3>1. /\ app[p].save.dir \in Dirs
          /\ disk[app[p].save.dir].where = "deleting"
          /\ disk'[app[p].save.dir].where = "deleting"
      BY <1>1 DEF IInv, Deletions, Deletion
    <3>2. disk'[app[p].save.dir].package = disk[app[p].save.dir].package
      BY <3>1 DEF PackagesStay
    <3> QED
      BY <3>2 DEF ActiveInv, Undoes, Deletion
  <2> QED
    BY <2>1, <2>2
<1>3. Temps' /\ (~past.together => \A q \in Procs : Ready(q))'
  BY TempsKept
<1>4. Owed(p) => Owed(p)'
  <2>1. CASE Deletion(p) /\ disk[app[p].save.dir].package.id = file.value.theme
    <3>1. /\ app[p].save.dir \in Dirs
          /\ disk[app[p].save.dir].where = "deleting"
          /\ disk'[app[p].save.dir].where = "deleting"
      BY <1>1, <2>1 DEF IInv, Deletions, Deletion
    <3>2. disk'[app[p].save.dir].package = disk[app[p].save.dir].package
      BY <3>1 DEF PackagesStay
    <3> QED
      BY <1>1, <2>1, <3>2 DEF Owed, Deletion
  <2>2. CASE app[p].save.caller = "fallback" /\ past.failures >= 2
    BY <1>1, <2>2 DEF Owed, Grows, Past, IInv, TypeOK
  <2> QED
    BY <2>1, <2>2 DEF Owed
<1>5. ~Excused' /\ past'.fresh[p] => Follows(r, Usable', file.value.theme)
  <2>1. ~Excused' /\ past.fresh[p] => Follows(app[p], Usable, file.value.theme)
    BY GrowsIsExcused DEF ActiveInv, Coverage
  <2> QED
    BY <2>1 DEF Follows
<1>6. Coverage'
  BY <1>4, <1>5, CoverageKept
<1> QED
  BY <1>2, <1>3, <1>6, SavesKept DEF ActiveInv

(* A handler of a process at rest that begins at most a save of another kind. *)
LEMMA HandlerActive ==
  ASSUME IInv, ActiveInv, IInv', Grows(past, past'), UNCHANGED <<file, temp>>,
         PackagesStay, Usable \subseteq Usable',
         NEW p \in Procs, Idle(p), \A q \in Procs \ {p} : past'.fresh[q] => past.fresh[q],
         NEW r, app' = [app EXCEPT ![p] = r],
         r.save.step \in {"none", "open"}, r.save.caller # "deletion", Settled(r),
         ~Excused' /\ past'.fresh[p] => Follows(r, Usable', file.value.theme)
  PROVE  ActiveInv'
<1>1. app'[p] = r
  BY DEF IInv, TypeOK
<1>2. Undoes(p)'
  BY <1>1 DEF Undoes, Deletion
<1>3. Temps' /\ (~past.together => \A q \in Procs : Ready(q))'
  BY TempsKept DEF Idle
<1>4. ~Owed(p)
  BY AtRest, NoSaveTyped DEF Owed, Deletion
<1>5. Coverage'
  BY <1>4, CoverageKept
<1> QED
  BY <1>2, <1>3, <1>5, SavesKept DEF ActiveInv
------------------------------------------------------------------------------
(* No directory changes. *)
LEMMA SameDirs ==
  ASSUME UNCHANGED disk
  PROVE  PackagesStay /\ Usable \subseteq Usable' /\ Usable' = Usable
  BY DEF PackagesStay, Usable, InstalledIds, InstalledDirs

(* A fresh copy at rest. *)
LEMMA AtRestFollows ==
  ASSUME IInv, ActiveInv, NEW p \in Procs, Idle(p)
  PROVE  /\ app[p].save = NoSave
         /\ ~Excused /\ past.fresh[p] => app[p].own.theme \in {Default, file.value.theme}
<1>1. app[p].save = NoSave
  BY AtRest
<1>2. ~Excused /\ past.fresh[p] => Follows(app[p], Usable, file.value.theme)
  BY DEF ActiveInv, Coverage
<1> QED
  BY <1>1, <1>2, RestFollows DEF ActiveInv, Settled

(* A window's save that keeps its theme. *)
LEMMA BegunTheme ==
  ASSUME NEW r \in Process, NEW caller \in Callers, NEW before \in Settings \cup {None}
  PROVE  LET q == BeginSave(r, caller, before, 0, None)
         IN  q.up = r.up /\ q.own = r.own /\ Begins(q, caller, before)
<1> DEFINE q == BeginSave(r, caller, before, 0, None)
<1>1. /\ Framed(q, r) /\ q.own = r.own
      /\ q.save = [step |-> "open", caller |-> caller, before |-> before, dir |-> 0,
                   next |-> None]
  BY Begun
<1> HIDE DEF q
<1> QED
  BY <1>1 DEF Framed, Begins, q

LEMMA EditControlActive ==
  ASSUME IInv, ActiveInv, IInv', NEW w \in Windows, EditControl(w) PROVE ActiveInv'
<1> DEFINE r == [app[w] EXCEPT !.combo = Other(app[w].combo)]
<1>1. w \in Procs /\ app' = [app EXCEPT ![w] = r]
  BY DEF EditControl, Procs, Becomes
<1>2. r.own = app[w].own /\ r.save = app[w].save /\ r.up = app[w].up
  BY <1>1 DEF IInv, TypeOK, Process
<1> HIDE DEF r
<1>3. Grows(past, past') /\ past'.fresh = past.fresh /\ UNCHANGED <<file, temp, disk>>
  BY CountedGrows DEF EditControl
<1> QED
  BY <1>1, <1>2, <1>3, SameDirs, JobActive

LEMMA KeepingThemeActive ==
  ASSUME IInv, ActiveInv, IInv', Grows(past, past'), past'.fresh = past.fresh,
         UNCHANGED <<file, temp, disk>>,
         NEW w \in Procs, Idle(w), app[w].up # "no",
         NEW q \in Process, q.up = app[w].up, q.own.theme = app[w].own.theme,
         NEW caller \in {"plain", "closing"},
         app' = [app EXCEPT ![w] = BeginSave(q, caller, None, 0, None)]
  PROVE  ActiveInv'
<1> DEFINE r == BeginSave(q, caller, None, 0, None)
<1>1. r.up = q.up /\ r.own = q.own /\ Begins(r, caller, None)
  BY BegunTheme DEF Callers
<1>2. app' = [app EXCEPT ![w] = r]
  OBVIOUS
<1> HIDE DEF r
<1>3. Settled(r) /\ r.save.step \in {"none", "open"} /\ r.save.caller # "deletion"
  BY <1>1 DEF Settled, Begins
<1>4. ~Excused' /\ past'.fresh[w] => Follows(r, Usable', file.value.theme)
  BY <1>1, AtRestFollows, GrowsIsExcused DEF Follows, Begins
<1> QED
  BY <1>2, <1>3, <1>4, SameDirs, HandlerActive

LEMMA ChangeAppearanceActive ==
  ASSUME IInv, ActiveInv, IInv', NEW w \in Windows, ChangeAppearance(w) PROVE ActiveInv'
<1> DEFINE q == FromControls(app[w])
<1>1. /\ w \in Procs /\ Idle(w) /\ app[w].up # "no"
      /\ app' = [app EXCEPT ![w] = BeginSave(q, "plain", None, 0, None)]
  BY DEF ChangeAppearance, Showing, Procs, Becomes
<1>2. q \in Process /\ q.up = app[w].up /\ q.own.theme = app[w].own.theme
  BY <1>1, AtRest, Controls DEF Framed
<1>3. Grows(past, past') /\ past'.fresh = past.fresh /\ UNCHANGED <<file, temp, disk>>
  BY CountedGrows DEF ChangeAppearance
<1> HIDE DEF q
<1> QED
  BY <1>1, <1>2, <1>3, KeepingThemeActive

LEMMA ResetAppearanceActive ==
  ASSUME IInv, ActiveInv, IInv', NEW w \in Windows, ResetAppearance(w) PROVE ActiveInv'
<1> DEFINE taken == FromControls(app[w])
           own == [taken.own EXCEPT !.theme = Default]
           chosen == [taken EXCEPT !.own = own]
           r == BeginSave(chosen, "reset", app[w].own, 0, None)
<1>1. w \in Procs /\ Idle(w) /\ app[w].up # "no" /\ app' = [app EXCEPT ![w] = r]
  BY DEF ResetAppearance, Showing, Procs, Becomes
<1>2. app[w] \in Process /\ app[w].own \in Settings
  BY <1>1, AtRest DEF Process
<1>3. Framed(taken, app[w]) /\ taken.own \in Settings
  BY <1>2, Controls
<1>4. own \in Settings /\ own.theme = Default
  BY <1>3, ThemeSet DEF Themes
<1> HIDE DEF taken, own
<1>5. Framed(chosen, taken) /\ chosen.own = own
  BY <1>3, <1>4, OwnSet DEF Framed
<1> HIDE DEF chosen
<1>6. r.up = chosen.up /\ r.own = chosen.own /\ Begins(r, "reset", app[w].own)
  BY <1>2, <1>5, BegunTheme DEF Callers, Framed
<1> HIDE DEF r
<1>7. r.up # "no" /\ r.own.theme = Default
  BY <1>1, <1>3, <1>4, <1>5, <1>6 DEF Framed
<1>8. Settled(r) /\ r.save.step \in {"none", "open"} /\ r.save.caller # "deletion"
  BY <1>6, <1>7 DEF Settled, Begins
<1>9. Grows(past, past') /\ past'.fresh = past.fresh /\ UNCHANGED <<file, temp, disk>>
  BY CountedGrows DEF ResetAppearance
<1>10. ~Excused' /\ past'.fresh[w] => Follows(r, Usable', file.value.theme)
  BY <1>1, <1>6, <1>7, <1>9, AtRestFollows, GrowsIsExcused DEF Follows, Begins
<1> QED
  BY <1>1, <1>8, <1>9, <1>10, SameDirs, HandlerActive

LEMMA MenuToggleActive ==
  ASSUME IInv, ActiveInv, IInv', NEW w \in Windows, MenuToggle(w) PROVE ActiveInv'
<1> DEFINE own == Toggled(app[w].own)
           q == [app[w] EXCEPT !.own = own]
<1>1. w \in Procs /\ Idle(w) /\ app[w].up # "no"
  BY DEF MenuToggle, Showing, Procs
<1>2. /\ app[w] \in Process /\ app[w].own \in Settings
      /\ Other(app[w].own.characters) \in CharacterSets
  BY <1>1, AtRest DEF Process, Other, CharacterSets
<1>3. own \in Settings /\ own.theme = app[w].own.theme
  BY <1>2, CharactersSet DEF Toggled
<1>4. app' = [app EXCEPT ![w] = BeginSave(q, "plain", None, 0, None)]
  BY DEF MenuToggle, Becomes
<1> HIDE DEF own
<1>5. q \in Process /\ q.up = app[w].up /\ q.own.theme = app[w].own.theme
  BY <1>2, <1>3, OwnSet DEF Framed
<1> HIDE DEF q
<1>6. Grows(past, past') /\ past'.fresh = past.fresh /\ UNCHANGED <<file, temp, disk>>
  BY CountedGrows DEF MenuToggle
<1> QED
  BY <1>1, <1>4, <1>5, <1>6, KeepingThemeActive

(* The fresh copies after one more, or one less. *)
LEMMA FreshGrows ==
  ASSUME IInv, NEW history, Grows(past, history), history.fresh = past.fresh,
         NEW p \in Procs, NEW b \in BOOLEAN,
         past' = [history EXCEPT !.fresh = [@ EXCEPT ![p] = b]]
  PROVE  /\ Grows(past, past') /\ past'.fresh[p] = b
         /\ \A q \in Procs \ {p} : past'.fresh[q] = past.fresh[q]
  BY DEF Grows, Past

LEMMA RunMenuActionActive ==
  ASSUME IInv, ActiveInv, IInv', RunMenuAction PROVE ActiveInv'
<1> DEFINE read == [app[Broker] EXCEPT !.own = file.value]
           own == Toggled(file.value)
           q == [read EXCEPT !.own = own]
           r == BeginSave(q, "plain", None, 0, None)
<1>1. Broker \in Procs /\ Idle(Broker)
  BY DEF RunMenuAction, Procs
<1>2. app[Broker] \in Process /\ app[Broker].up = "broker"
  BY <1>1, AtRest DEF IInv, InMenu
<1>3. file.value \in Settings /\ Other(file.value.characters) \in CharacterSets
  BY DEF IInv, TypeOK, SettingsFile, Other, CharacterSets
<1>4. own \in Settings /\ own.theme = file.value.theme
  BY <1>3, CharactersSet DEF Toggled
<1>5. app' = [app EXCEPT ![Broker] =
                BeginSave([read EXCEPT !.own = Toggled(read.own)], "plain", None, 0, None)]
  BY DEF RunMenuAction, Becomes
<1>6. Framed(read, app[Broker]) /\ read.own = file.value
  BY <1>2, <1>3, OwnSet
<1>7. app' = [app EXCEPT ![Broker] = r]
  BY <1>5, <1>6
<1> HIDE DEF read, own
<1>8. Framed(q, read) /\ q.own = own
  BY <1>4, <1>6, OwnSet DEF Framed
<1> HIDE DEF q
<1>9. r.up = q.up /\ r.own = q.own /\ Begins(r, "plain", None)
  BY <1>8, BegunTheme DEF Callers, Framed
<1> HIDE DEF r
<1>10. r.up = "broker" /\ r.own.theme = file.value.theme
  BY <1>2, <1>4, <1>6, <1>8, <1>9 DEF Framed
<1>11. Settled(r) /\ r.save.step \in {"none", "open"} /\ r.save.caller # "deletion"
  BY <1>9, <1>10 DEF Settled, Begins
<1>12. Follows(r, Usable', file.value.theme)
  BY <1>9, <1>10 DEF Follows, Begins
<1>13. /\ Grows(past, past') /\ UNCHANGED <<file, temp, disk>>
       /\ \A v \in Procs \ {Broker} : past'.fresh[v] = past.fresh[v]
  BY <1>1, CountedGrows, FreshGrows DEF RunMenuAction
<1> QED
  BY <1>1, <1>7, <1>11, <1>12, <1>13, SameDirs, HandlerActive

LEMMA ApplyThemeActive ==
  ASSUME IInv, ActiveInv, IInv', NEW w \in Windows, NEW id \in Themes, ApplyTheme(w, id)
  PROVE  ActiveInv'
<1> DEFINE r == SelectTheme(app[w], id)
<1>1. /\ w \in Procs /\ Idle(w) /\ app[w].up # "no" /\ app' = [app EXCEPT ![w] = r]
      /\ Acts /\ UNCHANGED <<file, temp, disk>>
  BY DEF ApplyTheme, Showing, Procs, Becomes
<1>2. app[w] \in Process
  BY <1>1, AtRest
<1>3. \/ r = app[w]
      \/ id \in app[w].listed /\ r.own.theme = id /\ r.up = app[w].up
         /\ Begins(r, "select", app[w].own)
  BY <1>2, SelectedTheme
<1> HIDE DEF r
<1>4. Grows(past, past') /\ past'.fresh = past.fresh /\ (Stale(app[w], id) => past'.crossed)
  <2>1. Grows(past, Acted) /\ Acted.fresh = past.fresh
    BY <1>1, CountedGrows
  <2>2. Stale(app[w], id) \in BOOLEAN
    BY DEF Stale
  <2>3. past' = [Acted EXCEPT !.crossed = Acted.crossed \/ Stale(app[w], id)]
    BY DEF ApplyTheme
  <2> QED
    BY <2>1, <2>2, <2>3 DEF Grows, Past
<1>5. Settled(r) /\ r.save.step \in {"none", "open"} /\ r.save.caller # "deletion"
  BY <1>1, <1>3, AtRestFollows, RestFollows, NoSaveTyped DEF Settled, Begins
<1>6. ASSUME ~Excused', past'.fresh[w] PROVE Follows(r, Usable', file.value.theme)
  <2>1. app[w].own.theme \in {Default, file.value.theme} /\ app[w].save = NoSave
    BY <1>1, <1>4, <1>6, AtRestFollows, GrowsIsExcused
  <2>2. CASE r = app[w]
    BY <1>1, <2>1, <2>2, RestFollows
  <2>3. CASE id \in app[w].listed /\ r.own.theme = id /\ Begins(r, "select", app[w].own)
    <3>1. id \in Usable
      BY <1>4, <1>6, <2>3 DEF Stale, Excused, Usable
    <3> QED
      BY <1>1, <2>1, <2>3, <3>1, SameDirs DEF Follows, Begins
  <2> QED
    BY <1>3, <2>2, <2>3
<1> QED
  BY <1>1, <1>4, <1>5, <1>6, SameDirs, HandlerActive
(* The catalog is read again by a window at rest. *)
LEMMA ReloadActive ==
  ASSUME IInv, ActiveInv, IInv', Grows(past, past'), past'.fresh = past.fresh,
         UNCHANGED <<file, temp, disk>>,
         NEW w \in Procs, Idle(w), app[w].up # "no",
         NEW q \in Process, q.save = NoSave, q.own = app[w].own, q.up = app[w].up,
         NEW next \in Themes \cup {None},
         app' = [app EXCEPT ![w] = ReloadThemeCatalog(q, InstalledIds, next)]
  PROVE  ActiveInv'
<1> DEFINE r == ReloadThemeCatalog(q, InstalledIds, next)
<1>1. InstalledIds \in SUBSET Ids /\ InstalledIds \cup {Default} \subseteq Usable
  BY IdsInstalled DEF Usable
<1>2. /\ Settled(r) /\ r.save.step \in {"none", "open"} /\ r.save.caller # "deletion"
      /\ q.own.theme \in {Default, file.value.theme} => Follows(r, Usable, file.value.theme)
  BY <1>1, ReloadFollows
<1>3. app' = [app EXCEPT ![w] = r]
  OBVIOUS
<1> HIDE DEF r
<1>4. ~Excused' /\ past'.fresh[w] => Follows(r, Usable', file.value.theme)
  BY <1>2, AtRestFollows, GrowsIsExcused, SameDirs
<1> QED
  BY <1>2, <1>3, <1>4, SameDirs, HandlerActive

LEMMA ImportDoneActive ==
  ASSUME IInv, ActiveInv, IInv', NEW w \in Windows, ImportDone(w) PROVE ActiveInv'
<1> DEFINE id == Head(app[w].posted).id
           r == [app[w] EXCEPT !.importing = FALSE, !.posted = Tail(app[w].posted)]
<1>1. /\ w \in Procs /\ Idle(w) /\ app[w].up # "no" /\ app[w].posted # <<>>
      /\ app' = [app EXCEPT ![w] =
                   IF id = None THEN r ELSE ReloadThemeCatalog(r, InstalledIds, id)]
  BY DEF ImportDone, Showing, Procs, Becomes
<1>2. app[w] \in Process /\ app[w].save = NoSave
  BY <1>1, AtRest
<1>3. Tail(app[w].posted) \in Seq(Posted) /\ Head(app[w].posted) \in Posted
  BY <1>1, <1>2 DEF Process
<1>4. id \in Themes \cup {None}
  BY <1>3 DEF Posted, Themes
<1>5. r \in Process /\ r.up = app[w].up /\ r.own = app[w].own /\ r.save = app[w].save
  BY <1>2, <1>3 DEF Process
<1> HIDE DEF r, id
<1>6. Grows(past, past') /\ past'.fresh = past.fresh /\ UNCHANGED <<file, temp, disk>>
  BY CountedGrows DEF ImportDone
<1>7. CASE id = None
  BY <1>1, <1>5, <1>6, <1>7, SameDirs, JobActive
<1>8. CASE id # None
  <2>1. app' = [app EXCEPT ![w] = ReloadThemeCatalog(r, InstalledIds, id)]
    BY <1>1, <1>8
  <2> QED
    BY <1>1, <1>2, <1>4, <1>5, <1>6, <2>1, ReloadActive
<1> QED
  BY <1>7, <1>8

LEMMA RemovalDoneActive ==
  ASSUME IInv, ActiveInv, IInv', NEW w \in Windows, RemovalDone(w) PROVE ActiveInv'
<1> DEFINE r == [app[w] EXCEPT !.posted = Tail(@)]
<1>1. /\ w \in Procs /\ Idle(w) /\ app[w].up # "no" /\ app[w].posted # <<>>
      /\ app' = [app EXCEPT ![w] = ReloadThemeCatalog(r, InstalledIds, None)]
  BY DEF RemovalDone, Showing, Procs, Becomes
<1>2. app[w] \in Process /\ app[w].save = NoSave
  BY <1>1, AtRest
<1>3. Tail(app[w].posted) \in Seq(Posted)
  BY <1>1, <1>2 DEF Process
<1>4. r \in Process /\ r.up = app[w].up /\ r.own = app[w].own /\ r.save = NoSave
  BY <1>2, <1>3 DEF Process
<1> HIDE DEF r
<1>5. Grows(past, past') /\ past'.fresh = past.fresh /\ UNCHANGED <<file, temp, disk>>
  BY CountedGrows DEF RemovalDone
<1> QED
  BY <1>1, <1>4, <1>5, ReloadActive

LEMMA ImportThemeActive ==
  ASSUME IInv, ActiveInv, IInv', NEW w \in Windows, NEW package \in Packages,
         ImportTheme(w, package)
  PROVE  ActiveInv'
<1> DEFINE r == [app[w] EXCEPT !.importing = TRUE, !.package = package]
<1>1. w \in Procs /\ app' = [app EXCEPT ![w] = r]
  BY DEF ImportTheme, Procs, Becomes
<1>2. r.own = app[w].own /\ r.save = app[w].save /\ r.up = app[w].up
  BY <1>1 DEF IInv, TypeOK, Process
<1> HIDE DEF r
<1>3. Grows(past, past') /\ past'.fresh = past.fresh /\ UNCHANGED <<file, temp, disk>>
  BY CountedGrows DEF ImportTheme
<1> QED
  BY <1>1, <1>2, <1>3, SameDirs, JobActive

(* A process is opened: its copy is the file's. *)
LEMMA OpenActive ==
  ASSUME IInv, ActiveInv, IInv', NEW w \in Windows, NEW up \in {"full", "menu"}, Open(w, up)
  PROVE  ActiveInv'
<1> DEFINE loaded == [Closed EXCEPT !.up = up, !.own = LoadSettings]
           set == [loaded EXCEPT !.combo = loaded.own.characters]
           r == IF up = "full" THEN ReloadThemeCatalog(set, InstalledIds, None) ELSE loaded
<1>1. /\ loaded \in Process /\ loaded.up = up /\ loaded.own = file.value
      /\ loaded.save = NoSave
  BY Loaded DEF LoadSettings
<1>2. w \in Procs /\ Idle(w)
  BY DEF Procs, Open, ActiveInv, Settled, Idle
<1>3. app' = [app EXCEPT ![w] = r] /\ UNCHANGED <<file, temp, disk>>
  BY DEF Open, Becomes, InitializeSettingsControls
<1> HIDE DEF loaded
<1>4. set \in Process /\ set.save = NoSave /\ set.own = file.value /\ set.up = up
  BY <1>1 DEF Process, Settings
<1> HIDE DEF set
<1>5. /\ Grows(past, past')
      /\ \A q \in Procs \ {w} : past'.fresh[q] = past.fresh[q]
  BY <1>2, CountedGrows, FreshGrows DEF Open
<1>6. /\ Settled(r) /\ r.save.step \in {"none", "open"} /\ r.save.caller # "deletion"
      /\ Follows(r, Usable', file.value.theme)
  <2>1. CASE up = "full"
    <3>1. InstalledIds \in SUBSET Ids /\ InstalledIds \cup {Default} \subseteq Usable'
      BY <1>3, IdsInstalled, SameDirs DEF Usable
    <3> QED
      BY <1>4, <2>1, <3>1, ReloadFollows
  <2>2. CASE up # "full"
    BY <1>1, <2>2, RestFollows, NoSaveTyped
  <2> QED
    BY <2>1, <2>2
<1> HIDE DEF r
<1> QED
  BY <1>2, <1>3, <1>5, <1>6, SameDirs, HandlerActive

LEMMA CloseActive ==
  ASSUME IInv, ActiveInv, IInv', NEW w \in Windows, Close(w) PROVE ActiveInv'
<1>1. w \in Procs /\ UNCHANGED <<file, temp, disk>> /\ past \in Past
  BY CountedGrows DEF Close, Procs
<1>2. CASE /\ Showing(w, "full") /\ UNCHANGED past
           /\ Becomes(w, BeginSave(FromControls(app[w]), "closing", None, 0, None))
  <2> DEFINE q == FromControls(app[w])
  <2>1. /\ Idle(w) /\ app[w].up # "no"
        /\ app' = [app EXCEPT ![w] = BeginSave(q, "closing", None, 0, None)]
    BY <1>2 DEF Showing, Becomes
  <2>2. q \in Process /\ q.up = app[w].up /\ q.own.theme = app[w].own.theme
    BY <1>1, <2>1, AtRest, Controls DEF Framed
  <2> HIDE DEF q
  <2> QED
    BY <1>1, <1>2, <2>1, <2>2, CountedGrows, KeepingThemeActive
<1>3. CASE /\ Showing(w, "menu") /\ Becomes(w, Closed)
           /\ past' = [past EXCEPT !.fresh = [past.fresh EXCEPT ![w] = FALSE]]
  <2>1. Idle(w) /\ app' = [app EXCEPT ![w] = Closed]
    BY <1>3 DEF Showing, Becomes
  <2>2. /\ Grows(past, past') /\ ~past'.fresh[w]
        /\ \A q \in Procs \ {w} : past'.fresh[q] = past.fresh[q]
    BY <1>1, <1>3, CountedGrows, FreshGrows
  <2>3. Closed.save = NoSave /\ Closed.own.theme = Default
    BY DEF Closed, DefaultSettings
  <2> QED
    BY <1>1, <2>1, <2>2, <2>3, SameDirs, RestFollows, NoSaveTyped, HandlerActive
<1> QED
  BY <1>2, <1>3 DEF Close
------------------------------------------------------------------------------
(* A background job has gone on, or an answer to the dialog has come. *)
LEMMA PostedSame ==
  ASSUME NEW r \in Process, NEW job, NEW id
  PROVE  /\ Post(r, job, id).save = r.save /\ Post(r, job, id).own = r.own
         /\ Post(r, job, id).up = r.up
  BY DEF Post, Process

Ran(w) ==
  \E r : /\ app' = [app EXCEPT ![w] = r]
         /\ r.save = app[w].save /\ r.own = app[w].own /\ r.up = app[w].up

LEMMA RanOn ==
  ASSUME IInv, NEW w \in Procs
  PROVE  /\ UNCHANGED app => Ran(w)
         /\ \A id : ImportEnds(w, id) => Ran(w)
         /\ app' = [app EXCEPT ![w] = Post(@, "removal", None)] => Ran(w)
<1>1. app \in [Procs -> Process] /\ app[w] \in Process
  BY DEF IInv, TypeOK
<1>2. ASSUME UNCHANGED app PROVE Ran(w)
  <2>1. app' = [app EXCEPT ![w] = app[w]]
    BY <1>1, <1>2
  <2> QED
    BY <2>1 DEF Ran
<1>3. ASSUME NEW id, ImportEnds(w, id) PROVE Ran(w)
  <2> DEFINE ended == [app[w] EXCEPT !.package = None]
             r == Post(ended, "import", id)
  <2>1. /\ ended \in Process /\ ended.save = app[w].save /\ ended.own = app[w].own
        /\ ended.up = app[w].up
    BY <1>1 DEF Process
  <2>2. app' = [app EXCEPT ![w] = r]
    BY <1>3 DEF ImportEnds
  <2> HIDE DEF ended
  <2>3. r.save = app[w].save /\ r.own = app[w].own /\ r.up = app[w].up
    BY <2>1, PostedSame
  <2> QED
    BY <2>2, <2>3 DEF Ran
<1>4. ASSUME app' = [app EXCEPT ![w] = Post(@, "removal", None)] PROVE Ran(w)
  <2> DEFINE r == Post(app[w], "removal", None)
  <2>1. app' = [app EXCEPT ![w] = r]
    BY <1>4
  <2>2. r.save = app[w].save /\ r.own = app[w].own /\ r.up = app[w].up
    BY <1>1, PostedSame
  <2> QED
    BY <2>1, <2>2 DEF Ran
<1> QED
  BY <1>2, <1>3, <1>4

(* One directory that is not a deletion's changes, or keeps its package. *)
LEMMA OneDirActive ==
  ASSUME IInv, ActiveInv, IInv', Grows(past, past'), past'.fresh = past.fresh,
         UNCHANGED <<file, temp>>, NEW w \in Procs, Ran(w), NEW d \in Dirs, Elsewhere(d),
         \/ disk[d].where \in {"none", "staging"}
         \/ disk[d].where = "deleting" /\ disk'[d].where # "deleting"
         \/ disk'[d].where = disk[d].where /\ disk'[d].package = disk[d].package
  PROVE  ActiveInv'
<1>1. disk \in [Dirs -> Directory]
  BY DEF IInv, TypeOK
<1>2. PackagesStay
  BY DEF PackagesStay, Elsewhere
<1>3. \A e \in Dirs : disk[e].where = "installed" =>
        disk'[e].where = "installed" /\ disk'[e].package = disk[e].package
  BY DEF Elsewhere
<1>4. Usable \subseteq Usable'
  BY <1>1, <1>3, StayInstalled
<1>5. PICK r : /\ app' = [app EXCEPT ![w] = r]
               /\ r.save = app[w].save /\ r.own = app[w].own /\ r.up = app[w].up
  BY DEF Ran
<1> QED
  BY <1>2, <1>4, <1>5, JobActive

LEMMA RenamedActive ==
  ASSUME IInv, ActiveInv, IInv', Grows(past, past'), past'.fresh = past.fresh,
         UNCHANGED <<file, temp>>, NEW w \in Procs, Ran(w), NEW d \in Dirs,
         NEW where \in Where, NEW by \in SUBSET Windows, disk' = Renamed(d, where, by),
         disk[d].where = "staging" \/ where = disk[d].where
  PROVE  ActiveInv'
<1>1. disk \in [Dirs -> Directory]
  BY DEF IInv, TypeOK
<1>2. Elsewhere(d) /\ disk'[d].where = where /\ disk'[d].package = disk[d].package
  BY <1>1, RenamedDir DEF Elsewhere
<1> QED
  BY <1>2, OneDirActive

LEMMA DeleteThemeActive ==
  ASSUME IInv, ActiveInv, IInv', NEW w \in Windows, NEW d \in Dirs, DeleteTheme(w, d)
  PROVE  ActiveInv'
<1>1. w \in Procs /\ disk[d].where = "installed" /\ disk' = Renamed(d, "installed", {w})
  BY DEF Procs, DeleteTheme, InstalledDirs
<1>2. Grows(past, past') /\ past'.fresh = past.fresh /\ UNCHANGED <<file, temp, app>>
  BY CountedGrows DEF DeleteTheme
<1> QED
  BY <1>1, <1>2, RanOn, RenamedActive DEF Where

LEMMA CancelActive ==
  ASSUME IInv, ActiveInv, IInv', NEW w \in Windows, NEW d \in Dirs, Cancel(w, d)
  PROVE  ActiveInv'
<1>1. /\ w \in Procs /\ disk[d].where = "installed"
      /\ disk' = Renamed(d, "installed", disk[d].by \ {w}) /\ disk[d].by \in SUBSET Windows
  BY DirTyped DEF Procs, Cancel, Asking, InstalledDirs
<1>2. Grows(past, past') /\ past'.fresh = past.fresh /\ UNCHANGED <<file, temp, app>>
  BY CountedGrows DEF Cancel
<1> QED
  BY <1>1, <1>2, RanOn, RenamedActive DEF Where

(* Another failure, after those of the past. *)
LEMMA FailuresGrow ==
  ASSUME IInv, NEW history, Grows(past, history), history.fresh = past.fresh,
         past' = [history EXCEPT !.failures = @ + 1, !.left = TRUE],
         history.failures < MaxFailures
  PROVE  Grows(past, past') /\ past'.fresh = past.fresh
         /\ past'.failures = history.failures + 1
<1> DEFINE n == history.failures + 1
<1>1. n \in 0 .. MaxFailures /\ n \in Nat /\ n >= past.failures
  BY BoundsAssumption DEF Grows, Past, IInv, TypeOK
<1>2. past' = [history EXCEPT !.failures = n, !.left = TRUE] /\ history \in Past
  BY DEF Grows
<1> HIDE DEF n
<1>3. /\ past' \in Past /\ past'.failures = n /\ past'.fresh = history.fresh
      /\ past'.together = history.together /\ past'.crossed = history.crossed
      /\ past'.cut = history.cut
  BY <1>1, <1>2 DEF Past
<1> QED
  BY <1>1, <1>3 DEF Grows, n

LEMMA ImportFailsActive ==
  ASSUME IInv, ActiveInv, IInv', NEW w \in Windows, NEW d \in Dirs, Staging(w, d), NEW history,
         Grows(past, history), history.fresh = past.fresh, ImportFails(w, d, history),
         UNCHANGED <<file, temp>>
  PROVE  ActiveInv'
<1>1. w \in Procs /\ disk[d].where = "staging" /\ disk \in [Dirs -> Directory] /\ Ran(w)
  BY RanOn, DirTyped DEF Procs, Staging, ImportFails
<1>2. CASE disk' = Removed(d) /\ past' = history
  <2>1. Elsewhere(d)
    BY <1>1, <1>2, RemovedDir DEF Elsewhere
  <2> QED
    BY <1>1, <1>2, <2>1, OneDirActive
<1>3. CASE /\ history.failures < MaxFailures /\ disk' = Renamed(d, "staging", {})
           /\ past' = [history EXCEPT !.failures = @ + 1, !.left = TRUE]
  <2>1. Grows(past, past') /\ past'.fresh = past.fresh
    BY <1>3, FailuresGrow
  <2>2. "staging" \in Where /\ {} \in SUBSET Windows
    BY DEF Where
  <2> QED
    BY <1>1, <1>3, <2>1, <2>2, RenamedActive
<1> QED
  BY <1>2, <1>3 DEF ImportFails

LEMMA ImportStageActive ==
  ASSUME IInv, ActiveInv, IInv', NEW w \in Windows, ImportStage(w) PROVE ActiveInv'
<1>1. w \in Procs /\ UNCHANGED <<file, temp>> /\ disk \in [Dirs -> Directory]
  BY DEF ImportStage, Procs, IInv, TypeOK
<1>2. ASSUME NEW d \in Dirs, d \in Fresh, UNCHANGED <<app, past>>,
             disk' = [disk EXCEPT ![d] = [where |-> "staging", package |-> app[w].package,
                                          content |-> "empty", by |-> {w}]]
      PROVE  ActiveInv'
  <2>1. disk[d].where = "none" /\ Elsewhere(d)
    BY <1>1, <1>2 DEF Fresh, Elsewhere
  <2> QED
    BY <1>1, <1>2, <2>1, RanOn, CountedGrows, OneDirActive
<1>3. CASE MayFail /\ ImportEnds(w, None) /\ past' = Failed /\ UNCHANGED disk
  <2>1. PICK r : /\ app' = [app EXCEPT ![w] = r]
                 /\ r.save = app[w].save /\ r.own = app[w].own /\ r.up = app[w].up
    BY <1>1, <1>3, RanOn DEF Ran
  <2> QED
    BY <1>1, <1>3, <2>1, CountedGrows, SameDirs, JobActive
<1> QED
  BY <1>2, <1>3 DEF ImportStage

LEMMA ImportStepActive ==
  ASSUME IInv, ActiveInv, IInv', NEW w \in Windows, NEW d \in Dirs, NEW from, NEW to,
         NEW refused, ImportStep(w, d, from, to, refused)
  PROVE  ActiveInv'
<1>1. /\ w \in Procs /\ Staging(w, d) /\ UNCHANGED <<file, temp>>
      /\ disk[d].where = "staging" /\ disk \in [Dirs -> Directory]
  BY DEF ImportStep, Procs, IInv, TypeOK, Staging
<1>2. CASE disk' = [disk EXCEPT ![d] = [@ EXCEPT !.content = to]] /\ UNCHANGED <<app, past>>
  <2>1. Elsewhere(d)
    BY <1>1, <1>2 DEF Elsewhere
  <2> QED
    BY <1>1, <1>2, <2>1, RanOn, CountedGrows, OneDirActive
<1>3. CASE ImportFails(w, d, past)
  BY <1>1, <1>3, CountedGrows, ImportFailsActive
<1>4. CASE MayFail /\ ImportFails(w, d, Failed)
  BY <1>1, <1>4, CountedGrows, ImportFailsActive
<1> QED
  BY <1>2, <1>3, <1>4 DEF ImportStep

LEMMA ImportPublishActive ==
  ASSUME IInv, ActiveInv, IInv', NEW w \in Windows, NEW d \in Dirs, ImportPublish(w, d)
  PROVE  ActiveInv'
<1>1. /\ w \in Procs /\ Staging(w, d) /\ UNCHANGED <<file, temp>>
      /\ disk[d].where = "staging"
  BY DEF ImportPublish, Procs, Staging
<1>2. CASE /\ disk' = Renamed(d, "installed", {}) /\ ImportEnds(w, disk[d].package.id)
           /\ UNCHANGED past
  BY <1>1, <1>2, RanOn, CountedGrows, RenamedActive DEF Where
<1>3. CASE ImportFails(w, d, past)
  BY <1>1, <1>3, CountedGrows, ImportFailsActive
<1>4. CASE MayFail /\ ImportFails(w, d, Failed)
  BY <1>1, <1>4, CountedGrows, ImportFailsActive
<1> QED
  BY <1>2, <1>3, <1>4 DEF ImportPublish

LEMMA RemoveTreeActive ==
  ASSUME IInv, ActiveInv, IInv', NEW w \in Windows, NEW d \in Dirs, RemoveTree(w, d)
  PROVE  ActiveInv'
<1>1. /\ w \in Procs /\ disk[d].where = "deleting" /\ UNCHANGED <<file, temp>>
      /\ disk \in [Dirs -> Directory] /\ disk[d] \in Directory
  BY DEF RemoveTree, Deleting, Procs, IInv, TypeOK
<1>2. CASE /\ disk' = [disk EXCEPT ![d] = [@ EXCEPT !.content = "partial"]]
           /\ UNCHANGED <<app, past>>
  <2>1. /\ Elsewhere(d) /\ disk'[d].where = disk[d].where
        /\ disk'[d].package = disk[d].package
    BY <1>1, <1>2 DEF Elsewhere, Directory
  <2> QED
    BY <1>1, <1>2, <2>1, RanOn, CountedGrows, OneDirActive
<1>3. CASE /\ disk' = Removed(d) /\ app' = [app EXCEPT ![w] = Post(@, "removal", None)]
           /\ UNCHANGED past
  <2>1. Elsewhere(d) /\ disk'[d].where = "none"
    BY <1>1, <1>3, RemovedDir DEF Elsewhere
  <2> QED
    BY <1>1, <1>3, <2>1, RanOn, CountedGrows, OneDirActive
<1>4. CASE /\ disk' = Renamed(d, "deleting", {}) /\ Grows(past, past') /\ past'.fresh = past.fresh
           /\ app' = [app EXCEPT ![w] = Post(@, "removal", None)]
  <2>1. Ran(w) /\ "deleting" \in Where /\ {} \in SUBSET Windows
    BY <1>1, <1>4, RanOn DEF Where
  <2> QED
    BY <1>1, <1>4, <2>1, RenamedActive
<1>5. MayFail /\ past' = [Failed EXCEPT !.left = TRUE] =>
        Grows(past, past') /\ past'.fresh = past.fresh
  BY CountedGrows DEF Grows, Past
<1> QED
  BY <1>2, <1>3, <1>4, <1>5, CountedGrows DEF RemoveTree
------------------------------------------------------------------------------
(* A confirmed deletion: the identifier goes, and the copies that would notice are known. *)
LEMMA ConfirmedDirs ==
  ASSUME IInv, NEW w \in Windows, NEW d \in Asking(w), NEW by \in SUBSET Windows,
         disk' = Renamed(d, "deleting", by)
  PROVE  /\ d \in Dirs /\ disk'[d].package = disk[d].package /\ PackagesStay
         /\ disk[d].package.id \in Ids
         /\ (InstalledIds \ {disk[d].package.id}) \cup {Default} \subseteq Usable'
<1>1. d \in Dirs /\ disk[d].where = "installed" /\ disk \in [Dirs -> Directory]
  BY DEF Asking, InstalledDirs, IInv, TypeOK
<1>2. /\ disk'[d].where = "deleting" /\ disk'[d].package = disk[d].package
      /\ \A e \in Dirs \ {d} : disk'[e] = disk[e]
  BY <1>1, RenamedDir DEF Where
<1>3. PackagesStay
  BY <1>1, <1>2 DEF PackagesStay
<1>4. disk[d].package.id \in Ids
  BY <1>1, DirTyped, PackagesAssumption DEF Sound
<1>5. ASSUME NEW e \in InstalledDirs, disk[e].package.id # disk[d].package.id
      PROVE  e \in InstalledDirs' /\ disk'[e].package = disk[e].package
  BY <1>2, <1>5 DEF InstalledDirs
<1>6. InstalledIds \ {disk[d].package.id} \subseteq InstalledIds'
  BY <1>5 DEF InstalledIds
<1> QED
  BY <1>1, <1>2, <1>3, <1>4, <1>6 DEF Usable

LEMMA ConfirmedActive ==
  ASSUME IInv, ActiveInv, IInv', NEW w \in Windows, NEW d \in Asking(w), Idle(w),
         NEW by \in SUBSET Windows, disk' = Renamed(d, "deleting", by), UNCHANGED <<file, temp>>,
         Grows(past, past'), past'.fresh = past.fresh,
         Crosses(w, disk[d].package.id) => past'.crossed,
         NEW r, app' = [app EXCEPT ![w] = r],
         r.save.step \in {"none", "open"}, Settled(r), Undoes(w)',
         app[w].own.theme = disk[d].package.id =>
           (r.save.caller = "deletion" /\ r.save.dir = d) \/ past'.cut,
         ~Excused /\ past.fresh[w] => Follows(r, Usable', file.value.theme)
  PROVE  ActiveInv'
<1> DEFINE id == disk[d].package.id
<1>1. /\ d \in Dirs /\ disk'[d].package = disk[d].package /\ PackagesStay /\ id \in Ids
      /\ (InstalledIds \ {id}) \cup {Default} \subseteq Usable'
  BY ConfirmedDirs
<1>2. w \in Procs /\ app'[w] = r
  BY DEF Procs, IInv, TypeOK
<1>3. Grows(past, past') /\ past'.fresh = past.fresh /\ (Crosses(w, id) => past'.crossed)
  OBVIOUS
<1> HIDE DEF id
<1>4. Temps' /\ (~past.together => \A q \in Procs : Ready(q))'
  BY <1>2, <1>3, TempsKept DEF Idle
<1>5. ~Owed(w)
  BY <1>2, AtRest, NoSaveTyped DEF Owed, Deletion
<1>6. ASSUME ~Excused'
      PROVE  /\ file.value.theme = id => app[w].own.theme = id
             /\ \A p \in Procs \ {w} : app[p].up # "no" => app[p].own.theme # id
  BY <1>3, <1>6 DEF Crosses, Excused
<1>7. ASSUME ~Excused', NEW q \in Procs \ {w}, app[q].own.theme \in Usable
      PROVE  app[q].own.theme \in Usable'
  <2>1. app[q].own.theme # id
    BY <1>1, <1>6, <1>7, ThemesAssumption DEF ActiveInv, Settled
  <2> QED
    BY <1>1, <1>7, <2>1 DEF Usable
<1>8. ASSUME ~Excused', file.value.theme \in Usable
      PROVE  file.value.theme \in Usable' \/ Owed(w)'
  <2>1. CASE file.value.theme # id
    BY <1>1, <1>8, <2>1 DEF Usable
  <2>2. CASE file.value.theme = id
    <3>1. r.save.caller = "deletion" /\ r.save.dir = d
      BY <1>6, <1>8, <2>2 DEF id, Excused
    <3> QED
      BY <1>1, <1>2, <2>2, <3>1 DEF Owed, Deletion, id
  <2> QED
    BY <2>1, <2>2
<1>9. ~Excused' /\ past'.fresh[w] => Follows(r, Usable', file.value.theme)
  BY <1>3, GrowsIsExcused
<1>10. Coverage'
  BY <1>1, <1>2, <1>3, <1>5, <1>7, <1>8, <1>9, CoverageKept
<1> QED
  BY <1>1, <1>2, <1>4, <1>10, SavesKept DEF ActiveInv

LEMMA ConfirmActive ==
  ASSUME IInv, ActiveInv, IInv', NEW w \in Windows, NEW d \in Dirs, Confirm(w, d)
  PROVE  ActiveInv'
<1> DEFINE id == disk[d].package.id
           ids == InstalledIds \ {id}
           taken == FromControls(app[w])
           away == [taken EXCEPT !.own = [@ EXCEPT !.theme = Default]]
           reloaded == ReloadThemeCatalog(app[w], ids, None)
<1>1. /\ w \in Procs /\ Idle(w) /\ app[w].up # "no" /\ d \in Asking(w)
      /\ UNCHANGED <<file, temp>>
  BY DEF Confirm, Showing, Procs
<1>2. app[w] \in Process /\ app[w].save = NoSave /\ app[w].own \in Settings
  BY <1>1, AtRest DEF Process
<1>3. ~Excused /\ past.fresh[w] => app[w].own.theme \in {Default, file.value.theme}
  BY <1>1, AtRestFollows
<1>4. CASE /\ disk' = Renamed(d, "deleting", {w})
           /\ Becomes(w, IF app[w].own.theme = id
                         THEN BeginSave(away, "deletion", app[w].own, d, None)
                         ELSE Removing(reloaded, d))
           /\ past' = [past EXCEPT !.crossed = @ \/ Crosses(w, id)]
  <2>0. /\ disk'[d].package = disk[d].package
        /\ ids \in SUBSET Ids /\ ids \cup {Default} \subseteq Usable'
    BY <1>1, <1>4, ConfirmedDirs, IdsInstalled
  <2>3. /\ Grows(past, past') /\ past'.fresh = past.fresh
        /\ Crosses(w, id) => past'.crossed
    <3> DEFINE crosses == Crosses(w, id)
    <3>1. past \in Past /\ crosses \in BOOLEAN
      BY CountedGrows DEF Crosses
    <3>2. past' = [past EXCEPT !.crossed = past.crossed \/ crosses]
      BY <1>4
    <3> HIDE DEF crosses
    <3>3. /\ Grows(past, past') /\ past'.fresh = past.fresh
          /\ crosses => past'.crossed
      BY <3>1, <3>2 DEF Grows, Past
    <3> QED
      BY <3>3 DEF crosses
  <2>1. CASE app[w].own.theme = id
    <3> DEFINE own == [taken.own EXCEPT !.theme = Default]
               r == BeginSave(away, "deletion", app[w].own, d, None)
    <3>1. Framed(taken, app[w]) /\ taken.own \in Settings
      BY <1>2, Controls
    <3>2. own \in Settings /\ own.theme = Default /\ away = [taken EXCEPT !.own = own]
      BY <3>1, ThemeSet DEF Themes
    <3> HIDE DEF taken, own, away
    <3>3. Framed(away, taken) /\ away.own = own
      BY <3>1, <3>2, OwnSet DEF Framed
    <3>4. /\ Framed(r, away) /\ r.own = own
          /\ r.save = [step |-> "open", caller |-> "deletion", before |-> app[w].own, dir |-> d,
                       next |-> None]
      BY <1>2, <3>3, Begun DEF Framed, Callers
    <3>5. app' = [app EXCEPT ![w] = r]
      BY <1>4, <2>1 DEF Becomes
    <3> HIDE DEF r
    <3>6. /\ r.up # "no" /\ r.own.theme = Default /\ r.save.dir = d
          /\ Begins(r, "deletion", app[w].own)
      BY <1>1, <3>1, <3>2, <3>3, <3>4 DEF Framed, Begins
    <3>7. app'[w] = r
      BY <1>1, <3>5 DEF IInv, TypeOK
    <3>8. Settled(r) /\ Undoes(w)' /\ r.save.step \in {"none", "open"}
      BY <2>0, <2>1, <3>6, <3>7 DEF Settled, Begins, Undoes, Deletion
    <3>9. ~Excused /\ past.fresh[w] => Follows(r, Usable', file.value.theme)
      BY <1>3, <3>6 DEF Follows, Begins
    <3> QED
      BY <1>1, <1>4, <2>3, <3>5, <3>6, <3>8, <3>9, ConfirmedActive DEF Begins
  <2>2. CASE app[w].own.theme # id
    <3> DEFINE r == Removing(reloaded, d)
               save == [reloaded.save EXCEPT !.dir = d]
    <3>1. /\ Settled(reloaded) /\ reloaded.save.step \in {"none", "open"}
          /\ reloaded.save.caller # "deletion"
          /\ app[w].own.theme \in {Default, file.value.theme} =>
               Follows(reloaded, Usable', file.value.theme)
      BY <1>1, <1>2, <2>0, ReloadFollows
    <3>2. Framed(reloaded, app[w])
      BY <1>1, <1>2, <2>0, AtRest, Reloaded DEF Consistent
    <3> HIDE DEF reloaded
    <3>3. reloaded \in Process /\ reloaded.save \in Save
      BY <3>2 DEF Framed, Process
    <3>4. /\ save.step = reloaded.save.step /\ save.caller = reloaded.save.caller
          /\ save.before = reloaded.save.before
      BY <3>3 DEF Save
    <3>5. r = IF reloaded.save.step = "none" THEN reloaded ELSE [reloaded EXCEPT !.save = save]
      BY DEF Removing
    <3> HIDE DEF save
    <3>6. /\ r.own = reloaded.own /\ r.up = reloaded.up
          /\ r.save.step = reloaded.save.step /\ r.save.caller = reloaded.save.caller
          /\ r.save.before = reloaded.save.before
      BY <3>3, <3>4, <3>5 DEF Process
    <3>7. app' = [app EXCEPT ![w] = r]
      BY <1>4, <2>2 DEF Becomes
    <3> HIDE DEF r
    <3>8. app'[w] = r
      BY <1>1, <3>7 DEF IInv, TypeOK
    <3>9. Settled(r) /\ Undoes(w)' /\ r.save.step \in {"none", "open"}
      BY <3>1, <3>6, <3>8 DEF Settled, Undoes, Deletion
    <3>10. ~Excused /\ past.fresh[w] => Follows(r, Usable', file.value.theme)
      BY <1>3, <3>1, <3>6 DEF Follows
    <3> QED
      BY <1>1, <1>4, <2>2, <2>3, <3>7, <3>9, <3>10, ConfirmedActive
  <2> QED
    BY <2>1, <2>2
<1>5. CASE MayFail /\ disk' = Renamed(d, "installed", {}) /\ past' = Failed /\ UNCHANGED app
  <2>1. Grows(past, past') /\ past'.fresh = past.fresh /\ Ran(w)
    BY <1>1, <1>5, CountedGrows, RanOn
  <2>2. /\ "installed" \in Where /\ {} \in SUBSET Windows /\ disk[d].where = "installed"
    BY <1>1 DEF Where, Asking, InstalledDirs
  <2> QED
    BY <1>1, <1>5, <2>1, <2>2, RenamedActive
<1>6. CASE /\ MayFail /\ disk' = Renamed(d, "deleting", {}) /\ UNCHANGED app
           /\ past' = [Failed EXCEPT !.left = TRUE, !.crossed = @ \/ Crosses(w, id),
                                     !.cut = @ \/ app[w].own.theme = id]
  <2>1. /\ Grows(past, past') /\ past'.fresh = past.fresh
        /\ Crosses(w, id) => past'.crossed
        /\ app[w].own.theme = id => past'.cut
    <3> DEFINE crosses == Crosses(w, id)
               cuts == app[w].own.theme = id
    <3>1. past \in Past /\ Failed \in Past /\ Grows(past, Failed) /\ Failed.fresh = past.fresh
      BY <1>6, CountedGrows DEF Grows
    <3>2. crosses \in BOOLEAN /\ cuts \in BOOLEAN
      BY DEF Crosses
    <3>3. past' = [Failed EXCEPT !.left = TRUE, !.crossed = Failed.crossed \/ crosses,
                                 !.cut = Failed.cut \/ cuts]
      BY <1>6
    <3> HIDE DEF crosses, cuts
    <3>4. /\ Grows(past, past') /\ past'.fresh = past.fresh
          /\ crosses => past'.crossed
          /\ cuts => past'.cut
      BY <3>1, <3>2, <3>3 DEF Grows, Past
    <3> QED
      BY <3>4 DEF crosses, cuts
  <2>2. app' = [app EXCEPT ![w] = app[w]]
    BY <1>6 DEF IInv, TypeOK
  <2>3. app[w].save.step \in {"none", "open"} /\ Settled(app[w]) /\ Undoes(w)'
    BY <1>1, <1>2, <1>6 DEF Idle, ActiveInv, Undoes, Deletion, NoSave
  <2>4. ids \cup {Default} \subseteq Usable'
    BY <1>1, <1>6, ConfirmedDirs
  <2>5. ~Excused /\ past.fresh[w] => Follows(app[w], Usable', file.value.theme)
    BY <1>2, <1>3, <2>4 DEF Follows, NoSave
  <2>6. {} \in SUBSET Windows
    OBVIOUS
  <2>7. disk' = Renamed(d, "deleting", {}) /\ UNCHANGED <<file, temp>>
    BY <1>1, <1>6
  <2> HIDE DEF id
  <2> DEFINE r == app[w]
  <2>8. /\ r.save.step \in {"none", "open"} /\ Settled(r) /\ Undoes(w)'
        /\ app' = [app EXCEPT ![w] = r]
        /\ ~Excused /\ past.fresh[w] => Follows(r, Usable', file.value.theme)
        /\ app[w].own.theme = id => past'.cut
    BY <2>1, <2>2, <2>3, <2>5
  <2> HIDE DEF r
  <2> QED
    BY <1>1, <2>1, <2>6, <2>7, <2>8, ConfirmedActive DEF id
<1> QED
  BY <1>4, <1>5, <1>6 DEF Confirm

LEMMA ReleasedActive ==
  ASSUME IInv, NEW w, disk' = Released(w)
  PROVE  PackagesStay /\ InstalledIds \subseteq InstalledIds' /\ Usable \subseteq Usable'
<1>1. disk \in [Dirs -> Directory]
  BY DEF IInv, TypeOK
<1>2. \A d \in Dirs : disk'[d].where = disk[d].where /\ disk'[d].package = disk[d].package
  BY <1>1, ReleasedDirs
<1> QED
  BY <1>1, <1>2, StayInstalled DEF PackagesStay

LEMMA CrashActive ==
  ASSUME IInv, ActiveInv, IInv', NEW w \in Windows, Crash(w) PROVE ActiveInv'
<1> DEFINE cuts == app[w].save.caller \in {"deletion", "fallback"}
           lost == \E d \in Dirs : disk[d].where # "installed" /\ w \in disk[d].by
<1>1. /\ w \in Procs /\ w # Broker /\ app' = [app EXCEPT ![w] = Closed] /\ disk' = Released(w)
      /\ UNCHANGED file
  BY ProcessesAssumption DEF Crash, Procs
<1>2. app'[w] = Closed /\ \A q \in Procs \ {w} : app'[q] = app[q]
  BY <1>1 DEF IInv, TypeOK
<1>3. Closed.save = NoSave /\ Closed.own.theme = Default
  BY DEF Closed, DefaultSettings
<1>4. /\ Grows(past, past') /\ ~past'.fresh[w]
      /\ \A q \in Procs \ {w} : past'.fresh[q] = past.fresh[q]
      /\ cuts => past'.cut
  <2>1. Grows(past, Acted) /\ Acted.fresh = past.fresh
    BY CountedGrows DEF Crash
  <2>2. cuts \in BOOLEAN /\ lost \in BOOLEAN
    OBVIOUS
  <2>3. past' = [Acted EXCEPT !.fresh = [@ EXCEPT ![w] = FALSE], !.cut = @ \/ cuts,
                              !.left = @ \/ lost]
    BY DEF Crash
  <2> HIDE DEF cuts, lost
  <2> QED
    BY <1>1, <2>1, <2>2, <2>3 DEF Grows, Past
<1>5. PackagesStay /\ Usable \subseteq Usable'
  BY <1>1, ReleasedActive
<1>6. Owed(w) => cuts
  BY DEF Owed, Deletion
<1>7. Coverage'
  <2>1. ~Excused' => ~Owed(w)
    BY <1>4, <1>6 DEF Excused
  <2> QED
    BY <1>1, <1>4, <1>5, <2>1, CoverageKept
<1>8. /\ \A t \in {"app", "broker"} :
           temp'[t].there = temp[t].there /\ temp'[t].value = temp[t].value
      /\ temp'["app"].users = temp["app"].users \ {w}
      /\ temp'["broker"] = temp["broker"]
  BY DEF Crash, IInv, TypeOK, TempFile
<1>9. Temps'
  <2>1. Writers("app")' = Writers("app") \ {w} /\ Writers("broker")' = Writers("broker")
    BY <1>1, <1>2, <1>3, NoSaveTyped DEF Writers, TempName
  <2> QED
    BY <1>8, <2>1 DEF ActiveInv, Temps
<1>10. ASSUME ~past'.together, NEW q \in Procs PROVE Ready(q)'
  <2>1. Ready(q)
    BY <1>4, <1>10 DEF ActiveInv, Grows
  <2>2. CASE q = w
    BY <1>2, <1>3, <2>2, NoSaveTyped DEF Ready
  <2>3. CASE q # w
    BY <1>2, <1>8, <2>1, <2>3, TempNamed DEF Ready, TempName
  <2> QED
    BY <2>2, <2>3
<1>11. Settled(Closed) /\ Undoes(w)'
  BY <1>2, <1>3, RestFollows, NoSaveTyped DEF Undoes, Deletion
<1> QED
  BY <1>1, <1>5, <1>7, <1>9, <1>10, <1>11, SavesKept DEF ActiveInv
------------------------------------------------------------------------------
(* A save has returned: the theme its process is left with, until it reads the catalog. *)
Left(p, done) ==
  IF ~done /\ app[p].save.caller \in {"select", "reset", "deletion"}
  THEN app[p].save.before.theme ELSE app[p].own.theme

(* What the caller does then: the process follows the file if what it is left with does; a *)
(* theme whose deletion was not saved is there again, or is about to be replaced.          *)
Finished(p, done, history, r) ==
  /\ app' = [app EXCEPT ![p] = r]
  /\ r.save.step \in {"none", "open"} /\ r.save.caller # "deletion" /\ Settled(r)
  /\ Grows(history, past') /\ \A q \in Procs : past'.fresh[q] => history.fresh[q]
  /\ PackagesStay /\ Usable \subseteq Usable'
  /\ \A theme : ~Excused' /\ past'.fresh[p] /\ Left(p, done) \in {Default, theme} =>
       Follows(r, Usable', theme)
  /\ Deletion(p) /\ ~done =>
       \/ disk[app[p].save.dir].package.id \in Usable'
       \/ r.save.caller = "fallback" /\ past'.failures >= history.failures + 1

LEMMA GrowsSame == ASSUME NEW history \in Past PROVE Grows(history, history)
  BY BoundsAssumption DEF Grows, Past

LEMMA GrowsBeside ==
  ASSUME NEW past1 \in Past, NEW past2 \in Past, past2.failures = past1.failures,
         past2.together = past1.together, past2.crossed = past1.crossed, past2.cut = past1.cut
  PROVE  Grows(past1, past2)
  BY BoundsAssumption DEF Grows, Past

LEMMA GrowsOn ==
  ASSUME NEW past1 \in Past, NEW past2, NEW past3, Grows(past1, past2), Grows(past2, past3)
  PROVE  Grows(past1, past3)
  BY BoundsAssumption DEF Grows, Past

(* A save that is undone leaves the theme that was there before it. *)
LEMMA UndoneTheme ==
  ASSUME IInv, NEW p \in Procs, app[p].save.caller \in {"select", "deletion"}
  PROVE  Undone(p).own.theme = app[p].save.before.theme
<1> DEFINE q == AfterSave(p)
           own == [q.own EXCEPT !.theme = app[p].save.before.theme]
<1>1. app[p].save.before.theme \in Themes
  BY DEF IInv, Consistent, Undoable, Settings
<1>2. q \in Process
  BY AfterSaveRecord DEF Framed
<1>3. Undone(p) = [q EXCEPT !.own = own]
  BY DEF Undone
<1> HIDE DEF q
<1>4. own \in Settings /\ own.theme = app[p].save.before.theme
  BY <1>1, <1>2, ThemeSet DEF Process
<1> HIDE DEF own
<1> QED
  BY <1>2, <1>3, <1>4, OwnSet

(* A record that rests, and no directory moved. *)
LEMMA RestFinished ==
  ASSUME IInv, NEW p \in Procs, NEW done \in BOOLEAN, NEW history \in Past, past' = history,
         UNCHANGED disk, Deletion(p) => done,
         NEW r, app' = [app EXCEPT ![p] = r], r.save = NoSave, r.up # "no",
         r.own.theme \in {Default, Left(p, done)}
  PROVE  Finished(p, done, history, r)
<1>1. Settled(r) /\ \A theme : r.own.theme \in {Default, theme} => Follows(r, Usable', theme)
  BY RestFollows
<1>2. Grows(history, past')
  BY GrowsSame
<1> QED
  BY <1>1, <1>2, SameDirs, NoSaveTyped DEF Finished

LEMMA FallbackFinished ==
  ASSUME IInv, NEW p \in Procs, NEW done \in BOOLEAN, NEW history \in Past,
         app[p].up # "no", app[p].save.caller = "fallback", UNCHANGED disk,
         app' = [app EXCEPT ![p] = SelectTheme(AfterSave(p), app[p].save.next)],
         past' = [history EXCEPT !.crossed = @ \/ Stale(AfterSave(p), app[p].save.next)]
  PROVE  \E r : Finished(p, done, history, r)
<1> DEFINE q == AfterSave(p)
           id == app[p].save.next
           r == SelectTheme(q, id)
<1>1. /\ q \in Process /\ q.up = app[p].up /\ q.save = NoSave /\ q.own = app[p].own
  BY AfterSaveRecord DEF IInv, InMenu, Procs, Framed
<1>2. id \in Themes \cup {None} /\ Stale(q, id) \in BOOLEAN
  BY DEF IInv, TypeOK, Process, Save, Stale
<1> HIDE DEF q, id
<1>3. \/ r = q
      \/ id \in q.listed /\ r.own.theme = id /\ r.up = q.up /\ Begins(r, "select", q.own)
  BY <1>1, <1>2, SelectedTheme
<1> HIDE DEF r
<1>4. /\ Grows(history, past') /\ past'.fresh = history.fresh
      /\ Stale(q, id) => Excused'
  <2>1. past' = [history EXCEPT !.crossed = history.crossed \/ Stale(q, id)]
    BY DEF q, id
  <2> QED
    BY <1>2, <2>1, BoundsAssumption DEF Grows, Past, Excused
<1>5. Left(p, done) = app[p].own.theme
  BY DEF Left
<1>6. ASSUME NEW theme, ~Excused', app[p].own.theme \in {Default, theme}
      PROVE  Follows(r, Usable', theme)
  <2>1. CASE r = q
    BY <1>1, <1>6, <2>1, RestFollows
  <2>2. CASE id \in q.listed /\ r.own.theme = id /\ Begins(r, "select", q.own)
    <3>1. id \in Usable'
      BY <1>4, <1>6, <2>2, SameDirs DEF Stale, Usable
    <3> QED
      BY <1>1, <1>6, <2>2, <3>1 DEF Follows, Begins
  <2> QED
    BY <1>3, <2>1, <2>2
<1>7. Settled(r) /\ r.save.step \in {"none", "open"} /\ r.save.caller # "deletion"
  BY <1>1, <1>3, RestFollows, NoSaveTyped DEF Settled, Begins
<1> QED
  BY <1>4, <1>5, <1>6, <1>7, SameDirs DEF Finished, Deletion, q, r, id

(* The catalog is read again after a deletion. *)
LEMMA ReloadFinished ==
  ASSUME IInv, NEW p \in Procs, NEW done \in BOOLEAN, NEW history \in Past,
         Grows(history, past'), past'.fresh = history.fresh,
         PackagesStay, Usable \subseteq Usable',
         NEW q \in Process, q.save = NoSave, q.up # "no", q.own.theme = Left(p, done),
         NEW ids \in SUBSET Ids, ids \cup {Default} \subseteq Usable',
         app' = [app EXCEPT ![p] = ReloadThemeCatalog(q, ids, None)],
         ~done => \/ disk[app[p].save.dir].package.id \in Usable'
                  \/ /\ q.own.theme \notin ids \cup {Default}
                     /\ past'.failures >= history.failures + 1
  PROVE  \E r : Finished(p, done, history, r)
<1> DEFINE r == ReloadThemeCatalog(q, ids, None)
<1>1. /\ Settled(r) /\ r.save.step \in {"none", "open"} /\ r.save.caller # "deletion"
      /\ \A theme : q.own.theme \in {Default, theme} => Follows(r, Usable', theme)
      /\ q.own.theme \notin ids \cup {Default} => r.save.caller = "fallback"
  BY ReloadFollows
<1>2. app' = [app EXCEPT ![p] = r]
  OBVIOUS
<1> HIDE DEF r
<1>3. ~done => \/ disk[app[p].save.dir].package.id \in Usable'
               \/ r.save.caller = "fallback" /\ past'.failures >= history.failures + 1
  BY <1>1
<1>4. \A theme : Left(p, done) \in {Default, theme} => Follows(r, Usable', theme)
  BY <1>1
<1>5. Finished(p, done, history, r)
  <2>1. \A v \in Procs : past'.fresh[v] => history.fresh[v]
    OBVIOUS
  <2>2. r.save.step \in {"none", "open"} /\ r.save.caller # "deletion" /\ Settled(r)
    BY <1>1
  <2>3. \A theme : ~Excused' /\ past'.fresh[p] /\ Left(p, done) \in {Default, theme} =>
          Follows(r, Usable', theme)
    BY <1>4
  <2>4. Deletion(p) /\ ~done =>
          \/ disk[app[p].save.dir].package.id \in Usable'
          \/ r.save.caller = "fallback" /\ past'.failures >= history.failures + 1
    BY <1>3
  <2> QED
    BY <1>2, <2>1, <2>2, <2>3, <2>4, Zenon DEF Finished
<1> QED
  BY <1>5

(* The save of another caller than a fallback or a deletion. *)
LEMMA PlainFinished ==
  ASSUME IInv, NEW p \in Procs, NEW done \in BOOLEAN, NEW history \in Past, past' = history,
         UNCHANGED disk, app[p].up # "no",
         \/ app[p].save.caller = "plain" /\ app' = [app EXCEPT ![p] = AfterSave(p)]
         \/ /\ app[p].save.caller = "select"
            /\ app' = [app EXCEPT ![p] = IF done THEN AfterSave(p) ELSE Undone(p)]
         \/ /\ app[p].save.caller = "reset"
            /\ app' = [app EXCEPT ![p] = IF done THEN AfterSave(p)
                                        ELSE [AfterSave(p) EXCEPT !.own = app[p].save.before]]
  PROVE  \E r : Finished(p, done, history, r)
<1> DEFINE q == AfterSave(p)
           before == [q EXCEPT !.own = app[p].save.before]
<1>1. /\ Framed(q, app[p]) /\ q.save = NoSave
      /\ q.own = app[p].own \/ q.own.theme = Default
  BY AfterSaveRecord DEF DefaultSettings
<1>2. ASSUME app[p].save.caller = "select"
      PROVE  Framed(Undone(p), app[p]) /\ Undone(p).save = NoSave
             /\ Undone(p).own.theme = app[p].save.before.theme
  BY <1>2, UndoneRecord, UndoneTheme
<1>3. ASSUME app[p].save.caller = "reset"
      PROVE  before.up = app[p].up /\ before.save = NoSave /\ before.own = app[p].save.before
  <2>1. app[p].save.before \in Settings
    BY <1>3 DEF IInv, Consistent, Undoable
  <2> HIDE DEF q
  <2> QED
    BY <1>1, <2>1, OwnSet DEF Framed
<1> HIDE DEF q, before
<1>4. CASE (app[p].save.caller = "plain" \/ done) /\ app' = [app EXCEPT ![p] = q]
  <2>1. q.own.theme \in {Default, Left(p, done)}
    BY <1>1, <1>4 DEF Left
  <2>2. Finished(p, done, history, q)
    BY <1>1, <1>4, <2>1, RestFinished DEF Framed, Deletion
  <2> QED
    BY <2>2
<1>5. CASE app[p].save.caller = "select" /\ ~done /\ app' = [app EXCEPT ![p] = Undone(p)]
  <2>1. Undone(p).own.theme = Left(p, done)
    BY <1>2, <1>5 DEF Left
  <2>2. Finished(p, done, history, Undone(p))
    BY <1>2, <1>5, <2>1, RestFinished DEF Framed, Deletion
  <2> QED
    BY <2>2
<1>6. CASE app[p].save.caller = "reset" /\ ~done /\ app' = [app EXCEPT ![p] = before]
  <2>1. before.own.theme = Left(p, done)
    BY <1>3, <1>6 DEF Left
  <2>2. Finished(p, done, history, before)
    BY <1>3, <1>6, <2>1, RestFinished DEF Deletion
  <2> QED
    BY <2>2
<1> QED
  BY <1>4, <1>5, <1>6 DEF q, before

LEMMA ClosingFinished ==
  ASSUME IInv, NEW p \in Procs, NEW done \in BOOLEAN, NEW history \in Past,
         app[p].save.caller = "closing",
         app' = [app EXCEPT ![p] = Closed], disk' = Released(p),
         past' = [history EXCEPT !.fresh = [@ EXCEPT ![p] = FALSE],
              !.left = @ \/ \E d \in Dirs : disk[d].where # "installed" /\ p \in disk[d].by]
  PROVE  \E r : Finished(p, done, history, r)
<1> DEFINE lost == \E d \in Dirs : disk[d].where # "installed" /\ p \in disk[d].by
<1>1. /\ Grows(history, past') /\ ~past'.fresh[p]
      /\ \A q \in Procs : past'.fresh[q] => history.fresh[q]
  <2>1. lost \in BOOLEAN
    OBVIOUS
  <2> DEFINE fresh == [history.fresh EXCEPT ![p] = FALSE]
             left == history.left \/ lost
  <2>2. fresh \in [Procs -> BOOLEAN] /\ ~fresh[p] /\ left \in BOOLEAN
        /\ \A q \in Procs : fresh[q] => history.fresh[q]
    BY <2>1 DEF Past
  <2>3. past' = [history EXCEPT !.fresh = fresh, !.left = left]
    OBVIOUS
  <2> HIDE DEF fresh, left
  <2>4. past' \in Past /\ past'.fresh = fresh
        /\ past'.failures = history.failures /\ past'.together = history.together
        /\ past'.crossed = history.crossed /\ past'.cut = history.cut
    BY <2>2, <2>3 DEF Past
  <2>5. Grows(history, past')
    BY <2>4, GrowsBeside
  <2> QED
    BY <2>2, <2>4, <2>5
<1>2. Closed.save = NoSave /\ Closed.own.theme = Default
  BY DEF Closed, DefaultSettings
<1>3. Settled(Closed)
  BY <1>2, RestFollows
<1>4. Finished(p, done, history, Closed)
  BY <1>1, <1>2, <1>3, ReleasedActive, NoSaveTyped DEF Finished, Deletion
<1> QED
  BY <1>4

(* A deletion: its directory, back under the identifier, or left where it is. *)
LEMMA DeletionFinished ==
  ASSUME IInv, ActiveInv, NEW p \in Procs, NEW done \in BOOLEAN, NEW history \in Past,
         Deletion(p), app[p].up # "no",
         \/ /\ done
            /\ app' = [app EXCEPT ![p] = ReloadThemeCatalog(AfterSave(p), InstalledIds, None)]
            /\ UNCHANGED disk /\ past' = history
         \/ LET d == app[p].save.dir
                id == disk[d].package.id
            IN  /\ ~done
                /\ disk' = Renamed(d, "installed", {})
                /\ app' = [app EXCEPT ![p] =
                     ReloadThemeCatalog(Undone(p), InstalledIds \cup {id}, None)]
                /\ past' = history
         \/ LET d == app[p].save.dir
                id == disk[d].package.id
            IN  /\ ~done
                /\ id \in InstalledIds \/ history.failures < MaxFailures
                /\ disk' = Renamed(d, "deleting", {})
                /\ app' = [app EXCEPT ![p] = ReloadThemeCatalog(Undone(p), InstalledIds, None)]
                /\ past' = [history EXCEPT !.left = TRUE, !.failures =
                              IF id \in InstalledIds THEN @ ELSE @ + 1]
  PROVE  \E r : Finished(p, done, history, r)
<1> DEFINE d == app[p].save.dir
           id == disk[d].package.id
<1>1. p \in Windows
  BY DEF Procs, IInv, InMenu, Deletion
<1>2. /\ d \in Dirs /\ disk[d].where = "deleting" /\ disk \in [Dirs -> Directory]
      /\ id \in Ids /\ InstalledIds \in SUBSET Ids
  <2>1. d \in Dirs /\ disk[d].where = "deleting"
    BY DEF IInv, Deletions
  <2> QED
    BY <2>1, DirTyped, IdsInstalled, PackagesAssumption DEF Sound, IInv, TypeOK
<1>3. app[p].save.before.theme = id
  BY DEF ActiveInv, Undoes
<1> HIDE DEF d, id
<1>4. ASSUME NEW where \in {"installed", "deleting"}, disk' = Renamed(d, where, {})
      PROVE  /\ PackagesStay /\ Usable \subseteq Usable'
             /\ where = "installed" => id \in Usable'
  <2>1. /\ disk'[d].where = where /\ disk'[d].package = disk[d].package
        /\ \A e \in Dirs \ {d} : disk'[e] = disk[e]
    BY <1>2, <1>4, RenamedDir DEF Where
  <2>2. \A e \in Dirs : disk'[e].package = disk[e].package
    BY <2>1
  <2>3. Usable \subseteq Usable'
    BY <1>2, <2>1, <2>2, StayInstalled
  <2>4. where = "installed" => d \in InstalledDirs'
    BY <1>2, <2>1 DEF InstalledDirs
  <2> QED
    BY <2>1, <2>2, <2>3, <2>4 DEF PackagesStay, Usable, InstalledIds, id
<1>5. InstalledIds \cup {Default} \subseteq Usable
  BY DEF Usable
<1>6. CASE /\ done /\ UNCHANGED disk /\ past' = history
           /\ app' = [app EXCEPT ![p] = ReloadThemeCatalog(AfterSave(p), InstalledIds, None)]
  <2>1. /\ AfterSave(p) \in Process /\ AfterSave(p).save = NoSave /\ AfterSave(p).up # "no"
        /\ AfterSave(p).own.theme = Left(p, done)
    BY <1>1, <1>6, AfterSaveRecord DEF Framed, Left
  <2> QED
    BY <1>2, <1>5, <1>6, <2>1, SameDirs, GrowsSame, ReloadFinished
<1>7. /\ Undone(p) \in Process /\ Undone(p).save = NoSave /\ Undone(p).up # "no"
      /\ Undone(p).own.theme = app[p].save.before.theme
  BY UndoneRecord, UndoneTheme DEF Framed, Deletion
<1>8. ~done => Undone(p).own.theme = Left(p, done) /\ Left(p, done) = id
  BY <1>3, <1>7 DEF Left, Deletion
<1>9. CASE /\ ~done /\ disk' = Renamed(d, "installed", {}) /\ past' = history
           /\ app' = [app EXCEPT ![p] =
                ReloadThemeCatalog(Undone(p), InstalledIds \cup {id}, None)]
  <2>1. PackagesStay /\ Usable \subseteq Usable' /\ id \in Usable'
    BY <1>4, <1>9
  <2>2. /\ InstalledIds \cup {id} \in SUBSET Ids
        /\ (InstalledIds \cup {id}) \cup {Default} \subseteq Usable'
    BY <1>2, <1>5, <2>1
  <2> QED
    BY <1>7, <1>8, <1>9, <2>1, <2>2, GrowsSame, ReloadFinished DEF d, id
<1>10. CASE /\ ~done
            /\ id \in InstalledIds \/ history.failures < MaxFailures
            /\ disk' = Renamed(d, "deleting", {})
            /\ app' = [app EXCEPT ![p] = ReloadThemeCatalog(Undone(p), InstalledIds, None)]
            /\ past' = [history EXCEPT !.left = TRUE, !.failures =
                          IF id \in InstalledIds THEN @ ELSE @ + 1]
  <2>1. PackagesStay /\ Usable \subseteq Usable'
    BY <1>4, <1>10
  <2>2. /\ Grows(history, past') /\ past'.fresh = history.fresh
        /\ id \notin InstalledIds => past'.failures >= history.failures + 1
    <3> DEFINE n == IF id \in InstalledIds THEN history.failures ELSE history.failures + 1
    <3>1. n \in 0 .. MaxFailures /\ n >= history.failures
      BY <1>10, BoundsAssumption DEF Past
    <3>2. id \notin InstalledIds => n >= history.failures + 1
      BY BoundsAssumption DEF Past
    <3>3. past' = [history EXCEPT !.left = TRUE, !.failures = n]
      BY <1>10 DEF Past
    <3> HIDE DEF n
    <3> QED
      BY <3>1, <3>2, <3>3 DEF Grows, Past
  <2>3. id \notin InstalledIds => id \notin InstalledIds \cup {Default}
    BY <1>2, ThemesAssumption
  <2>4. InstalledIds \cup {Default} \subseteq Usable'
    BY <1>5, <2>1
  <2>5. Undone(p).own.theme = id /\ disk[app[p].save.dir].package.id = id
    BY <1>3, <1>7 DEF d, id
  <2>6. \/ disk[app[p].save.dir].package.id \in Usable'
        \/ /\ Undone(p).own.theme \notin InstalledIds \cup {Default}
           /\ past'.failures >= history.failures + 1
    BY <2>2, <2>3, <2>4, <2>5
  <2>7. /\ app' = [app EXCEPT ![p] = ReloadThemeCatalog(Undone(p), InstalledIds, None)]
        /\ ~done /\ Undone(p).own.theme = Left(p, done)
    BY <1>8, <1>10
  <2> QED
    BY <1>2, <1>7, <2>1, <2>2, <2>4, <2>6, <2>7, ReloadFinished
<1> QED
  BY <1>6, <1>9, <1>10 DEF d, id

LEMMA SaveReturned ==
  ASSUME IInv, ActiveInv, NEW p \in Procs, app[p].save.step # "none", NEW done \in BOOLEAN,
         NEW history \in Past, Returns(p, done, history)
  PROVE  \E r : Finished(p, done, history, r)
<1> DEFINE s == app[p].save
<1>1. app[p].up # "no"
  BY DEF ActiveInv, Settled
<1>2. CASE /\ s.caller = "plain" /\ app' = [app EXCEPT ![p] = AfterSave(p)]
           /\ UNCHANGED disk /\ past' = history
  BY <1>1, <1>2, PlainFinished
<1>3. CASE /\ s.caller = "fallback" /\ UNCHANGED disk
           /\ app' = [app EXCEPT ![p] = SelectTheme(AfterSave(p), s.next)]
           /\ past' = [history EXCEPT !.crossed = @ \/ Stale(AfterSave(p), s.next)]
  BY <1>1, <1>3, FallbackFinished
<1>4. CASE /\ s.caller = "select" /\ UNCHANGED disk /\ past' = history
           /\ app' = [app EXCEPT ![p] = IF done THEN AfterSave(p) ELSE Undone(p)]
  BY <1>1, <1>4, PlainFinished
<1>5. CASE /\ s.caller = "reset"
           /\ app' = [app EXCEPT ![p] = IF done THEN AfterSave(p)
                                     ELSE [AfterSave(p) EXCEPT !.own = s.before]]
           /\ UNCHANGED disk /\ past' = history
  BY <1>1, <1>5, PlainFinished
<1>6. CASE /\ s.caller = "closing" /\ app' = [app EXCEPT ![p] = Closed] /\ disk' = Released(p)
           /\ past' = [history EXCEPT !.fresh = [@ EXCEPT ![p] = FALSE],
                !.left = @ \/ \E d \in Dirs : disk[d].where # "installed" /\ p \in disk[d].by]
  BY <1>6, ClosingFinished
<1>7. CASE /\ s.caller = "deletion" /\ done
           /\ app' = [app EXCEPT ![p] = ReloadThemeCatalog(AfterSave(p), InstalledIds, None)]
           /\ UNCHANGED disk /\ past' = history
  BY <1>1, <1>7, DeletionFinished DEF Deletion
<1>8. CASE /\ s.caller = "deletion" /\ ~done
           /\ disk' = Renamed(s.dir, "installed", {})
           /\ app' = [app EXCEPT ![p] =
                ReloadThemeCatalog(Undone(p), InstalledIds \cup {disk[s.dir].package.id}, None)]
           /\ past' = history
  BY <1>1, <1>8, DeletionFinished DEF Deletion
<1>9. CASE /\ s.caller = "deletion" /\ ~done
           /\ disk[s.dir].package.id \in InstalledIds \/ history.failures < MaxFailures
           /\ disk' = Renamed(s.dir, "deleting", {})
           /\ app' = [app EXCEPT ![p] = ReloadThemeCatalog(Undone(p), InstalledIds, None)]
           /\ past' = [history EXCEPT !.left = TRUE, !.failures =
                         IF disk[s.dir].package.id \in InstalledIds THEN @ ELSE @ + 1]
  BY <1>1, <1>9, DeletionFinished DEF Deletion
<1> QED
  BY <1>2, <1>3, <1>4, <1>5, <1>6, <1>7, <1>8, <1>9, Zenon DEF Returns, AfterSave, Undone
------------------------------------------------------------------------------
(* The temporary file p works on: nobody else does, unless two windows save at a time. *)
LEMMA Alone ==
  ASSUME IInv, ~past.together, NEW p \in Procs, Writing(p), NEW q \in Procs \ {p}, Writing(q)
  PROVE  TempName(q) # TempName(p)
  BY TempNames DEF IInv, Unmixed

(* Then what p leaves it with is right, and the other file is as it was. *)
LEMMA TempsWritten ==
  ASSUME IInv, ActiveInv, Grows(past, past'), NEW p \in Procs, NEW r,
         app' = [app EXCEPT ![p] = r],
         ~past'.together => \A q \in Procs \ {p} : Writing(q) => TempName(q) # TempName(p),
         \A t \in {"app", "broker"} \ {TempName(p)} : temp'[t] = temp[t],
         temp'[TempName(p)].users =
           IF r.save.step = "write" THEN Writers(TempName(p)) \cup {p}
           ELSE Writers(TempName(p)) \ {p},
         temp'[TempName(p)].users # {} => temp'[TempName(p)].there,
         ~past'.together /\ r.save.step = "move" =>
           temp'[TempName(p)].there /\ temp'[TempName(p)].value = r.own
  PROVE  Temps' /\ (~past.together => \A q \in Procs : Ready(q))'
<1>1. app'[p] = r /\ \A q \in Procs \ {p} : app'[q] = app[q]
  BY DEF IInv, TypeOK
<1>2. Temps'
  <2> SUFFICES ASSUME NEW t \in {"app", "broker"}
               PROVE  temp'[t].users = Writers(t)' /\ (temp'[t].users # {} => temp'[t].there)
    BY DEF Temps
  <2>1. CASE t = TempName(p)
    <3>1. Writers(t)' = IF r.save.step = "write" THEN Writers(t) \cup {p} ELSE Writers(t) \ {p}
      BY <1>1, <2>1 DEF Writers, TempName
    <3> QED
      BY <2>1, <3>1
  <2>2. CASE t # TempName(p)
    <3>1. Writers(t)' = Writers(t)
      BY <1>1, <2>2 DEF Writers, TempName
    <3> QED
      BY <2>2, <3>1 DEF ActiveInv, Temps
  <2> QED
    BY <2>1, <2>2
<1>3. ASSUME ~past'.together, NEW q \in Procs PROVE Ready(q)'
  <2>1. CASE q = p
    BY <1>1, <1>3, <2>1 DEF Ready, TempName
  <2>2. CASE q # p
    <3> SUFFICES ASSUME app[q].save.step = "move"
                 PROVE  temp'[TempName(q)].there /\ temp'[TempName(q)].value = app[q].own
      BY <1>1, <2>2 DEF Ready, TempName
    <3>1. Ready(q)
      BY <1>3 DEF ActiveInv, Grows
    <3>2. temp'[TempName(q)] = temp[TempName(q)]
      BY <1>3, <2>2, TempNamed DEF Writing
    <3> QED
      BY <3>1, <3>2 DEF Ready
  <2> QED
    BY <2>1, <2>2
<1> QED
  BY <1>2, <1>3

(* A save that goes on to its next call. *)
LEMMA NextRecord ==
  ASSUME IInv, NEW p \in Procs, NEW step \in {"write", "move"},
         app' = [app EXCEPT ![p].save.step = step]
  PROVE  \E r : /\ app' = [app EXCEPT ![p] = r]
                /\ r.up = app[p].up /\ r.own = app[p].own /\ r.save.step = step
                /\ r.save.caller = app[p].save.caller /\ r.save.dir = app[p].save.dir
                /\ r.save.before = app[p].save.before
<1> DEFINE save == [app[p].save EXCEPT !.step = step]
           r == [app[p] EXCEPT !.save = save]
<1>1. app[p] \in Process
  BY DEF IInv, TypeOK
<1>2. /\ save.step = step /\ save.caller = app[p].save.caller
      /\ save.dir = app[p].save.dir /\ save.before = app[p].save.before
  BY <1>1 DEF Process, Save
<1>3. app' = [app EXCEPT ![p] = r]
  OBVIOUS
<1> HIDE DEF save
<1>4. r.own = app[p].own /\ r.up = app[p].up /\ r.save = save
  BY <1>1 DEF Process
<1> HIDE DEF r
<1> QED
  BY <1>2, <1>3, <1>4

LEMMA SaveGoesOn ==
  ASSUME IInv, ActiveInv, IInv', Grows(past, past'), past'.fresh = past.fresh,
         UNCHANGED <<file, disk>>, NEW p \in Procs, app[p].save.step # "none",
         NEW r, app' = [app EXCEPT ![p] = r],
         r.up = app[p].up, r.own = app[p].own, r.save.caller = app[p].save.caller,
         r.save.dir = app[p].save.dir, r.save.before = app[p].save.before
  PROVE  Coverage' /\ (\A q \in Procs : Settled(app[q]) /\ Undoes(q))'
<1>1. app'[p] = r
  BY DEF IInv, TypeOK
<1>2. Settled(r)
  BY DEF ActiveInv, Settled
<1>3. Undoes(p)'
  BY <1>1 DEF ActiveInv, Undoes, Deletion
<1>4. Owed(p) => Owed(p)'
  BY <1>1 DEF Owed, Deletion, Grows, Past, IInv, TypeOK
<1>5. ~Excused' /\ past'.fresh[p] => Follows(r, Usable', file.value.theme)
  BY GrowsIsExcused, SameDirs DEF ActiveInv, Coverage, Follows
<1>6. Coverage'
  BY <1>4, <1>5, SameDirs, CoverageKept
<1> QED
  BY <1>2, <1>3, <1>6, SameDirs, SavesKept

(* A save that fails is one of two failing calls, or of two saves at a time: a deletion   *)
(* that is not undone leads to a fallback, and a fallback after it can still be saved.    *)
LEMMA SaveFailed ==
  ASSUME IInv, ActiveInv, IInv', UNCHANGED file, NEW p \in Procs, app[p].save.step # "none",
         NEW history, Grows(past, history), history.fresh = past.fresh,
         history.together \/ history.failures >= past.failures + 1,
         NEW r, Finished(p, FALSE, history, r)
  PROVE  /\ Grows(past, past') /\ Coverage'
         /\ (\A q \in Procs : Settled(app[q]) /\ Undoes(q))'
<1>1. /\ past \in Past /\ history \in Past /\ past' \in Past
      /\ Grows(past, past') /\ Grows(history, past')
  BY GrowsOn DEF Finished, Grows, IInv, TypeOK
<1>2. /\ app' = [app EXCEPT ![p] = r] /\ Settled(r) /\ PackagesStay /\ Usable \subseteq Usable'
      /\ \A q \in Procs : past'.fresh[q] => past.fresh[q]
  BY DEF Finished
<1>3. app'[p] = r
  BY <1>2 DEF IInv, TypeOK
<1>4. Undoes(p)'
  BY <1>3 DEF Finished, Undoes, Deletion
<1>5. ASSUME ~Excused' PROVE past'.failures >= past.failures + 1 /\ past'.failures \in 0 .. 2
                             /\ past.failures \in Nat /\ history.failures >= past.failures + 1
  <2>1. past.failures \in Nat /\ history.failures \in Nat /\ past'.failures \in Nat
    BY <1>1, BoundsAssumption DEF Past
  <2>2. ~history.together /\ past'.failures >= history.failures /\ past'.failures <= 2
    BY <1>1, <1>5, <2>1 DEF Excused, Grows
  <2> QED
    BY <2>1, <2>2
<1>6. ASSUME ~Excused', Owed(p) PROVE file.value.theme \in Usable' \/ Owed(p)'
  <2>1. Deletion(p) /\ disk[app[p].save.dir].package.id = file.value.theme
    BY <1>5, <1>6 DEF Owed
  <2>2. \/ disk[app[p].save.dir].package.id \in Usable'
        \/ r.save.caller = "fallback" /\ past'.failures >= history.failures + 1
    BY <2>1 DEF Finished
  <2>3. history.failures >= 1 /\ history.failures \in Nat /\ past'.failures \in Nat
    BY <1>1, <1>5, <1>6, BoundsAssumption DEF Past
  <2> QED
    BY <1>3, <2>1, <2>2, <2>3 DEF Owed
<1>7. ASSUME ~Excused', past'.fresh[p] PROVE Follows(r, Usable', file.value.theme)
  <2>1. Follows(app[p], Usable, file.value.theme)
    BY <1>1, <1>2, <1>7, GrowsIsExcused DEF ActiveInv, Coverage
  <2>2. Left(p, FALSE) \in {Default, file.value.theme}
    BY <2>1 DEF Left, Follows
  <2> QED
    BY <1>7, <2>2 DEF Finished
<1>8. Coverage'
  BY <1>1, <1>2, <1>6, <1>7, CoverageKept
<1> QED
  BY <1>1, <1>2, <1>4, <1>8, SavesKept
LEMMA SaveOpenActive ==
  ASSUME IInv, ActiveInv, IInv', NEW p \in Procs, SaveOpen(p) PROVE ActiveInv'
<1> DEFINE t == TempName(p)
           other == \E q \in Windows \ {p} :
                      p \in Windows /\ app[q].save.step \in {"write", "move"}
<1>1. app[p].save.step = "open" /\ UNCHANGED file
  BY DEF SaveOpen
<1>2. /\ temp \in [{"app", "broker"} -> TempFile] /\ t \in {"app", "broker"}
      /\ temp[t].users = Writers(t) /\ p \notin Writers(t)
  BY <1>1, TempNamed DEF IInv, TypeOK, ActiveInv, Temps, Writers
<1>3. CASE /\ temp' = [temp EXCEPT ![t] =
                [there |-> TRUE, users |-> @.users \cup {p}, value |-> None, mixed |-> FALSE]]
           /\ app' = [app EXCEPT ![p].save.step = "write"]
           /\ past' = [past EXCEPT !.together = @ \/ other]
           /\ UNCHANGED disk
  <2>1. PICK r : /\ app' = [app EXCEPT ![p] = r]
                 /\ r.up = app[p].up /\ r.own = app[p].own /\ r.save.step = "write"
                 /\ r.save.caller = app[p].save.caller /\ r.save.dir = app[p].save.dir
                 /\ r.save.before = app[p].save.before
    BY <1>3, NextRecord
  <2>2. Grows(past, past') /\ past'.fresh = past.fresh /\ (other => past'.together)
    <3>1. past \in Past /\ other \in BOOLEAN
      BY Counted
    <3>2. past' = [past EXCEPT !.together = past.together \/ other]
      BY <1>3
    <3> HIDE DEF other
    <3> QED
      BY <3>1, <3>2, BoundsAssumption DEF Grows, Past
  <2>3. ~past'.together => \A q \in Procs \ {p} : Writing(q) => TempName(q) # TempName(p)
    BY <2>2, TempNames DEF Writing
  <2>4. /\ temp'[t].users = Writers(t) \cup {p} /\ temp'[t].there
        /\ \A u \in {"app", "broker"} \ {t} : temp'[u] = temp[u]
    BY <1>2, <1>3
  <2>5. Temps' /\ (~past.together => \A q \in Procs : Ready(q))'
    BY <2>1, <2>2, <2>3, <2>4, TempsWritten
  <2>6. Coverage' /\ (\A q \in Procs : Settled(app[q]) /\ Undoes(q))'
    BY <1>1, <1>3, <2>1, <2>2, SaveGoesOn
  <2> QED
    BY <2>5, <2>6 DEF ActiveInv
<1>4. CASE MayFail /\ UNCHANGED temp /\ Returns(p, FALSE, Failed)
  <2>1. Failed \in Past /\ Grows(past, Failed) /\ Failed.fresh = past.fresh
        /\ Failed.failures = past.failures + 1
    BY <1>4, Counted, CountedGrows
  <2>2. PICK r : Finished(p, FALSE, Failed, r)
    BY <1>1, <1>4, <2>1, SaveReturned
  <2>3. Failed.failures >= past.failures + 1
    BY <2>1, Counted, BoundsAssumption DEF Past
  <2>4. /\ Grows(past, past') /\ Coverage'
        /\ (\A q \in Procs : Settled(app[q]) /\ Undoes(q))'
    BY <1>1, <2>1, <2>2, <2>3, SaveFailed
  <2>5. app' = [app EXCEPT ![p] = r] /\ r.save.step # "write" /\ r.save.step # "move"
    BY <2>2 DEF Finished
  <2>6. Temps' /\ (~past.together => \A q \in Procs : Ready(q))'
    BY <1>1, <1>4, <2>4, <2>5, TempsKept
  <2> QED
    BY <2>4, <2>6 DEF ActiveInv
<1> QED
  BY <1>3, <1>4 DEF SaveOpen

(* What a process leaves when it has done with its temporary file. *)
LEMMA TempsLeft ==
  ASSUME IInv, ActiveInv, Grows(past, past'), NEW p \in Procs, Writing(p), NEW r,
         app' = [app EXCEPT ![p] = r], r.save.step \in {"none", "open"},
         \/ temp' = Dropped(TempName(p), temp[TempName(p)].users \ {p})
         \/ temp' = [temp EXCEPT ![TempName(p)] = NoFile] /\ temp[TempName(p)].users = {}
  PROVE  Temps' /\ (~past.together => \A q \in Procs : Ready(q))'
<1> DEFINE t == TempName(p)
           users == temp[t].users \ {p}
<1>1. /\ temp \in [{"app", "broker"} -> TempFile] /\ t \in {"app", "broker"}
      /\ temp[t].users = Writers(t) /\ (temp[t].users # {} => temp[t].there)
  BY TempNamed DEF IInv, TypeOK, ActiveInv, Temps
<1>2. NoFile.users = {}
  BY DEF NoFile
<1>3. /\ temp'[t].users = users /\ (users # {} => temp'[t].there)
      /\ \A u \in {"app", "broker"} \ {t} : temp'[u] = temp[u]
  <2>1. CASE temp' = Dropped(t, users)
    <3>1. users # {} => temp[t].users # {}
      OBVIOUS
    <3> HIDE DEF users, t
    <3>2. temp' = [temp EXCEPT ![t] = IF users = {} THEN NoFile
                                      ELSE [temp[t] EXCEPT !.users = users]]
      BY <2>1 DEF Dropped
    <3>3. [temp[t] EXCEPT !.users = users].users = users
          /\ [temp[t] EXCEPT !.users = users].there = temp[t].there
      BY <1>1 DEF TempFile
    <3> QED
      BY <1>1, <1>2, <3>1, <3>2, <3>3
  <2>2. CASE temp' = [temp EXCEPT ![t] = NoFile] /\ temp[t].users = {}
    BY <1>1, <1>2, <2>2
  <2> QED
    BY <2>1, <2>2
<1>4. ~past'.together => \A q \in Procs \ {p} : Writing(q) => TempName(q) # TempName(p)
  BY Alone DEF Grows
<1>5. temp'[t].users = Writers(t) \ {p} /\ (temp'[t].users # {} => temp'[t].there)
  BY <1>1, <1>3
<1> QED
  BY <1>3, <1>4, <1>5, TempsWritten

LEMMA SaveWriteActive ==
  ASSUME IInv, ActiveInv, IInv', NEW p \in Procs, SaveWrite(p) PROVE ActiveInv'
<1> DEFINE t == TempName(p)
           others == temp[t].users \ {p}
<1>1. app[p].save.step = "write" /\ Writing(p) /\ UNCHANGED file
  BY DEF SaveWrite, Writing
<1>2. /\ temp \in [{"app", "broker"} -> TempFile] /\ t \in {"app", "broker"}
      /\ temp[t].users = Writers(t) /\ p \in Writers(t) /\ temp[t].there
  BY <1>1, TempNamed DEF IInv, TypeOK, ActiveInv, Temps, Writers
<1>3. ~past.together => temp[t].value = None
  BY <1>1 DEF IInv, Unmixed
<1>4. ASSUME NEW value, NEW mixed,
             temp' = [temp EXCEPT ![t] = [@ EXCEPT !.users = others, !.value = value,
                                                   !.mixed = mixed]],
             value = app[p].own \/ temp[t].value # None,
             app' = [app EXCEPT ![p].save.step = "move"], UNCHANGED <<disk, past>>
      PROVE  ActiveInv'
  <2>1. PICK r : /\ app' = [app EXCEPT ![p] = r]
                 /\ r.up = app[p].up /\ r.own = app[p].own /\ r.save.step = "move"
                 /\ r.save.caller = app[p].save.caller /\ r.save.dir = app[p].save.dir
                 /\ r.save.before = app[p].save.before
    BY <1>4, NextRecord
  <2>2. Grows(past, past') /\ past'.fresh = past.fresh
    BY <1>4, CountedGrows
  <2>3. ~past'.together => \A q \in Procs \ {p} : Writing(q) => TempName(q) # TempName(p)
    BY <1>1, <2>2, Alone DEF Grows
  <2>4. /\ temp'[t].users = Writers(t) \ {p} /\ temp'[t].there /\ temp'[t].value = value
        /\ \A u \in {"app", "broker"} \ {t} : temp'[u] = temp[u]
    BY <1>2, <1>4 DEF TempFile
  <2>5. ~past'.together => temp'[t].value = r.own
    BY <1>3, <1>4, <2>1, <2>4
  <2>6. Temps' /\ (~past.together => \A q \in Procs : Ready(q))'
    BY <2>1, <2>2, <2>3, <2>4, <2>5, TempsWritten
  <2>7. Coverage' /\ (\A q \in Procs : Settled(app[q]) /\ Undoes(q))'
    BY <1>1, <1>4, <2>1, <2>2, SaveGoesOn
  <2> QED
    BY <2>6, <2>7 DEF ActiveInv
<1>5. CASE MayFail /\ temp' = Dropped(t, others) /\ Returns(p, FALSE, Failed)
  <2>1. Failed \in Past /\ Grows(past, Failed) /\ Failed.fresh = past.fresh
        /\ Failed.failures = past.failures + 1
    BY <1>5, Counted, CountedGrows
  <2>2. PICK r : Finished(p, FALSE, Failed, r)
    BY <1>1, <1>5, <2>1, SaveReturned
  <2>3. Failed.failures >= past.failures + 1
    BY <2>1, Counted, BoundsAssumption DEF Past
  <2>4. /\ Grows(past, past') /\ Coverage'
        /\ (\A q \in Procs : Settled(app[q]) /\ Undoes(q))'
    BY <1>1, <2>1, <2>2, <2>3, SaveFailed
  <2>5. app' = [app EXCEPT ![p] = r] /\ r.save.step \in {"none", "open"}
    BY <2>2 DEF Finished
  <2>6. Temps' /\ (~past.together => \A q \in Procs : Ready(q))'
    BY <1>1, <1>5, <2>4, <2>5, TempsLeft
  <2> QED
    BY <2>4, <2>6 DEF ActiveInv
<1>6. ASSUME temp' = [temp EXCEPT ![t] =
               [@ EXCEPT !.users = others, !.value = app[p].own, !.mixed = FALSE]],
             app' = [app EXCEPT ![p].save.step = "move"], UNCHANGED <<disk, past>>
      PROVE  ActiveInv'
  BY <1>4, <1>6
<1>7. ASSUME NEW value \in Settings, temp[t].value # None,
             temp' = [temp EXCEPT ![t] =
               [@ EXCEPT !.users = others, !.value = value, !.mixed = TRUE]],
             app' = [app EXCEPT ![p].save.step = "move"], UNCHANGED <<disk, past>>
      PROVE  ActiveInv'
  BY <1>4, <1>7
<1> QED
  BY <1>5, <1>6, <1>7 DEF SaveWrite

LEMMA SaveMoveActive ==
  ASSUME IInv, ActiveInv, IInv', NEW p \in Procs, SaveMove(p) PROVE ActiveInv'
<1> DEFINE t == TempName(p)
           movable == temp[t].there /\ temp[t].users = {}
           history == [past EXCEPT !.fresh = [q \in Procs |-> q = p /\ q # Broker],
                                   !.crossed = @ \/ ~past.fresh[p]]
<1>1. app[p].save.step = "move" /\ Writing(p) /\ t \in {"app", "broker"}
  BY TempNamed DEF SaveMove, Writing
<1>2. /\ temp \in [{"app", "broker"} -> TempFile]
      /\ temp[t].users = Writers(t) /\ p \notin Writers(t)
  BY <1>1 DEF IInv, TypeOK, ActiveInv, Temps, Writers
<1>3. ~past.together => movable /\ temp[t].value = app[p].own /\ temp[t].value # None
  <2>1. ~past.together => Writers(t) = {}
    BY <1>1, <1>2, Alone DEF Writers, Writing
  <2> QED
    BY <1>1, <1>2, <2>1 DEF ActiveInv, Ready, IInv, Unmixed
<1>4. CASE /\ movable
           /\ file' = IF temp[t].value = None THEN [value |-> DefaultSettings, mixed |-> TRUE]
                      ELSE [value |-> temp[t].value, mixed |-> temp[t].mixed]
           /\ temp' = [temp EXCEPT ![t] = NoFile]
           /\ Returns(p, TRUE, history)
  <2>1. /\ history \in Past /\ Grows(past, history) /\ past \in Past
        /\ \A q \in Procs : history.fresh[q] => q = p
        /\ ~past.fresh[p] => history.crossed
    <3> DEFINE fresh == [q \in Procs |-> q = p /\ q # Broker]
               crossed == past.crossed \/ ~past.fresh[p]
    <3>1. past \in Past /\ fresh \in [Procs -> BOOLEAN] /\ crossed \in BOOLEAN
          /\ (\A q \in Procs : fresh[q] => q = p)
      BY Counted
    <3>2. (past.crossed => crossed) /\ (~past.fresh[p] => crossed)
      OBVIOUS
    <3>3. history = [past EXCEPT !.fresh = fresh, !.crossed = crossed]
      OBVIOUS
    <3> HIDE DEF fresh, crossed, history
    <3>4. history \in Past /\ history.fresh = fresh /\ history.crossed = crossed
          /\ history.failures = past.failures /\ history.together = past.together
          /\ history.cut = past.cut
      BY <3>1, <3>3 DEF Past
    <3>5. Grows(past, history)
      BY <3>1, <3>2, <3>4, BoundsAssumption DEF Grows, Past
    <3> QED
      BY <3>1, <3>2, <3>4, <3>5
  <2> HIDE DEF history
  <2>2. PICK r : Finished(p, TRUE, history, r)
    BY <1>1, <1>4, <2>1, SaveReturned
  <2>3. /\ app' = [app EXCEPT ![p] = r] /\ r.save.step \in {"none", "open"} /\ Settled(r)
        /\ r.save.caller # "deletion"
        /\ Grows(history, past') /\ PackagesStay /\ Usable \subseteq Usable'
        /\ \A q \in Procs : past'.fresh[q] => q = p
    BY <2>1, <2>2 DEF Finished
  <2>4. Grows(past, past')
    BY <2>1, <2>3, GrowsOn
  <2>5. app'[p] = r /\ \A q \in Procs \ {p} : app'[q] = app[q]
    BY <2>3 DEF IInv, TypeOK
  <2>6. Temps' /\ (~past.together => \A q \in Procs : Ready(q))'
    BY <1>1, <1>4, <2>3, <2>4, TempsLeft
  <2>7. Undoes(p)'
    BY <2>3, <2>5 DEF Undoes, Deletion
  <2>8. Coverage'
    <3> SUFFICES ASSUME ~Excused'
                 PROVE  /\ file'.value.theme \in Usable' \/ \E q \in Procs : Owed(q)'
                        /\ \A q \in Procs : past'.fresh[q] =>
                             Follows(app'[q], Usable', file'.value.theme)
      BY DEF Coverage, Covered
    <3>1. ~Excused /\ past.fresh[p] /\ ~past.together
      BY <2>1, <2>3, <2>4, GrowsIsExcused DEF Grows, Excused
    <3>2. file'.value = app[p].own
      BY <1>3, <1>4, <3>1
    <3>3. Covered /\ Follows(app[p], Usable, file.value.theme)
      BY <3>1 DEF ActiveInv, Coverage
    <3>4. ASSUME app[p].own.theme \in Usable PROVE file'.value.theme \in Usable'
      BY <2>3, <3>2, <3>4
    <3>5. ASSUME app[p].own.theme \notin Usable PROVE \E q \in Procs : Owed(q)'
      <4>1. app[p].own.theme = file.value.theme
        BY <3>3, <3>5 DEF Follows, Usable
      <4>2. PICK q \in Procs : Owed(q)
        BY <3>3, <3>5, <4>1 DEF Covered
      <4>3. q # p
        BY <3>5, <4>2 DEF Owed, Deletion, ActiveInv, Settled, Usable
      <4>4. Owed(q)'
        BY <2>3, <2>4, <2>5, <3>2, <4>1, <4>2, <4>3, BystanderOwes
      <4> QED
        BY <4>4
    <3>6. past'.fresh[p] => Follows(r, Usable', file'.value.theme)
      BY <2>2, <3>2 DEF Finished, Left
    <3> QED
      BY <2>3, <2>5, <3>4, <3>5, <3>6
  <2> QED
    BY <2>3, <2>6, <2>7, <2>8, SavesKept DEF ActiveInv
<1>5. ASSUME NEW after \in Past, Grows(past, after), after.fresh = past.fresh,
             after.together \/ after.failures >= past.failures + 1,
             temp' = Dropped(t, temp[t].users), UNCHANGED file, Returns(p, FALSE, after)
      PROVE  ActiveInv'
  <2>1. PICK r : Finished(p, FALSE, after, r)
    BY <1>1, <1>5, SaveReturned
  <2>2. /\ Grows(past, past') /\ Coverage'
        /\ (\A q \in Procs : Settled(app[q]) /\ Undoes(q))'
    BY <1>1, <1>5, <2>1, SaveFailed
  <2>3. app' = [app EXCEPT ![p] = r] /\ r.save.step \in {"none", "open"}
    BY <2>1 DEF Finished
  <2>4. temp[t].users = temp[t].users \ {p}
    BY <1>2
  <2>5. Temps' /\ (~past.together => \A q \in Procs : Ready(q))'
    BY <1>1, <1>5, <2>2, <2>3, <2>4, TempsLeft
  <2> QED
    BY <2>2, <2>5 DEF ActiveInv
<1>6. ASSUME MayFail, temp' = Dropped(t, temp[t].users), UNCHANGED file,
             Returns(p, FALSE, Failed)
      PROVE  ActiveInv'
  <2>1. /\ Failed \in Past /\ Grows(past, Failed) /\ Failed.fresh = past.fresh
        /\ Failed.failures = past.failures + 1
    BY <1>6, Counted, CountedGrows
  <2>2. Failed.failures >= past.failures + 1
    BY <2>1, Counted, BoundsAssumption DEF Past
  <2> QED
    BY <1>5, <1>6, <2>1, <2>2
<1>7. ASSUME ~movable, temp' = Dropped(t, temp[t].users), UNCHANGED file,
             Returns(p, FALSE, past)
      PROVE  ActiveInv'
  <2>1. past \in Past /\ Grows(past, past) /\ past.together
    BY <1>3, <1>7, CountedGrows DEF Past
  <2> QED
    BY <1>5, <1>7, <2>1
<1> QED
  BY <1>4, <1>6, <1>7 DEF SaveMove
------------------------------------------------------------------------------
LEMMA InitActive == ASSUME Init PROVE ActiveInv
<1>1. PICK first \in FirstThemes :
        /\ disk = [d \in Dirs |->
             IF d = 1 THEN [where |-> "installed", package |-> first, content |-> "checked",
                            by |-> {}]
             ELSE NoDirectory]
        /\ file = [value |-> [theme |-> first.id, characters |-> "simplified"], mixed |-> FALSE]
        /\ app = [p \in Procs |->
             IF p = Broker THEN [Closed EXCEPT !.up = "broker"]
             ELSE IF p \in FirstWindows
             THEN [Closed EXCEPT !.up = "full", !.own = file.value,
                                 !.listed = {first.id, Default}]
             ELSE Closed]
  BY DEF Init
<1>2. file.value.theme = first.id /\ first.id \in Usable
  <2>1. 1 \in Dirs
    BY BoundsAssumption DEF Dirs
  <2>2. disk[1].where = "installed" /\ disk[1].package = first
    BY <1>1, <2>1
  <2> QED
    BY <1>1, <2>1, <2>2 DEF Usable, InstalledIds, InstalledDirs
<1>3. ASSUME NEW p \in Procs
      PROVE  /\ app[p].save = NoSave /\ app[p].own.theme \in {Default, file.value.theme}
             /\ app[p].up = "no" => app[p].own.theme = Default
  BY <1>1 DEF Closed, DefaultSettings
<1>4. Temps
  <2>1. \A t \in {"app", "broker"} : temp[t] = NoFile /\ NoFile.users = {}
    BY DEF Init, NoFile
  <2>2. \A t \in {"app", "broker"} : Writers(t) = {}
    BY <1>3, NoSaveTyped DEF Writers
  <2> QED
    BY <2>1, <2>2 DEF Temps
<1>5. \A p \in Procs : Ready(p) /\ Settled(app[p]) /\ Undoes(p)
  BY <1>3, NoSaveTyped DEF Ready, Settled, Undoes, Deletion
<1>6. Coverage
  BY <1>2, <1>3, RestFollows DEF Coverage, Covered
<1> QED
  BY <1>4, <1>5, <1>6 DEF ActiveInv

LEMMA NextActive == ASSUME IInv, ActiveInv, IInv', Next PROVE ActiveInv'
<1>1. ASSUME NEW w \in Windows, UserActs(w) PROVE ActiveInv'
  <2>1. ASSUME NEW up \in {"full", "menu"}, Open(w, up) PROVE ActiveInv'
    BY <2>1, OpenActive
  <2>2. CASE Close(w)
    BY <2>2, CloseActive
  <2>3. CASE EditControl(w)
    BY <2>3, EditControlActive
  <2>4. CASE ChangeAppearance(w)
    BY <2>4, ChangeAppearanceActive
  <2>5. CASE ResetAppearance(w)
    BY <2>5, ResetAppearanceActive
  <2>6. CASE MenuToggle(w)
    BY <2>6, MenuToggleActive
  <2>7. ASSUME NEW id \in Themes, ApplyTheme(w, id) PROVE ActiveInv'
    BY <2>7, ApplyThemeActive
  <2>8. ASSUME NEW package \in Packages, ImportTheme(w, package) PROVE ActiveInv'
    BY <2>8, ImportThemeActive
  <2>9. ASSUME NEW d \in Dirs, DeleteTheme(w, d) PROVE ActiveInv'
    BY <2>9, DeleteThemeActive
  <2>10. ASSUME NEW d \in Dirs, Cancel(w, d) PROVE ActiveInv'
    BY <2>10, CancelActive
  <2>11. ASSUME NEW d \in Dirs, Confirm(w, d) PROVE ActiveInv'
    BY <2>11, ConfirmActive
  <2>12. CASE Crash(w)
    BY <2>12, CrashActive
  <2> QED
    BY <1>1, <2>1, <2>2, <2>3, <2>4, <2>5, <2>6, <2>7, <2>8, <2>9, <2>10, <2>11, <2>12
       DEF UserActs
<1>2. CASE RunMenuAction
  BY <1>2, RunMenuActionActive
<1>3. ASSUME NEW w \in Windows, ImportJob(w) \/ RemovalJob(w) \/ Answers(w) PROVE ActiveInv'
  <2>1. CASE ImportStage(w)
    BY <2>1, ImportStageActive
  <2>2. ASSUME NEW d \in Dirs, ImportCopy(w, d) PROVE ActiveInv'
    BY <2>2, ImportStepActive DEF ImportCopy
  <2>3. ASSUME NEW d \in Dirs, ImportExtract(w, d) PROVE ActiveInv'
    BY <2>3, ImportStepActive DEF ImportExtract
  <2>4. ASSUME NEW d \in Dirs, ImportCheck(w, d) PROVE ActiveInv'
    BY <2>4, ImportStepActive DEF ImportCheck
  <2>5. ASSUME NEW d \in Dirs, ImportPublish(w, d) PROVE ActiveInv'
    BY <2>5, ImportPublishActive
  <2>6. ASSUME NEW d \in Dirs, RemoveTree(w, d) PROVE ActiveInv'
    BY <2>6, RemoveTreeActive
  <2>7. CASE ImportDone(w)
    BY <2>7, ImportDoneActive
  <2>8. CASE RemovalDone(w)
    BY <2>8, RemovalDoneActive
  <2> QED
    BY <1>3, <2>1, <2>2, <2>3, <2>4, <2>5, <2>6, <2>7, <2>8 DEF ImportJob, RemovalJob, Answers
<1>4. ASSUME NEW p \in Procs, SaveStep(p) PROVE ActiveInv'
  BY <1>4, SaveOpenActive, SaveWriteActive, SaveMoveActive DEF SaveStep
<1> QED
  BY <1>1, <1>2, <1>3, <1>4 DEF Next, Runs

LEMMA StutterActive == ASSUME ActiveInv, UNCHANGED vars PROVE ActiveInv'
<1>1. UNCHANGED <<file, temp, app, disk, past>>
  BY DEF vars
<1>2. Temps'
  BY <1>1 DEF ActiveInv, Temps, Writers, TempName
<1>3. (~past.together => \A p \in Procs : Ready(p))'
  BY <1>1 DEF ActiveInv, Ready, TempName
<1>4. (\A p \in Procs : Settled(app[p]) /\ Undoes(p))'
  BY <1>1 DEF ActiveInv, Settled, Undoes, Deletion
<1>5. Usable' = Usable
  BY <1>1, SameDirs
<1>6. \A p \in Procs : Owed(p)' <=> Owed(p)
  BY <1>1 DEF Owed, Deletion
<1>7. Coverage'
  BY <1>1, <1>5, <1>6 DEF ActiveInv, Coverage, Covered, Excused, Follows
<1> QED
  BY <1>2, <1>3, <1>4, <1>7 DEF ActiveInv

(* While nobody saves, nobody has a theme to replace. *)
LEMMA ActiveParts == ASSUME IInv, ActiveInv PROVE ActiveIsInstalled
<1> SUFFICES ASSUME Quiet, past.failures <= 2, ~past.together, ~past.crossed, ~past.cut
             PROVE  file.value.theme \in InstalledIds \cup {Default}
  BY DEF ActiveIsInstalled
<1>1. ~Excused
  BY BoundsAssumption DEF Excused, IInv, TypeOK, Past
<1>2. Covered
  BY <1>1 DEF ActiveInv, Coverage
<1>3. \A p \in Procs : ~Owed(p)
  BY AtRest, NoSaveTyped DEF Quiet, Owed, Deletion
<1> QED
  BY <1>2, <1>3 DEF Covered, Usable

LEMMA SpecActive == Spec => []ActiveInv
<1>1. IInv /\ IInv' /\ ActiveInv /\ [Next]_vars => ActiveInv'
  BY NextActive, StutterActive
<1> QED
  BY InitActive, <1>1, SpecInv, PTL DEF Spec

(* While nobody is saving, the theme settings.ini names is installed or the default: through  *)
(* any interleaving of windows, imports, deletions, menu actions and crashes, and any two     *)
(* failing system calls, whatever the number of windows, themes and directories.  Excused are *)
(* two windows that save at a time, processes that cross, and one killed before it has saved  *)
(* the replacement of the theme.                                                              *)
THEOREM ActiveIsInstalledAlways == Spec => []ActiveIsInstalled
  BY SpecActive, SpecInv, ActiveParts, PTL
==============================================================================
