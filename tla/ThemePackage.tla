---------------------------- MODULE ThemePackage ----------------------------
(***************************************************************************)
(* The check of a theme package before anything of it is extracted         *)
(* (ValidateZltArchive).  A .zlt file is a ZIP archive, and a ZIP archive  *)
(* tells its contents twice: in the central directory at its end and in    *)
(* the local headers before the data.  The settings application reads the  *)
(* directory; the tool that extracts the archive is another program, which *)
(* may go through the file from the front.  The check has to leave only    *)
(* archives every reader reads alike, whose files also lie side by side on *)
(* a file system that ignores case.                                        *)
(*                                                                         *)
(* An archive is abstracted to what stands at which position: a header, a  *)
(* unit of data and a data descriptor take one position each.              *)
(***************************************************************************)
EXTENDS Naturals, Sequences, FiniteSets

CONSTANTS
  Manifest,     \* the path of manifest.json
  CaseFold,     \* the component of a path -> the name it has when case is ignored
  MaxEntries,   \* kMaximumThemePackageEntries
  MaxAsset,     \* kMaximumThemeAssetBytes
  MaxPackage,   \* kMaximumThemePackageBytes
  Archives      \* the files the user may pick

VARIABLES archive, verdict
packageVars == <<archive, verdict>>

(*
An archive:
  central     : position -> central directory entry
  locals      : position -> local header
  descriptors : position -> data descriptor
  disk, onDisk, count, start, size : the end record, which stands at position `end'

An entry: its path (a sequence of components), whether it names a directory, `ordinary' (the
name is encoded properly and safe on Windows, the version, flags, method and extra fields are
allowed), its Unix and DOS types, its method, whether a descriptor follows its data, checksum,
packed and unpacked size and the position of its local header.

A name has at least one component, and the units of data that a descriptor measures stand
before it: none of them is another descriptor.  The check reads neither the data nor where a
compressed stream ends; that is left to the tool, which verifies the checksum.
*)
IsArchive(a) ==
  /\ {a.start, a.end, a.count} \cup DOMAIN a.descriptors \subseteq Nat
  /\ \A p \in DOMAIN a.central :
       LET e == a.central[p]
       IN  /\ e.path \in Seq(DOMAIN CaseFold) \ {<<>>}
           /\ {e.at, e.packed} \subseteq Nat /\ e.descriptor \in BOOLEAN
  /\ \A c, d \in DOMAIN a.descriptors : c < d => c + a.descriptors[d].packed < d

ASSUME ArchivesAssumption == \A a \in Archives : IsArchive(a)

Signature == {"path", "directory", "method", "descriptor"}
Sizes == {"crc", "packed", "size"}

-----------------------------------------------------------------------------
(* The end record, found from the end of the file. *)
EndRecordOk(a) ==
  /\ a.disk = 0
  /\ a.onDisk = a.count
  /\ a.count \in 1 .. MaxEntries
  /\ a.start <= a.end
  /\ a.size = a.end - a.start

Entries(a) == [i \in 1 .. a.count |-> a.central[a.start + i - 1]]

(* The entries fill the central directory up to the end record. *)
DirectoryComplete(a) ==
  /\ \A i \in 1 .. a.count : a.start + i - 1 \in DOMAIN a.central /\ a.start + i - 1 < a.end
  /\ a.start + a.count = a.end

(* One entry by itself: its encoding, its types and its sizes. *)
EntryOk(e) ==
  /\ e.ordinary
  /\ e.unix \in {"none", IF e.directory THEN "directory" ELSE "file"}
  /\ e.dosDirectory => e.directory
  /\ e.directory => e.size = 0 /\ (e.method = "store" => e.packed = 0)
  /\ e.size <= MaxAsset
  /\ e.method = "store" => e.packed = e.size

Folded(path) == [i \in DOMAIN path |-> CaseFold[path[i]]]

(* No two entries differ only in case; there is one manifest, a file; the sizes add up. *)
EntriesOk(entries) ==
  /\ \A i \in DOMAIN entries : EntryOk(entries[i])
  /\ \A i, j \in DOMAIN entries :
       i # j => Folded(entries[i].path) # Folded(entries[j].path)
  /\ \E i \in DOMAIN entries : entries[i].path = Manifest /\ ~entries[i].directory
  /\ LET Sum[n \in 0 .. Len(entries)] == IF n = 0 THEN 0 ELSE Sum[n - 1] + entries[n].size
     IN  Sum[Len(entries)] <= MaxPackage

-----------------------------------------------------------------------------
(* The local headers.  One stands where the directory says, repeats the entry, and the data  *)
(* with its descriptor ends before the central directory.                                     *)
DataEnd(e) == e.at + 1 + e.packed
LocalEnd(e) == DataEnd(e) + (IF e.descriptor THEN 1 ELSE 0)

LocalOk(a, e) ==
  /\ e.at \in DOMAIN a.locals /\ e.at < a.start
  /\ LET l == a.locals[e.at]
     IN  /\ l.ordinary
         /\ \A f \in Signature : l[f] = e[f]
         /\ \A f \in Sizes : l[f] = e[f] \/ (e.descriptor /\ l[f] = 0)
  /\ LocalEnd(e) <= a.start
  /\ e.descriptor =>
       /\ DataEnd(e) \in DOMAIN a.descriptors
       /\ \A f \in Sizes : a.descriptors[DataEnd(e)][f] = e[f]

(* Mutant: bytes no entry accounts for are let through. *)
RangesDisjoint(a, entries) ==
  \A i, j \in DOMAIN entries :
    i # j => LocalEnd(entries[i]) <= entries[j].at \/ LocalEnd(entries[j]) <= entries[i].at

(* Sorted by position, the ranges cover the file from its start to the central directory *)
(* without a gap or an overlap.                                                           *)
RangesOk(a, entries) ==
  LET starts == {entries[i].at : i \in DOMAIN entries}
      ends == {LocalEnd(entries[i]) : i \in DOMAIN entries}
  IN  /\ Cardinality(starts) = Len(entries)
      /\ starts \cup {a.start} = ends \cup {0}

-----------------------------------------------------------------------------
(* What the extraction must yield: the entries, and the directories their paths imply. *)
Paths(entries) ==
  {[path |-> entries[i].path, directory |-> entries[i].directory] : i \in DOMAIN entries}
Above(path) ==
  {[path |-> SubSeq(path, 1, n), directory |-> TRUE] : n \in 1 .. Len(path) - 1}
Implied(entries) == UNION {Above(x.path) : x \in Paths(entries)}
ExpectedEntries(entries) == Paths(entries) \cup Implied(entries)

(* Mutant: implied directories are compared by their spelling. *)
ExpectedBySpelling(entries) ==
  \A x, y \in ExpectedEntries(entries) : x.path = y.path => x = y

(* A path that names two things, or two paths that differ in case only, are in conflict. *)
ExpectedOk(entries) ==
  \A x, y \in ExpectedEntries(entries) : Folded(x.path) = Folded(y.path) => x = y

-----------------------------------------------------------------------------
ValidateZltArchive(a) ==
  /\ EndRecordOk(a)
  /\ DirectoryComplete(a)
  /\ EntriesOk(Entries(a))
  /\ \A i \in 1 .. a.count : LocalOk(a, Entries(a)[i])
  /\ RangesOk(a, Entries(a))
  /\ ExpectedOk(Entries(a))

PackageInit == archive \in Archives /\ verdict = "none"

(* The copy in the staging directory is checked. *)
Check ==
  /\ verdict = "none"
  /\ verdict' = IF ValidateZltArchive(archive) THEN "accepted" ELSE "refused"
  /\ UNCHANGED archive

PackageNext == Check
PackageSpec == PackageInit /\ [][PackageNext]_packageVars

-----------------------------------------------------------------------------
(* Properties. *)

Seen(x) == [path |-> x.path, directory |-> x.directory, size |-> x.size]
Junk == [path |-> <<>>, directory |-> FALSE, size |-> 0]

(* A reader that goes from header to header.  Where a header leaves its sizes to the         *)
(* descriptor, it finds the end of the data by unpacking it: the next descriptor.            *)
DataEnds(a, o) ==
  IF a.locals[o].descriptor
  THEN {d \in DOMAIN a.descriptors : d > o /\ \A c \in DOMAIN a.descriptors : c > o => d <= c}
  ELSE {o + 1 + a.locals[o].packed}
Ahead(a, o) ==
  IF o = a.start \/ o \notin DOMAIN a.locals THEN {}
  ELSE {d + (IF a.locals[o].descriptor THEN 1 ELSE 0) : d \in DataEnds(a, o)}
       \cap (o + 1 .. a.end)

(* What it meets at position o, and what from the first position on. *)
Met(a, o) ==
  IF o = a.start THEN {}
  ELSE IF Ahead(a, o) = {} THEN {Junk}
  ELSE {[path |-> a.locals[o].path, directory |-> a.locals[o].directory, size |-> s] :
          s \in IF a.locals[o].descriptor
                THEN {a.descriptors[d].size : d \in DataEnds(a, o)} ELSE {a.locals[o].size}}
FromTheFront(a) ==
  LET Walk[o \in 0 .. a.end] == Met(a, o) \cup UNION {Walk[n] : n \in Ahead(a, o)}
  IN  Walk[0]

(* An accepted archive reads alike from its directory and from its front: no header the      *)
(* directory does not know, no gap and no other name or size (ValidateZltArchive, against    *)
(* the tool that extracts).                                                                   *)
ReadersAgree ==
  verdict = "accepted" =>
    FromTheFront(archive) = {Seen(Entries(archive)[i]) : i \in 1 .. archive.count}

(* What an accepted archive unpacks to is a tree on a file system that ignores case: every    *)
(* path lies in directories of exactly that spelling, and no file stands where a directory    *)
(* must (what ValidateExtractedThemeDirectory compares by exact spelling afterwards).         *)
UnpacksToATree ==
  verdict = "accepted" =>
    LET tree == ExpectedEntries(Entries(archive))
        Below(x, y) == Len(x.path) < Len(y.path)
                       /\ Folded(x.path) = SubSeq(Folded(y.path), 1, Len(x.path))
    IN  \A x, y \in tree :
          /\ Below(x, y) => x.directory /\ x.path = SubSeq(y.path, 1, Len(x.path))
          /\ x # y => Folded(x.path) # Folded(y.path)
=============================================================================
