------------------------------ MODULE MCDesktop ------------------------------
(***************************************************************************)
(* The desktop side: the theme store, and the check of the packages it     *)
(* imports.  They share no variable, so a behaviour moves in one of them,  *)
(* the `world', while the other stays in its initial state.                *)
(***************************************************************************)
EXTENDS ThemeStore, ThemePackage, TLC

VARIABLE world

-----------------------------------------------------------------------------
(* A theme, another package of its identifier, and a package that does not pass. *)
MCPackage(id, flaw, ssf, crowded) ==
  [id |-> id, flaw |-> flaw, ssf |-> ssf, crowded |-> crowded]
MCPackages ==
  {MCPackage("a", "none", TRUE, TRUE), MCPackage("b", "assets", FALSE, FALSE)}
MCFirstThemes == {MCPackage("a", "none", FALSE, FALSE)}

-----------------------------------------------------------------------------
(* Archives: a manifest and two more records behind it, with or without a gap; the directory *)
(* gives every record, or hides the last, and describes either of the two anywhere.          *)
MCCaseFold == "ui" :> "ui" @@ "UI" :> "ui" @@ "a" :> "a" @@ "manifest" :> "manifest"
MCManifest == <<"manifest">>
MCPaths ==
  {<<<<"ui">>, FALSE>>, <<<<"ui">>, TRUE>>, <<<<"UI">>, FALSE>>, <<<<"UI">>, TRUE>>,
   <<<<"ui", "a">>, FALSE>>, <<<<"UI", "a">>, FALSE>>}

MCRecord(name, descriptor, packed) ==
  [path |-> name[1], directory |-> name[2], method |-> "deflate", descriptor |-> descriptor,
   ordinary |-> TRUE, crc |-> 1, packed |-> packed, size |-> IF name[2] THEN 0 ELSE 1]
MCHeader(r) ==
  IF r.descriptor THEN [r EXCEPT !.crc = 0, !.packed = 0, !.size = 0] ELSE r
MCEntry(r, at) ==
  r @@ [unix |-> "none", dosDirectory |-> r.directory, at |-> at]
MCEnd(r, at) == at + 1 + r.packed + (IF r.descriptor THEN 1 ELSE 0)

MCArchive(r, s, second, third, count, gap, trailing) ==
  LET first == MCRecord(<<MCManifest, FALSE>>, FALSE, 1)
      record == <<first, r, s>>
      at == <<0, MCEnd(first, 0), MCEnd(r, MCEnd(first, 0)) + gap>>
      start == MCEnd(s, at[3]) + trailing
      entry == <<MCEntry(first, 0), MCEntry(record[second[1]], at[second[2]]),
                 MCEntry(record[third[1]], at[third[2]])>>
  IN  [central |-> [p \in start .. start + count - 1 |-> entry[p - start + 1]],
       locals |-> [p \in {at[i] : i \in 1 .. 3} |->
                     MCHeader(record[CHOOSE i \in 1 .. 3 : at[i] = p])],
       descriptors |-> [p \in {at[i] + 1 + record[i].packed :
                               i \in {i \in 1 .. 3 : record[i].descriptor}} |->
                          LET i == CHOOSE i \in 1 .. 3 :
                                     record[i].descriptor /\ at[i] + 1 + record[i].packed = p
                          IN  [crc |-> 1, packed |-> record[i].packed, size |-> record[i].size]],
       disk |-> 0, onDisk |-> count, count |-> count, start |-> start, size |-> count,
       end |-> start + count]

MCArchives ==
  {MCArchive(MCRecord(x[1], FALSE, x[2]), MCRecord(x[3], x[4], x[5]), x[6], x[7], x[8], x[9],
             x[10]) :
     x \in MCPaths \X (0 .. 1) \X MCPaths \X BOOLEAN \X (0 .. 1) \X ({2, 3} \X {2, 3})
           \X ({2, 3} \X {2, 3}) \X (2 .. 3) \X (0 .. 1) \X (0 .. 1)}

-----------------------------------------------------------------------------
NoArchive == [start |-> 0]

MCInit ==
  /\ Init
  /\ \/ world = "store" /\ archive = NoArchive /\ verdict = "none"
     \/ world = "package" /\ PackageInit

MCNext ==
  \/ world = "store" /\ Next /\ UNCHANGED <<packageVars, world>>
  \/ world = "package" /\ PackageNext /\ UNCHANGED <<vars, world>>

MCSpec == MCInit /\ [][MCNext]_<<vars, packageVars, world>>
==============================================================================
