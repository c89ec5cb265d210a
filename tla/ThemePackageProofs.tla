------------------------- MODULE ThemePackageProofs -------------------------
(***************************************************************************)
(* Proof that an archive which passes the check of ThemePackage reads      *)
(* alike from its directory and from its front, and unpacks to a tree, for *)
(* every archive, every limit and every case mapping.                      *)
(***************************************************************************)
EXTENDS ThemePackage, WellFoundedInduction, TLAPS

-----------------------------------------------------------------------------
(* What the verdict says: the archive is the one picked, and it was found valid. *)
PackageInv ==
  /\ archive \in Archives
  /\ verdict \in {"none", "refused", "accepted"}
  /\ verdict = "accepted" => ValidateZltArchive(archive)

LEMMA AcceptedIsValid == PackageSpec => []PackageInv
<1>1. PackageInit => PackageInv
  BY DEF PackageInit, PackageInv
<1>2. PackageInv /\ [PackageNext]_packageVars => PackageInv'
  <2> SUFFICES ASSUME PackageInv, [PackageNext]_packageVars PROVE PackageInv'
    OBVIOUS
  <2>1. CASE Check
    <3>1. archive' = archive
      BY <2>1 DEF Check
    <3>2. CASE ValidateZltArchive(archive)
      <4>1. verdict' = "accepted" /\ ValidateZltArchive(archive')
        BY <2>1, <3>1, <3>2 DEF Check
      <4> QED
        BY <3>1, <4>1 DEF PackageInv
    <3>3. CASE ~ValidateZltArchive(archive)
      BY <2>1, <3>1, <3>3 DEF Check, PackageInv
    <3> QED
      BY <3>2, <3>3
  <2>2. CASE UNCHANGED packageVars
    BY <2>2 DEF packageVars, PackageInv
  <2> QED
    BY <2>1, <2>2 DEF PackageNext
<1> QED
  BY <1>1, <1>2, PTL DEF PackageSpec

-----------------------------------------------------------------------------
(***************************************************************************)
(* The tree.                                                               *)
(***************************************************************************)
(* A path has as many components when case is ignored. *)
LEMMA FoldedLength ==
  ASSUME NEW p \in Seq(DOMAIN CaseFold)
  PROVE  DOMAIN Folded(p) = 1 .. Len(p) /\ Len(Folded(p)) = Len(p) /\ Len(p) \in Nat
<1>1. DOMAIN p = 1 .. Len(p) /\ Len(p) \in Nat
  OBVIOUS
<1>2. Folded(p) = [i \in 1 .. Len(p) |-> CaseFold[p[i]]]
  BY <1>1 DEF Folded
<1>3. Folded(p) \in Seq({CaseFold[p[i]] : i \in 1 .. Len(p)})
  BY <1>1, <1>2
<1> QED
  BY <1>1, <1>2, <1>3

(* Ignoring case and cutting a path commute. *)
LEMMA FoldedPrefix ==
  ASSUME NEW p \in Seq(DOMAIN CaseFold), NEW n \in 1 .. Len(p)
  PROVE  /\ SubSeq(p, 1, n) \in Seq(DOMAIN CaseFold)
         /\ Len(SubSeq(p, 1, n)) = n
         /\ Folded(SubSeq(p, 1, n)) = SubSeq(Folded(p), 1, n)
<1> DEFINE q == SubSeq(p, 1, n)
<1>1. q \in Seq(DOMAIN CaseFold) /\ Len(q) = n /\ \A i \in 1 .. n : q[i] = p[i]
  OBVIOUS
<1>2. Folded(q) = [i \in 1 .. n |-> CaseFold[p[i]]]
  BY <1>1 DEF Folded
<1>3. SubSeq(Folded(p), 1, n) = [i \in 1 .. n |-> Folded(p)[i]]
  BY FoldedLength
<1>4. \A i \in 1 .. n : Folded(p)[i] = CaseFold[p[i]]
  BY FoldedLength DEF Folded
<1> QED
  BY <1>1, <1>2, <1>3, <1>4
(* What IsArchive and the check of the directory say of one entry. *)
LEMMA EntryTyped ==
  ASSUME NEW a, IsArchive(a), DirectoryComplete(a), NEW i \in 1 .. a.count
  PROVE  /\ DOMAIN Entries(a) = 1 .. a.count
         /\ Entries(a)[i].path \in Seq(DOMAIN CaseFold) \ {<<>>}
         /\ Entries(a)[i].at \in Nat
         /\ Entries(a)[i].packed \in Nat
         /\ Entries(a)[i].descriptor \in BOOLEAN
<1> DEFINE p == a.start + i - 1
<1>1. p \in DOMAIN a.central /\ Entries(a)[i] = a.central[p]
  BY DEF DirectoryComplete, Entries
<1>2. DOMAIN Entries(a) = 1 .. a.count
  BY DEF Entries
<1> HIDE DEF p
<1>3. /\ a.central[p].path \in Seq(DOMAIN CaseFold) \ {<<>>}
      /\ {a.central[p].at, a.central[p].packed} \subseteq Nat
      /\ a.central[p].descriptor \in BOOLEAN
  BY <1>1 DEF IsArchive
<1> QED
  BY <1>1, <1>2, <1>3

(* Every path of the tree is part of an entry's: all of it, or a directory above it. *)
LEMMA ExpectedFrom ==
  ASSUME NEW a, IsArchive(a), DirectoryComplete(a), NEW x \in ExpectedEntries(Entries(a))
  PROVE  \E i \in 1 .. a.count : \E n \in 1 .. Len(Entries(a)[i].path) :
           /\ x.path = SubSeq(Entries(a)[i].path, 1, n)
           /\ x.path \in Seq(DOMAIN CaseFold) /\ Len(x.path) = n
<1> DEFINE E == Entries(a)
<1>1. DOMAIN E = 1 .. a.count
  BY DEF Entries
<1>2. ASSUME NEW i \in 1 .. a.count
      PROVE  /\ E[i].path \in Seq(DOMAIN CaseFold)
             /\ Len(E[i].path) \in 1 .. Len(E[i].path)
             /\ SubSeq(E[i].path, 1, Len(E[i].path)) = E[i].path
  <2>1. E[i].path \in Seq(DOMAIN CaseFold) \ {<<>>}
    BY EntryTyped
  <2> HIDE DEF E
  <2> QED
    BY <2>1
<1> HIDE DEF E
<1>3. ASSUME x \in Paths(E)
      PROVE  \E i \in 1 .. a.count : x.path = E[i].path
  BY <1>1, <1>3 DEF Paths
<1>4. ASSUME x \in Implied(E)
      PROVE  \E i \in 1 .. a.count : \E n \in 1 .. Len(E[i].path) :
               x.path = SubSeq(E[i].path, 1, n)
  <2>1. PICK y \in Paths(E) : x \in Above(y.path)
    BY <1>4 DEF Implied
  <2>2. PICK i \in 1 .. a.count : y.path = E[i].path
    BY <1>1, <2>1 DEF Paths
  <2>3. PICK n \in 1 .. Len(E[i].path) - 1 : x.path = SubSeq(E[i].path, 1, n)
    BY <2>1, <2>2 DEF Above
  <2>4. n \in 1 .. Len(E[i].path)
    BY <1>2, <2>3
  <2> QED
    BY <2>3, <2>4
<1>5. PICK i \in 1 .. a.count : \E n \in 1 .. Len(E[i].path) : x.path = SubSeq(E[i].path, 1, n)
  <2>1. CASE x \in Paths(E)
    BY <1>2, <1>3, <2>1
  <2>2. CASE x \in Implied(E)
    BY <1>4, <2>2
  <2> QED
    BY <2>1, <2>2 DEF ExpectedEntries, E
<1>6. PICK n \in 1 .. Len(E[i].path) : x.path = SubSeq(E[i].path, 1, n)
  BY <1>5
<1>7. SubSeq(E[i].path, 1, n) \in Seq(DOMAIN CaseFold) /\ Len(SubSeq(E[i].path, 1, n)) = n
  BY <1>2, FoldedPrefix
<1> QED
  BY <1>6, <1>7 DEF E

(* The directories above a path of the tree are in the tree. *)
LEMMA DirectoriesAbove ==
  ASSUME NEW a, IsArchive(a), DirectoryComplete(a), NEW x \in ExpectedEntries(Entries(a)),
         NEW m \in 1 .. Len(x.path) - 1
  PROVE  [path |-> SubSeq(x.path, 1, m), directory |-> TRUE] \in ExpectedEntries(Entries(a))
<1>1. PICK i \in 1 .. a.count : \E n \in 1 .. Len(Entries(a)[i].path) :
        /\ x.path = SubSeq(Entries(a)[i].path, 1, n)
        /\ x.path \in Seq(DOMAIN CaseFold) /\ Len(x.path) = n
  BY ExpectedFrom
<1>2. PICK n \in 1 .. Len(Entries(a)[i].path) :
        /\ x.path = SubSeq(Entries(a)[i].path, 1, n)
        /\ x.path \in Seq(DOMAIN CaseFold) /\ Len(x.path) = n
  BY <1>1
<1> DEFINE E == Entries(a)
           p == E[i].path
<1>3. DOMAIN E = 1 .. a.count /\ p \in Seq(DOMAIN CaseFold)
  BY EntryTyped
<1>4. m \in 1 .. Len(p) - 1 /\ m \in 1 .. n /\ Len(p) \in Nat
  BY <1>2, <1>3
<1>5. SubSeq(x.path, 1, m) = SubSeq(p, 1, m)
  <2> HIDE DEF p
  <2>1. SubSeq(SubSeq(p, 1, n), 1, m) = SubSeq(p, 1, m)
    BY <1>2, <1>3, <1>4 DEF p
  <2> QED
    BY <1>2, <2>1 DEF p
<1>6. [path |-> p, directory |-> E[i].directory] \in Paths(E)
  BY <1>3 DEF Paths
<1>7. [path |-> SubSeq(p, 1, m), directory |-> TRUE] \in Above(p)
  BY <1>4 DEF Above
<1> HIDE DEF E, p
<1>8. [path |-> SubSeq(p, 1, m), directory |-> TRUE] \in Implied(E)
  BY <1>6, <1>7 DEF Implied
<1> QED
  BY <1>5, <1>8 DEF ExpectedEntries, E

(* A valid archive unpacks to a tree. *)
LEMMA ValidUnpacks ==
  ASSUME NEW a, IsArchive(a), ValidateZltArchive(a),
         NEW x \in ExpectedEntries(Entries(a)), NEW y \in ExpectedEntries(Entries(a))
  PROVE  /\ /\ Len(x.path) < Len(y.path)
            /\ Folded(x.path) = SubSeq(Folded(y.path), 1, Len(x.path))
            => x.directory /\ x.path = SubSeq(y.path, 1, Len(x.path))
         /\ x # y => Folded(x.path) # Folded(y.path)
<1>1. DirectoryComplete(a) /\ ExpectedOk(Entries(a))
  BY DEF ValidateZltArchive
<1>2. ASSUME NEW z \in ExpectedEntries(Entries(a)), Folded(x.path) = Folded(z.path)
      PROVE  x = z
  BY <1>1, <1>2 DEF ExpectedOk
<1>3. ASSUME Len(x.path) < Len(y.path),
             Folded(x.path) = SubSeq(Folded(y.path), 1, Len(x.path))
      PROVE  x.directory /\ x.path = SubSeq(y.path, 1, Len(x.path))
  <2> DEFINE m == Len(x.path)
             z == [path |-> SubSeq(y.path, 1, m), directory |-> TRUE]
  <2>1. x.path \in Seq(DOMAIN CaseFold) /\ m \in Nat \ {0}
    BY <1>1, ExpectedFrom
  <2>2. y.path \in Seq(DOMAIN CaseFold) /\ Len(y.path) \in Nat
    BY <1>1, ExpectedFrom
  <2>3. m \in 1 .. Len(y.path) - 1 /\ m \in 1 .. Len(y.path)
    BY <1>3, <2>1, <2>2
  <2> HIDE DEF m
  <2>4. z \in ExpectedEntries(Entries(a))
    BY <1>1, <2>3, DirectoriesAbove
  <2>5. Folded(z.path) = SubSeq(Folded(y.path), 1, m)
    BY <2>2, <2>3, FoldedPrefix
  <2>6. x = z
    <3> HIDE DEF z
    <3> QED
      BY <1>2, <1>3, <2>4, <2>5 DEF m
  <2> QED
    BY <2>6 DEF m
<1> QED
  BY <1>2, <1>3

(* What an accepted archive unpacks to is a tree on a file system that ignores case. *)
THEOREM UnpacksToATreeAlways == PackageSpec => []UnpacksToATree
<1>1. PackageInv => UnpacksToATree
  <2> SUFFICES ASSUME PackageInv, verdict = "accepted",
                      NEW x \in ExpectedEntries(Entries(archive)),
                      NEW y \in ExpectedEntries(Entries(archive))
               PROVE  /\ /\ Len(x.path) < Len(y.path)
                         /\ Folded(x.path) = SubSeq(Folded(y.path), 1, Len(x.path))
                         => x.directory /\ x.path = SubSeq(y.path, 1, Len(x.path))
                      /\ x # y => Folded(x.path) # Folded(y.path)
    BY DEF UnpacksToATree
  <2>1. IsArchive(archive) /\ ValidateZltArchive(archive)
    BY ArchivesAssumption DEF PackageInv
  <2> QED
    BY <2>1, ValidUnpacks
<1> QED
  BY <1>1, AcceptedIsValid, PTL
-----------------------------------------------------------------------------
(***************************************************************************)
(* The reader that goes from header to header.                             *)
(***************************************************************************)
(* A set of numbers has a least one. *)
LEMMA LeastNat ==
  ASSUME NEW T \in SUBSET Nat, T # {}
  PROVE  \E x \in T : \A y \in T : x <= y
<1> DEFINE R == OpToRel(<, Nat)
<1>1. IsWellFoundedOn(R, Nat)
  BY NatLessThanWellFounded
<1>2. \A x, y \in Nat : x < y => <<x, y>> \in R
  BY DEF OpToRel
<1> HIDE DEF R
<1>3. PICK x \in T : \A y \in T : ~(<<y, x>> \in R)
  BY <1>1, WFMin, Zenon
<1>4. \A y \in T : ~(y < x)
  BY <1>2, <1>3
<1>5. \A y \in T : x <= y
  BY <1>4
<1> QED
  BY <1>5

(* The walk, and the walk over the last k positions. *)
Walks(a, f) ==
  f = [o \in 0 .. a.end |-> Met(a, o) \cup UNION {f[n] : n \in Ahead(a, o)}]
WalksBack(a, f, k) ==
  f = [o \in 0 .. a.end |->
         IF o + k < a.end THEN {} ELSE Met(a, o) \cup UNION {f[n] : n \in Ahead(a, o)}]

(* A header leads forward, so the walk is defined. *)
LEMMA AheadIsAhead ==
  ASSUME NEW a, a.end \in Nat, NEW o \in 0 .. a.end, NEW n \in Ahead(a, o)
  PROVE  n \in 0 .. a.end /\ n > o
<1>1. n \in o + 1 .. a.end
  BY DEF Ahead
<1> QED
  BY <1>1

LEMMA WalkExists ==
  ASSUME NEW a, a.end \in Nat
  PROVE  \E f : Walks(a, f)
<1> DEFINE m == a.end
           T == {k \in 0 .. m : ~\E f : WalksBack(a, f, k)}
<1> HIDE DEF m
<1>1. m \in Nat
  BY DEF m
<1>2. SUFFICES ASSUME T # {} PROVE FALSE
  <2>1. m \notin T
    BY <1>2
  <2>2. PICK f : WalksBack(a, f, m)
    BY <1>1, <2>1
  <2>3. \A o \in 0 .. m : ~(o + m < m)
    BY <1>1
  <2>4. Walks(a, f)
    BY <2>2, <2>3 DEF Walks, WalksBack, m
  <2> QED
    BY <2>4
<1>3. PICK k \in T : \A j \in T : k <= j
  <2>1. T \in SUBSET Nat
    BY <1>1
  <2> HIDE DEF T
  <2> QED
    BY <1>2, <2>1, LeastNat
<1>4. k \in 0 .. m /\ ~\E f : WalksBack(a, f, k)
  BY <1>3
<1>5. CASE k = 0
  <2> DEFINE f == [o \in 0 .. m |-> IF o < m THEN {} ELSE Met(a, o)]
  <2>1. ASSUME NEW o \in 0 .. m
        PROVE  f[o] = IF o + k < m THEN {} ELSE Met(a, o) \cup UNION {f[n] : n \in Ahead(a, o)}
    <3>1. CASE o < m
      BY <1>1, <1>5, <3>1
    <3>2. CASE ~(o < m)
      <4>1. o = m /\ ~(o + k < m)
        BY <1>1, <1>5, <3>2
      <4>2. Ahead(a, o) = {}
        BY <1>1, <4>1, AheadIsAhead DEF m
      <4> QED
        BY <4>1, <4>2
    <3> QED
      BY <3>1, <3>2
  <2>2. f = [o \in 0 .. m |-> f[o]]
    OBVIOUS
  <2> HIDE DEF f
  <2>3. f = [o \in 0 .. m |-> IF o + k < m THEN {}
                              ELSE Met(a, o) \cup UNION {f[n] : n \in Ahead(a, o)}]
    BY <2>1, <2>2
  <2> QED
    BY <1>4, <2>3 DEF WalksBack, m
<1>6. CASE k # 0
  <2>1. k - 1 \in 0 .. m /\ ~(k <= k - 1)
    BY <1>1, <1>4, <1>6
  <2>2. PICK f : WalksBack(a, f, k - 1)
    BY <1>3, <2>1
  <2> DEFINE o1 == m - k
             g == [o \in 0 .. m |-> IF o = o1 THEN Met(a, o) \cup UNION {f[n] : n \in Ahead(a, o)}
                                    ELSE f[o]]
  <2>3. o1 \in 0 .. m /\ o1 + k = m
    BY <1>1, <1>4
  <2> HIDE DEF o1
  <2>4. ASSUME NEW o \in 0 .. m, ~(o + k < m), NEW n \in Ahead(a, o)
        PROVE  g[n] = f[n]
    <3>1. n \in 0 .. m /\ n > o
      BY AheadIsAhead, <1>1 DEF m
    <3>2. n # o1
      BY <1>1, <1>4, <2>3, <2>4, <3>1
    <3> QED
      BY <3>1, <3>2
  <2>5. ASSUME NEW o \in 0 .. m
        PROVE  g[o] = IF o + k < m THEN {} ELSE Met(a, o) \cup UNION {g[n] : n \in Ahead(a, o)}
    <3>1. f[o] = IF o + (k - 1) < m THEN {} ELSE Met(a, o) \cup UNION {f[n] : n \in Ahead(a, o)}
      BY <2>2 DEF WalksBack, m
    <3>2. CASE o + k < m
      <4>1. o # o1 /\ o + (k - 1) < m
        BY <1>1, <1>4, <2>3, <3>2
      <4> QED
        BY <3>1, <3>2, <4>1
    <3>3. CASE ~(o + k < m)
      <4>1. UNION {g[n] : n \in Ahead(a, o)} = UNION {f[n] : n \in Ahead(a, o)}
        <5> HIDE DEF g
        <5>1. \A n \in Ahead(a, o) : g[n] = f[n]
          BY <2>4, <3>3
        <5> QED
          BY <5>1
      <4>2. CASE o = o1
        BY <3>3, <4>1, <4>2
      <4>3. CASE o # o1
        <5>1. ~(o + (k - 1) < m)
          BY <1>1, <1>4, <2>3, <3>3, <4>3
        <5>2. g[o] = f[o]
          BY <4>3
        <5> QED
          BY <3>1, <3>3, <4>1, <5>1, <5>2
      <4> QED
        BY <4>2, <4>3
    <3> QED
      BY <3>2, <3>3
  <2>6. g = [o \in 0 .. m |-> g[o]]
    OBVIOUS
  <2> HIDE DEF g
  <2>7. g = [o \in 0 .. m |-> IF o + k < m THEN {}
                              ELSE Met(a, o) \cup UNION {g[n] : n \in Ahead(a, o)}]
    BY <2>5, <2>6
  <2> QED
    BY <1>4, <2>7 DEF WalksBack, m
<1> QED
  BY <1>5, <1>6

LEMMA FromTheFrontIs ==
  ASSUME NEW a, a.end \in Nat
  PROVE  \E f : Walks(a, f) /\ FromTheFront(a) = f[0]
<1> DEFINE w == CHOOSE f : Walks(a, f)
<1>1. FromTheFront(a) = w[0]
  BY DEF FromTheFront, Walks
<1>2. Walks(a, w)
  BY WalkExists
<1> QED
  BY <1>1, <1>2
-----------------------------------------------------------------------------
(***************************************************************************)
(* A valid archive from the front.                                         *)
(***************************************************************************)
(* A local header of a valid archive says what its entry says, and the reader finds its end. *)
LEMMA HeaderRead ==
  ASSUME NEW a, IsArchive(a), ValidateZltArchive(a), NEW i \in 1 .. a.count
  PROVE  LET e == Entries(a)[i]
         IN  /\ e.at \in Nat /\ LocalEnd(e) \in Nat
             /\ e.at < LocalEnd(e) /\ LocalEnd(e) <= a.start /\ a.start <= a.end
             /\ a.locals[e.at].path = e.path
             /\ Ahead(a, e.at) = {LocalEnd(e)}
             /\ Met(a, e.at) = {Seen(e)}
<1> DEFINE e == Entries(a)[i]
           o == e.at
           l == a.locals[o]
<1>1. /\ EndRecordOk(a) /\ DirectoryComplete(a) /\ LocalOk(a, e)
      /\ a.start \in Nat /\ a.end \in Nat
  BY DEF ValidateZltArchive, IsArchive
<1>2. e.at \in Nat /\ e.packed \in Nat /\ e.descriptor \in BOOLEAN
  BY <1>1, EntryTyped
<1> HIDE DEF e
<1>3. a.start <= a.end
  BY <1>1 DEF EndRecordOk
<1>4. o \in DOMAIN a.locals /\ o < a.start /\ LocalEnd(e) <= a.start
  BY <1>1 DEF LocalOk
<1>5. l.path = e.path /\ l.directory = e.directory /\ l.descriptor = e.descriptor
  BY <1>1 DEF LocalOk, Signature
<1>6. DataEnd(e) \in Nat /\ DataEnd(e) = o + 1 + e.packed
  BY <1>2 DEF DataEnd
<1>7. DataEnds(a, o) = {DataEnd(e)}
  <2>1. CASE ~e.descriptor
    <3>1. l.packed = e.packed
      BY <1>1, <2>1 DEF LocalOk, Sizes
    <3> QED
      BY <1>5, <1>6, <2>1, <3>1 DEF DataEnds
  <2>2. CASE e.descriptor
    <3> DEFINE d == DataEnd(e)
               D == DOMAIN a.descriptors
    <3>1. d \in D /\ a.descriptors[d].packed = e.packed
      BY <1>1, <2>2 DEF LocalOk, Sizes
    <3>2. D \subseteq Nat
      BY DEF IsArchive
    <3> HIDE DEF d
    <3>3. d \in Nat /\ d = o + 1 + e.packed
      BY <1>6 DEF d
    <3>4. ASSUME NEW c \in D, c > o PROVE d <= c
      <4>1. CASE c < d
        <5>1. c + a.descriptors[d].packed < d
          BY <3>1, <4>1 DEF IsArchive
        <5> QED
          BY <1>2, <3>1, <3>2, <3>3, <3>4, <5>1
      <4> QED
        BY <3>2, <3>3, <4>1
    <3>5. d > o
      BY <1>2, <3>3
    <3>6. DataEnds(a, o) = {b \in D : b > o /\ \A c \in D : c > o => b <= c}
      BY <1>5, <2>2 DEF DataEnds
    <3>7. ASSUME NEW b \in D, b > o, \A c \in D : c > o => b <= c
          PROVE  b = d
      BY <3>1, <3>2, <3>3, <3>4, <3>5, <3>7
    <3> HIDE DEF D
    <3>8. DataEnds(a, o) = {d}
      BY <3>1, <3>4, <3>5, <3>6, <3>7
    <3> QED
      BY <3>8 DEF d
  <2> QED
    BY <1>2, <2>1, <2>2
<1>8. /\ LocalEnd(e) = DataEnd(e) + (IF l.descriptor THEN 1 ELSE 0)
      /\ LocalEnd(e) \in Nat /\ o < LocalEnd(e)
  BY <1>2, <1>5, <1>6 DEF LocalEnd
<1>9. Ahead(a, o) = {LocalEnd(e)}
  <2>1. LocalEnd(e) \in o + 1 .. a.end
    BY <1>1, <1>2, <1>3, <1>4, <1>8
  <2>2. o # a.start
    BY <1>1, <1>2, <1>4
  <2>3. {d + (IF l.descriptor THEN 1 ELSE 0) : d \in DataEnds(a, o)} = {LocalEnd(e)}
    BY <1>7, <1>8
  <2>4. Ahead(a, o) = {d + (IF l.descriptor THEN 1 ELSE 0) : d \in DataEnds(a, o)}
                      \cap (o + 1 .. a.end)
    BY <1>4, <2>2 DEF Ahead
  <2> QED
    BY <2>1, <2>3, <2>4
<1>10. Met(a, o) = {Seen(e)}
  <2> DEFINE sizes == IF l.descriptor THEN {a.descriptors[d].size : d \in DataEnds(a, o)}
                      ELSE {l.size}
  <2>1. sizes = {e.size}
    <3>1. CASE ~e.descriptor
      BY <1>1, <1>5, <3>1 DEF LocalOk, Sizes
    <3>2. CASE e.descriptor
      <4>1. a.descriptors[DataEnd(e)].size = e.size
        BY <1>1, <3>2 DEF LocalOk, Sizes
      <4> QED
        BY <1>5, <1>7, <3>2, <4>1
    <3> QED
      BY <1>2, <3>1, <3>2
  <2>2. o # a.start /\ Ahead(a, o) # {}
    BY <1>1, <1>2, <1>4, <1>9
  <2>3. Met(a, o) = {[path |-> l.path, directory |-> l.directory, size |-> s] : s \in sizes}
    BY <2>2 DEF Met
  <2> HIDE DEF sizes
  <2>4. Met(a, o) = {[path |-> l.path, directory |-> l.directory, size |-> e.size]}
    BY <2>1, <2>3
  <2> QED
    BY <1>5, <2>4 DEF Seen
<1> QED
  BY <1>2, <1>3, <1>4, <1>5, <1>8, <1>9, <1>10 DEF e

(* No two entries share a local header. *)
LEMMA OneEntryAtAHeader ==
  ASSUME NEW a, IsArchive(a), ValidateZltArchive(a), NEW i \in 1 .. a.count,
         NEW j \in 1 .. a.count, Entries(a)[i].at = Entries(a)[j].at
  PROVE  i = j
<1>1. Entries(a)[i].path = Entries(a)[j].path
  BY HeaderRead
<1>2. DOMAIN Entries(a) = 1 .. a.count
  BY DEF Entries
<1>3. EntriesOk(Entries(a))
  BY DEF ValidateZltArchive
<1> QED
  BY <1>1, <1>2, <1>3 DEF EntriesOk

(* Between a header and the end of its data no other header stands.  Of the headers whose data *)
(* another one interrupts, take the first, and the first that interrupts it: some data ends    *)
(* there, and the header before that data is interrupted earlier, or interrupts earlier.       *)
LEMMA NothingInBetween ==
  ASSUME NEW a, IsArchive(a), ValidateZltArchive(a), NEW i \in 1 .. a.count,
         NEW j \in 1 .. a.count, Entries(a)[i].at < Entries(a)[j].at
  PROVE  LocalEnd(Entries(a)[i]) <= Entries(a)[j].at
<1> DEFINE I == 1 .. a.count
           at == [k \in I |-> Entries(a)[k].at]
           end == [k \in I |-> LocalEnd(Entries(a)[k])]
<1>1. \A k \in I : at[k] \in Nat /\ end[k] \in Nat /\ at[k] < end[k]
  BY HeaderRead
<1>2. \A k, m \in I : at[k] = at[m] => k = m
  BY OneEntryAtAHeader
<1>3. \A k \in I : at[k] = 0 \/ \E m \in I : end[m] = at[k]
  <2>1. RangesOk(a, Entries(a)) /\ DOMAIN Entries(a) = I
    BY DEF ValidateZltArchive, Entries
  <2>2. {Entries(a)[k].at : k \in I} \subseteq {LocalEnd(Entries(a)[k]) : k \in I} \cup {0}
    BY <2>1 DEF RangesOk
  <2> QED
    BY <2>2
<1> HIDE DEF at, end
<1> DEFINE Cut(k, m) == at[k] < at[m] /\ at[m] < end[k]
           T == {at[k] : k \in {k \in I : \E m \in I : Cut(k, m)}}
<1>4. CASE T = {}
  <2>1. ~Cut(i, j)
    BY <1>4
  <2>2. at[i] = Entries(a)[i].at /\ at[j] = Entries(a)[j].at /\ end[i] = LocalEnd(Entries(a)[i])
    BY DEF at, end
  <2> QED
    BY <1>1, <2>1, <2>2
<1>5. CASE T # {}
  <2>1. T \in SUBSET Nat
    BY <1>1
  <2>2. PICK s \in T : \A t \in T : s <= t
    <3> HIDE DEF T
    <3> QED
      BY <1>5, <2>1, LeastNat
  <2>3. PICK k \in I : s = at[k] /\ \E m \in I : Cut(k, m)
    BY <2>2
  <2> DEFINE U == {at[m] : m \in {m \in I : Cut(k, m)}}
  <2>4. U # {} /\ U \in SUBSET Nat
    BY <1>1, <2>3
  <2>5. PICK u \in U : \A t \in U : u <= t
    <3> HIDE DEF U
    <3> QED
      BY <2>4, LeastNat
  <2>6. PICK m \in I : u = at[m] /\ Cut(k, m)
    BY <2>5
  <2>7. PICK n \in I : end[n] = at[m]
    BY <1>1, <1>3, <2>3, <2>6
  <2>8. at[n] < at[m]
    BY <1>1, <2>7
  <2>9. CASE at[n] < at[k]
    <3>1. Cut(n, k)
      BY <2>6, <2>7, <2>9
    <3>2. at[n] \in T
      BY <3>1
    <3> QED
      BY <1>1, <2>2, <2>3, <2>9, <3>2
  <2>10. CASE at[n] = at[k]
    <3>1. n = k
      BY <1>2, <2>10
    <3> QED
      BY <1>1, <2>6, <2>7, <3>1
  <2>11. CASE at[k] < at[n]
    <3>1. Cut(k, n)
      BY <1>1, <2>6, <2>8, <2>11
    <3>2. at[n] \in U
      BY <3>1
    <3> QED
      BY <1>1, <2>5, <2>6, <2>8, <3>2
  <2> QED
    BY <1>1, <2>9, <2>10, <2>11
<1> QED
  BY <1>4, <1>5

(* The entries whose headers stand at o or behind it. *)
SeenFrom(a, o) ==
  {Seen(Entries(a)[i]) : i \in {i \in 1 .. a.count : o <= Entries(a)[i].at}}

(* From a header on, and from the end of the data, the walk finds the entries that are left. *)
LEMMA WalkFinds ==
  ASSUME NEW a, IsArchive(a), ValidateZltArchive(a), NEW f, Walks(a, f),
         NEW p \in {Entries(a)[i].at : i \in 1 .. a.count} \cup {a.start}
  PROVE  f[p] = SeenFrom(a, p)
<1> DEFINE I == 1 .. a.count
           E == Entries(a)
           stops == {E[i].at : i \in I} \cup {a.start}
           T == {d \in Nat : \E o \in stops : o + d = a.start /\ f[o] # SeenFrom(a, o)}
<1>1. /\ a.start \in Nat /\ a.end \in Nat /\ a.count \in Nat
      /\ EndRecordOk(a) /\ RangesOk(a, E)
  BY DEF ValidateZltArchive, IsArchive
<1>2. a.start <= a.end
  BY <1>1 DEF EndRecordOk
<1>3. \A i \in I : E[i].at \in Nat /\ LocalEnd(E[i]) \in Nat /\ E[i].at < LocalEnd(E[i])
                   /\ LocalEnd(E[i]) <= a.start
  BY HeaderRead
<1>4. \A i \in I : LocalEnd(E[i]) \in stops
  <2>1. DOMAIN E = I
    BY DEF Entries
  <2>2. {LocalEnd(E[i]) : i \in I} \subseteq stops
    BY <1>1, <2>1 DEF RangesOk
  <2> QED
    BY <2>2
<1>5. \A o \in stops : o \in 0 .. a.start /\ o \in 0 .. a.end
  BY <1>1, <1>2, <1>3
<1>6. \A o \in stops : f[o] = Met(a, o) \cup UNION {f[n] : n \in Ahead(a, o)}
  BY <1>5 DEF Walks
<1>7. CASE T = {}
  <2>1. p \in stops
    OBVIOUS
  <2> HIDE DEF stops
  <2>2. p \in 0 .. a.start
    BY <1>5, <2>1
  <2>3. a.start - p \in Nat /\ p + (a.start - p) = a.start
    BY <1>1, <2>2
  <2> QED
    BY <1>7, <2>1, <2>3
<1>8. CASE T # {}
  <2>1. PICK d \in T : \A c \in T : d <= c
    <3>1. T \in SUBSET Nat
      OBVIOUS
    <3> HIDE DEF T
    <3> QED
      BY <1>8, <3>1, LeastNat
  <2>2. PICK o \in stops : d \in Nat /\ o + d = a.start /\ f[o] # SeenFrom(a, o)
    BY <2>1
  <2>3. CASE o = a.start
    <3>1. Met(a, o) = {} /\ Ahead(a, o) = {}
      BY <2>3 DEF Met, Ahead
    <3>2. f[o] = {}
      BY <1>6, <3>1
    <3>3. SeenFrom(a, o) = {}
      <4>1. \A i \in I : ~(o <= E[i].at)
        BY <1>1, <1>3, <2>3
      <4> QED
        BY <4>1 DEF SeenFrom
    <3> QED
      BY <2>2, <3>2, <3>3
  <2>4. CASE o # a.start
    <3>1. PICK i \in I : o = E[i].at
      BY <2>4
    <3> DEFINE n == LocalEnd(E[i])
    <3>2. Met(a, o) = {Seen(E[i])} /\ Ahead(a, o) = {n}
      BY <3>1, HeaderRead
    <3>3. f[o] = {Seen(E[i])} \cup f[n]
      BY <1>6, <3>2
    <3>4. f[n] = SeenFrom(a, n)
      <4>1. n \in stops /\ n \in Nat /\ n <= a.start /\ o < n /\ o \in Nat
        BY <1>3, <1>4, <3>1
      <4> HIDE DEF n
      <4>2. a.start - n \in Nat /\ n + (a.start - n) = a.start /\ ~(d <= a.start - n)
        BY <1>1, <2>2, <4>1
      <4> QED
        BY <2>1, <4>1, <4>2
    <3>5. \A j \in I : o <= E[j].at <=> j = i \/ n <= E[j].at
      <4> SUFFICES ASSUME NEW j \in I
                   PROVE  o <= E[j].at <=> j = i \/ n <= E[j].at
        OBVIOUS
      <4>1. o < E[j].at => n <= E[j].at
        BY <3>1, NothingInBetween
      <4>2. o = E[j].at => j = i
        BY <3>1, OneEntryAtAHeader
      <4>3. /\ E[i].at \in Nat /\ E[j].at \in Nat
            /\ LocalEnd(E[i]) \in Nat /\ E[i].at < LocalEnd(E[i])
        BY <1>3
      <4> HIDE DEF E
      <4> QED
        BY <3>1, <4>1, <4>2, <4>3
    <3>6. SeenFrom(a, o) = {Seen(E[i])} \cup SeenFrom(a, n)
      <4> HIDE DEF n
      <4> QED
        BY <3>5 DEF SeenFrom
    <3> QED
      BY <2>2, <3>3, <3>4, <3>6
  <2> QED
    BY <2>3, <2>4
<1> QED
  BY <1>7, <1>8

(* A reader from the front meets what the directory has. *)
LEMMA ValidReads ==
  ASSUME NEW a, IsArchive(a), ValidateZltArchive(a)
  PROVE  FromTheFront(a) = {Seen(Entries(a)[i]) : i \in 1 .. a.count}
<1> DEFINE starts == {Entries(a)[i].at : i \in 1 .. a.count}
<1>1. a.start \in Nat /\ a.end \in Nat
  BY DEF IsArchive
<1>2. \A i \in 1 .. a.count :
        0 <= Entries(a)[i].at /\ Entries(a)[i].at < a.start
  BY <1>1, HeaderRead
<1>3. 0 \in starts \cup {a.start}
  BY DEF ValidateZltArchive, RangesOk, Entries
<1>4. PICK f : Walks(a, f) /\ FromTheFront(a) = f[0]
  BY <1>1, FromTheFrontIs
<1>5. f[0] = SeenFrom(a, 0)
  BY <1>3, <1>4, WalkFinds
<1>6. SeenFrom(a, 0) = {Seen(Entries(a)[i]) : i \in 1 .. a.count}
  BY <1>2 DEF SeenFrom
<1> QED
  BY <1>4, <1>5, <1>6

(* An accepted archive reads alike from its directory and from its front: a reader of either *)
(* kind finds the same names, directories and sizes (ValidateZltArchive).                     *)
THEOREM ReadersAgreeAlways == PackageSpec => []ReadersAgree
<1>1. PackageInv => ReadersAgree
  <2> SUFFICES ASSUME PackageInv, verdict = "accepted"
               PROVE  FromTheFront(archive) = {Seen(Entries(archive)[i]) : i \in 1 .. archive.count}
    BY DEF ReadersAgree
  <2>1. IsArchive(archive) /\ ValidateZltArchive(archive)
    BY ArchivesAssumption DEF PackageInv
  <2> QED
    BY <2>1, ValidReads
<1> QED
  BY <1>1, AcceptedIsValid, PTL
=============================================================================
