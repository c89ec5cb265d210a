-------------------------- MODULE RimeEngineProofs --------------------------
(***************************************************************************)
(* Lemmas about the engines: what every call of librime's adapter and of   *)
(* the stub keeps, for any candidates, any limits and any schema.          *)
(*                                                                         *)
(* An engine is sound if the keys it remembers are accounted for, its      *)
(* count of letters is right, no two separators meet and the pages it left *)
(* follow from each other.  HandleServed says that every answer of a sound *)
(* engine is one; SnapshotIs what a snapshot of one looks like; RimePlaced *)
(* where in it the candidates are that a number selects.                   *)
(***************************************************************************)
EXTENDS RimeEngine, FiniteSetTheorems, SequenceTheorems, WellFoundedInduction, TLAPS

-----------------------------------------------------------------------------
(* Induction over the natural numbers, for sets.                           *)
LEMMA LeastNat ==
  ASSUME NEW T \in SUBSET Nat, T # {}
  PROVE  \E x \in T : \A y \in T : x <= y
<1> DEFINE R == OpToRel(<, Nat)
<1>1. IsWellFoundedOn(R, Nat)
  BY NatLessThanWellFounded
<1>2. \A x, y \in Nat : x < y => <<x, y>> \in R
  BY DEF OpToRel
<1> HIDE DEF R
<1>3. PICK x \in T : \A y \in T : ~(<<y, x>> \in R)
  BY <1>1, WFMin, Zenon
<1>4. \A y \in T : ~(y < x)
  BY <1>2, <1>3
<1>5. \A y \in T : x <= y
  BY <1>4
<1> QED
  BY <1>5

LEMMA Induction ==
  ASSUME NEW m \in Nat, NEW H,
         0 \in H, \A n \in 1 .. m : n - 1 \in H => n \in H
  PROVE  \A n \in 0 .. m : n \in H
<1> DEFINE T == {n \in 0 .. m : n \notin H}
<1>1. CASE T = {}
  BY <1>1
<1>2. CASE T # {}
  <2>1. T \in SUBSET Nat
    OBVIOUS
  <2> HIDE DEF T
  <2>2. PICK x \in T : \A y \in T : x <= y
    BY <1>2, <2>1, LeastNat, Zenon
  <2> USE DEF T
  <2>3. x \in 0 .. m /\ x \notin H
    BY <2>2
  <2>4. x # 0
    BY <2>3
  <2>5. x - 1 \in 0 .. m
    BY <2>3, <2>4
  <2>6. x - 1 \in H
    BY <2>2, <2>3, <2>5
  <2> QED
    BY <2>3, <2>4, <2>6
<1> QED
  BY <1>1, <1>2

(* A function may be defined by a base and a step. *)
LEMMA Recursion ==
  ASSUME NEW m \in Nat, NEW S, NEW b \in S, NEW step \in [1 .. m -> [S -> S]]
  PROVE  \E f \in [0 .. m -> S] :
           f[0] = b /\ \A n \in 1 .. m : f[n] = step[n][f[n - 1]]
<1> DEFINE H == {k \in 0 .. m : \E f \in [0 .. k -> S] :
                   \A n \in 0 .. k : f[n] = IF n = 0 THEN b ELSE step[n][f[n - 1]]}
<1>1. 0 \in H
  <2> DEFINE f == [n \in 0 .. 0 |-> b]
  <2>1. f \in [0 .. 0 -> S]
    OBVIOUS
  <2>2. \A n \in 0 .. 0 : f[n] = IF n = 0 THEN b ELSE step[n][f[n - 1]]
    OBVIOUS
  <2> HIDE DEF f
  <2> QED
    BY <2>1, <2>2
<1>2. \A k \in 1 .. m : k - 1 \in H => k \in H
  <2> SUFFICES ASSUME NEW k \in 1 .. m, k - 1 \in H PROVE k \in H
    OBVIOUS
  <2>1. PICK f \in [0 .. k - 1 -> S] :
          \A n \in 0 .. k - 1 : f[n] = IF n = 0 THEN b ELSE step[n][f[n - 1]]
    OBVIOUS
  <2> DEFINE g == [n \in 0 .. k |-> IF n = k THEN step[k][f[k - 1]] ELSE f[n]]
  <2>2. f[k - 1] \in S /\ step[k] \in [S -> S]
    OBVIOUS
  <2>3. g \in [0 .. k -> S]
    BY <2>2
  <2>4. ASSUME NEW n \in 0 .. k
        PROVE  g[n] = IF n = 0 THEN b ELSE step[n][g[n - 1]]
    <3>1. CASE n = k
      <4>1. n # 0 /\ n - 1 \in 0 .. k /\ n - 1 # k
        BY <3>1
      <4> QED
        BY <3>1, <4>1
    <3>2. CASE n # k /\ n = 0
      BY <2>1, <3>2
    <3>3. CASE n # k /\ n # 0
      <4>1. n \in 0 .. k - 1 /\ n - 1 \in 0 .. k /\ n - 1 # k
        BY <3>3
      <4>2. f[n] = step[n][f[n - 1]]
        BY <2>1, <3>3, <4>1
      <4> QED
        BY <3>3, <4>1, <4>2
    <3> QED
      BY <3>1, <3>2, <3>3
  <2> HIDE DEF g
  <2> QED
    BY <2>3, <2>4
<1> HIDE DEF H
<1>3. \A k \in 0 .. m : k \in H
  BY <1>1, <1>2, Induction
<1>4. m \in H
  BY <1>3
<1>5. PICK f \in [0 .. m -> S] :
        \A n \in 0 .. m : f[n] = IF n = 0 THEN b ELSE step[n][f[n - 1]]
  BY <1>4 DEF H
<1>6. f[0] = b /\ \A n \in 1 .. m : f[n] = step[n][f[n - 1]]
  BY <1>5
<1> QED
  BY <1>6

-----------------------------------------------------------------------------
(* Reading the list of librime.                                            *)
LEMMA SeenIs ==
  ASSUME NEW e, NEW first \in Int, Len(Candidates(e)) \in Nat
  PROVE  /\ Seen(e, first) \in [0 .. Len(Candidates(e)) -> Seq(Nat)]
         /\ Seen(e, first)[0] = <<>>
         /\ \A n \in 1 .. Len(Candidates(e)) :
              Seen(e, first)[n] =
                IF n > first /\ ShouldShow(e, Candidates(e)[n])
                THEN Append(Seen(e, first)[n - 1], n - 1) ELSE Seen(e, first)[n - 1]
<1> DEFINE m == Len(Candidates(e))
           Passes(n) == n > first /\ ShouldShow(e, Candidates(e)[n])
           step == [n \in 1 .. m |->
                      [q \in Seq(Nat) |-> IF Passes(n) THEN Append(q, n - 1) ELSE q]]
           Right(f) == f = [n \in 0 .. m |->
                              IF n = 0 THEN <<>>
                              ELSE IF Passes(n) THEN Append(f[n - 1], n - 1) ELSE f[n - 1]]
<1>1. Seen(e, first) = CHOOSE f : Right(f)
  BY DEF Seen
<1>2. m \in Nat
  OBVIOUS
<1> HIDE DEF m
<1>3. step \in [1 .. m -> [Seq(Nat) -> Seq(Nat)]]
  <2>1. ASSUME NEW n \in 1 .. m, NEW q \in Seq(Nat)
        PROVE  (IF Passes(n) THEN Append(q, n - 1) ELSE q) \in Seq(Nat)
    <3>1. n - 1 \in Nat
      BY <1>2
    <3>2. Append(q, n - 1) \in Seq(Nat)
      BY <3>1
    <3> QED
      BY <3>2
  <2> QED
    BY <2>1
<1>4. <<>> \in Seq(Nat)
  OBVIOUS
<1>5. PICK f \in [0 .. m -> Seq(Nat)] :
        f[0] = <<>> /\ \A n \in 1 .. m : f[n] = step[n][f[n - 1]]
  <2> DEFINE S == Seq(Nat)
             b == <<>>
  <2>1. b \in S /\ step \in [1 .. m -> [S -> S]]
    BY <1>3, <1>4
  <2> HIDE DEF step, S, b
  <2>2. \E f \in [0 .. m -> S] : f[0] = b /\ \A n \in 1 .. m : f[n] = step[n][f[n - 1]]
    BY <1>2, <2>1, Recursion
  <2> QED
    BY <2>2 DEF S, b
<1> HIDE DEF Passes
<1>6. Right(f)
  <2>1. ASSUME NEW n \in 0 .. m
        PROVE  f[n] = IF n = 0 THEN <<>>
                      ELSE IF Passes(n) THEN Append(f[n - 1], n - 1) ELSE f[n - 1]
    <3>1. CASE n = 0
      BY <1>5, <3>1
    <3>2. CASE n # 0
      <4>1. n \in 1 .. m /\ n - 1 \in 0 .. m
        BY <1>2, <3>2
      <4>2. f[n] = step[n][f[n - 1]]
        BY <1>5, <4>1
      <4>3. f[n - 1] \in Seq(Nat)
        BY <4>1
      <4> QED
        BY <3>2, <4>1, <4>2, <4>3
    <3> QED
      BY <3>1, <3>2
  <2> QED
    BY <2>1
<1> HIDE DEF step
<1>7. Right(Seen(e, first))
  <2> HIDE DEF Right
  <2> QED
    BY <1>1, <1>6
<1> DEFINE g == Seen(e, first)
<1> HIDE DEF g
<1>8. g = [n \in 0 .. m |-> IF n = 0 THEN <<>>
                            ELSE IF Passes(n) THEN Append(g[n - 1], n - 1) ELSE g[n - 1]]
  BY <1>7 DEF g
<1>9. g[0] = <<>>
  BY <1>2, <1>8
<1>12. \A n \in 1 .. m : g[n] = IF Passes(n) THEN Append(g[n - 1], n - 1) ELSE g[n - 1]
  <2> SUFFICES ASSUME NEW n \in 1 .. m
               PROVE  g[n] = IF Passes(n) THEN Append(g[n - 1], n - 1) ELSE g[n - 1]
    OBVIOUS
  <2>1. n \in 0 .. m /\ n # 0
    BY <1>2
  <2> QED
    BY <1>8, <2>1
<1>10. \A n \in 0 .. m : g[n] \in Seq(Nat)
  <2> DEFINE H == {n \in 0 .. m : g[n] \in Seq(Nat)}
  <2>1. 0 \in H
    <3>1. g[0] \in Seq(Nat)
      BY <1>4, <1>9
    <3> QED
      BY <1>2, <3>1
  <2>2. ASSUME NEW n \in 1 .. m, n - 1 \in H PROVE n \in H
    <3>1. g[n - 1] \in Seq(Nat) /\ n - 1 \in Nat /\ n \in 0 .. m
      BY <1>2, <2>2
    <3>2. Append(g[n - 1], n - 1) \in Seq(Nat)
      BY <3>1
    <3> QED
      BY <1>12, <3>1, <3>2
  <2> HIDE DEF H
  <2>3. \A n \in 0 .. m : n \in H
    BY <1>2, <2>1, <2>2, Induction
  <2> QED
    BY <2>3 DEF H
<1>11. g \in [0 .. m -> Seq(Nat)]
  BY <1>8, <1>10
<1> QED
  BY <1>9, <1>11, <1>12 DEF g, m, Passes

(* What is seen are the places that are shown, among those read so far. *)
LEMMA SeenPlaces ==
  ASSUME NEW e, NEW first \in Nat, Len(Candidates(e)) \in Nat,
         NEW n \in 0 .. Len(Candidates(e)), NEW i \in 1 .. Len(Seen(e, first)[n])
  PROVE  /\ Seen(e, first)[n] \in Seq(Nat)
         /\ Seen(e, first)[n][i] \in first .. n - 1
         /\ ShouldShow(e, Candidates(e)[Seen(e, first)[n][i] + 1])
<1> DEFINE m == Len(Candidates(e))
           g == Seen(e, first)
           Shows(p) == ShouldShow(e, Candidates(e)[p])
           H == {k \in 0 .. m :
                   \A j \in 1 .. Len(g[k]) :
                     g[k][j] \in first .. k - 1 /\ Shows(g[k][j] + 1)}
<1>1. /\ m \in Nat /\ g \in [0 .. m -> Seq(Nat)] /\ g[0] = <<>>
      /\ \A k \in 1 .. m :
           g[k] = IF k > first /\ Shows(k) THEN Append(g[k - 1], k - 1) ELSE g[k - 1]
  BY SeenIs
<1> HIDE DEF m, g, Shows
<1>2. 0 \in H
  <2>1. Len(<<>>) = 0
    OBVIOUS
  <2> QED
    BY <1>1, <2>1
<1>3. ASSUME NEW k \in 1 .. m, k - 1 \in H PROVE k \in H
  <2>1. k - 1 \in 0 .. m /\ k \in 0 .. m /\ g[k - 1] \in Seq(Nat)
    BY <1>1
  <2> DEFINE q == g[k - 1]
  <2>2. \A j \in 1 .. Len(q) : q[j] \in first .. k - 2 /\ Shows(q[j] + 1)
    BY <1>3, <2>1
  <2>3. CASE ~(k > first /\ Shows(k))
    <3>1. g[k] = q
      BY <1>1, <2>3
    <3>2. \A j \in 1 .. Len(q) : q[j] \in first .. k - 1 /\ Shows(q[j] + 1)
      BY <2>1, <2>2, SMTT(30)
    <3> QED
      BY <2>1, <3>1, <3>2
  <2>4. CASE k > first /\ Shows(k)
    <3>1. g[k] = Append(q, k - 1)
      BY <1>1, <2>4
    <3> HIDE DEF q
    <3>2. q \in Seq(Nat) /\ k - 1 \in Nat
      BY <2>1 DEF q
    <3>3. Len(g[k]) = Len(q) + 1 /\ Len(q) \in Nat
      BY <3>1, <3>2
    <3>4. \A j \in 1 .. Len(q) : g[k][j] = q[j]
      BY <3>1, <3>2
    <3>5. g[k][Len(q) + 1] = k - 1
      BY <3>1, <3>2
    <3>6. ASSUME NEW j \in 1 .. Len(g[k]) PROVE g[k][j] \in first .. k - 1 /\ Shows(g[k][j] + 1)
      <4>1. CASE j \in 1 .. Len(q)
        <5>1. q[j] \in first .. k - 2 /\ Shows(q[j] + 1)
          BY <2>2, <4>1
        <5> QED
          BY <2>1, <3>4, <4>1, <5>1, SMTT(30)
      <4>2. CASE j = Len(q) + 1
        <5>1. k - 1 \in first .. k - 1 /\ (k - 1) + 1 = k
          BY <2>1, <2>4
        <5> QED
          BY <2>4, <3>5, <4>2, <5>1
      <4> QED
        BY <3>3, <4>1, <4>2
    <3> QED
      BY <2>1, <3>6
  <2> QED
    BY <2>3, <2>4
<1> HIDE DEF H
<1>4. \A k \in 0 .. m : k \in H
  BY <1>1, <1>2, <1>3, Induction
<1>5. n \in 0 .. m /\ i \in 1 .. Len(g[n])
  BY DEF m, g
<1>6. n \in H
  BY <1>4, <1>5
<1>7. g[n][i] \in first .. n - 1 /\ Shows(g[n][i] + 1)
  BY <1>5, <1>6 DEF H
<1> QED
  BY <1>1, <1>5, <1>7 DEF g, Shows

LEMMA AppendConcat ==
  ASSUME NEW s \in Seq(Nat), NEW t \in Seq(Nat), NEW x \in Nat
  PROVE  Append(s \o t, x) = s \o Append(t, x)
<1>1. s \o t \in Seq(Nat) /\ <<x>> \in Seq(Nat)
  BY ConcatProperties
<1>2. Append(s \o t, x) = (s \o t) \o <<x>>
  BY <1>1, AppendIsConcat
<1>3. Append(t, x) = t \o <<x>>
  BY AppendIsConcat
<1>4. (s \o t) \o <<x>> = s \o (t \o <<x>>)
  BY <1>1, ConcatAssociative, SMTT(30)
<1> QED
  BY <1>2, <1>3, <1>4

(* Reading from one place on is reading up to another, and on from there. *)
LEMMA SeenSplit ==
  ASSUME NEW e, Len(Candidates(e)) \in Nat,
         NEW b \in 0 .. Len(Candidates(e)), NEW a \in 0 .. b,
         NEW n \in b .. Len(Candidates(e))
  PROVE  Seen(e, a)[n] = Seen(e, a)[b] \o Seen(e, b)[n]
<1> DEFINE m == Len(Candidates(e))
           ga == Seen(e, a)
           gb == Seen(e, b)
           Shows(p) == ShouldShow(e, Candidates(e)[p])
           H == {k \in 0 .. m : k >= b => ga[k] = ga[b] \o gb[k]}
           L == {k \in 0 .. m : k <= b => gb[k] = <<>>}
<1>1. /\ m \in Nat /\ ga \in [0 .. m -> Seq(Nat)]
      /\ \A k \in 1 .. m :
           ga[k] = IF k > a /\ Shows(k) THEN Append(ga[k - 1], k - 1) ELSE ga[k - 1]
  BY SeenIs
<1>2. /\ gb \in [0 .. m -> Seq(Nat)] /\ gb[0] = <<>>
      /\ \A k \in 1 .. m :
           gb[k] = IF k > b /\ Shows(k) THEN Append(gb[k - 1], k - 1) ELSE gb[k - 1]
  BY SeenIs
<1>3. b \in 0 .. m /\ n \in b .. m /\ a \in 0 .. b
  OBVIOUS
<1> HIDE DEF m, ga, gb, Shows
<1>4. \A k \in 0 .. m : k \in L
  <2>1. 0 \in L
    BY <1>1, <1>2
  <2>2. ASSUME NEW k \in 1 .. m, k - 1 \in L PROVE k \in L
    <3>1. CASE k <= b
      <4>1. gb[k - 1] = <<>> /\ ~(k > b)
        BY <1>1, <1>3, <2>2, <3>1
      <4>2. gb[k] = gb[k - 1]
        BY <1>2, <4>1
      <4> QED
        BY <1>1, <4>1, <4>2
    <3>2. CASE ~(k <= b)
      BY <1>1, <3>2
    <3> QED
      BY <3>1, <3>2
  <2> HIDE DEF L
  <2> QED
    BY <1>1, <2>1, <2>2, Induction
<1>5. gb[b] = <<>>
  BY <1>1, <1>3, <1>4
<1>6. ga[b] \in Seq(Nat)
  BY <1>1, <1>3
<1>7. ga[b] \o <<>> = ga[b]
  BY <1>6
<1>8. \A k \in 0 .. m : k \in H
  <2>1. 0 \in H
    <3>1. CASE b = 0
      BY <1>1, <1>5, <1>7, <3>1
    <3>2. CASE b # 0
      BY <1>1, <1>3, <3>2
    <3> QED
      BY <3>1, <3>2
  <2>2. ASSUME NEW k \in 1 .. m, k - 1 \in H PROVE k \in H
    <3>1. CASE k < b
      BY <1>1, <1>3, <3>1
    <3>2. CASE k = b
      BY <1>1, <1>5, <1>7, <3>2
    <3>3. CASE k > b
      <4>1. k - 1 \in 0 .. m /\ k - 1 >= b /\ k > a /\ k - 1 \in Nat
        BY <1>1, <1>3, <3>3
      <4>2. ga[k - 1] = ga[b] \o gb[k - 1]
        BY <2>2, <4>1
      <4>3. gb[k - 1] \in Seq(Nat)
        BY <1>2, <4>1
      <4>6. k \in 0 .. m
        BY <1>1
      <4>4. CASE Shows(k)
        <5>1. ga[k] = Append(ga[k - 1], k - 1) /\ gb[k] = Append(gb[k - 1], k - 1)
          BY <1>1, <1>2, <3>3, <4>1, <4>4
        <5>2. Append(ga[b] \o gb[k - 1], k - 1) = ga[b] \o Append(gb[k - 1], k - 1)
          <6> DEFINE s == ga[b]
                     t == gb[k - 1]
                     x == k - 1
          <6>1. s \in Seq(Nat) /\ t \in Seq(Nat) /\ x \in Nat
            BY <1>6, <4>1, <4>3
          <6> HIDE DEF s, t, x
          <6>2. Append(s \o t, x) = s \o Append(t, x)
            BY <6>1, AppendConcat
          <6> QED
            BY <6>2 DEF s, t, x
        <5>3. ga[k] = ga[b] \o gb[k]
          BY <4>2, <5>1, <5>2
        <5> QED
          BY <4>6, <5>3
      <4>5. CASE ~Shows(k)
        <5>1. ga[k] = ga[k - 1] /\ gb[k] = gb[k - 1]
          BY <1>1, <1>2, <4>5
        <5>2. ga[k] = ga[b] \o gb[k]
          BY <4>2, <5>1
        <5> QED
          BY <4>6, <5>2
      <4> QED
        BY <4>4, <4>5
    <3> QED
      BY <1>1, <1>3, <3>1, <3>2, <3>3
  <2> HIDE DEF H
  <2> QED
    BY <1>1, <2>1, <2>2, Induction
<1>9. n \in 0 .. m /\ n >= b
  BY <1>1, <1>3
<1>10. ga[n] = ga[b] \o gb[n]
  BY <1>8, <1>9
<1> QED
  BY <1>10 DEF ga, gb

(* A page ends in front of the next: what is seen from the candidate in    *)
(* place k + 1 on is what was seen, without the first k.                   *)
LEMMA Follow ==
  ASSUME NEW e, Len(Candidates(e)) \in Nat, NEW a \in Nat, NEW k \in Nat,
         k < Len(VisibleFrom(e, a)), NEW b, b = VisibleFrom(e, a)[k + 1]
  PROVE  /\ VisibleFrom(e, b) \in Seq(Nat) /\ b \in Nat
         /\ Len(VisibleFrom(e, b)) = Len(VisibleFrom(e, a)) - k
         /\ \A i \in 1 .. Len(VisibleFrom(e, b)) :
              VisibleFrom(e, b)[i] = VisibleFrom(e, a)[k + i]
<1> DEFINE m == Len(Candidates(e))
           V == Seen(e, a)[m]
           A == Seen(e, a)[b]
           B == Seen(e, b)[m]
           C == Seen(e, b)[b + 1]
           D == Seen(e, b + 1)[m]
<1>1. V = VisibleFrom(e, a) /\ B = VisibleFrom(e, b)
  BY DEF VisibleFrom
<1>2. m \in Nat /\ m \in 0 .. m
  OBVIOUS
<1>19. \A x \in Nat, y \in 0 .. m : Seen(e, x)[y] \in Seq(Nat)
  <2> SUFFICES ASSUME NEW x \in Nat PROVE \A y \in 0 .. m : Seen(e, x)[y] \in Seq(Nat)
    OBVIOUS
  <2>1. Seen(e, x) \in [0 .. m -> Seq(Nat)]
    BY SeenIs
  <2> QED
    BY <2>1
<1>3. V \in Seq(Nat)
  BY <1>2, SeenIs
<1>4. k + 1 \in 1 .. Len(V) /\ b = V[k + 1]
  BY <1>1, <1>3
<1>5. b \in a .. m - 1 /\ ShouldShow(e, Candidates(e)[b + 1])
  BY <1>2, <1>4, SeenPlaces
<1>6. b \in Nat /\ b + 1 \in Nat /\ a \in 0 .. b /\ b \in 0 .. m /\ b + 1 \in 0 .. m
  BY <1>2, <1>5
<1>7. V = A \o B
  <2>1. m \in b .. m
    BY <1>2, <1>6
  <2> QED
    BY <1>6, <2>1, SeenSplit
<1>8. B = C \o D
  <2>1. m \in b + 1 .. m /\ b \in 0 .. b + 1
    BY <1>2, <1>6
  <2> QED
    BY <1>6, <2>1, SeenSplit, ZenonT(60)
<1>9. A \in Seq(Nat) /\ \A i \in 1 .. Len(A) : A[i] < b
  <2>1. A \in Seq(Nat)
    BY <1>6, SeenIs
  <2>2. \A i \in 1 .. Len(A) : A[i] \in a .. b - 1
    BY <1>6, SeenPlaces
  <2> QED
    BY <1>6, <2>1, <2>2, SMTT(30)
<1>10. D \in Seq(Nat) /\ \A i \in 1 .. Len(D) : D[i] > b
  <2>1. D \in Seq(Nat)
    BY <1>2, <1>6, <1>19
  <2>2. \A i \in 1 .. Len(D) : D[i] \in b + 1 .. m - 1
    BY <1>2, <1>6, SeenPlaces
  <2> QED
    <3> HIDE DEF D, m
    <3>1. \A i \in 1 .. Len(D) : D[i] >= b + 1 /\ D[i] \in Int
      BY <1>2, <1>6, <2>2
    <3> QED
      BY <1>6, <2>1, <3>1, SMTT(30)
<1>11. C = <<b>>
  <2> DEFINE Z == Seen(e, b)[b]
  <2>1. Z \in Seq(Nat)
    BY <1>6, SeenIs
  <2>2. \A i \in 1 .. Len(Z) : Z[i] \in b .. b - 1
    BY <1>6, SeenPlaces
  <2> HIDE DEF Z
  <2>3. Len(Z) = 0
    BY <1>6, <2>1, <2>2, SMTT(30)
  <2>4. Z = <<>>
    BY <2>1, <2>3
  <2>5. b + 1 \in 1 .. m /\ b + 1 > b /\ (b + 1) - 1 = b
    BY <1>5, <1>6
  <2>6. \A j \in 1 .. m : Seen(e, b)[j] =
          IF j > b /\ ShouldShow(e, Candidates(e)[j])
          THEN Append(Seen(e, b)[j - 1], j - 1) ELSE Seen(e, b)[j - 1]
    BY <1>2, <1>6, SeenIs, SMTT(30)
  <2>7. C = Append(Z, b)
    BY <1>5, <2>5, <2>6 DEF Z
  <2> QED
    BY <2>4, <2>7
<1>12. B \in Seq(Nat)
  BY <1>2, <1>6, <1>19
<1> HIDE DEF A, B, C, D, V, m
<1>13. /\ Len(V) = Len(A) + Len(B) /\ Len(A) \in Nat /\ Len(B) \in Nat
       /\ \A i \in 1 .. Len(A) + Len(B) : V[i] = IF i <= Len(A) THEN A[i] ELSE B[i - Len(A)]
  BY <1>7, <1>9, <1>12
<1>14. \A i \in 1 .. Len(B) : B[i] = IF i = 1 THEN b ELSE D[i - 1]
  BY <1>8, <1>10, <1>11
<1>15. Len(B) = 1 + Len(D) /\ Len(D) \in Nat
  BY <1>8, <1>10, <1>11
<1>16. k = Len(A)
  <2>1. ~(k + 1 <= Len(A))
    <3>1. CASE k + 1 <= Len(A)
      <4>1. V[k + 1] = A[k + 1] /\ k + 1 \in 1 .. Len(A)
        BY <1>4, <1>13, <3>1
      <4> QED
        BY <1>4, <1>6, <1>9, <4>1
    <3> QED
      BY <3>1
  <2> DEFINE j == k + 1 - Len(A)
  <2>2. j \in 1 .. Len(B) /\ V[k + 1] = B[j]
    BY <1>4, <1>13, <2>1
  <2>3. j = 1
    <3>1. CASE j # 1
      <4>1. j - 1 \in 1 .. Len(D) /\ B[j] = D[j - 1]
        BY <1>14, <1>15, <2>2, <3>1
      <4>2. D[j - 1] > b
        BY <1>10, <4>1
      <4>3. D[j - 1] = b
        BY <1>4, <2>2, <4>1
      <4> QED
        BY <1>6, <4>2, <4>3
    <3> QED
      BY <3>1
  <2> QED
    BY <1>13, <2>3
<1>17. Len(B) = Len(V) - k
  BY <1>13, <1>16
<1>18. \A i \in 1 .. Len(B) : B[i] = V[k + i]
  <2> SUFFICES ASSUME NEW i \in 1 .. Len(B) PROVE B[i] = V[k + i]
    OBVIOUS
  <2>1. k + i \in 1 .. Len(A) + Len(B) /\ ~(k + i <= Len(A)) /\ (k + i) - Len(A) = i
    BY <1>13, <1>16
  <2> QED
    BY <1>13, <2>1
<1> QED
  BY <1>1, <1>6, <1>12, <1>17, <1>18

-----------------------------------------------------------------------------
(* The keys of a composition.                                              *)
Key == {"letter", "separator"}

LEMMA LettersFinite ==
  ASSUME NEW raw \in Seq(Key)
  PROVE  /\ IsFiniteSet({i \in DOMAIN raw : raw[i] = "letter"})
         /\ LettersIn(raw) \in Nat
<1>1. IsFiniteSet(1 .. Len(raw))
  BY FS_Interval
<1>2. {i \in DOMAIN raw : raw[i] = "letter"} \subseteq 1 .. Len(raw)
  OBVIOUS
<1>3. IsFiniteSet({i \in DOMAIN raw : raw[i] = "letter"})
  BY <1>1, <1>2, FS_Subset
<1> QED
  BY <1>3, FS_CardinalityType DEF LettersIn

LEMMA LettersEmpty == LettersIn(<<>>) = 0
<1>1. {i \in DOMAIN <<>> : <<>>[i] = "letter"} = {}
  OBVIOUS
<1> QED
  BY <1>1, FS_EmptySet DEF LettersIn

LEMMA LettersAppend ==
  ASSUME NEW raw \in Seq(Key), NEW key \in Key
  PROVE  LettersIn(Append(raw, key)) = LettersIn(raw) + (IF key = "letter" THEN 1 ELSE 0)
<1> DEFINE L(q) == {i \in DOMAIN q : q[i] = "letter"}
           more == Append(raw, key)
<1>1. /\ DOMAIN raw = 1 .. Len(raw) /\ DOMAIN more = 1 .. Len(raw) + 1 /\ Len(raw) \in Nat
      /\ more[Len(raw) + 1] = key /\ \A i \in 1 .. Len(raw) : more[i] = raw[i]
  BY DEF Key
<1>2. IsFiniteSet(L(raw)) /\ LettersIn(raw) = Cardinality(L(raw)) /\ LettersIn(raw) \in Nat
  BY LettersFinite DEF LettersIn
<1>3. LettersIn(more) = Cardinality(L(more))
  BY DEF LettersIn
<1> HIDE DEF more
<1>4. CASE key = "letter"
  <2>1. L(more) = L(raw) \cup {Len(raw) + 1}
    BY <1>1, <1>4
  <2>2. Len(raw) + 1 \notin L(raw)
    BY <1>1
  <2>3. Cardinality(L(more)) = Cardinality(L(raw)) + 1
    BY <1>2, <2>1, <2>2, FS_AddElement
  <2> QED
    BY <1>2, <1>3, <1>4, <2>3 DEF more
<1>5. CASE key # "letter"
  <2>1. L(more) = L(raw)
    BY <1>1, <1>5
  <2>2. LettersIn(more) = LettersIn(raw)
    BY <1>2, <1>3, <2>1
  <2> QED
    BY <1>2, <1>5, <2>2 DEF more
<1> QED
  BY <1>4, <1>5

LEMMA LettersPrefix ==
  ASSUME NEW raw \in Seq(Key), NEW n \in 0 .. Len(raw)
  PROVE  LettersIn(SubSeq(raw, 1, n)) <= LettersIn(raw)
<1> DEFINE L(q) == {i \in DOMAIN q : q[i] = "letter"}
           less == SubSeq(raw, 1, n)
<1>1. /\ DOMAIN raw = 1 .. Len(raw) /\ DOMAIN less = 1 .. n /\ Len(raw) \in Nat
      /\ \A i \in 1 .. n : less[i] = raw[i]
  OBVIOUS
<1>2. IsFiniteSet(L(raw)) /\ LettersIn(raw) = Cardinality(L(raw))
  BY LettersFinite DEF LettersIn
<1>3. LettersIn(less) = Cardinality(L(less))
  BY DEF LettersIn
<1>4. L(less) \subseteq L(raw)
  <2> HIDE DEF less
  <2> QED
    BY <1>1
<1>5. Cardinality(L(less)) <= Cardinality(L(raw))
  BY <1>2, <1>4, FS_Subset
<1> QED
  BY <1>2, <1>3, <1>5

(* The last key and the keys in front of it. *)
LEMMA FrontLast ==
  ASSUME NEW raw \in Seq(Key), raw # <<>>
  PROVE  /\ Front(raw) \in Seq(Key) /\ Last(raw) \in Key
         /\ raw = Append(Front(raw), Last(raw))
         /\ Len(raw) \in Nat \ {0} /\ Len(Front(raw)) = Len(raw) - 1
         /\ Front(raw) = SubSeq(raw, 1, Len(raw) - 1)
         /\ Last(raw) = raw[Len(raw)]
<1>1. Len(raw) \in Nat \ {0}
  OBVIOUS
<1>2. Front(raw) = SubSeq(raw, 1, Len(raw) - 1) /\ Last(raw) = raw[Len(raw)]
  BY DEF Front, Last
<1>3. Front(raw) \in Seq(Key) /\ Len(Front(raw)) = Len(raw) - 1
  <2>1. Len(raw) - 1 \in Nat /\ \A i \in 1 .. Len(raw) - 1 : raw[i] \in Key
    BY <1>1
  <2>2. SubSeq(raw, 1, Len(raw) - 1) \in Seq(Key)
    BY <2>1, SubSeqProperties
  <2>3. Len(SubSeq(raw, 1, Len(raw) - 1)) = Len(raw) - 1
    <3> DEFINE n == Len(raw) - 1
    <3>1. n \in Nat /\ \A i \in 1 .. n : raw[i] \in Key
      BY <2>1
    <3> HIDE DEF n
    <3>2. Len(SubSeq(raw, 1, n)) = IF 1 <= n THEN n - 1 + 1 ELSE 0
      BY <3>1, SubSeqProperties
    <3>3. Len(SubSeq(raw, 1, n)) = n
      BY <3>1, <3>2
    <3> QED
      BY <3>3 DEF n
  <2> QED
    BY <1>2, <2>2, <2>3
<1>4. Last(raw) \in Key
  BY <1>1, <1>2
<1>5. \A i \in 1 .. Len(raw) - 1 : Front(raw)[i] = raw[i]
  BY <1>1, <1>2
<1> DEFINE q == Append(Front(raw), Last(raw))
<1>6. q \in Seq(Key) /\ Len(q) = Len(raw)
  BY <1>1, <1>3, <1>4
<1>7. \A i \in 1 .. Len(raw) : q[i] = raw[i]
  <2> SUFFICES ASSUME NEW i \in 1 .. Len(raw) PROVE q[i] = raw[i]
    OBVIOUS
  <2>1. CASE i = Len(raw)
    BY <1>1, <1>2, <1>3, <1>4, <2>1
  <2>2. CASE i # Len(raw)
    BY <1>1, <1>3, <1>4, <1>5, <2>2
  <2> QED
    BY <2>1, <2>2
<1> HIDE DEF q
<1>8. q = raw
  BY <1>6, <1>7
<1> QED
  BY <1>1, <1>2, <1>3, <1>4, <1>8 DEF q

LEMMA LettersFront ==
  ASSUME NEW raw \in Seq(Key), raw # <<>>
  PROVE  LettersIn(raw) = LettersIn(Front(raw)) + (IF Last(raw) = "letter" THEN 1 ELSE 0)
<1>1. Front(raw) \in Seq(Key) /\ Last(raw) \in Key /\ raw = Append(Front(raw), Last(raw))
  BY FrontLast
<1> DEFINE f == Front(raw)
           l == Last(raw)
<1> HIDE DEF f, l
<1>2. LettersIn(Append(f, l)) = LettersIn(f) + (IF l = "letter" THEN 1 ELSE 0)
  BY <1>1, LettersAppend DEF f, l
<1> QED
  BY <1>1, <1>2 DEF f, l

-----------------------------------------------------------------------------
(* The parts of an engine.                                                 *)
Taken == [keys : 0 .. Full + 1, chosen : Nat]
Settings(e) == <<e.kind, e.schema, e.pageSize, e.window, e.chineseOnly>>
Paging(e) == <<e.offset, e.stack>>
Tracking(e) == <<e.raw, e.letters, e.prefix, e.prefixed>>
Fits(e) == e \in Engine /\ e.rime.chosen <= e.rime.keys

LEMMA Limits ==
  /\ MaxLetters \in Nat \ {0} /\ MaxPageSize \in Nat \ {0} /\ MaxWindow \in Nat \ {0}
  /\ Full \in Nat \ {0}
  BY RimeEngineAssumption

LEMMA EngineParts ==
  ASSUME NEW e \in Engine
  PROVE  /\ e.kind \in {"rime", "stub"} /\ e.schema \in Schema
         /\ e.rime \in Taken /\ e.rime.keys \in 0 .. Full + 1 /\ e.rime.chosen \in Nat
         /\ e.raw \in Seq(Key) /\ e.letters \in Nat /\ e.prefix \in Nat /\ e.prefixed \in BOOLEAN
         /\ e.offset \in Nat /\ e.stack \in Seq(Nat)
         /\ e.pageSize \in 1 .. MaxPageSize /\ e.window \in 1 .. MaxWindow
         /\ e.chineseOnly \in BOOLEAN
  BY DEF Engine, Taken, Key

LEMMA PutRime ==
  ASSUME NEW e \in Engine, NEW r \in Taken
  PROVE  /\ [e EXCEPT !.rime = r] \in Engine /\ [e EXCEPT !.rime = r].rime = r
         /\ Settings([e EXCEPT !.rime = r]) = Settings(e)
         /\ Paging([e EXCEPT !.rime = r]) = Paging(e)
         /\ Tracking([e EXCEPT !.rime = r]) = Tracking(e)
  BY DEF Engine, Taken, Settings, Paging, Tracking

LEMMA PutTracking ==
  ASSUME NEW e \in Engine, NEW raw \in Seq(Key), NEW letters \in Nat
  PROVE  LET f == [e EXCEPT !.raw = raw, !.letters = letters]
         IN  /\ f \in Engine /\ f.raw = raw /\ f.letters = letters
             /\ f.rime = e.rime /\ f.prefix = e.prefix /\ f.prefixed = e.prefixed
             /\ Settings(f) = Settings(e) /\ Paging(f) = Paging(e)
  BY DEF Engine, Key, Settings, Paging

LEMMA PutPaging ==
  ASSUME NEW e \in Engine, NEW offset \in Nat, NEW stack \in Seq(Nat)
  PROVE  LET f == [e EXCEPT !.offset = offset, !.stack = stack]
         IN  /\ f \in Engine /\ f.offset = offset /\ f.stack = stack
             /\ f.rime = e.rime /\ Tracking(f) = Tracking(e) /\ Settings(f) = Settings(e)
  BY DEF Engine, Settings, Tracking

LEMMA ResetPagingIs ==
  ASSUME NEW e \in Engine
  PROVE  /\ ResetPaging(e) \in Engine
         /\ ResetPaging(e).offset = 0 /\ ResetPaging(e).stack = <<>>
         /\ ResetPaging(e).rime = e.rime
         /\ Tracking(ResetPaging(e)) = Tracking(e) /\ Settings(ResetPaging(e)) = Settings(e)
<1>1. 0 \in Nat /\ <<>> \in Seq(Nat)
  OBVIOUS
<1> QED
  BY <1>1 DEF Engine, ResetPaging, Settings, Tracking

LEMMA ClearTrackedInputIs ==
  ASSUME NEW e \in Engine
  PROVE  /\ ClearTrackedInput(e) \in Engine
         /\ ClearTrackedInput(e).raw = <<>> /\ ClearTrackedInput(e).letters = 0
         /\ ClearTrackedInput(e).prefix = 0 /\ ClearTrackedInput(e).prefixed = FALSE
         /\ ClearTrackedInput(e).rime = e.rime
         /\ Settings(ClearTrackedInput(e)) = Settings(e)
         /\ Paging(ClearTrackedInput(e)) = Paging(e)
<1>1. <<>> \in Seq({"letter", "separator"})
  OBVIOUS
<1> QED
  BY <1>1 DEF Engine, ClearTrackedInput, Settings, Paging

LEMMA ClearedIs ==
  ASSUME NEW e \in Engine
  PROVE  /\ Cleared(e) \in Engine /\ Cleared(e).rime = [keys |-> 0, chosen |-> 0]
         /\ Settings(Cleared(e)) = Settings(e) /\ Paging(Cleared(e)) = Paging(e)
         /\ Tracking(Cleared(e)) = Tracking(e)
<1>1. [keys |-> 0, chosen |-> 0] \in Taken
  BY Limits DEF Taken
<1> QED
  BY <1>1, PutRime DEF Cleared

LEMMA SegmentIs ==
  ASSUME NEW e \in Engine, NEW n \in Nat
  PROVE  LET f == AppendAutomaticSegment(e, n)
         IN  /\ f \in Engine /\ f.prefix = e.prefix + n /\ f.prefixed = TRUE
             /\ f.rime = e.rime /\ f.raw = e.raw /\ f.letters = e.letters
             /\ Settings(f) = Settings(e) /\ Paging(f) = Paging(e)
<1> DEFINE v == e.prefix + n
<1>1. v \in Nat /\ TRUE \in BOOLEAN
  BY EngineParts
<1>2. AppendAutomaticSegment(e, n) = [e EXCEPT !.prefix = v, !.prefixed = TRUE]
  BY DEF AppendAutomaticSegment
<1> HIDE DEF v
<1>3. LET f == [e EXCEPT !.prefix = v, !.prefixed = TRUE]
      IN  /\ f \in Engine /\ f.prefix = v /\ f.prefixed = TRUE
          /\ f.rime = e.rime /\ f.raw = e.raw /\ f.letters = e.letters
          /\ Settings(f) = Settings(e) /\ Paging(f) = Paging(e)
  BY <1>1 DEF Engine, Settings, Paging
<1> QED
  BY <1>2, <1>3 DEF v

-----------------------------------------------------------------------------
(* The candidates on display.                                              *)
ListType == Seq([keys : Nat \ {0}, chinese : BOOLEAN])

LEMMA CandidatesIs ==
  ASSUME NEW e, Fits(e)
  PROVE  /\ Candidates(e) \in ListType /\ Len(Candidates(e)) \in Nat
         /\ e.rime.keys = 0 => Candidates(e) = <<>>
         /\ \A i \in 1 .. Len(Candidates(e)) :
              /\ Candidates(e)[i].keys \in Nat \ {0}
              /\ Candidates(e)[i].keys <= e.rime.keys - e.rime.chosen
<1>1. e.rime.keys \in 0 .. Full + 1 /\ e.rime.chosen \in Nat /\ e.rime.chosen <= e.rime.keys
  BY EngineParts DEF Fits
<1>2. Smaller(e.rime.chosen, e.rime.keys) = e.rime.chosen
  BY <1>1 DEF Smaller
<1>3. e.rime.keys - e.rime.chosen \in 0 .. Full + 1
  BY <1>1, Limits
<1>4. Candidates(e) = Menu[e.rime.keys - e.rime.chosen]
  BY <1>2 DEF Candidates
<1> DEFINE n == e.rime.keys - e.rime.chosen
           list == Menu[n]
<1>5. Menu \in [0 .. Full + 1 -> ListType]
  BY RimeEngineAssumption DEF ListType
<1>6. list \in ListType
  BY <1>3, <1>5
<1>7. \A i \in 1 .. Len(list) : list[i].keys <= n
  BY <1>3, RimeEngineAssumption
<1>8. e.rime.keys = 0 => n = 0
  BY <1>1
<1>9. n \in Nat
  BY <1>3, Limits
<1>10. Candidates(e) = list
  BY <1>4
<1> HIDE DEF list, n
<1>11. \A i \in 1 .. Len(list) : list[i].keys \in Nat \ {0}
  <2> DEFINE R == [keys : Nat \ {0}, chinese : BOOLEAN]
  <2>1. \A r \in R : r.keys \in Nat \ {0}
    OBVIOUS
  <2>2. list \in Seq(R)
    BY <1>6 DEF ListType
  <2> HIDE DEF R
  <2>3. \A i \in 1 .. Len(list) : list[i] \in R
    BY <2>2
  <2> QED
    BY <2>1, <2>3
<1>12. Len(list) \in Nat /\ (list = <<>> \/ 1 \in 1 .. Len(list))
  BY <1>6 DEF ListType
<1>13. e.rime.keys = 0 => list = <<>>
  BY <1>7, <1>8, <1>9, <1>11, <1>12
<1> QED
  BY <1>6, <1>7, <1>10, <1>11, <1>12, <1>13 DEF n

LEMMA VisibleIs ==
  ASSUME NEW e, Len(Candidates(e)) \in Nat, NEW first \in Nat
  PROVE  /\ VisibleFrom(e, first) \in Seq(Nat)
         /\ \A i \in 1 .. Len(VisibleFrom(e, first)) :
              VisibleFrom(e, first)[i] \in 0 .. Len(Candidates(e)) - 1
<1> DEFINE m == Len(Candidates(e))
<1>1. m \in Nat /\ m \in 0 .. m
  OBVIOUS
<1>2. Seen(e, first) \in [0 .. m -> Seq(Nat)]
  BY SeenIs
<1>3. Seen(e, first)[m] \in Seq(Nat)
  BY <1>1, <1>2
<1>4. \A i \in 1 .. Len(Seen(e, first)[m]) : Seen(e, first)[m][i] \in first .. m - 1
  BY <1>1, SeenPlaces
<1> HIDE DEF m
<1>5. \A i \in 1 .. Len(Seen(e, first)[m]) : Seen(e, first)[m][i] \in 0 .. m - 1
  BY <1>1, <1>4
<1> QED
  BY <1>3, <1>5 DEF VisibleFrom, m

LEMMA ModBounds ==
  ASSUME NEW n \in Nat, NEW d \in Nat \ {0}
  PROVE  n % d \in 0 .. d - 1 /\ n % d <= n
  OBVIOUS

LEMMA WindowStartIs ==
  ASSUME NEW e \in Engine
  PROVE  /\ ActivePage(e) \in 0 .. e.window - 1 /\ ActivePage(e) <= Len(e.stack)
         /\ WindowStart(e) \in Nat
<1>1. e.window \in Nat \ {0} /\ e.stack \in Seq(Nat) /\ e.offset \in Nat
  BY EngineParts, Limits
<1>2. Len(e.stack) \in Nat
  BY <1>1
<1>3. ActivePage(e) \in 0 .. e.window - 1 /\ ActivePage(e) <= Len(e.stack)
  BY <1>1, <1>2, ModBounds DEF ActivePage
<1>4. CASE ActivePage(e) = 0
  BY <1>1, <1>3, <1>4 DEF WindowStart
<1>5. CASE ActivePage(e) # 0
  <2>1. Len(e.stack) - ActivePage(e) + 1 \in 1 .. Len(e.stack)
    BY <1>1, <1>2, <1>3, <1>5
  <2> QED
    BY <1>1, <1>3, <1>5, <2>1, SMTT(30) DEF WindowStart
<1> QED
  BY <1>3, <1>4, <1>5

LEMMA ShownIs ==
  ASSUME NEW e, Fits(e)
  PROVE  /\ Shown(e) \in Seq(Nat)
         /\ Len(Shown(e)) = Smaller(Len(VisibleFrom(e, WindowStart(e))), e.pageSize * e.window)
         /\ \A i \in 1 .. Len(Shown(e)) :
              /\ Shown(e)[i] = VisibleFrom(e, WindowStart(e))[i]
              /\ Shown(e)[i] \in 0 .. Len(Candidates(e)) - 1
<1>1. Len(Candidates(e)) \in Nat /\ WindowStart(e) \in Nat
  BY CandidatesIs, WindowStartIs DEF Fits
<1> DEFINE q == VisibleFrom(e, WindowStart(e))
           n == Smaller(Len(q), e.pageSize * e.window)
<1>2. q \in Seq(Nat) /\ \A i \in 1 .. Len(q) : q[i] \in 0 .. Len(Candidates(e)) - 1
  BY <1>1, VisibleIs
<1>3. e.pageSize \in Nat /\ e.window \in Nat
  BY EngineParts, Limits DEF Fits
<1>4. e.pageSize * e.window \in Nat
  BY <1>3
<1> HIDE DEF q
<1>5. n \in Nat /\ n <= Len(q)
  BY <1>2, <1>4 DEF Smaller
<1>6. Shown(e) = SubSeq(q, 1, n)
  BY DEF Shown, Showing, q
<1> HIDE DEF n
<1>7. SubSeq(q, 1, n) \in Seq(Nat) /\ Len(SubSeq(q, 1, n)) = n
      /\ \A i \in 1 .. n : SubSeq(q, 1, n)[i] = q[i]
  BY <1>2, <1>5
<1>8. \A i \in 1 .. n : q[i] \in 0 .. Len(Candidates(e)) - 1
  BY <1>2, <1>5
<1> QED
  BY <1>6, <1>7, <1>8 DEF n, q

-----------------------------------------------------------------------------
(* A key in librime and in the adapter.                                    *)
Commits(e) == e.schema.full = "commit"

(* With a schema that commits what does not fit: what the key adds. *)
Adds(e, key, took) ==
  /\ took.accepted => took.commit + took.rime.keys = e.rime.keys + 1
  /\ took.rime.keys = Full + 1 => key = "separator"

KeyTaken(e, key, took) ==
  /\ took.rime \in Taken /\ took.rime.chosen <= took.rime.keys
  /\ took.accepted \in BOOLEAN /\ took.commit \in Nat
  /\ took.commit + took.rime.keys <= e.rime.keys + 1
  /\ ~took.accepted => took.rime = e.rime /\ took.commit = 0
  /\ key = "separator" => took.commit = 0
  /\ key = "separator" /\ took.accepted => e.rime.keys > 0 /\ took.rime.keys > 0
  /\ key = "separator" /\ e.rime.keys > 0 => took.accepted
  /\ Commits(e) /\ key = "letter" => took.accepted /\ took.rime.keys > 0
  /\ Commits(e) /\ (key = "separator" => e.rime.keys <= Full) /\ took.accepted
       => Adds(e, key, took)

LEMMA ProcessKeyIs ==
  ASSUME NEW e, Fits(e), NEW key \in Key
  PROVE  KeyTaken(e, key, ProcessKey(e, key))
<1> DEFINE k == e.rime.keys
           c == e.rime.chosen
           took == ProcessKey(e, key)
           none == [keys |-> 0, chosen |-> 0]
           one == [keys |-> 1, chosen |-> 0]
           same == [rime |-> e.rime, accepted |-> FALSE, commit |-> 0]
           room == IF key = "letter" THEN k < Full ELSE k > 0
           more == IF k <= Full THEN 1 ELSE 0
           longer == [keys |-> k + more, chosen |-> c]
<1>1. /\ k \in 0 .. Full + 1 /\ c \in Nat /\ c <= k /\ Full \in Nat \ {0}
      /\ e.rime \in Taken /\ e.schema \in Schema
  BY EngineParts, Limits DEF Fits
<1>2. e.rime = [keys |-> k, chosen |-> c]
  BY <1>1 DEF Taken
<1>3. [e.rime EXCEPT !.keys = @ + more] = longer
  BY <1>1, <1>2
<1>4. none \in Taken /\ one \in Taken
  BY <1>1 DEF Taken
<1>5. CASE room
  <2>1. took = [rime |-> longer, accepted |-> TRUE, commit |-> 0]
    BY <1>3, <1>5 DEF ProcessKey
  <2>2. k + more \in 0 .. Full + 1 /\ k + more > 0 /\ c <= k + more
    BY <1>1, <1>5
  <2>3. longer \in Taken
    BY <1>1, <2>2 DEF Taken
  <2>4. (key = "separator" => k <= Full) => k + more = k + 1
    BY <1>1, <1>5 DEF Key
  <2>5. k + more = Full + 1 => key = "separator"
    BY <1>1, <1>5 DEF Key
  <2>6. key = "separator" => k > 0
    BY <1>5
  <2> HIDE DEF more, took, k, c
  <2>7. /\ took.rime = longer /\ took.accepted = TRUE /\ took.commit = 0
        /\ took.rime.keys = k + more /\ took.rime.chosen = c
    BY <2>1
  <2> HIDE DEF longer
  <2>8. k + more \in Nat /\ k \in Nat
    BY <1>1, <2>2
  <2>9. (key = "separator" => k <= Full) => Adds(e, key, took)
    BY <2>4, <2>5, <2>7, <2>8 DEF Adds, k
  <2> QED
    <3>1. k + more >= c
      BY <1>1, <2>2
    <3>2. took.rime.chosen <= took.rime.keys /\ took.rime.keys > 0
      BY <2>2, <2>7
    <3>3. took.accepted /\ took.accepted \in BOOLEAN
      BY <2>7, Zenon
    <3>4. key = "separator" => e.rime.keys > 0
      BY <2>6 DEF k
    <3>5. (key = "separator" => e.rime.keys <= Full) => Adds(e, key, took)
      BY <2>9 DEF k
    <3>6. took.commit = 0 /\ took.commit \in Nat
      BY <2>7
    <3>7. took.rime \in Taken
      BY <2>3, <2>7
    <3>8. took.commit + took.rime.keys <= k + 1
      BY <1>1, <2>7, <2>8 DEF more
    <3>9. took.commit + took.rime.keys <= e.rime.keys + 1
      BY <3>8 DEF k
    <3> HIDE DEF k
    <3> QED
      BY <3>2, <3>3, <3>4, <3>5, <3>6, <3>7, <3>9, Zenon DEF KeyTaken, took
<1>6. CASE ~room /\ (key = "separator" \/ e.schema.full = "refuse")
  <2>1. took = same
    BY <1>6 DEF ProcessKey
  <2>2. took.rime = e.rime /\ took.accepted = FALSE /\ took.commit = 0
    BY <2>1
  <2>3. key = "separator" => ~(k > 0)
    BY <1>6
  <2>4. Commits(e) => key = "separator"
    BY <1>6 DEF Commits
  <2> HIDE DEF took
  <2> QED
    <3>1. ~took.accepted /\ took.accepted \in BOOLEAN
      BY <2>2, Zenon
    <3>2. took.commit = 0 /\ took.commit \in Nat
      BY <2>2
    <3>3. took.rime \in Taken /\ took.rime.chosen <= took.rime.keys
      BY <1>1, <2>2
    <3>4. key = "separator" => ~(e.rime.keys > 0)
      BY <2>3
    <3>5. Commits(e) => key # "letter"
      BY <2>4
    <3>6. took.commit + took.rime.keys <= e.rime.keys + 1
      BY <1>1, <2>2
    <3> QED
      BY <2>2, <3>1, <3>2, <3>3, <3>4, <3>5, <3>6, Zenon DEF KeyTaken, took
<1>7. CASE ~room /\ key = "letter" /\ e.schema.full = "commit"
  <2>1. took = [rime |-> one, accepted |-> TRUE, commit |-> k]
    BY <1>7 DEF ProcessKey
  <2>2. /\ took.rime = one /\ took.accepted = TRUE /\ took.commit = k
        /\ took.rime.keys = 1 /\ took.rime.chosen = 0
    BY <2>1
  <2>3. k \in Nat /\ Full \in Nat \ {0}
    BY <1>1
  <2> HIDE DEF took, one, k
  <2>4. Adds(e, key, took)
    BY <2>2, <2>3 DEF Adds, k
  <2>5. key # "separator"
    BY <1>7
  <2> QED
    <3>1. took.accepted /\ took.accepted \in BOOLEAN
      BY <2>2, Zenon
    <3>2. took.commit \in Nat /\ took.rime.chosen <= took.rime.keys /\ took.rime.keys > 0
      BY <2>2, <2>3
    <3>3. took.rime \in Taken
      BY <1>4, <2>2
    <3>4. took.commit + took.rime.keys <= e.rime.keys + 1
      BY <2>2, <2>3 DEF k
    <3> QED
      BY <2>4, <2>5, <3>1, <3>2, <3>3, <3>4, Zenon DEF KeyTaken, took
<1>8. CASE ~room /\ key = "letter" /\ e.schema.full = "clear"
  <2>1. took = [rime |-> none, accepted |-> TRUE, commit |-> 0]
    BY <1>8 DEF ProcessKey
  <2>2. /\ took.rime = none /\ took.accepted = TRUE /\ took.commit = 0
        /\ took.rime.keys = 0 /\ took.rime.chosen = 0
    BY <2>1
  <2>3. ~Commits(e)
    BY <1>8 DEF Commits
  <2>4. key # "separator"
    BY <1>8
  <2> HIDE DEF took, none
  <2> QED
    <3>1. took.accepted /\ took.accepted \in BOOLEAN
      BY <2>2, Zenon
    <3>2. took.commit \in Nat /\ took.rime.chosen <= took.rime.keys
      BY <2>2
    <3>3. took.rime \in Taken
      BY <1>4, <2>2
    <3>4. took.commit + took.rime.keys <= e.rime.keys + 1
      BY <1>1, <2>2
    <3> QED
      BY <2>3, <2>4, <3>1, <3>2, <3>3, <3>4, Zenon DEF KeyTaken, took
<1>9. e.schema.full \in {"commit", "clear", "refuse"}
  BY <1>1 DEF Schema
<1> QED
  BY <1>5, <1>6, <1>7, <1>8, <1>9 DEF Key

Answers == [engine : Engine, consumed : BOOLEAN, commit : Nat]

(* What a tracked key does to an engine. *)
KeyTracked(e, key, a) ==
  /\ a \in Answers /\ Fits(a.engine) /\ a.commit = 0
  /\ Settings(a.engine) = Settings(e)
  /\ a.consumed => /\ a.engine.raw = Append(e.raw, key)
                   /\ a.engine.letters = e.letters + (IF key = "letter" THEN 1 ELSE 0)

LEMMA TrackedIs ==
  ASSUME NEW e, Fits(e), NEW key \in Key, NEW accepted \in BOOLEAN
  PROVE  LET a == Tracked(e, key, accepted)
         IN  /\ KeyTracked(e, key, a)
             /\ Paging(a.engine) = Paging(e)
             /\ a.consumed <=> accepted \/ key = "letter"
             /\ ~a.consumed => a.engine = e
             /\ a.engine.rime = e.rime /\ a.engine.prefix = e.prefix
<1> DEFINE a == Tracked(e, key, accepted)
           raw == Append(e.raw, key)
           letters == IF key = "letter" THEN e.letters + 1 ELSE e.letters
<1>1. CASE ~accepted /\ key = "separator"
  <2>1. a = [engine |-> e, consumed |-> FALSE, commit |-> 0]
    BY <1>1 DEF Tracked, Declined, Answer
  <2>2. a.engine = e /\ a.consumed = FALSE /\ a.commit = 0
    BY <2>1
  <2>3. e \in Engine /\ 0 \in Nat
    BY DEF Fits
  <2>4. a \in Answers
    BY <2>1, <2>3 DEF Answers
  <2> HIDE DEF a
  <2> QED
    BY <1>1, <2>2, <2>4 DEF KeyTracked, a
<1>2. CASE ~(~accepted /\ key = "separator")
  <2>1. a = [engine |-> [e EXCEPT !.raw = raw, !.letters = letters],
             consumed |-> TRUE, commit |-> 0]
    BY <1>2 DEF Tracked, Answer
  <2>2. e.raw \in Seq(Key) /\ e.letters \in Nat /\ e \in Engine
    BY EngineParts DEF Fits
  <2>3. raw \in Seq(Key) /\ letters \in Nat
    BY <2>2
  <2>4. letters = e.letters + (IF key = "letter" THEN 1 ELSE 0)
    BY <2>2
  <2> HIDE DEF raw, letters
  <2> DEFINE f == [e EXCEPT !.raw = raw, !.letters = letters]
  <2>5. /\ f \in Engine /\ f.raw = raw /\ f.letters = letters
        /\ f.rime = e.rime /\ f.prefix = e.prefix /\ f.prefixed = e.prefixed
        /\ Settings(f) = Settings(e) /\ Paging(f) = Paging(e)
    BY <2>2, <2>3, PutTracking, ZenonT(60)
  <2>6. a.engine = f /\ a.consumed = TRUE /\ a.commit = 0
    BY <2>1
  <2>8. 0 \in Nat
    OBVIOUS
  <2> HIDE DEF f
  <2>9. a \in Answers
    BY <2>1, <2>5, <2>8 DEF Answers, f
  <2> HIDE DEF a
  <2>7. Fits(f)
    BY <2>5 DEF Fits
  <2> QED
    BY <1>2, <2>4, <2>5, <2>6, <2>7, <2>9 DEF KeyTracked, a, Key, raw
<1> QED
  BY <1>1, <1>2

LEMMA SettledIs ==
  ASSUME NEW e, Fits(e), NEW key \in Key, NEW took,
         took.rime \in Taken, took.rime.chosen <= took.rime.keys,
         took.accepted \in BOOLEAN, took.commit \in Nat
  PROVE  LET a == Settled(e, key, took)
         IN  /\ KeyTracked(e, key, a)
             /\ Paging(a.engine) = Paging(e)
             /\ a.consumed <=> took.accepted \/ key = "letter"
             /\ a.engine.rime = took.rime
             /\ a.engine.prefix = e.prefix + took.commit
             /\ ~a.consumed /\ took.commit = 0 /\ took.rime = e.rime => a.engine = e
<1> DEFINE after == [e EXCEPT !.rime = took.rime]
           added == IF took.commit > 0 THEN AppendAutomaticSegment(after, took.commit) ELSE after
           a == Settled(e, key, took)
           accepted == took.accepted
<1>1. e \in Engine /\ e.prefix \in Nat
  BY EngineParts DEF Fits
<1>2. /\ after \in Engine /\ after.rime = took.rime /\ Settings(after) = Settings(e)
      /\ Paging(after) = Paging(e) /\ Tracking(after) = Tracking(e)
  BY <1>1, PutRime
<1>3. after.raw = e.raw /\ after.letters = e.letters /\ after.prefix = e.prefix
  BY <1>2 DEF Tracking
<1>4. took.rime = e.rime => after = e
  BY <1>1 DEF Engine
<1> HIDE DEF after
<1>5. /\ added \in Engine /\ added.rime = took.rime /\ Settings(added) = Settings(e)
      /\ Paging(added) = Paging(e) /\ added.raw = e.raw /\ added.letters = e.letters
      /\ added.prefix = e.prefix + took.commit /\ (took.commit = 0 => added = after)
  <2>1. CASE took.commit > 0
    <3> DEFINE f == AppendAutomaticSegment(after, took.commit)
    <3>1. /\ f \in Engine /\ f.prefix = after.prefix + took.commit
          /\ f.rime = after.rime /\ f.raw = after.raw /\ f.letters = after.letters
          /\ Settings(f) = Settings(after) /\ Paging(f) = Paging(after)
      BY <1>2, SegmentIs
    <3>2. added = f /\ took.commit # 0
      BY <2>1
    <3> HIDE DEF f, added
    <3> QED
      BY <1>2, <1>3, <3>1, <3>2
  <2>2. CASE took.commit = 0
    <3>1. added = after
      BY <2>2
    <3> HIDE DEF added
    <3> QED
      BY <1>1, <1>2, <1>3, <2>2, <3>1
  <2> QED
    BY <2>1, <2>2
<1>6. Fits(added)
  BY <1>5 DEF Fits
<1>7. a = Tracked(added, key, accepted)
  BY DEF Settled, after
<1> HIDE DEF added, a
<1> DEFINE t == Tracked(added, key, accepted)
<1>8. /\ KeyTracked(added, key, t) /\ Paging(t.engine) = Paging(added)
      /\ t.consumed <=> accepted \/ key = "letter"
      /\ ~t.consumed => t.engine = added
      /\ t.engine.rime = added.rime /\ t.engine.prefix = added.prefix
  <2>1. accepted \in BOOLEAN
    OBVIOUS
  <2> HIDE DEF accepted
  <2> QED
    BY <1>6, <2>1, TrackedIs
<1>9. KeyTracked(e, key, t)
  BY <1>5, <1>8 DEF KeyTracked
<1>10. t.engine.prefix = e.prefix + took.commit
  BY <1>5, <1>8
<1>11. ~t.consumed /\ took.commit = 0 /\ took.rime = e.rime => t.engine = e
  BY <1>4, <1>5, <1>8
<1> HIDE DEF t
<1>12. a = t
  BY <1>7 DEF t
<1> QED
  BY <1>5, <1>8, <1>9, <1>10, <1>11, <1>12 DEF a

(* The prefix and librime together have no key the adapter does not        *)
(* remember.  With a schema that commits, they have every key it           *)
(* remembers, and the one key beyond the limit of librime is a separator.  *)
Ended(raw) == raw # <<>> /\ Last(raw) = "separator"

Covered(e) == e.prefix + e.rime.keys <= Len(e.raw)

Whole(e) ==
  Commits(e) =>
    /\ Len(e.raw) = e.prefix + e.rime.keys
    /\ e.rime.keys = Full + 1 => Ended(e.raw)

(* What is left of that between two calls: the Backspace of librime may    *)
(* leave a key the adapter forgets, and a commit may leave no text.        *)
Accounted(e) ==
  e.kind = "rime" /\ ~e.schema.reopens =>
    Covered(e) /\ (e.schema.ends # "empty" => Whole(e))

LEMMA ProcessTrackedKeyIs ==
  ASSUME NEW e, Fits(e), NEW key \in Key
  PROVE  LET a == ProcessTrackedKey(e, key)
         IN  /\ KeyTracked(e, key, a)
             /\ Paging(a.engine) = Paging(e)
             /\ ~a.consumed => a.engine = e
             /\ key = "letter" => a.consumed
             /\ Covered(e) => Covered(a.engine)
             /\ Whole(e) /\ (key = "separator" => ~Ended(e.raw)) => Whole(a.engine)
<1> DEFINE first == ProcessKey(e, key)
           shown == Shown(e)
           a == ProcessTrackedKey(e, key)
           Retries == /\ first.commit = 0 /\ (~first.accepted \/ first.rime.keys = 0)
                      /\ e.rime.keys > 0 /\ shown # <<>>
<1>1. KeyTaken(e, key, first)
  BY ProcessKeyIs
<1>2. e \in Engine /\ e.raw \in Seq(Key) /\ e.prefix \in Nat /\ e.rime.keys \in Nat
  BY EngineParts, Limits DEF Fits
<1>3. CASE Retries
  <2>1. key = "letter" /\ ~Commits(e)
    <3>1. key # "separator"
      BY <1>1, <1>3 DEF KeyTaken
    <3>2. key = "letter"
      BY <3>1 DEF Key
    <3>3. first.rime.keys \in Nat
      BY <1>1, Limits DEF KeyTaken, Taken
    <3> HIDE DEF first
    <3>4. ~Commits(e)
      BY <1>1, <1>3, <3>2, <3>3 DEF KeyTaken
    <3> QED
      BY <3>2, <3>4
  <2> DEFINE n == Candidates(e)[shown[1] + 1].keys
             cleared == Cleared(e)
             segment == AppendAutomaticSegment(cleared, n)
             next == ProcessKey(segment, key)
  <2>2. n \in Nat /\ n <= e.rime.keys
    <3>1. shown \in Seq(Nat) /\ shown # <<>>
      BY <1>3, ShownIs
    <3>2. 1 \in 1 .. Len(shown)
      BY <3>1
    <3>3. shown[1] \in 0 .. Len(Candidates(e)) - 1
      BY <3>2, ShownIs
    <3> DEFINE list == Candidates(e)
               i == shown[1] + 1
    <3>4. /\ Len(list) \in Nat
          /\ \A j \in 1 .. Len(list) : /\ list[j].keys \in Nat \ {0}
                                       /\ list[j].keys <= e.rime.keys - e.rime.chosen
      BY CandidatesIs
    <3>5. i \in 1 .. Len(list)
      BY <3>3, <3>4
    <3>6. e.rime.chosen \in Nat
      BY EngineParts DEF Fits
    <3> HIDE DEF list, i
    <3>7. list[i].keys \in Nat /\ list[i].keys <= e.rime.keys - e.rime.chosen
      BY <3>4, <3>5
    <3>8. list[i].keys <= e.rime.keys
      BY <1>2, <3>6, <3>7
    <3> QED
      BY <3>7, <3>8 DEF list, i
  <2>3. /\ cleared \in Engine /\ cleared.rime = [keys |-> 0, chosen |-> 0]
        /\ Settings(cleared) = Settings(e) /\ Paging(cleared) = Paging(e)
        /\ Tracking(cleared) = Tracking(e)
    BY <1>2, ClearedIs
  <2> HIDE DEF n, cleared
  <2>4. /\ segment \in Engine /\ segment.rime = cleared.rime
        /\ segment.prefix = cleared.prefix + n
        /\ segment.raw = cleared.raw /\ segment.letters = cleared.letters
        /\ Settings(segment) = Settings(cleared) /\ Paging(segment) = Paging(cleared)
    BY <2>2, <2>3, SegmentIs
  <2>5. /\ segment.raw = e.raw /\ segment.letters = e.letters
        /\ Settings(segment) = Settings(e) /\ Paging(segment) = Paging(e)
        /\ segment.prefix = e.prefix + n /\ segment.rime.keys = 0
    BY <2>3, <2>4 DEF Tracking
  <2> HIDE DEF segment
  <2>6. Fits(segment)
    <3>1. segment.rime.keys = 0 /\ segment.rime.chosen = 0
      BY <2>3, <2>4
    <3> QED
      BY <2>4, <3>1 DEF Fits
  <2>7. KeyTaken(segment, key, next)
    BY <2>6, ProcessKeyIs
  <2> HIDE DEF next
  <2> DEFINE t == Settled(segment, key, next)
  <2>8. /\ KeyTracked(segment, key, t) /\ Paging(t.engine) = Paging(segment)
        /\ t.consumed <=> next.accepted \/ key = "letter"
        /\ t.engine.rime = next.rime
        /\ t.engine.prefix = segment.prefix + next.commit
    BY <2>6, <2>7, SettledIs DEF KeyTaken
  <2>9. a = t
    BY <1>3 DEF ProcessTrackedKey, TrackedAfter, Retried, n, cleared, segment, next
  <2> HIDE DEF t, a
  <2>10. KeyTracked(e, key, t) /\ Paging(t.engine) = Paging(e)
    BY <2>5, <2>8 DEF KeyTracked
  <2>11. t.consumed
    BY <2>1, <2>8
  <2>12. ~Commits(t.engine)
    BY <2>1, <2>10 DEF KeyTracked, Settings, Commits
  <2>13. Whole(t.engine)
    BY <2>12 DEF Whole
  <2>14. Covered(e) => Covered(t.engine)
    <3> SUFFICES ASSUME Covered(e)
                 PROVE  t.engine.prefix + t.engine.rime.keys <= Len(t.engine.raw)
      BY DEF Covered
    <3> DEFINE ep == e.prefix
               ek == e.rime.keys
               le == Len(e.raw)
               fc == next.commit
               fk == next.rime.keys
               tp == t.engine.prefix
               tk == t.engine.rime.keys
               lt == Len(t.engine.raw)
    <3>2. ep + ek <= le
      BY DEF Covered
    <3>3. t.engine.raw = Append(e.raw, key)
      BY <2>10, <2>11 DEF KeyTracked
    <3>4. lt = le + 1 /\ le \in Nat
      BY <1>2, <3>3
    <3>5. fc + fk <= segment.rime.keys + 1 /\ fc \in Nat /\ fk \in Nat
      BY <2>7, Limits DEF KeyTaken, Taken
    <3>6. fc + fk <= 1
      BY <2>5, <3>5
    <3>7. tp = ep + n + fc /\ tk = fk
      BY <2>5, <2>8
    <3>8. ep \in Nat /\ ek \in Nat
      BY <1>2
    <3> HIDE DEF ep, ek, le, fc, fk, tp, tk, lt
    <3>9. tp + tk <= lt
      BY <2>2, <3>2, <3>4, <3>5, <3>6, <3>7, <3>8 DEF ek
    <3> QED
      BY <3>9 DEF tp, tk, lt
  <2> QED
    BY <2>9, <2>10, <2>11, <2>13, <2>14 DEF a
<1>4. CASE ~Retries
  <2> HIDE DEF first
  <2> DEFINE t == Settled(e, key, first)
  <2>1. a = t
    BY <1>4 DEF ProcessTrackedKey, TrackedAfter, first
  <2>2. /\ KeyTracked(e, key, t) /\ Paging(t.engine) = Paging(e)
        /\ t.consumed <=> first.accepted \/ key = "letter"
        /\ t.engine.rime = first.rime
        /\ t.engine.prefix = e.prefix + first.commit
        /\ ~t.consumed /\ first.commit = 0 /\ first.rime = e.rime => t.engine = e
    BY <1>1, SettledIs DEF KeyTaken
  <2> HIDE DEF t, a
  <2>3. ~t.consumed => t.engine = e
    BY <1>1, <2>2 DEF KeyTaken
  <2>4. ASSUME Whole(e), key = "separator" => ~Ended(e.raw), t.consumed, Commits(e)
        PROVE  Whole(t.engine)
    <3>1. Len(e.raw) = e.prefix + e.rime.keys
      BY <2>4 DEF Whole
    <3>2. key = "separator" => e.rime.keys <= Full
      <4>1. e.rime.keys \in 0 .. Full + 1
        BY EngineParts DEF Fits
      <4> QED
        BY <2>4, <4>1, Limits DEF Whole
    <3>3. first.accepted
      BY <1>1, <2>2, <2>4 DEF KeyTaken
    <3>4. Adds(e, key, first)
      BY <1>1, <2>4, <3>2, <3>3, Zenon DEF KeyTaken
    <3>5. first.commit + first.rime.keys = e.rime.keys + 1
      BY <3>3, <3>4 DEF Adds
    <3>6. first.rime.keys = Full + 1 => key = "separator"
      BY <3>4 DEF Adds
    <3>7. t.engine.raw = Append(e.raw, key)
      BY <2>2, <2>4 DEF KeyTracked
    <3>8. Len(t.engine.raw) = Len(e.raw) + 1 /\ Len(e.raw) \in Nat
      BY <1>2, <3>7
    <3>9. Last(t.engine.raw) = key /\ t.engine.raw # <<>>
      <4>1. t.engine.raw[Len(e.raw) + 1] = key
        BY <1>2, <3>7
      <4>2. t.engine.raw # <<>>
        BY <1>2, <3>7
      <4> QED
        BY <3>8, <4>1, <4>2 DEF Last
    <3>10. first.commit \in Nat /\ first.rime.keys \in Nat
      BY <1>1, Limits DEF KeyTaken, Taken
    <3>11. Len(t.engine.raw) = t.engine.prefix + t.engine.rime.keys
      <4> DEFINE lr == Len(t.engine.raw)
                 le == Len(e.raw)
                 tp == t.engine.prefix
                 tk == t.engine.rime.keys
                 ep == e.prefix
                 ek == e.rime.keys
                 fc == first.commit
                 fk == first.rime.keys
      <4>1. tp = ep + fc /\ tk = fk
        BY <2>2
      <4>2. le = ep + ek /\ fc + fk = ek + 1 /\ lr = le + 1
        BY <3>1, <3>5, <3>8
      <4>3. ep \in Nat /\ ek \in Nat /\ fc \in Nat /\ fk \in Nat
        BY <3>10, EngineParts, Limits DEF Fits
      <4> HIDE DEF lr, le, tp, tk, ep, ek, fc, fk
      <4>4. lr = tp + tk
        BY <4>1, <4>2, <4>3
      <4> QED
        BY <4>4 DEF lr, tp, tk
    <3>12. t.engine.rime.keys = Full + 1 => Ended(t.engine.raw)
      BY <2>2, <3>6, <3>9 DEF Ended
    <3> QED
      BY <3>11, <3>12 DEF Whole
  <2>5. Settings(t.engine) = Settings(e)
    BY <2>2 DEF KeyTracked
  <2>6. Commits(t.engine) <=> Commits(e)
    BY <2>5 DEF Settings, Commits
  <2>7. Whole(e) /\ (key = "separator" => ~Ended(e.raw)) => Whole(t.engine)
    <3>1. CASE ~t.consumed
      BY <2>3, <3>1
    <3>2. CASE t.consumed
      <4>1. CASE Commits(e)
        BY <2>4, <3>2, <4>1
      <4>2. CASE ~Commits(e)
        BY <2>6, <4>2 DEF Whole
      <4> QED
        BY <4>1, <4>2
    <3> QED
      BY <3>1, <3>2
  <2>8. key = "letter" => t.consumed
    BY <2>2
  <2>9. Covered(e) => Covered(t.engine)
    <3>1. CASE ~t.consumed
      BY <2>3, <3>1
    <3>2. CASE t.consumed
      <4> SUFFICES ASSUME Covered(e)
                   PROVE  t.engine.prefix + t.engine.rime.keys <= Len(t.engine.raw)
        BY DEF Covered
      <4> DEFINE ep == e.prefix
                 ek == e.rime.keys
                 le == Len(e.raw)
                 fc == first.commit
                 fk == first.rime.keys
                 tp == t.engine.prefix
                 tk == t.engine.rime.keys
                 lt == Len(t.engine.raw)
      <4>1. ep + ek <= le
        BY DEF Covered
      <4>2. t.engine.raw = Append(e.raw, key)
        BY <2>2, <3>2 DEF KeyTracked
      <4>3. lt = le + 1 /\ le \in Nat
        BY <1>2, <4>2
      <4>4. fc + fk <= ek + 1 /\ fc \in Nat /\ fk \in Nat
        BY <1>1, Limits DEF KeyTaken, Taken
      <4>5. tp = ep + fc /\ tk = fk
        BY <2>2
      <4>6. ep \in Nat /\ ek \in Nat
        BY <1>2
      <4> HIDE DEF ep, ek, le, fc, fk, tp, tk, lt
      <4>7. tp + tk <= lt
        BY <4>1, <4>3, <4>4, <4>5, <4>6
      <4> QED
        BY <4>7 DEF tp, tk, lt
    <3> QED
      BY <3>1, <3>2
  <2> QED
    BY <2>1, <2>2, <2>3, <2>7, <2>8, <2>9 DEF a
<1> QED
  BY <1>3, <1>4

-----------------------------------------------------------------------------
(* Typing the keys again.                                                  *)
Apart(raw) == \A i \in 1 .. Len(raw) - 1 : raw[i] = "letter" \/ raw[i + 1] = "letter"

Start(e) == Answer(Cleared(ClearTrackedInput(e)), TRUE, 0)

LEMMA StartIs ==
  ASSUME NEW e \in Engine
  PROVE  /\ Start(e) \in Answers /\ Fits(Start(e).engine) /\ Start(e).consumed
         /\ Settings(Start(e).engine) = Settings(e) /\ Paging(Start(e).engine) = Paging(e)
         /\ Start(e).engine.raw = <<>> /\ Start(e).engine.letters = 0
         /\ Start(e).engine.rime.keys = 0 /\ Start(e).engine.prefix = 0
         /\ Start(e).engine.prefixed = FALSE
         /\ Covered(Start(e).engine) /\ Whole(Start(e).engine)
<1> DEFINE c == ClearTrackedInput(e)
           f == Cleared(c)
           s == Start(e)
<1>1. /\ c \in Engine /\ c.raw = <<>> /\ c.letters = 0 /\ c.prefix = 0 /\ c.prefixed = FALSE
      /\ Settings(c) = Settings(e) /\ Paging(c) = Paging(e)
  BY ClearTrackedInputIs
<1> HIDE DEF c
<1>2. /\ f \in Engine /\ f.rime = [keys |-> 0, chosen |-> 0]
      /\ Settings(f) = Settings(c) /\ Paging(f) = Paging(c) /\ Tracking(f) = Tracking(c)
  BY <1>1, ClearedIs
<1> HIDE DEF f
<1>3. /\ f.raw = <<>> /\ f.letters = 0 /\ f.prefix = 0 /\ f.prefixed = FALSE
      /\ f.rime.keys = 0 /\ f.rime.chosen = 0
      /\ Settings(f) = Settings(e) /\ Paging(f) = Paging(e)
  BY <1>1, <1>2 DEF Tracking
<1>4. Fits(f)
  BY <1>2, <1>3 DEF Fits
<1>5. s = [engine |-> f, consumed |-> TRUE, commit |-> 0]
  BY DEF Start, Answer, f, c
<1>6. s.engine = f /\ s.consumed = TRUE
  BY <1>5
<1>7. 0 \in Nat /\ TRUE \in BOOLEAN
  OBVIOUS
<1>8. s \in Answers
  BY <1>2, <1>5, <1>7 DEF Answers
<1>9. Covered(f) /\ Whole(f)
  <2>1. Len(<<>>) = 0
    OBVIOUS
  <2> QED
    BY <1>3, <2>1, Limits DEF Covered, Whole
<1> HIDE DEF s
<1> QED
  BY <1>3, <1>4, <1>6, <1>8, <1>9 DEF s

LEMMA RetypedIs ==
  ASSUME NEW done \in Answers, Fits(done.engine), NEW key \in Key
  PROVE  Retyped(done, key) \in Answers /\ Fits(Retyped(done, key).engine)
<1>1. CASE done.consumed
  <2>1. KeyTracked(done.engine, key, ProcessTrackedKey(done.engine, key))
    BY ProcessTrackedKeyIs
  <2>2. Retyped(done, key) = ProcessTrackedKey(done.engine, key)
    BY <1>1 DEF Retyped
  <2> QED
    BY <2>1, <2>2 DEF KeyTracked
<1>2. CASE ~done.consumed
  BY <1>2 DEF Retyped
<1> QED
  BY <1>1, <1>2

(* The answers on the way, one for each number of keys. *)
Rebuilt(e, keys, r) ==
  /\ \A n \in 0 .. Len(keys) : r[n] \in Answers /\ Fits(r[n].engine)
  /\ r[0] = Start(e)
  /\ \A n \in 1 .. Len(keys) : r[n] = Retyped(r[n - 1], keys[n])

LEMMA RebuildHas ==
  ASSUME NEW e \in Engine, NEW keys \in Seq(Key)
  PROVE  \E r : Rebuilt(e, keys, r) /\ RebuildComposition(e, keys) = r[Len(keys)].engine
<1> DEFINE m == Len(keys)
           S == {a \in Answers : Fits(a.engine)}
           b == Start(e)
           Right(f) == f = [n \in 0 .. m |-> IF n = 0 THEN b ELSE Retyped(f[n - 1], keys[n])]
<1>1. m \in Nat /\ \A n \in 1 .. m : keys[n] \in Key
  OBVIOUS
<1>2. b \in S
  BY StartIs
<1>3. ASSUME NEW n \in 1 .. m, NEW a \in S PROVE Retyped(a, keys[n]) \in S
  <2>1. keys[n] \in Key /\ a \in Answers /\ Fits(a.engine)
    BY <1>1
  <2> QED
    BY <2>1, RetypedIs
<1> HIDE DEF m, S, b
<1> DEFINE Types(f, k) == \A n \in 0 .. k : f[n] = IF n = 0 THEN b ELSE Retyped(f[n - 1], keys[n])
           H == {k \in 0 .. m : \E f \in [0 .. k -> S] : Types(f, k)}
<1>4. 0 \in H
  <2> DEFINE f == [n \in 0 .. 0 |-> b]
  <2>1. f \in [0 .. 0 -> S]
    BY <1>2
  <2>2. Types(f, 0)
    OBVIOUS
  <2> HIDE DEF f
  <2> QED
    BY <1>1, <2>1, <2>2
<1>5. ASSUME NEW k \in 1 .. m, k - 1 \in H PROVE k \in H
  <2>1. PICK f \in [0 .. k - 1 -> S] : Types(f, k - 1)
    BY <1>5
  <2> DEFINE g == [n \in 0 .. k |-> IF n = k THEN Retyped(f[k - 1], keys[k]) ELSE f[n]]
  <2>2. f[k - 1] \in S /\ k \in 0 .. m
    BY <1>1
  <2>3. g \in [0 .. k -> S]
    <3>1. ASSUME NEW n \in 0 .. k
          PROVE  (IF n = k THEN Retyped(f[k - 1], keys[k]) ELSE f[n]) \in S
      <4>1. CASE n = k
        BY <1>3, <2>2, <4>1
      <4>2. CASE n # k
        BY <4>2
      <4> QED
        BY <4>1, <4>2
    <3> QED
      BY <3>1
  <2>4. ASSUME NEW n \in 0 .. k
        PROVE  g[n] = IF n = 0 THEN b ELSE Retyped(g[n - 1], keys[n])
    <3>1. CASE n = k
      <4>1. n # 0 /\ n - 1 \in 0 .. k /\ n - 1 # k
        BY <3>1
      <4> QED
        BY <3>1, <4>1
    <3>2. CASE n # k /\ n = 0
      BY <2>1, <3>2
    <3>3. CASE n # k /\ n # 0
      <4>1. n \in 0 .. k - 1 /\ n - 1 \in 0 .. k /\ n - 1 # k
        BY <3>3
      <4>2. f[n] = Retyped(f[n - 1], keys[n])
        BY <2>1, <3>3, <4>1
      <4> QED
        BY <3>3, <4>1, <4>2
    <3> QED
      BY <3>1, <3>2, <3>3
  <2> HIDE DEF g
  <2> QED
    BY <2>2, <2>3, <2>4
<1>6. PICK f : Types(f, m)
  <2> HIDE DEF H
  <2>1. \A k \in 0 .. m : k \in H
    BY <1>1, <1>4, <1>5, Induction
  <2>2. m \in H
    BY <1>1, <2>1
  <2> QED
    BY <2>2 DEF H
<1>7. \E f1 : Right(f1)
  <2> DEFINE f1 == [n \in 0 .. m |-> f[n]]
  <2>1. ASSUME NEW n \in 0 .. m
        PROVE  f1[n] = IF n = 0 THEN b ELSE Retyped(f1[n - 1], keys[n])
    <3>1. CASE n = 0
      BY <1>6, <3>1
    <3>2. CASE n # 0
      <4>1. n - 1 \in 0 .. m
        BY <1>1, <3>2
      <4> QED
        BY <1>6, <3>2, <4>1
    <3> QED
      BY <3>1, <3>2
  <2>2. Right(f1)
    BY <2>1
  <2> QED
    BY <2>2
<1> DEFINE r == CHOOSE g : Right(g)
<1>8. Right(r)
  <2> HIDE DEF Right
  <2> QED
    BY <1>7
<1>9. RebuildComposition(e, keys) = r[m].engine
  BY DEF RebuildComposition, b, m, Start
<1> HIDE DEF r
<1>10. r[0] = b
  <2>1. 0 \in 0 .. m
    BY <1>1
  <2> QED
    BY <1>8, <2>1
<1>11. \A n \in 1 .. m : r[n] = Retyped(r[n - 1], keys[n])
  <2> SUFFICES ASSUME NEW n \in 1 .. m PROVE r[n] = Retyped(r[n - 1], keys[n])
    OBVIOUS
  <2>1. n \in 0 .. m /\ n # 0
    BY <1>1
  <2> QED
    BY <1>8, <2>1
<1> HIDE DEF Right
<1>12. \A n \in 0 .. m : r[n] \in S
  <2> DEFINE J == {n \in 0 .. m : r[n] \in S}
  <2>1. 0 \in J
    BY <1>1, <1>2, <1>10
  <2>2. ASSUME NEW n \in 1 .. m, n - 1 \in J PROVE n \in J
    <3>1. r[n - 1] \in Answers /\ Fits(r[n - 1].engine) /\ keys[n] \in Key
      BY <1>1, <2>2 DEF S
    <3>2. Retyped(r[n - 1], keys[n]) \in S
      BY <3>1, RetypedIs DEF S
    <3>3. n \in 0 .. m
      BY <1>1
    <3> QED
      BY <1>11, <3>2, <3>3
  <2> HIDE DEF J
  <2>3. \A n \in 0 .. m : n \in J
    BY <1>1, <2>1, <2>2, Induction
  <2> QED
    BY <2>3 DEF J
<1>13. Rebuilt(e, keys, r)
  BY <1>10, <1>11, <1>12 DEF Rebuilt, S, b, m
<1> QED
  BY <1>9, <1>13 DEF m

(* What typing n of the keys again has come to. *)
Retypes(e, keys, n, a) ==
  /\ Fits(a.engine)
  /\ Settings(a.engine) = Settings(e) /\ Paging(a.engine) = Paging(e)
  /\ Len(a.engine.raw) <= n /\ \A i \in 1 .. Len(a.engine.raw) : a.engine.raw[i] = keys[i]
  /\ a.engine.letters = LettersIn(a.engine.raw)
  /\ Covered(a.engine) /\ Whole(a.engine)
  /\ a.consumed => Len(a.engine.raw) = n

LEMMA RetypesStart ==
  ASSUME NEW e \in Engine, NEW keys \in Seq(Key)
  PROVE  Retypes(e, keys, 0, Start(e))
<1> DEFINE a == Start(e)
<1>1. /\ Fits(a.engine) /\ Settings(a.engine) = Settings(e) /\ Paging(a.engine) = Paging(e)
      /\ a.engine.raw = <<>> /\ a.engine.letters = 0
      /\ Covered(a.engine) /\ Whole(a.engine)
  BY StartIs
<1>2. Len(<<>>) = 0
  OBVIOUS
<1> HIDE DEF a
<1>3. Len(a.engine.raw) = 0
  BY <1>1, <1>2
<1>4. a.engine.letters = LettersIn(a.engine.raw)
  BY <1>1, LettersEmpty
<1>5. \A i \in 1 .. Len(a.engine.raw) : a.engine.raw[i] = keys[i]
  BY <1>3
<1> QED
  BY <1>1, <1>3, <1>4, <1>5 DEF Retypes, a

LEMMA RetypesOne ==
  ASSUME NEW e \in Engine, NEW keys \in Seq(Key), Apart(keys),
         NEW n \in 1 .. Len(keys), NEW done \in Answers, Retypes(e, keys, n - 1, done)
  PROVE  Retypes(e, keys, n, Retyped(done, keys[n]))
<1> DEFINE a == Retyped(done, keys[n])
           f == done.engine
           key == keys[n]
<1>1. /\ Fits(f) /\ Settings(f) = Settings(e) /\ Paging(f) = Paging(e)
      /\ Len(f.raw) <= n - 1 /\ \A i \in 1 .. Len(f.raw) : f.raw[i] = keys[i]
      /\ f.letters = LettersIn(f.raw) /\ Covered(f) /\ Whole(f)
      /\ done.consumed => Len(f.raw) = n - 1
  BY DEF Retypes
<1>2. f.raw \in Seq(Key) /\ Len(f.raw) \in Nat
  <2>1. f.raw \in Seq(Key)
    BY <1>1, EngineParts DEF Fits
  <2> HIDE DEF f
  <2> QED
    BY <2>1
<1>3. key \in Key /\ n \in Nat /\ n >= 1
  OBVIOUS
<1> HIDE DEF f, key
<1>4. CASE ~done.consumed
  <2>1. a = done
    BY <1>4 DEF Retyped
  <2>2. Len(f.raw) <= n
    BY <1>1, <1>2, <1>3
  <2> HIDE DEF a
  <2>3. a.engine = f /\ ~a.consumed
    BY <1>4, <2>1 DEF f
  <2> QED
    BY <1>1, <2>2, <2>3 DEF Retypes, a, key
<1>5. CASE done.consumed
  <2> DEFINE t == ProcessTrackedKey(f, key)
  <2>1. a = t
    BY <1>5 DEF Retyped, f, key
  <2>2. /\ KeyTracked(f, key, t) /\ Paging(t.engine) = Paging(f)
        /\ ~t.consumed => t.engine = f
        /\ Covered(f) => Covered(t.engine)
        /\ Whole(f) /\ (key = "separator" => ~Ended(f.raw)) => Whole(t.engine)
    BY <1>1, <1>3, ProcessTrackedKeyIs
  <2> HIDE DEF t, a
  <2>3. Len(f.raw) = n - 1
    BY <1>1, <1>5
  <2>4. key = "separator" => ~Ended(f.raw)
    <3> SUFFICES ASSUME key = "separator", Ended(f.raw) PROVE FALSE
      OBVIOUS
    <3>1. Last(f.raw) = f.raw[n - 1] /\ f.raw # <<>>
      BY <2>3 DEF Last, Ended
    <3>2. n - 1 \in 1 .. Len(f.raw)
      BY <1>2, <1>3, <2>3, <3>1
    <3>3. keys[n - 1] = "separator"
      BY <1>1, <3>1, <3>2 DEF Ended
    <3>4. n - 1 \in 1 .. Len(keys) - 1 /\ (n - 1) + 1 = n
      BY <1>3, <2>3, <3>2
    <3>5. keys[n - 1] = "letter" \/ keys[n] = "letter"
      BY <3>4 DEF Apart
    <3> QED
      BY <3>3, <3>5 DEF key
  <2>5. Covered(t.engine) /\ Whole(t.engine)
    BY <1>1, <2>2, <2>4
  <2>6. CASE ~t.consumed
    <3>1. t.engine = f
      BY <2>2, <2>6
    <3>2. Len(f.raw) <= n
      BY <1>1, <1>2, <1>3
    <3> QED
      BY <1>1, <2>1, <2>6, <3>1, <3>2 DEF Retypes, a, key
  <2>7. CASE t.consumed
    <3>1. /\ Fits(t.engine) /\ Settings(t.engine) = Settings(e) /\ Paging(t.engine) = Paging(e)
          /\ t.engine.raw = Append(f.raw, key)
          /\ t.engine.letters = f.letters + (IF key = "letter" THEN 1 ELSE 0)
      BY <1>1, <2>2, <2>7 DEF KeyTracked
    <3>2. LettersIn(Append(f.raw, key)) = LettersIn(f.raw) + (IF key = "letter" THEN 1 ELSE 0)
      BY <1>2, <1>3, LettersAppend
    <3>3. t.engine.letters = LettersIn(t.engine.raw)
      BY <1>1, <3>1, <3>2
    <3>4. /\ Len(t.engine.raw) = n
          /\ \A i \in 1 .. n - 1 : t.engine.raw[i] = f.raw[i] /\ t.engine.raw[n] = key
      <4> DEFINE q == f.raw
      <4>1. q \in Seq(Key) /\ Len(q) = n - 1 /\ key \in Key
        BY <1>2, <1>3, <2>3
      <4> HIDE DEF q
      <4>2. /\ Len(Append(q, key)) = n
            /\ \A i \in 1 .. n - 1 : Append(q, key)[i] = q[i] /\ Append(q, key)[n] = key
        BY <1>3, <4>1
      <4> QED
        BY <3>1, <4>2 DEF q
    <3>5. t.engine.raw[n] = key
      <4>1. f.raw \in Seq(Key) /\ Len(f.raw) + 1 = n /\ key \in Key
        BY <1>2, <1>3, <2>3
      <4>2. Append(f.raw, key)[Len(f.raw) + 1] = key
        BY <4>1
      <4> QED
        BY <3>1, <4>1, <4>2
    <3>6. \A i \in 1 .. Len(t.engine.raw) : t.engine.raw[i] = keys[i]
      <4> SUFFICES ASSUME NEW i \in 1 .. n PROVE t.engine.raw[i] = keys[i]
        BY <3>4
      <4>1. CASE i = n
        BY <3>5, <4>1 DEF key
      <4>2. CASE i # n
        <5>1. i \in 1 .. n - 1
          BY <1>3, <4>2
        <5> QED
          BY <1>1, <2>3, <3>4, <5>1
      <4> QED
        BY <4>1, <4>2
    <3>7. Len(t.engine.raw) <= n
      BY <1>3, <3>4
    <3> QED
      BY <2>1, <2>5, <3>1, <3>3, <3>4, <3>6, <3>7 DEF Retypes, a, key
  <2> QED
    BY <2>6, <2>7
<1> QED
  BY <1>4, <1>5

(* RebuildComposition, the keys typed again after the last one is taken    *)
(* back: whatever librime does with a letter it has no room for, the       *)
(* adapter remembers the keys from the first up to one that is refused,    *)
(* and counts its letters; and librime and the prefix together have no key *)
(* that is not among them.  Where librime commits, they have every one.    *)
THEOREM RebuildIs ==
  ASSUME NEW e \in Engine, NEW keys \in Seq(Key), Apart(keys)
  PROVE  LET f == RebuildComposition(e, keys)
         IN  /\ Fits(f) /\ Settings(f) = Settings(e) /\ Paging(f) = Paging(e)
             /\ Len(f.raw) <= Len(keys) /\ \A i \in 1 .. Len(f.raw) : f.raw[i] = keys[i]
             /\ f.letters = LettersIn(f.raw)
             /\ f.prefix + f.rime.keys <= Len(f.raw)
             /\ f.schema.full = "commit" => Len(f.raw) = f.prefix + f.rime.keys
             /\ Covered(f) /\ Whole(f)
<1>1. PICK r : Rebuilt(e, keys, r) /\ RebuildComposition(e, keys) = r[Len(keys)].engine
  BY RebuildHas
<1> DEFINE m == Len(keys)
           H == {n \in 0 .. m : Retypes(e, keys, n, r[n])}
<1>2. m \in Nat
  OBVIOUS
<1>3. 0 \in H
  BY <1>1, <1>2, RetypesStart DEF Rebuilt
<1>4. ASSUME NEW n \in 1 .. m, n - 1 \in H PROVE n \in H
  <2>1. n - 1 \in 0 .. m /\ n \in 0 .. m
    BY <1>2
  <2>2. r[n - 1] \in Answers /\ r[n] = Retyped(r[n - 1], keys[n])
    BY <1>1, <2>1 DEF Rebuilt
  <2>3. Retypes(e, keys, n - 1, r[n - 1])
    BY <1>4
  <2>4. Retypes(e, keys, n, Retyped(r[n - 1], keys[n]))
    BY <2>2, <2>3, RetypesOne
  <2> QED
    BY <2>1, <2>2, <2>4
<1> HIDE DEF H, m
<1>5. \A n \in 0 .. m : n \in H
  BY <1>2, <1>3, <1>4, Induction
<1>6. m \in H
  BY <1>2, <1>5
<1>7. Retypes(e, keys, m, r[m])
  BY <1>6 DEF H
<1> QED
  BY <1>1, <1>7 DEF Retypes, m, Covered, Whole, Commits

-----------------------------------------------------------------------------
(* What holds of an engine between two calls.                              *)
Input(e) ==
  IF e.kind = "rime" THEN e.rime.keys > 0 \/ e.prefixed \/ e.raw # <<>> ELSE e.raw # <<>>

Keeps(e) ==
  /\ Fits(e)
  /\ e.letters = LettersIn(e.raw) /\ e.letters <= MaxLetters
  /\ Apart(e.raw)
  /\ Accounted(e)

Sound(e) == Keeps(e) /\ (e.kind = "rime" => PagesFollowIn(e))

(* Paging and the settings do not matter to the keys. *)
LEMMA KeepsSame ==
  ASSUME NEW e, Keeps(e), NEW f \in Engine, f.rime = e.rime, Tracking(f) = Tracking(e),
         f.kind = e.kind, f.schema = e.schema
  PROVE  /\ Keeps(f) /\ (Input(f) <=> Input(e)) /\ f.letters = e.letters
<1>1. f.raw = e.raw /\ f.letters = e.letters /\ f.prefix = e.prefix /\ f.prefixed = e.prefixed
  BY DEF Tracking
<1>2. Accounted(f)
  BY <1>1 DEF Keeps, Accounted, Covered, Whole, Commits
<1>3. Fits(f)
  BY DEF Keeps, Fits
<1> QED
  BY <1>1, <1>2, <1>3 DEF Keeps, Input

LEMMA PagesOfNone ==
  ASSUME NEW e, e.offset = 0, e.stack = <<>>
  PROVE  PagesFollowIn(e)
<1>1. Append(<<>>, 0)[1] = 0 /\ Len(<<>>) = 0
  OBVIOUS
<1>2. 1 .. 0 = {}
  OBVIOUS
<1> QED
  BY <1>1, <1>2 DEF PagesFollowIn

LEMMA NextSame ==
  ASSUME NEW e, NEW f, f.rime = e.rime, f.pageSize = e.pageSize,
         f.chineseOnly = e.chineseOnly
  PROVE  /\ Candidates(f) = Candidates(e)
         /\ \A x : VisibleFrom(f, x) = VisibleFrom(e, x)
         /\ \A x : NextOffset(f, x) = NextOffset(e, x)
<1>1. Candidates(f) = Candidates(e)
  BY DEF Candidates
<1>2. \A x : VisibleFrom(f, x) = VisibleFrom(e, x)
  BY <1>1 DEF VisibleFrom, Seen, ShouldShow
<1> QED
  BY <1>1, <1>2 DEF NextOffset, NthVisible

LEMMA PagesSame ==
  ASSUME NEW e, PagesFollowIn(e), NEW f, f.rime = e.rime, f.pageSize = e.pageSize,
         f.chineseOnly = e.chineseOnly, f.offset = e.offset, f.stack = e.stack
  PROVE  PagesFollowIn(f)
  BY NextSame DEF PagesFollowIn

LEMMA ResetSound ==
  ASSUME NEW e, Keeps(e)
  PROVE  LET f == ResetPaging(e)
         IN  /\ f \in Engine /\ Sound(f) /\ (Input(f) <=> Input(e)) /\ f.letters = e.letters
             /\ Settings(f) = Settings(e)
<1> DEFINE f == ResetPaging(e)
<1>1. /\ f \in Engine /\ f.offset = 0 /\ f.stack = <<>> /\ f.rime = e.rime
      /\ Tracking(f) = Tracking(e) /\ Settings(f) = Settings(e)
  BY ResetPagingIs DEF Keeps, Fits
<1> HIDE DEF f
<1>2. f.kind = e.kind /\ f.schema = e.schema
  BY <1>1 DEF Settings
<1>3. Keeps(f) /\ (Input(f) <=> Input(e)) /\ f.letters = e.letters
  BY <1>1, <1>2, KeepsSame
<1>4. PagesFollowIn(f)
  BY <1>1, PagesOfNone
<1>5. f \in Engine /\ Sound(f) /\ (Input(f) <=> Input(e)) /\ f.letters = e.letters
      /\ Settings(f) = Settings(e)
  BY <1>1, <1>3, <1>4 DEF Sound
<1> QED
  BY <1>5 DEF f

(* Nothing is left of a composition. *)
LEMMA NothingLeft ==
  ASSUME NEW e \in Engine, e.raw = <<>>, e.letters = 0, e.prefix = 0, e.prefixed = FALSE,
         e.rime = [keys |-> 0, chosen |-> 0]
  PROVE  Keeps(e) /\ ~Input(e)
<1>1. e.rime.keys = 0 /\ e.rime.chosen = 0
  OBVIOUS
<1>2. Len(<<>>) = 0
  OBVIOUS
<1>3. Fits(e)
  BY <1>1 DEF Fits
<1>4. Apart(e.raw)
  <2>1. 1 .. 0 - 1 = {}
    OBVIOUS
  <2> QED
    BY <1>2, <2>1 DEF Apart
<1>5. Accounted(e)
  BY <1>1, <1>2, Limits DEF Accounted, Covered, Whole
<1>6. LettersIn(e.raw) = 0 /\ 0 <= MaxLetters
  BY LettersEmpty, Limits
<1>7. ~Input(e)
  BY <1>1 DEF Input
<1> QED
  BY <1>3, <1>4, <1>5, <1>6, <1>7 DEF Keeps

LEMMA NewEngineIs ==
  ASSUME NEW kind \in {"rime", "stub"}, NEW schema \in Schema
  PROVE  LET e == NewEngine(kind, schema)
         IN  /\ e \in Engine /\ Sound(e) /\ ~Input(e) /\ e.letters = 0 /\ e.kind = kind
<1> DEFINE e == NewEngine(kind, schema)
           none == [keys |-> 0, chosen |-> 0]
<1>1. none \in Taken
  BY Limits DEF Taken
<1>2. <<>> \in Seq(Key) /\ <<>> \in Seq(Nat) /\ 0 \in Nat /\ FALSE \in BOOLEAN /\ TRUE \in BOOLEAN
  OBVIOUS
<1>3. MaxPageSize \in 1 .. MaxPageSize /\ 1 \in 1 .. MaxWindow
  BY Limits
<1>4. e = [kind |-> kind, schema |-> schema, rime |-> none,
           raw |-> <<>>, letters |-> 0, prefix |-> 0, prefixed |-> FALSE,
           offset |-> 0, stack |-> <<>>,
           pageSize |-> MaxPageSize, window |-> 1, chineseOnly |-> TRUE]
  BY DEF NewEngine
<1> HIDE DEF e, none
<1>5. e \in Engine
  BY <1>1, <1>2, <1>3, <1>4 DEF Engine, Taken, Key
<1>6. /\ e.raw = <<>> /\ e.letters = 0 /\ e.prefix = 0 /\ e.prefixed = FALSE
      /\ e.rime = none /\ e.kind = kind /\ e.offset = 0 /\ e.stack = <<>>
  BY <1>4
<1>7. Keeps(e) /\ ~Input(e)
  BY <1>5, <1>6, NothingLeft DEF none
<1>8. PagesFollowIn(e)
  BY <1>6, PagesOfNone
<1>9. e \in Engine /\ Sound(e) /\ ~Input(e) /\ e.letters = 0 /\ e.kind = kind
  BY <1>5, <1>6, <1>7, <1>8 DEF Sound
<1> QED
  BY <1>9 DEF e

LEMMA ClearedAll ==
  ASSUME NEW e \in Engine
  PROVE  LET f == Cleared(ClearTrackedInput(e))
         IN  /\ f \in Engine /\ Keeps(f) /\ ~Input(f) /\ f.letters = 0
             /\ Settings(f) = Settings(e) /\ Paging(f) = Paging(e)
<1> DEFINE c == ClearTrackedInput(e)
           f == Cleared(c)
<1>1. /\ c \in Engine /\ c.raw = <<>> /\ c.letters = 0 /\ c.prefix = 0 /\ c.prefixed = FALSE
      /\ Settings(c) = Settings(e) /\ Paging(c) = Paging(e)
  BY ClearTrackedInputIs
<1> HIDE DEF c
<1>2. /\ f \in Engine /\ f.rime = [keys |-> 0, chosen |-> 0]
      /\ Settings(f) = Settings(c) /\ Paging(f) = Paging(c) /\ Tracking(f) = Tracking(c)
  BY <1>1, ClearedIs
<1> HIDE DEF f
<1>3. /\ f.raw = <<>> /\ f.letters = 0 /\ f.prefix = 0 /\ f.prefixed = FALSE
  BY <1>1, <1>2 DEF Tracking
<1>4. Keeps(f) /\ ~Input(f)
  BY <1>2, <1>3, NothingLeft
<1>5. f \in Engine /\ Keeps(f) /\ ~Input(f) /\ f.letters = 0
      /\ Settings(f) = Settings(e) /\ Paging(f) = Paging(e)
  BY <1>1, <1>2, <1>3, <1>4
<1> QED
  BY <1>5 DEF f, c

-----------------------------------------------------------------------------
(* What an engine answers.                                                 *)
Readable(s) ==
  /\ s \in Snapshot
  /\ s.highlighted = 0 \/ s.candidates = <<>> \/ s.highlighted < Len(s.candidates)

Listed(e) == [i \in DOMAIN Shown(e) |-> CandidateAt(e, Shown(e)[i])]
Mark(e) ==
  IF Shown(e) = <<>> THEN 0 ELSE Smaller(ActivePage(e) * e.pageSize, Len(Shown(e)) - 1)

LEMMA EmptyIs ==
  /\ EmptySnapshot \in Snapshot /\ Readable(EmptySnapshot)
  /\ EmptySnapshot.preedit = FALSE /\ EmptySnapshot.candidates = <<>>
  /\ EmptySnapshot.highlighted = 0
<1>1. <<>> \in Seq(Candidate) /\ 0 \in Nat /\ FALSE \in BOOLEAN
  OBVIOUS
<1>2. EmptySnapshot \in Snapshot
  BY <1>1 DEF EmptySnapshot, Snapshot
<1>3. /\ EmptySnapshot.preedit = FALSE /\ EmptySnapshot.candidates = <<>>
      /\ EmptySnapshot.highlighted = 0
  BY DEF EmptySnapshot
<1> QED
  BY <1>2, <1>3 DEF Readable

LEMMA ListedIs ==
  ASSUME NEW e, Fits(e)
  PROVE  /\ Listed(e) \in Seq(Candidate) /\ Len(Listed(e)) = Len(Shown(e))
         /\ \A i \in 1 .. Len(Shown(e)) : Listed(e)[i] = CandidateAt(e, Shown(e)[i])
         /\ Mark(e) \in Nat /\ (Shown(e) # <<>> => Mark(e) < Len(Listed(e)))
<1> DEFINE q == Shown(e)
           l == Listed(e)
<1>1. q \in Seq(Nat)
  BY ShownIs
<1>2. /\ e.rime.keys \in 0 .. Full + 1 /\ e.rime.chosen \in Nat /\ e.rime.chosen <= e.rime.keys
      /\ e.prefix \in Nat /\ e.pageSize \in Nat
  BY EngineParts, Limits DEF Fits
<1>3. ASSUME NEW i \in 1 .. Len(q) PROVE CandidateAt(e, q[i]) \in Candidate
  <2>1. q[i] \in Nat
    BY <1>1
  <2>2. e.prefix + e.rime.chosen \in Nat /\ e.rime.keys - e.rime.chosen \in Nat
    BY <1>2, Limits, SMTT(30)
  <2> HIDE DEF q
  <2> QED
    BY <2>1, <2>2 DEF CandidateAt, Candidate
<1>4. l = [i \in 1 .. Len(q) |-> CandidateAt(e, q[i])]
  BY <1>1 DEF Listed
<1> HIDE DEF q, l
<1>5. Len(q) \in Nat
  BY <1>1
<1>6. l \in Seq(Candidate) /\ Len(l) = Len(q)
  <2> DEFINE n == Len(q)
             F(i) == CandidateAt(e, q[i])
  <2>1. n \in Nat /\ l = [i \in 1 .. n |-> F(i)] /\ \A i \in 1 .. n : F(i) \in Candidate
    BY <1>3, <1>4, <1>5
  <2> HIDE DEF n, F
  <2> QED
    BY <2>1 DEF n
<1>7. \A i \in 1 .. Len(q) : l[i] = CandidateAt(e, q[i])
  BY <1>4
<1>8. Mark(e) \in Nat /\ (q # <<>> => Mark(e) < Len(l))
  <2>1. CASE q = <<>>
    BY <2>1 DEF Mark, q
  <2>2. CASE q # <<>>
    <3>1. Len(q) \in Nat \ {0}
      BY <1>1, <2>2
    <3>2. ActivePage(e) \in Nat
      BY WindowStartIs, EngineParts, Limits DEF Fits
    <3>3. ActivePage(e) * e.pageSize \in Nat
      BY <1>2, <3>2
    <3>4. Mark(e) = Smaller(ActivePage(e) * e.pageSize, Len(q) - 1)
      BY <2>2 DEF Mark, q
    <3> QED
      BY <1>6, <3>1, <3>3, <3>4 DEF Smaller
  <2> QED
    BY <2>1, <2>2
<1> QED
  BY <1>6, <1>7, <1>8 DEF q, l

LEMMA ReadIs ==
  ASSUME NEW e, Fits(e)
  PROVE  LET s == ReadSnapshot(e)
         IN  /\ s \in Snapshot
             /\ s.preedit = (e.rime.keys > 0)
             /\ s.candidates = Listed(e) /\ s.highlighted = Mark(e)
<1> DEFINE s == ReadSnapshot(e)
<1>1. Listed(e) \in Seq(Candidate) /\ Mark(e) \in Nat
  BY ListedIs
<1>2. CASE Candidates(e) = <<>>
  <2>1. Shown(e) = <<>>
    <3> DEFINE q == Shown(e)
    <3>1. q \in Seq(Nat) /\ \A i \in 1 .. Len(q) : q[i] \in 0 .. Len(Candidates(e)) - 1
      BY ShownIs
    <3>2. Len(<<>>) = 0
      OBVIOUS
    <3>3. Len(Candidates(e)) = 0
      BY <1>2, <3>2
    <3> HIDE DEF q
    <3>4. \A i \in 1 .. Len(q) : q[i] \in 0 .. 0 - 1
      BY <3>1, <3>3
    <3>5. 0 .. 0 - 1 = {}
      OBVIOUS
    <3>6. ~(1 \in 1 .. Len(q))
      BY <3>4, <3>5
    <3> QED
      BY <3>1, <3>6 DEF q
  <2>2. Listed(e) = <<>> /\ Mark(e) = 0
    <3>1. Len(Listed(e)) = 0
      BY <2>1, ListedIs
    <3> QED
      BY <1>1, <2>1, <3>1 DEF Mark
  <2>3. s = [EmptySnapshot EXCEPT !.preedit = (e.rime.keys > 0)]
    BY <1>2 DEF ReadSnapshot
  <2> HIDE DEF s
  <2>4. (e.rime.keys > 0) \in BOOLEAN
    OBVIOUS
  <2>5. s = [preedit |-> (e.rime.keys > 0), candidates |-> <<>>, highlighted |-> 0,
             previous |-> FALSE, next |-> FALSE]
    BY <2>3 DEF EmptySnapshot
  <2>6. <<>> \in Seq(Candidate) /\ 0 \in Nat /\ FALSE \in BOOLEAN
    OBVIOUS
  <2>7. s \in Snapshot
    BY <2>4, <2>5, <2>6 DEF Snapshot
  <2>8. s.preedit = (e.rime.keys > 0) /\ s.candidates = <<>> /\ s.highlighted = 0
    BY <2>5
  <2> QED
    BY <2>2, <2>7, <2>8 DEF s
<1>3. CASE Candidates(e) # <<>>
  <2>1. e.rime.keys > 0
    <3>1. e.rime.keys \in Nat
      BY EngineParts, Limits DEF Fits
    <3>2. e.rime.keys # 0
      BY <1>3, CandidatesIs
    <3> QED
      BY <3>1, <3>2
  <2> DEFINE next == NextOffset(e, e.offset) >= 0
             previous == e.stack # <<>>
             l == Listed(e)
             h == Mark(e)
  <2>2. s = [preedit |-> TRUE, candidates |-> l, highlighted |-> h,
             previous |-> previous, next |-> next]
    BY <1>3 DEF ReadSnapshot, ShowingSnapshot, Listed, Mark
  <2>3. next \in BOOLEAN /\ previous \in BOOLEAN /\ TRUE \in BOOLEAN
    OBVIOUS
  <2>4. l \in Seq(Candidate) /\ h \in Nat
    BY <1>1
  <2> HIDE DEF next, previous, l, h, s
  <2>5. s \in Snapshot
    BY <2>2, <2>3, <2>4 DEF Snapshot
  <2>6. s.preedit = TRUE /\ s.candidates = l /\ s.highlighted = h
    BY <2>2
  <2> QED
    BY <2>1, <2>5, <2>6 DEF s, l, h
<1> QED
  BY <1>2, <1>3

LEMMA RimeSnapshotIs ==
  ASSUME NEW e, Fits(e), e.kind = "rime"
  PROVE  LET s == RimeSnapshot(e)
         IN  /\ s \in Snapshot /\ s.preedit = Input(e) /\ s.highlighted = Mark(e)
             /\ s.candidates = IF AtLimit(e) THEN <<>> ELSE Listed(e)
             /\ ~AtLimit(e) /\ ~Input(e) => s = EmptySnapshot
<1> DEFINE r == ReadSnapshot(e)
           p == r.preedit \/ e.prefixed \/ e.raw # <<>>
           w == [r EXCEPT !.preedit = p]
           s == RimeSnapshot(e)
<1>1. /\ r \in Snapshot /\ r.preedit = (e.rime.keys > 0)
      /\ r.candidates = Listed(e) /\ r.highlighted = Mark(e)
  BY ReadIs
<1>2. s = Limited(e, w)
  BY DEF RimeSnapshot
<1>3. p = Input(e)
  BY <1>1 DEF Input
<1>4. p \in BOOLEAN
  OBVIOUS
<1> HIDE DEF r, p
<1>5. /\ w \in Snapshot /\ w.preedit = p /\ w.candidates = Listed(e) /\ w.highlighted = Mark(e)
  BY <1>1, <1>4 DEF Snapshot
<1>6. ~Input(e) => w = EmptySnapshot
  <2> SUFFICES ASSUME ~Input(e) PROVE w = EmptySnapshot
    OBVIOUS
  <2>1. e.rime.keys = 0
    <3>1. e.rime.keys \in Nat
      BY EngineParts, Limits DEF Fits
    <3>2. ~(e.rime.keys > 0)
      BY DEF Input
    <3> QED
      BY <3>1, <3>2
  <2>2. Candidates(e) = <<>>
    BY <2>1, CandidatesIs
  <2>3. r = [EmptySnapshot EXCEPT !.preedit = (e.rime.keys > 0)]
    BY <2>2 DEF ReadSnapshot, r
  <2>4. p = FALSE
    BY <1>3, <1>4
  <2>5. w = [r EXCEPT !.preedit = FALSE]
    BY <2>4
  <2> HIDE DEF w
  <2> QED
    BY <2>3, <2>5 DEF EmptySnapshot
<1> HIDE DEF w, s
<1>7. CASE AtLimit(e)
  <2>1. s = [w EXCEPT !.candidates = <<>>, !.previous = FALSE, !.next = FALSE]
    BY <1>2, <1>7 DEF Limited
  <2>2. <<>> \in Seq(Candidate) /\ FALSE \in BOOLEAN
    OBVIOUS
  <2>3. /\ s \in Snapshot /\ s.candidates = <<>>
        /\ s.preedit = w.preedit /\ s.highlighted = w.highlighted
    BY <1>5, <2>1, <2>2 DEF Snapshot
  <2> QED
    BY <1>3, <1>5, <1>7, <2>3 DEF s
<1>8. CASE ~AtLimit(e)
  <2>1. s = w
    BY <1>2, <1>8 DEF Limited
  <2> QED
    BY <1>3, <1>5, <1>6, <1>8, <2>1 DEF s
<1> QED
  BY <1>7, <1>8

LEMMA StubSnapshotIs ==
  ASSUME NEW e, Keeps(e)
  PROVE  LET s == StubSnapshot(e)
         IN  /\ s \in Snapshot /\ s.preedit = (e.raw # <<>>) /\ s.highlighted = 0
             /\ StubPlaces(e) \in Nat /\ Len(s.candidates) = StubPlaces(e)
             /\ e.raw = <<>> => s = EmptySnapshot
<1> DEFINE n == StubPlaces(e)
           F(i) == [after |-> 0, of |-> e.letters, place |-> i - 1]
           c == [i \in 1 .. n |-> F(i)]
           p == e.raw # <<>>
           s == StubSnapshot(e)
<1>1. /\ e.letters \in Nat /\ e.raw \in Seq(Key) /\ e.letters = LettersIn(e.raw)
  BY EngineParts DEF Keeps, Fits
<1>2. n \in Nat
  <2>1. CASE AtLimit(e)
    BY <2>1 DEF StubPlaces
  <2>2. CASE ~AtLimit(e) /\ e.letters \in DOMAIN Seed
    <3>1. Seed[e.letters] \in Nat
      BY <2>2, SeedAssumption
    <3> QED
      BY <2>2, <3>1 DEF StubPlaces
  <2>3. CASE ~AtLimit(e) /\ e.letters \notin DOMAIN Seed
    BY <2>3 DEF StubPlaces
  <2> QED
    BY <2>1, <2>2, <2>3
<1>3. e.raw = <<>> => n = 0
  <2> SUFFICES ASSUME e.raw = <<>> PROVE n = 0
    OBVIOUS
  <2>1. e.letters = 0
    BY <1>1, LettersEmpty
  <2>2. ~AtLimit(e) /\ e.letters \notin DOMAIN Seed
    BY <2>1, Limits, SeedAssumption DEF AtLimit
  <2> QED
    BY <2>2 DEF StubPlaces
<1>4. \A i \in 1 .. n : F(i) \in Candidate
  <2> SUFFICES ASSUME NEW i \in 1 .. n PROVE F(i) \in Candidate
    OBVIOUS
  <2>1. i - 1 \in Nat /\ 0 \in Nat
    BY <1>2
  <2> QED
    BY <1>1, <2>1 DEF Candidate
<1>5. s = [EmptySnapshot EXCEPT !.preedit = p, !.candidates = c]
  BY DEF StubSnapshot
<1> HIDE DEF n, F
<1>6. c \in Seq(Candidate) /\ Len(c) = n
  BY <1>2, <1>4
<1>7. n = 0 => c = <<>>
  BY <1>6
<1>8. p \in BOOLEAN
  OBVIOUS
<1> HIDE DEF c
<1>9. s = [preedit |-> p, candidates |-> c, highlighted |-> 0, previous |-> FALSE, next |-> FALSE]
  BY <1>5 DEF EmptySnapshot
<1> HIDE DEF s
<1>10. e.raw = <<>> => s = EmptySnapshot
  BY <1>3, <1>7, <1>9 DEF EmptySnapshot
<1> HIDE DEF p
<1>11. s.preedit = p /\ s.candidates = c /\ s.highlighted = 0
  BY <1>9
<1>12. FALSE \in BOOLEAN /\ 0 \in Nat
  OBVIOUS
<1>13. s \in Snapshot
  BY <1>6, <1>8, <1>9, <1>12 DEF Snapshot
<1> QED
  BY <1>2, <1>6, <1>10, <1>11, <1>13 DEF s, p, n

LEMMA SnapshotIs ==
  ASSUME NEW e, Keeps(e)
  PROVE  /\ Readable(SnapshotOf(e)) /\ SnapshotOf(e).preedit = Input(e)
         /\ HasInput(e) = Input(e)
         /\ ~Input(e) => SnapshotOf(e) = EmptySnapshot /\ e.letters = 0
<1> DEFINE s == SnapshotOf(e)
<1>1. /\ Fits(e) /\ e.kind \in {"rime", "stub"} /\ e.letters = LettersIn(e.raw)
      /\ e.letters \in Nat
  BY EngineParts DEF Keeps, Fits
<1>2. ~Input(e) => e.letters = 0
  BY <1>1, LettersEmpty DEF Input
<1>3. CASE e.kind = "rime"
  <2>1. s = RimeSnapshot(e)
    BY <1>3 DEF SnapshotOf
  <2> HIDE DEF s
  <2>2. /\ s \in Snapshot /\ s.preedit = Input(e) /\ s.highlighted = Mark(e)
        /\ s.candidates = IF AtLimit(e) THEN <<>> ELSE Listed(e)
        /\ ~AtLimit(e) /\ ~Input(e) => s = EmptySnapshot
    BY <1>1, <1>3, <2>1, RimeSnapshotIs
  <2>3. ~Input(e) => ~AtLimit(e)
    BY <1>2, Limits DEF AtLimit
  <2>4. s.highlighted = 0 \/ s.candidates = <<>> \/ s.highlighted < Len(s.candidates)
    <3>1. CASE Shown(e) = <<>>
      BY <2>2, <3>1 DEF Mark
    <3>2. CASE Shown(e) # <<>>
      <4>1. Mark(e) < Len(Listed(e))
        BY <1>1, <3>2, ListedIs
      <4> QED
        BY <2>2, <4>1
    <3> QED
      BY <3>1, <3>2
  <2>5. Readable(s)
    BY <2>2, <2>4 DEF Readable
  <2> QED
    BY <1>2, <2>2, <2>3, <2>5 DEF s, HasInput
<1>4. CASE e.kind = "stub"
  <2>1. s = StubSnapshot(e)
    BY <1>4 DEF SnapshotOf
  <2> HIDE DEF s
  <2>2. /\ s \in Snapshot /\ s.preedit = (e.raw # <<>>) /\ s.highlighted = 0
        /\ e.raw = <<>> => s = EmptySnapshot
    BY <2>1, StubSnapshotIs
  <2>3. Input(e) = (e.raw # <<>>)
    BY <1>4 DEF Input
  <2>4. Readable(s)
    BY <2>2 DEF Readable
  <2> QED
    BY <1>2, <2>2, <2>3, <2>4 DEF s, HasInput
<1> QED
  BY <1>1, <1>3, <1>4

-----------------------------------------------------------------------------
(* Calls.                                                                  *)
LEMMA AnswerIs ==
  ASSUME NEW f \in Engine, NEW c \in BOOLEAN, NEW n \in Nat
  PROVE  /\ Answer(f, c, n) \in Answers /\ Answer(f, c, n).engine = f
         /\ Answer(f, c, n).consumed = c /\ Answer(f, c, n).commit = n
  BY DEF Answer, Answers

LEMMA ApartAppend ==
  ASSUME NEW raw \in Seq(Key), Apart(raw), NEW key \in Key, key = "separator" => ~Ended(raw)
  PROVE  Apart(Append(raw, key))
<1> DEFINE more == Append(raw, key)
           n == Len(raw)
<1>1. /\ n \in Nat /\ Len(more) = n + 1 /\ more[n + 1] = key
      /\ \A i \in 1 .. n : more[i] = raw[i]
  OBVIOUS
<1>2. n > 0 => raw # <<>> /\ Last(raw) = raw[n] /\ raw[n] \in Key
  BY DEF Last
<1> HIDE DEF more
<1>3. ASSUME NEW i \in 1 .. n PROVE more[i] = "letter" \/ more[i + 1] = "letter"
  <2>1. CASE i = n
    <3>1. n > 0
      BY <1>1, <2>1
    <3>2. CASE key = "letter"
      BY <1>1, <2>1, <3>2
    <3>3. CASE key = "separator"
      <4>1. raw[n] # "separator"
        BY <1>2, <3>1, <3>3 DEF Ended
      <4>2. raw[n] = "letter"
        BY <1>2, <3>1, <4>1 DEF Key
      <4> QED
        BY <1>1, <2>1, <3>1, <4>2
    <3> QED
      BY <3>2, <3>3 DEF Key
  <2>2. CASE i # n
    <3>1. i \in 1 .. n - 1 /\ i + 1 \in 1 .. n
      BY <1>1, <2>2
    <3>2. raw[i] = "letter" \/ raw[i + 1] = "letter"
      BY <3>1 DEF Apart
    <3> QED
      BY <1>1, <3>1, <3>2
  <2> QED
    BY <2>1, <2>2
<1>4. Len(more) - 1 = n
  BY <1>1
<1>5. Apart(more)
  BY <1>3, <1>4 DEF Apart
<1> QED
  BY <1>5 DEF more

(* The first keys of a composition. *)
LEMMA Within ==
  ASSUME NEW raw \in Seq(Key), NEW q \in Seq(Key), Len(q) <= Len(raw),
         \A i \in 1 .. Len(q) : q[i] = raw[i]
  PROVE  LettersIn(q) <= LettersIn(raw) /\ (Apart(raw) => Apart(q))
<1> DEFINE L(s) == {i \in DOMAIN s : s[i] = "letter"}
<1>1. DOMAIN q = 1 .. Len(q) /\ DOMAIN raw = 1 .. Len(raw) /\ Len(q) \in Nat /\ Len(raw) \in Nat
  OBVIOUS
<1>2. /\ IsFiniteSet(L(raw))
      /\ LettersIn(raw) = Cardinality(L(raw)) /\ LettersIn(q) = Cardinality(L(q))
  BY LettersFinite DEF LettersIn
<1>3. L(q) \subseteq L(raw)
  BY <1>1
<1>4. Cardinality(L(q)) <= Cardinality(L(raw))
  BY <1>2, <1>3, FS_Subset
<1>5. ASSUME Apart(raw) PROVE Apart(q)
  <2> SUFFICES ASSUME NEW i \in 1 .. Len(q) - 1 PROVE q[i] = "letter" \/ q[i + 1] = "letter"
    BY DEF Apart
  <2>1. i \in 1 .. Len(raw) - 1 /\ i \in 1 .. Len(q) /\ i + 1 \in 1 .. Len(q)
    BY <1>1
  <2>2. raw[i] = "letter" \/ raw[i + 1] = "letter"
    BY <1>5, <2>1 DEF Apart
  <2> QED
    BY <2>1, <2>2
<1> QED
  BY <1>2, <1>4, <1>5

PageKeys == {"pageUp", "pageDown"}

(* What a call does to an engine. *)
Served(e, command, a) ==
  /\ a \in Answers /\ Sound(a.engine)
  /\ a.engine.kind = e.kind
  /\ ~a.consumed => a.engine = e
  /\ a.engine.letters <= e.letters + (IF command = "letter" THEN 1 ELSE 0)
  /\ command \in Options \cup PageKeys => (Input(a.engine) <=> Input(e))
  /\ command = "reset" => ~Input(a.engine)
  /\ command # "pageSize" => a.engine.pageSize = e.pageSize

LEMMA SoundIs ==
  ASSUME NEW e, Sound(e)
  PROVE  /\ e \in Engine /\ Fits(e) /\ Keeps(e) /\ e.letters \in Nat /\ e.raw \in Seq(Key)
         /\ e.letters = LettersIn(e.raw) /\ e.letters <= MaxLetters /\ Apart(e.raw)
         /\ Accounted(e) /\ e.pageSize \in 1 .. MaxPageSize /\ e.kind \in {"rime", "stub"}
         /\ e.prefix \in Nat /\ e.rime.keys \in Nat /\ e.rime.chosen \in Nat
  BY EngineParts, Limits DEF Sound, Keeps, Fits

LEMMA DeclinedServed ==
  ASSUME NEW e, Sound(e), NEW command, command # "reset"
  PROVE  Served(e, command, Declined(e))
<1> DEFINE a == Declined(e)
<1>1. FALSE \in BOOLEAN /\ 0 \in Nat /\ e \in Engine /\ e.letters \in Nat
  BY SoundIs
<1>2. a \in Answers /\ a.engine = e
  BY <1>1, AnswerIs DEF Declined
<1> HIDE DEF a
<1>3. a.engine.letters <= e.letters + (IF command = "letter" THEN 1 ELSE 0)
  BY <1>1, <1>2
<1> QED
  BY <1>2, <1>3 DEF Served, a

LEMMA PagedServed ==
  ASSUME NEW e, Sound(e), NEW key \in Key, key = "letter" => e.letters < MaxLetters,
         key = "separator" => ~Ended(e.raw)
  PROVE  Served(e, key, Paged(ProcessTrackedKey(e, key)))
<1> DEFINE a == ProcessTrackedKey(e, key)
           p == Paged(a)
           f == a.engine
<1>10. /\ KeyTracked(e, key, a) /\ Paging(f) = Paging(e) /\ (~a.consumed => f = e)
       /\ (Covered(e) => Covered(f)) /\ (Whole(e) => Whole(f))
  BY SoundIs, ProcessTrackedKeyIs
<1>11. Accounted(f)
  <2>1. Accounted(e)
    BY SoundIs
  <2>2. f.kind = e.kind /\ f.schema = e.schema
    BY <1>10 DEF KeyTracked, Settings
  <2> HIDE DEF a, f
  <2> QED
    BY <1>10, <2>1, <2>2 DEF Accounted
<1>1. /\ KeyTracked(e, key, a) /\ Paging(f) = Paging(e) /\ (~a.consumed => f = e)
      /\ Accounted(f)
  BY <1>10, <1>11
<1> HIDE DEF a
<1>2. /\ a \in Answers /\ Fits(f) /\ Settings(f) = Settings(e)
  BY <1>1 DEF KeyTracked
<1>3. e.letters \in Nat
  BY SoundIs
<1>4. key \notin Options \cup PageKeys /\ key # "reset" /\ key # "pageSize"
  BY DEF Key, Options, PageKeys
<1>5. CASE ~a.consumed
  <2>1. p = a /\ f = e
    BY <1>1, <1>5 DEF Paged
  <2>2. f.letters <= e.letters + (IF key = "letter" THEN 1 ELSE 0)
    BY <1>3, <2>1
  <2> HIDE DEF p
  <2>3. p \in Answers /\ p.engine = e /\ Sound(e)
    BY <1>2, <2>1
  <2>4. Served(e, key, p)
    BY <1>4, <2>1, <2>2, <2>3 DEF Served
  <2> QED
    BY <2>4 DEF p, a
<1>6. CASE a.consumed
  <2>1. /\ f.raw = Append(e.raw, key)
        /\ f.letters = e.letters + (IF key = "letter" THEN 1 ELSE 0)
    BY <1>1, <1>6 DEF KeyTracked
  <2>2. f.letters = LettersIn(f.raw)
    BY <2>1, SoundIs, LettersAppend
  <2>3. f.letters <= MaxLetters
    <3>1. CASE key = "letter"
      BY <1>3, <2>1, <3>1, Limits
    <3>2. CASE key # "letter"
      BY <1>3, <2>1, <3>2, SoundIs
    <3> QED
      BY <3>1, <3>2
  <2>4. Apart(f.raw)
    BY <2>1, SoundIs, ApartAppend
  <2>5. Keeps(f)
    BY <1>1, <1>2, <2>2, <2>3, <2>4 DEF Keeps
  <2> DEFINE g == ResetPaging(f)
  <2>6. /\ g \in Engine /\ Sound(g) /\ g.letters = f.letters /\ Settings(g) = Settings(f)
    BY <2>5, ResetSound
  <2> HIDE DEF g, f
  <2>7. p = [a EXCEPT !.engine = g]
    BY <1>6 DEF Paged, g, f
  <2> HIDE DEF p
  <2>8. p \in Answers /\ p.engine = g /\ p.consumed = a.consumed
    BY <1>2, <2>6, <2>7 DEF Answers
  <2>9. g.kind = e.kind /\ g.pageSize = e.pageSize
    BY <1>2, <2>6 DEF Settings
  <2>10. g.letters <= e.letters + (IF key = "letter" THEN 1 ELSE 0)
    <3>1. g.letters \in Nat /\ g.letters = e.letters + (IF key = "letter" THEN 1 ELSE 0)
      BY <2>1, <2>6, SoundIs
    <3> QED
      BY <3>1
  <2>11. p.consumed
    BY <1>6, <2>8
  <2>12. Served(e, key, p)
    BY <1>4, <2>6, <2>8, <2>9, <2>10, <2>11 DEF Served
  <2> QED
    BY <2>12 DEF p, a
<1> QED
  BY <1>5, <1>6

(* An answer that leaves an engine no paging. *)
LEMMA ResetServed ==
  ASSUME NEW e, Sound(e), NEW command, NEW g, Keeps(g), Settings(g) = Settings(e),
         g.letters <= e.letters, NEW n \in Nat,
         command \in Options \cup PageKeys => (Input(g) <=> Input(e)),
         command = "reset" => ~Input(g)
  PROVE  Served(e, command, Answer(ResetPaging(g), TRUE, n))
<1> DEFINE f == ResetPaging(g)
           a == Answer(f, TRUE, n)
<1>1. /\ f \in Engine /\ Sound(f) /\ (Input(f) <=> Input(g)) /\ f.letters = g.letters
      /\ Settings(f) = Settings(g)
  BY ResetSound
<1> HIDE DEF f
<1>2. TRUE \in BOOLEAN
  OBVIOUS
<1>3. a \in Answers /\ a.engine = f /\ a.consumed = TRUE
  BY <1>1, <1>2, AnswerIs, ZenonT(60)
<1> HIDE DEF a
<1>4. f.kind = e.kind /\ f.pageSize = e.pageSize
  BY <1>1 DEF Settings
<1>5. f.letters \in Nat /\ e.letters \in Nat
  BY <1>1, SoundIs
<1>6. f.letters <= e.letters + (IF command = "letter" THEN 1 ELSE 0)
  BY <1>1, <1>5
<1> QED
  BY <1>1, <1>3, <1>4, <1>6 DEF Served, a, f

LEMMA RimeResetServed ==
  ASSUME NEW e, Sound(e), NEW command, command \notin Options \cup PageKeys,
         command # "pageSize", NEW n \in Nat
  PROVE  Served(e, command, Answer(RimeReset(e), TRUE, n))
<1> DEFINE r == ResetPaging(e)
           f == Cleared(ClearTrackedInput(r))
           a == Answer(f, TRUE, n)
<1>1. r \in Engine /\ r.offset = 0 /\ r.stack = <<>> /\ Settings(r) = Settings(e)
  BY SoundIs, ResetPagingIs
<1> HIDE DEF r
<1>2. /\ f \in Engine /\ Keeps(f) /\ ~Input(f) /\ f.letters = 0
      /\ Settings(f) = Settings(r) /\ Paging(f) = Paging(r)
  BY <1>1, ClearedAll
<1> HIDE DEF f
<1>3. PagesFollowIn(f)
  BY <1>1, <1>2, PagesOfNone DEF Paging
<1>4. TRUE \in BOOLEAN
  OBVIOUS
<1>5. a \in Answers /\ a.engine = f /\ a.consumed = TRUE
  BY <1>2, <1>4, AnswerIs
<1> HIDE DEF a
<1>6. f.kind = e.kind /\ f.pageSize = e.pageSize
  BY <1>1, <1>2 DEF Settings
<1>7. f.letters <= e.letters + (IF command = "letter" THEN 1 ELSE 0)
  <2>1. e.letters \in Nat
    BY SoundIs
  <2> QED
    BY <1>2, <2>1
<1>8. Served(e, command, a)
  BY <1>2, <1>3, <1>5, <1>6, <1>7 DEF Served, Sound
<1> QED
  BY <1>8 DEF a, f, r, RimeReset

LEMMA RimeLetterServed ==
  ASSUME NEW e, Sound(e)
  PROVE  Served(e, "letter", RimeLetter(e))
<1>1. CASE AtLimit(e)
  <2>1. "letter" \notin Options \cup PageKeys /\ 0 \in Nat
    BY DEF Options, PageKeys
  <2>2. e.letters <= e.letters
    BY SoundIs
  <2>3. Served(e, "letter", Answer(ResetPaging(e), TRUE, 0))
    BY <2>1, <2>2, SoundIs, ResetServed
  <2> QED
    BY <1>1, <2>3 DEF RimeLetter
<1>2. CASE ~AtLimit(e)
  <2>1. "letter" \in Key
    BY DEF Key
  <2>2. e.letters < MaxLetters
    BY <1>2, SoundIs, Limits DEF AtLimit
  <2>3. Served(e, "letter", Paged(ProcessTrackedKey(e, "letter")))
    BY <2>1, <2>2, PagedServed
  <2> QED
    BY <1>2, <2>3 DEF RimeLetter
<1> QED
  BY <1>1, <1>2

LEMMA RimeSeparatorServed ==
  ASSUME NEW e, Sound(e)
  PROVE  Served(e, "separator", RimeSeparator(e))
<1>1. CASE Ended(e.raw)
  <2>1. RimeSeparator(e) = Declined(e)
    BY <1>1 DEF RimeSeparator, Ended
  <2> QED
    BY <2>1, DeclinedServed
<1>2. CASE ~Ended(e.raw)
  <2>1. "separator" \in Key
    BY DEF Key
  <2>2. Served(e, "separator", Paged(ProcessTrackedKey(e, "separator")))
    BY <1>2, <2>1, PagedServed
  <2>3. RimeSeparator(e) = Paged(ProcessTrackedKey(e, "separator"))
    BY <1>2 DEF RimeSeparator, Ended
  <2> QED
    BY <2>2, <2>3
<1> QED
  BY <1>1, <1>2

(* Backspace while librime gives its keys back. *)
LEMMA TakesBackKeeps ==
  ASSUME NEW e, Sound(e), e.raw # <<>>, e.rime.keys > 0
  PROVE  LET g == WithoutLastKey(RimeTakesBack(e))
         IN  Keeps(g) /\ Settings(g) = Settings(e) /\ g.letters <= e.letters
<1> DEFINE b == RimeTakesBack(e)
           g == WithoutLastKey(b)
           k == e.rime.keys
           c == e.rime.chosen
<1>1. /\ e \in Engine /\ k \in 0 .. Full + 1 /\ c \in Nat /\ c <= k /\ e.rime \in Taken
      /\ k > 0 /\ Full \in Nat
  BY SoundIs, EngineParts, Limits DEF Fits
<1>2. e.rime = [keys |-> k, chosen |-> c]
  BY <1>1 DEF Taken
<1>3. /\ b \in Engine /\ Settings(b) = Settings(e) /\ Tracking(b) = Tracking(e)
      /\ b.rime.chosen <= b.rime.keys
      /\ ~e.schema.reopens => b.rime.keys = k - 1
  <2>1. CASE c > 0 /\ e.schema.reopens
    <3> DEFINE r == [keys |-> k, chosen |-> 0]
    <3>1. b = [e EXCEPT !.rime = r]
      <4>1. b = [e EXCEPT !.rime.chosen = 0]
        BY <2>1 DEF RimeTakesBack
      <4>2. [e.rime EXCEPT !.chosen = 0] = r
        BY <1>2
      <4> QED
        BY <4>1, <4>2
    <3>2. r \in Taken
      BY <1>1 DEF Taken
    <3>5. r.keys = k /\ r.chosen = 0
      OBVIOUS
    <3> HIDE DEF r, b
    <3>3. /\ b \in Engine /\ b.rime = r /\ Settings(b) = Settings(e) /\ Tracking(b) = Tracking(e)
      BY <1>1, <3>1, <3>2, PutRime
    <3>4. e.schema.reopens
      BY <2>1
    <3> QED
      BY <1>1, <3>3, <3>4, <3>5 DEF b
  <2>2. CASE ~(c > 0 /\ e.schema.reopens)
    <3> DEFINE x == Smaller(c, k - 1)
               r == [keys |-> k - 1, chosen |-> x]
    <3>1. b = [e EXCEPT !.rime = r]
      BY <2>2 DEF RimeTakesBack
    <3>2. k - 1 \in 0 .. Full + 1 /\ x \in Nat /\ x <= k - 1
      BY <1>1 DEF Smaller
    <3>6. r \in Taken
      BY <3>2 DEF Taken
    <3>5. r.keys = k - 1 /\ r.chosen = x
      OBVIOUS
    <3> HIDE DEF r, b, x
    <3>3. /\ b \in Engine /\ b.rime = r /\ Settings(b) = Settings(e) /\ Tracking(b) = Tracking(e)
      BY <1>1, <3>1, <3>6, PutRime
    <3> QED
      BY <3>2, <3>3, <3>5 DEF b
  <2> QED
    BY <2>1, <2>2
<1>4. /\ b.raw = e.raw /\ b.letters = e.letters /\ b.prefix = e.prefix
      /\ b.kind = e.kind /\ b.schema = e.schema
  BY <1>3 DEF Tracking, Settings
<1> HIDE DEF b
<1> DEFINE raw == Front(b.raw)
           letters == IF Last(b.raw) = "letter" THEN b.letters - 1 ELSE b.letters
<1>5. /\ raw \in Seq(Key) /\ Len(raw) = Len(e.raw) - 1 /\ Len(e.raw) \in Nat \ {0}
      /\ \A i \in 1 .. Len(raw) : raw[i] = e.raw[i]
  <2>1. e.raw \in Seq(Key)
    BY SoundIs
  <2>2. /\ raw \in Seq(Key) /\ Len(raw) = Len(e.raw) - 1 /\ Len(e.raw) \in Nat \ {0}
        /\ raw = SubSeq(e.raw, 1, Len(e.raw) - 1)
    BY <1>4, <2>1, FrontLast
  <2>3. \A i \in 1 .. Len(e.raw) - 1 : SubSeq(e.raw, 1, Len(e.raw) - 1)[i] = e.raw[i]
    BY <2>1, <2>2
  <2> QED
    BY <2>2, <2>3
<1>6. letters \in Nat /\ letters = LettersIn(raw) /\ letters <= e.letters
  <2>1. e.raw \in Seq(Key) /\ e.letters \in Nat /\ e.letters = LettersIn(e.raw)
    BY SoundIs
  <2>2. LettersIn(e.raw) = LettersIn(Front(e.raw)) + (IF Last(e.raw) = "letter" THEN 1 ELSE 0)
    BY <2>1, LettersFront
  <2>3. LettersIn(raw) \in Nat
    BY <1>5, LettersFinite
  <2>4. CASE Last(e.raw) = "letter"
    <3>1. e.letters = LettersIn(raw) + 1 /\ letters = e.letters - 1
      BY <1>4, <2>1, <2>2, <2>4
    <3> QED
      BY <2>1, <2>3, <3>1
  <2>5. CASE Last(e.raw) # "letter"
    <3>1. e.letters = LettersIn(raw) + 0 /\ letters = e.letters
      BY <1>4, <2>1, <2>2, <2>5
    <3> QED
      BY <2>1, <2>3, <3>1
  <2> QED
    BY <2>4, <2>5
<1>7. g = [b EXCEPT !.raw = raw, !.letters = letters]
  <2>1. g = [b EXCEPT !.letters = letters, !.raw = raw]
    BY DEF WithoutLastKey
  <2> HIDE DEF g, raw, letters
  <2> QED
    BY <1>3, <2>1 DEF Engine
<1> HIDE DEF raw, letters, g
<1>8. /\ g \in Engine /\ g.raw = raw /\ g.letters = letters
      /\ g.rime = b.rime /\ g.prefix = b.prefix /\ Settings(g) = Settings(b)
  <2> DEFINE h == [b EXCEPT !.raw = raw, !.letters = letters]
  <2>1. b \in Engine /\ raw \in Seq(Key) /\ letters \in Nat
    BY <1>3, <1>5, <1>6
  <2>2. /\ h \in Engine /\ h.raw = raw /\ h.letters = letters
        /\ h.rime = b.rime /\ h.prefix = b.prefix /\ Settings(h) = Settings(b)
    BY <2>1 DEF Engine, Key, Settings
  <2> HIDE DEF h
  <2>3. g = h
    BY <1>7 DEF h
  <2> QED
    BY <2>2, <2>3
<1>9. Apart(g.raw)
  <2>1. Len(raw) <= Len(e.raw) /\ e.raw \in Seq(Key) /\ Apart(e.raw)
    BY <1>5, SoundIs
  <2> QED
    BY <1>5, <1>8, <2>1, Within
<1>10. Accounted(g)
  <2> SUFFICES ASSUME g.kind = "rime", ~g.schema.reopens
               PROVE  Covered(g) /\ (g.schema.ends # "empty" => Whole(g))
    BY DEF Accounted
  <2>1. e.kind = "rime" /\ e.schema = g.schema
    BY <1>3, <1>8 DEF Settings
  <2>2. Covered(e) /\ (e.schema.ends # "empty" => Whole(e))
    BY <2>1, SoundIs DEF Accounted
  <2>3. g.rime.keys = k - 1 /\ g.prefix = e.prefix /\ Len(g.raw) = Len(e.raw) - 1
    BY <1>3, <1>4, <1>5, <1>8, <2>1
  <2>4. e.prefix \in Nat /\ k \in Nat /\ k <= Full + 1 /\ Len(e.raw) \in Nat
    BY <1>1, <1>5, SoundIs
  <2>5. e.prefix + k <= Len(e.raw)
    BY <2>2 DEF Covered
  <2>6. Covered(g)
    <3> HIDE DEF k, g
    <3> QED
      BY <2>3, <2>4, <2>5 DEF Covered
  <2>7. ASSUME g.schema.ends # "empty", Commits(g) PROVE Whole(g)
    <3>1. Len(e.raw) = e.prefix + k
      BY <2>1, <2>2, <2>7 DEF Whole, Commits
    <3> HIDE DEF k, g
    <3>2. Len(g.raw) = g.prefix + g.rime.keys /\ g.rime.keys # Full + 1
      BY <1>1, <2>3, <2>4, <3>1
    <3> QED
      BY <3>2 DEF Whole
  <2> QED
    BY <2>6, <2>7 DEF Whole
<1>11. g.letters = LettersIn(g.raw) /\ g.letters <= MaxLetters /\ g.letters <= e.letters
  <2>1. e.letters <= MaxLetters /\ e.letters \in Nat /\ MaxLetters \in Nat
    BY SoundIs, Limits
  <2> QED
    BY <1>6, <1>8, <2>1
<1>12. Fits(g)
  BY <1>3, <1>8 DEF Fits
<1> QED
  BY <1>3, <1>8, <1>9, <1>10, <1>11, <1>12 DEF Keeps, g, b

LEMMA RimeBackspaceServed ==
  ASSUME NEW e, Sound(e)
  PROVE  Served(e, "backspace", RimeBackspace(e))
<1>1. "backspace" \notin Options \cup PageKeys /\ 0 \in Nat
  BY DEF Options, PageKeys
<1>2. /\ e \in Engine /\ e.raw \in Seq(Key) /\ e.prefix \in Nat /\ e.rime.keys \in Nat
      /\ e.letters = LettersIn(e.raw) /\ e.letters \in Nat /\ Apart(e.raw)
      /\ e.letters <= MaxLetters /\ MaxLetters \in Nat
  BY SoundIs, Limits
<1>3. CASE e.raw # <<>> /\ e.prefix > 0
  <2> DEFINE keys == Front(e.raw)
             g == RebuildComposition(e, keys)
  <2>1. /\ keys \in Seq(Key) /\ Len(keys) = Len(e.raw) - 1 /\ Len(e.raw) \in Nat \ {0}
        /\ keys = SubSeq(e.raw, 1, Len(e.raw) - 1)
    BY <1>2, <1>3, FrontLast
  <2>2. \A i \in 1 .. Len(e.raw) - 1 : SubSeq(e.raw, 1, Len(e.raw) - 1)[i] = e.raw[i]
    BY <1>2, <2>1
  <2>3. \A i \in 1 .. Len(keys) : keys[i] = e.raw[i]
    BY <2>1, <2>2
  <2> HIDE DEF keys
  <2>4. Len(keys) <= Len(e.raw)
    BY <2>1
  <2>5. Apart(keys) /\ LettersIn(keys) <= LettersIn(e.raw)
    BY <1>2, <2>1, <2>3, <2>4, Within
  <2>6. /\ Fits(g) /\ Settings(g) = Settings(e)
        /\ Len(g.raw) <= Len(keys) /\ \A i \in 1 .. Len(g.raw) : g.raw[i] = keys[i]
        /\ g.letters = LettersIn(g.raw)
        /\ Accounted(g)
    BY <1>2, <2>1, <2>5, RebuildIs DEF Accounted
  <2> HIDE DEF g
  <2>7. g.raw \in Seq(Key)
    BY <2>6, EngineParts DEF Fits
  <2>8. Apart(g.raw) /\ LettersIn(g.raw) <= LettersIn(keys)
    BY <2>1, <2>5, <2>6, <2>7, Within
  <2>9. LettersIn(g.raw) \in Nat /\ LettersIn(keys) \in Nat
    BY <2>1, <2>7, LettersFinite
  <2>10. g.letters <= e.letters /\ g.letters <= MaxLetters
    BY <1>2, <2>5, <2>6, <2>8, <2>9
  <2>11. Keeps(g)
    BY <2>6, <2>8, <2>10 DEF Keeps
  <2>12. Served(e, "backspace", Answer(ResetPaging(g), TRUE, 0))
    BY <1>1, <2>6, <2>10, <2>11, ResetServed
  <2>13. ~(e.prefix = 0) /\ ~(e.raw = <<>>)
    BY <1>3
  <2>14. RimeBackspace(e) = Answer(ResetPaging(g), TRUE, 0)
    <3> DEFINE x == Answer(ResetPaging(g), TRUE, 0)
    <3>1. x = Answer(ResetPaging(RebuildComposition(e, Front(e.raw))), TRUE, 0)
      BY DEF g, keys
    <3> HIDE DEF x
    <3> QED
      BY <1>3, <2>13, <3>1, Zenon DEF RimeBackspace, x
  <2> QED
    BY <2>12, <2>14
<1>4. CASE e.raw # <<>> /\ e.prefix = 0 /\ e.rime.keys > 0
  <2> DEFINE g == WithoutLastKey(RimeTakesBack(e))
  <2>1. Keeps(g) /\ Settings(g) = Settings(e) /\ g.letters <= e.letters
    BY <1>4, TakesBackKeeps
  <2> HIDE DEF g
  <2>2. Served(e, "backspace", Answer(ResetPaging(g), TRUE, 0))
    BY <1>1, <2>1, ResetServed
  <2>3. ~(e.prefix > 0) /\ ~(e.raw = <<>>)
    BY <1>4
  <2>4. RimeBackspace(e) = Answer(ResetPaging(g), TRUE, 0)
    BY <1>4, <2>3, Zenon DEF RimeBackspace, g
  <2> QED
    BY <2>2, <2>4
<1>5. CASE e.raw = <<>> \/ (e.prefix = 0 /\ ~(e.rime.keys > 0))
  <2>1. RimeBackspace(e) = Declined(e)
    <3>1. CASE e.raw = <<>>
      BY <3>1 DEF RimeBackspace
    <3>2. CASE e.raw # <<>>
      <4>1. e.prefix = 0 /\ ~(e.rime.keys > 0)
        BY <1>5, <3>2
      <4>2. ~(e.prefix > 0)
        BY <4>1
      <4> QED
        BY <3>2, <4>1, <4>2, Zenon DEF RimeBackspace
    <3> QED
      BY <3>1, <3>2
  <2> QED
    BY <2>1, DeclinedServed
<1> QED
  BY <1>2, <1>3, <1>4, <1>5

LEMMA StackFrontLast ==
  ASSUME NEW s \in Seq(Nat), s # <<>>
  PROVE  /\ Front(s) \in Seq(Nat) /\ Last(s) \in Nat /\ Len(s) \in Nat \ {0}
         /\ Len(Front(s)) = Len(s) - 1 /\ Last(s) = s[Len(s)]
         /\ \A i \in 1 .. Len(s) - 1 : Front(s)[i] = s[i]
<1> DEFINE n == Len(s) - 1
<1>1. n \in Nat /\ Len(s) \in Nat \ {0} /\ \A i \in 1 .. n : s[i] \in Nat
  OBVIOUS
<1>2. Front(s) = SubSeq(s, 1, n) /\ Last(s) = s[Len(s)]
  BY DEF Front, Last
<1>3. Last(s) \in Nat
  BY <1>1, <1>2
<1> HIDE DEF n
<1>4. SubSeq(s, 1, n) \in Seq(Nat) /\ Len(SubSeq(s, 1, n)) = IF 1 <= n THEN n - 1 + 1 ELSE 0
  BY <1>1, SubSeqProperties
<1>5. Len(SubSeq(s, 1, n)) = n
  BY <1>1, <1>4
<1>6. \A i \in 1 .. n : SubSeq(s, 1, n)[i] = s[i]
  BY <1>1 DEF n
<1> QED
  BY <1>1, <1>2, <1>3, <1>4, <1>5, <1>6 DEF n

(* A call that changes the paging alone. *)
LEMMA PutPagingServed ==
  ASSUME NEW e, Sound(e), NEW command, command # "reset",
         NEW offset \in Nat, NEW stack \in Seq(Nat),
         PagesFollowIn([e EXCEPT !.offset = offset, !.stack = stack])
  PROVE  Served(e, command, Answer([e EXCEPT !.offset = offset, !.stack = stack], TRUE, 0))
<1> DEFINE f == [e EXCEPT !.offset = offset, !.stack = stack]
           a == Answer(f, TRUE, 0)
<1>1. /\ f \in Engine /\ f.rime = e.rime /\ Tracking(f) = Tracking(e)
      /\ Settings(f) = Settings(e)
  <2>1. e \in Engine
    BY SoundIs
  <2> QED
    BY <2>1 DEF Engine, Settings, Tracking
<1>2. PagesFollowIn(f)
  OBVIOUS
<1> HIDE DEF f
<1>3. f.kind = e.kind /\ f.schema = e.schema /\ f.pageSize = e.pageSize
  BY <1>1 DEF Settings
<1>4. Keeps(f) /\ (Input(f) <=> Input(e)) /\ f.letters = e.letters
  BY <1>1, <1>3, SoundIs, KeepsSame
<1>5. TRUE \in BOOLEAN /\ 0 \in Nat
  OBVIOUS
<1>6. a \in Answers /\ a.engine = f /\ a.consumed = TRUE
  BY <1>1, <1>5, AnswerIs, ZenonT(60)
<1> HIDE DEF a
<1>7. f.letters <= e.letters + (IF command = "letter" THEN 1 ELSE 0)
  <2>1. e.letters \in Nat
    BY SoundIs
  <2> QED
    BY <1>4, <2>1
<1>8. Served(e, command, a)
  BY <1>2, <1>3, <1>4, <1>6, <1>7 DEF Served, Sound
<1> QED
  BY <1>8 DEF a, f

LEMMA RimePageUpServed ==
  ASSUME NEW e, Sound(e), e.kind = "rime"
  PROVE  Served(e, "pageUp", RimePageUp(e))
<1>1. CASE AtLimit(e) \/ e.stack = <<>>
  <2>1. RimePageUp(e) = Declined(e)
    BY <1>1 DEF RimePageUp
  <2> QED
    BY <2>1, DeclinedServed
<1>2. CASE ~(AtLimit(e) \/ e.stack = <<>>)
  <2> DEFINE s == e.stack
             front == Front(s)
             last == Last(s)
             f == [e EXCEPT !.offset = last, !.stack = front]
             n == Len(s)
  <2>1. s \in Seq(Nat) /\ s # <<>> /\ e.offset \in Nat /\ e \in Engine
    BY <1>2, SoundIs, EngineParts
  <2>2. /\ front \in Seq(Nat) /\ last \in Nat /\ n \in Nat \ {0} /\ Len(front) = n - 1
        /\ last = s[n] /\ \A i \in 1 .. n - 1 : front[i] = s[i]
    BY <2>1, StackFrontLast
  <2>3. /\ Append(s, e.offset)[1] = 0
        /\ \A i \in 1 .. n : Append(s, e.offset)[i + 1] = NextOffset(e, Append(s, e.offset)[i])
    BY SoundIs DEF Sound, PagesFollowIn
  <2>4. \A i \in 1 .. n : Append(s, e.offset)[i] = s[i]
    BY <2>1
  <2>5. /\ f.offset = last /\ f.stack = front /\ f.rime = e.rime /\ f.pageSize = e.pageSize
        /\ f.chineseOnly = e.chineseOnly
    BY <2>1 DEF Engine
  <2> HIDE DEF front, last, f, s, n
  <2>6. \A i \in 1 .. n : Append(front, last)[i] = s[i]
    <3> SUFFICES ASSUME NEW i \in 1 .. n PROVE Append(front, last)[i] = s[i]
      OBVIOUS
    <3>1. CASE i = n
      <4>1. i = Len(front) + 1
        BY <2>2, <3>1
      <4> QED
        BY <2>2, <3>1, <4>1
    <3>2. CASE i # n
      <4>1. i \in 1 .. Len(front)
        BY <2>2, <3>2
      <4> QED
        BY <2>2, <3>2, <4>1
    <3> QED
      BY <3>1, <3>2
  <2>7. PagesFollowIn(f)
    <3> DEFINE pages == Append(front, last)
    <3>1. pages[1] = 0
      <4>1. 1 \in 1 .. n
        BY <2>2
      <4> QED
        BY <2>3, <2>4, <2>6, <4>1
    <3>2. ASSUME NEW i \in 1 .. Len(front) PROVE pages[i + 1] = NextOffset(f, pages[i])
      <4>1. i \in 1 .. n /\ i + 1 \in 1 .. n
        BY <2>2
      <4>2. Append(s, e.offset)[i + 1] = NextOffset(e, Append(s, e.offset)[i])
        BY <2>3, <4>1
      <4>3. s[i + 1] = NextOffset(e, s[i])
        BY <2>4, <4>1, <4>2
      <4>4. NextOffset(f, s[i]) = NextOffset(e, s[i])
        BY <2>5, NextSame
      <4> QED
        BY <2>6, <4>1, <4>3, <4>4
    <3> HIDE DEF pages
    <3>3. pages = Append(f.stack, f.offset)
      BY <2>5 DEF pages
    <3>4. Len(f.stack) = Len(front)
      BY <2>5
    <3> QED
      BY <3>1, <3>2, <3>3, <3>4 DEF PagesFollowIn
  <2>8. Served(e, "pageUp", Answer(f, TRUE, 0))
    <3>1. "pageUp" # "reset"
      OBVIOUS
    <3> QED
      BY <2>2, <2>7, <3>1, PutPagingServed DEF f
  <2>9. RimePageUp(e) = Answer(f, TRUE, 0)
    <3>1. f = [e EXCEPT !.offset = Last(e.stack), !.stack = Front(@)]
      BY DEF f, front, last, s
    <3> HIDE DEF f
    <3> QED
      BY <1>2, <3>1 DEF RimePageUp
  <2> QED
    BY <2>8, <2>9
<1> QED
  BY <1>1, <1>2

LEMMA RimePageDownServed ==
  ASSUME NEW e, Sound(e), e.kind = "rime"
  PROVE  Served(e, "pageDown", RimePageDown(e))
<1>1. CASE AtLimit(e) \/ NextOffset(e, e.offset) < 0
  <2>1. RimePageDown(e) = Declined(e)
    BY <1>1 DEF RimePageDown
  <2> QED
    BY <2>1, DeclinedServed
<1>2. CASE ~(AtLimit(e) \/ NextOffset(e, e.offset) < 0)
  <2> DEFINE next == NextOffset(e, e.offset)
             s == e.stack
             stack == Append(s, e.offset)
             f == [e EXCEPT !.offset = next, !.stack = stack]
             n == Len(s)
  <2>1. s \in Seq(Nat) /\ e.offset \in Nat /\ e \in Engine /\ n \in Nat
    BY SoundIs, EngineParts
  <2>2. next \in Nat
    <3> DEFINE v == VisibleFrom(e, e.offset)
    <3>1. v \in Seq(Nat)
      BY <2>1, SoundIs, CandidatesIs, VisibleIs
    <3>2. e.pageSize \in Nat \ {0}
      BY SoundIs, Limits
    <3>3. next = IF e.pageSize < Len(v) THEN v[e.pageSize + 1] ELSE -1
      BY DEF NextOffset, NthVisible
    <3>4. ~(next < 0)
      BY <1>2
    <3> HIDE DEF v, next
    <3>5. e.pageSize < Len(v)
      <4>1. CASE ~(e.pageSize < Len(v))
        <5>1. next = -1
          BY <3>3, <4>1
        <5> QED
          BY <3>4, <5>1
      <4> QED
        BY <4>1
    <3>6. e.pageSize + 1 \in 1 .. Len(v)
      BY <3>1, <3>2, <3>5
    <3> QED
      BY <3>1, <3>3, <3>5, <3>6
  <2>3. /\ stack[1] = 0
        /\ \A i \in 1 .. n : stack[i + 1] = NextOffset(e, stack[i])
    BY SoundIs DEF Sound, PagesFollowIn
  <2>4. stack \in Seq(Nat) /\ Len(stack) = n + 1 /\ stack[n + 1] = e.offset
    BY <2>1
  <2>5. /\ f.offset = next /\ f.stack = stack /\ f.rime = e.rime /\ f.pageSize = e.pageSize
        /\ f.chineseOnly = e.chineseOnly
    BY <2>1 DEF Engine
  <2>6. next = NextOffset(e, e.offset)
    OBVIOUS
  <2>10. RimePageDown(e) = Answer(f, TRUE, 0)
    <3>1. f = [e EXCEPT !.offset = NextOffset(e, @), !.stack = Append(@, e.offset)]
      OBVIOUS
    <3> HIDE DEF f
    <3> QED
      BY <1>2, <3>1 DEF RimePageDown
  <2> HIDE DEF next, f, stack, n
  <2>7. PagesFollowIn(f)
    <3> DEFINE pages == Append(stack, next)
    <3>1. /\ \A i \in 1 .. n + 1 : pages[i] = stack[i]
          /\ pages[n + 2] = next
      <4>1. Len(stack) + 1 = n + 2
        BY <2>1, <2>4
      <4> QED
        BY <2>2, <2>4, <4>1
    <3>2. pages[1] = 0
      <4>1. 1 \in 1 .. n + 1
        BY <2>1
      <4> QED
        BY <2>3, <3>1, <4>1
    <3> HIDE DEF pages
    <3>3. ASSUME NEW i \in 1 .. n + 1 PROVE pages[i + 1] = NextOffset(f, pages[i])
      <4>1. NextOffset(f, stack[i]) = NextOffset(e, stack[i])
        BY <2>5, NextSame
      <4>2. CASE i = n + 1
        <5>1. i + 1 = n + 2
          BY <2>1, <4>2
        <5> QED
          BY <2>4, <2>6, <3>1, <4>1, <4>2, <5>1
      <4>3. CASE i # n + 1
        <5>1. i \in 1 .. n /\ i + 1 \in 1 .. n + 1
          BY <2>1, <4>3
        <5> QED
          BY <2>3, <3>1, <4>1, <5>1
      <4> QED
        BY <4>2, <4>3
    <3>4. pages = Append(f.stack, f.offset) /\ Len(f.stack) = n + 1
      BY <2>4, <2>5 DEF pages
    <3> QED
      BY <3>2, <3>3, <3>4 DEF PagesFollowIn
  <2>8. Served(e, "pageDown", Answer(f, TRUE, 0))
    <3>1. "pageDown" # "reset"
      OBVIOUS
    <3> QED
      BY <2>2, <2>4, <2>7, <3>1, PutPagingServed DEF f
  <2> QED
    BY <2>8, <2>10
<1> QED
  BY <1>1, <1>2

(* The options. *)
LEMMA PutPageSize ==
  ASSUME NEW e, Sound(e), NEW n \in 1 .. MaxPageSize
  PROVE  LET a == Set(SetPageSize(e, n))
         IN  Served(e, "pageSize", a) /\ a.consumed /\ a.engine.pageSize = n
<1> DEFINE g == [e EXCEPT !.pageSize = n]
           f == ResetPaging(g)
           a == Set(SetPageSize(e, n))
<1>1. Smaller(n, MaxPageSize) = n
  BY Limits DEF Smaller
<1>2. e \in Engine
  BY SoundIs
<1>3. /\ g \in Engine /\ g.rime = e.rime /\ Tracking(g) = Tracking(e)
      /\ g.kind = e.kind /\ g.schema = e.schema /\ g.pageSize = n
  BY <1>2 DEF Engine, Tracking
<1>4. SetPageSize(e, n) = f
  BY <1>1 DEF SetPageSize
<1> HIDE DEF g
<1>5. Keeps(g) /\ (Input(g) <=> Input(e)) /\ g.letters = e.letters
  BY <1>3, SoundIs, KeepsSame
<1>6. /\ f \in Engine /\ Sound(f) /\ (Input(f) <=> Input(g)) /\ f.letters = g.letters
      /\ Settings(f) = Settings(g)
  BY <1>5, ResetSound
<1> HIDE DEF f
<1>7. f.kind = e.kind /\ f.pageSize = n
  BY <1>3, <1>6 DEF Settings
<1>8. a = Answer(f, TRUE, 0)
  BY <1>4 DEF Set
<1>9. TRUE \in BOOLEAN /\ 0 \in Nat
  OBVIOUS
<1> HIDE DEF a
<1>10. a \in Answers /\ a.engine = f /\ a.consumed = TRUE
  BY <1>6, <1>8, <1>9, AnswerIs, ZenonT(60)
<1>11. f.letters <= e.letters + (IF "pageSize" = "letter" THEN 1 ELSE 0)
  <2>1. e.letters \in Nat
    BY SoundIs
  <2> QED
    BY <1>5, <1>6, <2>1
<1>12. Served(e, "pageSize", a)
  BY <1>5, <1>6, <1>7, <1>10, <1>11 DEF Served
<1>13. a.consumed /\ a.engine.pageSize = n
  <2>1. a.consumed
    BY <1>10, Zenon
  <2> QED
    BY <1>7, <1>10, <2>1
<1> QED
  BY <1>12, <1>13 DEF a

(* Another option, of an engine whose paging is reset or is not used. *)
LEMMA OptionServed ==
  ASSUME NEW e, Sound(e), NEW command, command # "reset", command # "pageSize",
         NEW g \in Engine, g.rime = e.rime, Tracking(g) = Tracking(e),
         g.kind = e.kind, g.schema = e.schema, g.pageSize = e.pageSize,
         g.kind = "rime" => PagesFollowIn(g)
  PROVE  Served(e, command, Set(g))
<1> DEFINE a == Set(g)
<1>1. Keeps(g) /\ (Input(g) <=> Input(e)) /\ g.letters = e.letters
  BY SoundIs, KeepsSame
<1>2. TRUE \in BOOLEAN /\ 0 \in Nat
  OBVIOUS
<1>3. a \in Answers /\ a.engine = g /\ a.consumed = TRUE
  BY <1>2, AnswerIs, ZenonT(60) DEF Set
<1> HIDE DEF a
<1>4. g.letters <= e.letters + (IF command = "letter" THEN 1 ELSE 0)
  <2>1. e.letters \in Nat
    BY SoundIs
  <2> QED
    BY <1>1, <2>1
<1>5. Served(e, command, a)
  BY <1>1, <1>3, <1>4 DEF Served, Sound
<1> QED
  BY <1>5 DEF a

LEMMA ResetOption ==
  ASSUME NEW e, Sound(e), NEW command, command # "reset", command # "pageSize",
         NEW g \in Engine, g.rime = e.rime, Tracking(g) = Tracking(e),
         g.kind = e.kind, g.schema = e.schema, g.pageSize = e.pageSize
  PROVE  Served(e, command, Set(ResetPaging(g)))
<1> DEFINE f == ResetPaging(g)
<1>1. /\ f \in Engine /\ f.offset = 0 /\ f.stack = <<>> /\ f.rime = g.rime
      /\ Tracking(f) = Tracking(g) /\ Settings(f) = Settings(g)
  BY ResetPagingIs
<1> HIDE DEF f
<1>2. f.kind = g.kind /\ f.schema = g.schema /\ f.pageSize = g.pageSize
  BY <1>1 DEF Settings
<1>3. PagesFollowIn(f)
  BY <1>1, PagesOfNone
<1>4. Served(e, command, Set(f))
  BY <1>1, <1>2, <1>3, OptionServed
<1> QED
  BY <1>4 DEF f

LEMMA WindowServed ==
  ASSUME NEW e, Sound(e), NEW n \in 1 .. MaxWindow
  PROVE  Served(e, "window", Set(SetWindow(e, n)))
<1> DEFINE g == [e EXCEPT !.window = n]
<1>1. Smaller(n, MaxWindow) = n
  BY Limits DEF Smaller
<1>2. e \in Engine
  BY SoundIs
<1>3. /\ g \in Engine /\ g.rime = e.rime /\ Tracking(g) = Tracking(e)
      /\ g.kind = e.kind /\ g.schema = e.schema /\ g.pageSize = e.pageSize
  BY <1>2 DEF Engine, Tracking
<1>4. SetWindow(e, n) = ResetPaging(g)
  BY <1>1 DEF SetWindow
<1> HIDE DEF g
<1> QED
  BY <1>3, <1>4, ResetOption

LEMMA ChineseOnlyServed ==
  ASSUME NEW e, Sound(e), NEW on \in BOOLEAN
  PROVE  /\ Served(e, "chineseOnly", Set(SetChineseOnly(e, on)))
         /\ e.kind = "stub" => Served(e, "chineseOnly", Set([e EXCEPT !.chineseOnly = on]))
<1> DEFINE g == [e EXCEPT !.chineseOnly = on]
<1>1. e \in Engine /\ (e.kind = "rime" => PagesFollowIn(e))
  BY SoundIs DEF Sound
<1>2. /\ g \in Engine /\ g.rime = e.rime /\ Tracking(g) = Tracking(e)
      /\ g.kind = e.kind /\ g.schema = e.schema /\ g.pageSize = e.pageSize
  BY <1>1 DEF Engine, Tracking
<1> HIDE DEF g
<1>3. e.kind = "stub" => Served(e, "chineseOnly", Set(g))
  <2>1. e.kind = "stub" => g.kind # "rime"
    BY <1>2
  <2> QED
    BY <1>2, <2>1, OptionServed
<1>4. Served(e, "chineseOnly", Set(ResetPaging(g)))
  BY <1>2, ResetOption
<1>5. Served(e, "chineseOnly", Set(e))
  BY <1>1, OptionServed
<1>6. SetChineseOnly(e, on) = IF e.chineseOnly = on THEN e ELSE ResetPaging(g)
  BY DEF SetChineseOnly, g
<1>7. Served(e, "chineseOnly", Set(SetChineseOnly(e, on)))
  BY <1>4, <1>5, <1>6
<1> QED
  BY <1>3, <1>7 DEF g

LEMMA TraditionalServed ==
  ASSUME NEW e, Sound(e)
  PROVE  Served(e, "traditional", Set(SetTraditional(e)))
  BY SoundIs, ResetOption DEF SetTraditional

(* A selection. *)
(* What is left of the engine when a candidate has been chosen. *)
LEMMA ChosenIs ==
  ASSUME NEW e, Sound(e), NEW c \in Nat, c <= e.rime.keys
  PROVE  LET g == [e EXCEPT !.rime.chosen = c]
         IN  /\ Keeps(g) /\ Settings(g) = Settings(e) /\ g.letters <= e.letters
             /\ Keeps(Cleared(g)) \/ e.schema.ends # "empty"
             /\ Settings(Cleared(g)) = Settings(e) /\ Cleared(g).letters <= e.letters
             /\ Cleared(ResetPaging(g)) = ResetPaging(Cleared(g))
<1> DEFINE r == [e.rime EXCEPT !.chosen = c]
           g == [e EXCEPT !.rime = r]
           h == Cleared(g)
<1>1. /\ e \in Engine /\ Fits(e) /\ e.rime \in Taken /\ Accounted(e)
      /\ e.rime.keys \in Nat /\ e.prefix \in Nat /\ e.letters \in Nat /\ e.raw \in Seq(Key)
  BY SoundIs, EngineParts
<1>2. /\ r \in Taken /\ r.keys = e.rime.keys /\ r.chosen = c
  BY <1>1 DEF Taken
<1>3. [e EXCEPT !.rime.chosen = c] = g
  OBVIOUS
<1> HIDE DEF r
<1>4. /\ g \in Engine /\ g.rime = r /\ Settings(g) = Settings(e) /\ Tracking(g) = Tracking(e)
  BY <1>1, <1>2, PutRime
<1> HIDE DEF g
<1>5. /\ h \in Engine /\ h.rime = [keys |-> 0, chosen |-> 0]
      /\ Settings(h) = Settings(g) /\ Tracking(h) = Tracking(g)
  BY <1>4, ClearedIs
<1>6. Cleared(ResetPaging(g)) = ResetPaging(h)
  BY <1>4 DEF Cleared, ResetPaging, Engine, h
<1> HIDE DEF h
<1>7. /\ g.raw = e.raw /\ g.letters = e.letters /\ g.prefix = e.prefix
      /\ g.kind = e.kind /\ g.schema = e.schema /\ g.rime.keys = e.rime.keys
      /\ g.rime.chosen = c
      /\ h.raw = e.raw /\ h.letters = e.letters /\ h.prefix = e.prefix
      /\ h.kind = e.kind /\ h.schema = e.schema /\ h.rime.keys = 0 /\ h.rime.chosen = 0
      /\ Settings(h) = Settings(e)
  BY <1>2, <1>4, <1>5 DEF Tracking, Settings
<1>8. Fits(g) /\ Fits(h)
  BY <1>4, <1>5, <1>7 DEF Fits
<1>9. Accounted(g)
  BY <1>1, <1>7 DEF Accounted, Covered, Whole, Commits
<1>10. Accounted(h) \/ e.schema.ends # "empty"
  <2> SUFFICES ASSUME e.schema.ends = "empty", e.kind = "rime", ~e.schema.reopens
               PROVE  Covered(h)
    BY <1>7 DEF Accounted
  <2>1. e.prefix + e.rime.keys <= Len(e.raw) /\ Len(e.raw) \in Nat
    BY <1>1 DEF Accounted, Covered
  <2> QED
    BY <1>1, <1>7, <2>1 DEF Covered
<1>11. Keeps(g) /\ (Keeps(h) \/ e.schema.ends # "empty")
  BY <1>7, <1>8, <1>9, <1>10, SoundIs DEF Keeps
<1>12. g.letters <= e.letters /\ h.letters <= e.letters
  BY <1>1, <1>7
<1> QED
  BY <1>3, <1>4, <1>6, <1>7, <1>11, <1>12 DEF h

LEMMA RimeSelectServed ==
  ASSUME NEW e, Sound(e), NEW n \in Nat
  PROVE  Served(e, "select", RimeSelect(e, n))
<1> DEFINE place == CandidateIndexForVisible(e, n)
           chosen == e.rime.chosen + Candidates(e)[place + 1].keys
<1>1. /\ e \in Engine /\ Fits(e) /\ e.rime \in Taken
      /\ e.rime.keys \in Nat /\ e.rime.chosen \in Nat
      /\ e.prefix \in Nat /\ e.offset \in Nat /\ e.pageSize \in Nat
  BY SoundIs, EngineParts, Limits
<1>2. "select" \notin Options \cup PageKeys /\ "select" # "pageSize" /\ "select" # "reset"
  BY DEF Options, PageKeys
<1>3. CASE AtLimit(e) \/ place < 0
  <2>1. RimeSelect(e, n) = Declined(e)
    BY <1>3 DEF RimeSelect
  <2> QED
    BY <1>2, <2>1, DeclinedServed
<1>4. CASE ~(AtLimit(e) \/ place < 0)
  <2>1. chosen \in Nat
    <3> DEFINE v == VisibleFrom(e, e.offset)
               list == Candidates(e)
    <3>1. /\ Len(list) \in Nat
          /\ \A j \in 1 .. Len(list) : list[j].keys \in Nat \ {0}
      BY <1>1, CandidatesIs
    <3>2. v \in Seq(Nat) /\ \A i \in 1 .. Len(v) : v[i] \in 0 .. Len(list) - 1
      BY <1>1, <3>1, VisibleIs
    <3>3. place = IF n < e.pageSize THEN (IF n < Len(v) THEN v[n + 1] ELSE -1) ELSE -1
      BY DEF CandidateIndexForVisible, NthVisible
    <3>4. ~(place < 0)
      BY <1>4
    <3> HIDE DEF place, v, list
    <3>5. n < Len(v) /\ place = v[n + 1]
      <4>1. CASE ~(n < e.pageSize /\ n < Len(v))
        <5>1. place = -1
          BY <3>3, <4>1
        <5> QED
          BY <3>4, <5>1
      <4> QED
        BY <3>3, <4>1
    <3>6. n + 1 \in 1 .. Len(v)
      BY <3>2, <3>5
    <3>7. place \in 0 .. Len(list) - 1
      BY <3>2, <3>5, <3>6
    <3> DEFINE i == place + 1
    <3>8. i \in 1 .. Len(list)
      BY <3>1, <3>7
    <3> HIDE DEF i
    <3>9. list[i].keys \in Nat
      BY <3>1, <3>8
    <3> QED
      BY <1>1, <3>9 DEF i, list
  <2> HIDE DEF chosen
  <2> DEFINE c == Smaller(chosen, e.rime.keys)
             g == [e EXCEPT !.rime.chosen = c]
             picked == ResetPaging(g)
             m == e.prefix + e.rime.keys
  <2>2. c \in Nat /\ c <= e.rime.keys
    BY <1>1, <2>1 DEF Smaller
  <2>3. Chosen(e, place) = picked
    BY DEF Chosen, chosen
  <2>4. RimeSelect(e, n) = Picked(e, picked)
    BY <1>4, <2>3 DEF RimeSelect
  <2> HIDE DEF c
  <2>5. /\ Keeps(g) /\ Settings(g) = Settings(e) /\ g.letters <= e.letters
        /\ Keeps(Cleared(g)) \/ e.schema.ends # "empty"
        /\ Settings(Cleared(g)) = Settings(e) /\ Cleared(g).letters <= e.letters
        /\ Cleared(picked) = ResetPaging(Cleared(g))
    BY <2>2, ChosenIs
  <2> HIDE DEF g
  <2>6. 0 \in Nat /\ m \in Nat
    BY <1>1
  <2>7. Served(e, "select", Answer(picked, TRUE, 0))
    BY <1>2, <2>5, <2>6, ResetServed
  <2>8. Served(e, "select", Answer(RimeReset(e), TRUE, m))
    <3> HIDE DEF m
    <3> QED
      BY <1>2, <2>6, RimeResetServed
  <2>9. e.schema.ends = "empty" => Served(e, "select", Answer(Cleared(picked), TRUE, 0))
    <3> DEFINE k == Cleared(g)
    <3>1. ASSUME e.schema.ends = "empty"
          PROVE  Served(e, "select", Answer(ResetPaging(k), TRUE, 0))
      <4>1. Keeps(k) /\ Settings(k) = Settings(e) /\ k.letters <= e.letters
        BY <2>5, <3>1
      <4> HIDE DEF k
      <4> QED
        BY <1>2, <2>6, <4>1, ResetServed
    <3> QED
      BY <2>5, <3>1
  <2>10. e.schema.ends \in {"text", "refused", "empty"}
    <3>1. e.schema \in Schema
      BY <1>1, EngineParts
    <3> QED
      BY <3>1 DEF Schema
  <2> HIDE DEF picked
  <2>11. \/ Picked(e, picked) = Answer(picked, TRUE, 0)
         \/ Picked(e, picked) = Answer(RimeReset(e), TRUE, m)
         \/ /\ Picked(e, picked) = Answer(Cleared(picked), TRUE, 0)
            /\ e.schema.ends = "empty"
    <3>1. CASE Candidates(picked) # <<>>
      BY <3>1 DEF Picked
    <3>2. CASE Candidates(picked) = <<>>
      <4>1. Picked(e, picked) = Completed(e, picked)
        BY <3>2 DEF Picked
      <4> QED
        BY <2>10, <4>1 DEF Completed
    <3> QED
      BY <3>1, <3>2
  <2> QED
    BY <2>4, <2>7, <2>8, <2>9, <2>11
<1> QED
  BY <1>3, <1>4

-----------------------------------------------------------------------------
(* The stub engine.                                                        *)
LEMMA StubServed ==
  ASSUME NEW e, Sound(e), e.kind = "stub", NEW command, command \notin Options \cup PageKeys,
         NEW g \in Engine, Keeps(g), Settings(g) = Settings(e),
         g.letters <= e.letters + (IF command = "letter" THEN 1 ELSE 0),
         command = "reset" => ~Input(g), NEW n \in Nat
  PROVE  Served(e, command, Answer(g, TRUE, n))
<1> DEFINE a == Answer(g, TRUE, n)
<1>1. g.kind = e.kind /\ g.pageSize = e.pageSize
  BY DEF Settings
<1>2. TRUE \in BOOLEAN
  OBVIOUS
<1>3. a \in Answers /\ a.engine = g /\ a.consumed = TRUE
  BY <1>2, AnswerIs
<1> HIDE DEF a
<1>4. Sound(g)
  BY <1>1 DEF Sound
<1>5. Served(e, command, a)
  BY <1>1, <1>3, <1>4 DEF Served
<1> QED
  BY <1>5 DEF a

LEMMA StubKeyServed ==
  ASSUME NEW e, Sound(e), e.kind = "stub", NEW key \in Key
  PROVE  Served(e, key, StubKey(e, key))
<1>1. /\ e \in Engine /\ Fits(e) /\ Keeps(e) /\ e.raw \in Seq(Key) /\ e.letters \in Nat
      /\ e.letters <= MaxLetters /\ MaxLetters \in Nat /\ e.letters = LettersIn(e.raw)
      /\ Apart(e.raw)
  BY SoundIs, Limits
<1>2. key \notin Options \cup PageKeys /\ key # "reset" /\ 0 \in Nat
  BY DEF Options, PageKeys, Key
<1>3. CASE key = "letter" /\ AtLimit(e)
  <2>1. StubKey(e, key) = Answer(e, TRUE, 0)
    BY <1>3 DEF StubKey
  <2>2. e.letters <= e.letters + (IF key = "letter" THEN 1 ELSE 0)
    BY <1>1
  <2> QED
    BY <1>1, <1>2, <2>1, <2>2, StubServed
<1>4. CASE key = "separator" /\ (e.raw = <<>> \/ Last(e.raw) = "separator")
  <2>1. StubKey(e, key) = Declined(e)
    BY <1>4 DEF StubKey
  <2> QED
    BY <1>2, <2>1, DeclinedServed
<1>5. CASE /\ ~(key = "letter" /\ AtLimit(e))
           /\ ~(key = "separator" /\ (e.raw = <<>> \/ Last(e.raw) = "separator"))
  <2> DEFINE raw == Append(e.raw, key)
             letters == LettersIn(raw)
             g == [e EXCEPT !.raw = raw, !.letters = letters]
  <2>1. raw \in Seq(Key) /\ letters \in Nat
    <3>1. raw \in Seq(Key)
      BY <1>1
    <3> HIDE DEF raw
    <3> QED
      BY <3>1, LettersFinite
  <2>2. letters = e.letters + (IF key = "letter" THEN 1 ELSE 0)
    BY <1>1, LettersAppend
  <2>3. letters <= MaxLetters
    <3>1. CASE key = "letter"
      <4>1. e.letters < MaxLetters
        BY <1>1, <1>5, <3>1 DEF AtLimit
      <4>2. letters = e.letters + 1
        BY <2>2, <3>1
      <4> HIDE DEF letters
      <4> QED
        BY <1>1, <4>1, <4>2
    <3>2. CASE key # "letter"
      <4>1. letters = e.letters + 0
        BY <2>2, <3>2
      <4> HIDE DEF letters
      <4> QED
        BY <1>1, <4>1
    <3> QED
      BY <3>1, <3>2
  <2>4. Apart(raw)
    <3>1. key = "separator" => ~Ended(e.raw)
      BY <1>5 DEF Ended
    <3> QED
      BY <1>1, <3>1, ApartAppend
  <2>5. /\ g \in Engine /\ g.raw = raw /\ g.letters = letters /\ g.rime = e.rime
        /\ Settings(g) = Settings(e)
    <3> HIDE DEF raw, letters
    <3> QED
      BY <1>1, <2>1 DEF Engine, Key, Settings
  <2>6. g.letters = LettersIn(g.raw)
    BY <2>5
  <2>10. StubKey(e, key) = Answer(g, TRUE, 0)
    <3>1. g = [e EXCEPT !.raw = Append(@, key), !.letters = LettersIn(Append(e.raw, key))]
      OBVIOUS
    <3> HIDE DEF g
    <3> QED
      BY <1>5, <3>1, Zenon DEF StubKey
  <2> HIDE DEF g, letters, raw
  <2>7. g.kind = "stub"
    BY <2>5 DEF Settings
  <2>8. Keeps(g)
    <3>1. Fits(g)
      BY <1>1, <2>5 DEF Fits
    <3>2. Accounted(g)
      BY <2>7 DEF Accounted
    <3> QED
      BY <2>3, <2>4, <2>5, <2>6, <3>1, <3>2 DEF Keeps
  <2>9. g.letters <= e.letters + (IF key = "letter" THEN 1 ELSE 0)
    <3>1. g.letters \in Nat /\ g.letters = e.letters + (IF key = "letter" THEN 1 ELSE 0)
      BY <2>1, <2>2, <2>5
    <3> QED
      BY <3>1
  <2> QED
    BY <1>2, <2>5, <2>8, <2>9, <2>10, StubServed
<1> QED
  BY <1>3, <1>4, <1>5

LEMMA StubBackspaceServed ==
  ASSUME NEW e, Sound(e), e.kind = "stub"
  PROVE  Served(e, "backspace", StubBackspace(e))
<1>1. CASE e.raw = <<>>
  <2>1. StubBackspace(e) = Declined(e)
    BY <1>1 DEF StubBackspace
  <2> QED
    BY <2>1, DeclinedServed
<1>2. CASE e.raw # <<>>
  <2> DEFINE raw == Front(e.raw)
             letters == IF Last(e.raw) = "letter" THEN e.letters - 1 ELSE e.letters
             g == [e EXCEPT !.raw = raw, !.letters = letters]
  <2>1. /\ e \in Engine /\ Fits(e) /\ e.raw \in Seq(Key) /\ e.letters \in Nat
        /\ e.letters <= MaxLetters /\ MaxLetters \in Nat /\ e.letters = LettersIn(e.raw)
        /\ Apart(e.raw)
    BY SoundIs, Limits
  <2>2. /\ raw \in Seq(Key) /\ Len(raw) = Len(e.raw) - 1 /\ Len(e.raw) \in Nat \ {0}
        /\ raw = SubSeq(e.raw, 1, Len(e.raw) - 1)
    BY <1>2, <2>1, FrontLast
  <2>3. \A i \in 1 .. Len(e.raw) - 1 : SubSeq(e.raw, 1, Len(e.raw) - 1)[i] = e.raw[i]
    BY <2>1, <2>2
  <2>4. \A i \in 1 .. Len(raw) : raw[i] = e.raw[i]
    BY <2>2, <2>3
  <2>5. LettersIn(e.raw) = LettersIn(raw) + (IF Last(e.raw) = "letter" THEN 1 ELSE 0)
    BY <1>2, <2>1, LettersFront
  <2>14. StubBackspace(e) = Answer(g, TRUE, 0)
    <3>1. WithoutLastKey(e) = [e EXCEPT !.letters = letters, !.raw = raw]
      BY DEF WithoutLastKey
    <3> HIDE DEF raw, letters
    <3>2. [e EXCEPT !.letters = letters, !.raw = raw] = g
      BY <2>1 DEF Engine
    <3> QED
      BY <1>2, <3>1, <3>2 DEF StubBackspace
  <2>15. /\ Last(e.raw) = "letter" => letters = e.letters - 1
         /\ Last(e.raw) # "letter" => letters = e.letters
    OBVIOUS
  <2> HIDE DEF raw, letters
  <2>6. Apart(raw)
    <3>1. Len(raw) <= Len(e.raw)
      BY <2>2
    <3> QED
      BY <2>1, <2>2, <2>4, <3>1, Within
  <2>7. LettersIn(raw) \in Nat
    BY <2>2, LettersFinite
  <2>8. /\ letters \in Nat /\ letters = LettersIn(raw)
        /\ letters <= e.letters /\ letters <= MaxLetters
    <3>1. CASE Last(e.raw) = "letter"
      <4>1. e.letters = LettersIn(raw) + 1 /\ letters = e.letters - 1
        BY <2>1, <2>5, <2>15, <3>1
      <4> QED
        BY <2>1, <2>7, <4>1
    <3>2. CASE Last(e.raw) # "letter"
      <4>1. e.letters = LettersIn(raw) + 0 /\ letters = e.letters
        BY <2>1, <2>5, <2>15, <3>2
      <4> QED
        BY <2>1, <2>7, <4>1
    <3> QED
      BY <3>1, <3>2
  <2>9. /\ g \in Engine /\ g.raw = raw /\ g.letters = letters /\ g.rime = e.rime
        /\ Settings(g) = Settings(e)
    BY <2>1, <2>2, <2>8 DEF Engine, Key, Settings
  <2> HIDE DEF g
  <2>10. g.kind = "stub"
    BY <2>9 DEF Settings
  <2>11. Keeps(g)
    <3>1. Fits(g)
      BY <2>1, <2>9 DEF Fits
    <3>2. Accounted(g)
      BY <2>10 DEF Accounted
    <3> QED
      BY <2>6, <2>8, <2>9, <3>1, <3>2 DEF Keeps
  <2>12. g.letters <= e.letters + (IF "backspace" = "letter" THEN 1 ELSE 0)
    BY <2>1, <2>8, <2>9
  <2>13. "backspace" \notin Options \cup PageKeys /\ 0 \in Nat
    BY DEF Options, PageKeys
  <2> QED
    BY <2>9, <2>11, <2>12, <2>13, <2>14, StubServed
<1> QED
  BY <1>1, <1>2

LEMMA StubClearServed ==
  ASSUME NEW e, Sound(e), e.kind = "stub", NEW command, command \notin Options \cup PageKeys,
         NEW n \in Nat
  PROVE  Served(e, command, Answer(ClearTrackedInput(e), TRUE, n))
<1> DEFINE g == ClearTrackedInput(e)
<1>1. e \in Engine /\ Fits(e) /\ e.letters \in Nat
  BY SoundIs
<1>2. /\ g \in Engine /\ g.raw = <<>> /\ g.letters = 0 /\ g.prefix = 0 /\ g.prefixed = FALSE
      /\ g.rime = e.rime /\ Settings(g) = Settings(e)
  BY <1>1, ClearTrackedInputIs
<1> HIDE DEF g
<1>3. g.kind = "stub"
  BY <1>2 DEF Settings
<1>4. Fits(g)
  BY <1>1, <1>2 DEF Fits
<1>5. Apart(g.raw)
  <2>1. 1 .. 0 - 1 = {} /\ Len(<<>>) = 0
    OBVIOUS
  <2> QED
    BY <1>2, <2>1 DEF Apart
<1>6. LettersIn(g.raw) = 0 /\ 0 <= MaxLetters
  BY <1>2, LettersEmpty, Limits
<1>7. Keeps(g)
  BY <1>2, <1>3, <1>4, <1>5, <1>6 DEF Keeps, Accounted
<1>8. ~Input(g)
  BY <1>2, <1>3 DEF Input
<1>9. g.letters <= e.letters + (IF command = "letter" THEN 1 ELSE 0)
  BY <1>1, <1>2
<1>10. Served(e, command, Answer(g, TRUE, n))
  BY <1>2, <1>7, <1>8, <1>9, StubServed
<1> QED
  BY <1>10 DEF g

LEMMA StubSelectServed ==
  ASSUME NEW e, Sound(e), e.kind = "stub", NEW n \in Nat
  PROVE  Served(e, "select", StubSelect(e, n))
<1>1. "select" \notin Options \cup PageKeys /\ "select" # "reset"
  BY DEF Options, PageKeys
<1>2. CASE n >= StubPlaces(e)
  <2>1. StubSelect(e, n) = Declined(e)
    BY <1>2 DEF StubSelect
  <2> QED
    BY <1>1, <2>1, DeclinedServed
<1>3. CASE ~(n >= StubPlaces(e))
  <2> DEFINE m == Len(e.raw)
  <2>1. m \in Nat
    <3>1. e.raw \in Seq(Key)
      BY SoundIs
    <3> QED
      BY <3>1
  <2>2. StubSelect(e, n) = Answer(ClearTrackedInput(e), TRUE, m)
    BY <1>3 DEF StubSelect
  <2> HIDE DEF m
  <2> QED
    BY <1>1, <2>1, <2>2, StubClearServed
<1> QED
  BY <1>2, <1>3

-----------------------------------------------------------------------------
(* SessionHost::Handle.                                                    *)
Commands == {"reset", "letter", "separator", "backspace", "pageUp", "pageDown", "select"}
              \cup Options

Fitting(command, value) ==
  /\ command \in Commands
  /\ command = "select" => value \in Nat
  /\ command = "pageSize" => value \in 1 .. MaxPageSize
  /\ command = "window" => value \in 1 .. MaxWindow
  /\ command = "chineseOnly" => value \in BOOLEAN

LEMMA RimeHandleServed ==
  ASSUME NEW e, Sound(e), e.kind = "rime", NEW command, NEW value, Fitting(command, value)
  PROVE  /\ Served(e, command, RimeHandle(e, command, value))
         /\ command = "pageSize" => RimeHandle(e, command, value).engine.pageSize = value
<1>1. CASE command = "reset"
  <2>1. "reset" \notin Options \cup PageKeys /\ 0 \in Nat
    BY DEF Options, PageKeys
  <2>2. RimeHandle(e, command, value) = Answer(RimeReset(e), TRUE, 0)
    BY <1>1 DEF RimeHandle, Set
  <2> QED
    BY <1>1, <2>1, <2>2, RimeResetServed
<1>2. CASE command = "letter"
  BY <1>2, RimeLetterServed DEF RimeHandle
<1>3. CASE command = "separator"
  BY <1>3, RimeSeparatorServed DEF RimeHandle
<1>4. CASE command = "backspace"
  BY <1>4, RimeBackspaceServed DEF RimeHandle
<1>5. CASE command = "pageUp"
  BY <1>5, RimePageUpServed DEF RimeHandle
<1>6. CASE command = "pageDown"
  BY <1>6, RimePageDownServed DEF RimeHandle
<1>7. CASE command = "select"
  <2>1. value \in Nat
    BY <1>7 DEF Fitting
  <2> QED
    BY <1>7, <2>1, RimeSelectServed DEF RimeHandle
<1>8. CASE command = "pageSize"
  <2>1. value \in 1 .. MaxPageSize
    BY <1>8 DEF Fitting
  <2> DEFINE a == Set(SetPageSize(e, value))
  <2>2. Served(e, "pageSize", a) /\ a.engine.pageSize = value
    BY <2>1, PutPageSize
  <2>3. RimeHandle(e, command, value) = a
    BY <1>8 DEF RimeHandle
  <2> HIDE DEF a
  <2> QED
    BY <1>8, <2>2, <2>3
<1>9. CASE command = "window"
  <2>1. value \in 1 .. MaxWindow
    BY <1>9 DEF Fitting
  <2> QED
    BY <1>9, <2>1, WindowServed DEF RimeHandle
<1>10. CASE command = "chineseOnly"
  <2>1. value \in BOOLEAN
    BY <1>10 DEF Fitting
  <2> QED
    BY <1>10, <2>1, ChineseOnlyServed DEF RimeHandle
<1>11. CASE command = "traditional"
  BY <1>11, TraditionalServed DEF RimeHandle
<1>12. command \in Commands
  BY DEF Fitting
<1> QED
  BY <1>1, <1>2, <1>3, <1>4, <1>5, <1>6, <1>7, <1>8, <1>9, <1>10, <1>11, <1>12
     DEF Commands, Options

LEMMA StubHandleServed ==
  ASSUME NEW e, Sound(e), e.kind = "stub", NEW command, NEW value, Fitting(command, value)
  PROVE  Served(e, command, StubHandle(e, command, value))
<1>1. CASE command = "reset"
  <2>1. "reset" \notin Options \cup PageKeys /\ 0 \in Nat
    BY DEF Options, PageKeys
  <2>2. StubHandle(e, command, value) = Answer(ClearTrackedInput(e), TRUE, 0)
    BY <1>1 DEF StubHandle, Set
  <2> QED
    BY <1>1, <2>1, <2>2, StubClearServed
<1>2. CASE command \in {"letter", "separator"}
  <2>1. command \in Key
    BY <1>2 DEF Key
  <2>2. StubHandle(e, command, value) = StubKey(e, command)
    BY <1>2 DEF StubHandle
  <2> QED
    BY <2>1, <2>2, StubKeyServed
<1>3. CASE command = "backspace"
  BY <1>3, StubBackspaceServed DEF StubHandle
<1>4. CASE command \in {"pageUp", "pageDown"}
  <2>1. StubHandle(e, command, value) = Declined(e)
    BY <1>4 DEF StubHandle
  <2> QED
    BY <1>4, <2>1, DeclinedServed
<1>5. CASE command = "select"
  <2>1. value \in Nat
    BY <1>5 DEF Fitting
  <2> QED
    BY <1>5, <2>1, StubSelectServed DEF StubHandle
<1>6. CASE command \in {"window", "traditional"}
  <2>1. StubHandle(e, command, value) = Set(e)
    BY <1>6 DEF StubHandle
  <2>2. /\ e \in Engine /\ (e.kind = "rime" => PagesFollowIn(e))
        /\ command # "reset" /\ command # "pageSize"
    BY <1>6, SoundIs
  <2>3. Served(e, command, Set(e))
    BY <2>2, OptionServed
  <2> QED
    BY <2>1, <2>3
<1>7. CASE command = "pageSize"
  <2>1. StubHandle(e, command, value) = Set(e)
    BY <1>7 DEF StubHandle
  <2>2. TRUE \in BOOLEAN /\ 0 \in Nat /\ e \in Engine /\ e.letters \in Nat
    BY SoundIs
  <2> DEFINE a == Set(e)
  <2>3. a \in Answers /\ a.engine = e /\ a.consumed = TRUE
    BY <2>2, AnswerIs DEF Set
  <2> HIDE DEF a
  <2>4. a.engine.letters <= e.letters + (IF command = "letter" THEN 1 ELSE 0)
    BY <2>2, <2>3
  <2>5. Served(e, command, a)
    BY <1>7, <2>3, <2>4 DEF Served
  <2> QED
    BY <2>1, <2>5 DEF a
<1>8. CASE command = "chineseOnly"
  <2>1. value \in BOOLEAN
    BY <1>8 DEF Fitting
  <2>2. StubHandle(e, command, value) = Set([e EXCEPT !.chineseOnly = value])
    BY <1>8 DEF StubHandle
  <2> QED
    BY <1>8, <2>1, <2>2, ChineseOnlyServed
<1>9. command \in Commands
  BY DEF Fitting
<1> QED
  BY <1>1, <1>2, <1>3, <1>4, <1>5, <1>6, <1>7, <1>8, <1>9 DEF Commands, Options

(* Every answer SessionHost::Handle gives for a sound engine is a sound    *)
(* engine.  A call that does not consume its key leaves the engine as it   *)
(* was, no call but a letter adds one, neither a page key nor a setting    *)
(* begins or ends a composition, and kReset ends it.                       *)
THEOREM HandleServed ==
  ASSUME NEW e, Sound(e), NEW command, NEW value, Fitting(command, value)
  PROVE  /\ Served(e, command, Handle(e, command, value))
         /\ command = "pageSize" /\ e.kind = "rime" =>
              Handle(e, command, value).engine.pageSize = value
<1>1. InRange(command, value)
  BY DEF InRange, Fitting
<1>2. CASE e.kind = "rime"
  <2>1. Handle(e, command, value) = RimeHandle(e, command, value)
    BY <1>1, <1>2 DEF Handle
  <2> QED
    BY <1>2, <2>1, RimeHandleServed
<1>3. CASE e.kind = "stub"
  <2>1. Handle(e, command, value) = StubHandle(e, command, value)
    BY <1>1, <1>3 DEF Handle
  <2> QED
    BY <1>3, <2>1, StubHandleServed
<1> QED
  BY <1>2, <1>3, SoundIs

-----------------------------------------------------------------------------
(* Three counts of one list: the window's pages, the text service's and    *)
(* the engine's.                                                           *)
LEMMA Times ==
  ASSUME NEW a \in Nat, NEW b \in Nat, NEW p \in Nat, a <= b
  PROVE  a * p <= b * p /\ a * p \in Nat
<1>1. PICK c \in Nat : b = a + c
  <2>1. b - a \in Nat /\ b = a + (b - a)
    OBVIOUS
  <2> QED
    BY <2>1
<1>2. b * p = a * p + c * p
  BY <1>1
<1>3. c * p \in Nat /\ a * p \in Nat
  BY <1>1
<1> QED
  BY <1>2, <1>3

LEMMA PageOf ==
  ASSUME NEW a \in Nat, NEW p \in Nat \ {0}, NEW m \in Nat, a * p <= m
  PROVE  /\ (m \div p) * p \in Nat /\ (m \div p) * p >= a * p
         /\ ((a * p) \div p) * p = a * p
<1>1. m \div p \in Nat /\ m < (m \div p) * p + p
  OBVIOUS
<1>2. m \div p >= a
  <2> SUFFICES ASSUME m \div p < a PROVE FALSE
    BY <1>1
  <2> DEFINE q == m \div p
  <2>1. q \in Nat /\ q + 1 <= a /\ m < q * p + p
    BY <1>1
  <2> HIDE DEF q
  <2>2. (q + 1) * p <= a * p
    BY <2>1, Times
  <2>3. (q + 1) * p = q * p + p /\ q * p \in Nat
    BY <2>1
  <2>4. a * p \in Nat
    OBVIOUS
  <2> QED
    BY <2>1, <2>2, <2>3, <2>4
<1>3. (m \div p) * p >= a * p /\ (m \div p) * p \in Nat
  BY <1>1, <1>2, Times
<1>4. (a * p) \div p = a
  OBVIOUS
<1> QED
  BY <1>3, <1>4

(* The pages from the window's first to the page in use. *)
LEMMA Ahead ==
  ASSUME NEW e, Fits(e), PagesFollowIn(e)
  PROVE  LET V == VisibleFrom(e, WindowStart(e))
             W == VisibleFrom(e, e.offset)
             d == ActivePage(e) * e.pageSize
         IN  /\ Len(W) = Len(V) - d /\ \A i \in 1 .. Len(W) : W[i] = V[d + i]
             /\ ActivePage(e) = 0 \/ d < Len(V)
<1> DEFINE pages == Append(e.stack, e.offset)
           L == Len(e.stack)
           A == ActivePage(e)
           P == e.pageSize
           V == VisibleFrom(e, WindowStart(e))
           q(j) == pages[L - A + 1 + j]
           U(j) == VisibleFrom(e, q(j))
           H == {j \in 0 .. A : /\ Len(U(j)) = Len(V) - j * P
                                /\ \A i \in 1 .. Len(U(j)) : U(j)[i] = V[j * P + i]
                                /\ j = 0 \/ j * P < Len(V)}
<1>1. /\ e \in Engine /\ e.stack \in Seq(Nat) /\ e.offset \in Nat /\ P \in Nat \ {0}
      /\ Len(Candidates(e)) \in Nat /\ WindowStart(e) \in Nat
  BY EngineParts, Limits, CandidatesIs, WindowStartIs DEF Fits
<1>2. L \in Nat /\ A \in Nat /\ A <= L
  BY <1>1, WindowStartIs, EngineParts
<1>3. /\ pages \in Seq(Nat) /\ Len(pages) = L + 1 /\ pages[L + 1] = e.offset
      /\ \A i \in 1 .. L : pages[i] = e.stack[i]
  BY <1>1
<1>4. \A i \in 1 .. L : pages[i + 1] = NextOffset(e, pages[i])
  BY DEF PagesFollowIn
<1>5. q(0) = WindowStart(e) /\ q(A) = e.offset
  <2>1. q(A) = e.offset
    <3>1. L - A + 1 + A = L + 1
      BY <1>2
    <3> QED
      BY <1>3, <3>1
  <2>2. CASE A = 0
    BY <2>1, <2>2 DEF WindowStart
  <2>3. CASE A # 0
    <3>1. L - A + 1 \in 1 .. L /\ L - A + 1 + 0 = L - A + 1
      BY <1>2, <2>3
    <3>2. WindowStart(e) = e.stack[L - A + 1]
      BY <2>3 DEF WindowStart
    <3> QED
      BY <1>3, <2>1, <3>1, <3>2
  <2> QED
    BY <2>2, <2>3
<1>6. \A j \in 0 .. A : q(j) \in Nat
  <2> SUFFICES ASSUME NEW j \in 0 .. A PROVE q(j) \in Nat
    OBVIOUS
  <2>1. L - A + 1 + j \in 1 .. L + 1
    BY <1>2
  <2> HIDE DEF pages
  <2> QED
    BY <1>3, <2>1
<1> HIDE DEF pages, L, A, P
<1>12. /\ \A i \in 0 .. A : i \in H <=>
            /\ Len(U(i)) = Len(V) - i * P
            /\ \A m \in 1 .. Len(U(i)) : U(i)[m] = V[i * P + m]
            /\ i = 0 \/ i * P < Len(V)
  OBVIOUS
<1>7. V \in Seq(Nat) /\ Len(V) \in Nat /\ \A j \in 0 .. A : U(j) \in Seq(Nat) /\ Len(U(j)) \in Nat
  BY <1>1, <1>6, VisibleIs
<1> HIDE DEF V, H
<1>8. 0 \in H
  <2>1. 0 \in 0 .. A /\ U(0) = V /\ 0 * P = 0
    BY <1>1, <1>2, <1>5 DEF V
  <2> QED
    BY <1>7, <1>12, <2>1
<1>9. ASSUME NEW j \in 1 .. A, j - 1 \in H PROVE j \in H
  <2> DEFINE k == j - 1
             B == U(k)
             C == U(j)
  <2>1. k \in Nat /\ k \in 0 .. A /\ j \in 0 .. A /\ L - A + 1 + k \in 1 .. L
        /\ L - A + 1 + k + 1 = L - A + 1 + j
    BY <1>2
  <2>2. q(j) = NextOffset(e, q(k)) /\ q(j) \in Nat /\ q(k) \in Nat
    BY <1>4, <1>6, <2>1
  <2>3. /\ Len(B) = Len(V) - k * P /\ \A i \in 1 .. Len(B) : B[i] = V[k * P + i]
    BY <1>9, <1>12, <2>1
  <2> DEFINE a == q(k)
             b == q(j)
  <2>4. B = VisibleFrom(e, a) /\ C = VisibleFrom(e, b)
    OBVIOUS
  <2>5. B \in Seq(Nat) /\ C \in Seq(Nat) /\ Len(B) \in Nat /\ Len(C) \in Nat
    BY <1>7, <2>1
  <2>6. b = NextOffset(e, a) /\ a \in Nat /\ b \in Nat
    BY <2>2
  <2>14. B = U(k) /\ C = U(j)
    OBVIOUS
  <2> HIDE DEF a, b, q, k, B, C
  <2>7. P < Len(B) /\ b = B[P + 1]
    BY <1>1, <2>4, <2>6 DEF NextOffset, NthVisible, P
  <2>8. Len(C) = Len(B) - P /\ \A i \in 1 .. Len(C) : C[i] = B[P + i]
    <3>1. P \in Nat /\ P < Len(VisibleFrom(e, a)) /\ b = VisibleFrom(e, a)[P + 1]
      BY <1>1, <2>4, <2>7
    <3>2. /\ Len(VisibleFrom(e, b)) = Len(VisibleFrom(e, a)) - P
          /\ \A i \in 1 .. Len(VisibleFrom(e, b)) :
               VisibleFrom(e, b)[i] = VisibleFrom(e, a)[P + i]
      BY <1>1, <2>6, <3>1, Follow
    <3> QED
      BY <2>4, <3>2
  <2>9. k * P \in Nat /\ k * P + P = j * P
    <3>1. k = j - 1
      BY DEF k
    <3> QED
      BY <1>1, <2>1, <3>1
  <2> DEFINE v == k * P
             w == j * P
  <2>15. v \in Nat /\ w \in Nat /\ v + P = w /\ Len(B) = Len(V) - v
    BY <1>1, <2>3, <2>9
  <2> HIDE DEF v, w
  <2>10. Len(C) = Len(V) - w
    <3> DEFINE lb == Len(B)
               lc == Len(C)
               lv == Len(V)
    <3>1. lb \in Nat /\ lc \in Nat /\ lv \in Nat /\ lc = lb - P /\ P \in Nat /\ lb = lv - v
      BY <1>1, <1>7, <2>5, <2>8, <2>15
    <3> HIDE DEF lb, lc, lv
    <3>2. lc = lv - w
      BY <2>15, <3>1
    <3> QED
      BY <3>2 DEF lc, lv
  <2>11. w < Len(V)
    BY <1>1, <1>7, <2>5, <2>7, <2>15
  <2>12. ASSUME NEW i \in 1 .. Len(C) PROVE C[i] = V[j * P + i]
    <3>1. P + i \in 1 .. Len(B) /\ i \in Nat
      BY <1>1, <2>5, <2>8, SMTT(30)
    <3>2. C[i] = V[k * P + (P + i)]
      BY <2>3, <2>8, <3>1
    <3>3. v + (P + i) = w + i
      BY <1>1, <2>15, <3>1
    <3> QED
      BY <3>2, <3>3 DEF v, w
  <2> QED
    BY <1>12, <2>1, <2>10, <2>11, <2>12, <2>14 DEF w
<1>10. \A j \in 0 .. A : j \in H
  <2> HIDE DEF H
  <2> QED
    BY <1>2, <1>8, <1>9, Induction
<1>11. A \in H /\ U(A) = VisibleFrom(e, e.offset)
  BY <1>2, <1>5, <1>10
<1>13. A \in 0 .. A
  BY <1>2
<1> QED
  BY <1>11, <1>12, <1>13 DEF A, P, V

(* A snapshot marks the first candidate of the page in use, and for a      *)
(* number the engine takes the candidate that many places after it.        *)
THEOREM RimePlaced ==
  ASSUME NEW e, Fits(e), PagesFollowIn(e), Shown(e) # <<>>
  PROVE  LET n == Len(Shown(e))
             d == ActivePage(e) * e.pageSize
         IN  /\ d < n /\ Mark(e) = d
             /\ \A i \in 0 .. Smaller(e.pageSize, n - d) - 1 :
                  CandidateIndexForVisible(e, i) = Shown(e)[d + i + 1]
<1> DEFINE A == ActivePage(e)
           P == e.pageSize
           V == VisibleFrom(e, WindowStart(e))
           W == VisibleFrom(e, e.offset)
           n == Len(Shown(e))
           d == A * P
<1>1. /\ e \in Engine /\ P \in Nat \ {0} /\ e.window \in Nat \ {0} /\ A \in 0 .. e.window - 1
      /\ WindowStart(e) \in Nat /\ e.offset \in Nat /\ Len(Candidates(e)) \in Nat
  BY EngineParts, Limits, WindowStartIs, CandidatesIs DEF Fits
<1>2. V \in Seq(Nat) /\ W \in Seq(Nat) /\ Len(V) \in Nat /\ Len(W) \in Nat
  BY <1>1, VisibleIs
<1>3. /\ Len(W) = Len(V) - d /\ \A i \in 1 .. Len(W) : W[i] = V[d + i]
      /\ A = 0 \/ d < Len(V)
  BY Ahead
<1>4. /\ Shown(e) \in Seq(Nat) /\ n = Smaller(Len(V), P * e.window)
      /\ \A i \in 1 .. n : Shown(e)[i] = V[i]
  BY ShownIs
<1>5. n \in Nat \ {0}
  BY <1>4
<1>6. Mark(e) = Smaller(d, n - 1)
  BY DEF Mark
<1>7. CandidateIndexForVisible(e, 0) = CandidateIndexForVisible(e, 0) /\ \A i :
        CandidateIndexForVisible(e, i) = IF i < P THEN IF i < Len(W) THEN W[i + 1] ELSE -1 ELSE -1
  BY DEF CandidateIndexForVisible, NthVisible
<1> HIDE DEF A, P, V, W, n
<1>8. d \in Nat /\ d + P <= P * e.window
  <2>1. A \in Nat /\ A + 1 \in Nat /\ A + 1 <= e.window
    BY <1>1
  <2>2. (A + 1) * P <= e.window * P
    BY <1>1, <2>1, Times
  <2>3. (A + 1) * P = d + P /\ e.window * P = P * e.window /\ d \in Nat
    BY <1>1, <2>1
  <2> QED
    BY <2>2, <2>3
<1>14. P * e.window \in Nat
  BY <1>1
<1> DEFINE w == P * e.window
<1> HIDE DEF w
<1>9. d < n
  <2>1. A = 0 => d = 0
    BY <1>1
  <2>2. n = Len(V) \/ n = w
    BY <1>4 DEF Smaller, w
  <2>3. w \in Nat /\ d + P <= w
    BY <1>8, <1>14 DEF w
  <2> HIDE DEF d
  <2> QED
    BY <1>1, <1>2, <1>3, <1>5, <1>8, <2>1, <2>2, <2>3, SMTT(30)
<1>10. n <= Len(V)
  <2>1. w \in Nat
    BY <1>14 DEF w
  <2> QED
    BY <1>2, <1>4, <2>1 DEF Smaller, w
<1> HIDE DEF d
<1>11. Mark(e) = d
  BY <1>5, <1>6, <1>8, <1>9 DEF Smaller
<1>12. ASSUME NEW i \in 0 .. Smaller(P, n - d) - 1
       PROVE  CandidateIndexForVisible(e, i) = Shown(e)[d + i + 1]
  <2>1. i \in Nat /\ i < P /\ i < n - d
    BY <1>1, <1>5, <1>8, <1>9 DEF Smaller
  <2>2. Len(W) >= n - d
    BY <1>2, <1>3, <1>5, <1>8, <1>10
  <2>3. i < Len(W) /\ i + 1 \in 1 .. Len(W)
    BY <1>2, <1>5, <1>8, <2>1, <2>2
  <2>4. d + i + 1 \in 1 .. n /\ d + (i + 1) = d + i + 1
    BY <1>5, <1>8, <2>1
  <2> QED
    BY <1>3, <1>4, <1>7, <2>1, <2>3, <2>4
<1> QED
  BY <1>9, <1>11, <1>12 DEF d, A, P, n
=============================================================================
