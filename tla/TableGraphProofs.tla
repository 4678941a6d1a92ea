-------------------------- MODULE TableGraphProofs --------------------------
(* Lemmas about reachability and shortest walks, for any set of nodes and  *)
(* any set of edges, and induction over the naturals without an operator   *)
(* parameter.                                                              *)
EXTENDS TableGraph, WellFoundedInduction, FiniteSetTheorems, TLAPS

(* A set of naturals that is not empty has a least member.                  *)
LEMMA Least ==
  ASSUME NEW T, T \subseteq Nat, T # {}
  PROVE  \E x \in T : \A y \in T : x <= y
<1> DEFINE R == OpToRel(<, Nat)
<1>1. IsWellFoundedOn(R, Nat)
  BY NatLessThanWellFounded
<1>2. \A x, y \in Nat : x < y => <<x, y>> \in R
  BY DEF OpToRel
<1>3. PICK x \in T : \A y \in T : ~(<<y, x>> \in R)
  BY <1>1, WFMin
<1> HIDE DEF R
<1>4. ASSUME NEW y \in T PROVE x <= y
  <2>1. x \in Nat /\ y \in Nat
    OBVIOUS
  <2>2. ~(y < x)
    BY <1>2, <1>3, <2>1
  <2> QED BY <2>1, <2>2
<1> QED BY <1>4

(* So a set that has 0 and with each number the next has them all.          *)
LEMMA AllNaturals ==
  ASSUME NEW S, 0 \in S, \A n \in Nat : n \in S => n + 1 \in S
  PROVE  Nat \subseteq S
<1>1. SUFFICES ASSUME Nat \ S # {} PROVE FALSE
  OBVIOUS
<1>2. PICK x \in Nat \ S : \A y \in Nat \ S : x <= y
  BY <1>1, Least
<1>3. x - 1 \in Nat /\ x - 1 \in S
  BY <1>2
<1> QED BY <1>2, <1>3

-----------------------------------------------------------------------------
(* A node reaches itself. *)
LEMMA ReachesSelf ==
  ASSUME NEW N, NEW E, NEW a \in N
  PROVE  Reaches(N, E, a, a)
BY DEF Reaches

(* An edge extends a path. *)
LEMMA ReachesStep ==
  ASSUME NEW N, NEW E, NEW a, NEW s, NEW d,
         Reaches(N, E, a, s), <<s, d>> \in E
  PROVE  Reaches(N, E, a, d)
BY DEF Reaches, Closed

(* What a closed set of nodes contains it keeps. *)
LEMMA ReachesWithin ==
  ASSUME NEW N, NEW E, NEW a, NEW d, NEW S \in SUBSET N,
         Reaches(N, E, a, d), a \in S, Closed(E, S)
  PROVE  d \in S
BY DEF Reaches

(* Reachability composes. *)
LEMMA ReachesTransitive ==
  ASSUME NEW N, NEW E, NEW a, NEW b, NEW d,
         Reaches(N, E, a, b), Reaches(N, E, b, d)
  PROVE  Reaches(N, E, a, d)
BY DEF Reaches

(* More edges never separate two nodes. *)
LEMMA ReachesMonotone ==
  ASSUME NEW N, NEW E, NEW F, E \subseteq F, NEW a, NEW d, Reaches(N, E, a, d)
  PROVE  Reaches(N, F, a, d)
<1>1. ASSUME NEW S \in SUBSET N, Closed(F, S) PROVE Closed(E, S)
  BY <1>1 DEF Closed
<1>2. QED
  BY <1>1 DEF Reaches

(* A change of the incoming edges of t that names no table which was not   *)
(* upstream of t (or t itself) leaves every pair outside the region        *)
(* (ancestors of t) x (descendants of t) as it was.                        *)
LEMMA RegionUnaffected ==
  ASSUME NEW N, NEW t \in N,
         NEW E \in SUBSET (N \X N), NEW F \in SUBSET (N \X N),
         \A e \in E \ F : e[2] = t,
         \A e \in F \ E : e[2] = t /\ (e[1] = t \/ Reaches(N, E, e[1], t)),
         NEW a \in N, NEW d \in N,
         ~ ((a = t \/ Reaches(N, E, a, t)) /\ (d = t \/ Reaches(N, E, t, d)))
  PROVE  Reaches(N, E, a, d) <=> Reaches(N, F, a, d)
<1> DEFINE D  == { n \in N : n = t \/ Reaches(N, E, t, n) }
           FromE == { n \in N : Reaches(N, E, a, n) }
           FromF == { n \in N : Reaches(N, F, a, n) }
<1>1. a \in FromE /\ a \in FromF
  BY ReachesSelf
<1>2. \A e \in E : e \in N \X N /\ e = <<e[1], e[2]>> /\ e[1] \in N /\ e[2] \in N
  OBVIOUS
<1>3. \A e \in F : e \in N \X N /\ e = <<e[1], e[2]>> /\ e[1] \in N /\ e[2] \in N
  OBVIOUS
<1>4. \A e \in E : e[1] \in D => e[2] \in D
  <2> SUFFICES ASSUME NEW e \in E, e[1] \in D PROVE e[2] \in D
    OBVIOUS
  <2>1. Reaches(N, E, t, e[1])
    BY ReachesSelf
  <2>2. QED
    BY <1>2, <2>1, ReachesStep
<1>5. \A e \in E : e[1] \in FromE => e[2] \in FromE
  <2> SUFFICES ASSUME NEW e \in E, e[1] \in FromE PROVE e[2] \in FromE
    OBVIOUS
  <2>1. QED
    BY <1>2, ReachesStep
<1>6. \A e \in F : e[1] \in FromF => e[2] \in FromF
  <2> SUFFICES ASSUME NEW e \in F, e[1] \in FromF PROVE e[2] \in FromF
    OBVIOUS
  <2>1. QED
    BY <1>3, ReachesStep
<1>7. CASE ~ (d = t \/ Reaches(N, E, t, d))
  <2>1. d \notin D
    BY <1>7
  <2>2. Closed(F, FromE \cup D)
    BY <1>4, <1>5 DEF Closed
  <2>3. Closed(E, FromF \cup D)
    BY <1>4, <1>6 DEF Closed
  <2>4. ASSUME Reaches(N, F, a, d) PROVE Reaches(N, E, a, d)
    <3>1. FromE \cup D \in SUBSET N /\ a \in FromE \cup D
      BY <1>1
    <3>2. d \in FromE \cup D
      BY <2>2, <2>4, <3>1, ReachesWithin
    <3>3. QED
      BY <2>1, <3>2
  <2>5. ASSUME Reaches(N, E, a, d) PROVE Reaches(N, F, a, d)
    <3>1. FromF \cup D \in SUBSET N /\ a \in FromF \cup D
      BY <1>1
    <3>2. d \in FromF \cup D
      BY <2>3, <2>5, <3>1, ReachesWithin
    <3>3. QED
      BY <2>1, <3>2
  <2>6. QED
    BY <2>4, <2>5
<1>8. CASE ~ (a = t \/ Reaches(N, E, a, t))
  <2>1. Closed(F, FromE)
    <3> SUFFICES ASSUME NEW e \in F, e[1] \in FromE PROVE e[2] \in FromE
      BY DEF Closed
    <3>1. CASE e \in E
      BY <1>5, <3>1
    <3>2. CASE e \notin E
      <4>1. Reaches(N, E, a, e[1]) /\ (e[1] = t \/ Reaches(N, E, e[1], t))
        BY <3>2
      <4>2. Reaches(N, E, a, t)
        BY <4>1, ReachesTransitive
      <4>3. QED
        BY <1>8, <4>2
    <3>3. QED
      BY <3>1, <3>2
  <2>2. Closed(E, FromE \cap FromF)
    <3> SUFFICES ASSUME NEW e \in E, e[1] \in FromE, e[1] \in FromF
                 PROVE  e[2] \in FromE /\ e[2] \in FromF
      BY DEF Closed
    <3>1. e[2] \in FromE
      BY <1>5
    <3>2. e[2] # t
      BY <1>8, <3>1
    <3>3. e \in F
      BY <3>2
    <3>4. QED
      BY <1>6, <3>1, <3>3
  <2>3. ASSUME Reaches(N, F, a, d) PROVE Reaches(N, E, a, d)
    <3>1. FromE \in SUBSET N
      OBVIOUS
    <3>2. d \in FromE
      BY <1>1, <2>1, <2>3, <3>1, ReachesWithin
    <3>3. QED
      BY <3>2
  <2>4. ASSUME Reaches(N, E, a, d) PROVE Reaches(N, F, a, d)
    <3>1. FromE \cap FromF \in SUBSET N
      OBVIOUS
    <3>2. d \in FromE \cap FromF
      BY <1>1, <2>2, <2>4, <3>1, ReachesWithin
    <3>3. QED
      BY <3>2
  <2>5. QED
    BY <2>3, <2>4
<1>9. QED
  BY <1>7, <1>8

(* When only incoming edges of t go away, a pair that t does not lie       *)
(* between stays connected.                                                *)
LEMMA RegionKeeps ==
  ASSUME NEW N, NEW t \in N,
         NEW E \in SUBSET (N \X N), NEW F \in SUBSET (N \X N),
         \A e \in E \ F : e[2] = t,
         NEW a \in N, NEW d \in N,
         ~ ((a = t \/ Reaches(N, E, a, t)) /\ (d = t \/ Reaches(N, E, t, d))),
         Reaches(N, E, a, d)
  PROVE  Reaches(N, F, a, d)
<1> DEFINE D  == { n \in N : n = t \/ Reaches(N, E, t, n) }
           FromE == { n \in N : Reaches(N, E, a, n) }
           FromF == { n \in N : Reaches(N, F, a, n) }
<1>1. a \in FromE /\ a \in FromF
  BY ReachesSelf
<1>2. \A e \in E \cup F : e = <<e[1], e[2]>> /\ e[1] \in N /\ e[2] \in N
  OBVIOUS
<1>3. \A e \in E : e[1] \in D => e[2] \in D
  <2> SUFFICES ASSUME NEW e \in E, e[1] \in D PROVE e[2] \in D
    OBVIOUS
  <2>1. Reaches(N, E, t, e[1])
    BY ReachesSelf
  <2> QED BY <1>2, <2>1, ReachesStep
<1>4. \A e \in E : e[1] \in FromE => e[2] \in FromE
  <2> SUFFICES ASSUME NEW e \in E, e[1] \in FromE PROVE e[2] \in FromE
    OBVIOUS
  <2> QED BY <1>2, ReachesStep
<1>5. \A e \in F : e[1] \in FromF => e[2] \in FromF
  <2> SUFFICES ASSUME NEW e \in F, e[1] \in FromF PROVE e[2] \in FromF
    OBVIOUS
  <2> QED BY <1>2, ReachesStep
<1>6. CASE ~ (d = t \/ Reaches(N, E, t, d))
  <2>1. FromF \cup D \in SUBSET N /\ a \in FromF \cup D /\ d \notin D
    BY <1>1, <1>6
  <2>2. Closed(E, FromF \cup D)
    BY <1>3, <1>5 DEF Closed
  <2>3. d \in FromF \cup D
    BY <2>1, <2>2, ReachesWithin
  <2> QED BY <2>1, <2>3
<1>7. CASE ~ (a = t \/ Reaches(N, E, a, t))
  <2>1. Closed(E, FromE \cap FromF)
    <3> SUFFICES ASSUME NEW e \in E, e[1] \in FromE, e[1] \in FromF
                 PROVE  e[2] \in FromE /\ e[2] \in FromF
      BY DEF Closed
    <3>1. e[2] \in FromE
      BY <1>4
    <3>2. e[2] # t
      BY <1>7, <3>1
    <3> QED BY <1>5, <3>1, <3>2
  <2>2. FromE \cap FromF \in SUBSET N
    OBVIOUS
  <2>3. d \in FromE \cap FromF
    BY <1>1, <2>1, <2>2, ReachesWithin
  <2> QED BY <2>3
<1> QED BY <1>6, <1>7

(* A change of the incoming edges of t leaves what t reaches as it was.    *)
LEMMA TargetReaches ==
  ASSUME NEW N, NEW t \in N,
         NEW E \in SUBSET (N \X N), NEW F \in SUBSET (N \X N),
         \A e \in E \ F : e[2] = t,
         NEW d \in N, Reaches(N, E, t, d)
  PROVE  Reaches(N, F, t, d)
<1> DEFINE FromF == { n \in N : Reaches(N, F, t, n) }
<1>1. t \in FromF
  BY ReachesSelf
<1>2. Closed(E, FromF)
  <2> SUFFICES ASSUME NEW e \in E, e[1] \in FromF PROVE e[2] \in FromF
    BY DEF Closed
  <2>1. CASE e \in F
    <3>1. e = <<e[1], e[2]>> /\ e[2] \in N
      OBVIOUS
    <3> QED BY <2>1, <3>1, ReachesStep
  <2>2. CASE e \notin F
    BY <1>1, <2>2
  <2> QED BY <2>1, <2>2
<1>3. FromF \in SUBSET N
  OBVIOUS
<1>4. d \in FromF
  BY <1>1, <1>2, <1>3, ReachesWithin
<1> QED BY <1>4

(* What new incoming edges of t connect, t reaches. *)
LEMMA NewlyReached ==
  ASSUME NEW N, NEW t \in N,
         NEW E \in SUBSET (N \X N), NEW F \in SUBSET (N \X N),
         \A e \in F \ E : e[2] = t,
         NEW a \in N, NEW d \in N, Reaches(N, F, a, d), ~Reaches(N, E, a, d)
  PROVE  Reaches(N, F, t, d)
<1> DEFINE S == { n \in N : Reaches(N, E, a, n) \/ Reaches(N, F, t, n) }
<1>1. a \in S /\ Reaches(N, F, t, t)
  BY ReachesSelf
<1>2. Closed(F, S)
  <2> SUFFICES ASSUME NEW e \in F, e[1] \in S PROVE e[2] \in S
    BY DEF Closed
  <2>1. e = <<e[1], e[2]>> /\ e[2] \in N
    OBVIOUS
  <2>2. CASE e \in E /\ Reaches(N, E, a, e[1])
    BY <2>1, <2>2, ReachesStep
  <2>3. CASE Reaches(N, F, t, e[1])
    BY <2>1, <2>3, ReachesStep
  <2>4. CASE e \notin E
    BY <1>1, <2>1, <2>4
  <2> QED BY <2>2, <2>3, <2>4
<1>3. S \in SUBSET N
  OBVIOUS
<1>4. d \in S
  BY <1>1, <1>2, <1>3, ReachesWithin
<1> QED BY <1>4

(* The pairs of the rows of a graph are those it connects. *)
LEMMA PairsOfRows ==
  ASSUME NEW N, NEW E
  PROVE  Pairs(ClosureRows(N, E)) = Connected(N, E)
<1>1. ASSUME NEW p \in Connected(N, E) PROVE p \in Pairs(ClosureRows(N, E))
  <2> DEFINE row == <<p[1], p[2], Distance(N, E, p[1], p[2]), ShortestPaths(N, E, p[1], p[2])>>
  <2>1. row \in ClosureRows(N, E)
    BY DEF ClosureRows
  <2>2. row[1] = p[1] /\ row[2] = p[2] /\ p = <<p[1], p[2]>>
    BY DEF Connected
  <2>3. QED
    BY <2>1, <2>2, Zenon DEF Pairs
<1>2. ASSUME NEW p \in Pairs(ClosureRows(N, E)) PROVE p \in Connected(N, E)
  <2>1. PICK r \in ClosureRows(N, E) : p = <<r[1], r[2]>>
    BY DEF Pairs
  <2>2. PICK c \in Connected(N, E) :
          r = <<c[1], c[2], Distance(N, E, c[1], c[2]), ShortestPaths(N, E, c[1], c[2])>>
    BY DEF ClosureRows
  <2>3. p = <<c[1], c[2]>> /\ c = <<c[1], c[2]>>
    BY <2>1, <2>2 DEF Connected
  <2>4. QED
    BY <2>3
<1>3. QED
  BY <1>1, <1>2

-----------------------------------------------------------------------------
(* A walk without what lies between its tables i and j.                    *)
Cut(w, h, i, j) ==
  [k \in 0..(h - (j - i)) |-> IF k <= i THEN w[k] ELSE w[k + (j - i)]]

(* A walk with one more table.                                             *)
Grown(w, h, n) == [k \in 0..(h + 1) |-> IF k = h + 1 THEN n ELSE w[k]]

(* A walk and one more edge. *)
LEMMA WalkGrows ==
  ASSUME NEW N, NEW E, NEW a, NEW d, NEW h \in Nat, NEW w \in Walks(N, E, a, d, h),
         NEW n \in N, <<d, n>> \in E
  PROVE  Grown(w, h, n) \in Walks(N, E, a, n, h + 1)
<1>1. w \in [0..h -> N] /\ w[0] = a /\ w[h] = d /\ \A i \in 1..h : <<w[i - 1], w[i]>> \in E
  BY DEF Walks
<1> DEFINE v == Grown(w, h, n)
<1>2. v \in [0..(h + 1) -> N] /\ v[0] = a /\ v[h + 1] = n
  BY <1>1 DEF Grown
<1>3. ASSUME NEW i \in 1..(h + 1) PROVE <<v[i - 1], v[i]>> \in E
  <2>1. CASE i = h + 1
    <3>1. v[i - 1] = d /\ v[i] = n
      BY <1>1, <2>1 DEF Grown
    <3> QED BY <3>1
  <2>2. CASE i \in 1..h
    <3>1. v[i - 1] = w[i - 1] /\ v[i] = w[i]
      BY <2>2 DEF Grown
    <3> QED BY <1>1, <2>2, <3>1
  <2> QED BY <2>1, <2>2
<1> QED BY <1>2, <1>3 DEF Walks

(* The tables of a walk lie between its ends. *)
LEMMA WalkReaches ==
  ASSUME NEW N, NEW E, NEW a \in N, NEW d, NEW h \in Nat, NEW w \in Walks(N, E, a, d, h),
         NEW i \in 0..h
  PROVE  w[i] \in N /\ Reaches(N, E, a, w[i]) /\ Reaches(N, E, w[i], d)
<1>1. w \in [0..h -> N] /\ w[0] = a /\ w[h] = d /\ \A k \in 1..h : <<w[k - 1], w[k]>> \in E
  BY DEF Walks
<1>2. Reaches(N, E, a, w[i])
  <2> DEFINE S == { k \in Nat : k <= h => Reaches(N, E, a, w[k]) }
  <2>1. 0 \in S
    BY <1>1, ReachesSelf
  <2>2. ASSUME NEW k \in Nat, k \in S PROVE k + 1 \in S
    <3>1. CASE k + 1 <= h
      <4>1. <<w[k], w[k + 1]>> \in E
        <5>1. k + 1 \in 1..h /\ (k + 1) - 1 = k
          BY <3>1
        <5> QED BY <1>1, <5>1
      <4>2. Reaches(N, E, a, w[k])
        BY <2>2, <3>1
      <4>3. Reaches(N, E, a, w[k + 1])
        BY <4>1, <4>2, ReachesStep
      <4> QED BY <4>3
    <3> QED BY <3>1
  <2> HIDE DEF S
  <2>3. i \in S
    BY <2>1, <2>2, AllNaturals
  <2> QED BY <2>3 DEF S
<1>3. Reaches(N, E, w[i], d)
  <2> DEFINE S == { k \in Nat : k <= h => Reaches(N, E, w[h - k], d) }
  <2>1. 0 \in S
    BY <1>1, ReachesSelf
  <2>2. ASSUME NEW k \in Nat, k \in S PROVE k + 1 \in S
    <3>1. CASE k + 1 <= h
      <4> DEFINE m == h - k
      <4>1. m \in 1..h /\ h - (k + 1) = m - 1 /\ w[m - 1] \in N
        BY <1>1, <3>1
      <4>2. <<w[m - 1], w[m]>> \in E /\ Reaches(N, E, w[m], d)
        BY <1>1, <2>2, <3>1, <4>1
      <4>3. Reaches(N, E, w[m - 1], d)
        <5> HIDE DEF m
        <5>1. Reaches(N, E, w[m - 1], w[m - 1])
          BY <4>1, ReachesSelf
        <5> QED BY <4>2, <5>1, ReachesStep, ReachesTransitive
      <4> QED BY <4>1, <4>3
    <3> QED BY <3>1
  <2> HIDE DEF S
  <2>3. h - i \in S
    BY <2>1, <2>2, AllNaturals
  <2>4. h - (h - i) = i /\ h - i <= h
    OBVIOUS
  <2> QED BY <2>3, <2>4 DEF S
<1> QED BY <1>1, <1>2, <1>3

(* A walk that meets a table twice is not a shortest one. *)
LEMMA WalkCut ==
  ASSUME NEW N, NEW E, NEW a, NEW d, NEW h \in Nat, NEW w \in Walks(N, E, a, d, h),
         NEW i \in 0..h, NEW j \in 0..h, i < j, w[i] = w[j]
  PROVE  h - (j - i) \in Nat /\ Cut(w, h, i, j) \in Walks(N, E, a, d, h - (j - i))
<1> DEFINE g == h - (j - i)
           v == Cut(w, h, i, j)
<1>1. w \in [0..h -> N] /\ w[0] = a /\ w[h] = d /\ \A k \in 1..h : <<w[k - 1], w[k]>> \in E
  BY DEF Walks
<1>2. g \in Nat /\ i <= g /\ g < h /\ g + (j - i) = h
  OBVIOUS
<1>3. \A k \in 0..g : v[k] = IF k <= i THEN w[k] ELSE w[k + (j - i)]
  BY DEF Cut
<1>4. v \in [0..g -> N]
  <2>1. \A k \in 0..g : k \in 0..h /\ k + (j - i) \in 0..h
    BY <1>2
  <2> QED BY <1>1, <2>1 DEF Cut
<1>5. v[0] = a /\ v[g] = d
  <2>1. v[0] = a
    <3>1. 0 \in 0..g /\ 0 <= i
      BY <1>2
    <3>2. v[0] = w[0]
      BY <1>3, <3>1
    <3> QED BY <1>1, <3>2
  <2>2. CASE g <= i
    <3>1. g = i /\ j = h
      BY <1>2, <2>2
    <3> QED BY <1>1, <1>2, <1>3, <2>1, <3>1
  <2>3. CASE g > i
    BY <1>1, <1>2, <1>3, <2>1, <2>3
  <2> QED BY <1>2, <2>2, <2>3
<1>6. ASSUME NEW k \in 1..g PROVE <<v[k - 1], v[k]>> \in E
  <2>1. CASE k <= i
    <3>1. v[k - 1] = w[k - 1] /\ v[k] = w[k] /\ k \in 1..h
      BY <1>2, <1>3, <2>1
    <3> QED BY <1>1, <3>1
  <2>2. CASE k = i + 1
    <3>1. v[k - 1] = w[i] /\ v[k] = w[j + 1] /\ j + 1 \in 1..h
      BY <1>2, <1>3, <2>2
    <3>2. <<w[j], w[j + 1]>> \in E
      BY <1>1, <3>1
    <3> QED BY <3>1, <3>2
  <2>3. CASE k > i + 1
    <3> DEFINE m == k + (j - i)
    <3>1. v[k - 1] = w[m - 1] /\ v[k] = w[m] /\ m \in 1..h
      BY <1>2, <1>3, <2>3
    <3>2. <<w[m - 1], w[m]>> \in E
      BY <1>1, <3>1
    <3> QED BY <3>1, <3>2
  <2> QED BY <2>1, <2>2, <2>3
<1> QED BY <1>2, <1>4, <1>5, <1>6 DEF Walks

(* Connected tables are joined by a shortest walk, and among finitely many *)
(* tables it is shorter than their number.                                 *)
LEMMA ShortestWalk ==
  ASSUME NEW N, IsFiniteSet(N), NEW E \in SUBSET (N \X N),
         NEW a \in N, NEW d \in N, a # d, Reaches(N, E, a, d)
  PROVE  \E h \in Nat : /\ h >= 1 /\ h < Cardinality(N)
                        /\ Walks(N, E, a, d, h) # {}
                        /\ \A k \in Nat : k < h => Walks(N, E, a, d, k) = {}
<1> DEFINE S == { n \in N : \E h \in Nat : Walks(N, E, a, n, h) # {} }
           L == { h \in Nat : Walks(N, E, a, d, h) # {} }
<1>1. a \in S
  <2> DEFINE w == [k \in 0..0 |-> a]
  <2>1. w \in Walks(N, E, a, a, 0)
    BY DEF Walks
  <2> QED BY <2>1
<1>2. Closed(E, S)
  <2> SUFFICES ASSUME NEW e \in E, e[1] \in S PROVE e[2] \in S
    BY DEF Closed
  <2>1. e = <<e[1], e[2]>> /\ e[2] \in N
    OBVIOUS
  <2>2. PICK h \in Nat : Walks(N, E, a, e[1], h) # {}
    OBVIOUS
  <2>3. PICK w \in Walks(N, E, a, e[1], h) : TRUE
    BY <2>2
  <2>4. Grown(w, h, e[2]) \in Walks(N, E, a, e[2], h + 1) /\ h + 1 \in Nat
    BY <2>1, <2>3, WalkGrows
  <2> QED BY <2>1, <2>4
<1>3. d \in S
  <2>1. S \in SUBSET N
    OBVIOUS
  <2> HIDE DEF S
  <2> QED BY <1>1, <1>2, <2>1, ReachesWithin
<1>4. L \subseteq Nat /\ L # {}
  BY <1>3
<1>5. PICK h \in L : \A k \in L : h <= k
  <2> HIDE DEF L
  <2> QED BY <1>4, Least
<1>6. h \in Nat /\ Walks(N, E, a, d, h) # {} /\ \A k \in Nat : k < h => Walks(N, E, a, d, k) = {}
  BY <1>5
<1>7. PICK w \in Walks(N, E, a, d, h) : TRUE
  BY <1>6
<1>8. w \in [0..h -> N] /\ w[0] = a /\ w[h] = d
  BY <1>7 DEF Walks
<1>9. h >= 1
  BY <1>6, <1>8
<1>10. ASSUME NEW i \in 0..h, NEW j \in 0..h, w[i] = w[j], i < j PROVE FALSE
  <2>1. h - (j - i) \in Nat /\ Walks(N, E, a, d, h - (j - i)) # {}
    BY <1>6, <1>7, <1>10, WalkCut
  <2>2. h - (j - i) < h
    BY <1>6, <1>10
  <2> QED BY <1>6, <2>1, <2>2
<1>11. w \in Injection(0..h, N)
  <2>1. \A i, j \in 0..h : w[i] = w[j] => i = j
    BY <1>6, <1>10
  <2> QED BY <1>8, <2>1 DEF Injection, IsInjective
<1>12. Cardinality(0..h) <= Cardinality(N) /\ Cardinality(0..h) = h + 1
  BY <1>6, <1>11, FS_Injection, FS_Interval
<1>13. Cardinality(N) \in Nat
  BY FS_CardinalityType
<1> QED BY <1>6, <1>9, <1>12, <1>13

(* Distance is the length of that walk.                                    *)
LEMMA DistanceIsShortest ==
  ASSUME NEW N, IsFiniteSet(N), NEW E \in SUBSET (N \X N),
         NEW a \in N, NEW d \in N, a # d, Reaches(N, E, a, d)
  PROVE  LET h == Distance(N, E, a, d)
         IN  /\ h \in Nat /\ h >= 1 /\ h < Cardinality(N)
             /\ Walks(N, E, a, d, h) # {}
             /\ \A k \in Nat : k < h => Walks(N, E, a, d, k) = {}
<1>1. Cardinality(N) \in Nat
  BY FS_CardinalityType
<1>2. PICK g \in Nat : /\ g >= 1 /\ g < Cardinality(N) /\ Walks(N, E, a, d, g) # {}
                       /\ \A k \in Nat : k < g => Walks(N, E, a, d, k) = {}
  BY ShortestWalk
<1>3. Walks(N, E, a, d, 0) = {}
  BY DEF Walks
<1> DEFINE sets == [k \in 1..Cardinality(N) |-> Walks(N, E, a, d, k)]
<1>4. DOMAIN sets = 1..Cardinality(N) /\ \A k \in 1..Cardinality(N) : sets[k] = Walks(N, E, a, d, k)
  OBVIOUS
<1>5. Distance(N, E, a, d) = FirstNonEmpty(sets)
  BY DEF Distance
<1> HIDE DEF sets
<1>6. g \in DOMAIN sets /\ sets[g] # {} /\ \A k \in 1..(g - 1) : sets[k] = {}
  <2>1. \A k \in 1..(g - 1) : k \in 1..Cardinality(N) /\ k \in Nat /\ k < g
    BY <1>1, <1>2
  <2> QED BY <1>1, <1>2, <1>4, <2>1
<1> DEFINE f == FirstNonEmpty(sets)
<1>7. f \in DOMAIN sets /\ sets[f] # {} /\ \A k \in 1..(f - 1) : sets[k] = {}
  BY <1>6 DEF FirstNonEmpty
<1>8. f = Distance(N, E, a, d)
  BY <1>5
<1> HIDE DEF f
<1>9. f \in Nat /\ f >= 1 /\ Walks(N, E, a, d, f) # {}
  BY <1>1, <1>4, <1>7
<1>10. ASSUME NEW k \in Nat, k < f PROVE Walks(N, E, a, d, k) = {}
  <2>1. CASE k = 0
    BY <1>3, <2>1
  <2>2. CASE k # 0
    <3>1. k \in 1..(f - 1) /\ k \in 1..Cardinality(N)
      BY <1>1, <1>4, <1>7, <1>9, <1>10, <2>2
    <3> QED BY <1>4, <1>7, <3>1
  <2> QED BY <2>1, <2>2
<1>11. f <= g
  BY <1>2, <1>9, <1>10
<1> QED BY <1>1, <1>2, <1>8, <1>9, <1>10, <1>11

(* Outside the region no walk changes: one through t by a changed edge     *)
(* would come from an ancestor of t and go to a table t reaches.           *)
LEMMA WalksUnaffected ==
  ASSUME NEW N, NEW t \in N,
         NEW E \in SUBSET (N \X N), NEW F \in SUBSET (N \X N),
         \A e \in E \ F : e[2] = t,
         \A e \in F \ E : e[2] = t /\ (e[1] = t \/ Reaches(N, E, e[1], t)),
         NEW a \in N, NEW d \in N,
         ~ ((a = t \/ Reaches(N, E, a, t)) /\ (d = t \/ Reaches(N, E, t, d))),
         NEW h \in Nat
  PROVE  Walks(N, E, a, d, h) = Walks(N, F, a, d, h)
<1>1. ASSUME NEW x \in N, Reaches(N, F, x, t) PROVE Reaches(N, E, x, t)
  <2> DEFINE R == { n \in N : Reaches(N, E, x, n) \/ Reaches(N, E, x, t) }
  <2>1. x \in R
    BY ReachesSelf
  <2>2. Closed(F, R)
    <3> SUFFICES ASSUME NEW e \in F, e[1] \in R PROVE e[2] \in R
      BY DEF Closed
    <3>1. e = <<e[1], e[2]>> /\ e[2] \in N
      OBVIOUS
    <3>2. CASE e \in E
      BY <3>1, <3>2, ReachesStep
    <3>3. CASE e \notin E
      BY <3>1, <3>3, ReachesTransitive
    <3> QED BY <3>2, <3>3
  <2>3. R \in SUBSET N
    OBVIOUS
  <2>4. t \in R
    <3> HIDE DEF R
    <3> QED BY <1>1, <2>1, <2>2, <2>3, ReachesWithin
  <2> QED BY <2>4
<1>2. ASSUME NEW x \in N, Reaches(N, F, t, x) PROVE Reaches(N, E, t, x)
  BY <1>2, TargetReaches
<1>3. ASSUME NEW w \in Walks(N, E, a, d, h) PROVE w \in Walks(N, F, a, d, h)
  <2>1. w \in [0..h -> N] /\ w[0] = a /\ w[h] = d /\ \A i \in 1..h : <<w[i - 1], w[i]>> \in E
    BY DEF Walks
  <2>2. ASSUME NEW i \in 1..h PROVE <<w[i - 1], w[i]>> \in F
    <3>1. i \in 0..h
      OBVIOUS
    <3>2. Reaches(N, E, a, w[i]) /\ Reaches(N, E, w[i], d)
      BY <3>1, WalkReaches
    <3> QED BY <2>1, <3>2
  <2> QED BY <2>1, <2>2 DEF Walks
<1>4. ASSUME NEW w \in Walks(N, F, a, d, h) PROVE w \in Walks(N, E, a, d, h)
  <2>1. w \in [0..h -> N] /\ w[0] = a /\ w[h] = d /\ \A i \in 1..h : <<w[i - 1], w[i]>> \in F
    BY DEF Walks
  <2>2. ASSUME NEW i \in 1..h PROVE <<w[i - 1], w[i]>> \in E
    <3>1. i \in 0..h
      OBVIOUS
    <3>2. Reaches(N, F, a, w[i]) /\ Reaches(N, F, w[i], d)
      BY <3>1, WalkReaches
    <3>3. w[i] # t
      BY <1>1, <1>2, <3>2
    <3> QED BY <2>1, <3>3
  <2> QED BY <2>1, <2>2 DEF Walks
<1> QED BY <1>3, <1>4

(* Nor does the row of a pair outside the region.                          *)
LEMMA RowUnaffected ==
  ASSUME NEW N, IsFiniteSet(N), NEW t \in N,
         NEW E \in SUBSET (N \X N), NEW F \in SUBSET (N \X N),
         \A e \in E \ F : e[2] = t,
         \A e \in F \ E : e[2] = t /\ (e[1] = t \/ Reaches(N, E, e[1], t)),
         NEW a \in N, NEW d \in N, a # d, Reaches(N, E, a, d),
         ~ ((a = t \/ Reaches(N, E, a, t)) /\ (d = t \/ Reaches(N, E, t, d)))
  PROVE  /\ Distance(N, E, a, d) = Distance(N, F, a, d)
         /\ ShortestPaths(N, E, a, d) = ShortestPaths(N, F, a, d)
<1>1. Cardinality(N) \in Nat
  BY FS_CardinalityType
<1>2. \A h \in Nat : Walks(N, E, a, d, h) = Walks(N, F, a, d, h)
  BY WalksUnaffected
<1>3. [h \in 1..Cardinality(N) |-> Walks(N, E, a, d, h)]
        = [h \in 1..Cardinality(N) |-> Walks(N, F, a, d, h)]
  BY <1>1, <1>2
<1>4. Distance(N, E, a, d) = Distance(N, F, a, d)
  BY <1>3 DEF Distance
<1>5. Distance(N, E, a, d) \in Nat
  BY DistanceIsShortest
<1> QED BY <1>2, <1>4, <1>5 DEF ShortestPaths

(* A walk without its last edge.                                           *)
Shrunk(w, h) == [k \in 0..h |-> w[k]]

(* It is a walk, and its last edge grows it back.                         *)
LEMMA WalkShrinks ==
  ASSUME NEW N, NEW E, NEW a, NEW d, NEW h \in Nat, NEW w \in Walks(N, E, a, d, h + 1)
  PROVE  /\ w[h] \in N /\ <<w[h], d>> \in E /\ d \in N
         /\ Shrunk(w, h) \in Walks(N, E, a, w[h], h)
         /\ w = Grown(Shrunk(w, h), h, d)
<1>1. /\ w \in [0..(h + 1) -> N] /\ w[0] = a /\ w[h + 1] = d
      /\ \A i \in 1..(h + 1) : <<w[i - 1], w[i]>> \in E
  BY DEF Walks
<1>2. w[h] \in N /\ d \in N
  BY <1>1
<1>3. <<w[h], d>> \in E
  <2>1. h + 1 \in 1..(h + 1) /\ (h + 1) - 1 = h
    OBVIOUS
  <2> QED BY <1>1, <2>1
<1> DEFINE v == Shrunk(w, h)
<1>4. v \in [0..h -> N] /\ v[0] = a /\ v[h] = w[h]
  BY <1>1 DEF Shrunk
<1>5. ASSUME NEW i \in 1..h PROVE <<v[i - 1], v[i]>> \in E
  <2>1. v[i - 1] = w[i - 1] /\ v[i] = w[i] /\ i \in 1..(h + 1)
    BY DEF Shrunk
  <2> QED BY <1>1, <2>1
<1>6. w = Grown(v, h, d)
  <2>1. \A k \in 0..(h + 1) : Grown(v, h, d)[k] = w[k]
    BY <1>1 DEF Grown, Shrunk
  <2>2. Grown(v, h, d) = [k \in 0..(h + 1) |-> Grown(v, h, d)[k]]
    BY DEF Grown
  <2> QED BY <1>1, <2>1, <2>2
<1> QED BY <1>2, <1>3, <1>4, <1>5, <1>6 DEF Walks

(* There are as many walks over the edge from u to n as walks to u.        *)
LEMMA WalksOver ==
  ASSUME NEW N, NEW E, NEW a, NEW u, NEW n \in N, <<u, n>> \in E, NEW h \in Nat,
         IsFiniteSet(Walks(N, E, a, u, h))
  PROVE  LET V == { v \in Walks(N, E, a, n, h + 1) : v[h] = u }
         IN  IsFiniteSet(V) /\ Cardinality(V) = Cardinality(Walks(N, E, a, u, h))
<1> DEFINE W == Walks(N, E, a, u, h)
           V == { v \in Walks(N, E, a, n, h + 1) : v[h] = u }
           f == [w \in W |-> Grown(w, h, n)]
<1>1. \A w \in W : Grown(w, h, n) \in V
  <2> SUFFICES ASSUME NEW w \in W PROVE Grown(w, h, n) \in V
    OBVIOUS
  <2>1. Grown(w, h, n) \in Walks(N, E, a, n, h + 1)
    BY WalkGrows
  <2>2. Grown(w, h, n)[h] = w[h] /\ w[h] = u
    BY DEF Grown, Walks
  <2> QED BY <2>1, <2>2
<1>2. \A w, x \in W : Grown(w, h, n) = Grown(x, h, n) => w = x
  <2> SUFFICES ASSUME NEW w \in W, NEW x \in W, Grown(w, h, n) = Grown(x, h, n) PROVE w = x
    OBVIOUS
  <2>1. w \in [0..h -> N] /\ x \in [0..h -> N]
    BY DEF Walks
  <2>2. \A k \in 0..h : w[k] = Grown(w, h, n)[k] /\ x[k] = Grown(x, h, n)[k]
    BY DEF Grown
  <2> QED BY <2>1, <2>2
<1>3. \A v \in V : \E w \in W : v = Grown(w, h, n)
  BY WalkShrinks
<1> HIDE DEF W, V
<1>4. f \in Bijection(W, V)
  <2>1. f \in [W -> V]
    BY <1>1
  <2>2. \A w, x \in W : f[w] = f[x] => w = x
    BY <1>2
  <2>3. \A v \in V : \E w \in W : f[w] = v
    BY <1>3
  <2> QED BY <2>1, <2>2, <2>3 DEF Bijection, Injection, Surjection, IsInjective
<1>5. ExistsBijection(W, V)
  BY <1>4 DEF ExistsBijection
<1>6. IsFiniteSet(V) /\ Cardinality(V) = Cardinality(W)
  BY <1>5, FS_Bijection DEF W
<1> QED BY <1>6 DEF V, W

(* A length that is the shortest is the distance.                          *)
LEMMA ShortestIsDistance ==
  ASSUME NEW N, IsFiniteSet(N), NEW E \in SUBSET (N \X N),
         NEW a \in N, NEW d \in N, a # d, Reaches(N, E, a, d),
         NEW h \in Nat, Walks(N, E, a, d, h) # {}, \A k \in Nat : k < h => Walks(N, E, a, d, k) = {}
  PROVE  h = Distance(N, E, a, d)
<1> DEFINE f == Distance(N, E, a, d)
<1>1. f \in Nat /\ Walks(N, E, a, d, f) # {} /\ \A k \in Nat : k < f => Walks(N, E, a, d, k) = {}
  BY DistanceIsShortest
<1> HIDE DEF f
<1>2. ~(h < f) /\ ~(f < h)
  BY <1>1
<1>3. h = f
  BY <1>1, <1>2
<1> QED BY <1>3 DEF f

-----------------------------------------------------------------------------
(* The tables at each distance from a, as a traversal meets them.          *)
Far(N, E, a, t, h) ==
  Walks(N, E, a, t, h) # {} /\ \A k \in Nat : k < h => Walks(N, E, a, t, k) = {}

LEMMA FarStart ==
  ASSUME NEW N, NEW E, NEW a \in N, NEW t
  PROVE  Far(N, E, a, t, 0) <=> t = a
<1>1. ASSUME t = a PROVE Walks(N, E, a, t, 0) # {}
  <2> DEFINE w == [k \in 0..0 |-> a]
  <2>1. w \in Walks(N, E, a, t, 0)
    BY <1>1 DEF Walks
  <2> QED BY <2>1
<1>2. ASSUME NEW w \in Walks(N, E, a, t, 0) PROVE t = a
  BY DEF Walks
<1>3. \A k \in Nat : ~(k < 0)
  OBVIOUS
<1> QED BY <1>1, <1>2, <1>3 DEF Far

LEMMA FarOnce ==
  ASSUME NEW N, NEW E, NEW a, NEW t, NEW h \in Nat, NEW k \in Nat,
         Far(N, E, a, t, h), Far(N, E, a, t, k)
  PROVE  h = k
<1>1. ~(h < k) /\ ~(k < h)
  BY DEF Far
<1> QED BY <1>1

(* What a walk leads to is at a distance no longer than the walk.          *)
LEMMA FarBelow ==
  ASSUME NEW N, NEW E, NEW a, NEW t, NEW h \in Nat, Walks(N, E, a, t, h) # {}
  PROVE  \E k \in 0..h : Far(N, E, a, t, k)
<1> DEFINE L == { k \in Nat : Walks(N, E, a, t, k) # {} }
<1>1. L \subseteq Nat /\ h \in L
  OBVIOUS
<1>2. PICK k \in L : \A j \in L : k <= j
  <2> HIDE DEF L
  <2> QED BY <1>1, Least
<1>3. k \in 0..h
  BY <1>1, <1>2
<1>4. ASSUME NEW j \in Nat, j < k PROVE Walks(N, E, a, t, j) = {}
  BY <1>2, <1>4
<1>5. Far(N, E, a, t, k)
  BY <1>2, <1>4 DEF Far
<1> QED BY <1>3, <1>5

(* One step further: the successors not met before.                        *)
LEMMA FarNext ==
  ASSUME NEW N, NEW E \in SUBSET (N \X N), NEW a \in N, NEW t, NEW h \in Nat
  PROVE  Far(N, E, a, t, h + 1)
           <=> /\ \E s \in N : Far(N, E, a, s, h) /\ <<s, t>> \in E
               /\ \A k \in 0..h : ~Far(N, E, a, t, k)
<1>1. ASSUME Far(N, E, a, t, h + 1)
      PROVE  /\ \E s \in N : Far(N, E, a, s, h) /\ <<s, t>> \in E
             /\ \A k \in 0..h : ~Far(N, E, a, t, k)
  <2>1. PICK w \in Walks(N, E, a, t, h + 1) : TRUE
    BY <1>1 DEF Far
  <2>2. /\ w[h] \in N /\ <<w[h], t>> \in E /\ t \in N
        /\ Shrunk(w, h) \in Walks(N, E, a, w[h], h)
    BY <2>1, WalkShrinks
  <2>3. ASSUME NEW k \in Nat, k < h, NEW v \in Walks(N, E, a, w[h], k) PROVE FALSE
    <3>1. Grown(v, k, t) \in Walks(N, E, a, t, k + 1)
      BY <2>2, WalkGrows
    <3>2. k + 1 \in Nat /\ k + 1 < h + 1
      BY <2>3
    <3> QED BY <1>1, <3>1, <3>2 DEF Far
  <2>4. Far(N, E, a, w[h], h)
    BY <2>2, <2>3 DEF Far
  <2>5. ASSUME NEW k \in 0..h, Far(N, E, a, t, k) PROVE FALSE
    <3>1. k \in Nat /\ h + 1 \in Nat /\ k # h + 1
      OBVIOUS
    <3> QED BY <1>1, <2>5, <3>1, FarOnce
  <2> QED BY <2>2, <2>4, <2>5
<1>2. ASSUME NEW s \in N, Far(N, E, a, s, h), <<s, t>> \in E,
             \A k \in 0..h : ~Far(N, E, a, t, k)
      PROVE  Far(N, E, a, t, h + 1)
  <2>1. t \in N
    BY <1>2
  <2>2. PICK w \in Walks(N, E, a, s, h) : TRUE
    BY <1>2 DEF Far
  <2>3. Grown(w, h, t) \in Walks(N, E, a, t, h + 1)
    BY <1>2, <2>1, <2>2, WalkGrows
  <2>4. ASSUME NEW k \in Nat, k < h + 1, Walks(N, E, a, t, k) # {} PROVE FALSE
    <3>1. PICK j \in 0..k : Far(N, E, a, t, j)
      BY <2>4, FarBelow
    <3>2. j \in 0..h
      BY <2>4, <3>1
    <3> QED BY <1>2, <3>1, <3>2
  <2> QED BY <2>3, <2>4 DEF Far
<1> QED BY <1>1, <1>2

(* Whoever is at a distance has somebody at each smaller one.              *)
LEMMA FarDescends ==
  ASSUME NEW N, NEW E \in SUBSET (N \X N), NEW a \in N, NEW t, NEW h \in Nat,
         Far(N, E, a, t, h), NEW k \in 0..h
  PROVE  \E s : Far(N, E, a, s, k)
<1> DEFINE S == { j \in Nat : j <= h => \E s : Far(N, E, a, s, h - j) }
<1>1. 0 \in S
  <2>1. h - 0 = h
    OBVIOUS
  <2> QED BY <2>1
<1>2. ASSUME NEW j \in Nat, j \in S PROVE j + 1 \in S
  <2>1. CASE j + 1 <= h
    <3>1. PICK s : Far(N, E, a, s, h - j)
      BY <1>2, <2>1
    <3>2. PICK m \in Nat : m = h - (j + 1) /\ h - j = m + 1
      BY <2>1
    <3>3. Far(N, E, a, s, m + 1)
      BY <3>1, <3>2
    <3>4. \E u \in N : Far(N, E, a, u, m)
      BY <3>3, FarNext
    <3> QED BY <3>2, <3>4
  <2> QED BY <2>1
<1> HIDE DEF S
<1>3. h - k \in S
  BY <1>1, <1>2, AllNaturals
<1>4. h - (h - k) = k /\ h - k <= h
  OBVIOUS
<1> QED BY <1>3, <1>4 DEF S

(* The third column of a closure row is that distance.                     *)
LEMMA RowIsFar ==
  ASSUME NEW N, IsFiniteSet(N), NEW E \in SUBSET (N \X N), NEW a \in N, NEW t \in N,
         a # t, NEW h
  PROVE  (\E row \in ClosureRows(N, E) : row[1] = a /\ row[2] = t /\ row[3] = h)
           <=> h \in Nat /\ Far(N, E, a, t, h)
<1>1. ASSUME NEW row \in ClosureRows(N, E), row[1] = a, row[2] = t, row[3] = h
      PROVE  h \in Nat /\ Far(N, E, a, t, h)
  <2>1. PICK p \in Connected(N, E) :
          row = <<p[1], p[2], Distance(N, E, p[1], p[2]), ShortestPaths(N, E, p[1], p[2])>>
    BY DEF ClosureRows
  <2>2. p[1] = a /\ p[2] = t /\ h = Distance(N, E, a, t)
    BY <1>1, <2>1
  <2>3. Reaches(N, E, a, t)
    BY <2>1, <2>2 DEF Connected
  <2> DEFINE f == Distance(N, E, a, t)
  <2>4. /\ f \in Nat /\ Walks(N, E, a, t, f) # {}
        /\ \A k \in Nat : k < f => Walks(N, E, a, t, k) = {}
    BY <2>3, DistanceIsShortest
  <2>5. h = f
    BY <2>2
  <2> HIDE DEF f
  <2> QED BY <2>4, <2>5 DEF Far
<1>2. ASSUME h \in Nat, Far(N, E, a, t, h)
      PROVE  \E row \in ClosureRows(N, E) : row[1] = a /\ row[2] = t /\ row[3] = h
  <2>1. PICK w \in Walks(N, E, a, t, h) : TRUE
    BY <1>2 DEF Far
  <2>2. w[h] = t /\ h \in 0..h
    BY <1>2, <2>1 DEF Walks
  <2>3. Reaches(N, E, a, t)
    BY <1>2, <2>1, <2>2, WalkReaches
  <2>4. h = Distance(N, E, a, t)
    BY <1>2, <2>3, ShortestIsDistance DEF Far
  <2>5. <<a, t>> \in Connected(N, E)
    BY <2>3 DEF Connected
  <2> DEFINE row == <<a, t, h, ShortestPaths(N, E, a, t)>>
  <2>6. row \in ClosureRows(N, E)
    BY <2>4, <2>5 DEF ClosureRows
  <2>7. row[1] = a /\ row[2] = t /\ row[3] = h
    OBVIOUS
  <2> HIDE DEF row
  <2> QED BY <2>6, <2>7
<1> QED BY <1>1, <1>2

(* The edges the other way round, and a walk the other way round.          *)
Turned(E) == { <<e[2], e[1]>> : e \in E }

LEMMA WalkTurns ==
  ASSUME NEW N, NEW E \in SUBSET (N \X N), NEW a, NEW d, NEW h \in Nat,
         Walks(N, E, a, d, h) # {}
  PROVE  Walks(N, Turned(E), d, a, h) # {}
<1>1. PICK w \in Walks(N, E, a, d, h) : TRUE
  OBVIOUS
<1>2. w \in [0..h -> N] /\ w[0] = a /\ w[h] = d /\ \A i \in 1..h : <<w[i - 1], w[i]>> \in E
  BY <1>1 DEF Walks
<1> DEFINE v == [k \in 0..h |-> w[h - k]]
<1>3. v \in [0..h -> N] /\ v[0] = d /\ v[h] = a
  BY <1>2
<1>4. ASSUME NEW i \in 1..h PROVE <<v[i - 1], v[i]>> \in Turned(E)
  <2> DEFINE j == h - i + 1
  <2>1. j \in 1..h /\ h - (i - 1) = j /\ h - i = j - 1
    OBVIOUS
  <2>2. <<w[j - 1], w[j]>> \in E
    BY <1>2, <2>1
  <2>3. v[i - 1] = w[j] /\ v[i] = w[j - 1]
    BY <2>1
  <2> HIDE DEF v, j
  <2>4. <<w[j], w[j - 1]>> \in Turned(E)
    BY <2>2 DEF Turned
  <2> QED BY <2>3, <2>4
<1>5. v \in Walks(N, Turned(E), d, a, h)
  BY <1>3, <1>4 DEF Walks
<1> QED BY <1>5

LEMMA FarTurns ==
  ASSUME NEW N, NEW E \in SUBSET (N \X N), NEW a, NEW d, NEW h \in Nat
  PROVE  Far(N, E, a, d, h) <=> Far(N, Turned(E), d, a, h)
<1>1. Turned(E) \in SUBSET (N \X N)
  BY DEF Turned
<1>2. Turned(Turned(E)) = E
  <2>1. ASSUME NEW e \in E PROVE e \in Turned(Turned(E))
    <3>1. <<e[2], e[1]>> \in Turned(E) /\ e = <<e[1], e[2]>>
      BY DEF Turned
    <3> DEFINE x == <<e[2], e[1]>>
    <3>2. <<x[2], x[1]>> \in Turned(Turned(E)) /\ x[2] = e[1] /\ x[1] = e[2]
      BY <3>1 DEF Turned
    <3> QED BY <3>1, <3>2
  <2>2. ASSUME NEW e \in Turned(Turned(E)) PROVE e \in E
    <3>1. PICK x \in Turned(E) : e = <<x[2], x[1]>>
      BY DEF Turned
    <3>2. PICK y \in E : x = <<y[2], y[1]>>
      BY DEF Turned
    <3>3. y = <<y[1], y[2]>> /\ e = <<y[1], y[2]>>
      BY <3>1, <3>2
    <3> QED BY <3>3
  <2> QED BY <2>1, <2>2
<1>3. ASSUME NEW k \in Nat
      PROVE  Walks(N, E, a, d, k) # {} <=> Walks(N, Turned(E), d, a, k) # {}
  BY <1>1, <1>2, WalkTurns
<1> QED BY <1>3 DEF Far
=============================================================================
