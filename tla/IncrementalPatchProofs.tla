----------------------- MODULE IncrementalPatchProofs -----------------------
(* What the region of incremental_patch is good for, for every set of      *)
(* tables and statements: while the changes come one at a time and none    *)
(* names a table that was not upstream of its target, the patched closure  *)
(* is that of the edges, row by row; after one that does it is short and   *)
(* never wrong; and whatever comes together or fails, a pair has one row.  *)
EXTENDS IncrementalPatch, TableGraphProofs

E0 == LineageEdges(parsed)

InRegion(A, D, p) == p[1] \in A /\ p[2] \in D

(* Outside A x D the recorded pairs are the connected ones.                *)
AgreesOutside(A, D) ==
  \A p \in Tables \X Tables :
    ~InRegion(A, D, p) => (p \in Pairs(closure) <=> p \in Connected(Tables, E0))

(* Where a run stands between its two commits.                             *)
ReplacedInv ==
  \A s \in Sqls : pc[s] = "replaced" =>
    AgreesOutside(Ancestors(closure, patch[s].target), Descendants(closure, patch[s].target))

ComputedInv ==
  \A s \in Sqls : pc[s] = "computed" =>
    /\ AgreesOutside(patch[s].anc, patch[s].desc)
    /\ \A p \in Tables \X Tables :
         p \in Pairs(patch[s].rows)
           <=> p \in Connected(Tables, E0) /\ InRegion(patch[s].anc, patch[s].desc, p)

OneAtATime == \A s, u \in Sqls : pc[s] # "idle" /\ pc[u] # "idle" => s = u

Shape == /\ parsed \in [Sqls -> ParseResults]
         /\ pc \in [Sqls -> {"idle", "replaced", "computed"}]
         /\ DOMAIN patch = Sqls
         /\ Pairs(closure) \subseteq Tables \X Tables
         /\ \A s \in Sqls : Pairs(patch[s].rows) \subseteq Tables \X Tables

IInv == /\ Shape
        /\ drift = "none" => /\ OneAtATime
                             /\ KnownUpstreamPairsExact
                             /\ ReplacedInv
                             /\ ComputedInv

(* A set of rows lists t's ancestors by its pairs.                         *)
LEMMA RegionByPairs ==
  ASSUME NEW rows, NEW t
  PROVE  /\ \A a : a \in Ancestors(rows, t) <=> a = t \/ <<a, t>> \in Pairs(rows)
         /\ \A d : d \in Descendants(rows, t) <=> d = t \/ <<t, d>> \in Pairs(rows)
<1>1. \A a : <<a, t>> \in Pairs(rows) <=> \E r \in rows : r[1] = a /\ r[2] = t
  BY DEF Pairs
<1>2. \A d : <<t, d>> \in Pairs(rows) <=> \E r \in rows : r[1] = t /\ r[2] = d
  BY DEF Pairs
<1>3. QED
  BY <1>1, <1>2 DEF Ancestors, Descendants

(* Restricting rows to a region restricts their pairs.                     *)
LEMMA PairsWithin ==
  ASSUME NEW rows, NEW A, NEW D
  PROVE  /\ \A p : p \in Pairs(Within(rows, A, D)) <=> p \in Pairs(rows) /\ InRegion(A, D, p)
         /\ \A p : p \in Pairs(rows \ Within(rows, A, D))
                     <=> p \in Pairs(rows) /\ ~InRegion(A, D, p)
BY DEF Pairs, Within, InRegion

(* The pairs of two sets of rows together.                                 *)
LEMMA PairsUnion ==
  ASSUME NEW R, NEW S
  PROVE  Pairs(R \cup S) = Pairs(R) \cup Pairs(S)
BY DEF Pairs

(* Edges join tables.                                                      *)
LEMMA EdgeEnds ==
  ASSUME NEW p \in [Sqls -> ParseResults]
  PROVE  LineageEdges(p) \in SUBSET (Tables \X Tables)
BY DEF LineageEdges, EdgesOf

(* Replacing the edges of s changes incoming edges of its target only.     *)
LEMMA ReplaceTouchesTarget ==
  ASSUME Shape, NEW s \in Sqls, NEW r \in ParseResults, SameTarget(s, r)
  PROVE  LET F == LineageEdges([parsed EXCEPT ![s] = r])
         IN  /\ \A e \in E0 \ F : e[2] = PatchTarget(s, r)
             /\ \A e \in F \ E0 : e \in EdgesOf(r) /\ e[2] = PatchTarget(s, r)
<1> DEFINE F == LineageEdges([parsed EXCEPT ![s] = r])
<1>1. \A u \in Sqls : u # s => [parsed EXCEPT ![s] = r][u] = parsed[u]
  BY DEF Shape
<1>2. [parsed EXCEPT ![s] = r][s] = r
  BY DEF Shape
<1>3. \A e \in E0 \ F : e \in EdgesOf(parsed[s])
  BY <1>1 DEF E0, LineageEdges
<1>4. \A e \in F \ E0 : e \in EdgesOf(r)
  BY <1>1, <1>2 DEF E0, LineageEdges
<1>5. \A x \in ParseResults : \A e \in EdgesOf(x) : e[2] = PatchTarget(s, x)
  <2> SUFFICES ASSUME NEW x \in ParseResults, NEW e \in EdgesOf(x)
               PROVE  e[2] = PatchTarget(s, x)
    OBVIOUS
  <2>1. e[2] = x.target /\ e[2] \in Tables
    BY DEF EdgesOf
  <2>2. QED
    BY <2>1, SqlAssumption DEF PatchTarget
<1>6. parsed[s] \in ParseResults
  BY DEF Shape
<1>7. \A e \in E0 \ F : e[2] = PatchTarget(s, r)
  BY <1>3, <1>5, <1>6 DEF SameTarget
<1>8. QED
  BY <1>4, <1>5, <1>7

-----------------------------------------------------------------------------
(* The inductive invariant holds for any lineage with its closure.         *)
LEMMA InitInv == Init => IInv
<1> SUFFICES ASSUME Init PROVE IInv
  OBVIOUS
<1> USE DEF Init
<1>1. Pairs(closure) = Connected(Tables, E0)
  BY PairsOfRows DEF E0
<1>2. Connected(Tables, E0) \subseteq Tables \X Tables
  BY DEF Connected
<1>3. \A s \in Sqls : Pairs(patch[s].rows) = {}
  BY DEF NoPatch, Pairs
<1>4. parsed \in [Sqls -> ParseResults]
  OBVIOUS
<1>5. Shape
  BY <1>1, <1>2, <1>3, <1>4 DEF Shape
<1>6. OneAtATime /\ ReplacedInv /\ ComputedInv
  BY DEF OneAtATime, ReplacedInv, ComputedInv
<1>7. KnownUpstreamPairsExact
  BY <1>1 DEF KnownUpstreamPairsExact, E0
<1>8. QED
  BY <1>5, <1>6, <1>7 DEF IInv

(* Replacing a statement's edges puts the closure wrong at most inside the *)
(* region around its target, while no new upstream is named.               *)
LEMMA ReplaceEdgesInv ==
  ASSUME IInv, NEW s \in Sqls, NEW r \in Results[s], ReplaceEdges(s, r)
  PROVE  IInv'
<1> USE DEF ReplaceEdges
<1>1. r \in ParseResults
  BY SqlAssumption
<1>2. Shape'
  <2>1. parsed' \in [Sqls -> ParseResults] /\ pc' \in [Sqls -> {"idle", "replaced", "computed"}]
    BY <1>1 DEF IInv, Shape
  <2>2. Pairs(NoPatch.rows) = {}
    BY DEF NoPatch, Pairs
  <2>3. DOMAIN patch' = Sqls
    BY DEF IInv, Shape
  <2>4. \A u \in Sqls : Pairs(patch'[u].rows) \subseteq Tables \X Tables
    <3> SUFFICES ASSUME NEW u \in Sqls PROVE Pairs(patch'[u].rows) \subseteq Tables \X Tables
      OBVIOUS
    <3>1. CASE u = s
      <4>1. patch'[u].rows = NoPatch.rows
        BY <3>1 DEF IInv, Shape, NoPatch
      <4>2. QED
        BY <2>2, <4>1
    <3>2. CASE u # s
      BY <3>2 DEF IInv, Shape
    <3>3. QED
      BY <3>1, <3>2
  <2>5. QED
    BY <2>1, <2>3, <2>4 DEF IInv, Shape
<1>3. ASSUME drift' = "none" PROVE drift = "none" /\ Idle /\ SameTarget(s, r) /\ KnownUpstream(s, r)
  BY <1>3 DEF DriftAfter
<1>4. ASSUME drift' = "none"
      PROVE  /\ \A u \in Sqls : pc'[u] = IF u = s THEN "replaced" ELSE "idle"
             /\ OneAtATime' /\ ComputedInv' /\ ~Idle'
  <2>1. \A u \in Sqls : pc'[u] = IF u = s THEN "replaced" ELSE "idle"
    BY <1>3, <1>4 DEF Idle, IInv, Shape
  <2>2. QED
    BY <2>1 DEF OneAtATime, ComputedInv, Idle
<1>5. ASSUME drift' = "none" PROVE ReplacedInv'
  <2> DEFINE t == PatchTarget(s, r)
             A == Ancestors(closure, t)
             D == Descendants(closure, t)
             F == LineageEdges(parsed')
  <2>1. drift = "none" /\ Idle /\ SameTarget(s, r) /\ KnownUpstream(s, r)
    BY <1>3, <1>5
  <2>2. Pairs(closure) = Connected(Tables, E0)
    BY <2>1 DEF IInv, KnownUpstreamPairsExact, E0
  <2>3. patch'[s].target = t /\ closure' = closure /\ E0' = F
    BY DEF IInv, Shape, NoPatch, E0
  <2>4. t \in Tables
    BY <1>1, SqlAssumption DEF PatchTarget, ParseResults
  <2>5. E0 \in SUBSET (Tables \X Tables) /\ F \in SUBSET (Tables \X Tables)
    BY <1>2, EdgeEnds DEF IInv, Shape, E0
  <2>6. /\ \A e \in E0 \ F : e[2] = t
        /\ \A e \in F \ E0 : e[2] = t /\ (e[1] = t \/ Reaches(Tables, E0, e[1], t))
    <3>1. /\ \A e \in E0 \ F : e[2] = t
          /\ \A e \in F \ E0 : e \in EdgesOf(r) /\ e[2] = t
      BY <1>1, <2>1, ReplaceTouchesTarget DEF IInv
    <3>2. \A e \in EdgesOf(r) \ E0 : e[1] = t \/ Reaches(Tables, E0, e[1], t)
      BY <2>1 DEF KnownUpstream, E0
    <3>3. QED
      BY <3>1, <3>2
  <2>7. /\ \A a \in Tables : a \in A <=> a = t \/ Reaches(Tables, E0, a, t)
        /\ \A d \in Tables : d \in D <=> d = t \/ Reaches(Tables, E0, t, d)
    <3>1. \A a \in Tables : a # t => (<<a, t>> \in Pairs(closure) <=> Reaches(Tables, E0, a, t))
      BY <2>2, <2>4 DEF Connected
    <3>2. \A d \in Tables : d # t => (<<t, d>> \in Pairs(closure) <=> Reaches(Tables, E0, t, d))
      BY <2>2, <2>4 DEF Connected
    <3>3. QED
      BY <3>1, <3>2, RegionByPairs
  <2>8. ASSUME NEW a \in Tables, NEW d \in Tables, ~(a \in A /\ d \in D)
        PROVE  <<a, d>> \in Pairs(closure) <=> <<a, d>> \in Connected(Tables, F)
    <3>1. ~ ((a = t \/ Reaches(Tables, E0, a, t)) /\ (d = t \/ Reaches(Tables, E0, t, d)))
      BY <2>7, <2>8
    <3>2. Reaches(Tables, E0, a, d) <=> Reaches(Tables, F, a, d)
      <4> HIDE DEF F, t
      <4>1. QED
        BY <2>4, <2>5, <2>6, <3>1, RegionUnaffected
    <3>3. QED
      BY <2>2, <3>2 DEF Connected
  <2>9. AgreesOutside(A, D)'
    <3> SUFFICES ASSUME NEW p \in Tables \X Tables, ~InRegion(A', D', p)
                 PROVE  p \in Pairs(closure') <=> p \in Connected(Tables, E0')
      BY DEF AgreesOutside, InRegion
    <3>1. A' = A /\ D' = D
      <4>1. QED
        BY <2>3 DEF PatchTarget
    <3>2. PICK a \in Tables, d \in Tables : p = <<a, d>>
      OBVIOUS
    <3>3. QED
      BY <2>3, <2>8, <3>1, <3>2 DEF InRegion
  <2>10. QED
    BY <1>4, <1>5, <2>3, <2>9 DEF ReplacedInv, PatchTarget
<1>6. QED
  BY <1>2, <1>4, <1>5 DEF IInv, KnownUpstreamPairsExact

(* The rows computed are the connected pairs of that region.               *)
LEMMA ComputeRegionInv ==
  ASSUME IInv, NEW s \in Sqls, ComputeRegion(s)
  PROVE  IInv'
<1> USE DEF ComputeRegion
<1> DEFINE A == Ancestors(closure, patch[s].target)
           D == Descendants(closure, patch[s].target)
<1>1. /\ patch'[s].anc = A /\ patch'[s].desc = D
      /\ patch'[s].rows = Within(ClosureRows(Tables, E0), A, D)
      /\ \A u \in Sqls : u # s => patch'[u] = patch[u]
      /\ DOMAIN patch' = Sqls
  BY DEF IInv, Shape, Region, E0
<1>2. \A p : p \in Pairs(patch'[s].rows) <=> p \in Connected(Tables, E0) /\ InRegion(A, D, p)
  <2> DEFINE C == ClosureRows(Tables, E0)
  <2>1. Pairs(C) = Connected(Tables, E0)
    BY PairsOfRows
  <2>2. \A p : p \in Pairs(Within(C, A, D)) <=> p \in Pairs(C) /\ InRegion(A, D, p)
    <3> HIDE DEF C, A, D
    <3>1. QED
      BY PairsWithin
  <2>3. QED
    BY <1>1, <2>1, <2>2
<1>3. drift = "none" => \A u \in Sqls : u # s => pc'[u] = "idle"
  BY DEF IInv, Shape, OneAtATime
<1>4. pc'[s] = "computed" /\ E0' = E0 /\ closure' = closure /\ drift' = drift
  BY DEF IInv, Shape, E0
<1>5. Shape'
  <2>1. Connected(Tables, E0) \subseteq Tables \X Tables
    BY DEF Connected
  <2>2. \A u \in Sqls : Pairs(patch'[u].rows) \subseteq Tables \X Tables
    BY <1>1, <1>2, <2>1 DEF IInv, Shape
  <2>3. QED
    BY <1>1, <2>2 DEF IInv, Shape
<1>6. drift = "none" => OneAtATime' /\ ~Idle' /\ ReplacedInv'
  BY <1>3, <1>4 DEF OneAtATime, Idle, ReplacedInv
<1>7. ASSUME drift = "none" PROVE ComputedInv'
  <2>1. AgreesOutside(A, D)
    BY <1>7 DEF IInv, ReplacedInv
  <2>2. AgreesOutside(patch[s].anc, patch[s].desc)'
    BY <1>1, <1>4, <2>1 DEF AgreesOutside, InRegion
  <2>3. QED
    BY <1>1, <1>2, <1>3, <1>4, <1>7, <2>2 DEF ComputedInv, InRegion
<1>8. QED
  BY <1>4, <1>5, <1>6, <1>7 DEF IInv, KnownUpstreamPairsExact

(* A run that ends without a patch claims nothing about the closure.       *)
LEMMA RunEnds ==
  ASSUME IInv, NEW s \in Sqls,
         patch' = [patch EXCEPT ![s] = NoPatch], pc' = [pc EXCEPT ![s] = "idle"],
         UNCHANGED parsed, Pairs(closure') \subseteq Tables \X Tables
  PROVE  Shape' /\ (\A u \in Sqls : u # s => pc'[u] = pc[u]) /\ pc'[s] = "idle"
<1>1. Pairs(NoPatch.rows) = {}
  BY DEF NoPatch, Pairs
<1>2. \A u \in Sqls : pc'[u] = IF u = s THEN "idle" ELSE pc[u]
  BY DEF IInv, Shape
<1>3. \A u \in Sqls : patch'[u] = IF u = s THEN NoPatch ELSE patch[u]
  BY DEF IInv, Shape
<1>4. Shape'
  BY <1>1, <1>2, <1>3 DEF IInv, Shape
<1>5. QED
  BY <1>2, <1>4

(* Region replaced, the closure is exact again.                            *)
LEMMA CommitPatchInv ==
  ASSUME IInv, NEW s \in Sqls, CommitPatch(s)
  PROVE  IInv'
<1> USE DEF CommitPatch
<1>1. \A p : p \in Pairs(closure)' <=>
        \/ p \in Pairs(closure) /\ ~InRegion(patch[s].anc, patch[s].desc, p)
        \/ p \in Pairs(patch[s].rows)
  <2>1. Pairs(closure)' = Pairs(closure \ Within(closure, patch[s].anc, patch[s].desc))
                            \cup Pairs(patch[s].rows)
    BY PairsUnion DEF Pairs
  <2>2. \A p : p \in Pairs(closure \ Within(closure, patch[s].anc, patch[s].desc))
                <=> p \in Pairs(closure) /\ ~InRegion(patch[s].anc, patch[s].desc, p)
    BY PairsWithin
  <2>3. \A p : p \in Pairs(closure)' <=>
          \/ p \in Pairs(closure \ Within(closure, patch[s].anc, patch[s].desc))
          \/ p \in Pairs(patch[s].rows)
    BY <2>1
  <2>4. QED
    BY <2>2, <2>3
<1>2. Pairs(closure') \subseteq Tables \X Tables
  BY <1>1 DEF IInv, Shape
<1>3. Shape' /\ (\A u \in Sqls : u # s => pc'[u] = pc[u]) /\ pc'[s] = "idle"
  BY <1>2, RunEnds
<1>4. drift = "none" => \A u \in Sqls : pc'[u] = "idle"
  BY <1>3 DEF IInv, OneAtATime
<1>5. ASSUME drift = "none" PROVE Pairs(closure)' = Connected(Tables, E0)
  <2>1. \A p \in Tables \X Tables : p \in Pairs(closure)' <=> p \in Connected(Tables, E0)
    BY <1>1, <1>5 DEF IInv, ComputedInv, AgreesOutside
  <2>2. Connected(Tables, E0) \subseteq Tables \X Tables
    BY DEF Connected
  <2>3. QED
    BY <1>2, <2>1, <2>2
<1>6. drift' = "none" => KnownUpstreamPairsExact'
  BY <1>5 DEF KnownUpstreamPairsExact, E0
<1>7. drift = "none" => OneAtATime' /\ ReplacedInv' /\ ComputedInv'
  BY <1>4 DEF OneAtATime, ReplacedInv, ComputedInv
<1>8. QED
  BY <1>3, <1>6, <1>7 DEF IInv

(* A degraded run gives up the claim: drift is "lost".                     *)
LEMMA DegradeInv ==
  ASSUME IInv, NEW s \in Sqls, Degrade(s)
  PROVE  IInv'
<1>1. Pairs(closure') \subseteq Tables \X Tables
  BY DEF Degrade, IInv, Shape
<1>2. Shape'
  BY <1>1, RunEnds DEF Degrade
<1>3. QED
  BY <1>2 DEF Degrade, IInv

(* So does a run that fails.                                               *)
LEMMA InterruptPatchInv ==
  ASSUME IInv, NEW s \in Sqls, InterruptPatch(s)
  PROVE  IInv'
<1>1. PICK A \in SUBSET patch[s].anc, R \in SUBSET patch[s].rows :
        closure' = (closure \ Within(closure, A, patch[s].desc)) \cup R
  BY DEF InterruptPatch
<1>2. Pairs(closure') \subseteq Pairs(closure) \cup Pairs(patch[s].rows)
  BY <1>1 DEF Pairs
<1>3. Pairs(closure') \subseteq Tables \X Tables
  BY <1>2 DEF IInv, Shape
<1>4. Shape'
  BY <1>3, RunEnds DEF InterruptPatch
<1>5. QED
  BY <1>4 DEF InterruptPatch, IInv

(* The inductive invariant is kept by every step.                          *)
LEMMA IInvKept == IInv /\ [Next]_vars => IInv'
<1> SUFFICES ASSUME IInv, [Next]_vars PROVE IInv'
  OBVIOUS
<1>1. ASSUME NEW s \in Sqls, NEW r \in Results[s], ReplaceEdges(s, r) PROVE IInv'
  BY <1>1, ReplaceEdgesInv
<1>2. ASSUME NEW s \in Sqls, ComputeRegion(s) PROVE IInv'
  BY <1>2, ComputeRegionInv
<1>3. ASSUME NEW s \in Sqls, Degrade(s) PROVE IInv'
  BY <1>3, DegradeInv
<1>4. ASSUME NEW s \in Sqls, CommitPatch(s) PROVE IInv'
  BY <1>4, CommitPatchInv
<1>5. ASSUME NEW s \in Sqls, InterruptPatch(s) PROVE IInv'
  BY <1>5, InterruptPatchInv
<1>6. CASE UNCHANGED vars
  BY <1>6 DEF vars, IInv, Shape, OneAtATime, KnownUpstreamPairsExact, ReplacedInv,
              ComputedInv, AgreesOutside, E0, Idle
<1> QED BY <1>1, <1>2, <1>3, <1>4, <1>5, <1>6 DEF Next

(* The closure connects exactly the tables the edges connect whenever no   *)
(* run is under way and every change so far came alone, kept its target    *)
(* and named no new upstream table.                                        *)
THEOREM PatchExact == Spec => []KnownUpstreamPairsExact
<1>1. Init => IInv
  BY InitInv
<1>2. IInv => KnownUpstreamPairsExact
  BY DEF IInv, KnownUpstreamPairsExact
<1> QED BY <1>1, <1>2, IInvKept, PTL DEF Spec

-----------------------------------------------------------------------------
(* A pair has one row. *)
OneRow(rows) == \A x, y \in rows : x[1] = y[1] /\ x[2] = y[2] => x = y

(* Nothing is inserted but one row of each pair, inside the region deleted. *)
RowInv ==
  /\ OneRow(closure)
  /\ DOMAIN patch = Sqls
  /\ \A s \in Sqls : /\ OneRow(patch[s].rows)
                     /\ \A r \in patch[s].rows : r[1] \in patch[s].anc /\ r[2] \in patch[s].desc

(* The rows of a graph have one for each pair.                             *)
LEMMA OneRowEach ==
  ASSUME NEW N, NEW E, NEW A, NEW D
  PROVE  OneRow(ClosureRows(N, E)) /\ OneRow(Within(ClosureRows(N, E), A, D))
<1>1. ASSUME NEW x \in ClosureRows(N, E)
      PROVE  x = <<x[1], x[2], Distance(N, E, x[1], x[2]), ShortestPaths(N, E, x[1], x[2])>>
  BY DEF ClosureRows
<1>2. OneRow(ClosureRows(N, E))
  BY <1>1 DEF OneRow
<1> QED BY <1>2 DEF OneRow, Within

(* Rows of a region, one of each pair, take the place of those of it. *)
LEMMA RowsReplaced ==
  ASSUME NEW old, NEW new, OneRow(old), OneRow(new), NEW A, NEW D,
         \A r \in new : r[1] \in A /\ r[2] \in D
  PROVE  OneRow((old \ Within(old, A, D)) \cup new)
BY DEF OneRow, Within

(* A run that has ended holds no rows.                                     *)
LEMMA NoPatchRows == NoPatch.rows = {}
BY DEF NoPatch

(* Whatever a run inserts it has deleted before.                           *)
LEMMA RowsKept ==
  ASSUME RowInv, [Next]_vars
  PROVE  RowInv'
<1>1. ASSUME NEW s \in Sqls, NEW n, patch' = [patch EXCEPT ![s] = n],
             OneRow(closure'), OneRow(n.rows),
             \A r \in n.rows : r[1] \in n.anc /\ r[2] \in n.desc
      PROVE  RowInv'
  <2>1. \A u \in Sqls : patch'[u] = IF u = s THEN n ELSE patch[u]
    BY <1>1 DEF RowInv
  <2> QED BY <1>1, <2>1 DEF RowInv, OneRow
<1>2. ASSUME NEW s \in Sqls, patch' = [patch EXCEPT ![s] = NoPatch], OneRow(closure')
      PROVE  RowInv'
  <2> DEFINE n == NoPatch
  <2>1. n.rows = {}
    BY NoPatchRows
  <2>2. OneRow(n.rows)
    BY <2>1 DEF OneRow
  <2> HIDE DEF n
  <2>3. patch' = [patch EXCEPT ![s] = n]
    BY <1>2 DEF n
  <2> QED BY <1>1, <1>2, <2>1, <2>2, <2>3
<1>3. ASSUME NEW s \in Sqls, NEW r \in Results[s], ReplaceEdges(s, r) PROVE RowInv'
  <2> DEFINE n == [NoPatch EXCEPT !.target = PatchTarget(s, r)]
  <2>1. n.rows = {}
    BY DEF NoPatch
  <2>2. OneRow(n.rows)
    BY <2>1 DEF OneRow
  <2>3. patch' = [patch EXCEPT ![s] = n] /\ closure' = closure
    BY <1>3 DEF ReplaceEdges
  <2> HIDE DEF n
  <2> QED BY <1>1, <2>1, <2>2, <2>3 DEF RowInv
<1>4. ASSUME NEW s \in Sqls, ComputeRegion(s) PROVE RowInv'
  <2> DEFINE A == Region(s).anc
             D == Region(s).desc
             R == Within(ClosureRows(Tables, LineageEdges(parsed)), A, D)
             n == [target |-> patch[s].target, anc |-> A, desc |-> D, rows |-> R]
  <2>1. closure' = closure /\ patch' = [patch EXCEPT ![s] = n]
    BY <1>4 DEF ComputeRegion
  <2>2. OneRow(R)
    BY OneRowEach
  <2>3. \A r \in R : r[1] \in A /\ r[2] \in D
    BY DEF Within
  <2>4. n.anc = A /\ n.desc = D /\ n.rows = R
    <3> HIDE DEF A, D, R
    <3> QED OBVIOUS
  <2> HIDE DEF n, A, D, R
  <2> QED BY <1>1, <2>1, <2>2, <2>3, <2>4 DEF RowInv
<1>5. ASSUME NEW s \in Sqls, Degrade(s) PROVE RowInv'
  BY <1>2, <1>5 DEF Degrade, RowInv
<1>6. ASSUME NEW s \in Sqls, CommitPatch(s) PROVE RowInv'
  <2>1. OneRow(closure')
    BY <1>6, RowsReplaced DEF CommitPatch, RowInv
  <2> QED BY <1>2, <1>6, <2>1 DEF CommitPatch
<1>7. ASSUME NEW s \in Sqls, InterruptPatch(s) PROVE RowInv'
  <2>1. PICK A \in SUBSET patch[s].anc, R \in SUBSET patch[s].rows :
          /\ R # {} => A = patch[s].anc
          /\ closure' = (closure \ Within(closure, A, patch[s].desc)) \cup R
    BY <1>7 DEF InterruptPatch
  <2>2. OneRow(R) /\ \A r \in R : r[1] \in A /\ r[2] \in patch[s].desc
    BY <2>1 DEF RowInv, OneRow
  <2>3. OneRow(closure')
    BY <2>1, <2>2, RowsReplaced DEF RowInv
  <2> QED BY <1>2, <1>7, <2>3 DEF InterruptPatch
<1>8. CASE UNCHANGED vars
  BY <1>8 DEF vars, RowInv
<1> QED BY <1>3, <1>4, <1>5, <1>6, <1>7, <1>8 DEF Next

(* An insert never meets a row the deletes left: whatever runs interleave  *)
(* and fail, a pair has one row in table_closure.                          *)
THEOREM RowsUnique == Spec => []NoDuplicateRow
<1>1. Init => RowInv
  <2> SUFFICES ASSUME Init PROVE RowInv
    OBVIOUS
  <2>1. OneRow(closure)
    BY OneRowEach DEF Init
  <2>2. \A s \in Sqls : patch[s].rows = {}
    BY NoPatchRows DEF Init
  <2> QED BY <2>1, <2>2 DEF RowInv, OneRow, Init
<1>2. RowInv => NoDuplicateRow
  BY DEF RowInv, OneRow, NoDuplicateRow
<1> QED BY <1>1, <1>2, RowsKept, PTL DEF Spec

-----------------------------------------------------------------------------
(* What a newly named upstream leaves: outside the region every pair       *)
(* recorded is connected, and those missing lead from a table the closure  *)
(* does not list upstream of t to one that t reaches.                      *)
Short(t, A, D) ==
  /\ \A p \in Pairs(closure) : ~InRegion(A, D, p) => p \in Connected(Tables, E0)
  /\ \A p \in Connected(Tables, E0) \ Pairs(closure) :
       ~InRegion(A, D, p) => p[1] \notin A /\ p[2] \in D
  /\ \A d \in D : d \in Tables /\ (d = t \/ Reaches(Tables, E0, t, d))

(* The target a run has noted is that of its text.                         *)
Targets == \A s \in Sqls : pc[s] # "idle" => patch[s].target = PatchTarget(s, parsed[s])

(* How short the closure is between the two commits of such a run.         *)
ShortInv ==
  \A s \in Sqls :
    LET t == PatchTarget(s, parsed[s]) IN
    /\ pc[s] = "replaced" => Short(t, Ancestors(closure, t), Descendants(closure, t))
    /\ pc[s] = "computed" =>
         /\ patch[s].anc = Ancestors(closure, t) /\ patch[s].desc = Descendants(closure, t)
         /\ Short(t, patch[s].anc, patch[s].desc)
         /\ \A p : p \in Pairs(patch[s].rows)
                     <=> p \in Connected(Tables, E0) /\ InRegion(patch[s].anc, patch[s].desc, p)

(* What holds after one change that named a new upstream.                  *)
UpstreamInv ==
  /\ IInv
  /\ Targets
  /\ drift = "upstream" => OneAtATime /\ ShortInv /\ NewUpstreamOnlyOmits

(* Replaced edges leave the old closure short in this way. *)
LEMMA ReplacedShort ==
  ASSUME Shape, Pairs(closure) = Connected(Tables, E0), NEW s \in Sqls, NEW r \in ParseResults,
         SameTarget(s, r), parsed' = [parsed EXCEPT ![s] = r], closure' = closure
  PROVE  LET t == PatchTarget(s, r)
         IN  Short(t, Ancestors(closure, t), Descendants(closure, t))'
<1> DEFINE t == PatchTarget(s, r)
           F == LineageEdges([parsed EXCEPT ![s] = r])
           A == Ancestors(closure, t)
           D == Descendants(closure, t)
<1>1. t \in Tables
  BY SqlAssumption DEF PatchTarget, ParseResults
<1>2. E0 \in SUBSET (Tables \X Tables) /\ F \in SUBSET (Tables \X Tables)
  <2>1. [parsed EXCEPT ![s] = r] \in [Sqls -> ParseResults]
    BY DEF Shape
  <2> QED BY <2>1, EdgeEnds DEF E0, Shape
<1>3. (\A e \in E0 \ F : e[2] = t) /\ (\A e \in F \ E0 : e[2] = t)
  BY ReplaceTouchesTarget
<1>4. E0' = F /\ closure' = closure /\ t' = t
  BY DEF E0
<1>10. A' = A /\ D' = D
  BY <1>4 DEF Ancestors, Descendants
<1> HIDE DEF t, F
<1>5. /\ \A a \in Tables : a \in A <=> a = t \/ Reaches(Tables, E0, a, t)
      /\ \A d \in Tables : d \in D <=> d = t \/ Reaches(Tables, E0, t, d)
      /\ D \subseteq Tables
  <2>1. /\ \A a : a \in A <=> a = t \/ <<a, t>> \in Connected(Tables, E0)
        /\ \A d : d \in D <=> d = t \/ <<t, d>> \in Connected(Tables, E0)
    BY RegionByPairs
  <2>2. /\ \A a : <<a, t>> \in Connected(Tables, E0)
                    <=> a \in Tables /\ a # t /\ Reaches(Tables, E0, a, t)
        /\ \A d : <<t, d>> \in Connected(Tables, E0)
                    <=> d \in Tables /\ t # d /\ Reaches(Tables, E0, t, d)
    BY <1>1 DEF Connected
  <2> HIDE DEF A, D
  <2> QED BY <1>1, <2>1, <2>2
<1> HIDE DEF A, D
<1>6. ASSUME NEW p \in Connected(Tables, E0), ~InRegion(A, D, p)
      PROVE  p \in Connected(Tables, F)
  <2>1. /\ p \in Tables \X Tables /\ p[1] \in Tables /\ p[2] \in Tables
        /\ p[1] # p[2] /\ Reaches(Tables, E0, p[1], p[2])
    BY DEF Connected
  <2>2. Reaches(Tables, F, p[1], p[2])
    BY <1>1, <1>2, <1>3, <1>5, <1>6, <2>1, RegionKeeps DEF InRegion
  <2> QED BY <2>1, <2>2 DEF Connected
<1>7. ASSUME NEW p \in Connected(Tables, F) \ Connected(Tables, E0), ~InRegion(A, D, p)
      PROVE  p[1] \notin A /\ p[2] \in D
  <2>1. /\ p \in Tables \X Tables /\ p[1] \in Tables /\ p[2] \in Tables
        /\ p[1] # p[2] /\ Reaches(Tables, F, p[1], p[2]) /\ ~Reaches(Tables, E0, p[1], p[2])
    BY DEF Connected
  <2>2. Reaches(Tables, F, t, p[2])
    BY <1>1, <1>2, <1>3, <2>1, NewlyReached
  <2>3. Reaches(Tables, E0, t, p[2])
    BY <1>1, <1>2, <1>3, <2>1, <2>2, TargetReaches
  <2> QED BY <1>5, <1>7, <2>1, <2>3 DEF InRegion
<1>8. ASSUME NEW d \in D PROVE d \in Tables /\ (d = t \/ Reaches(Tables, F, t, d))
  BY <1>1, <1>2, <1>3, <1>5, TargetReaches
<1>9. Short(t, A, D)'
  <2>1. \A p \in Pairs(closure) : ~InRegion(A, D, p) => p \in Connected(Tables, F)
    BY <1>6
  <2>2. \A p \in Connected(Tables, F) \ Pairs(closure) :
          ~InRegion(A, D, p) => p[1] \notin A /\ p[2] \in D
    BY <1>7
  <2>3. Pairs(closure)' = Pairs(closure)
    BY <1>4 DEF Pairs
  <2> QED BY <1>4, <1>10, <1>8, <2>1, <2>2, <2>3 DEF Short, InRegion
<1> QED BY <1>9 DEF A, D, t

(* The region deleted and written again, every pair recorded is connected  *)
(* and one that is missing leads from where t's ancestors are not to what  *)
(* t reaches.                                                              *)
LEMMA CommitOmits ==
  ASSUME IInv, NEW s \in Sqls, pc[s] = "computed", ShortInv, CommitPatch(s)
  PROVE  NewUpstreamOnlyOmits'
<1> DEFINE t == PatchTarget(s, parsed[s])
           A == patch[s].anc
           D == patch[s].desc
<1>1. t \in Tables
  BY SqlAssumption DEF PatchTarget, ParseResults, IInv, Shape
<1>2. A = Ancestors(closure, t) /\ D = Descendants(closure, t)
  BY DEF ShortInv
<1>3. /\ Short(t, A, D)
      /\ \A p : p \in Pairs(patch[s].rows) <=> p \in Connected(Tables, E0) /\ InRegion(A, D, p)
  BY DEF ShortInv
<1>4. parsed' = parsed
  BY DEF CommitPatch
<1>5. \A p : p \in Pairs(closure') <=>
        \/ p \in Pairs(closure) /\ ~InRegion(A, D, p)
        \/ p \in Connected(Tables, E0) /\ InRegion(A, D, p)
  <2>1. closure' = (closure \ Within(closure, A, D)) \cup patch[s].rows
    BY DEF CommitPatch
  <2> DEFINE R == patch[s].rows
  <2> HIDE DEF A, D, R
  <2>2. Pairs(closure') = Pairs(closure \ Within(closure, A, D)) \cup Pairs(R)
    BY <2>1, PairsUnion DEF R
  <2>3. \A p : p \in Pairs(closure \ Within(closure, A, D))
                 <=> p \in Pairs(closure) /\ ~InRegion(A, D, p)
    BY PairsWithin
  <2> QED BY <1>3, <2>2, <2>3 DEF R
<1>6. /\ \A a : a \in A <=> a = t \/ <<a, t>> \in Pairs(closure)
      /\ \A d : d \in D <=> d = t \/ <<t, d>> \in Pairs(closure)
  BY <1>2, RegionByPairs
<1> HIDE DEF t, A, D
<1>7. ASSUME NEW p \in Connected(Tables, E0), p \notin Pairs(closure')
      PROVE  <<p[1], t>> \notin Pairs(closure') /\ p[2] \in Descendants(closure', t)
  <2>1. ~InRegion(A, D, p) /\ p \notin Pairs(closure)
    BY <1>5, <1>7
  <2>2. p[1] \notin A /\ p[2] \in D
    BY <1>3, <2>1 DEF Short
  <2>3. <<p[1], t>> \notin Pairs(closure')
    BY <1>5, <1>6, <2>2 DEF InRegion
  <2>4. p[2] \in Tables /\ (p[2] = t \/ Reaches(Tables, E0, t, p[2]))
    BY <1>3, <2>2 DEF Short
  <2>5. ASSUME p[2] # t PROVE <<t, p[2]>> \in Pairs(closure')
    <3>1. <<t, p[2]>> \in Connected(Tables, E0)
      BY <1>1, <2>4, <2>5 DEF Connected
    <3> QED BY <1>5, <1>6, <2>2, <3>1 DEF InRegion
  <2>6. p[2] \in Descendants(closure', t)
    BY <2>5, RegionByPairs
  <2> QED BY <2>3, <2>6
<1>8. Pairs(closure') \subseteq Connected(Tables, E0)
  BY <1>3, <1>5 DEF Short
<1>9. \A p \in Connected(Tables, E0) \ Pairs(closure') :
        \E u \in Sqls : /\ <<p[1], PatchTarget(u, parsed[u])>> \notin Pairs(closure')
                        /\ p[2] \in Descendants(closure', PatchTarget(u, parsed[u]))
  BY <1>7 DEF t
<1> QED BY <1>4, <1>8, <1>9 DEF NewUpstreamOnlyOmits, E0

(* A statement under way has the target of its text.                       *)
LEMMA TargetsKept ==
  ASSUME IInv, Targets, [Next]_vars
  PROVE  Targets'
<1>1. ASSUME NEW s \in Sqls, NEW r \in Results[s], ReplaceEdges(s, r) PROVE Targets'
  <2>1. \A u \in Sqls : /\ parsed'[u] = IF u = s THEN r ELSE parsed[u]
                        /\ u # s => patch'[u] = patch[u] /\ pc'[u] = pc[u]
    BY <1>1 DEF ReplaceEdges, IInv, Shape
  <2>2. patch'[s].target = PatchTarget(s, r)
    BY <1>1 DEF ReplaceEdges, IInv, Shape, NoPatch
  <2> QED BY <2>1, <2>2 DEF Targets, PatchTarget
<1>2. ASSUME NEW s \in Sqls, ComputeRegion(s) PROVE Targets'
  <2>1. \A u \in Sqls : /\ patch'[u].target = patch[u].target
                        /\ pc'[u] # "idle" => pc[u] # "idle"
    BY <1>2 DEF ComputeRegion, IInv, Shape
  <2> QED BY <1>2, <2>1 DEF ComputeRegion, Targets, PatchTarget
<1>3. ASSUME NEW s \in Sqls, parsed' = parsed,
             patch' = [patch EXCEPT ![s] = NoPatch], pc' = [pc EXCEPT ![s] = "idle"]
      PROVE  Targets'
  <2>1. pc'[s] = "idle" /\ \A u \in Sqls : u # s => patch'[u] = patch[u] /\ pc'[u] = pc[u]
    BY <1>3 DEF IInv, Shape
  <2> QED BY <1>3, <2>1 DEF Targets, PatchTarget
<1>4. CASE UNCHANGED vars
  BY <1>4 DEF vars, Targets, PatchTarget
<1> QED BY <1>1, <1>2, <1>3, <1>4 DEF Next, Degrade, CommitPatch, InterruptPatch

(* The first change that names a new upstream finds an exact closure.      *)
LEMMA ReplaceShort ==
  ASSUME IInv, NEW s \in Sqls, NEW r \in Results[s], ReplaceEdges(s, r), drift' = "upstream"
  PROVE  (OneAtATime /\ ShortInv /\ NewUpstreamOnlyOmits)'
<1>1. r \in ParseResults
  BY SqlAssumption
<1>2. drift = "none" /\ Idle /\ SameTarget(s, r)
  BY DEF ReplaceEdges, DriftAfter
<1>3. Pairs(closure) = Connected(Tables, E0)
  BY <1>2 DEF IInv, KnownUpstreamPairsExact, E0
<1>4. pc'[s] = "replaced" /\ \A u \in Sqls : u # s => pc'[u] = "idle"
  BY <1>2 DEF ReplaceEdges, Idle, IInv, Shape
<1>5. OneAtATime' /\ ~Idle'
  BY <1>4 DEF OneAtATime, Idle
<1>6. parsed'[s] = r
  BY DEF ReplaceEdges, IInv, Shape
<1> DEFINE t == PatchTarget(s, r)
<1>7. Short(t, Ancestors(closure, t), Descendants(closure, t))'
  BY <1>1, <1>2, <1>3, ReplacedShort DEF ReplaceEdges, IInv
<1>8. ShortInv'
  BY <1>4, <1>6, <1>7 DEF ShortInv, PatchTarget
<1> QED BY <1>5, <1>8 DEF NewUpstreamOnlyOmits

(* What the region of such a change was read to be. *)
LEMMA ComputeShort ==
  ASSUME IInv, Targets, OneAtATime, ShortInv, NEW s \in Sqls, ComputeRegion(s)
  PROVE  (OneAtATime /\ ShortInv /\ NewUpstreamOnlyOmits)'
<1> DEFINE t == PatchTarget(s, parsed[s])
           A == Ancestors(closure, t)
           D == Descendants(closure, t)
<1>1. pc[s] = "replaced" /\ patch[s].target = t
  BY DEF ComputeRegion, Targets
<1>2. /\ patch'[s].anc = A /\ patch'[s].desc = D
      /\ patch'[s].rows = Within(ClosureRows(Tables, E0), A, D)
  BY <1>1 DEF ComputeRegion, IInv, Shape, Region, E0
<1>3. Short(t, A, D)
  BY <1>1 DEF ShortInv
<1>4. \A p : p \in Pairs(patch'[s].rows) <=> p \in Connected(Tables, E0) /\ InRegion(A, D, p)
  <2> DEFINE C == ClosureRows(Tables, E0)
             R == patch'[s].rows
  <2>1. Pairs(C) = Connected(Tables, E0)
    BY PairsOfRows
  <2>2. R = Within(C, A, D)
    BY <1>2
  <2> HIDE DEF A, D, C, R
  <2>3. \A p : p \in Pairs(R) <=> p \in Pairs(C) /\ InRegion(A, D, p)
    BY <2>2, PairsWithin
  <2> QED BY <2>1, <2>3 DEF R
<1>5. pc'[s] = "computed" /\ \A u \in Sqls : u # s => pc'[u] = "idle"
  BY <1>1 DEF ComputeRegion, IInv, Shape, OneAtATime
<1>6. OneAtATime' /\ ~Idle'
  BY <1>5 DEF OneAtATime, Idle
<1>7. parsed' = parsed /\ closure' = closure
  BY DEF ComputeRegion
<1>8. /\ E0' = E0 /\ Pairs(closure)' = Pairs(closure)
      /\ t' = t /\ A' = A /\ D' = D
  BY <1>7 DEF E0, Pairs, Ancestors, Descendants, PatchTarget
<1>9. Short(t, patch[s].anc, patch[s].desc)'
  BY <1>2, <1>3, <1>8 DEF Short, InRegion
<1>10. ShortInv'
  <2> HIDE DEF A, D
  <2>1. ASSUME NEW u \in Sqls, pc'[u] = "computed" PROVE u = s
    BY <1>5, <2>1
  <2> QED BY <1>2, <1>4, <1>5, <1>7, <1>8, <1>9, <2>1 DEF ShortInv, InRegion, A, D
<1> QED BY <1>6, <1>10 DEF NewUpstreamOnlyOmits

(* A change that names a new upstream leaves the closure short, not wrong. *)
THEOREM ShortNotWrong == Spec => []NewUpstreamOnlyOmits
<1>1. Init => UpstreamInv
  BY InitInv DEF Init, UpstreamInv, Targets
<1>2. UpstreamInv /\ [Next]_vars => UpstreamInv'
  <2> SUFFICES ASSUME UpstreamInv, [Next]_vars PROVE UpstreamInv'
    OBVIOUS
  <2>1. IInv' /\ Targets'
    <3>1. IInv'
      BY IInvKept DEF UpstreamInv
    <3> QED BY <3>1, TargetsKept DEF UpstreamInv
  <2>2. ASSUME NEW s \in Sqls, NEW r \in Results[s], ReplaceEdges(s, r), drift' = "upstream"
        PROVE  (OneAtATime /\ ShortInv /\ NewUpstreamOnlyOmits)'
    BY <2>2, ReplaceShort DEF UpstreamInv
  <2>3. ASSUME NEW s \in Sqls, ComputeRegion(s), drift' = "upstream"
        PROVE  (OneAtATime /\ ShortInv /\ NewUpstreamOnlyOmits)'
    BY <2>3, ComputeShort DEF UpstreamInv, ComputeRegion
  <2>4. ASSUME NEW s \in Sqls, CommitPatch(s), drift' = "upstream"
        PROVE  (OneAtATime /\ ShortInv /\ NewUpstreamOnlyOmits)'
    <3>1. drift = "upstream" /\ pc[s] = "computed"
      BY <2>4 DEF CommitPatch
    <3>2. \A u \in Sqls : pc'[u] = "idle"
      BY <2>4, <3>1 DEF CommitPatch, UpstreamInv, IInv, Shape, OneAtATime
    <3>3. OneAtATime' /\ ShortInv'
      BY <3>2 DEF OneAtATime, ShortInv
    <3> QED BY <2>4, <3>1, <3>3, CommitOmits DEF UpstreamInv
  <2>5. ASSUME UNCHANGED vars, drift' = "upstream"
        PROVE  (OneAtATime /\ ShortInv /\ NewUpstreamOnlyOmits)'
    BY <2>1, <2>5 DEF vars, UpstreamInv, OneAtATime, ShortInv, Short, NewUpstreamOnlyOmits, E0, Idle
  <2>6. ASSUME drift' = "upstream" PROVE (OneAtATime /\ ShortInv /\ NewUpstreamOnlyOmits)'
    <3>1. CASE \E s \in Sqls : \E r \in Results[s] : ReplaceEdges(s, r)
      BY <2>2, <2>6, <3>1, Zenon
    <3>2. CASE \E s \in Sqls : ComputeRegion(s)
      BY <2>3, <2>6, <3>2, Zenon
    <3>3. CASE \E s \in Sqls : CommitPatch(s)
      BY <2>4, <2>6, <3>3, Zenon
    <3>4. ASSUME NEW s \in Sqls PROVE ~Degrade(s) /\ ~InterruptPatch(s)
      BY <2>6 DEF Degrade, InterruptPatch
    <3>5. CASE UNCHANGED vars
      BY <2>5, <2>6, <3>5
    <3> QED BY <3>1, <3>2, <3>3, <3>4, <3>5 DEF Next
  <2> QED BY <2>1, <2>6 DEF UpstreamInv
<1>3. UpstreamInv => NewUpstreamOnlyOmits
  BY DEF UpstreamInv, NewUpstreamOnlyOmits
<1> QED BY <1>1, <1>2, <1>3, PTL DEF Spec

-----------------------------------------------------------------------------
(* Outside A x D the recorded rows are those of the edges.                 *)
RowsAgreeOutside(A, D) ==
  \A r : ~InRegion(A, D, r) => (r \in closure <=> r \in ClosureRows(Tables, E0))

(* Where a run stands between its two commits, row for row.                *)
ReplacedRows ==
  \A s \in Sqls : pc[s] = "replaced" =>
    RowsAgreeOutside(Ancestors(closure, patch[s].target), Descendants(closure, patch[s].target))

ComputedRows ==
  \A s \in Sqls : pc[s] = "computed" =>
    /\ RowsAgreeOutside(patch[s].anc, patch[s].desc)
    /\ patch[s].rows = Within(ClosureRows(Tables, E0), patch[s].anc, patch[s].desc)

ExactInv == IInv /\ (drift = "none" => KnownUpstreamRowsExact /\ ReplacedRows /\ ComputedRows)

(* Two graphs that differ in incoming edges of t, none of them from a      *)
(* table that was not upstream of it, have the same rows outside the       *)
(* region around t.                                                        *)
LEMMA SameRowsOutside ==
  ASSUME NEW t \in Tables,
         NEW E \in SUBSET (Tables \X Tables), NEW F \in SUBSET (Tables \X Tables),
         \A e \in E \ F : e[2] = t,
         \A e \in F \ E : e[2] = t /\ (e[1] = t \/ Reaches(Tables, E, e[1], t)),
         NEW A, \A a \in Tables : a \in A <=> a = t \/ Reaches(Tables, E, a, t),
         NEW D, \A d \in Tables : d \in D <=> d = t \/ Reaches(Tables, E, t, d)
  PROVE  \A r : ~InRegion(A, D, r) => (r \in ClosureRows(Tables, E) <=> r \in ClosureRows(Tables, F))
<1>1. ASSUME NEW a \in Tables, NEW d \in Tables, a # d, ~(a \in A /\ d \in D)
      PROVE  /\ Reaches(Tables, E, a, d) <=> Reaches(Tables, F, a, d)
             /\ Reaches(Tables, E, a, d) => /\ Distance(Tables, E, a, d) = Distance(Tables, F, a, d)
                                            /\ ShortestPaths(Tables, E, a, d) = ShortestPaths(Tables, F, a, d)
  <2>1. ~ ((a = t \/ Reaches(Tables, E, a, t)) /\ (d = t \/ Reaches(Tables, E, t, d)))
    BY <1>1
  <2>2. Reaches(Tables, E, a, d) <=> Reaches(Tables, F, a, d)
    BY <2>1, RegionUnaffected
  <2>3. ASSUME Reaches(Tables, E, a, d)
        PROVE  /\ Distance(Tables, E, a, d) = Distance(Tables, F, a, d)
               /\ ShortestPaths(Tables, E, a, d) = ShortestPaths(Tables, F, a, d)
    BY <1>1, <2>1, <2>3, RowUnaffected, FiniteAssumption
  <2> QED BY <2>2, <2>3
<1>2. ASSUME NEW p \in Tables \X Tables, ~(p[1] \in A /\ p[2] \in D)
      PROVE  /\ p \in Connected(Tables, E) <=> p \in Connected(Tables, F)
             /\ p \in Connected(Tables, E) =>
                  /\ Distance(Tables, E, p[1], p[2]) = Distance(Tables, F, p[1], p[2])
                  /\ ShortestPaths(Tables, E, p[1], p[2]) = ShortestPaths(Tables, F, p[1], p[2])
  <2>1. p[1] \in Tables /\ p[2] \in Tables
    OBVIOUS
  <2> QED BY <1>1, <1>2, <2>1 DEF Connected
<1>3. ASSUME NEW r, ~InRegion(A, D, r), r \in ClosureRows(Tables, E)
      PROVE  r \in ClosureRows(Tables, F)
  <2>1. PICK p \in Connected(Tables, E) :
          r = <<p[1], p[2], Distance(Tables, E, p[1], p[2]), ShortestPaths(Tables, E, p[1], p[2])>>
    BY <1>3 DEF ClosureRows
  <2>2. p \in Tables \X Tables /\ ~(p[1] \in A /\ p[2] \in D)
    BY <1>3, <2>1 DEF InRegion, Connected
  <2>3. /\ p \in Connected(Tables, F)
        /\ r = <<p[1], p[2], Distance(Tables, F, p[1], p[2]), ShortestPaths(Tables, F, p[1], p[2])>>
    BY <1>2, <2>1, <2>2
  <2> QED BY <2>3 DEF ClosureRows
<1>4. ASSUME NEW r, ~InRegion(A, D, r), r \in ClosureRows(Tables, F)
      PROVE  r \in ClosureRows(Tables, E)
  <2>1. PICK p \in Connected(Tables, F) :
          r = <<p[1], p[2], Distance(Tables, F, p[1], p[2]), ShortestPaths(Tables, F, p[1], p[2])>>
    BY <1>4 DEF ClosureRows
  <2>2. p \in Tables \X Tables /\ ~(p[1] \in A /\ p[2] \in D)
    BY <1>4, <2>1 DEF InRegion, Connected
  <2>3. /\ p \in Connected(Tables, E)
        /\ r = <<p[1], p[2], Distance(Tables, E, p[1], p[2]), ShortestPaths(Tables, E, p[1], p[2])>>
    BY <1>2, <2>1, <2>2
  <2> QED BY <2>3 DEF ClosureRows
<1> QED BY <1>3, <1>4

(* Replaced edges put the rows wrong at most inside the region.            *)
LEMMA ReplaceRows ==
  ASSUME IInv, KnownUpstreamRowsExact, NEW s \in Sqls, NEW r \in Results[s],
         ReplaceEdges(s, r), drift' = "none"
  PROVE  (KnownUpstreamRowsExact /\ ReplacedRows /\ ComputedRows)'
<1> DEFINE t == PatchTarget(s, r)
           A == Ancestors(closure, t)
           D == Descendants(closure, t)
           F == LineageEdges(parsed')
<1>1. r \in ParseResults
  BY SqlAssumption
<1>2. drift = "none" /\ Idle /\ SameTarget(s, r) /\ KnownUpstream(s, r)
  BY DEF ReplaceEdges, DriftAfter
<1>3. closure = ClosureRows(Tables, E0)
  BY <1>2 DEF KnownUpstreamRowsExact, E0
<1>4. \A u \in Sqls : pc'[u] = IF u = s THEN "replaced" ELSE "idle"
  BY <1>2 DEF Idle, IInv, Shape, ReplaceEdges
<1>5. patch'[s].target = t /\ closure' = closure /\ E0' = F
  BY DEF IInv, Shape, NoPatch, E0, ReplaceEdges
<1>6. t \in Tables
  BY <1>1, SqlAssumption DEF PatchTarget, ParseResults
<1>7. E0 \in SUBSET (Tables \X Tables) /\ F \in SUBSET (Tables \X Tables)
  <2>1. parsed \in [Sqls -> ParseResults] /\ parsed' \in [Sqls -> ParseResults]
    BY <1>1 DEF IInv, Shape, ReplaceEdges
  <2> QED BY <2>1, EdgeEnds DEF E0
<1>8. /\ \A e \in E0 \ F : e[2] = t
      /\ \A e \in F \ E0 : e[2] = t /\ (e[1] = t \/ Reaches(Tables, E0, e[1], t))
  <2>1. /\ \A e \in E0 \ F : e[2] = t
        /\ \A e \in F \ E0 : e \in EdgesOf(r) /\ e[2] = t
    BY <1>1, <1>2, ReplaceTouchesTarget DEF IInv, ReplaceEdges
  <2>2. \A e \in EdgesOf(r) \ E0 : e[1] = t \/ Reaches(Tables, E0, e[1], t)
    BY <1>2 DEF KnownUpstream, E0
  <2> QED BY <2>1, <2>2
<1>9. /\ \A a \in Tables : a \in A <=> a = t \/ Reaches(Tables, E0, a, t)
      /\ \A d \in Tables : d \in D <=> d = t \/ Reaches(Tables, E0, t, d)
  <2>1. Pairs(closure) = Connected(Tables, E0)
    BY <1>3, PairsOfRows
  <2>2. \A a \in Tables : a # t => (<<a, t>> \in Pairs(closure) <=> Reaches(Tables, E0, a, t))
    BY <1>6, <2>1 DEF Connected
  <2>3. \A d \in Tables : d # t => (<<t, d>> \in Pairs(closure) <=> Reaches(Tables, E0, t, d))
    BY <1>6, <2>1 DEF Connected
  <2> QED BY <2>2, <2>3, RegionByPairs
<1>10. \A x : ~InRegion(A, D, x) => (x \in ClosureRows(Tables, E0) <=> x \in ClosureRows(Tables, F))
  <2> HIDE DEF A, D, F, t
  <2> QED BY <1>6, <1>7, <1>8, <1>9, SameRowsOutside
<1>11. A' = A /\ D' = D
  BY <1>5 DEF PatchTarget
<1>12. RowsAgreeOutside(A, D)'
  <2> HIDE DEF A, D
  <2> QED BY <1>3, <1>5, <1>10, <1>11 DEF RowsAgreeOutside, InRegion
<1>13. ReplacedRows'
  BY <1>4, <1>5, <1>12 DEF ReplacedRows, PatchTarget
<1>14. ComputedRows' /\ ~Idle'
  BY <1>4 DEF ComputedRows, Idle
<1> QED BY <1>13, <1>14 DEF KnownUpstreamRowsExact

(* The region read, its rows are those of the edges. *)
LEMMA ComputeRows ==
  ASSUME ExactInv, NEW s \in Sqls, ComputeRegion(s), drift' = "none"
  PROVE  (KnownUpstreamRowsExact /\ ReplacedRows /\ ComputedRows)'
<1> DEFINE A == Ancestors(closure, patch[s].target)
           D == Descendants(closure, patch[s].target)
           R == Within(ClosureRows(Tables, E0), A, D)
<1>1. drift = "none" /\ pc[s] = "replaced"
  BY DEF ComputeRegion
<1>2. /\ patch'[s].anc = A /\ patch'[s].desc = D /\ patch'[s].rows = R
  BY DEF ExactInv, IInv, Shape, Region, E0, ComputeRegion
<1>3. \A u \in Sqls : pc'[u] = IF u = s THEN "computed" ELSE "idle"
  BY <1>1 DEF ExactInv, IInv, Shape, OneAtATime, ComputeRegion
<1>4. E0' = E0 /\ closure' = closure
  BY DEF E0, ComputeRegion
<1>5. RowsAgreeOutside(A, D)
  BY <1>1 DEF ExactInv, ReplacedRows
<1> HIDE DEF A, D
<1>6. RowsAgreeOutside(patch[s].anc, patch[s].desc)'
  BY <1>2, <1>4, <1>5 DEF RowsAgreeOutside, InRegion
<1>7. (patch[s].rows = Within(ClosureRows(Tables, E0), patch[s].anc, patch[s].desc))'
  BY <1>2, <1>4
<1>8. ReplacedRows' /\ ComputedRows' /\ ~Idle'
  <2>1. \A u \in Sqls : pc'[u] = "computed" => u = s
    BY <1>3
  <2>2. \A u \in Sqls : pc'[u] # "replaced"
    BY <1>3
  <2>3. pc'[s] # "idle"
    BY <1>3
  <2> QED BY <1>6, <1>7, <2>1, <2>2, <2>3 DEF ReplacedRows, ComputedRows, Idle
<1> QED BY <1>8 DEF KnownUpstreamRowsExact

(* Region replaced, every row is right again. *)
LEMMA CommitRows ==
  ASSUME ExactInv, NEW s \in Sqls, CommitPatch(s), drift' = "none"
  PROVE  (KnownUpstreamRowsExact /\ ReplacedRows /\ ComputedRows)'
<1> DEFINE A == patch[s].anc
           D == patch[s].desc
           C == ClosureRows(Tables, E0)
<1>1. drift = "none" /\ pc[s] = "computed"
  BY DEF CommitPatch
<1>2. RowsAgreeOutside(A, D) /\ patch[s].rows = Within(C, A, D)
  BY <1>1 DEF ExactInv, ComputedRows
<1>3. closure' = (closure \ Within(closure, A, D)) \cup Within(C, A, D)
  BY <1>2 DEF CommitPatch
<1>4. closure' = C
  <2> HIDE DEF A, D, C
  <2>1. \A r : ~InRegion(A, D, r) => (r \in closure <=> r \in C)
    BY <1>2 DEF RowsAgreeOutside, C
  <2> QED BY <1>3, <2>1 DEF Within, InRegion
<1>5. \A u \in Sqls : pc'[u] = "idle"
  BY <1>1 DEF ExactInv, IInv, Shape, OneAtATime, CommitPatch
<1>6. parsed' = parsed
  BY DEF CommitPatch
<1> QED BY <1>4, <1>5, <1>6 DEF KnownUpstreamRowsExact, ReplacedRows, ComputedRows, E0

(* The closure is row for row that of the edges, distances and path counts *)
(* included, whenever no run is under way and every change so far came     *)
(* alone, kept its target and named no new upstream table.                 *)
THEOREM PatchRowsExact == Spec => []KnownUpstreamRowsExact
<1>1. Init => ExactInv
  BY InitInv DEF Init, ExactInv, KnownUpstreamRowsExact, ReplacedRows, ComputedRows
<1>2. ExactInv /\ [Next]_vars => ExactInv'
  <2> SUFFICES ASSUME ExactInv, [Next]_vars PROVE ExactInv'
    OBVIOUS
  <2>1. IInv'
    BY IInvKept DEF ExactInv
  <2>2. ASSUME drift' = "none" PROVE (KnownUpstreamRowsExact /\ ReplacedRows /\ ComputedRows)'
    <3>1. ASSUME NEW s \in Sqls, NEW r \in Results[s], ReplaceEdges(s, r)
          PROVE  (KnownUpstreamRowsExact /\ ReplacedRows /\ ComputedRows)'
      <4>1. drift = "none"
        BY <2>2, <3>1 DEF ReplaceEdges, DriftAfter
      <4> QED BY <2>2, <3>1, <4>1, ReplaceRows DEF ExactInv
    <3>2. CASE \E s \in Sqls : ComputeRegion(s)
      BY <2>2, <3>2, ComputeRows
    <3>3. CASE \E s \in Sqls : CommitPatch(s)
      BY <2>2, <3>3, CommitRows
    <3>4. ASSUME NEW s \in Sqls PROVE ~Degrade(s) /\ ~InterruptPatch(s)
      BY <2>2 DEF Degrade, InterruptPatch
    <3>5. CASE UNCHANGED vars
      BY <2>2, <3>5 DEF vars, ExactInv, KnownUpstreamRowsExact, ReplacedRows, ComputedRows,
                        RowsAgreeOutside, E0, Idle
    <3> QED BY <3>1, <3>2, <3>3, <3>4, <3>5 DEF Next
  <2> QED BY <2>1, <2>2 DEF ExactInv
<1>3. ExactInv => KnownUpstreamRowsExact
  BY DEF ExactInv, KnownUpstreamRowsExact
<1> QED BY <1>1, <1>2, <1>3, PTL DEF Spec
=============================================================================
