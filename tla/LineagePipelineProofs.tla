----------------------- MODULE LineagePipelineProofs -----------------------
(***************************************************************************)
(* For any tables, statements, texts, drawings and limits, any number of   *)
(* nights, incremental runs and faults: what folding the tmp tables keeps, *)
(* in which order a full rebuild publishes, that drawn lineage and the     *)
(* lineage the hook wrote survive the pipeline, and that the pipeline      *)
(* implements LineageStore; all but the types as long as cron alone starts *)
(* rebuilds.                                                               *)
(***************************************************************************)
EXTENDS LineagePipeline, TableGraphProofs, SequenceTheorems, FiniteSetTheorems, TLAPS

(* A chain of k edges of W as the search stacks it: from a table that is   *)
(* not tmp into tmp tables, none of them twice.                            *)
IsChain(W, ch, k) ==
  /\ ch \in [1..k -> W]
  /\ ch[1].src \notin TmpTables
  /\ \A i \in 1..k : ch[i].dst \in TmpTables
  /\ \A i \in 1..(k - 1) : ch[i + 1].src = ch[i].dst
  /\ \A i, j \in 1..k : ch[i].dst = ch[j].dst => i = j

Heads(W) == { <<e>> : e \in { h \in W : h.src \notin TmpTables /\ h.dst \in TmpTables } }
Extends(ch, e) == /\ e.src = Last(ch).dst
                  /\ e.dst \in TmpTables
                  /\ \A i \in 1..Len(ch) : ch[i].dst # e.dst
Longer(W, chains) ==
  { Append(x[1], x[2]) : x \in { y \in chains \X W : Extends(y[1], y[2]) } }
Level(W, upto, k) == IF k = 1 THEN Heads(W) ELSE Longer(W, upto[k - 1])
Stacks(upto, W, m) == upto = [k \in 1..m |-> Level(W, upto, k)]

LEMMA StackExists ==
  ASSUME NEW W, NEW m \in Nat
  PROVE  \E upto : Stacks(upto, W, m)
<1> DEFINE S == {n \in Nat : \E upto : Stacks(upto, W, n)}
<1>1. 0 \in S
  <2>1. Stacks([k \in 1 .. 0 |-> {}], W, 0)
    BY DEF Stacks
  <2> QED BY <2>1
<1>2. ASSUME NEW n \in Nat, n \in S PROVE n + 1 \in S
  <2>1. PICK f : Stacks(f, W, n)
    BY <1>2
  <2> DEFINE g == [k \in 1 .. (n + 1) |-> IF k = n + 1 THEN Level(W, f, n + 1) ELSE f[k]]
  <2>2. \A k \in 1 .. n : f[k] = Level(W, f, k)
    BY <2>1 DEF Stacks
  <2>3. \A k \in 1 .. n : g[k] = f[k]
    OBVIOUS
  <2>4. ASSUME NEW k \in 1 .. (n + 1) PROVE Level(W, g, k) = Level(W, f, k)
    <3>1. CASE k = 1
      BY <3>1 DEF Level
    <3>2. CASE k # 1
      <4>1. g[k-1] = f[k-1]
        BY <3>2, <2>3
      <4> HIDE DEF g
      <4> QED BY <3>2, <4>1 DEF Level
    <3> QED BY <3>1, <3>2
  <2>5. \A k \in 1 .. (n + 1) :
          (IF k = n + 1 THEN Level(W, f, n + 1) ELSE f[k]) = Level(W, f, k)
    BY <2>2
  <2>6. g = [k \in 1 .. (n + 1) |-> Level(W, f, k)]
    BY <2>5
  <2> HIDE DEF g
  <2>7. Stacks(g, W, n + 1)
    BY <2>4, <2>6 DEF Stacks
  <2> QED BY <2>7
<1> HIDE DEF S
<1>3. Nat \subseteq S
  BY <1>1, <1>2, AllNaturals
<1> QED BY <1>3 DEF S

LEMMA HeadsAreChains ==
  ASSUME NEW W, NEW ch
  PROVE  ch \in Heads(W) <=> IsChain(W, ch, 1)
<1>1. ASSUME ch \in Heads(W) PROVE IsChain(W, ch, 1)
  BY <1>1 DEF Heads, IsChain
<1>2. ASSUME IsChain(W, ch, 1) PROVE ch \in Heads(W)
  <2>1. ch = <<ch[1]>> /\ ch[1] \in W
    BY <1>2 DEF IsChain
  <2>2. ch[1].src \notin TmpTables /\ ch[1].dst \in TmpTables
    BY <1>2 DEF IsChain
  <2> QED BY <2>1, <2>2 DEF Heads
<1> QED BY <1>1, <1>2

LEMMA LongerAreChains ==
  ASSUME NEW W, NEW chains, NEW k \in Nat \ {0},
         \A x : x \in chains <=> IsChain(W, x, k), NEW ch
  PROVE  ch \in Longer(W, chains) <=> IsChain(W, ch, k + 1)
<1>1. ASSUME ch \in Longer(W, chains) PROVE IsChain(W, ch, k + 1)
  <2>1. PICK x \in chains, e \in W : Extends(x, e) /\ ch = Append(x, e)
    BY <1>1 DEF Longer
  <2>2. IsChain(W, x, k)
    BY <2>1
  <2>3. x \in [1..k -> W]
    BY <2>2 DEF IsChain
  <2>4. x \in Seq(W) /\ Len(x) = k
    BY <2>3
  <2>5. /\ ch \in [1..(k + 1) -> W]
        /\ \A i \in 1..k : ch[i] = x[i]
        /\ ch[k + 1] = e
    <3>1. /\ ch \in Seq(W) /\ Len(ch) = Len(x) + 1
          /\ \A i \in 1..Len(x) : ch[i] = x[i]
          /\ ch[Len(x) + 1] = e
      BY <2>1, <2>4, AppendProperties
    <3>2. ch \in [1..Len(ch) -> W]
      BY <3>1, LenProperties
    <3> QED BY <2>4, <3>1, <3>2
  <2>6. e.src = x[k].dst /\ e.dst \in TmpTables /\ \A i \in 1..k : x[i].dst # e.dst
    BY <2>1, <2>4 DEF Extends, Last
  <2> QED BY <2>2, <2>5, <2>6 DEF IsChain
<1>2. ASSUME IsChain(W, ch, k + 1) PROVE ch \in Longer(W, chains)
  <2> DEFINE x == [i \in 1..k |-> ch[i]]
             e == ch[k + 1]
  <2>1. x \in [1..k -> W] /\ e \in W
    BY <1>2 DEF IsChain
  <2>2. x \in Seq(W) /\ Len(x) = k
    BY <2>1
  <2>3. \A i \in 1..k : x[i] = ch[i]
    OBVIOUS
  <2>4. IsChain(W, x, k)
    <3> HIDE DEF x
    <3> QED BY <1>2, <2>1, <2>3 DEF IsChain
  <2>5. Extends(x, e)
    <3> HIDE DEF x
    <3> QED BY <1>2, <2>2, <2>3 DEF IsChain, Extends, Last
  <2>6. ch = Append(x, e)
    <3> HIDE DEF x
    <3>1. /\ Append(x, e) \in Seq(W) /\ Len(Append(x, e)) = k + 1
          /\ \A i \in 1..k : Append(x, e)[i] = x[i]
          /\ Append(x, e)[k + 1] = e
      BY <2>1, <2>2, AppendProperties
    <3>2. ch \in Seq(W) /\ Len(ch) = k + 1
      BY <1>2 DEF IsChain
    <3> QED BY <2>3, <3>1, <3>2, SeqEqual
  <2>7. <<x, e>> \in chains \X W
    BY <2>1, <2>4
  <2> QED BY <2>5, <2>6, <2>7 DEF Longer
<1> QED BY <1>1, <1>2

LEMMA StacksAreChains ==
  ASSUME NEW W, NEW m \in Nat, NEW upto, Stacks(upto, W, m), NEW k \in 1..m, NEW ch
  PROVE  ch \in upto[k] <=> IsChain(W, ch, k)
<1> DEFINE S == {n \in Nat : n \in 1..m => \A x : x \in upto[n] <=> IsChain(W, x, n)}
<1>1. \A n \in 1..m : upto[n] = Level(W, upto, n)
  BY DEF Stacks
<1>2. 0 \in S
  OBVIOUS
<1>3. ASSUME NEW n \in Nat, n \in S PROVE n + 1 \in S
  <2> SUFFICES ASSUME n + 1 \in 1..m, NEW x
               PROVE  x \in upto[n + 1] <=> IsChain(W, x, n + 1)
    OBVIOUS
  <2>1. CASE n = 0
    BY <1>1, <2>1, HeadsAreChains DEF Level
  <2>2. CASE n # 0
    <3>1. n \in 1..m /\ upto[n + 1] = Longer(W, upto[n])
      BY <1>1, <2>2 DEF Level
    <3>2. \A y : y \in upto[n] <=> IsChain(W, y, n)
      BY <1>3, <3>1
    <3> QED BY <2>2, <3>1, <3>2, LongerAreChains
  <2> QED BY <2>1, <2>2
<1> HIDE DEF S
<1>4. Nat \subseteq S
  BY <1>2, <1>3, AllNaturals
<1> QED BY <1>4 DEF S

(* OpenChains are the chains, of whatever length: longer than the tmp      *)
(* tables they cannot be.                                                  *)
LEMMA OpenChainsAre ==
  ASSUME IsFiniteSet(TmpTables), NEW W, NEW ch
  PROVE  ch \in OpenChains(W) <=> \E k \in Nat \ {0} : IsChain(W, ch, k)
<1> DEFINE m == Cardinality(TmpTables) + 1
           upto == CHOOSE f : Stacks(f, W, m)
<1>1. m \in Nat
  BY FS_CardinalityType
<1> HIDE DEF m
<1>2. Stacks(upto, W, m)
  BY <1>1, StackExists
<1>3. OpenChains(W) = UNION { upto[k] : k \in DOMAIN upto }
  BY DEF OpenChains, Stacks, Level, Heads, Longer, Extends, m
<1> HIDE DEF upto
<1>4. DOMAIN upto = 1..m
  BY <1>2 DEF Stacks
<1>5. \A k \in 1..m : ch \in upto[k] <=> IsChain(W, ch, k)
  BY <1>1, <1>2, StacksAreChains
<1>6. ASSUME NEW k \in Nat \ {0}, IsChain(W, ch, k) PROVE k \in 1..m
  <2> DEFINE f == [i \in 1..k |-> ch[i].dst]
  <2>1. f \in Injection(1..k, TmpTables)
    BY <1>6 DEF IsChain, Injection, IsInjective
  <2>2. Cardinality(1..k) <= Cardinality(TmpTables)
    <3> HIDE DEF f
    <3> QED BY <2>1, FS_Injection
  <2>3. Cardinality(1..k) = k
    BY FS_Interval
  <2> QED BY <1>1, <2>2, <2>3, FS_CardinalityType DEF m
<1> QED BY <1>3, <1>4, <1>5, <1>6

-----------------------------------------------------------------------------
(* A synthetic edge joins the ends of a chain and of the edge it comes out *)
(* by, and every chain has one.                                            *)
ComesOut(W, ch, k, last) == /\ IsChain(W, ch, k) /\ last \in W
                            /\ last.src = ch[k].dst /\ last.dst \notin TmpTables

LEMMA FullChainsAre ==
  ASSUME IsFiniteSet(TmpTables), NEW W, NEW x
  PROVE  x \in FullChains(W) <=>
           \E ch, last : \E k \in Nat \ {0} : x = <<ch, last>> /\ ComesOut(W, ch, k, last)
<1>1. ASSUME NEW ch, NEW k \in Nat \ {0}, IsChain(W, ch, k) PROVE Last(ch) = ch[k]
  <2>1. ch \in [1..k -> W]
    BY <1>1 DEF IsChain
  <2>2. Len(ch) = k
    BY <2>1
  <2> QED BY <2>2 DEF Last
<1>2. ASSUME x \in FullChains(W)
      PROVE  \E ch, last : \E k \in Nat \ {0} : x = <<ch, last>> /\ ComesOut(W, ch, k, last)
  <2>1. PICK ch \in OpenChains(W), last \in W :
          x = <<ch, last>> /\ last.src = Last(ch).dst /\ last.dst \notin TmpTables
    BY <1>2 DEF FullChains
  <2>2. PICK k \in Nat \ {0} : IsChain(W, ch, k)
    BY OpenChainsAre
  <2> QED BY <1>1, <2>1, <2>2 DEF ComesOut
<1>3. ASSUME NEW ch, NEW last, NEW k \in Nat \ {0}, x = <<ch, last>>, ComesOut(W, ch, k, last)
      PROVE  x \in FullChains(W)
  <2>1. ch \in OpenChains(W)
    BY <1>3, OpenChainsAre DEF ComesOut
  <2>2. Last(ch) = ch[k]
    BY <1>1, <1>3 DEF ComesOut
  <2> QED BY <1>3, <2>1, <2>2 DEF FullChains, ComesOut
<1> QED BY <1>2, <1>3

LEMMA SyntheticAre ==
  ASSUME IsFiniteSet(TmpTables), NEW W, NEW e \in Synthetic(W)
  PROVE  \E ch, last : \E k \in Nat \ {0} : e = Synthesize(ch, last) /\ ComesOut(W, ch, k, last)
<1> DEFINE all  == { Synthesize(x[1], x[2]) : x \in FullChains(W) }
           keys == { <<f.src, f.dst, f.sql>> : f \in all }
<1>1. PICK k \in keys : e = CHOOSE f \in all : <<f.src, f.dst, f.sql>> = k
  BY DEF Synthetic
<1>2. \E f \in all : <<f.src, f.dst, f.sql>> = k
  OBVIOUS
<1>3. PICK x \in FullChains(W) : e = Synthesize(x[1], x[2])
  BY <1>1, <1>2
<1> QED BY <1>3, FullChainsAre

LEMMA ChainsHaveSynthetic ==
  ASSUME IsFiniteSet(TmpTables), NEW W, NEW ch, NEW last, NEW k \in Nat \ {0},
         ComesOut(W, ch, k, last)
  PROVE  \E e \in Synthetic(W) : e.src = ch[1].src /\ e.dst = last.dst
<1> DEFINE all  == { Synthesize(x[1], x[2]) : x \in FullChains(W) }
           keys == { <<f.src, f.dst, f.sql>> : f \in all }
           f == Synthesize(ch, last)
           key == <<f.src, f.dst, f.sql>>
           e == CHOOSE g \in all : <<g.src, g.dst, g.sql>> = key
<1>1. <<ch, last>> \in FullChains(W)
  BY FullChainsAre
<1>2. f \in all /\ key \in keys
  BY <1>1
<1>3. e \in Synthetic(W)
  BY <1>2 DEF Synthetic
<1>4. <<e.src, e.dst, e.sql>> = key
  BY <1>2
<1>5. f.src = ch[1].src /\ f.dst = last.dst
  BY DEF Synthesize
<1> QED BY <1>3, <1>4, <1>5

(* Folding makes edges out of edges. *)
LEMMA FoldTyped ==
  ASSUME IsFiniteSet(TmpTables), NEW E, E \subseteq EdgeRows, NEW S, NEW all
  PROVE  FoldTmpEdges(E, S, all) \subseteq EdgeRows /\ InsertSynthetic(E, S) \subseteq EdgeRows
<1> DEFINE W == Working(E, S)
<1>1. W \subseteq EdgeRows
  BY DEF Working
<1> HIDE DEF W
<1>2. ASSUME NEW e \in Synthetic(W) PROVE e \in EdgeRows
  <2>0. PICK ch, last : \E k \in Nat \ {0} : e = Synthesize(ch, last) /\ ComesOut(W, ch, k, last)
    BY SyntheticAre
  <2>1. PICK k \in Nat \ {0} : e = Synthesize(ch, last) /\ ComesOut(W, ch, k, last)
    BY <2>0
  <2>2. ch[1] \in W /\ last \in W
    BY <2>1 DEF ComesOut, IsChain
  <2> QED BY <1>1, <2>1, <2>2 DEF Synthesize, EdgeRows
<1> QED BY <1>2 DEF FoldTmpEdges, InsertSynthetic, W

(* The full fold leaves no edge at a tmp table. *)
LEMMA FoldHidesTmp ==
  ASSUME IsFiniteSet(TmpTables), NEW E, E \subseteq EdgeRows,
         NEW e \in FoldTmpEdges(E, AnySql, TRUE)
  PROVE  ~AtTmp(e)
<1> DEFINE W == Working(E, AnySql)
<1>1. W = { f \in E : AtTmp(f) }
  BY DEF Working, EdgeRows
<1> HIDE DEF W
<1>2. CASE e \in Synthetic(W)
  <2>0. PICK ch, last : \E k \in Nat \ {0} : e = Synthesize(ch, last) /\ ComesOut(W, ch, k, last)
    BY <1>2, SyntheticAre
  <2>1. PICK k \in Nat \ {0} : e = Synthesize(ch, last) /\ ComesOut(W, ch, k, last)
    BY <2>0
  <2>2. e.src = ch[1].src /\ e.dst = last.dst
    BY <2>1 DEF Synthesize
  <2> QED BY <2>1, <2>2 DEF AtTmp, ComesOut, IsChain
<1>3. CASE e \in E \ W
  BY <1>1, <1>3
<1> QED BY <1>2, <1>3 DEF FoldTmpEdges, W

(* A set of tables closed under the edges is closed under what folding     *)
(* makes of them: a chain that starts in it stays in it.                   *)
LEMMA ChainStaysIn ==
  ASSUME NEW E, NEW W, W \subseteq E, NEW S, Closed(PairsOf(E), S),
         NEW ch, NEW k \in Nat \ {0}, IsChain(W, ch, k), ch[1].src \in S
  PROVE  ch[k].dst \in S
<1> DEFINE Q == {n \in Nat : n \in 1..k => ch[n].dst \in S}
<1>1. ASSUME NEW f \in W, f.src \in S PROVE f.dst \in S
  <2>1. <<f.src, f.dst>> \in PairsOf(E)
    BY DEF PairsOf
  <2> QED BY <1>1, <2>1 DEF Closed
<1>2. 0 \in Q
  OBVIOUS
<1>3. ASSUME NEW n \in Nat, n \in Q PROVE n + 1 \in Q
  <2> SUFFICES ASSUME n + 1 \in 1..k PROVE ch[n + 1].dst \in S
    OBVIOUS
  <2>1. ch[n + 1] \in W
    BY DEF IsChain
  <2>2. ch[n + 1].src \in S
    <3>1. CASE n = 0
      BY <3>1
    <3>2. CASE n # 0
      <4>1. n \in 1..(k - 1)
        BY <3>2
      <4> QED BY <1>3, <4>1 DEF IsChain
    <3> QED BY <3>1, <3>2
  <2> QED BY <1>1, <2>1, <2>2
<1> HIDE DEF Q
<1>4. Nat \subseteq Q
  BY <1>2, <1>3, AllNaturals
<1> QED BY <1>4 DEF Q

LEMMA ClosedUnderFold ==
  ASSUME IsFiniteSet(TmpTables), NEW E, NEW S, Closed(PairsOf(E), S)
  PROVE  Closed(PairsOf(FoldTmpEdges(E, AnySql, TRUE)), S)
<1> DEFINE W == Working(E, AnySql)
           F == FoldTmpEdges(E, AnySql, TRUE)
<1>1. W \subseteq E /\ F = (E \ W) \cup Synthetic(W)
  BY DEF Working, FoldTmpEdges
<1> HIDE DEF W, F
<1>2. ASSUME NEW e \in F, e.src \in S PROVE e.dst \in S
  <2>1. ASSUME NEW f \in E, f.src \in S PROVE f.dst \in S
    <3>1. <<f.src, f.dst>> \in PairsOf(E)
      BY DEF PairsOf
    <3> QED BY <2>1, <3>1 DEF Closed
  <2>2. CASE e \in Synthetic(W)
    <3>0. PICK ch, last : \E k \in Nat \ {0} : e = Synthesize(ch, last) /\ ComesOut(W, ch, k, last)
      BY <2>2, SyntheticAre
    <3>1. PICK k \in Nat \ {0} : e = Synthesize(ch, last) /\ ComesOut(W, ch, k, last)
      BY <3>0
    <3>2. e.src = ch[1].src /\ e.dst = last.dst
      BY <3>1 DEF Synthesize
    <3>3. ch[k].dst \in S
      BY <1>1, <1>2, <3>1, <3>2, ChainStaysIn DEF ComesOut
    <3> QED BY <1>1, <2>1, <3>1, <3>2, <3>3 DEF ComesOut
  <2> QED BY <1>1, <1>2, <2>1, <2>2
<1>3. Closed(PairsOf(F), S)
  BY <1>2 DEF Closed, PairsOf
<1> QED BY <1>3 DEF F

(* A chain can be cut anywhere, and grows by an edge to a tmp table it has *)
(* not visited.                                                            *)
LEMMA ChainPrefix ==
  ASSUME NEW W, NEW ch, NEW k \in Nat \ {0}, IsChain(W, ch, k), NEW n \in 1..k
  PROVE  IsChain(W, [i \in 1..n |-> ch[i]], n)
<1> DEFINE x == [i \in 1..n |-> ch[i]]
<1>1. x \in [1..n -> W] /\ \A i \in 1..n : x[i] = ch[i] /\ i \in 1..k
  BY DEF IsChain
<1>2. \A i \in 1..(n - 1) : i \in 1..(k - 1) /\ i \in 1..n /\ i + 1 \in 1..n
  OBVIOUS
<1>3. 1 \in 1..n
  OBVIOUS
<1> HIDE DEF x
<1>4. IsChain(W, x, n)
  BY <1>1, <1>2, <1>3 DEF IsChain
<1> QED BY <1>4 DEF x

LEMMA ChainGrows ==
  ASSUME NEW W, NEW ch, NEW k \in Nat \ {0}, IsChain(W, ch, k),
         NEW e \in W, e.src = ch[k].dst, e.dst \in TmpTables,
         \A i \in 1..k : ch[i].dst # e.dst
  PROVE  IsChain(W, [i \in 1..(k + 1) |-> IF i = k + 1 THEN e ELSE ch[i]], k + 1)
<1> DEFINE x == [i \in 1..(k + 1) |-> IF i = k + 1 THEN e ELSE ch[i]]
<1>1. x \in [1..(k + 1) -> W]
  BY DEF IsChain
<1>2. \A i \in 1..k : x[i] = ch[i]
  OBVIOUS
<1>3. x[k + 1] = e
  OBVIOUS
<1> HIDE DEF x
<1>4. IsChain(W, x, k + 1)
  BY <1>1, <1>2, <1>3 DEF IsChain
<1> QED BY <1>4 DEF x

(* Where a closed set of the folded graph leads in the graph itself: to    *)
(* its own lasting tables and to the tmp tables of the chains from them.   *)
Behind(E, S) ==
  { t \in Tables : \E ch : \E k \in Nat \ {0} :
      /\ IsChain(Working(E, AnySql), ch, k)
      /\ ch[1].src \in S /\ ch[k].dst = t }

LEMMA FoldedClosedBehind ==
  ASSUME IsFiniteSet(TmpTables), NEW E, E \subseteq EdgeRows, NEW S \in SUBSET Tables,
         Closed(PairsOf(FoldTmpEdges(E, AnySql, TRUE)), S)
  PROVE  Closed(PairsOf(E), (S \ TmpTables) \cup Behind(E, S))
<1> DEFINE W == Working(E, AnySql)
           F == FoldTmpEdges(E, AnySql, TRUE)
           B == (S \ TmpTables) \cup Behind(E, S)
<1>1. W = { f \in E : AtTmp(f) } /\ F = (E \ W) \cup Synthetic(W)
  BY DEF Working, EdgeRows, FoldTmpEdges
<1>2. Behind(E, S) = { t \in Tables : \E ch : \E k \in Nat \ {0} :
                         IsChain(W, ch, k) /\ ch[1].src \in S /\ ch[k].dst = t }
  BY DEF Behind
<1>3. ASSUME NEW f \in F, f.src \in S PROVE f.dst \in S
  <2>1. <<f.src, f.dst>> \in PairsOf(F)
    BY DEF PairsOf
  <2> QED BY <1>3, <2>1 DEF Closed
<1> HIDE DEF W, F
<1>4. ASSUME NEW e \in E, e.src \in B PROVE e.dst \in B
  <2>1. e.src \in Tables /\ e.dst \in Tables
    BY DEF EdgeRows
  <2>2. CASE e.src \notin TmpTables /\ e.dst \notin TmpTables
    <3>1. e.src \in S
      <4>1. e.src \notin Behind(E, S)
        BY <1>2, <2>2 DEF IsChain
      <4> QED BY <1>4, <4>1
    <3>2. e \in F
      BY <1>1, <2>2 DEF AtTmp
    <3> QED BY <1>3, <2>2, <3>1, <3>2
  <2>3. CASE e.src \notin TmpTables /\ e.dst \in TmpTables
    <3>1. e.src \in S
      <4>1. e.src \notin Behind(E, S)
        BY <1>2, <2>3 DEF IsChain
      <4> QED BY <1>4, <4>1
    <3>2. e \in W
      BY <1>1, <2>3 DEF AtTmp
    <3>3. <<e>> \in Heads(W)
      BY <2>3, <3>2 DEF Heads
    <3>4. IsChain(W, <<e>>, 1)
      BY <3>3, HeadsAreChains
    <3>5. e.dst \in Behind(E, S)
      BY <1>2, <2>1, <3>1, <3>4
    <3> QED BY <3>5
  <2>4. CASE e.src \in TmpTables
    <3>0. PICK ch : \E k \in Nat \ {0} :
                      IsChain(W, ch, k) /\ ch[1].src \in S /\ ch[k].dst = e.src
      BY <1>2, <1>4, <2>4
    <3>1. PICK k \in Nat \ {0} : IsChain(W, ch, k) /\ ch[1].src \in S /\ ch[k].dst = e.src
      BY <3>0
    <3>2. e \in W
      BY <1>1, <2>4 DEF AtTmp
    <3>3. CASE e.dst \notin TmpTables
      <4>1. ComesOut(W, ch, k, e)
        BY <3>1, <3>2, <3>3 DEF ComesOut
      <4>2. PICK f \in Synthetic(W) : f.src = ch[1].src /\ f.dst = e.dst
        BY <4>1, ChainsHaveSynthetic
      <4> QED BY <1>1, <1>3, <3>1, <3>3, <4>2
    <3>4. ASSUME NEW i \in 1..k, ch[i].dst = e.dst PROVE e.dst \in B
      <4> DEFINE x == [j \in 1..i |-> ch[j]]
      <4>1. IsChain(W, x, i)
        BY <3>1, ChainPrefix
      <4>2. x[1] = ch[1] /\ x[i] = ch[i]
        OBVIOUS
      <4> HIDE DEF x
      <4>3. e.dst \in Behind(E, S)
        BY <1>2, <2>1, <3>1, <3>4, <4>1, <4>2
      <4> QED BY <4>3
    <3>5. CASE e.dst \in TmpTables /\ \A i \in 1..k : ch[i].dst # e.dst
      <4> DEFINE x == [j \in 1..(k + 1) |-> IF j = k + 1 THEN e ELSE ch[j]]
      <4>1. IsChain(W, x, k + 1)
        BY <3>1, <3>2, <3>5, ChainGrows
      <4>2. x[1] = ch[1] /\ x[k + 1] = e
        OBVIOUS
      <4> HIDE DEF x
      <4>3. e.dst \in Behind(E, S)
        BY <1>2, <2>1, <3>1, <4>1, <4>2
      <4> QED BY <4>3
    <3> QED BY <3>3, <3>4, <3>5
  <2> QED BY <2>2, <2>3, <2>4
<1> HIDE DEF B
<1>5. Closed(PairsOf(E), B)
  BY <1>4 DEF Closed, PairsOf
<1> QED BY <1>5 DEF B

(* Folding the tmp tables away changes nothing about which other tables    *)
(* reach which.                                                            *)
LEMMA FoldKeepsReach ==
  ASSUME IsFiniteSet(TmpTables), NEW E, E \subseteq EdgeRows
  PROVE  SameBetweenLasting(E, FoldTmpEdges(E, AnySql, TRUE))
<1> DEFINE F == FoldTmpEdges(E, AnySql, TRUE)
<1>1. \A S : Closed(PairsOf(E), S) => Closed(PairsOf(F), S)
  BY ClosedUnderFold
<1>2. \A S \in SUBSET Tables :
        Closed(PairsOf(F), S) => Closed(PairsOf(E), (S \ TmpTables) \cup Behind(E, S))
  BY FoldedClosedBehind
<1>3. \A S : Behind(E, S) \subseteq Tables \cap TmpTables
  BY DEF Behind, IsChain
<1> HIDE DEF F
<1>4. ASSUME NEW x \in Tables \ TmpTables, NEW y \in Tables \ TmpTables
      PROVE  Reaches(Tables, PairsOf(E), x, y) <=> Reaches(Tables, PairsOf(F), x, y)
  <2>1. ASSUME Reaches(Tables, PairsOf(F), x, y) PROVE Reaches(Tables, PairsOf(E), x, y)
    BY <1>1, <2>1 DEF Reaches
  <2>2. ASSUME Reaches(Tables, PairsOf(E), x, y),
               NEW S \in SUBSET Tables, x \in S, Closed(PairsOf(F), S)
        PROVE  y \in S
    <3> DEFINE B == (S \ TmpTables) \cup Behind(E, S)
    <3>1. B \in SUBSET Tables /\ x \in B
      BY <1>3, <2>2
    <3>2. Closed(PairsOf(E), B)
      BY <1>2, <2>2
    <3>3. y \in B
      <4> HIDE DEF B
      <4> QED BY <2>2, <3>1, <3>2 DEF Reaches
    <3> QED BY <1>3, <3>3
  <2> QED BY <2>1, <2>2 DEF Reaches
<1>5. SameBetweenLasting(E, F)
  BY <1>4 DEF SameBetweenLasting
<1> QED BY <1>5 DEF F

-----------------------------------------------------------------------------
(* The synthetic edges carry the src_type of an edge of the working set.   *)
LEMMA SyntheticType ==
  ASSUME NEW W, NEW e \in Synthetic(W)
  PROVE  \E f \in W : e.type = f.type
<1> DEFINE all  == { Synthesize(x[1], x[2]) : x \in FullChains(W) }
           keys == { <<f.src, f.dst, f.sql>> : f \in all }
<1>1. PICK k \in keys : e = CHOOSE f \in all : <<f.src, f.dst, f.sql>> = k
  BY DEF Synthetic
<1>2. \E f \in all : <<f.src, f.dst, f.sql>> = k
  OBVIOUS
<1>3. e \in all
  BY <1>1, <1>2
<1>4. PICK x \in FullChains(W) : e = Synthesize(x[1], x[2])
  BY <1>3
<1>5. x[2] \in W
  BY DEF FullChains
<1>6. e.type = x[2].type
  BY <1>4 DEF Synthesize
<1> QED
  BY <1>5, <1>6

(* Folding leaves the edges of one type alone when none of them is at a    *)
(* tmp table.                                                              *)
Lasts(type, E) == \A e \in E : e.type = type => ~AtTmp(e)
Same(type, E, F) == \A e : e.type = type => (e \in E <=> e \in F)

LEMMA FoldKeeps ==
  ASSUME NEW type, NEW E, NEW S, NEW all \in BOOLEAN, Lasts(type, E)
  PROVE  /\ Same(type, E, FoldTmpEdges(E, S, all))
         /\ Same(type, E, InsertSynthetic(E, S))
<1> DEFINE W == Working(E, S)
<1>1. \A e \in W : e.type # type
  BY DEF Working, Lasts
<1>2. \A e \in Synthetic(W) : e.type # type
  BY <1>1, SyntheticType
<1>3. Used(W) \subseteq W
  BY DEF Used
<1> HIDE DEF W
<1>4. Same(type, E, (E \ (IF all THEN W ELSE Used(W))) \cup Synthetic(W))
  BY <1>1, <1>2, <1>3 DEF Same
<1>5. Same(type, E, E \cup Synthetic(W))
  BY <1>2 DEF Same
<1> QED
  BY <1>4, <1>5 DEF FoldTmpEdges, InsertSynthetic, W

-----------------------------------------------------------------------------
(* Where a rebuild stands with respect to its two renames. *)
BeforeEdges == {"read", "shadow", "create", "copy", "load", "fold", "checkEdges", "dropEdgePrev",
                "renameEdges"}
Between == {"closure", "createClosure", "loadClosure", "checkClosure", "dropClosurePrev",
            "renameClosure"}
AfterRead == Steps \ {"idle", "read"}
AfterLoad == AfterRead \ {"shadow", "create", "copy", "load"}

Shape ==
  /\ pc \in [Rebuilds -> Steps]
  /\ DOMAIN jobs = Rebuilds /\ DOMAIN found = Rebuilds /\ DOMAIN run = Rebuilds
  /\ DOMAIN sql_repository = Sqls
  /\ \A s \in Sqls : DOMAIN sql_repository[s] = {"text", "status"}
  /\ DOMAIN ghost = {"by", "touched", "edges", "closure", "drawn", "redrawn", "hooked",
                      "overtaken"}

(* What readers are left with when the rebuild stops. *)
Left ==
  /\ lineage_edge \in {ghost.edges, NewBuild(Cron)}
  /\ table_closure # ghost.closure => /\ lineage_edge = NewBuild(Cron)
                                      /\ table_closure = ClosureOf(lineage_edge)

BothNew == lineage_edge = NewBuild(Cron) /\ table_closure = ClosureOf(lineage_edge)

(* What an aborted run leaves, and which count was out of bounds.          *)
WhyAborted ==
  /\ table_closure = ghost.closure
  /\ \/ /\ lineage_edge = ghost.edges
        /\ Exceeds(Cardinality(ghost.edges), Cardinality(NewBuild(Cron)), EdgeDelta)
     \/ /\ lineage_edge = NewBuild(Cron)
        /\ Exceeds(Cardinality(ghost.closure), Cardinality(ClosureOf(lineage_edge)),
                   ClosureDelta)

(* The edges and the shadow table at every step that precedes the closure. *)
EdgeSteps ==
  /\ pc[Cron] \in BeforeEdges => lineage_edge = ghost.edges /\ table_closure = ghost.closure
  /\ pc[Cron] = "load" => lineage_edge_shadow = { e \in ghost.edges : e.type # "sql" }
  /\ pc[Cron] = "fold" => lineage_edge_shadow = Parsing(Cron)
  /\ pc[Cron] \in {"checkEdges", "dropEdgePrev", "renameEdges"} =>
       lineage_edge_shadow = NewBuild(Cron)

(* The closure and its shadow table from there on. *)
ClosureSteps ==
  /\ pc[Cron] \in Between => lineage_edge = NewBuild(Cron) /\ table_closure = ghost.closure
  /\ pc[Cron] \in {"createClosure", "loadClosure", "checkClosure"} =>
       found[Cron] = ClosureOf(lineage_edge)
  /\ pc[Cron] = "loadClosure" => table_closure_shadow = {}
  /\ pc[Cron] \in {"checkClosure", "dropClosurePrev", "renameClosure"} =>
       table_closure_shadow = ClosureOf(lineage_edge)
  /\ pc[Cron] = "finish" => BothNew
  /\ pc[Cron] = "idle" => Left

(* What the rebuild parsed is what the texts give, and is recorded. *)
ReadTexts ==
  \A s \in Active : \/ jobs[Cron][s] = Parsed(sql_repository[s].text)
                    \/ sql_repository[s].text \in SlowTexts /\ jobs[Cron][s] = TimedOut
Recorded == \A s \in Active : sql_repository[s].status = jobs[Cron][s].status

TextSteps ==
  /\ pc[Cron] \in AfterRead => ReadTexts
  /\ pc[Cron] \in AfterLoad => Recorded
  /\ run[Cron] = "success" => pc[Cron] = "idle" /\ BothNew /\ ReadTexts /\ Recorded
  /\ run[Cron] = "aborted" => pc[Cron] = "idle" /\ WhyAborted

OInv ==
  /\ Shape
  /\ pc[Cron] = "copy" => lineage_edge_shadow = {}
  /\ ~ghost.touched => EdgeSteps /\ ClosureSteps /\ TextSteps

LEMMA CronRebuilds == Cron \in Rebuilds
  BY DEF Rebuilds

LEMMA ActiveSqls == \A s \in Active : s \in Sqls
  BY PipelineAssumption

(* The new graph depends on what was parsed and on the edges at the start. *)
LEMMA SameBuild ==
  ASSUME ghost'.edges = ghost.edges, jobs'[Cron] = jobs[Cron]
  PROVE  NewBuild(Cron)' = NewBuild(Cron) /\ Parsing(Cron)' = Parsing(Cron)
  BY DEF NewBuild, Parsing, Loaded

LEMMA SameWhy ==
  ASSUME UNCHANGED <<lineage_edge, table_closure>>, NewBuild(Cron)' = NewBuild(Cron),
         ghost'.edges = ghost.edges, ghost'.closure = ghost.closure
  PROVE  WhyAborted' <=> WhyAborted
  BY DEF WhyAborted, ClosureOf, PairsOf, Exceeds

-----------------------------------------------------------------------------
LEMMA InitOrder == Init => OInv
<1> SUFFICES ASSUME Init PROVE OInv
  OBVIOUS
<1>1. Shape /\ pc[Cron] = "idle" /\ run[Cron] = "none"
  BY CronRebuilds DEF Init, Shape, Steps
<1>2. Left
  BY DEF Init, Left
<1> QED
  BY <1>1, <1>2 DEF OInv, EdgeSteps, ClosureSteps, TextSteps, BeforeEdges, Between, AfterRead,
                    AfterLoad

(* A writer beside the rebuild ends what is claimed until the next start.  *)
LEMMA WriterOrder ==
  ASSUME OInv,
         \/ ReplaceEdges \/ FoldTask \/ PatchClosure \/ BreakHook
         \/ \E s \in Sqls : \E v \in Versions[s] : UpsertSql(s, v)
         \/ \E w \in Drawings : ManualLineage(w)
  PROVE  OInv'
<1>1. UNCHANGED <<lineage_edge_shadow, pc, jobs, found, run>>
  BY DEF ReplaceEdges, FoldTask, PatchClosure, BreakHook, UpsertSql, ManualLineage, edgeTables
<1>2. ghost'.touched /\ DOMAIN ghost' = DOMAIN ghost
  BY DEF ReplaceEdges, FoldTask, PatchClosure, BreakHook, UpsertSql, ManualLineage, Touch,
         OInv, Shape
<1>3. /\ DOMAIN sql_repository' = Sqls
      /\ \A s \in Sqls : DOMAIN sql_repository'[s] = {"text", "status"}
  BY DEF ReplaceEdges, FoldTask, PatchClosure, BreakHook, UpsertSql, ManualLineage, OInv, Shape
<1> QED
  BY <1>1, <1>2, <1>3 DEF OInv, Shape

(* Steps that write nothing the claims speak of. *)
LEMMA SilentOrder ==
  ASSUME OInv,
         UNCHANGED <<sql_repository, lineage_edge, lineage_edge_shadow, table_closure,
                     table_closure_shadow, pc, jobs, found, run, ghost>>
  PROVE  OInv'
<1>1. NewBuild(Cron)' = NewBuild(Cron) /\ Parsing(Cron)' = Parsing(Cron)
  BY SameBuild
<1>2. WhyAborted' <=> WhyAborted
  BY <1>1, SameWhy
<1> QED
  BY <1>1, <1>2 DEF OInv, Shape, EdgeSteps, ClosureSteps, TextSteps, Left, BothNew, ReadTexts,
                    Recorded

(* At every step of a rebuild readers have one of the three allowed pairs. *)
LEMMA AlwaysLeft ==
  ASSUME OInv, ~ghost.touched
  PROVE  Left
<1>1. pc[Cron] \in Steps
  BY CronRebuilds DEF OInv, Shape
<1>2. CASE pc[Cron] \in BeforeEdges
  BY <1>2 DEF OInv, EdgeSteps, Left
<1>3. CASE pc[Cron] \in Between
  BY <1>3 DEF OInv, ClosureSteps, Left
<1>4. CASE pc[Cron] \in {"idle", "finish"}
  BY <1>4 DEF OInv, ClosureSteps, Left, BothNew
<1> QED
  BY <1>1, <1>2, <1>3, <1>4 DEF Steps, BeforeEdges, Between

(* A rebuild that stops anywhere leaves what readers had. *)
LEMMA StopOrder ==
  ASSUME OInv, Shape', pc'[Cron] = "idle", run'[Cron] # "success",
         (~ghost.touched /\ run'[Cron] = "aborted") => WhyAborted,
         UNCHANGED <<lineage_edge, table_closure, ghost, jobs>>
  PROVE  OInv'
<1>1. NewBuild(Cron)' = NewBuild(Cron)
  BY SameBuild
<1>2. ~ghost'.touched => Left'
  BY <1>1, AlwaysLeft DEF Left
<1>3. (~ghost'.touched /\ run'[Cron] = "aborted") => WhyAborted'
  BY <1>1, SameWhy
<1> QED
  BY <1>2, <1>3 DEF OInv, EdgeSteps, ClosureSteps, TextSteps, BeforeEdges, Between, AfterRead,
              AfterLoad

LEMMA FaultOrder ==
  ASSUME OInv, ErrorInFull(Cron) \/ CrashFull(Cron) \/ StatementFails(Cron)
  PROVE  OInv'
<1>1. /\ pc' = [pc EXCEPT ![Cron] = "idle"]
      /\ UNCHANGED <<lineage_edge, table_closure, ghost, jobs, found>>
  BY DEF ErrorInFull, CrashFull, StatementFails, edgeTables, closureTables
<1>2. pc[Cron] # "idle" \/ run' = [run EXCEPT ![Cron] = "failed"]
  BY DEF ErrorInFull, CrashFull, StatementFails
<1>3. run' = run \/ run' = [run EXCEPT ![Cron] = "failed"]
  BY DEF ErrorInFull, CrashFull, StatementFails
<1>4. /\ DOMAIN sql_repository' = Sqls
      /\ \A s \in Sqls : DOMAIN sql_repository'[s] = {"text", "status"}
  <2>1. CASE sql_repository' = sql_repository
    BY <2>1 DEF OInv, Shape
  <2>2. CASE \E S \in SUBSET Active : sql_repository' = StatusesOf(Cron, S)
    BY <2>2 DEF StatusesOf, OInv, Shape
  <2> QED
    BY <2>1, <2>2 DEF ErrorInFull, CrashFull, StatementFails, LeftOver
<1>5. Shape' /\ pc'[Cron] = "idle"
  BY <1>1, <1>3, <1>4, CronRebuilds DEF OInv, Shape, Steps
<1>6. CASE ghost.touched
  BY <1>1, <1>5, <1>6 DEF OInv
<1>7. CASE ~ghost.touched
  <2>1. run'[Cron] \notin {"success", "aborted"}
    BY <1>2, <1>3, <1>7, CronRebuilds DEF OInv, Shape, TextSteps
  <2> QED
    BY <1>1, <1>5, <2>1, StopOrder
<1> QED
  BY <1>6, <1>7

-----------------------------------------------------------------------------
(* The steps of a rebuild, in their order. *)
LEMMA StartOrder ==
  ASSUME OInv, StartFull(Cron)
  PROVE  OInv'
<1>1. /\ pc' = [pc EXCEPT ![Cron] = "read"] /\ run' = [run EXCEPT ![Cron] = "running"]
      /\ ghost' = [ghost EXCEPT !.by = Cron,
                                !.touched = \E q \in Rebuilds \ {Cron} : pc[q] # "idle",
                                !.edges = lineage_edge, !.closure = table_closure]
      /\ UNCHANGED <<sql_repository, lineage_edge, lineage_edge_shadow, table_closure, jobs, found>>
  BY DEF StartFull, Goto, edgeTables, closureTables
<1>2. Shape' /\ pc'[Cron] = "read" /\ run'[Cron] = "running"
  BY <1>1, CronRebuilds DEF OInv, Shape, Steps
<1>3. ghost'.edges = lineage_edge' /\ ghost'.closure = table_closure'
  BY <1>1 DEF OInv, Shape
<1> QED
  BY <1>2, <1>3 DEF OInv, EdgeSteps, ClosureSteps, TextSteps, BeforeEdges, Between, AfterRead,
                    AfterLoad

LEMMA ReadOrder ==
  ASSUME OInv, ReadJobs(Cron)
  PROVE  OInv'
<1>1. PICK slow \in SUBSET { s \in Active : sql_repository[s].text \in SlowTexts } :
        jobs' = [jobs EXCEPT ![Cron] =
          [s \in Active |-> IF s \in slow THEN TimedOut ELSE Parsed(sql_repository[s].text)]]
  BY DEF ReadJobs
<1>2. /\ pc[Cron] = "read" /\ pc' = [pc EXCEPT ![Cron] = "shadow"]
      /\ UNCHANGED <<sql_repository, lineage_edge, table_closure, run, found>>
  BY DEF ReadJobs, Goto, edgeTables, closureTables
<1>3. /\ ghost'.edges = ghost.edges /\ ghost'.closure = ghost.closure
      /\ ghost'.touched = ghost.touched /\ DOMAIN ghost' = DOMAIN ghost
  BY DEF ReadJobs, OInv, Shape
<1>4. Shape' /\ pc'[Cron] = "shadow"
  BY <1>1, <1>2, <1>3, CronRebuilds DEF OInv, Shape, Steps
<1>5. ReadTexts'
  BY <1>1, <1>2, CronRebuilds DEF OInv, Shape, ReadTexts, Parsed, TimedOut
<1> QED
  BY <1>2, <1>3, <1>4, <1>5 DEF OInv, EdgeSteps, ClosureSteps, TextSteps, BeforeEdges, Between,
                                AfterRead, AfterLoad

LEMMA DropShadowOrder ==
  ASSUME OInv, DropShadow(Cron)
  PROVE  OInv'
<1>1. /\ pc[Cron] = "shadow" /\ pc' = [pc EXCEPT ![Cron] = "create"]
      /\ UNCHANGED <<sql_repository, lineage_edge, table_closure, run, found, jobs, ghost>>
  BY DEF DropShadow, Goto, closureTables
<1>2. Shape' /\ pc'[Cron] = "create"
  BY <1>1, CronRebuilds DEF OInv, Shape, Steps
<1> QED
  BY <1>1, <1>2 DEF OInv, EdgeSteps, ClosureSteps, TextSteps, BeforeEdges, Between, AfterRead,
                    AfterLoad, ReadTexts, Steps

LEMMA ShadowOrder ==
  ASSUME OInv, CreateShadow(Cron)
  PROVE  OInv'
<1>1. /\ pc[Cron] = "create" /\ pc' = [pc EXCEPT ![Cron] = "copy"]
      /\ lineage_edge_shadow' = {}
      /\ UNCHANGED <<sql_repository, lineage_edge, table_closure, run, found, jobs, ghost>>
  BY DEF CreateShadow, Goto, closureTables
<1>2. Shape' /\ pc'[Cron] = "copy"
  BY <1>1, CronRebuilds DEF OInv, Shape, Steps
<1> QED
  BY <1>1, <1>2 DEF OInv, EdgeSteps, ClosureSteps, TextSteps, BeforeEdges, Between, AfterRead,
                    AfterLoad, ReadTexts, Steps

LEMMA CopyOrder ==
  ASSUME OInv, CopyKept(Cron)
  PROVE  OInv'
<1>1. /\ pc[Cron] = "copy" /\ pc' = [pc EXCEPT ![Cron] = "load"]
      /\ lineage_edge_shadow' = lineage_edge_shadow \cup Kept
      /\ UNCHANGED <<sql_repository, lineage_edge, table_closure, run, found, jobs, ghost>>
  BY DEF CopyKept, Goto, closureTables
<1>2. Shape' /\ pc'[Cron] = "load"
  BY <1>1, CronRebuilds DEF OInv, Shape, Steps
<1>3. ~ghost.touched => lineage_edge_shadow' = { e \in ghost.edges : e.type # "sql" }
  BY <1>1 DEF OInv, EdgeSteps, BeforeEdges, Kept
<1> QED
  BY <1>1, <1>2, <1>3 DEF OInv, EdgeSteps, ClosureSteps, TextSteps, BeforeEdges, Between,
                          AfterRead, AfterLoad, ReadTexts, Steps

LEMMA LoadOrder ==
  ASSUME OInv, BulkInsert(Cron)
  PROVE  OInv'
<1>1. /\ pc[Cron] = "load" /\ pc' = [pc EXCEPT ![Cron] = "fold"]
      /\ lineage_edge_shadow' = lineage_edge_shadow \cup Loaded(Cron, Active)
      /\ sql_repository' = StatusesOf(Cron, Active)
      /\ UNCHANGED <<lineage_edge, table_closure, run, found, jobs, ghost>>
  BY DEF BulkInsert, Goto, closureTables
<1>2. \A s \in Sqls : /\ DOMAIN sql_repository'[s] = {"text", "status"}
                      /\ sql_repository'[s].text = sql_repository[s].text
                      /\ s \in Active => sql_repository'[s].status = jobs[Cron][s].status
  BY <1>1 DEF StatusesOf, OInv, Shape
<1>3. Shape' /\ pc'[Cron] = "fold"
  BY <1>1, <1>2, CronRebuilds DEF OInv, Shape, Steps, StatusesOf
<1>4. Recorded' /\ (ReadTexts => ReadTexts')
  BY <1>1, <1>2, PipelineAssumption DEF Recorded, ReadTexts
<1>5. ~ghost.touched => lineage_edge_shadow' = Parsing(Cron)'
  BY <1>1, SameBuild DEF OInv, EdgeSteps, Parsing
<1> QED
  BY <1>1, <1>3, <1>4, <1>5 DEF OInv, EdgeSteps, ClosureSteps, TextSteps, BeforeEdges, Between,
                                AfterRead, AfterLoad, Steps

LEMMA FoldOrder ==
  ASSUME OInv, FoldShadow(Cron)
  PROVE  OInv'
<1>1. /\ pc[Cron] = "fold" /\ pc' = [pc EXCEPT ![Cron] = "checkEdges"]
      /\ lineage_edge_shadow' = FoldTmpEdges(lineage_edge_shadow, AnySql, TRUE)
      /\ UNCHANGED <<sql_repository, lineage_edge, table_closure, run, found, jobs, ghost>>
  BY DEF FoldShadow, Goto, closureTables
<1>2. Shape' /\ pc'[Cron] = "checkEdges"
  BY <1>1, CronRebuilds DEF OInv, Shape, Steps
<1>3. ~ghost.touched => lineage_edge_shadow' = NewBuild(Cron)'
  BY <1>1, SameBuild DEF OInv, EdgeSteps, NewBuild
<1>4. (ReadTexts => ReadTexts') /\ (Recorded => Recorded')
  BY <1>1 DEF ReadTexts, Recorded
<1> QED
  BY <1>1, <1>2, <1>3, <1>4 DEF OInv, EdgeSteps, ClosureSteps, TextSteps, BeforeEdges, Between,
                                AfterRead, AfterLoad, Steps

(* Steps that move a rebuild on within a phase and write nothing else the  *)
(* claims speak of.                                                        *)
LEMMA MoveOrder ==
  ASSUME OInv,
         \/ CheckEdges(Cron) /\ ~EdgesExceed
         \/ DropEdgePrev(Cron)
         \/ CheckClosure(Cron) /\ ~ClosureExceeds(Cron)
         \/ DropClosurePrev(Cron)
  PROVE  OInv'
<1>1. UNCHANGED <<sql_repository, lineage_edge, lineage_edge_shadow, table_closure,
                  table_closure_shadow, run, found, jobs, ghost>>
  BY DEF CheckEdges, DropEdgePrev, CheckClosure, DropClosurePrev, edgeTables, closureTables
<1>2. \/ pc[Cron] = "checkEdges" /\ pc' = [pc EXCEPT ![Cron] = "dropEdgePrev"]
      \/ pc[Cron] = "dropEdgePrev" /\ pc' = [pc EXCEPT ![Cron] = "renameEdges"]
      \/ pc[Cron] = "checkClosure" /\ pc' = [pc EXCEPT ![Cron] = "dropClosurePrev"]
      \/ pc[Cron] = "dropClosurePrev" /\ pc' = [pc EXCEPT ![Cron] = "renameClosure"]
  BY DEF CheckEdges, DropEdgePrev, CheckClosure, DropClosurePrev, Goto
<1>3. NewBuild(Cron)' = NewBuild(Cron)
  BY <1>1, SameBuild
<1>4. (ReadTexts => ReadTexts') /\ (Recorded => Recorded')
  BY <1>1 DEF ReadTexts, Recorded
<1>5. /\ Shape'
      /\ \/ pc[Cron] = "checkEdges" /\ pc'[Cron] = "dropEdgePrev"
         \/ pc[Cron] = "dropEdgePrev" /\ pc'[Cron] = "renameEdges"
         \/ pc[Cron] = "checkClosure" /\ pc'[Cron] = "dropClosurePrev"
         \/ pc[Cron] = "dropClosurePrev" /\ pc'[Cron] = "renameClosure"
  BY <1>1, <1>2, CronRebuilds DEF OInv, Shape, Steps
<1> QED
  BY <1>1, <1>3, <1>4, <1>5 DEF OInv, EdgeSteps, ClosureSteps, TextSteps, BeforeEdges, Between,
                                AfterRead, AfterLoad, Steps

(* Past a limit the rebuild ends with nothing published by this step. *)
LEMMA AbortOrder ==
  ASSUME OInv,
         \/ CheckEdges(Cron) /\ EdgesExceed
         \/ CheckClosure(Cron) /\ ClosureExceeds(Cron)
  PROVE  OInv'
<1>1. /\ pc' = [pc EXCEPT ![Cron] = "idle"] /\ run' = [run EXCEPT ![Cron] = "aborted"]
      /\ UNCHANGED <<sql_repository, lineage_edge, table_closure, found, jobs, ghost>>
  BY DEF CheckEdges, CheckClosure, Goto, edgeTables, closureTables
<1>2. Shape' /\ pc'[Cron] = "idle" /\ run'[Cron] = "aborted"
  BY <1>1, CronRebuilds DEF OInv, Shape, Steps
<1>3. ASSUME ~ghost.touched, CheckEdges(Cron), EdgesExceed PROVE WhyAborted
  <2>1. pc[Cron] = "checkEdges" /\ EdgesExceed
    BY <1>3 DEF CheckEdges, Goto
  <2> QED
    BY <1>3, <2>1 DEF OInv, EdgeSteps, WhyAborted, EdgesExceed, BeforeEdges
<1>4. ASSUME ~ghost.touched, CheckClosure(Cron), ClosureExceeds(Cron) PROVE WhyAborted
  <2>1. pc[Cron] = "checkClosure" /\ ClosureExceeds(Cron)
    BY <1>4 DEF CheckClosure, Goto
  <2> QED
    BY <1>4, <2>1 DEF OInv, ClosureSteps, WhyAborted, ClosureExceeds, Between
<1>5. ~ghost.touched => WhyAborted
  BY <1>3, <1>4
<1> QED
  BY <1>1, <1>2, <1>5, StopOrder

LEMMA RenameEdgesOrder ==
  ASSUME OInv, RenameEdges(Cron)
  PROVE  OInv'
<1>1. /\ pc[Cron] = "renameEdges" /\ pc' = [pc EXCEPT ![Cron] = "closure"]
      /\ lineage_edge' = lineage_edge_shadow
      /\ UNCHANGED <<sql_repository, table_closure, run, found, jobs, ghost>>
  BY DEF RenameEdges, Goto, closureTables
<1>2. Shape' /\ pc'[Cron] = "closure"
  BY <1>1, CronRebuilds DEF OInv, Shape, Steps
<1>3. ~ghost.touched => lineage_edge' = NewBuild(Cron)' /\ table_closure' = ghost'.closure
  BY <1>1, SameBuild DEF OInv, EdgeSteps, BeforeEdges
<1>4. (ReadTexts => ReadTexts') /\ (Recorded => Recorded')
  BY <1>1 DEF ReadTexts, Recorded
<1> QED
  BY <1>1, <1>2, <1>3, <1>4 DEF OInv, EdgeSteps, ClosureSteps, TextSteps, BeforeEdges, Between,
                                AfterRead, AfterLoad, Steps

LEMMA FindClosureOrder ==
  ASSUME OInv, DropClosureShadow(Cron)
  PROVE  OInv'
<1>1. /\ pc[Cron] = "closure" /\ pc' = [pc EXCEPT ![Cron] = "createClosure"]
      /\ found' = [found EXCEPT ![Cron] = ClosureOf(lineage_edge)]
      /\ UNCHANGED <<sql_repository, lineage_edge, table_closure, run, jobs, ghost>>
  BY DEF DropClosureShadow, Goto, edgeTables
<1>2. Shape' /\ pc'[Cron] = "createClosure" /\ found'[Cron] = ClosureOf(lineage_edge')
  BY <1>1, CronRebuilds DEF OInv, Shape, Steps
<1>3. NewBuild(Cron)' = NewBuild(Cron) /\ ClosureOf(lineage_edge)' = ClosureOf(lineage_edge)
  BY <1>1, SameBuild
<1>4. (ReadTexts => ReadTexts') /\ (Recorded => Recorded')
  BY <1>1 DEF ReadTexts, Recorded
<1> QED
  BY <1>1, <1>2, <1>3, <1>4 DEF OInv, EdgeSteps, ClosureSteps, TextSteps, BeforeEdges, Between,
                                AfterRead, AfterLoad, Steps

LEMMA CreateClosureOrder ==
  ASSUME OInv, CreateClosureShadow(Cron)
  PROVE  OInv'
<1>1. /\ pc[Cron] = "createClosure" /\ pc' = [pc EXCEPT ![Cron] = "loadClosure"]
      /\ table_closure_shadow' = {}
      /\ UNCHANGED <<sql_repository, lineage_edge, table_closure, found, run, jobs, ghost>>
  BY DEF CreateClosureShadow, Goto, edgeTables
<1>2. Shape' /\ pc'[Cron] = "loadClosure" /\ found'[Cron] = found[Cron]
  BY <1>1, CronRebuilds DEF OInv, Shape, Steps
<1>3. NewBuild(Cron)' = NewBuild(Cron) /\ ClosureOf(lineage_edge)' = ClosureOf(lineage_edge)
  BY <1>1, SameBuild
<1>4. (ReadTexts => ReadTexts') /\ (Recorded => Recorded')
  BY <1>1 DEF ReadTexts, Recorded
<1> QED
  BY <1>1, <1>2, <1>3, <1>4 DEF OInv, EdgeSteps, ClosureSteps, TextSteps, BeforeEdges, Between,
                                AfterRead, AfterLoad, Steps

LEMMA LoadClosureOrder ==
  ASSUME OInv, LoadClosureShadow(Cron)
  PROVE  OInv'
<1>1. /\ pc[Cron] = "loadClosure" /\ pc' = [pc EXCEPT ![Cron] = "checkClosure"]
      /\ table_closure_shadow' = table_closure_shadow \cup found[Cron]
      /\ UNCHANGED <<sql_repository, lineage_edge, table_closure, run, found, jobs, ghost>>
  BY DEF LoadClosureShadow, Goto, edgeTables
<1>2. Shape' /\ pc'[Cron] = "checkClosure"
  BY <1>1, CronRebuilds DEF OInv, Shape, Steps
<1>3. ~ghost.touched => /\ table_closure_shadow' = ClosureOf(lineage_edge)'
                        /\ found'[Cron] = ClosureOf(lineage_edge)'
  BY <1>1 DEF OInv, ClosureSteps
<1>4. NewBuild(Cron)' = NewBuild(Cron)
  BY <1>1, SameBuild
<1>5. (ReadTexts => ReadTexts') /\ (Recorded => Recorded')
  BY <1>1 DEF ReadTexts, Recorded
<1> QED
  BY <1>1, <1>2, <1>3, <1>4, <1>5
     DEF OInv, EdgeSteps, ClosureSteps, TextSteps, BeforeEdges, Between, AfterRead, AfterLoad,
         Steps

LEMMA RenameClosureOrder ==
  ASSUME OInv, RenameClosure(Cron)
  PROVE  OInv'
<1>1. /\ pc[Cron] = "renameClosure" /\ pc' = [pc EXCEPT ![Cron] = "finish"]
      /\ table_closure' = table_closure_shadow
      /\ UNCHANGED <<sql_repository, lineage_edge, run, found, jobs, ghost>>
  BY DEF RenameClosure, Goto, edgeTables
<1>2. Shape' /\ pc'[Cron] = "finish"
  BY <1>1, CronRebuilds DEF OInv, Shape, Steps
<1>3. ~ghost.touched => BothNew'
  BY <1>1, SameBuild DEF OInv, ClosureSteps, Between, BothNew
<1>4. (ReadTexts => ReadTexts') /\ (Recorded => Recorded')
  BY <1>1 DEF ReadTexts, Recorded
<1> QED
  BY <1>1, <1>2, <1>3, <1>4 DEF OInv, EdgeSteps, ClosureSteps, TextSteps, BeforeEdges, Between,
                                AfterRead, AfterLoad, Steps

LEMMA FinishOrder ==
  ASSUME OInv, FinishFull(Cron)
  PROVE  OInv'
<1>1. /\ pc[Cron] = "finish" /\ pc' = [pc EXCEPT ![Cron] = "idle"]
      /\ UNCHANGED <<sql_repository, lineage_edge, table_closure, found, jobs, ghost>>
      /\ run' = [run EXCEPT ![Cron] = "success"]
  BY DEF FinishFull, Goto, edgeTables, closureTables
<1>2. Shape' /\ pc'[Cron] = "idle"
  BY <1>1, CronRebuilds DEF OInv, Shape, Steps
<1>3. (BothNew => BothNew') /\ (ReadTexts => ReadTexts') /\ (Recorded => Recorded')
  BY <1>1, SameBuild DEF BothNew, ReadTexts, Recorded
<1>4. BothNew' => Left'
  BY DEF BothNew, Left
<1>5. ~ghost.touched => BothNew /\ ReadTexts /\ Recorded
  BY <1>1 DEF OInv, ClosureSteps, TextSteps, AfterRead, AfterLoad, Steps
<1> QED
  BY <1>1, <1>2, <1>3, <1>4, <1>5
     DEF OInv, EdgeSteps, ClosureSteps, TextSteps, BeforeEdges, Between, AfterRead, AfterLoad,
         Steps

-----------------------------------------------------------------------------
LEMMA NextOrder ==
  ASSUME OInv, ByHand = {}, [Next]_vars
  PROVE  OInv'
<1>1. CASE UNCHANGED vars
  BY <1>1, SilentOrder DEF vars, edgeTables, closureTables
<1>2. ASSUME NEW r \in Rebuilds, StartFull(r) \/ FullStep(r) \/ ErrorInFull(r) \/ CrashFull(r)
      PROVE  OInv'
  <2>1. r = Cron
    BY DEF Rebuilds
  <2>2. CheckEdges(Cron) \/ CheckClosure(Cron) => OInv'
    BY MoveOrder, AbortOrder
  <2> QED
    BY <1>2, <2>1, <2>2, StartOrder, ReadOrder, DropShadowOrder, ShadowOrder, CopyOrder,
       LoadOrder, FoldOrder, MoveOrder, RenameEdgesOrder, FindClosureOrder, CreateClosureOrder,
       LoadClosureOrder, RenameClosureOrder, FinishOrder, FaultOrder DEF FullStep
<1>3. CASE ReadRegion \/ \E s \in Sqls : StartHook(s)
  BY <1>3, SilentOrder DEF ReadRegion, StartHook, edgeTables, closureTables
<1> QED
  BY <1>1, <1>2, <1>3, WriterOrder DEF Next, HookStep

(* Whatever befalls a rebuild that nobody writes beside, full_rebuild      *)
(* leaves readers with what they had, with the new edges and the old       *)
(* closure, or with both new; one recorded as aborted exceeded one of the  *)
(* two limits and changed nothing, or the edges alone; one recorded as a   *)
(* success by record_run has published the drawn edges and those of every  *)
(* active text that it parsed in time, and their closure.  A text that     *)
(* timed out is published without edges, as 'degraded'.                    *)
THEOREM RebuildPublishes ==
  ASSUME ByHand = {}
  PROVE  Spec => [](PublishedInOrder /\ SuccessPublishesBoth)
<1>1. OInv /\ [Next]_vars => OInv'
  BY NextOrder
<1>2. OInv => PublishedInOrder /\ SuccessPublishesBoth
  <2> SUFFICES ASSUME OInv PROVE PublishedInOrder /\ SuccessPublishesBoth
    OBVIOUS
  <2>1. \A r \in Rebuilds : r = Cron
    BY DEF Rebuilds
  <2>2. PublishedInOrder
    BY <2>1, AlwaysLeft DEF PublishedInOrder, Left, Alone, OInv, TextSteps, WhyAborted
  <2>3. SuccessPublishesBoth
    BY <2>1 DEF SuccessPublishesBoth, Alone, OInv, TextSteps, BothNew, ReadTexts, Recorded
  <2> QED
    BY <2>2, <2>3
<1> QED
  BY InitOrder, <1>1, <1>2, PTL DEF Spec

-----------------------------------------------------------------------------
(* What the runs check as TypeOK, and the rest of the shape of the state.  *)
RepositoryOK ==
  /\ sql_repository \in [Sqls -> [text : Texts, status : Statuses]]
  /\ \A s \in Sqls : sql_repository[s].text \in Versions[s]
MaybeEdges(t) == t = NoTable \/ t \subseteq EdgeRows
MaybePairs(t) == t = NoTable \/ t \subseteq Tables \X Tables
TablesOK ==
  /\ lineage_edge \subseteq EdgeRows
  /\ MaybeEdges(lineage_edge_shadow) /\ MaybeEdges(lineage_edge_prev)
  /\ table_closure \subseteq Tables \X Tables
  /\ MaybePairs(table_closure_shadow) /\ MaybePairs(table_closure_prev)
RebuildsOK ==
  /\ pc \in [Rebuilds -> Steps]
  /\ jobs \in [Rebuilds -> [Active -> [reads : SUBSET Tables, status : Statuses]]]
  /\ found \in [Rebuilds -> SUBSET (Tables \X Tables)]
  /\ run \in [Rebuilds -> {"none", "running", "success", "aborted", "failed"}]
HookOK ==
  /\ DOMAIN hook = {"at", "sql", "text", "anc", "desc", "pairs"}
  /\ hook.at \in {"idle", "replace", "fold", "region", "patch"} /\ hook.sql \in AnySql
  /\ hook.at # "idle" => hook.sql \in Sqls /\ hook.text \in Versions[hook.sql]
  /\ hook.pairs \subseteq Tables \X Tables
LeftOK ==
  /\ DOMAIN left = {"changes", "hooks", "faults", "starts"}
  /\ left.changes \in 0..Changes /\ left.hooks \in 0..Hooks /\ left.faults \in 0..Faults
TypeInv == RepositoryOK /\ TablesOK /\ RebuildsOK /\ HookOK /\ LeftOK

LEMMA TypeInvTypes == TypeInv => TypeOK
  BY DEF TypeInv, TypeOK, RepositoryOK, TablesOK, MaybeEdges, MaybePairs, RebuildsOK, HookOK,
         LeftOK

-----------------------------------------------------------------------------
(* The edges of a statement, the closure of edges, a parse. *)
LEMMA SqlEdgesTyped ==
  ASSUME NEW s \in Sqls, NEW reads \in SUBSET Tables
  PROVE  SqlEdges(s, reads) \subseteq EdgeRows
  BY PipelineAssumption DEF SqlEdges, EdgeRows, AnySql

LEMMA ClosureTyped ==
  ASSUME NEW E
  PROVE  ClosureOf(E) \subseteq Tables \X Tables
  BY DEF ClosureOf, Connected

LEMMA ParsedTyped ==
  ASSUME NEW v \in Texts
  PROVE  /\ Parsed(v) \in [reads : SUBSET Tables, status : Statuses]
         /\ TimedOut \in [reads : SUBSET Tables, status : Statuses]
  BY PipelineAssumption DEF Parsed, TimedOut, Statuses

LEMMA LoadedTyped ==
  ASSUME RebuildsOK, NEW r \in Rebuilds, NEW S \in SUBSET Active
  PROVE  Loaded(r, S) \subseteq EdgeRows
<1>1. \A s \in S : jobs[r][s].reads \in SUBSET Tables
  BY DEF RebuildsOK
<1> QED BY <1>1, SqlEdgesTyped, ActiveSqls DEF Loaded

LEMMA InitTyped == Init => TypeInv
<1> SUFFICES ASSUME Init PROVE TypeInv
  OBVIOUS
<1>1. RepositoryOK
  BY DEF Init, RepositoryOK
<1>2. lineage_edge \subseteq EdgeRows
  <2> DEFINE R == [s \in Sqls |-> Reads[sql_repository[s].text]]
             E == UNION { SqlEdges(s, R[s]) : s \in Active }
  <2>1. \A s \in Sqls : R[s] \in SUBSET Tables
    BY <1>1, PipelineAssumption DEF RepositoryOK
  <2>2. E \subseteq EdgeRows
    <3> HIDE DEF R
    <3> QED BY <2>1, SqlEdgesTyped, ActiveSqls
  <2>3. lineage_edge = FoldTmpEdges(E, AnySql, TRUE)
    BY DEF Init, Built
  <2> HIDE DEF E
  <2> QED BY <2>2, <2>3, FoldTyped, PipelineAssumption
<1>3. TablesOK
  BY <1>2, ClosureTyped DEF Init, TablesOK, MaybeEdges, MaybePairs
<1>4. RebuildsOK
  BY DEF Init, RebuildsOK, Steps, TimedOut, Statuses
<1>5. HookOK
  BY DEF Init, HookOK, NoHook, AnySql
<1>6. LeftOK
  BY LimitAssumption DEF Init, LeftOK
<1> QED BY <1>1, <1>3, <1>4, <1>5, <1>6 DEF TypeInv

-----------------------------------------------------------------------------
(* What each group of variables becomes in a step. *)
LEMMA SpentTyped ==
  ASSUME LeftOK, NEW kind \in {"changes", "hooks", "faults", "starts"}, Spend(kind)
  PROVE  LeftOK'
<1>1. left[kind] > 0 /\ left' = [left EXCEPT ![kind] = @ - 1]
  BY DEF Spend
<1>2. DOMAIN left' = {"changes", "hooks", "faults", "starts"}
  BY <1>1 DEF LeftOK
<1>3. \A k \in DOMAIN left : k # kind => left'[k] = left[k]
  BY <1>1 DEF LeftOK
<1>4. left'[kind] = left[kind] - 1
  BY <1>1 DEF LeftOK
<1>5. left[kind] \in 0..Changes => left'[kind] \in 0..Changes
  BY <1>1, <1>4, LimitAssumption
<1>6. left[kind] \in 0..Hooks => left'[kind] \in 0..Hooks
  BY <1>1, <1>4, LimitAssumption
<1>7. left[kind] \in 0..Faults => left'[kind] \in 0..Faults
  BY <1>1, <1>4, LimitAssumption
<1> QED BY <1>2, <1>3, <1>5, <1>6, <1>7 DEF LeftOK

LEMMA LeftTyped ==
  ASSUME TypeInv, [Next]_vars
  PROVE  LeftOK'
<1>1. left' = left \/ \E kind \in {"changes", "hooks", "faults", "starts"} : Spend(kind)
  BY DEF Next, vars, StartFull, FullStep, ReadJobs, DropShadow, CreateShadow, CopyKept,
         BulkInsert, FoldShadow, CheckEdges, DropEdgePrev, RenameEdges, DropClosureShadow,
         CreateClosureShadow, LoadClosureShadow, CheckClosure, DropClosurePrev, RenameClosure,
         FinishFull, StatementFails, ErrorInFull, CrashFull, StartHook, UpsertSql, HookStep,
         ReplaceEdges, FoldTask, ReadRegion, PatchClosure, BreakHook, ManualLineage
<1>2. CASE left' = left
  BY <1>2 DEF TypeInv, LeftOK
<1> QED BY <1>1, <1>2, SpentTyped DEF TypeInv

LEMMA RepositoryTyped ==
  ASSUME TypeInv, [Next]_vars
  PROVE  RepositoryOK'
<1>1. \/ sql_repository' = sql_repository
      \/ \E r \in Rebuilds : \E S \in SUBSET Active : sql_repository' = StatusesOf(r, S)
      \/ \E s \in Sqls : \E v \in Versions[s] :
           sql_repository' = [sql_repository EXCEPT ![s] = [text |-> v, status |-> "pending"]]
      \/ /\ hook.at = "replace"
         /\ sql_repository' =
              [sql_repository EXCEPT ![hook.sql].status = Parsed(hook.text).status]
      \/ \E w \in Drawings :
           /\ w.sql # NoSql
           /\ sql_repository' = [sql_repository EXCEPT ![w.sql].status = "manual"]
  <2>1. CASE \E r \in Rebuilds : StartFull(r) \/ FullStep(r) \/ ErrorInFull(r) \/ CrashFull(r)
    <3>1. PICK r \in Rebuilds : StartFull(r) \/ FullStep(r) \/ ErrorInFull(r) \/ CrashFull(r)
      BY <2>1
    <3>2. CASE BulkInsert(r) \/ ErrorInFull(r)
      BY <3>2 DEF BulkInsert, ErrorInFull, LeftOver
    <3>3. CASE StartFull(r) \/ (FullStep(r) /\ ~BulkInsert(r)) \/ CrashFull(r)
      BY <3>3 DEF StartFull, FullStep, ReadJobs, DropShadow, CreateShadow, CopyKept,
         FoldShadow, CheckEdges, DropEdgePrev, RenameEdges, DropClosureShadow,
         CreateClosureShadow, LoadClosureShadow, CheckClosure, DropClosurePrev, RenameClosure,
         FinishFull, StatementFails, CrashFull
    <3> QED BY <3>1, <3>2, <3>3
  <2>2. CASE \E s \in Sqls : StartHook(s) \/ \E v \in Versions[s] : UpsertSql(s, v)
    BY <2>2 DEF StartHook, UpsertSql
  <2>3. CASE HookStep \/ BreakHook
    BY <2>3 DEF HookStep, ReplaceEdges, FoldTask, ReadRegion, PatchClosure, BreakHook
  <2>4. CASE \E w \in Drawings : ManualLineage(w)
    BY <2>4 DEF ManualLineage
  <2>5. CASE UNCHANGED vars
    BY <2>5 DEF vars
  <2> QED BY <2>1, <2>2, <2>3, <2>4, <2>5 DEF Next
<1>2. CASE sql_repository' = sql_repository
  BY <1>2 DEF TypeInv, RepositoryOK
<1>3. ASSUME NEW s \in Sqls, NEW v \in Versions[s],
             sql_repository' = [sql_repository EXCEPT ![s] = [text |-> v, status |-> "pending"]]
      PROVE  RepositoryOK'
  BY <1>3, PipelineAssumption DEF TypeInv, RepositoryOK, Statuses
<1>4. ASSUME NEW s \in Sqls, NEW status \in Statuses,
             sql_repository' = [sql_repository EXCEPT ![s].status = status]
      PROVE  RepositoryOK'
  BY <1>4 DEF TypeInv, RepositoryOK
<1>5. ASSUME NEW r \in Rebuilds, NEW S \in SUBSET Active, sql_repository' = StatusesOf(r, S)
      PROVE  RepositoryOK'
  <2>1. \A s \in Active : jobs[r][s].status \in Statuses
    BY DEF TypeInv, RebuildsOK
  <2> QED BY <1>5, <2>1 DEF TypeInv, RepositoryOK, StatusesOf
<1>6. hook.at = "replace" => hook.sql \in Sqls /\ Parsed(hook.text).status \in Statuses
  BY DEF TypeInv, HookOK, Parsed, Statuses
<1>7. \A w \in Drawings : w.sql # NoSql => w.sql \in Sqls
  BY PipelineAssumption DEF AnySql
<1>8. "manual" \in Statuses
  BY DEF Statuses
<1> QED BY <1>1, <1>2, <1>3, <1>4, <1>5, <1>6, <1>7, <1>8

LEMMA HookTyped ==
  ASSUME TypeInv, [Next]_vars
  PROVE  HookOK'
<1>1. CASE hook' = hook
  BY <1>1 DEF TypeInv, HookOK
<1>2. CASE hook' = NoHook
  BY <1>2 DEF HookOK, NoHook, AnySql
<1>3. ASSUME NEW s \in Sqls, StartHook(s) PROVE HookOK'
  <2>1. hook' = [NoHook EXCEPT !.at = "replace", !.sql = s, !.text = sql_repository[s].text]
    BY <1>3 DEF StartHook
  <2>2. sql_repository[s].text \in Versions[s]
    BY DEF TypeInv, RepositoryOK
  <2> QED BY <2>1, <2>2 DEF HookOK, NoHook, AnySql
<1>4. CASE ReplaceEdges \/ FoldTask
  <2>1. /\ hook.at # "idle"
        /\ hook' = [hook EXCEPT !.at = "fold"] \/ hook' = [hook EXCEPT !.at = "region"]
    BY <1>4 DEF ReplaceEdges, FoldTask
  <2> QED BY <2>1 DEF TypeInv, HookOK
<1>5. CASE ReadRegion
  <2>1. \/ hook' = NoHook
        \/ \E A, D : hook' = [hook EXCEPT !.at = "patch", !.anc = A, !.desc = D,
                                          !.pairs = ClosureOf(lineage_edge) \cap (A \X D)]
    BY <1>5 DEF ReadRegion
  <2>2. ASSUME NEW A, NEW D,
               hook' = [hook EXCEPT !.at = "patch", !.anc = A, !.desc = D,
                                    !.pairs = ClosureOf(lineage_edge) \cap (A \X D)]
        PROVE  HookOK'
    <3>1. hook.at = "region"
      BY <1>5 DEF ReadRegion
    <3>2. ClosureOf(lineage_edge) \cap (A \X D) \subseteq Tables \X Tables
      BY ClosureTyped
    <3>3. /\ hook'.at = "patch" /\ hook'.sql = hook.sql /\ hook'.text = hook.text
          /\ hook'.pairs = ClosureOf(lineage_edge) \cap (A \X D)
          /\ DOMAIN hook' = DOMAIN hook
      BY <2>2 DEF TypeInv, HookOK
    <3> QED BY <3>1, <3>2, <3>3 DEF TypeInv, HookOK
  <2> QED BY <1>2, <2>1, <2>2
<1>6. \/ hook' = hook \/ hook' = NoHook \/ (\E s \in Sqls : StartHook(s))
      \/ ReplaceEdges \/ FoldTask \/ ReadRegion
  BY DEF Next, vars, StartFull, FullStep, ReadJobs, DropShadow, CreateShadow, CopyKept,
         BulkInsert, FoldShadow, CheckEdges, DropEdgePrev, RenameEdges, DropClosureShadow,
         CreateClosureShadow, LoadClosureShadow, CheckClosure, DropClosurePrev, RenameClosure,
         FinishFull, StatementFails, ErrorInFull, CrashFull, UpsertSql, HookStep,
         PatchClosure, BreakHook, ManualLineage
<1> QED BY <1>1, <1>2, <1>3, <1>4, <1>5, <1>6

LEMMA RebuildsTyped ==
  ASSUME TypeInv, [Next]_vars
  PROVE  RebuildsOK'
<1>1. pc' \in [Rebuilds -> Steps]
  <2>1. pc' = pc \/ \E r \in Rebuilds : \E n \in Steps : pc' = [pc EXCEPT ![r] = n]
    BY DEF Next, vars, StartFull, FullStep, ReadJobs, DropShadow, CreateShadow, CopyKept,
           BulkInsert, FoldShadow, CheckEdges, DropEdgePrev, RenameEdges, DropClosureShadow,
           CreateClosureShadow, LoadClosureShadow, CheckClosure, DropClosurePrev,
           RenameClosure, FinishFull, StatementFails, ErrorInFull, CrashFull, StartHook,
           UpsertSql, HookStep, ReplaceEdges, FoldTask, ReadRegion, PatchClosure, BreakHook,
           ManualLineage, Goto, Steps
  <2> QED BY <2>1 DEF TypeInv, RebuildsOK
<1>2. /\ jobs' = jobs \/ \E r \in Rebuilds : ReadJobs(r)
      /\ found' = found
           \/ \E r \in Rebuilds : found' = [found EXCEPT ![r] = ClosureOf(lineage_edge)]
  BY DEF Next, vars, StartFull, FullStep, DropShadow, CreateShadow, CopyKept, BulkInsert,
         FoldShadow, CheckEdges, DropEdgePrev, RenameEdges, DropClosureShadow,
         CreateClosureShadow, LoadClosureShadow, CheckClosure, DropClosurePrev, RenameClosure,
         FinishFull, StatementFails, ErrorInFull, CrashFull, StartHook, UpsertSql, HookStep,
         ReplaceEdges, FoldTask, ReadRegion, PatchClosure, BreakHook, ManualLineage, ReadJobs
<1>3. \/ run' = run
      \/ \E r \in Rebuilds : \E n \in {"running", "success", "aborted", "failed"} :
           run' = [run EXCEPT ![r] = n]
  BY DEF Next, vars, StartFull, FullStep, ReadJobs, DropShadow, CreateShadow, CopyKept,
         BulkInsert, FoldShadow, CheckEdges, DropEdgePrev, RenameEdges, DropClosureShadow,
         CreateClosureShadow, LoadClosureShadow, CheckClosure, DropClosurePrev, RenameClosure,
         FinishFull, StatementFails, ErrorInFull, CrashFull, StartHook, UpsertSql, HookStep,
         ReplaceEdges, FoldTask, ReadRegion, PatchClosure, BreakHook, ManualLineage
<1>4. jobs' \in [Rebuilds -> [Active -> [reads : SUBSET Tables, status : Statuses]]]
  <2>1. CASE jobs' = jobs
    BY <2>1 DEF TypeInv, RebuildsOK
  <2>2. ASSUME NEW r \in Rebuilds, ReadJobs(r)
        PROVE  jobs' \in [Rebuilds -> [Active -> [reads : SUBSET Tables, status : Statuses]]]
    <3>1. PICK slow : jobs' = [jobs EXCEPT ![r] =
            [s \in Active |-> IF s \in slow THEN TimedOut ELSE Parsed(sql_repository[s].text)]]
      BY <2>2 DEF ReadJobs
    <3>2. \A s \in Sqls : sql_repository[s].text \in Texts
      BY DEF TypeInv, RepositoryOK
    <3>3. [s \in Active |-> IF s \in slow THEN TimedOut ELSE Parsed(sql_repository[s].text)]
            \in [Active -> [reads : SUBSET Tables, status : Statuses]]
      BY <3>2, ParsedTyped, ActiveSqls
    <3> QED BY <3>1, <3>3 DEF TypeInv, RebuildsOK
  <2> QED BY <1>2, <2>1, <2>2
<1>5. found' \in [Rebuilds -> SUBSET (Tables \X Tables)]
  BY <1>2, ClosureTyped DEF TypeInv, RebuildsOK
<1>6. run' \in [Rebuilds -> {"none", "running", "success", "aborted", "failed"}]
  BY <1>3 DEF TypeInv, RebuildsOK
<1> QED BY <1>1, <1>4, <1>5, <1>6 DEF RebuildsOK

(* The tables: what a step puts into one comes from rows that were there,  *)
(* from parses, from folding or from a closure that was computed.          *)
LEMMA EdgesTyped ==
  ASSUME TypeInv, [Next]_vars
  PROVE  /\ lineage_edge' \subseteq EdgeRows
         /\ MaybeEdges(lineage_edge_shadow') /\ MaybeEdges(lineage_edge_prev')
<1>1. /\ lineage_edge \subseteq EdgeRows
      /\ MaybeEdges(lineage_edge_shadow) /\ MaybeEdges(lineage_edge_prev)
  BY DEF TypeInv, TablesOK
<1>2. IsFiniteSet(TmpTables)
  BY PipelineAssumption
<1>3. ASSUME NEW r \in Rebuilds, StartFull(r) \/ FullStep(r) \/ ErrorInFull(r) \/ CrashFull(r)
      PROVE  /\ lineage_edge' \subseteq EdgeRows
             /\ MaybeEdges(lineage_edge_shadow') /\ MaybeEdges(lineage_edge_prev')
  <2>1. CASE CopyKept(r)
    <3>1. /\ lineage_edge_shadow # NoTable /\ lineage_edge_shadow' = lineage_edge_shadow \cup Kept
          /\ UNCHANGED <<lineage_edge, lineage_edge_prev>>
      BY <2>1 DEF CopyKept
    <3>2. Kept \subseteq EdgeRows
      BY <1>1 DEF Kept
    <3> QED BY <1>1, <3>1, <3>2 DEF MaybeEdges
  <2>2. CASE BulkInsert(r)
    <3>1. /\ lineage_edge_shadow # NoTable
          /\ lineage_edge_shadow' = lineage_edge_shadow \cup Loaded(r, Active)
          /\ UNCHANGED <<lineage_edge, lineage_edge_prev>>
      BY <2>2 DEF BulkInsert
    <3>2. Loaded(r, Active) \subseteq EdgeRows
      BY LoadedTyped DEF TypeInv
    <3> QED BY <1>1, <3>1, <3>2 DEF MaybeEdges
  <2>3. CASE FoldShadow(r)
    <3>1. /\ lineage_edge_shadow # NoTable
          /\ lineage_edge_shadow' = FoldTmpEdges(lineage_edge_shadow, AnySql, TRUE)
          /\ UNCHANGED <<lineage_edge, lineage_edge_prev>>
      BY <2>3 DEF FoldShadow
    <3> QED BY <1>1, <1>2, <3>1, FoldTyped DEF MaybeEdges
  <2>4. CASE RenameEdges(r)
    BY <1>1, <2>4 DEF RenameEdges, MaybeEdges
  <2>5. CASE DropShadow(r) \/ CreateShadow(r) \/ DropEdgePrev(r)
    BY <1>1, <2>5 DEF DropShadow, CreateShadow, DropEdgePrev, MaybeEdges
  <2>6. CASE ErrorInFull(r)
    <3>1. /\ UNCHANGED <<lineage_edge, lineage_edge_prev>>
          /\ LeftOver(r)
      BY <2>6 DEF ErrorInFull
    <3>2. \/ lineage_edge_shadow' = lineage_edge_shadow
          \/ /\ lineage_edge_shadow # NoTable
             /\ \/ lineage_edge_shadow' = lineage_edge_shadow \cup Kept
                \/ lineage_edge_shadow' = InsertSynthetic(lineage_edge_shadow, AnySql)
                \/ \E S \in SUBSET Active :
                      lineage_edge_shadow' = lineage_edge_shadow \cup Loaded(r, S)
      BY <3>1 DEF LeftOver
    <3>3. Kept \subseteq EdgeRows
      BY <1>1 DEF Kept
    <3>4. \A S \in SUBSET Active : Loaded(r, S) \subseteq EdgeRows
      BY LoadedTyped DEF TypeInv
    <3>5. lineage_edge_shadow # NoTable =>
            InsertSynthetic(lineage_edge_shadow, AnySql) \subseteq EdgeRows
      BY <1>1, <1>2, FoldTyped DEF MaybeEdges
    <3> QED BY <1>1, <3>1, <3>2, <3>3, <3>4, <3>5 DEF MaybeEdges
  <2>7. CASE UNCHANGED <<lineage_edge, lineage_edge_shadow, lineage_edge_prev>>
    BY <1>1, <2>7
  <2>8. ASSUME ~(CopyKept(r) \/ BulkInsert(r) \/ FoldShadow(r) \/ RenameEdges(r)
                 \/ DropShadow(r) \/ CreateShadow(r) \/ DropEdgePrev(r) \/ ErrorInFull(r))
        PROVE  UNCHANGED <<lineage_edge, lineage_edge_shadow, lineage_edge_prev>>
    BY <1>3, <2>8 DEF FullStep, StartFull, ReadJobs, CheckEdges, DropClosureShadow,
       CreateClosureShadow, LoadClosureShadow, CheckClosure, DropClosurePrev, RenameClosure,
       FinishFull, StatementFails, CrashFull, edgeTables
  <2> QED BY <2>1, <2>2, <2>3, <2>4, <2>5, <2>6, <2>7, <2>8
<1>4. ASSUME UNCHANGED <<lineage_edge_shadow, lineage_edge_prev>>, lineage_edge' \subseteq EdgeRows
      PROVE  /\ lineage_edge' \subseteq EdgeRows
             /\ MaybeEdges(lineage_edge_shadow') /\ MaybeEdges(lineage_edge_prev')
  BY <1>1, <1>4
<1>5. CASE HookStep \/ BreakHook
  <2>1. UNCHANGED <<lineage_edge_shadow, lineage_edge_prev>>
    BY <1>5 DEF HookStep, ReplaceEdges, FoldTask, ReadRegion, PatchClosure, BreakHook,
       edgeTables
  <2>2. \/ lineage_edge' = lineage_edge
        \/ ReplaceEdges
        \/ lineage_edge' = FoldTmpEdges(lineage_edge, TaskSqls(hook.sql), FALSE)
        \/ lineage_edge' = InsertSynthetic(lineage_edge, TaskSqls(hook.sql))
    BY <1>5 DEF HookStep, FoldTask, ReadRegion, PatchClosure, BreakHook, edgeTables
  <2>3. CASE ReplaceEdges
    <3>1. hook.sql \in Sqls /\ hook.text \in Texts
      BY <2>3, PipelineAssumption DEF ReplaceEdges, TypeInv, HookOK
    <3>2. SqlEdges(hook.sql, Parsed(hook.text).reads) \subseteq EdgeRows
      BY <3>1, ParsedTyped, SqlEdgesTyped
    <3>3. lineage_edge' = { e \in lineage_edge : ~(e.sql = hook.sql /\ e.type = "sql") }
                            \cup SqlEdges(hook.sql, Parsed(hook.text).reads)
      BY <2>3 DEF ReplaceEdges
    <3> QED BY <1>1, <1>4, <2>1, <3>2, <3>3
  <2> QED BY <1>1, <1>2, <1>4, <2>1, <2>2, <2>3, FoldTyped
<1>6. ASSUME NEW w \in Drawings, ManualLineage(w) PROVE lineage_edge' \subseteq EdgeRows
  <2>1. DrawnBy(w) \subseteq EdgeRows
    BY PipelineAssumption DEF DrawnBy, EdgeRows
  <2> QED BY <1>1, <1>6, <2>1 DEF ManualLineage
<1>7. ASSUME NEW w \in Drawings, ManualLineage(w)
      PROVE  UNCHANGED <<lineage_edge_shadow, lineage_edge_prev>>
  BY <1>7 DEF ManualLineage
<1>8. CASE \E s \in Sqls : StartHook(s) \/ \E v \in Versions[s] : UpsertSql(s, v)
  BY <1>1, <1>8 DEF StartHook, UpsertSql, edgeTables
<1>9. CASE UNCHANGED vars
  BY <1>1, <1>9 DEF vars, edgeTables
<1> QED BY <1>3, <1>4, <1>5, <1>6, <1>7, <1>8, <1>9 DEF Next

LEMMA ClosuresTyped ==
  ASSUME TypeInv, [Next]_vars
  PROVE  /\ table_closure' \subseteq Tables \X Tables
         /\ MaybePairs(table_closure_shadow') /\ MaybePairs(table_closure_prev')
<1>1. /\ table_closure \subseteq Tables \X Tables
      /\ MaybePairs(table_closure_shadow) /\ MaybePairs(table_closure_prev)
  BY DEF TypeInv, TablesOK
<1>2. ASSUME NEW r \in Rebuilds, StartFull(r) \/ FullStep(r) \/ ErrorInFull(r) \/ CrashFull(r)
      PROVE  /\ table_closure' \subseteq Tables \X Tables
             /\ MaybePairs(table_closure_shadow') /\ MaybePairs(table_closure_prev')
  <2>1. found[r] \subseteq Tables \X Tables
    BY DEF TypeInv, RebuildsOK
  <2>2. CASE LoadClosureShadow(r)
    BY <1>1, <2>1, <2>2 DEF LoadClosureShadow, CanLoadClosure, MaybePairs
  <2>3. CASE RenameClosure(r)
    BY <1>1, <2>3 DEF RenameClosure, MaybePairs
  <2>4. CASE DropClosureShadow(r) \/ CreateClosureShadow(r) \/ DropClosurePrev(r)
    BY <1>1, <2>4 DEF DropClosureShadow, CreateClosureShadow, DropClosurePrev, MaybePairs
  <2>5. CASE ErrorInFull(r)
    BY <1>1, <2>1, <2>5 DEF ErrorInFull, LeftOver, MaybePairs
  <2>6. ASSUME ~(LoadClosureShadow(r) \/ RenameClosure(r) \/ DropClosureShadow(r)
                 \/ CreateClosureShadow(r) \/ DropClosurePrev(r) \/ ErrorInFull(r))
        PROVE  UNCHANGED closureTables
    BY <1>2, <2>6 DEF FullStep, StartFull, ReadJobs, DropShadow, CreateShadow, CopyKept,
       BulkInsert, FoldShadow, CheckEdges, DropEdgePrev, RenameEdges, CheckClosure,
       FinishFull, StatementFails, CrashFull, closureTables
  <2>7. CASE UNCHANGED closureTables
    BY <1>1, <2>7 DEF closureTables
  <2> QED BY <2>2, <2>3, <2>4, <2>5, <2>6, <2>7
<1>3. CASE HookStep \/ BreakHook
  <2>1. UNCHANGED <<table_closure_shadow, table_closure_prev>>
    BY <1>3 DEF HookStep, ReplaceEdges, FoldTask, ReadRegion, PatchClosure, BreakHook,
                closureTables
  <2>2. hook.pairs \subseteq Tables \X Tables
    BY DEF TypeInv, HookOK
  <2>3. \/ table_closure' = table_closure
        \/ \E D : \E R \in SUBSET hook.pairs : table_closure' = (table_closure \ D) \cup R
    BY <1>3 DEF HookStep, ReplaceEdges, FoldTask, ReadRegion, PatchClosure, BreakHook,
                closureTables
  <2> QED BY <1>1, <2>1, <2>2, <2>3
<1>4. CASE \/ \E s \in Sqls : StartHook(s) \/ \E v \in Versions[s] : UpsertSql(s, v)
           \/ \E w \in Drawings : ManualLineage(w)
  BY <1>1, <1>4 DEF StartHook, UpsertSql, ManualLineage, closureTables
<1>5. CASE UNCHANGED vars
  BY <1>1, <1>5 DEF vars, closureTables
<1> QED BY <1>2, <1>3, <1>4, <1>5 DEF Next

(* The inductive invariant of the types. *)
LEMMA PipelineInv == Spec => []TypeInv
<1>1. TypeInv /\ [Next]_vars => TypeInv'
  <2> SUFFICES ASSUME TypeInv, [Next]_vars PROVE TypeInv'
    OBVIOUS
  <2>1. TablesOK'
    BY EdgesTyped, ClosuresTyped DEF TablesOK, MaybeEdges, MaybePairs
  <2> QED
    BY <2>1, LeftTyped, RepositoryTyped, HookTyped, RebuildsTyped DEF TypeInv
<1> QED
  BY InitTyped, <1>1, PTL DEF Spec

(* Every table, process and bound of the pipeline keeps its type, with any *)
(* number of rebuilds by hand beside those of cron.                        *)
THEOREM PipelineTyped == Spec => []TypeOK
<1> QED
  BY PipelineInv, TypeInvTypes, PTL

-----------------------------------------------------------------------------
(* Two sets of edges hold the same drawn ones. *)
SameDrawn(E, F) == \A e : e.type = "manual" => (e \in E <=> e \in F)

(* No drawn edge touches a tmp table. *)
DrawnLasts(E) == \A e \in E : e.type = "manual" => ~AtTmp(e)

DrawingsLast == \A w \in Drawings : \A e \in DrawnBy(w) : ~AtTmp(e)

(* The edges hold what was drawn, and so does the shadow table from the    *)
(* copy to the rename, but for the tables drawn to in between.             *)
AsDrawn(E) == \A t \in Tables \ ghost.redrawn : DrawnTo(E, t) = DrawnTo(ghost.drawn, t)

DrawnShape ==
  /\ pc \in [Rebuilds -> Steps]
  /\ DOMAIN ghost = {"by", "touched", "edges", "closure", "drawn", "redrawn", "hooked",
                      "overtaken"}

DInv ==
  /\ DrawnShape
  /\ DrawnLasts(lineage_edge)
  /\ AsDrawn(lineage_edge)
  /\ pc[Cron] = "copy" => lineage_edge_shadow = {}
  /\ lineage_edge_shadow # NoTable => DrawnLasts(lineage_edge_shadow)
  /\ HasCopied(Cron) /\ lineage_edge_shadow # NoTable => AsDrawn(lineage_edge_shadow)

-----------------------------------------------------------------------------
(* Two tables that hold the same drawn edges are alike in both respects.   *)
LEMMA SameDrawnLasts ==
  ASSUME NEW E, NEW F, SameDrawn(E, F), DrawnLasts(E)
  PROVE  DrawnLasts(F)
  BY DEF SameDrawn, DrawnLasts

LEMMA SameDrawnTo ==
  ASSUME NEW E, NEW F, SameDrawn(E, F), NEW t
  PROVE  DrawnTo(E, t) = DrawnTo(F, t)
  BY DEF SameDrawn, DrawnTo

(* The edges parsed from statements are none of the drawn ones. *)
LEMMA SqlEdgesParsed ==
  ASSUME NEW s, NEW reads, NEW e \in SqlEdges(s, reads)
  PROVE  e.type = "sql"
  BY DEF SqlEdges

(* Folding leaves the drawn edges alone when none of them is at a tmp      *)
(* table, in whatever scope it runs and wherever it breaks off.            *)
LEMMA FoldKeepsDrawn ==
  ASSUME NEW E, NEW S, NEW all \in BOOLEAN, DrawnLasts(E)
  PROVE  /\ SameDrawn(E, FoldTmpEdges(E, S, all))
         /\ SameDrawn(E, InsertSynthetic(E, S))
  BY FoldKeeps DEF SameDrawn, Same, DrawnLasts, Lasts

-----------------------------------------------------------------------------
(* Folding the first texts makes no drawn edge. *)
LEMMA InitDrawn == Init => DInv
<1> SUFFICES ASSUME Init PROVE DInv
  OBVIOUS
<1> DEFINE R == [s \in Sqls |-> Reads[sql_repository[s].text]]
           E == UNION { SqlEdges(s, R[s]) : s \in Active }
<1>1. \A e \in E : e.type # "manual"
  BY SqlEdgesParsed
<1>2. lineage_edge = FoldTmpEdges(E, AnySql, TRUE)
  BY DEF Init, Built
<1> HIDE DEF E
<1>3. \A e \in lineage_edge : e.type # "manual"
  <2>1. DrawnLasts(E)
    BY <1>1 DEF DrawnLasts
  <2>2. SameDrawn(E, lineage_edge)
    BY <1>2, <2>1, FoldKeepsDrawn
  <2> QED
    BY <1>1, <2>2 DEF SameDrawn
<1>4. ghost.drawn = {}
  BY DEF Init
<1>5. AsDrawn(lineage_edge)
  BY <1>3, <1>4 DEF AsDrawn, DrawnTo
<1>6. pc = [r \in Rebuilds |-> "idle"]
  BY DEF Init
<1>7. DrawnShape
  BY <1>6 DEF DrawnShape, Init, Steps
<1>8. Cron \in Rebuilds
  BY DEF Rebuilds
<1> QED
  BY <1>3, <1>5, <1>6, <1>7, <1>8 DEF DInv, DrawnLasts, Init, HasCopied

(* What a step must not do to disturb the invariant. *)
LEMMA QuietStep ==
  ASSUME DInv, DrawnShape',
         UNCHANGED <<lineage_edge, lineage_edge_shadow>>,
         ghost'.drawn = ghost.drawn, ghost'.redrawn = ghost.redrawn,
         pc'[Cron] = "copy" => pc[Cron] = "copy",
         HasCopied(Cron)' => HasCopied(Cron)
  PROVE  DInv'
  BY DEF DInv, DrawnLasts, AsDrawn, DrawnTo, AtTmp

(* The steps of a rebuild that write neither the edges nor their shadow.   *)
LEMMA QuietFullSteps ==
  ASSUME DInv,
         \/ StartFull(Cron) \/ ReadJobs(Cron) \/ CheckEdges(Cron) \/ DropEdgePrev(Cron)
         \/ DropClosureShadow(Cron) \/ CreateClosureShadow(Cron)
         \/ LoadClosureShadow(Cron) \/ CheckClosure(Cron)
         \/ DropClosurePrev(Cron) \/ RenameClosure(Cron) \/ FinishFull(Cron)
         \/ StatementFails(Cron) \/ CrashFull(Cron)
  PROVE  DInv'
<1>1. Cron \in Rebuilds /\ DrawnShape
  BY DEF Rebuilds, DInv
<1>2. UNCHANGED <<lineage_edge, lineage_edge_shadow>>
  BY DEF StartFull, ReadJobs, CheckEdges, DropEdgePrev, DropClosureShadow, CreateClosureShadow,
         LoadClosureShadow, CheckClosure, DropClosurePrev, RenameClosure, FinishFull,
         StatementFails, CrashFull, edgeTables
<1>3. /\ ghost'.drawn = ghost.drawn /\ ghost'.redrawn = ghost.redrawn
      /\ DOMAIN ghost' = DOMAIN ghost
  BY <1>1
     DEF StartFull, ReadJobs, CheckEdges, DropEdgePrev, DropClosureShadow, CreateClosureShadow,
         LoadClosureShadow, CheckClosure, DropClosurePrev, RenameClosure, FinishFull,
         StatementFails, CrashFull, DrawnShape
<1>4. \E n \in Steps : /\ pc' = [pc EXCEPT ![Cron] = n]
                       /\ n # "copy"
                       /\ n \in {"dropEdgePrev", "renameEdges"} => HasCopied(Cron)
                       /\ n \notin {"load", "fold", "checkEdges"}
  BY DEF StartFull, ReadJobs, CheckEdges, DropEdgePrev, DropClosureShadow, CreateClosureShadow,
         LoadClosureShadow, CheckClosure, DropClosurePrev, RenameClosure, FinishFull,
         StatementFails, CrashFull, Goto, Steps, HasCopied
<1>5. /\ DrawnShape' /\ (pc'[Cron] = "copy" => pc[Cron] = "copy")
      /\ HasCopied(Cron)' => HasCopied(Cron)
  BY <1>1, <1>3, <1>4 DEF DrawnShape, HasCopied
<1> QED
  BY <1>2, <1>3, <1>5, QuietStep

(* What a step that writes edges owes: the drawn edges stay, and the       *)
(* shadow table holds them while it is to be renamed.                      *)
LEMMA WritingStep ==
  ASSUME DInv, DrawnShape',
         ghost'.drawn = ghost.drawn, ghost'.redrawn = ghost.redrawn,
         SameDrawn(lineage_edge, lineage_edge'),
         lineage_edge_shadow' = lineage_edge_shadow
           \/ (lineage_edge_shadow # NoTable
               /\ SameDrawn(lineage_edge_shadow, lineage_edge_shadow')),
         pc'[Cron] = "copy" => /\ pc[Cron] = "copy"
                               /\ lineage_edge_shadow' = lineage_edge_shadow,
         HasCopied(Cron)' => HasCopied(Cron)
  PROVE  DInv'
<1>1. DrawnLasts(lineage_edge)' /\ AsDrawn(lineage_edge)'
  <2>1. DrawnLasts(lineage_edge')
    BY SameDrawnLasts DEF DInv
  <2>2. \A t : DrawnTo(lineage_edge', t) = DrawnTo(lineage_edge, t)
    BY SameDrawnTo
  <2> QED
    BY <2>1, <2>2 DEF DInv, AsDrawn, DrawnLasts, AtTmp, DrawnTo
<1>2. CASE lineage_edge_shadow' = lineage_edge_shadow
  BY <1>1, <1>2 DEF DInv, DrawnLasts, AtTmp, AsDrawn, DrawnTo
<1>3. CASE lineage_edge_shadow # NoTable
           /\ SameDrawn(lineage_edge_shadow, lineage_edge_shadow')
  <2>1. DrawnLasts(lineage_edge_shadow')
    BY <1>3, SameDrawnLasts DEF DInv
  <2>2. \A t : DrawnTo(lineage_edge_shadow', t) = DrawnTo(lineage_edge_shadow, t)
    BY <1>3, SameDrawnTo
  <2> QED
    BY <1>1, <1>3, <2>1, <2>2 DEF DInv, AsDrawn, DrawnLasts, AtTmp, DrawnTo
<1> QED
  BY <1>2, <1>3

(* The steps of a rebuild from the shadow table's drop to its rename.      *)
LEMMA DropShadowInv ==
  ASSUME DInv, DropShadow(Cron)
  PROVE  DInv'
<1>1. /\ DrawnShape /\ Cron \in Rebuilds
      /\ pc' = [pc EXCEPT ![Cron] = "create"] /\ lineage_edge_shadow' = NoTable
      /\ UNCHANGED <<lineage_edge, ghost>>
  BY DEF DropShadow, Goto, Rebuilds, DInv
<1>2. DrawnShape' /\ pc'[Cron] = "create" /\ ~HasCopied(Cron)'
  BY <1>1 DEF DrawnShape, Steps, HasCopied
<1> QED
  BY <1>1, <1>2 DEF DInv, DrawnLasts, AsDrawn, DrawnTo, AtTmp

LEMMA CreateShadowInv ==
  ASSUME DInv, CreateShadow(Cron)
  PROVE  DInv'
<1>1. /\ DrawnShape /\ Cron \in Rebuilds
      /\ pc' = [pc EXCEPT ![Cron] = "copy"] /\ lineage_edge_shadow' = {}
      /\ UNCHANGED <<lineage_edge, ghost>>
  BY DEF CreateShadow, Goto, Rebuilds, DInv
<1>2. DrawnShape' /\ ~HasCopied(Cron)'
  BY <1>1 DEF DrawnShape, Steps, HasCopied
<1> QED
  BY <1>1, <1>2 DEF DInv, DrawnLasts, AsDrawn, DrawnTo, AtTmp

LEMMA CopyKeptInv ==
  ASSUME DInv, CopyKept(Cron)
  PROVE  DInv'
<1>1. /\ DrawnShape /\ Cron \in Rebuilds
      /\ pc[Cron] = "copy" /\ pc' = [pc EXCEPT ![Cron] = "load"]
      /\ lineage_edge_shadow' = lineage_edge_shadow \cup Kept
      /\ UNCHANGED <<lineage_edge, ghost>>
  BY DEF CopyKept, Goto, Rebuilds, DInv
<1>2. DrawnShape' /\ pc'[Cron] = "load"
  BY <1>1 DEF DrawnShape, Steps
<1>3. SameDrawn(lineage_edge, lineage_edge_shadow')
  BY <1>1 DEF DInv, SameDrawn, Kept
<1>4. DrawnLasts(lineage_edge_shadow')
  BY <1>3, SameDrawnLasts DEF DInv
<1>5. \A t : DrawnTo(lineage_edge_shadow', t) = DrawnTo(lineage_edge, t)
  BY <1>3, SameDrawnTo
<1> QED
  BY <1>1, <1>2, <1>4, <1>5 DEF DInv, DrawnLasts, AsDrawn, DrawnTo, AtTmp

(* Loading adds parsed edges only. *)
LEMMA LoadedParsed ==
  ASSUME NEW r, NEW S, NEW e \in Loaded(r, S)
  PROVE  e.type # "manual"
  BY SqlEdgesParsed DEF Loaded

LEMMA BulkInsertInv ==
  ASSUME DInv, BulkInsert(Cron)
  PROVE  DInv'
<1>1. /\ DrawnShape /\ Cron \in Rebuilds
      /\ pc[Cron] = "load" /\ pc' = [pc EXCEPT ![Cron] = "fold"]
      /\ lineage_edge_shadow # NoTable
      /\ lineage_edge_shadow' = lineage_edge_shadow \cup Loaded(Cron, Active)
      /\ UNCHANGED <<lineage_edge, ghost>>
  BY DEF BulkInsert, Goto, Rebuilds, DInv
<1>2. DrawnShape' /\ pc'[Cron] = "fold" /\ HasCopied(Cron)
  BY <1>1 DEF DrawnShape, Steps, HasCopied
<1>3. SameDrawn(lineage_edge_shadow, lineage_edge_shadow')
  BY <1>1, LoadedParsed DEF SameDrawn
<1> QED
  BY <1>1, <1>2, <1>3, WritingStep DEF SameDrawn

LEMMA FoldShadowInv ==
  ASSUME DInv, FoldShadow(Cron)
  PROVE  DInv'
<1>1. /\ DrawnShape /\ Cron \in Rebuilds
      /\ pc[Cron] = "fold" /\ pc' = [pc EXCEPT ![Cron] = "checkEdges"]
      /\ lineage_edge_shadow # NoTable
      /\ lineage_edge_shadow' = FoldTmpEdges(lineage_edge_shadow, AnySql, TRUE)
      /\ UNCHANGED <<lineage_edge, ghost>>
  BY DEF FoldShadow, Goto, Rebuilds, DInv
<1>2. DrawnShape' /\ pc'[Cron] = "checkEdges" /\ HasCopied(Cron)
  BY <1>1 DEF DrawnShape, Steps, HasCopied
<1>3. SameDrawn(lineage_edge_shadow, lineage_edge_shadow')
  BY <1>1, FoldKeepsDrawn DEF DInv
<1> QED
  BY <1>1, <1>2, <1>3, WritingStep DEF SameDrawn

LEMMA RenameEdgesInv ==
  ASSUME DInv, RenameEdges(Cron)
  PROVE  DInv'
<1>1. /\ DrawnShape /\ Cron \in Rebuilds
      /\ pc[Cron] = "renameEdges" /\ pc' = [pc EXCEPT ![Cron] = "closure"]
      /\ lineage_edge_shadow # NoTable
      /\ lineage_edge' = lineage_edge_shadow /\ lineage_edge_shadow' = NoTable
      /\ UNCHANGED ghost
  BY DEF RenameEdges, Goto, Rebuilds, DInv
<1>2. DrawnShape' /\ pc'[Cron] = "closure" /\ HasCopied(Cron)
  BY <1>1 DEF DrawnShape, Steps, HasCopied
<1> QED
  BY <1>1, <1>2 DEF DInv, DrawnLasts, AsDrawn, DrawnTo, AtTmp

(* An error leaves part of a block in the shadow table, never in a table   *)
(* that is served, and the rebuild ends.                                   *)
LEMMA ErrorInFullInv ==
  ASSUME DInv, ErrorInFull(Cron)
  PROVE  DInv'
<1>1. /\ DrawnShape /\ Cron \in Rebuilds
      /\ pc' = [pc EXCEPT ![Cron] = "idle"]
      /\ UNCHANGED <<lineage_edge, ghost>>
      /\ LeftOver(Cron)
  BY DEF ErrorInFull, Rebuilds, DInv
<1>2. DrawnShape' /\ pc'[Cron] = "idle" /\ ~HasCopied(Cron)'
  BY <1>1 DEF DrawnShape, Steps, HasCopied
<1>3. \/ lineage_edge_shadow' = lineage_edge_shadow
      \/ /\ lineage_edge_shadow # NoTable
         /\ \/ lineage_edge_shadow' = lineage_edge_shadow \cup Kept
            \/ lineage_edge_shadow' = InsertSynthetic(lineage_edge_shadow, AnySql)
            \/ \E S \in SUBSET Active :
                  lineage_edge_shadow' = lineage_edge_shadow \cup Loaded(Cron, S)
  BY <1>1 DEF LeftOver
<1>4. lineage_edge_shadow' # NoTable => DrawnLasts(lineage_edge_shadow')
  <2>1. CASE lineage_edge_shadow' = lineage_edge_shadow
    BY <2>1 DEF DInv
  <2>2. CASE lineage_edge_shadow # NoTable
             /\ lineage_edge_shadow' = lineage_edge_shadow \cup Kept
    BY <2>2 DEF DInv, DrawnLasts, Kept
  <2>3. CASE lineage_edge_shadow # NoTable
             /\ lineage_edge_shadow' = InsertSynthetic(lineage_edge_shadow, AnySql)
    BY <2>3, FoldKeepsDrawn, SameDrawnLasts DEF DInv
  <2>4. ASSUME lineage_edge_shadow # NoTable, NEW S \in SUBSET Active,
               lineage_edge_shadow' = lineage_edge_shadow \cup Loaded(Cron, S)
        PROVE  DrawnLasts(lineage_edge_shadow')
    BY <2>4, LoadedParsed DEF DInv, DrawnLasts
  <2> QED
    BY <1>3, <2>1, <2>2, <2>3, <2>4
<1> QED
  BY <1>1, <1>2, <1>4 DEF DInv, DrawnLasts, AsDrawn, DrawnTo, AtTmp

-----------------------------------------------------------------------------
(* The steps beside the rebuild that write neither edge table.             *)
LEMMA QuietOthers ==
  ASSUME DInv,
         \/ ReadRegion \/ PatchClosure
         \/ \E s \in Sqls : StartHook(s) \/ \E v \in Versions[s] : UpsertSql(s, v)
  PROVE  DInv'
<1>1. UNCHANGED <<lineage_edge, lineage_edge_shadow, pc>>
  BY DEF ReadRegion, PatchClosure, StartHook, UpsertSql, edgeTables
<1>2. /\ ghost'.drawn = ghost.drawn /\ ghost'.redrawn = ghost.redrawn
      /\ DOMAIN ghost' = DOMAIN ghost
  BY DEF ReadRegion, PatchClosure, StartHook, UpsertSql, Touch, DInv, DrawnShape
<1>3. DrawnShape' /\ (HasCopied(Cron)' <=> HasCopied(Cron))
  BY <1>1, <1>2 DEF DInv, DrawnShape, HasCopied
<1> QED
  BY <1>1, <1>2, <1>3, QuietStep

(* The incremental run deletes parsed edges only and folds like a rebuild. *)
LEMMA HookInv ==
  ASSUME DInv, ReplaceEdges \/ FoldTask \/ BreakHook
  PROVE  DInv'
<1>1. UNCHANGED <<lineage_edge_shadow, pc>>
  BY DEF ReplaceEdges, FoldTask, BreakHook
<1>2. /\ ghost'.drawn = ghost.drawn /\ ghost'.redrawn = ghost.redrawn
      /\ DOMAIN ghost' = DOMAIN ghost
  BY DEF ReplaceEdges, FoldTask, BreakHook, Touch, DInv, DrawnShape
<1>3. DrawnShape' /\ (HasCopied(Cron)' <=> HasCopied(Cron))
  BY <1>1, <1>2 DEF DInv, DrawnShape, HasCopied
<1>4. SameDrawn(lineage_edge, lineage_edge')
  <2>1. CASE ReplaceEdges
    <3> DEFINE N == SqlEdges(hook.sql, Parsed(hook.text).reads)
    <3>1. \A e \in N : e.type = "sql"
      BY SqlEdgesParsed
    <3>2. lineage_edge' = { e \in lineage_edge : ~(e.sql = hook.sql /\ e.type = "sql") } \cup N
      BY <2>1 DEF ReplaceEdges
    <3> HIDE DEF N
    <3> QED
      BY <3>1, <3>2 DEF SameDrawn
  <2>2. CASE FoldTask
    BY <2>2, FoldKeepsDrawn DEF FoldTask, DInv
  <2>3. CASE BreakHook
    <3>1. \/ lineage_edge' = lineage_edge
          \/ lineage_edge' = InsertSynthetic(lineage_edge, TaskSqls(hook.sql))
      BY <2>3 DEF BreakHook
    <3>2. SameDrawn(lineage_edge, InsertSynthetic(lineage_edge, TaskSqls(hook.sql)))
      BY FoldKeepsDrawn DEF DInv
    <3>3. SameDrawn(lineage_edge, lineage_edge)
      BY DEF SameDrawn
    <3> QED
      BY <3>1, <3>2, <3>3
  <2> QED
    BY <2>1, <2>2, <2>3
<1> QED
  BY <1>1, <1>2, <1>3, <1>4, WritingStep

(* A drawing replaces what was drawn to its target before, in the edges    *)
(* and in the history alike; a rebuild past its copy will not show it.     *)
LEMMA ManualLineageInv ==
  ASSUME DInv, DrawingsLast, NEW w \in Drawings, ManualLineage(w)
  PROVE  DInv'
<1>1. /\ UNCHANGED <<lineage_edge_shadow, pc>>
      /\ lineage_edge' = (lineage_edge \ DrawnTo(lineage_edge, w.dst)) \cup DrawnBy(w)
  BY DEF ManualLineage
<1>2. /\ ghost'.drawn = (ghost.drawn \ DrawnTo(ghost.drawn, w.dst)) \cup DrawnBy(w)
      /\ ghost'.redrawn = IF \E r \in Rebuilds : HasCopied(r) THEN ghost.redrawn \cup {w.dst}
                          ELSE ghost.redrawn \ {w.dst}
      /\ DOMAIN ghost' = DOMAIN ghost
  BY DEF ManualLineage, Touch, DInv, DrawnShape
<1>3. DrawnShape' /\ (HasCopied(Cron)' <=> HasCopied(Cron)) /\ Cron \in Rebuilds
  BY <1>1, <1>2 DEF DInv, DrawnShape, HasCopied, Rebuilds
<1>4. \A e \in DrawnBy(w) : e.type = "manual" /\ e.dst = w.dst /\ ~AtTmp(e)
  BY DEF DrawnBy, DrawingsLast
<1>5. ASSUME NEW E, NEW t, t # w.dst
      PROVE  DrawnTo((E \ DrawnTo(E, w.dst)) \cup DrawnBy(w), t) = DrawnTo(E, t)
  BY <1>4, <1>5 DEF DrawnTo
<1>6. ASSUME NEW E
      PROVE  DrawnTo((E \ DrawnTo(E, w.dst)) \cup DrawnBy(w), w.dst) = DrawnBy(w)
  BY <1>4 DEF DrawnTo
<1>7. AsDrawn(lineage_edge)'
  <2> SUFFICES ASSUME NEW t \in Tables \ ghost'.redrawn
               PROVE  DrawnTo(lineage_edge', t) = DrawnTo(ghost'.drawn, t)
    BY DEF AsDrawn, DrawnTo
  <2>1. CASE t = w.dst
    BY <1>1, <1>2, <1>6, <2>1
  <2>2. CASE t # w.dst
    <3>1. t \notin ghost.redrawn
      BY <1>2, <2>2
    <3> QED
      BY <1>1, <1>2, <1>5, <2>2, <3>1 DEF DInv, AsDrawn
  <2> QED
    BY <2>1, <2>2
<1>8. HasCopied(Cron)' /\ lineage_edge_shadow' # NoTable => AsDrawn(lineage_edge_shadow)'
  <2> SUFFICES ASSUME HasCopied(Cron), lineage_edge_shadow # NoTable,
                      NEW t \in Tables \ ghost'.redrawn
               PROVE  DrawnTo(lineage_edge_shadow, t) = DrawnTo(ghost'.drawn, t)
    BY <1>1, <1>3 DEF AsDrawn, DrawnTo
  <2>1. t # w.dst /\ t \notin ghost.redrawn
    BY <1>2, <1>3
  <2> QED
    BY <1>2, <1>5, <2>1 DEF DInv, AsDrawn
<1>9. DrawnLasts(lineage_edge)'
  BY <1>1, <1>4 DEF DInv, DrawnLasts, AtTmp
<1> QED
  BY <1>1, <1>3, <1>7, <1>8, <1>9 DEF DInv, DrawnLasts, AtTmp

-----------------------------------------------------------------------------
(* Every step keeps the invariant, one rebuild process being the only one. *)
LEMMA NextDrawn ==
  ASSUME DInv, ByHand = {}, DrawingsLast, [Next]_vars
  PROVE  DInv'
<1>1. CASE UNCHANGED vars
  BY <1>1 DEF vars, edgeTables, DInv, DrawnShape, DrawnLasts, AsDrawn, DrawnTo, AtTmp, HasCopied
<1>2. ASSUME NEW r \in Rebuilds, StartFull(r) \/ FullStep(r) \/ ErrorInFull(r) \/ CrashFull(r)
      PROVE  DInv'
  <2>1. r = Cron
    BY DEF Rebuilds
  <2> QED
    BY <1>2, <2>1, QuietFullSteps, DropShadowInv, CreateShadowInv, CopyKeptInv,
       BulkInsertInv, FoldShadowInv, RenameEdgesInv, ErrorInFullInv DEF FullStep
<1>3. CASE \E s \in Sqls : StartHook(s) \/ \E v \in Versions[s] : UpsertSql(s, v)
  BY <1>3, QuietOthers
<1>4. CASE HookStep \/ BreakHook
  BY <1>4, HookInv, QuietOthers DEF HookStep
<1>5. CASE \E w \in Drawings : ManualLineage(w)
  BY <1>5, ManualLineageInv
<1> QED
  BY <1>1, <1>2, <1>3, <1>4, <1>5 DEF Next

(* Lineage drawn by hand (store.manual_lineage) while no rebuild stands    *)
(* between its copy and its rename stays exactly as drawn through every    *)
(* rebuild, incremental run, abort, error and crash, provided rebuilds are *)
(* started by cron alone and nothing is drawn at a tmp table.              *)
THEOREM DrawnStays ==
  ASSUME ByHand = {}, DrawingsLast
  PROVE  Spec => []DrawnLineageStays
<1>1. DInv /\ [Next]_vars => DInv'
  BY NextDrawn
<1>2. DInv => DrawnLineageStays
  BY DEF DInv, AsDrawn, DrawnLineageStays
<1> QED
  BY InitDrawn, <1>1, <1>2, PTL DEF Spec

-----------------------------------------------------------------------------
(* The history keeps the edges of the last start. *)
GhostOK ==
  /\ DOMAIN ghost = {"by", "touched", "edges", "closure", "drawn", "redrawn", "hooked",
                      "overtaken"}
  /\ ghost.edges \subseteq EdgeRows

LEMMA GhostTyped ==
  ASSUME TypeInv, GhostOK, [Next]_vars
  PROVE  GhostOK'
<1>1. CASE \E r \in Rebuilds : StartFull(r)
  BY <1>1 DEF StartFull, GhostOK, TypeInv, TablesOK
<1>2. CASE ~\E r \in Rebuilds : StartFull(r)
  <2>1. DOMAIN ghost' = DOMAIN ghost /\ ghost'.edges = ghost.edges
    BY <1>2 DEF GhostOK, Next, vars, FullStep, ReadJobs, DropShadow, CreateShadow, CopyKept,
       BulkInsert, FoldShadow, CheckEdges, DropEdgePrev, RenameEdges, DropClosureShadow,
       CreateClosureShadow, LoadClosureShadow, CheckClosure, DropClosurePrev, RenameClosure,
       FinishFull, StatementFails, ErrorInFull, CrashFull, StartHook, UpsertSql, HookStep,
       ReplaceEdges, FoldTask, ReadRegion, PatchClosure, BreakHook, ManualLineage, Touch
  <2> QED BY <2>1 DEF GhostOK
<1> QED BY <1>1, <1>2

(* A rebuild that succeeds leaves no edge at a tmp table, and which other  *)
(* tables reach which is as in the graph before the fold (fold_tmp_edges). *)
THEOREM RebuildHidesTmp ==
  ASSUME ByHand = {}
  PROVE  Spec => []RebuildHidesOnlyTmp
<1>1. OInv /\ TypeInv /\ GhostOK => RebuildHidesOnlyTmp
  <2> SUFFICES ASSUME OInv, TypeInv, GhostOK, NEW r \in Rebuilds, Alone(r),
                      run[r] = "success"
               PROVE  /\ \A e \in lineage_edge : ~AtTmp(e)
                      /\ SameBetweenLasting(Parsing(r), lineage_edge)
    BY DEF RebuildHidesOnlyTmp
  <2>1. r = Cron
    BY DEF Rebuilds
  <2>2. lineage_edge = FoldTmpEdges(Parsing(r), AnySql, TRUE)
    BY <2>1 DEF Alone, OInv, TextSteps, BothNew, NewBuild
  <2>3. Parsing(r) \subseteq EdgeRows
    BY LoadedTyped DEF Parsing, GhostOK, TypeInv
  <2> QED BY <2>2, <2>3, FoldHidesTmp, FoldKeepsReach, PipelineAssumption
<1>2. OInv /\ [Next]_vars => OInv'
  BY NextOrder
<1>3. Init => GhostOK
  <2> SUFFICES ASSUME Init PROVE GhostOK
    OBVIOUS
  <2>1. lineage_edge \subseteq EdgeRows
    BY InitTyped DEF TypeInv, TablesOK
  <2> QED BY <2>1 DEF Init, GhostOK
<1>4. TypeInv /\ GhostOK /\ [Next]_vars => GhostOK'
  BY GhostTyped
<1> QED
  BY PipelineInv, InitOrder, <1>1, <1>2, <1>3, <1>4, PTL DEF Spec

-----------------------------------------------------------------------------
(* No text reads or writes a tmp table. *)
TextsLast == \A s \in Sqls : /\ Writes[s] \notin TmpTables
                             /\ \A v \in Versions[s] : Reads[v] \cap TmpTables = {}

(* What a statement reads according to a set of edges. *)
ReadsIn(E, s) == { e.src : e \in { x \in E : x.sql = s /\ x.type = "sql" } }

PastLoad == {"fold", "checkEdges", "dropEdgePrev", "renameEdges"}

(* A rebuild parsed what the texts may give; its shadow table holds nothing *)
(* parsed before the load and what was parsed after it.                    *)
JobsFit == HasReadTexts(Cron) =>
  \A s \in Active : SqlEdges(s, jobs[Cron][s].reads) \in TextEdges[s]
ShadowFits ==
  /\ pc[Cron] = "copy" => lineage_edge_shadow = {}
  /\ pc[Cron] = "load" => \A e \in lineage_edge_shadow : e.type # "sql"
  /\ pc[Cron] \in PastLoad =>
       /\ Lasts("sql", lineage_edge_shadow)
       /\ \A s \in Active : ReadsIn(lineage_edge_shadow, s) = jobs[Cron][s].reads

(* What the hook wrote is served, and what a rebuild is about to publish.  *)
HInv ==
  /\ GhostOK /\ JobsFit /\ ShadowFits
  /\ Lasts("sql", lineage_edge)
  /\ \A s \in (ghost.hooked \ ghost.overtaken) \cap Active :
       /\ ReadsIn(lineage_edge, s) = Reads[sql_repository[s].text]
       /\ HasReadTexts(Cron) => jobs[Cron][s].reads = Reads[sql_repository[s].text]
  /\ ghost.hooked \subseteq Sqls

LEMMA SameReads ==
  ASSUME NEW E, NEW F, Same("sql", E, F), NEW s
  PROVE  ReadsIn(E, s) = ReadsIn(F, s)
  BY DEF Same, ReadsIn

LEMMA SameLasts ==
  ASSUME NEW E, NEW F, NEW type, Same(type, E, F), Lasts(type, E)
  PROVE  Lasts(type, F)
  BY DEF Same, Lasts

LEMMA SqlEdgesReads ==
  ASSUME NEW s, NEW reads
  PROVE  ReadsIn(SqlEdges(s, reads), s) = reads
<1>1. ASSUME NEW t \in reads PROVE t \in ReadsIn(SqlEdges(s, reads), s)
  <2> DEFINE e == [src |-> t, dst |-> Writes[s], sql |-> s, type |-> "sql"]
  <2>1. e \in SqlEdges(s, reads)
    BY DEF SqlEdges
  <2>2. e.src = t /\ e.sql = s /\ e.type = "sql"
    OBVIOUS
  <2> HIDE DEF e
  <2> QED BY <2>1, <2>2 DEF ReadsIn
<1>2. ReadsIn(SqlEdges(s, reads), s) \subseteq reads
  BY DEF ReadsIn, SqlEdges
<1> QED BY <1>1, <1>2

LEMMA TextEdgesLast ==
  ASSUME TextsLast, NEW s \in Sqls, NEW reads, SqlEdges(s, reads) \in TextEdges[s]
  PROVE  Lasts("sql", SqlEdges(s, reads))
<1>1. ASSUME NEW v \in Versions[s] PROVE Lasts("sql", SqlEdges(s, Reads[v]))
  BY DEF Lasts, SqlEdges, AtTmp, TextsLast
<1>2. Lasts("sql", {})
  BY DEF Lasts
<1>3. \/ \E v \in Versions[s] : SqlEdges(s, reads) = SqlEdges(s, Reads[v])
      \/ SqlEdges(s, reads) = {}
  BY DEF TextEdges
<1> QED BY <1>1, <1>2, <1>3

(* Steps that leave the parsed edges, the texts and the history of hooks   *)
(* as they are.                                                            *)
LEMMA HookedKept ==
  ASSUME HInv, GhostOK', ShadowFits', jobs' = jobs,
         ghost'.hooked = ghost.hooked, ghost'.overtaken = ghost.overtaken,
         \A s \in Sqls : sql_repository'[s].text = sql_repository[s].text,
         HasReadTexts(Cron)' => HasReadTexts(Cron),
         Same("sql", lineage_edge, lineage_edge')
  PROVE  HInv'
<1>1. JobsFit'
  BY DEF HInv, JobsFit
<1>2. Lasts("sql", lineage_edge') /\ \A s : ReadsIn(lineage_edge', s) = ReadsIn(lineage_edge, s)
  BY SameLasts, SameReads DEF HInv
<1>3. ASSUME NEW s \in (ghost.hooked \ ghost.overtaken) \cap Active
      PROVE  /\ ReadsIn(lineage_edge', s) = Reads[sql_repository'[s].text]
             /\ HasReadTexts(Cron)' => jobs'[Cron][s].reads = Reads[sql_repository'[s].text]
  BY <1>2, ActiveSqls DEF HInv
<1> QED BY <1>1, <1>2, <1>3 DEF HInv, Lasts, ReadsIn, AtTmp

LEMMA SameSelf == ASSUME NEW type, NEW E PROVE Same(type, E, E)
  BY DEF Same

(* The texts stay through everything but a new text. *)
LEMMA TextsStay ==
  ASSUME TypeInv, [Next]_vars, ~\E s \in Sqls : \E v \in Versions[s] : UpsertSql(s, v),
         NEW s \in Sqls
  PROVE  sql_repository'[s].text = sql_repository[s].text
<1>1. \/ sql_repository' = sql_repository
      \/ \E r \in Rebuilds : \E S \in SUBSET Active : sql_repository' = StatusesOf(r, S)
      \/ \E q, status : sql_repository' = [sql_repository EXCEPT ![q].status = status]
  BY DEF Next, vars, StartFull, FullStep, ReadJobs, DropShadow, CreateShadow, CopyKept,
         BulkInsert, FoldShadow, CheckEdges, DropEdgePrev, RenameEdges, DropClosureShadow,
         CreateClosureShadow, LoadClosureShadow, CheckClosure, DropClosurePrev, RenameClosure,
         FinishFull, StatementFails, ErrorInFull, LeftOver, CrashFull, StartHook, HookStep,
         ReplaceEdges, FoldTask, ReadRegion, PatchClosure, BreakHook, ManualLineage
<1>2. ASSUME NEW r \in Rebuilds, NEW S \in SUBSET Active, sql_repository' = StatusesOf(r, S)
      PROVE  sql_repository'[s].text = sql_repository[s].text
  BY <1>2 DEF StatusesOf, TypeInv, RepositoryOK
<1>3. ASSUME NEW q, NEW status, sql_repository' = [sql_repository EXCEPT ![q].status = status]
      PROVE  sql_repository'[s].text = sql_repository[s].text
  BY <1>3 DEF TypeInv, RepositoryOK
<1> QED BY <1>1, <1>2, <1>3

(* The steps of a rebuild that touch neither the edges nor their shadow.   *)
LEMMA QuietHooked ==
  ASSUME HInv, TypeInv, GhostOK',
         \A s \in Sqls : sql_repository'[s].text = sql_repository[s].text,
         \/ StartFull(Cron) \/ CheckEdges(Cron) \/ DropEdgePrev(Cron)
         \/ DropClosureShadow(Cron) \/ CreateClosureShadow(Cron)
         \/ LoadClosureShadow(Cron) \/ CheckClosure(Cron)
         \/ DropClosurePrev(Cron) \/ RenameClosure(Cron) \/ FinishFull(Cron)
         \/ StatementFails(Cron) \/ CrashFull(Cron)
  PROVE  HInv'
<1>1. UNCHANGED <<lineage_edge, lineage_edge_shadow, jobs>>
  BY DEF StartFull, CheckEdges, DropEdgePrev, DropClosureShadow, CreateClosureShadow,
         LoadClosureShadow, CheckClosure, DropClosurePrev, RenameClosure, FinishFull,
         StatementFails, CrashFull, edgeTables
<1>2. ghost'.hooked = ghost.hooked /\ ghost'.overtaken = ghost.overtaken
  BY DEF StartFull, CheckEdges, DropEdgePrev, DropClosureShadow, CreateClosureShadow,
         LoadClosureShadow, CheckClosure, DropClosurePrev, RenameClosure, FinishFull,
         StatementFails, CrashFull, HInv, GhostOK
<1>3. \E n \in Steps : /\ pc' = [pc EXCEPT ![Cron] = n]
                       /\ n \in {"dropEdgePrev", "renameEdges"} => pc[Cron] \in PastLoad
                       /\ n \notin {"shadow", "create", "copy", "load", "fold", "checkEdges"}
  BY DEF StartFull, CheckEdges, DropEdgePrev, DropClosureShadow, CreateClosureShadow,
         LoadClosureShadow, CheckClosure, DropClosurePrev, RenameClosure, FinishFull,
         StatementFails, CrashFull, Goto, Steps, PastLoad
<1>4. /\ pc'[Cron] \notin {"copy", "load"} /\ (pc'[Cron] \in PastLoad => pc[Cron] \in PastLoad)
      /\ HasReadTexts(Cron)' => HasReadTexts(Cron)
  BY <1>3, CronRebuilds DEF TypeInv, RebuildsOK, PastLoad, HasReadTexts
<1>5. ShadowFits'
  BY <1>1, <1>4 DEF HInv, ShadowFits, Lasts, ReadsIn, AtTmp
<1> QED BY <1>1, <1>2, <1>4, <1>5, HookedKept, SameSelf

(* What a rebuild parses is a result of the texts it reads. *)
LEMMA ReadJobsFit ==
  ASSUME TypeInv, NEW parses,
         NEW slow \in SUBSET { s \in Active : sql_repository[s].text \in SlowTexts },
         \A s \in slow : parses[s].reads = {},
         \A s \in Active \ slow : parses[s].reads = Reads[sql_repository[s].text],
         NEW s \in Active
  PROVE  SqlEdges(s, parses[s].reads) \in TextEdges[s]
<1>1. sql_repository[s].text \in Versions[s]
  BY ActiveSqls DEF TypeInv, RepositoryOK
<1>2. TextEdges[s] = { SqlEdges(s, Reads[v]) : v \in Versions[s] }
                       \cup { {} : v \in SlowTexts \cap Versions[s] }
  BY ActiveSqls DEF TextEdges
<1>3. CASE s \in slow
  <2>1. parses[s].reads = {} /\ sql_repository[s].text \in SlowTexts \cap Versions[s]
    BY <1>1, <1>3
  <2>2. SqlEdges(s, {}) = {}
    BY DEF SqlEdges
  <2> QED BY <1>2, <2>1, <2>2
<1>4. CASE s \notin slow
  BY <1>1, <1>2, <1>4
<1> QED BY <1>3, <1>4

LEMMA ReadJobsHooked ==
  ASSUME HInv, TypeInv, GhostOK', ReadJobs(Cron)
  PROVE  HInv'
<1>1. PICK slow \in SUBSET { s \in Active : sql_repository[s].text \in SlowTexts } :
        /\ jobs' = [jobs EXCEPT ![Cron] =
             [s \in Active |-> IF s \in slow THEN TimedOut ELSE Parsed(sql_repository[s].text)]]
        /\ ghost' = [ghost EXCEPT !.overtaken = @ \cup slow]
  BY DEF ReadJobs
<1>2. /\ pc' = [pc EXCEPT ![Cron] = "shadow"]
      /\ UNCHANGED <<sql_repository, lineage_edge>>
  BY DEF ReadJobs, Goto, edgeTables
<1>3. pc'[Cron] = "shadow"
  BY <1>2, CronRebuilds DEF TypeInv, RebuildsOK
<1>4. /\ \A s \in slow : jobs'[Cron][s].reads = {}
      /\ \A s \in Active \ slow : jobs'[Cron][s].reads = Reads[sql_repository[s].text]
  BY <1>1, CronRebuilds DEF TypeInv, RebuildsOK, TimedOut, Parsed
<1>5. JobsFit'
  BY <1>4, ReadJobsFit DEF JobsFit
<1>6. ShadowFits'
  BY <1>3 DEF ShadowFits, PastLoad
<1>7. ghost'.hooked = ghost.hooked /\ ghost'.overtaken = ghost.overtaken \cup slow
  BY <1>1 DEF HInv, GhostOK
<1>8. ASSUME NEW s \in (ghost'.hooked \ ghost'.overtaken) \cap Active
      PROVE  /\ ReadsIn(lineage_edge, s) = Reads[sql_repository[s].text]
             /\ jobs'[Cron][s].reads = Reads[sql_repository[s].text]
  BY <1>4, <1>7 DEF HInv
<1> QED BY <1>2, <1>5, <1>6, <1>7, <1>8 DEF HInv, Lasts, ReadsIn, AtTmp

(* The shadow table on its way. *)
LEMMA ShadowHooked ==
  ASSUME HInv, TypeInv, GhostOK', TextsLast,
         \A s \in Sqls : sql_repository'[s].text = sql_repository[s].text,
         \/ DropShadow(Cron) \/ CreateShadow(Cron) \/ CopyKept(Cron)
         \/ BulkInsert(Cron) \/ FoldShadow(Cron)
  PROVE  HInv'
<1>1. UNCHANGED <<lineage_edge, jobs, ghost>> /\ HasReadTexts(Cron)
  BY DEF DropShadow, CreateShadow, CopyKept, BulkInsert, FoldShadow, Goto, HasReadTexts
<1>2. ShadowFits'
  <2>1. CASE CreateShadow(Cron)
    <3>1. pc'[Cron] = "copy" /\ lineage_edge_shadow' = {}
      BY <2>1, CronRebuilds DEF CreateShadow, Goto, TypeInv, RebuildsOK
    <3> QED BY <3>1 DEF ShadowFits, PastLoad
  <2>2. CASE CopyKept(Cron)
    <3>1. /\ pc[Cron] = "copy" /\ pc'[Cron] = "load"
          /\ lineage_edge_shadow' = lineage_edge_shadow \cup Kept
      BY <2>2, CronRebuilds DEF CopyKept, Goto, TypeInv, RebuildsOK
    <3> QED BY <3>1 DEF HInv, ShadowFits, PastLoad, Kept
  <2>3. CASE BulkInsert(Cron)
    <3> DEFINE L == Loaded(Cron, Active)
    <3>1. /\ pc[Cron] = "load" /\ pc'[Cron] = "fold"
          /\ lineage_edge_shadow' = lineage_edge_shadow \cup L
      BY <2>3, CronRebuilds DEF BulkInsert, Goto, TypeInv, RebuildsOK
    <3>2. \A e \in lineage_edge_shadow : e.type # "sql"
      BY <3>1 DEF HInv, ShadowFits
    <3>3. Lasts("sql", L)
      <4>1. \A s \in Active : Lasts("sql", SqlEdges(s, jobs[Cron][s].reads))
        BY <1>1, TextEdgesLast, ActiveSqls DEF HInv, JobsFit
      <4> QED BY <4>1 DEF Loaded, Lasts
    <3>4. ASSUME NEW s \in Active PROVE ReadsIn(lineage_edge_shadow', s) = jobs[Cron][s].reads
      <4>1. ReadsIn(lineage_edge_shadow', s) = ReadsIn(L, s)
        BY <3>1, <3>2 DEF ReadsIn
      <4>2. \A e : e \in L /\ e.sql = s <=> e \in SqlEdges(s, jobs[Cron][s].reads) /\ e.sql = s
        BY DEF Loaded, SqlEdges
      <4>3. ReadsIn(L, s) = ReadsIn(SqlEdges(s, jobs[Cron][s].reads), s)
        <5> HIDE DEF L
        <5> QED BY <4>2 DEF ReadsIn
      <4> QED BY <4>1, <4>3, SqlEdgesReads
    <3>5. Lasts("sql", lineage_edge_shadow')
      BY <3>1, <3>2, <3>3 DEF Lasts
    <3> QED BY <1>1, <3>1, <3>4, <3>5 DEF ShadowFits, PastLoad, Lasts, ReadsIn, AtTmp
  <2>4. CASE FoldShadow(Cron)
    <3>1. /\ pc[Cron] = "fold" /\ pc'[Cron] = "checkEdges"
          /\ lineage_edge_shadow' = FoldTmpEdges(lineage_edge_shadow, AnySql, TRUE)
      BY <2>4, CronRebuilds DEF FoldShadow, Goto, TypeInv, RebuildsOK
    <3>2. /\ Lasts("sql", lineage_edge_shadow)
          /\ \A s \in Active : ReadsIn(lineage_edge_shadow, s) = jobs[Cron][s].reads
      BY <3>1 DEF HInv, ShadowFits, PastLoad
    <3>3. Same("sql", lineage_edge_shadow, lineage_edge_shadow')
      BY <3>1, <3>2, FoldKeeps
    <3>4. /\ Lasts("sql", lineage_edge_shadow')
          /\ \A s \in Active : ReadsIn(lineage_edge_shadow', s) = jobs[Cron][s].reads
      BY <3>2, <3>3, SameLasts, SameReads
    <3> QED BY <1>1, <3>1, <3>4 DEF ShadowFits, PastLoad, Lasts, ReadsIn, AtTmp
  <2>5. CASE DropShadow(Cron)
    <3>1. pc'[Cron] = "create"
      BY <2>5, CronRebuilds DEF DropShadow, Goto, TypeInv, RebuildsOK
    <3> QED BY <3>1 DEF ShadowFits, PastLoad
  <2> QED BY <2>1, <2>2, <2>3, <2>4, <2>5
<1> QED BY <1>1, <1>2, HookedKept, SameSelf

LEMMA RenameEdgesHooked ==
  ASSUME HInv, TypeInv, GhostOK', RenameEdges(Cron)
  PROVE  HInv'
<1>1. /\ pc[Cron] = "renameEdges" /\ pc'[Cron] = "closure"
      /\ lineage_edge' = lineage_edge_shadow
      /\ UNCHANGED <<sql_repository, jobs, ghost>>
  BY CronRebuilds DEF RenameEdges, Goto, TypeInv, RebuildsOK
<1>2. /\ Lasts("sql", lineage_edge')
      /\ \A s \in Active : ReadsIn(lineage_edge', s) = jobs[Cron][s].reads
  BY <1>1 DEF HInv, ShadowFits, PastLoad
<1>3. ~HasReadTexts(Cron)' /\ HasReadTexts(Cron) /\ ShadowFits'
  BY <1>1 DEF HasReadTexts, ShadowFits, PastLoad
<1> QED BY <1>1, <1>2, <1>3 DEF HInv, JobsFit, Lasts, ReadsIn, AtTmp

LEMMA ErrorHooked ==
  ASSUME HInv, TypeInv, GhostOK', ErrorInFull(Cron),
         \A s \in Sqls : sql_repository'[s].text = sql_repository[s].text
  PROVE  HInv'
<1>1. pc'[Cron] = "idle" /\ UNCHANGED <<lineage_edge, jobs, ghost>>
  BY CronRebuilds DEF ErrorInFull, TypeInv, RebuildsOK
<1>2. ShadowFits' /\ ~HasReadTexts(Cron)'
  BY <1>1 DEF ShadowFits, PastLoad, HasReadTexts
<1> QED BY <1>1, <1>2, HookedKept, SameSelf

(* The steps beside the rebuild leave its place and its shadow table.      *)
LEMMA BesideKept ==
  ASSUME HInv, UNCHANGED <<lineage_edge_shadow, pc, jobs>>
  PROVE  ShadowFits' /\ JobsFit' /\ (HasReadTexts(Cron)' <=> HasReadTexts(Cron))
  BY DEF HInv, ShadowFits, JobsFit, HasReadTexts, Lasts, ReadsIn, AtTmp

LEMMA BesideHooked ==
  ASSUME HInv, TypeInv, GhostOK',
         \A s \in Sqls : sql_repository'[s].text = sql_repository[s].text,
         \/ FoldTask \/ ReadRegion \/ PatchClosure \/ BreakHook
         \/ \E s \in Sqls : StartHook(s)
         \/ \E w \in Drawings : ManualLineage(w)
  PROVE  HInv'
<1>1. UNCHANGED <<lineage_edge_shadow, pc, jobs>>
  BY DEF FoldTask, ReadRegion, PatchClosure, BreakHook, StartHook, ManualLineage, edgeTables
<1>2. ghost'.hooked = ghost.hooked /\ ghost'.overtaken = ghost.overtaken
  BY DEF FoldTask, ReadRegion, PatchClosure, BreakHook, StartHook, ManualLineage, Touch,
         HInv, GhostOK
<1>3. Same("sql", lineage_edge, lineage_edge')
  <2>1. CASE FoldTask
    BY <2>1, FoldKeeps DEF FoldTask, HInv
  <2>2. CASE BreakHook
    <3>1. \/ lineage_edge' = lineage_edge
          \/ lineage_edge' = InsertSynthetic(lineage_edge, TaskSqls(hook.sql))
      BY <2>2 DEF BreakHook
    <3> QED BY <3>1, FoldKeeps, SameSelf DEF HInv
  <2>3. ASSUME NEW w \in Drawings, ManualLineage(w) PROVE Same("sql", lineage_edge, lineage_edge')
    <3>1. lineage_edge' = (lineage_edge \ DrawnTo(lineage_edge, w.dst)) \cup DrawnBy(w)
      BY <2>3 DEF ManualLineage
    <3>2. \A e \in DrawnTo(lineage_edge, w.dst) \cup DrawnBy(w) : e.type # "sql"
      BY DEF DrawnTo, DrawnBy
    <3> QED BY <3>1, <3>2 DEF Same
  <2>4. CASE ReadRegion \/ PatchClosure \/ \E s \in Sqls : StartHook(s)
    BY <2>4, SameSelf DEF ReadRegion, PatchClosure, StartHook, edgeTables
  <2> QED BY <2>1, <2>2, <2>3, <2>4
<1> QED BY <1>1, <1>2, <1>3, BesideKept, HookedKept

LEMMA UpsertHooked ==
  ASSUME HInv, TypeInv, GhostOK', NEW s \in Sqls, NEW v \in Versions[s], UpsertSql(s, v)
  PROVE  HInv'
<1>1. /\ UNCHANGED <<lineage_edge, lineage_edge_shadow, pc, jobs>>
      /\ sql_repository' = [sql_repository EXCEPT ![s] = [text |-> v, status |-> "pending"]]
      /\ ghost'.hooked = ghost.hooked \ {s} /\ ghost'.overtaken = ghost.overtaken \ {s}
  BY DEF UpsertSql, Touch, edgeTables, HInv, GhostOK
<1>2. \A q \in Sqls \ {s} : sql_repository'[q] = sql_repository[q]
  BY <1>1 DEF TypeInv, RepositoryOK
<1>3. ShadowFits' /\ JobsFit' /\ (HasReadTexts(Cron)' <=> HasReadTexts(Cron))
  BY <1>1, BesideKept
<1>4. ASSUME NEW q \in (ghost'.hooked \ ghost'.overtaken) \cap Active
      PROVE  /\ ReadsIn(lineage_edge', q) = Reads[sql_repository'[q].text]
             /\ HasReadTexts(Cron)' => jobs'[Cron][q].reads = Reads[sql_repository'[q].text]
  <2>1. q # s /\ q \in (ghost.hooked \ ghost.overtaken) \cap Active
    BY <1>1
  <2> QED BY <1>1, <1>2, <1>3, <2>1, ActiveSqls DEF HInv
<1>5. Lasts("sql", lineage_edge') /\ ghost'.hooked \subseteq Sqls
  BY <1>1 DEF HInv
<1> QED BY <1>3, <1>4, <1>5 DEF HInv, Lasts, ReadsIn, AtTmp

LEMMA ReplaceHooked ==
  ASSUME HInv, TypeInv, GhostOK', ByHand = {}, TextsLast, ReplaceEdges,
         \A s \in Sqls : sql_repository'[s].text = sql_repository[s].text
  PROVE  HInv'
<1> DEFINE h == hook.sql
           N == SqlEdges(h, Reads[hook.text])
<1>1. h \in Sqls /\ hook.text \in Versions[h]
  BY DEF ReplaceEdges, TypeInv, HookOK
<1>2. /\ UNCHANGED <<lineage_edge_shadow, pc, jobs>>
      /\ lineage_edge' = { e \in lineage_edge : ~(e.sql = h /\ e.type = "sql") } \cup N
  BY DEF ReplaceEdges, Parsed
<1>3. /\ ghost'.hooked = IF hook.text = sql_repository[h].text THEN ghost.hooked \cup {h}
                         ELSE ghost.hooked \ {h}
      /\ ghost'.overtaken = IF HasReadTexts(Cron) THEN ghost.overtaken \cup {h}
                            ELSE ghost.overtaken \ {h}
  <2>1. (\E r \in Rebuilds : HasReadTexts(r)) <=> HasReadTexts(Cron)
    BY DEF Rebuilds
  <2> QED BY <2>1 DEF ReplaceEdges, Touch, HInv, GhostOK
<1>4. ShadowFits' /\ JobsFit' /\ (HasReadTexts(Cron)' <=> HasReadTexts(Cron))
  BY <1>2, BesideKept
<1>5. Lasts("sql", N)
  <2>1. N \in TextEdges[h]
    BY <1>1 DEF TextEdges
  <2> QED BY <1>1, <2>1, TextEdgesLast
<1>6. \A e \in N : e.sql = h /\ e.type = "sql"
  BY DEF SqlEdges
<1>7. ReadsIn(N, h) = Reads[hook.text]
  BY SqlEdgesReads
<1> HIDE DEF N
<1>8. ReadsIn(lineage_edge', h) = Reads[hook.text]
  <2>1. ReadsIn(lineage_edge', h) = ReadsIn(N, h)
    BY <1>2, <1>6 DEF ReadsIn
  <2> QED BY <1>7, <2>1
<1>9. ASSUME NEW q \in Sqls \ {h} PROVE ReadsIn(lineage_edge', q) = ReadsIn(lineage_edge, q)
  BY <1>2, <1>6 DEF ReadsIn
<1>10. Lasts("sql", lineage_edge')
  BY <1>2, <1>5 DEF HInv, Lasts
<1>11. ASSUME NEW q \in (ghost'.hooked \ ghost'.overtaken) \cap Active
       PROVE  /\ ReadsIn(lineage_edge', q) = Reads[sql_repository'[q].text]
              /\ HasReadTexts(Cron)' => jobs'[Cron][q].reads = Reads[sql_repository'[q].text]
  <2>1. CASE q = h
    <3>1. hook.text = sql_repository[h].text /\ ~HasReadTexts(Cron)
      BY <1>3, <2>1
    <3>2. sql_repository'[q].text = sql_repository[q].text
      BY <1>1, <2>1
    <3>3. ReadsIn(lineage_edge', q) = Reads[sql_repository'[q].text]
      BY <1>8, <2>1, <3>1, <3>2
    <3> QED BY <1>4, <3>1, <3>3
  <2>2. CASE q # h
    <3>1. q \in (ghost.hooked \ ghost.overtaken) \cap Active
      BY <1>3, <2>2
    <3>2. q \in Sqls \ {h}
      BY <2>2, <3>1, ActiveSqls
    <3>3. ReadsIn(lineage_edge', q) = ReadsIn(lineage_edge, q)
      BY <1>9, <3>2
    <3>4. sql_repository'[q].text = sql_repository[q].text
      BY <3>2
    <3>5. /\ ReadsIn(lineage_edge, q) = Reads[sql_repository[q].text]
          /\ HasReadTexts(Cron) => jobs[Cron][q].reads = Reads[sql_repository[q].text]
      BY <3>1 DEF HInv
    <3>6. ReadsIn(lineage_edge', q) = Reads[sql_repository'[q].text]
      BY <3>3, <3>4, <3>5
    <3>7. HasReadTexts(Cron)' => jobs'[Cron][q].reads = Reads[sql_repository'[q].text]
      BY <1>2, <1>4, <3>4, <3>5
    <3> QED BY <3>6, <3>7
  <2> QED BY <2>1, <2>2
<1>12. ghost'.hooked \subseteq Sqls
  BY <1>1, <1>3 DEF HInv
<1> QED BY <1>4, <1>10, <1>11, <1>12 DEF HInv, Lasts, ReadsIn, AtTmp

LEMMA NextHooked ==
  ASSUME HInv, TypeInv, ByHand = {}, TextsLast, [Next]_vars
  PROVE  HInv'
<1>1. GhostOK'
  BY GhostTyped DEF HInv
<1>2. CASE \E s \in Sqls : \E v \in Versions[s] : UpsertSql(s, v)
  BY <1>1, <1>2, UpsertHooked
<1>3. CASE ~\E s \in Sqls : \E v \in Versions[s] : UpsertSql(s, v)
  <2>1. \A s \in Sqls : sql_repository'[s].text = sql_repository[s].text
    BY <1>3, TextsStay
  <2>2. CASE UNCHANGED vars
    <3>1. UNCHANGED <<lineage_edge, lineage_edge_shadow, pc, jobs, ghost>>
      BY <2>2 DEF vars, edgeTables
    <3> QED BY <1>1, <2>1, <3>1, BesideKept, HookedKept, SameSelf
  <2>3. ASSUME NEW r \in Rebuilds, StartFull(r) \/ FullStep(r) \/ ErrorInFull(r) \/ CrashFull(r)
        PROVE  HInv'
    <3>1. r = Cron
      BY DEF Rebuilds
    <3> QED BY <1>1, <2>1, <2>3, <3>1, QuietHooked, ReadJobsHooked, ShadowHooked,
               RenameEdgesHooked, ErrorHooked DEF FullStep
  <2>4. CASE HookStep \/ BreakHook
    BY <1>1, <2>1, <2>4, BesideHooked, ReplaceHooked DEF HookStep
  <2>5. CASE (\E s \in Sqls : StartHook(s)) \/ \E w \in Drawings : ManualLineage(w)
    BY <1>1, <2>1, <2>5, BesideHooked
  <2> QED BY <1>3, <2>2, <2>3, <2>4, <2>5 DEF Next
<1> QED BY <1>2, <1>3

LEMMA InitHooked == ASSUME TextsLast PROVE Init => HInv
<1> SUFFICES ASSUME Init PROVE HInv
  OBVIOUS
<1> DEFINE R == [s \in Sqls |-> Reads[sql_repository[s].text]]
           E == UNION { SqlEdges(s, R[s]) : s \in Active }
<1>1. TypeInv
  BY InitTyped
<1>2. Lasts("sql", E)
  <2>1. ASSUME NEW s \in Active PROVE Lasts("sql", SqlEdges(s, R[s]))
    <3>1. SqlEdges(s, R[s]) \in TextEdges[s]
      BY <1>1, ActiveSqls DEF TypeInv, RepositoryOK, TextEdges
    <3> QED BY <3>1, TextEdgesLast, ActiveSqls
  <2> HIDE DEF R
  <2> QED BY <2>1 DEF Lasts
<1>3. lineage_edge = FoldTmpEdges(E, AnySql, TRUE)
  BY DEF Init, Built
<1> HIDE DEF E
<1>4. Lasts("sql", lineage_edge)
  BY <1>2, <1>3, FoldKeeps, SameLasts
<1>5. GhostOK /\ ghost.hooked = {}
  BY <1>1 DEF Init, GhostOK, TypeInv, TablesOK
<1>6. pc[Cron] = "idle"
  BY CronRebuilds DEF Init
<1>7. JobsFit /\ ShadowFits
  BY <1>6 DEF JobsFit, ShadowFits, HasReadTexts, PastLoad
<1> QED BY <1>4, <1>5, <1>7 DEF HInv

(* The edges an incremental run (rebuild.incremental) wrote for the current *)
(* text of an active statement stay through every rebuild, abort, error and *)
(* crash, unless a rebuild had read the texts before and renames after it,  *)
(* or its own parse times out: with cron alone starting rebuilds and no     *)
(* text that reads or writes a tmp table.                                   *)
THEOREM HookedStays ==
  ASSUME ByHand = {}, TextsLast
  PROVE  Spec => []HookedLineageStays
<1>1. HInv => HookedLineageStays
  BY DEF HInv, HookedLineageStays, ShowsText, OwnReads, ReadsIn
<1>2. HInv /\ TypeInv /\ [Next]_vars => HInv'
  BY NextHooked
<1>3. Init => HInv
  BY InitHooked
<1> QED
  BY PipelineInv, <1>1, <1>2, <1>3, PTL DEF Spec

-----------------------------------------------------------------------------
LEMMA StoreFold ==
  ASSUME NEW E, NEW S, NEW all
  PROVE  /\ Store!FoldTmpEdges(E, S, all) = FoldTmpEdges(E, S, all)
         /\ Store!InsertSynthetic(E, S) = InsertSynthetic(E, S)
<1>1. ASSUME NEW W PROVE Store!FullChains(W) = FullChains(W)
  <2>1. Store!OpenChains(W) = OpenChains(W)
    <3> DEFINE m == Cardinality(TmpTables) + 1
               upto == CHOOSE f : Stacks(f, W, m)
    <3>1. Store!Cardinality(TmpTables) = Cardinality(TmpTables)
      BY DEF Store!Cardinality, Cardinality
    <3>2. OpenChains(W) = UNION { upto[k] : k \in DOMAIN upto }
      BY DEF OpenChains, Stacks, Level, Heads, Longer, Extends
    <3>3. Store!OpenChains(W) = UNION { upto[k] : k \in DOMAIN upto }
      BY <3>1 DEF Store!OpenChains, Stacks, Level, Heads, Longer, Extends, Store!Last, Last
    <3> QED BY <3>2, <3>3
  <2> QED BY <2>1 DEF Store!FullChains, FullChains, Store!Last, Last
<1>2. ASSUME NEW W PROVE Store!Synthetic(W) = Synthetic(W) /\ Store!Used(W) = Used(W)
  BY <1>1 DEF Store!Synthetic, Synthetic, Store!Used, Used, Store!Synthesize, Synthesize
<1>3. Store!Working(E, S) = Working(E, S)
  BY DEF Store!Working, Working, Store!AtTmp, AtTmp
<1> QED BY <1>2, <1>3 DEF Store!FoldTmpEdges, FoldTmpEdges, Store!InsertSynthetic,
           InsertSynthetic

LEMMA StoreClosure ==
  ASSUME NEW E
  PROVE  Store!ClosureOf(E) = ClosureOf(E)
  BY DEF Store!ClosureOf, ClosureOf, Store!PairsOf, PairsOf, Store!Connected, Connected,
         Store!Reaches, Reaches, Store!Closed, Closed

-----------------------------------------------------------------------------
(* What drawings may leave is none but what may be drawn. *)
DrawnFrom(E) == \A e \in E : e.type = "manual" => e \in Drawable

LEMMA DrawnFromLasts ==
  ASSUME DrawingsLast, NEW E, DrawnFrom(E)
  PROVE  DrawnLasts(E)
  BY DEF DrawingsLast, DrawnFrom, DrawnLasts, Drawable

LEMMA SameDrawnFrom ==
  ASSUME NEW E, NEW F, SameDrawn(E, F), DrawnFrom(E)
  PROVE  DrawnFrom(F)
  BY DEF SameDrawn, DrawnFrom

(* One parse of every statement and some drawings, folded, are a build.    *)
LEMMA InBuilds ==
  ASSUME NEW reads, \A s \in Active : SqlEdges(s, reads[s]) \in TextEdges[s],
         NEW M \in SUBSET Drawable
  PROVE  FoldTmpEdges((UNION { SqlEdges(s, reads[s]) : s \in Active }) \cup M, AnySql, TRUE)
           \in Store!Builds
<1> DEFINE v == [s \in Active |-> SqlEdges(s, reads[s])]
<1>1. /\ v \in { f \in [Active -> UNION { TextEdges[s] : s \in Active }] :
                   \A s \in Active : f[s] \in TextEdges[s] }
      /\ UNION { v[s] : s \in Active } = UNION { SqlEdges(s, reads[s]) : s \in Active }
  OBVIOUS
<1> HIDE DEF v
<1>2. FoldTmpEdges((UNION { v[s] : s \in Active }) \cup M, AnySql, TRUE) \in Store!Builds
  <2> DEFINE V == { f \in [Active -> UNION { TextEdges[s] : s \in Active }] :
                      \A s \in Active : f[s] \in TextEdges[s] }
             T(x, N) == Store!FoldTmpEdges((UNION { x[s] : s \in Active }) \cup N, AnySql, TRUE)
  <2>1. Store!AnySql = AnySql
    BY DEF Store!AnySql, AnySql
  <2>2. Store!Builds = { T(x, N) : x \in V, N \in SUBSET Drawable }
    BY <2>1 DEF Store!Builds
  <2>3. v \in V
    BY <1>1
  <2> HIDE DEF V, T
  <2>4. T(v, M) \in { T(x, N) : x \in V, N \in SUBSET Drawable }
    BY <2>3
  <2>5. T(v, M) = FoldTmpEdges((UNION { v[s] : s \in Active }) \cup M, AnySql, TRUE)
    BY StoreFold DEF T
  <2>6. T(v, M) \in Store!Builds
    BY <2>2, <2>4
  <2> QED BY <2>5, <2>6
<1> QED BY <1>1, <1>2

(* A build holds no edge drawn but those that may be drawn. *)
LEMMA BuildsDrawn ==
  ASSUME DrawingsLast, NEW E \in Store!Builds
  PROVE  DrawnFrom(E)
<1> DEFINE V == { f \in [Active -> UNION { TextEdges[s] : s \in Active }] :
                    \A s \in Active : f[s] \in TextEdges[s] }
           T(x, N) == Store!FoldTmpEdges((UNION { x[s] : s \in Active }) \cup N, AnySql, TRUE)
<1>1. Store!AnySql = AnySql
  BY DEF Store!AnySql, AnySql
<1>2. Store!Builds = { T(x, N) : x \in V, N \in SUBSET Drawable }
  BY <1>1 DEF Store!Builds
<1>3. \A x \in V : \A s \in Active : x[s] \in TextEdges[s]
  OBVIOUS
<1> HIDE DEF V, T
<1>4. PICK x \in V, N \in SUBSET Drawable : E = T(x, N)
  BY <1>2
<1> DEFINE U == UNION { x[s] : s \in Active }
<1>5. ASSUME NEW e \in U PROVE e.type = "sql"
  <2>1. PICK s \in Active : e \in x[s]
    OBVIOUS
  <2>2. x[s] \in TextEdges[s]
    BY <1>3
  <2>3. \E reads : e \in SqlEdges(s, reads)
    BY <2>1, <2>2, ActiveSqls DEF TextEdges
  <2> QED BY <2>3, SqlEdgesParsed
<1>6. E = FoldTmpEdges(U \cup N, AnySql, TRUE)
  BY <1>4, StoreFold DEF T
<1> HIDE DEF U
<1>7. DrawnFrom(U \cup N)
  BY <1>5 DEF DrawnFrom
<1>8. SameDrawn(U \cup N, E)
  BY <1>6, <1>7, DrawnFromLasts, FoldKeepsDrawn
<1> QED BY <1>7, <1>8, SameDrawnFrom

-----------------------------------------------------------------------------
(* What the rebuild is about to publish, and what the hook is about to     *)
(* patch, as the store needs them.                                         *)
EdgeDraft ==
  /\ DrawnFrom(lineage_edge)
  /\ pc[Cron] = "copy" => lineage_edge_shadow = {}
  /\ pc[Cron] = "load" => lineage_edge_shadow \subseteq Drawable
  /\ pc[Cron] = "fold" => \E M \in SUBSET Drawable :
                            lineage_edge_shadow = Loaded(Cron, Active) \cup M
  /\ pc[Cron] \in {"checkEdges", "dropEdgePrev", "renameEdges"} =>
       lineage_edge_shadow \in Store!Builds
ClosureDraft ==
  /\ pc[Cron] = "loadClosure" => table_closure_shadow = {}
  /\ pc[Cron] \in {"checkClosure", "dropClosurePrev", "renameClosure"} =>
       table_closure_shadow = found[Cron]
PatchDraft ==
  /\ hook.at # "patch" => hook.anc = {} /\ hook.desc = {} /\ hook.pairs = {}
  /\ hook.at = "patch" => /\ hook.anc = Upstream(Writes[hook.sql])
                          /\ hook.desc = Downstream(Writes[hook.sql])
                          /\ hook.pairs \subseteq hook.anc \X hook.desc
RInv == JobsFit /\ EdgeDraft /\ ClosureDraft /\ PatchDraft

LEMMA JobsFitKept ==
  ASSUME RInv, TypeInv, ByHand = {}, [Next]_vars
  PROVE  JobsFit'
<1>1. CASE ReadJobs(Cron)
  <2>1. PICK slow \in SUBSET { s \in Active : sql_repository[s].text \in SlowTexts } :
          jobs' = [jobs EXCEPT ![Cron] =
            [s \in Active |-> IF s \in slow THEN TimedOut ELSE Parsed(sql_repository[s].text)]]
    BY <1>1 DEF ReadJobs
  <2>2. /\ \A s \in slow : jobs'[Cron][s].reads = {}
        /\ \A s \in Active \ slow : jobs'[Cron][s].reads = Reads[sql_repository[s].text]
    BY <2>1, CronRebuilds DEF TypeInv, RebuildsOK, TimedOut, Parsed
  <2> QED BY <2>2, ReadJobsFit DEF JobsFit
<1>2. CASE jobs' = jobs /\ (HasReadTexts(Cron)' => HasReadTexts(Cron))
  BY <1>2 DEF RInv, JobsFit
<1>3. ASSUME ~ReadJobs(Cron) PROVE jobs' = jobs /\ (HasReadTexts(Cron)' => HasReadTexts(Cron))
  <2>1. CASE pc' = pc /\ jobs' = jobs
    BY <2>1 DEF HasReadTexts
  <2>2. ASSUME NEW n \in Steps, pc' = [pc EXCEPT ![Cron] = n], jobs' = jobs,
               n \in {"shadow", "create", "copy", "load", "fold", "checkEdges",
                      "dropEdgePrev", "renameEdges"} => HasReadTexts(Cron)
        PROVE  jobs' = jobs /\ (HasReadTexts(Cron)' => HasReadTexts(Cron))
    BY <2>2, CronRebuilds DEF TypeInv, RebuildsOK, HasReadTexts
  <2>3. ASSUME NEW r \in Rebuilds, StartFull(r) \/ FullStep(r) \/ ErrorInFull(r) \/ CrashFull(r)
        PROVE  \E n \in Steps : /\ pc' = [pc EXCEPT ![Cron] = n]
                                /\ jobs' = jobs
                                /\ n \in {"shadow", "create", "copy", "load", "fold",
                                          "checkEdges", "dropEdgePrev", "renameEdges"}
                                     => HasReadTexts(Cron)
    <3>1. r = Cron
      BY DEF Rebuilds
    <3> QED
      BY <1>3, <2>3, <3>1 DEF StartFull, FullStep, DropShadow, CreateShadow, CopyKept,
         BulkInsert, FoldShadow, CheckEdges, DropEdgePrev, RenameEdges, DropClosureShadow,
         CreateClosureShadow, LoadClosureShadow, CheckClosure, DropClosurePrev, RenameClosure,
         FinishFull, StatementFails, ErrorInFull, CrashFull, Goto, Steps, HasReadTexts
  <2>4. CASE ~\E r \in Rebuilds : StartFull(r) \/ FullStep(r) \/ ErrorInFull(r) \/ CrashFull(r)
    <3>1. pc' = pc /\ jobs' = jobs
      BY <2>4 DEF Next, vars, StartHook, UpsertSql, HookStep, ReplaceEdges, FoldTask,
         ReadRegion, PatchClosure, BreakHook, ManualLineage
    <3> QED BY <2>1, <3>1
  <2> QED BY <2>2, <2>3, <2>4
<1> QED BY <1>1, <1>2, <1>3

(* The steps of a rebuild that write none of the drafts. *)
LEMMA EdgeDraftStays ==
  ASSUME EdgeDraft, UNCHANGED <<lineage_edge, lineage_edge_shadow, jobs>>,
         /\ pc'[Cron] \in {"copy", "load", "fold", "checkEdges"} => pc[Cron] = pc'[Cron]
         /\ pc'[Cron] \in {"dropEdgePrev", "renameEdges"} =>
              pc[Cron] \in {"checkEdges", "dropEdgePrev", "renameEdges"}
  PROVE  EdgeDraft'
<1>1. Loaded(Cron, Active)' = Loaded(Cron, Active)
  BY DEF Loaded
<1> QED BY <1>1 DEF EdgeDraft, DrawnFrom

LEMMA EdgeDraftFull ==
  ASSUME RInv, TypeInv, DrawingsLast,
         StartFull(Cron) \/ FullStep(Cron) \/ ErrorInFull(Cron) \/ CrashFull(Cron)
  PROVE  EdgeDraft'
<1> USE CronRebuilds DEF Goto
<1>1. /\ EdgeDraft /\ JobsFit /\ pc \in [Rebuilds -> Steps]
      /\ lineage_edge \subseteq EdgeRows
  BY DEF RInv, TypeInv, RebuildsOK, TablesOK
<1>2. CASE CreateShadow(Cron)
  <2>1. pc'[Cron] = "copy" /\ lineage_edge_shadow' = {} /\ lineage_edge' = lineage_edge
    BY <1>1, <1>2 DEF CreateShadow
  <2> QED BY <1>1, <2>1 DEF EdgeDraft, DrawnFrom
<1>3. CASE CopyKept(Cron)
  <2>1. /\ pc[Cron] = "copy" /\ pc'[Cron] = "load" /\ lineage_edge' = lineage_edge
        /\ lineage_edge_shadow' = lineage_edge_shadow \cup Kept
    BY <1>1, <1>3 DEF CopyKept
  <2>2. Kept \subseteq Drawable
    BY <1>1 DEF Kept, EdgeRows, EdgeDraft, DrawnFrom
  <2> QED BY <1>1, <2>1, <2>2 DEF EdgeDraft, DrawnFrom
<1>4. CASE BulkInsert(Cron)
  <2>1. /\ pc[Cron] = "load" /\ pc'[Cron] = "fold" /\ lineage_edge' = lineage_edge
        /\ lineage_edge_shadow' = lineage_edge_shadow \cup Loaded(Cron, Active) /\ jobs' = jobs
    BY <1>1, <1>4 DEF BulkInsert
  <2>2. Loaded(Cron, Active)' = Loaded(Cron, Active)
    BY <2>1 DEF Loaded
  <2>3. \E M \in SUBSET Drawable : lineage_edge_shadow' = Loaded(Cron, Active)' \cup M
    BY <1>1, <2>1, <2>2 DEF EdgeDraft
  <2> QED BY <1>1, <2>1, <2>3 DEF EdgeDraft, DrawnFrom
<1>5. CASE FoldShadow(Cron)
  <2>1. /\ pc[Cron] = "fold" /\ pc'[Cron] = "checkEdges" /\ lineage_edge' = lineage_edge
        /\ lineage_edge_shadow' = FoldTmpEdges(lineage_edge_shadow, AnySql, TRUE)
    BY <1>1, <1>5 DEF FoldShadow
  <2>2. PICK M \in SUBSET Drawable : lineage_edge_shadow = Loaded(Cron, Active) \cup M
    BY <1>1, <2>1 DEF EdgeDraft
  <2> DEFINE reads == [s \in Active |-> jobs[Cron][s].reads]
  <2>3. \A s \in Active : SqlEdges(s, reads[s]) \in TextEdges[s]
    BY <1>1, <2>1 DEF JobsFit, HasReadTexts
  <2>4. Loaded(Cron, Active) = UNION { SqlEdges(s, reads[s]) : s \in Active }
    BY DEF Loaded
  <2> HIDE DEF reads
  <2>5. lineage_edge_shadow' \in Store!Builds
    BY <2>1, <2>2, <2>3, <2>4, InBuilds
  <2> QED BY <1>1, <2>1, <2>5 DEF EdgeDraft, DrawnFrom
<1>6. CASE RenameEdges(Cron)
  <2>1. /\ pc[Cron] = "renameEdges" /\ pc'[Cron] = "closure"
        /\ lineage_edge' = lineage_edge_shadow
    BY <1>1, <1>6 DEF RenameEdges
  <2>2. DrawnFrom(lineage_edge_shadow)
    BY <1>1, <2>1, BuildsDrawn DEF EdgeDraft
  <2> QED BY <2>1, <2>2 DEF EdgeDraft, DrawnFrom
<1>7. CASE ErrorInFull(Cron)
  <2>1. pc'[Cron] = "idle" /\ lineage_edge' = lineage_edge
    BY <1>1, <1>7 DEF ErrorInFull
  <2> QED BY <1>1, <2>1 DEF EdgeDraft, DrawnFrom
<1>8. CASE ReadJobs(Cron)
  <2>1. pc'[Cron] = "shadow" /\ lineage_edge' = lineage_edge
    BY <1>1, <1>8 DEF ReadJobs, edgeTables
  <2> QED BY <1>1, <2>1 DEF EdgeDraft, DrawnFrom
<1>9. CASE \/ StartFull(Cron) \/ CheckEdges(Cron) \/ DropEdgePrev(Cron)
           \/ DropClosureShadow(Cron) \/ CreateClosureShadow(Cron) \/ LoadClosureShadow(Cron)
           \/ CheckClosure(Cron) \/ DropClosurePrev(Cron) \/ RenameClosure(Cron)
           \/ FinishFull(Cron) \/ StatementFails(Cron) \/ CrashFull(Cron)
  <2>1. UNCHANGED <<lineage_edge, lineage_edge_shadow, jobs>>
    BY <1>9 DEF StartFull, CheckEdges, DropEdgePrev, DropClosureShadow, CreateClosureShadow,
         LoadClosureShadow, CheckClosure, DropClosurePrev, RenameClosure, FinishFull,
         StatementFails, CrashFull, edgeTables
  <2>2. \E n \in Steps : /\ pc' = [pc EXCEPT ![Cron] = n]
                         /\ n \notin {"copy", "load", "fold", "checkEdges"}
                         /\ n \in {"dropEdgePrev", "renameEdges"} =>
                              pc[Cron] \in {"checkEdges", "dropEdgePrev", "renameEdges"}
    BY <1>9 DEF StartFull, CheckEdges, DropEdgePrev, DropClosureShadow, CreateClosureShadow,
         LoadClosureShadow, CheckClosure, DropClosurePrev, RenameClosure, FinishFull,
         StatementFails, CrashFull, Steps
  <2> QED BY <1>1, <2>1, <2>2, EdgeDraftStays
<1>10. CASE DropShadow(Cron)
  <2>1. pc'[Cron] = "create" /\ lineage_edge' = lineage_edge
    BY <1>1, <1>10 DEF DropShadow
  <2> QED BY <1>1, <2>1 DEF EdgeDraft, DrawnFrom
<1> QED BY <1>2, <1>3, <1>4, <1>5, <1>6, <1>7, <1>8, <1>9, <1>10 DEF FullStep

LEMMA EdgeDraftBeside ==
  ASSUME RInv, TypeInv, DrawingsLast,
         \/ HookStep \/ BreakHook \/ UNCHANGED vars
         \/ \E s \in Sqls : StartHook(s) \/ \E v \in Versions[s] : UpsertSql(s, v)
         \/ \E w \in Drawings : ManualLineage(w)
  PROVE  EdgeDraft'
<1>1. UNCHANGED <<lineage_edge_shadow, pc, jobs>>
  BY DEF HookStep, ReplaceEdges, FoldTask, ReadRegion, PatchClosure, BreakHook, StartHook,
         UpsertSql, ManualLineage, vars, edgeTables
<1>2. DrawnFrom(lineage_edge) /\ DrawnLasts(lineage_edge)
  BY DrawnFromLasts DEF RInv, EdgeDraft
<1>3. DrawnFrom(lineage_edge')
  <2>1. CASE lineage_edge' = lineage_edge
    BY <1>2, <2>1
  <2>2. CASE ReplaceEdges
    <3> DEFINE N == SqlEdges(hook.sql, Parsed(hook.text).reads)
    <3>1. lineage_edge' = { e \in lineage_edge : ~(e.sql = hook.sql /\ e.type = "sql") } \cup N
      BY <2>2 DEF ReplaceEdges
    <3>2. \A e \in N : e.type = "sql"
      BY SqlEdgesParsed
    <3> HIDE DEF N
    <3>3. SameDrawn(lineage_edge, lineage_edge')
      BY <3>1, <3>2 DEF SameDrawn
    <3> QED BY <1>2, <3>3, SameDrawnFrom
  <2>3. CASE \/ lineage_edge' = FoldTmpEdges(lineage_edge, TaskSqls(hook.sql), FALSE)
             \/ lineage_edge' = InsertSynthetic(lineage_edge, TaskSqls(hook.sql))
    <3>1. SameDrawn(lineage_edge, lineage_edge')
      BY <1>2, <2>3, FoldKeepsDrawn
    <3> QED BY <1>2, <3>1, SameDrawnFrom
  <2>4. ASSUME NEW w \in Drawings, ManualLineage(w) PROVE DrawnFrom(lineage_edge')
    <3>1. lineage_edge' = (lineage_edge \ DrawnTo(lineage_edge, w.dst)) \cup DrawnBy(w)
      BY <2>4 DEF ManualLineage
    <3>2. DrawnBy(w) \subseteq Drawable
      BY DEF Drawable
    <3> QED BY <1>2, <3>1, <3>2 DEF DrawnFrom
  <2>5. \/ lineage_edge' = lineage_edge \/ ReplaceEdges
        \/ lineage_edge' = FoldTmpEdges(lineage_edge, TaskSqls(hook.sql), FALSE)
        \/ lineage_edge' = InsertSynthetic(lineage_edge, TaskSqls(hook.sql))
        \/ \E w \in Drawings : ManualLineage(w)
    BY DEF HookStep, FoldTask, ReadRegion, PatchClosure, BreakHook, StartHook,
         UpsertSql, vars, edgeTables
  <2> QED BY <2>1, <2>2, <2>3, <2>4, <2>5
<1>4. Loaded(Cron, Active)' = Loaded(Cron, Active)
  BY <1>1 DEF Loaded
<1> QED BY <1>1, <1>3, <1>4 DEF RInv, EdgeDraft, DrawnFrom

LEMMA ClosureDraftKept ==
  ASSUME RInv, TypeInv, ByHand = {}, [Next]_vars
  PROVE  ClosureDraft'
<1> USE CronRebuilds DEF Goto
<1>1. ClosureDraft /\ pc \in [Rebuilds -> Steps] /\ DOMAIN found = Rebuilds
  BY DEF RInv, TypeInv, RebuildsOK
<1>2. CASE UNCHANGED <<table_closure_shadow, pc, found>>
  BY <1>1, <1>2 DEF ClosureDraft
<1>3. ASSUME NEW r \in Rebuilds, StartFull(r) \/ FullStep(r) \/ ErrorInFull(r) \/ CrashFull(r)
      PROVE  ClosureDraft'
  <2>1. r = Cron
    BY DEF Rebuilds
  <2>2. CASE CreateClosureShadow(Cron)
    <3>1. pc'[Cron] = "loadClosure" /\ table_closure_shadow' = {}
      BY <1>1, <2>2 DEF CreateClosureShadow
    <3> QED BY <3>1 DEF ClosureDraft
  <2>3. CASE LoadClosureShadow(Cron)
    <3>1. /\ pc[Cron] = "loadClosure" /\ pc'[Cron] = "checkClosure"
          /\ table_closure_shadow' = table_closure_shadow \cup found[Cron]
          /\ found' = found
      BY <1>1, <2>3 DEF LoadClosureShadow
    <3> QED BY <1>1, <3>1 DEF ClosureDraft
  <2>4. CASE CheckClosure(Cron) \/ DropClosurePrev(Cron)
    <3>1. /\ pc[Cron] \in {"checkClosure", "dropClosurePrev"}
          /\ pc'[Cron] \in {"idle", "dropClosurePrev", "renameClosure"}
          /\ UNCHANGED <<table_closure_shadow, found>>
      BY <1>1, <2>4 DEF CheckClosure, DropClosurePrev, closureTables, Steps
    <3> QED BY <1>1, <3>1 DEF ClosureDraft
  <2>5. ASSUME ~(CreateClosureShadow(Cron) \/ LoadClosureShadow(Cron) \/ CheckClosure(Cron)
                 \/ DropClosurePrev(Cron))
        PROVE  ClosureDraft'
    <3>1. \E n \in Steps : /\ pc' = [pc EXCEPT ![Cron] = n]
                           /\ n \notin {"loadClosure", "checkClosure", "dropClosurePrev",
                                        "renameClosure"}
      BY <1>3, <2>1, <2>5 DEF StartFull, FullStep, ReadJobs, DropShadow, CreateShadow,
         CopyKept, BulkInsert, FoldShadow, CheckEdges, DropEdgePrev, RenameEdges,
         DropClosureShadow, RenameClosure, FinishFull, StatementFails, ErrorInFull, CrashFull,
         Steps
    <3> QED BY <1>1, <3>1 DEF ClosureDraft
  <2> QED BY <2>2, <2>3, <2>4, <2>5
<1>4. CASE ~\E r \in Rebuilds : StartFull(r) \/ FullStep(r) \/ ErrorInFull(r) \/ CrashFull(r)
  <2>1. UNCHANGED <<table_closure_shadow, pc, found>>
    BY <1>4 DEF Next, vars, StartHook, UpsertSql, HookStep, ReplaceEdges, FoldTask, ReadRegion,
         PatchClosure, BreakHook, ManualLineage, closureTables
  <2> QED BY <1>2, <2>1
<1> QED BY <1>3, <1>4

LEMMA PatchDraftKept ==
  ASSUME RInv, TypeInv, ByHand = {}, [Next]_vars
  PROVE  PatchDraft'
<1>1. PatchDraft /\ HookOK
  BY DEF RInv, TypeInv
<1>2. CASE hook' = NoHook
  BY <1>2 DEF PatchDraft, NoHook
<1>3. CASE \E s \in Sqls : StartHook(s)
  BY <1>3 DEF StartHook, PatchDraft, NoHook
<1>4. CASE ReplaceEdges \/ FoldTask
  BY <1>1, <1>4 DEF ReplaceEdges, FoldTask, PatchDraft, HookOK
<1>5. CASE ReadRegion
  <2> DEFINE t == Writes[hook.sql]
             A == Upstream(t)
             D == Downstream(t)
             P == ClosureOf(lineage_edge) \cap (A \X D)
  <2>1. \/ hook' = NoHook
        \/ hook' = [hook EXCEPT !.at = "patch", !.anc = A, !.desc = D, !.pairs = P]
    BY <1>5 DEF ReadRegion
  <2>2. table_closure' = table_closure
    BY <1>5 DEF ReadRegion, closureTables
  <2>3. ASSUME hook' = [hook EXCEPT !.at = "patch", !.anc = A, !.desc = D, !.pairs = P]
        PROVE  PatchDraft'
    <3>1. P \subseteq A \X D
      OBVIOUS
    <3>2. /\ hook'.at = "patch" /\ hook'.anc = A /\ hook'.desc = D /\ hook'.pairs = P
          /\ hook'.sql = hook.sql
      <4> HIDE DEF A, D, P
      <4> QED BY <1>1, <2>3 DEF HookOK
    <3> QED BY <2>2, <3>1, <3>2 DEF PatchDraft, Upstream, Downstream
  <2> QED BY <1>2, <2>1, <2>3
<1>6. CASE hook' = hook /\ (hook.at = "patch" => table_closure' = table_closure)
  BY <1>1, <1>6 DEF PatchDraft, Upstream, Downstream
<1>7. \/ hook' = hook \/ hook' = NoHook \/ (\E s \in Sqls : StartHook(s))
      \/ ReplaceEdges \/ FoldTask \/ ReadRegion
  BY DEF Next, vars, StartFull, FullStep, ReadJobs, DropShadow, CreateShadow, CopyKept,
         BulkInsert, FoldShadow, CheckEdges, DropEdgePrev, RenameEdges, DropClosureShadow,
         CreateClosureShadow, LoadClosureShadow, CheckClosure, DropClosurePrev, RenameClosure,
         FinishFull, StatementFails, ErrorInFull, CrashFull, UpsertSql, HookStep,
         PatchClosure, BreakHook, ManualLineage
<1>8. table_closure' = table_closure \/ hook' = NoHook \/ hook.at # "patch"
  BY DEF Next, vars, StartFull, FullStep, ReadJobs, DropShadow, CreateShadow, CopyKept,
         BulkInsert, FoldShadow, CheckEdges, DropEdgePrev, RenameEdges, DropClosureShadow,
         CreateClosureShadow, LoadClosureShadow, CheckClosure, DropClosurePrev, RenameClosure,
         FinishFull, StatementFails, ErrorInFull, CrashFull, UpsertSql, StartHook, HookStep,
         ReplaceEdges, FoldTask, ReadRegion, PatchClosure, BreakHook, ManualLineage,
         closureTables, HookReading
<1> QED BY <1>2, <1>3, <1>4, <1>5, <1>6, <1>7, <1>8

LEMMA DraftsKept ==
  ASSUME RInv, TypeInv, ByHand = {}, DrawingsLast, [Next]_vars
  PROVE  RInv'
<1>1. EdgeDraft'
  <2>1. ASSUME NEW r \in Rebuilds, StartFull(r) \/ FullStep(r) \/ ErrorInFull(r) \/ CrashFull(r)
        PROVE  EdgeDraft'
    <3>1. r = Cron
      BY DEF Rebuilds
    <3> QED BY <2>1, <3>1, EdgeDraftFull
  <2> QED BY <2>1, EdgeDraftBeside DEF Next
<1> QED BY <1>1, JobsFitKept, ClosureDraftKept, PatchDraftKept DEF RInv

LEMMA InitDrafts == ASSUME DrawingsLast PROVE Init => RInv /\ Store!StoreInit
<1> SUFFICES ASSUME Init PROVE RInv /\ Store!StoreInit
  OBVIOUS
<1> DEFINE R == [s \in Sqls |-> Reads[sql_repository[s].text]]
           E == UNION { SqlEdges(s, R[s]) : s \in Active }
<1>1. RepositoryOK
  BY InitTyped DEF TypeInv
<1>2. \A s \in Active : SqlEdges(s, R[s]) \in TextEdges[s]
  BY <1>1, ActiveSqls DEF RepositoryOK, TextEdges
<1>3. lineage_edge = FoldTmpEdges(E \cup {}, AnySql, TRUE)
  BY DEF Init, Built
<1> HIDE DEF R
<1>4. lineage_edge \in Store!Builds
  <2>1. {} \in SUBSET Drawable
    OBVIOUS
  <2>2. FoldTmpEdges((UNION { SqlEdges(s, R[s]) : s \in Active }) \cup {}, AnySql, TRUE)
          \in Store!Builds
    BY <1>2, <2>1, InBuilds
  <2> QED BY <1>3, <2>2
<1> HIDE DEF E
<1>5. DrawnFrom(lineage_edge)
  BY <1>4, BuildsDrawn
<1>6. pc[Cron] = "idle" /\ hook = NoHook
  BY CronRebuilds DEF Init
<1>7. RInv
  BY <1>5, <1>6 DEF RInv, JobsFit, HasReadTexts, EdgeDraft, ClosureDraft, PatchDraft, NoHook
<1>8. Store!StoreInit
  BY <1>4, <1>6, StoreClosure DEF Init, Store!StoreInit, Preparing
<1> QED BY <1>7, <1>8

-----------------------------------------------------------------------------
(* Each step of the pipeline as a step of the store. *)
Draft == IF Preparing THEN found[Cron] ELSE NoTable
StoreStutters == UNCHANGED <<lineage_edge, table_closure, Draft>>

LEMMA FullStores ==
  ASSUME RInv, TypeInv,
         StartFull(Cron) \/ FullStep(Cron) \/ ErrorInFull(Cron) \/ CrashFull(Cron)
  PROVE  Store!StoreNext \/ StoreStutters
<1> USE CronRebuilds DEF Goto
<1>1. /\ pc \in [Rebuilds -> Steps] /\ DOMAIN found = Rebuilds
      /\ found[Cron] \subseteq Tables \X Tables
  BY DEF TypeInv, RebuildsOK
<1>2. CASE RenameEdges(Cron)
  <2>1. /\ pc[Cron] = "renameEdges" /\ pc'[Cron] = "closure"
        /\ lineage_edge' = lineage_edge_shadow /\ table_closure' = table_closure
    BY <1>1, <1>2 DEF RenameEdges, closureTables
  <2>2. lineage_edge' \in Store!Builds
    BY <2>1 DEF RInv, EdgeDraft
  <2>3. Draft' = Draft
    BY <2>1 DEF Draft, Preparing
  <2>4. Store!Publish
    BY <2>1, <2>2, <2>3 DEF Store!Publish, Draft
  <2> QED BY <2>4 DEF Store!StoreNext
<1>3. CASE DropClosureShadow(Cron)
  <2>1. /\ pc'[Cron] = "createClosure" /\ found'[Cron] = ClosureOf(lineage_edge)
        /\ UNCHANGED <<lineage_edge, table_closure>>
    BY <1>1, <1>3 DEF DropClosureShadow, edgeTables
  <2>2. Store!PrepareClosure
    BY <2>1, StoreClosure DEF Store!PrepareClosure, Preparing
  <2> QED BY <2>2 DEF Store!StoreNext
<1>4. CASE RenameClosure(Cron)
  <2>1. /\ pc[Cron] = "renameClosure" /\ pc'[Cron] = "finish"
        /\ table_closure' = table_closure_shadow /\ lineage_edge' = lineage_edge
    BY <1>1, <1>4 DEF RenameClosure, edgeTables
  <2>2. table_closure' = found[Cron]
    BY <2>1 DEF RInv, ClosureDraft
  <2>3. found[Cron] # NoTable
    BY <1>1, PipelineAssumption
  <2>4. Store!PublishClosure
    BY <2>1, <2>2, <2>3 DEF Store!PublishClosure, Preparing
  <2> QED BY <2>4 DEF Store!StoreNext
<1>5. CASE ErrorInFull(Cron) \/ CrashFull(Cron)
  <2>1. pc'[Cron] = "idle" /\ UNCHANGED <<lineage_edge, table_closure>>
    BY <1>1, <1>5 DEF ErrorInFull, CrashFull, edgeTables, closureTables
  <2>2. Store!GiveUpClosure
    BY <2>1 DEF Store!GiveUpClosure, Preparing
  <2> QED BY <2>2 DEF Store!StoreNext
<1>6. CASE StatementFails(Cron) \/ (CheckClosure(Cron) /\ pc'[Cron] = "idle")
  <2>1. pc'[Cron] = "idle" /\ UNCHANGED <<lineage_edge, table_closure>>
    BY <1>1, <1>6 DEF StatementFails, CheckClosure, edgeTables, closureTables
  <2>2. Store!GiveUpClosure
    BY <2>1 DEF Store!GiveUpClosure, Preparing
  <2> QED BY <2>2 DEF Store!StoreNext
<1>7. CASE \/ CreateClosureShadow(Cron) \/ LoadClosureShadow(Cron) \/ DropClosurePrev(Cron)
           \/ (CheckClosure(Cron) /\ pc'[Cron] # "idle")
  <2>1. /\ UNCHANGED <<lineage_edge, table_closure, found>>
        /\ pc[Cron] \in {"createClosure", "loadClosure", "checkClosure", "dropClosurePrev"}
        /\ pc'[Cron] \in {"loadClosure", "checkClosure", "dropClosurePrev", "renameClosure"}
    BY <1>1, <1>7 DEF CreateClosureShadow, LoadClosureShadow, DropClosurePrev, CheckClosure,
         edgeTables, closureTables
  <2> QED BY <2>1 DEF StoreStutters, Draft, Preparing
<1>8. CASE \/ StartFull(Cron) \/ ReadJobs(Cron) \/ DropShadow(Cron) \/ CreateShadow(Cron)
           \/ CopyKept(Cron) \/ BulkInsert(Cron) \/ FoldShadow(Cron) \/ CheckEdges(Cron)
           \/ DropEdgePrev(Cron) \/ FinishFull(Cron)
  <2>1. UNCHANGED <<lineage_edge, table_closure>>
    BY <1>8 DEF StartFull, ReadJobs, DropShadow, CreateShadow, CopyKept, BulkInsert, FoldShadow,
         CheckEdges, DropEdgePrev, FinishFull, edgeTables, closureTables
  <2>2. ~Preparing /\ ~Preparing'
    BY <1>1, <1>8 DEF StartFull, ReadJobs, DropShadow, CreateShadow, CopyKept, BulkInsert,
       FoldShadow, CheckEdges, DropEdgePrev, FinishFull, Preparing
  <2> QED BY <2>1, <2>2 DEF StoreStutters, Draft
<1> HIDE DEF Goto
<1> QED BY <1>2, <1>3, <1>4, <1>5, <1>6, <1>7, <1>8 DEF FullStep

(* A fold is the store's, of some statements. *)
LEMMA FoldStores ==
  ASSUME UNCHANGED <<table_closure, pc, found>>, NEW s,
         \/ lineage_edge' = FoldTmpEdges(lineage_edge, TaskSqls(s), FALSE)
         \/ lineage_edge' = InsertSynthetic(lineage_edge, TaskSqls(s))
  PROVE  Store!StoreNext
<1>1. Store!AnySql = AnySql
  BY DEF Store!AnySql, AnySql
<1>2. TaskSqls(s) \in SUBSET Store!AnySql /\ UNCHANGED <<table_closure, Draft>>
  BY <1>1, ActiveSqls DEF TaskSqls, AnySql, Draft, Preparing
<1>3. Store!FoldSome
  BY <1>2, StoreFold DEF Store!FoldSome, Draft
<1> QED BY <1>3 DEF Store!StoreNext

(* A patch, whole or broken off, leaves every pair beside its rectangle.   *)
LEMMA PatchStores ==
  ASSUME RInv, TypeInv, UNCHANGED <<lineage_edge, pc, found>>, hook.at # "idle",
         NEW A \in SUBSET hook.anc, NEW Q \in SUBSET hook.pairs,
         table_closure' = (table_closure \ (A \X hook.desc)) \cup Q
  PROVE  Store!StoreNext \/ StoreStutters
<1>1. UNCHANGED <<lineage_edge, Draft>>
  BY DEF Draft, Preparing
<1>2. CASE hook.at # "patch"
  <2>1. A = {} /\ Q = {}
    BY <1>2 DEF RInv, PatchDraft
  <2>2. A \X hook.desc = {}
    BY <2>1
  <2>3. table_closure' = table_closure
    BY <2>1, <2>2
  <2> QED BY <1>1, <2>3 DEF StoreStutters
<1>3. CASE hook.at = "patch"
  <2> DEFINE t == Writes[hook.sql]
             B == Upstream(t) \X Downstream(t)
  <2>1. /\ hook.anc = Upstream(t) /\ hook.desc = Downstream(t)
        /\ hook.pairs \subseteq hook.anc \X hook.desc
    BY <1>3 DEF RInv, PatchDraft
  <2>2. A \X hook.desc \subseteq B /\ Q \subseteq B
    BY <2>1
  <2>3. t \in Tables
    BY PipelineAssumption DEF TypeInv, HookOK
  <2>4. table_closure' \ B = table_closure \ B
    <3> HIDE DEF B
    <3> QED BY <2>2
  <2>5. Store!PatchClosure(t)
    BY <1>1, <2>4 DEF Store!PatchClosure, Upstream, Downstream, Draft
  <2> QED BY <2>3, <2>5 DEF Store!StoreNext
<1> QED BY <1>2, <1>3

LEMMA BesideStores ==
  ASSUME RInv, TypeInv,
         \/ HookStep \/ BreakHook \/ UNCHANGED vars
         \/ \E s \in Sqls : StartHook(s) \/ \E v \in Versions[s] : UpsertSql(s, v)
         \/ \E w \in Drawings : ManualLineage(w)
  PROVE  Store!StoreNext \/ StoreStutters
<1>1. UNCHANGED <<pc, found>> /\ Draft' = Draft
  BY DEF HookStep, ReplaceEdges, FoldTask, ReadRegion, PatchClosure, BreakHook, StartHook,
         UpsertSql, ManualLineage, vars, Draft, Preparing
<1>2. CASE UNCHANGED <<lineage_edge, table_closure>>
  BY <1>1, <1>2 DEF StoreStutters
<1>3. CASE ReplaceEdges
  <2> DEFINE s == hook.sql
             N == SqlEdges(s, Reads[hook.text])
  <2>1. s \in Sqls /\ hook.text \in Versions[s]
    BY <1>3 DEF ReplaceEdges, TypeInv, HookOK
  <2>2. N \in TextEdges[s]
    BY <2>1 DEF TextEdges
  <2>3. /\ lineage_edge' = { e \in lineage_edge : ~(e.sql = s /\ e.type = "sql") } \cup N
        /\ table_closure' = table_closure
    BY <1>3 DEF ReplaceEdges, Parsed, closureTables
  <2> HIDE DEF N
  <2>4. Store!Reparse(s)
    BY <1>1, <2>2, <2>3 DEF Store!Reparse, Draft
  <2> QED BY <2>1, <2>4 DEF Store!StoreNext
<1>4. CASE FoldTask
  <2>1. /\ lineage_edge' = FoldTmpEdges(lineage_edge, TaskSqls(hook.sql), FALSE)
        /\ table_closure' = table_closure
    BY <1>4 DEF FoldTask, closureTables
  <2> QED BY <1>1, <2>1, FoldStores
<1>5. CASE PatchClosure
  <2>1. /\ hook.at # "idle" /\ lineage_edge' = lineage_edge
        /\ table_closure' = (table_closure \ (hook.anc \X hook.desc)) \cup hook.pairs
    BY <1>5 DEF PatchClosure, edgeTables
  <2> QED BY <1>1, <2>1, PatchStores
<1>6. CASE BreakHook
  <2>1. CASE lineage_edge' = lineage_edge
    <3>1. CASE table_closure' = table_closure
      BY <1>2, <2>1, <3>1
    <3>2. CASE \E A \in SUBSET hook.anc, Q \in SUBSET hook.pairs :
                 table_closure' = (table_closure \ (A \X hook.desc)) \cup Q
      BY <1>1, <1>6, <2>1, <3>2, PatchStores DEF BreakHook
    <3> QED BY <1>6, <3>1, <3>2 DEF BreakHook
  <2>2. CASE /\ lineage_edge' = InsertSynthetic(lineage_edge, TaskSqls(hook.sql))
             /\ table_closure' = table_closure
    <3> HIDE DEF StoreStutters
    <3> QED BY <1>1, <2>2, FoldStores
  <2> QED BY <1>6, <2>1, <2>2 DEF BreakHook
<1>7. ASSUME NEW w \in Drawings, ManualLineage(w) PROVE Store!StoreNext
  <2>1. /\ lineage_edge' = (lineage_edge \ DrawnTo(lineage_edge, w.dst)) \cup DrawnBy(w)
        /\ table_closure' = table_closure
    BY <1>7 DEF ManualLineage, closureTables
  <2>2. DrawnBy(w) \in SUBSET { e \in Drawable : e.dst = w.dst }
    BY DEF DrawnBy, Drawable
  <2>3. lineage_edge \ DrawnTo(lineage_edge, w.dst)
          = { e \in lineage_edge : ~(e.dst = w.dst /\ e.type = "manual") }
    BY DEF DrawnTo
  <2>4. Store!Draw(w.dst)
    BY <1>1, <2>1, <2>2, <2>3 DEF Store!Draw, Draft
  <2>5. w.dst \in Tables
    BY PipelineAssumption
  <2> QED BY <2>4, <2>5 DEF Store!StoreNext
<1>8. CASE \/ ReadRegion \/ UNCHANGED vars
           \/ \E s \in Sqls : StartHook(s) \/ \E v \in Versions[s] : UpsertSql(s, v)
  <2>1. UNCHANGED <<lineage_edge, table_closure>>
    BY <1>8 DEF ReadRegion, StartHook, UpsertSql, vars, edgeTables, closureTables
  <2> QED BY <1>2, <2>1
<1> QED BY <1>3, <1>4, <1>5, <1>6, <1>7, <1>8 DEF HookStep

(* Readers of lineage_edge and table_closure are served whole graphs: the  *)
(* rebuild (rebuild.full_rebuild, swap_shadow), the incremental run        *)
(* (rebuild.incremental) and the portal's drawings implement LineageStore, *)
(* with cron alone starting rebuilds and no drawing at a tmp table.        *)
THEOREM WholeGraphsServed ==
  ASSUME ByHand = {}, DrawingsLast
  PROVE  Spec => ServesWholeGraphs
<1>1. Init => RInv /\ Store!StoreInit
  BY InitDrafts
<1>2. RInv /\ TypeInv /\ [Next]_vars => RInv'
  BY DraftsKept
<1>3. RInv /\ TypeInv /\ [Next]_vars => [Store!StoreNext]_(Store!storeVars)
  <2> SUFFICES ASSUME RInv, TypeInv, [Next]_vars
               PROVE  Store!StoreNext \/ UNCHANGED Store!storeVars
    OBVIOUS
  <2>1. StoreStutters => UNCHANGED Store!storeVars
    BY DEF StoreStutters, Store!storeVars, Draft
  <2>2. ASSUME NEW r \in Rebuilds, StartFull(r) \/ FullStep(r) \/ ErrorInFull(r) \/ CrashFull(r)
        PROVE  Store!StoreNext \/ StoreStutters
    <3>1. r = Cron
      BY DEF Rebuilds
    <3> QED BY <2>2, <3>1, FullStores
  <2>3. Store!StoreNext \/ StoreStutters
    BY <2>2, BesideStores DEF Next
  <2> QED BY <2>1, <2>3
<1> QED
  BY PipelineInv, <1>1, <1>2, <1>3, PTL DEF Spec, ServesWholeGraphs, Store!StoreSpec
=============================================================================
