---------------------------- MODULE ServicesProofs --------------------------
(***************************************************************************)
(* What the services that answer people promise.                           *)
(*                                                                         *)
(* First the MCP server (LineageServer): for every graph, every question,  *)
(* every number of calls and of publications, its answers say of the       *)
(* lineage what the edges and the closure say.                             *)
(*                                                                         *)
(* Then the portal (PortalChat): for any number of chats and writes, any   *)
(* pool, any bound on the rounds and any failures, connections come back,  *)
(* and the audit row of a chat names every call it made.                   *)
(***************************************************************************)
EXTENDS LineageServer, PortalChat, TableGraphProofs, SequenceTheorems, FiniteSetTheorems, TLAPS

-----------------------------------------------------------------------------
(* LineageServer: the answers of get_lineage.                              *)

(* The edges as a question follows them, and the tables at a distance.     *)
Follow(q, E) == IF q.direction = "upstream" THEN Turned(E) ELSE E
At(q, E, t, h) == Far(Tables, Follow(q, E), q.table, t, h)

(* The hops of the first n levels. *)
HopsWithin(q, E, n) ==
  { k \in Nat \X Tables \X Tables :
      k[1] >= 1 /\ k[1] <= n /\ <<k[2], k[3]>> \in Follow(q, E) /\ At(q, E, k[2], k[1] - 1) }

(* hops with the tables seen, cut at MaxNodes. *)
Short(q, hops, E) ==
  LET all == HopsWithin(q, E, Depth(q))
  IN  /\ hops \subseteq all /\ hops # all
      /\ Cardinality({q.table} \cup { h[3] : h \in hops }) = MaxNodes
      /\ \A h \in all \ hops, k \in hops : h[1] >= k[1]

LevelRecords == [store : BOOLEAN, visited : SUBSET Tables, frontier : SUBSET Tables,
                 hops : SUBSET (Nat \X Tables \X Tables), level : Nat, truncated : BOOLEAN]

(* What the loop of get_lineage has found when l.level begins.             *)
LevelsDone(q, l, E) ==
  /\ l.level >= 1 /\ (l.level = 1 \/ l.level <= Depth(q) + 1)
  /\ l.visited = {q.table} \cup { k[3] : k \in l.hops }
  /\ l.truncated => Short(q, l.hops, E)
  /\ ~l.truncated =>
       /\ l.hops = HopsWithin(q, E, l.level - 1)
       /\ l.frontier = { t \in Tables : At(q, E, t, l.level - 1) }
       /\ l.visited = { t \in Tables : \E h \in 0..(l.level - 1) : At(q, E, t, h) }
       /\ Cardinality(l.visited) <= MaxNodes

GoodLineage(q, a, E) ==
  \/ "error" \in DOMAIN a /\ q.table \notin Tables
  \/ q.table \in Tables /\ ~a.truncated /\ a.hops = HopsWithin(q, E, Depth(q))
  \/ q.table \in Tables /\ a.truncated /\ Short(q, a.hops, E)

-----------------------------------------------------------------------------
LEMMA FollowTyped ==
  ASSUME NEW q, NEW E \in SUBSET (Tables \X Tables)
  PROVE  Follow(q, E) \in SUBSET (Tables \X Tables)
BY DEF Follow, Turned

LEMMA DepthTyped ==
  ASSUME NEW q \in LineageQueries
  PROVE  Depth(q) \in Int
BY ServerAssumption DEF Depth, LineageQueries

LEMMA LevelsBegin ==
  ASSUME NEW q \in LineageQueries, q.table \in Tables, NEW E \in SUBSET (Tables \X Tables),
         NEW l \in LevelRecords, l.visited = {q.table}, l.frontier = {q.table},
         l.hops = {}, l.level = 1, ~l.truncated
  PROVE  LevelsDone(q, l, E)
<1>1. \A t : At(q, E, t, 0) <=> t = q.table
  BY FarStart DEF At
<1>2. l.level - 1 = 0
  OBVIOUS
<1>3. HopsWithin(q, E, 0) = {}
  BY DEF HopsWithin
<1>4. l.frontier = { t \in Tables : At(q, E, t, 0) }
  BY <1>1
<1>5. l.visited = { t \in Tables : \E h \in 0..0 : At(q, E, t, h) }
  BY <1>1
<1>6. Cardinality(l.visited) <= MaxNodes
  <2>1. Cardinality({q.table}) = 1
    BY FS_Singleton
  <2>2. MaxNodes \in Nat /\ 1 <= MaxNodes
    BY ServerAssumption
  <2> QED BY <2>1, <2>2
<1>7. l.visited = {q.table} \cup { k[3] : k \in l.hops }
  OBVIOUS
<1> QED BY <1>2, <1>3, <1>4, <1>5, <1>6, <1>7 DEF LevelsDone

(* One more level of the loop. *)
LEMMA LevelsGrow ==
  ASSUME NEW q \in LineageQueries, q.table \in Tables, NEW E \in SUBSET (Tables \X Tables),
         NEW l \in LevelRecords, LevelsDone(q, l, E), l.level <= Depth(q),
         NEW rows, rows = { e \in Follow(q, E) : e[1] \in l.frontier },
         NEW T \in Taken(rows, l.visited),
         NEW m \in LevelRecords,
         m.visited = l.visited \cup Nexts(T), m.frontier = Nexts(T) \ l.visited,
         m.hops = l.hops \cup { <<l.level, e[1], e[2]>> : e \in T },
         m.level = l.level + 1, m.truncated <=> (l.truncated \/ T # rows)
  PROVE  LevelsDone(q, m, E)
<1> DEFINE n == l.level
           F == Follow(q, E)
           all == HopsWithin(q, E, Depth(q))
<1>1. /\ n \in Nat /\ n >= 1 /\ Depth(q) \in Int /\ m.level - 1 = n /\ n - 1 \in Nat
      /\ (n - 1) + 1 = n
  BY DepthTyped DEF LevelsDone, LevelRecords
<1>2. F \in SUBSET (Tables \X Tables)
  BY FollowTyped
<1>3. /\ T \in SUBSET rows /\ rows \subseteq F
      /\ \A e \in F : e = <<e[1], e[2]>> /\ e[1] \in Tables /\ e[2] \in Tables
  BY <1>2 DEF Taken
<1>4. m.visited = {q.table} \cup { k[3] : k \in m.hops }
  <2>1. { k[3] : k \in m.hops } = { k[3] : k \in l.hops } \cup Nexts(T)
    <3>1. \A e : <<n, e[1], e[2]>>[3] = e[2]
      OBVIOUS
    <3>2. ASSUME NEW x \in { k[3] : k \in m.hops }
          PROVE  x \in { k[3] : k \in l.hops } \cup Nexts(T)
      BY <3>1 DEF Nexts
    <3>3. ASSUME NEW x \in { k[3] : k \in l.hops } PROVE x \in { k[3] : k \in m.hops }
      OBVIOUS
    <3>4. ASSUME NEW x \in Nexts(T) PROVE x \in { k[3] : k \in m.hops }
      <4>1. PICK e \in T : x = e[2]
        BY DEF Nexts
      <4>2. <<n, e[1], e[2]>> \in m.hops
        OBVIOUS
      <4> QED BY <3>1, <4>1, <4>2
    <3> QED BY <3>2, <3>3, <3>4
  <2> QED BY <2>1 DEF LevelsDone
<1>5. m.level >= 1 /\ m.level <= Depth(q) + 1
  BY <1>1
<1> MaxNodes \in Nat
  BY ServerAssumption
<1>6. IsFiniteSet(l.visited) /\ \A S \in SUBSET Tables : IsFiniteSet(S)
  BY ServerAssumption, FS_Subset DEF LevelRecords
<1>7. \A S \in SUBSET T : (l.visited \cup Nexts(S)) \in SUBSET Tables
  BY <1>3 DEF LevelRecords, Nexts
<1>8. CASE l.truncated
  <2>1. Cardinality(l.visited) = MaxNodes
    BY <1>8 DEF LevelsDone, Short
  <2>2. T = {}
    <3> SUFFICES ASSUME T # {} PROVE FALSE
      OBVIOUS
    <3>1. PICK last \in T : Cardinality(l.visited \cup Nexts(T \ {last})) < MaxNodes
      BY DEF Taken
    <3> DEFINE V == l.visited \cup Nexts(T \ {last})
    <3>2. IsFiniteSet(V) /\ l.visited \subseteq V
      BY <1>6, <1>7
    <3>3. Cardinality(l.visited) <= Cardinality(V) /\ Cardinality(V) \in Nat
      BY <3>2, FS_Subset, FS_CardinalityType
    <3> QED BY <2>1, <3>1, <3>3, ServerAssumption
  <2>3. m.hops = l.hops /\ m.truncated
    BY <1>8, <2>2
  <2>4. Short(q, m.hops, E)
    BY <1>8, <2>3 DEF LevelsDone
  <2> QED BY <1>4, <1>5, <2>3, <2>4 DEF LevelsDone
<1>9. CASE ~l.truncated
  <2>1. /\ l.hops = HopsWithin(q, E, n - 1)
        /\ l.frontier = { t \in Tables : At(q, E, t, n - 1) }
        /\ l.visited = { t \in Tables : \E h \in 0..(n - 1) : At(q, E, t, h) }
        /\ Cardinality(l.visited) <= MaxNodes
    BY <1>9 DEF LevelsDone
  <2>2. \A e \in rows : <<n, e[1], e[2]>> \in HopsWithin(q, E, n)
    BY <1>1, <1>3, <2>1 DEF HopsWithin
  <2>3. \A k \in HopsWithin(q, E, n) : k[1] <= n - 1 => k \in l.hops
    BY <1>1, <2>1 DEF HopsWithin
  <2>4. \A k \in HopsWithin(q, E, n) :
          ~(k[1] <= n - 1) => \E e \in rows : k = <<n, e[1], e[2]>>
    <3> SUFFICES ASSUME NEW k \in HopsWithin(q, E, n), ~(k[1] <= n - 1)
                 PROVE  \E e \in rows : k = <<n, e[1], e[2]>>
      OBVIOUS
    <3>1. k \in Nat \X Tables \X Tables /\ k[1] = n
      BY <1>1 DEF HopsWithin
    <3>2. k = <<k[1], k[2], k[3]>>
      BY <3>1
    <3> DEFINE e == <<k[2], k[3]>>
    <3>3. e \in F /\ k[2] \in l.frontier
      BY <2>1, <3>1 DEF HopsWithin
    <3>4. e[1] = k[2] /\ e[2] = k[3]
      OBVIOUS
    <3> HIDE DEF e
    <3>5. e \in rows
      BY <3>3, <3>4
    <3> QED BY <3>1, <3>2, <3>4, <3>5
  <2>5. HopsWithin(q, E, n - 1) \subseteq HopsWithin(q, E, n)
    BY <1>1 DEF HopsWithin
  <2>6. HopsWithin(q, E, n) \subseteq all
    BY <1>1 DEF HopsWithin
  <2>7. T # {} => Cardinality(m.visited) <= MaxNodes
    <3> SUFFICES ASSUME T # {} PROVE Cardinality(m.visited) <= MaxNodes
      OBVIOUS
    <3>1. PICK last \in T : Cardinality(l.visited \cup Nexts(T \ {last})) < MaxNodes
      BY DEF Taken
    <3> DEFINE V == l.visited \cup Nexts(T \ {last})
    <3>2. IsFiniteSet(V) /\ Cardinality(V) \in Nat
      BY <1>6, <1>7, FS_CardinalityType
    <3>3. m.visited = V \cup {last[2]}
      <4>1. Nexts(T) = Nexts(T \ {last}) \cup {last[2]}
        BY <3>1 DEF Nexts
      <4> QED BY <4>1
    <3>4. Cardinality(m.visited) <= Cardinality(V) + 1
      <4> HIDE DEF V
      <4>1. CASE last[2] \in V
        <5>1. m.visited = V
          BY <3>3, <4>1
        <5>2. Cardinality(m.visited) = Cardinality(V)
          BY <5>1, Zenon
        <5> QED BY <3>2, <5>2
      <4>2. CASE last[2] \notin V
        <5>1. Cardinality(V \cup {last[2]}) = Cardinality(V) + 1
          BY <3>2, <4>2, FS_AddElement
        <5>2. Cardinality(m.visited) = Cardinality(V \cup {last[2]})
          BY <3>3, Zenon
        <5> QED BY <3>2, <5>1, <5>2
      <4> QED BY <4>1, <4>2
    <3>5. Cardinality(m.visited) \in Nat
      <4>1. m.visited \in SUBSET Tables
        BY DEF LevelRecords
      <4> QED BY <1>6, <4>1, FS_CardinalityType
    <3> HIDE DEF V
    <3> QED BY <3>1, <3>2, <3>4, <3>5, ServerAssumption DEF V
  <2>8. CASE T = rows
    <3>1. ~m.truncated
      BY <1>9, <2>8
    <3>2. m.hops = HopsWithin(q, E, n)
      BY <2>1, <2>2, <2>3, <2>4, <2>5, <2>8
    <3>3. ASSUME NEW t \in Tables PROVE t \in m.frontier <=> At(q, E, t, n)
      <4>1. At(q, E, t, (n - 1) + 1)
              <=> /\ \E s \in Tables : At(q, E, s, n - 1) /\ <<s, t>> \in F
                  /\ \A k \in 0..(n - 1) : ~At(q, E, t, k)
        <5> DEFINE p == n - 1
        <5>1. p \in Nat
          BY <1>1
        <5> HIDE DEF p
        <5>2. At(q, E, t, p + 1)
                <=> /\ \E s \in Tables : At(q, E, s, p) /\ <<s, t>> \in F
                    /\ \A k \in 0..p : ~At(q, E, t, k)
          BY <1>2, <5>1, FarNext DEF At
        <5> QED BY <5>2 DEF p
      <4>2. (\E s \in Tables : At(q, E, s, n - 1) /\ <<s, t>> \in F) <=> t \in Nexts(rows)
        <5>1. ASSUME NEW s \in Tables, At(q, E, s, n - 1), <<s, t>> \in F PROVE t \in Nexts(rows)
          <6>1. <<s, t>> \in rows /\ <<s, t>>[2] = t
            BY <2>1, <5>1
          <6> QED BY <6>1 DEF Nexts
        <5>2. ASSUME t \in Nexts(rows)
              PROVE  \E s \in Tables : At(q, E, s, n - 1) /\ <<s, t>> \in F
          <6>1. PICK e \in rows : t = e[2]
            BY <5>2 DEF Nexts
          <6>2. e = <<e[1], t>> /\ e[1] \in Tables /\ At(q, E, e[1], n - 1) /\ e \in F
            BY <1>3, <2>1, <6>1
          <6> QED BY <6>2
        <5> QED BY <5>1, <5>2
      <4>3. t \in l.visited <=> \E k \in 0..(n - 1) : At(q, E, t, k)
        BY <2>1
      <4> QED BY <1>1, <2>8, <4>1, <4>2, <4>3
    <3>4. m.frontier = { t \in Tables : At(q, E, t, n) }
      <4>1. m.frontier \subseteq Tables
        BY DEF LevelRecords
      <4> QED BY <3>3, <4>1
    <3>5. m.visited = { t \in Tables : \E h \in 0..n : At(q, E, t, h) }
      <4>1. m.visited = l.visited \cup m.frontier
        OBVIOUS
      <4>2. \A h : h \in 0..n <=> h \in 0..(n - 1) \/ h = n
        BY <1>1
      <4> QED BY <2>1, <3>4, <4>1, <4>2
    <3>6. Cardinality(m.visited) <= MaxNodes
      <4>1. CASE T = {}
        <5>1. m.visited = l.visited
          BY <4>1 DEF Nexts
        <5> QED BY <2>1, <5>1
      <4> QED BY <2>7, <4>1
    <3>7. m.level - 1 = n /\ m.level >= 1 /\ (m.level = 1 \/ m.level <= Depth(q) + 1)
      BY <1>1, <1>5
    <3> HIDE DEF n
    <3> QED BY <1>4, <3>1, <3>2, <3>4, <3>5, <3>6, <3>7 DEF LevelsDone
  <2>9. CASE T # rows
    <3>1. m.truncated
      BY <2>9
    <3>2. m.hops \subseteq HopsWithin(q, E, n)
      BY <1>3, <2>1, <2>2, <2>5
    <3>3. m.hops # all
      <4>1. PICK e \in rows : e \notin T
        BY <1>3, <2>9
      <4> DEFINE k == <<n, e[1], e[2]>>
      <4>2. k \in all
        BY <2>2, <2>6
      <4>3. k \notin l.hops
        <5>1. k[1] = n
          OBVIOUS
        <5> QED BY <1>1, <2>1, <5>1 DEF HopsWithin
      <4>4. \A x \in T : k # <<n, x[1], x[2]>>
        BY <1>3, <4>1
      <4> QED BY <4>2, <4>3, <4>4
    <3>4. ASSUME NEW h \in all \ m.hops, NEW k \in m.hops PROVE h[1] >= k[1]
      <4>1. k[1] \in Nat /\ k[1] <= n
        BY <3>2 DEF HopsWithin
      <4>2. h[1] \in Nat /\ h \in all
        BY DEF HopsWithin
      <4>3. ~(h[1] <= n - 1)
        <5> SUFFICES ASSUME h[1] <= n - 1 PROVE FALSE
          OBVIOUS
        <5>1. h \in HopsWithin(q, E, n)
          BY <1>1, <4>2 DEF HopsWithin
        <5> QED BY <2>3, <5>1
      <4> QED BY <1>1, <4>1, <4>2, <4>3
    <3>5. Cardinality(m.visited) = MaxNodes
      <4>1. Cardinality(l.visited \cup Nexts(T)) >= MaxNodes
        BY <2>9 DEF Taken
      <4>2. CASE T = {}
        <5>1. m.visited = l.visited
          BY <4>2 DEF Nexts
        <5>2. Cardinality(l.visited) \in Nat
          BY <1>6, FS_CardinalityType
        <5>3. Cardinality(m.visited) = Cardinality(l.visited)
          BY <5>1, Zenon
        <5>4. Cardinality(m.visited) >= MaxNodes
          BY <4>1
        <5> QED BY <2>1, <5>2, <5>3, <5>4
      <4>3. CASE T # {}
        <5>1. Cardinality(m.visited) \in Nat
          <6>1. m.visited \in SUBSET Tables
            BY DEF LevelRecords
          <6> QED BY <1>6, <6>1, FS_CardinalityType
        <5> QED BY <2>7, <4>1, <4>3, <5>1, ServerAssumption
      <4> QED BY <4>2, <4>3
    <3>6. Short(q, m.hops, E)
      BY <1>4, <2>6, <3>2, <3>3, <3>4, <3>5 DEF Short
    <3> QED BY <1>4, <1>5, <3>1, <3>6 DEF LevelsDone
  <2> QED BY <2>8, <2>9
<1> QED BY <1>8, <1>9

(* Whatever ends the loop, its answer is as good as promised.              *)
LEMMA LevelsEnd ==
  ASSUME NEW q \in LineageQueries, q.table \in Tables, NEW E \in SUBSET (Tables \X Tables),
         NEW l \in LevelRecords, LevelsDone(q, l, E),
         l.frontier = {} \/ l.level > Depth(q)
  PROVE  GoodLineage(q, [kind |-> "lineage", hops |-> l.hops, truncated |-> l.truncated], E)
<1> DEFINE n == l.level
           a == [kind |-> "lineage", hops |-> l.hops, truncated |-> l.truncated]
<1>1. n \in Nat /\ n >= 1 /\ Depth(q) \in Int /\ (n = 1 \/ n <= Depth(q) + 1)
  BY DepthTyped DEF LevelsDone, LevelRecords
<1>2. a.hops = l.hops /\ (a.truncated <=> l.truncated)
  OBVIOUS
<1>3. CASE l.truncated
  BY <1>2, <1>3 DEF GoodLineage, LevelsDone
<1>4. CASE ~l.truncated
  <2>1. /\ l.hops = HopsWithin(q, E, n - 1)
        /\ l.frontier = { t \in Tables : At(q, E, t, n - 1) }
    BY <1>4 DEF LevelsDone
  <2>2. HopsWithin(q, E, n - 1) \subseteq HopsWithin(q, E, Depth(q))
    BY <1>1 DEF HopsWithin
  <2>3. ASSUME NEW k \in HopsWithin(q, E, Depth(q)) PROVE k \in HopsWithin(q, E, n - 1)
    <3>1. /\ k \in Nat \X Tables \X Tables /\ k[1] >= 1 /\ k[1] <= Depth(q)
          /\ k[2] \in Tables /\ k[1] \in Nat
          /\ <<k[2], k[3]>> \in Follow(q, E) /\ At(q, E, k[2], k[1] - 1)
      BY DEF HopsWithin
    <3>2. k[1] <= n - 1
      <4> SUFFICES ASSUME k[1] >= n PROVE FALSE
        BY <1>1, <3>1
      <4>1. l.frontier = {}
        BY <1>1, <3>1
      <4>2. k[1] - 1 \in Nat /\ n - 1 \in 0..(k[1] - 1)
        BY <1>1, <3>1
      <4>3. Follow(q, E) \in SUBSET (Tables \X Tables)
        BY FollowTyped
      <4>4. \E s : Far(Tables, Follow(q, E), q.table, s, n - 1)
        BY <3>1, <4>2, <4>3, FarDescends DEF At
      <4>5. PICK s : Far(Tables, Follow(q, E), q.table, s, n - 1)
        BY <4>4
      <4>6. s \in Tables
        <5>1. PICK w \in Walks(Tables, Follow(q, E), q.table, s, n - 1) : TRUE
          BY <4>5 DEF Far
        <5>2. n - 1 \in 0..(n - 1)
          BY <1>1
        <5> QED BY <5>1, <5>2 DEF Walks
      <4> QED BY <2>1, <4>1, <4>5, <4>6 DEF At
    <3> QED BY <3>1, <3>2 DEF HopsWithin
  <2>4. l.hops = HopsWithin(q, E, Depth(q))
    BY <2>1, <2>2, <2>3
  <2> QED BY <1>2, <1>4, <2>4 DEF GoodLineage
<1> QED BY <1>3, <1>4

(* AllHops says the same, by the rows of the closure. *)
LEMMA AllHopsAre ==
  ASSUME NEW q \in LineageQueries, q.table \in Tables, edges \in Graphs
  PROVE  AllHops(q) = HopsWithin(q, edges, Depth(q))
<1> DEFINE up == q.direction = "upstream"
           F == Follow(q, edges)
           rows(t) == { row \in Closures[edges] :
                          IF up THEN row[1] = t /\ row[2] = q.table
                                ELSE row[1] = q.table /\ row[2] = t }
           far(t) == IF t = q.table THEN {0} ELSE { row[3] : row \in rows(t) }
           hops == { x \in (0..Depth(q) - 1) \X F : x[1] \in far(x[2][1]) }
<1>1. edges \in SUBSET (Tables \X Tables) /\ Closures[edges] = ClosureRows(Tables, edges)
  BY ServerAssumption DEF Closures
<1>2. F \in SUBSET (Tables \X Tables) /\ Depth(q) \in Int
  BY <1>1, FollowTyped, DepthTyped
<1>3. ASSUME NEW t \in Tables, NEW h PROVE h \in far(t) <=> h \in Nat /\ At(q, edges, t, h)
  <2>1. CASE t = q.table
    <3>1. At(q, edges, t, 0)
      BY <2>1, FarStart DEF At
    <3>2. h \in Nat /\ At(q, edges, t, h) => h = 0
      BY <3>1, FarOnce DEF At
    <3> QED BY <2>1, <3>1, <3>2
  <2>2. CASE t # q.table
    <3>1. h \in far(t) <=> \E row \in rows(t) : row[3] = h
      BY <2>2
    <3>2. CASE up
      <4>1. (\E row \in rows(t) : row[3] = h)
              <=> \E row \in ClosureRows(Tables, edges) :
                    row[1] = t /\ row[2] = q.table /\ row[3] = h
        BY <1>1, <3>2
      <4>2. (\E row \in ClosureRows(Tables, edges) :
                    row[1] = t /\ row[2] = q.table /\ row[3] = h)
              <=> h \in Nat /\ Far(Tables, edges, t, q.table, h)
        BY <1>1, <2>2, RowIsFar, ServerAssumption
      <4>3. h \in Nat => (Far(Tables, edges, t, q.table, h)
                            <=> Far(Tables, Turned(edges), q.table, t, h))
        BY <1>1, FarTurns
      <4>4. F = Turned(edges)
        BY <3>2 DEF Follow
      <4> HIDE DEF F, far, rows
      <4> QED BY <3>1, <4>1, <4>2, <4>3, <4>4 DEF At, F
    <3>3. CASE ~up
      <4>1. (\E row \in rows(t) : row[3] = h)
              <=> \E row \in ClosureRows(Tables, edges) :
                    row[1] = q.table /\ row[2] = t /\ row[3] = h
        BY <1>1, <3>3
      <4>2. (\E row \in ClosureRows(Tables, edges) :
                    row[1] = q.table /\ row[2] = t /\ row[3] = h)
              <=> h \in Nat /\ Far(Tables, edges, q.table, t, h)
        BY <1>1, <2>2, RowIsFar, ServerAssumption
      <4>3. F = edges
        BY <3>3 DEF Follow
      <4> HIDE DEF F, far, rows
      <4> QED BY <3>1, <4>1, <4>2, <4>3 DEF At, F
    <3> QED BY <3>2, <3>3
  <2> QED BY <2>1, <2>2
<1>4. AllHops(q) = { <<x[1] + 1, x[2][1], x[2][2]>> : x \in hops }
  BY DEF AllHops, Follow, Turned
<1> HIDE DEF far
<1>5. ASSUME NEW k \in AllHops(q) PROVE k \in HopsWithin(q, edges, Depth(q))
  <2>1. PICK x \in hops : k = <<x[1] + 1, x[2][1], x[2][2]>>
    BY <1>4
  <2>2. /\ x[1] \in 0..Depth(q) - 1 /\ x[2] \in F /\ x[2][1] \in Tables /\ x[2][2] \in Tables
        /\ x[2] = <<x[2][1], x[2][2]>> /\ x[1] \in far(x[2][1])
    BY <1>2, <2>1
  <2>3. At(q, edges, x[2][1], x[1])
    BY <1>3, <2>2
  <2>4. /\ k[1] = x[1] + 1 /\ k[2] = x[2][1] /\ k[3] = x[2][2]
        /\ k[1] - 1 = x[1] /\ k[1] >= 1 /\ k[1] <= Depth(q) /\ k[1] \in Nat
    BY <1>2, <2>1, <2>2
  <2>5. k \in Nat \X Tables \X Tables
    BY <2>1, <2>2, <2>4
  <2>6. <<k[2], k[3]>> \in F /\ At(q, edges, k[2], k[1] - 1)
    BY <2>2, <2>3, <2>4
  <2> QED BY <2>4, <2>5, <2>6 DEF HopsWithin
<1>6. ASSUME NEW k \in HopsWithin(q, edges, Depth(q)) PROVE k \in AllHops(q)
  <2>1. /\ k \in Nat \X Tables \X Tables /\ k[1] >= 1 /\ k[1] <= Depth(q)
        /\ <<k[2], k[3]>> \in F /\ At(q, edges, k[2], k[1] - 1)
    BY DEF HopsWithin
  <2>2. k[1] \in Nat /\ k[2] \in Tables /\ k = <<k[1], k[2], k[3]>>
    BY <2>1
  <2> DEFINE x == <<k[1] - 1, <<k[2], k[3]>>>>
  <2>3. /\ x \in (0..Depth(q) - 1) \X F
        /\ x[1] = k[1] - 1 /\ x[2][1] = k[2] /\ x[2][2] = k[3]
    BY <1>2, <2>1, <2>2
  <2>4. x[1] \in far(x[2][1])
    <3>1. k[1] - 1 \in Nat
      BY <2>1, <2>2
    <3>2. k[1] - 1 \in far(k[2])
      BY <1>3, <2>1, <2>2, <3>1
    <3> QED BY <2>3, <3>2
  <2>5. x \in hops
    BY <2>3, <2>4
  <2>6. k = <<x[1] + 1, x[2][1], x[2][2]>>
    BY <2>2, <2>3
  <2> HIDE DEF x, hops
  <2> QED BY <1>4, <2>5, <2>6
<1> QED BY <1>5, <1>6

-----------------------------------------------------------------------------
(* The search of get_lineage_path: dep is the level at which a table was   *)
(* met, n the level of the frontier, G the edges that may have been served.*)
PathRecords == [store : {FALSE}, frontier : SUBSET Tables,
                parent : UNION { [D -> Tables] : D \in SUBSET Tables }]

Searched(q, l, dep, n, G) ==
  /\ q.from \in DOMAIN l.parent /\ dep[q.from] = 0 /\ l.parent[q.from] = q.from
  /\ \A t \in DOMAIN l.parent \ {q.from} :
       /\ l.parent[t] \in DOMAIN l.parent /\ dep[t] = dep[l.parent[t]] + 1
       /\ <<l.parent[t], t>> \in G
  /\ \A t \in DOMAIN l.parent : dep[t] <= n
  /\ \A t \in l.frontier : t \in DOMAIN l.parent /\ dep[t] = n

(* The same with the edges E throughout: each table at its distance.       *)
SearchedOnce(q, l, dep, n, E) ==
  /\ \A t \in DOMAIN l.parent \ {q.from} : <<l.parent[t], t>> \in E
  /\ \A t \in DOMAIN l.parent : Far(Tables, E, q.from, t, dep[t])
  /\ \A t \in DOMAIN l.parent : dep[t] = n => t \in l.frontier
  /\ \A t \in Tables, k \in 0..n : Far(Tables, E, q.from, t, k) => t \in DOMAIN l.parent

PathBegun(q, l, G, E, once) ==
  \E n \in Nat : \E dep \in [DOMAIN l.parent -> Nat] :
    Searched(q, l, dep, n, G) /\ (once => SearchedOnce(q, l, dep, n, E))

LEMMA PathBegins ==
  ASSUME NEW q, q.from \in Tables, NEW G, NEW E \in SUBSET (Tables \X Tables), NEW once,
         NEW l \in PathRecords, l.frontier = {q.from}, l.parent = [t \in {q.from} |-> t]
  PROVE  PathBegun(q, l, G, E, once)
<1> DEFINE dep == [t \in {q.from} |-> 0]
<1>1. DOMAIN l.parent = {q.from} /\ l.parent[q.from] = q.from
  OBVIOUS
<1>2. dep \in [DOMAIN l.parent -> Nat] /\ dep[q.from] = 0
  BY <1>1
<1>3. \A t : Far(Tables, E, q.from, t, 0) <=> t = q.from
  BY FarStart
<1> HIDE DEF dep
<1>4. Searched(q, l, dep, 0, G)
  BY <1>1, <1>2 DEF Searched
<1>5. SearchedOnce(q, l, dep, 0, E)
  BY <1>1, <1>2, <1>3 DEF SearchedOnce
<1> QED BY <1>2, <1>4, <1>5 DEF PathBegun

NewIn(E, l) == { e[2] : e \in { x \in E : x[1] \in l.frontier } } \ DOMAIN l.parent
FirstParents(E, l, first) ==
  first \in [NewIn(E, l) -> l.frontier] /\ \A t \in NewIn(E, l) : <<first[t], t>> \in E

LEMMA PathGrows ==
  ASSUME NEW q, q.from \in Tables, NEW G, NEW E \in SUBSET (Tables \X Tables), E \subseteq G,
         NEW once \in BOOLEAN,
         NEW l \in PathRecords, PathBegun(q, l, G, E, once),
         NEW first, FirstParents(E, l, first),
         NEW m \in PathRecords, m.parent = Updated(l.parent, first), m.frontier = NewIn(E, l)
  PROVE  PathBegun(q, m, G, E, once)
<1>. PICK new : new = NewIn(E, l)
  OBVIOUS
<1>. new = { e[2] : e \in { x \in E : x[1] \in l.frontier } } \ DOMAIN l.parent
  BY DEF NewIn
<1>. first \in [new -> l.frontier] /\ \A t \in new : <<first[t], t>> \in E
  BY DEF FirstParents
<1>1. PICK n \in Nat : \E dep \in [DOMAIN l.parent -> Nat] :
        Searched(q, l, dep, n, G) /\ (once => SearchedOnce(q, l, dep, n, E))
  BY DEF PathBegun
<1>2. PICK dep \in [DOMAIN l.parent -> Nat] :
        Searched(q, l, dep, n, G) /\ (once => SearchedOnce(q, l, dep, n, E))
  BY <1>1
<1>3. /\ DOMAIN m.parent = new \cup DOMAIN l.parent
      /\ \A t \in new : m.parent[t] = first[t]
      /\ \A t \in DOMAIN l.parent : m.parent[t] = l.parent[t] /\ t \notin new
  <2>1. DOMAIN first = new
    OBVIOUS
  <2>2. m.parent = [x \in DOMAIN l.parent \cup new |->
                      IF x \in new THEN first[x] ELSE l.parent[x]]
    BY <2>1 DEF Updated
  <2> QED BY <2>2
<1> DEFINE dup == [t \in DOMAIN m.parent |-> IF t \in new THEN n + 1 ELSE dep[t]]
<1>4. /\ dup \in [DOMAIN m.parent -> Nat] /\ \A t \in new : dup[t] = n + 1
      /\ \A t \in DOMAIN l.parent : dup[t] = dep[t]
  BY <1>3
<1> HIDE DEF dup
<1>5. Searched(q, m, dup, n + 1, G)
  <2>1. q.from \in DOMAIN m.parent /\ dup[q.from] = 0 /\ m.parent[q.from] = q.from
    BY <1>2, <1>3, <1>4 DEF Searched
  <2>2. ASSUME NEW t \in DOMAIN m.parent \ {q.from}
        PROVE  /\ m.parent[t] \in DOMAIN m.parent /\ dup[t] = dup[m.parent[t]] + 1
               /\ <<m.parent[t], t>> \in G
    <3>1. CASE t \in new
      <4>1. m.parent[t] = first[t] /\ first[t] \in l.frontier
        BY <1>3, <3>1
      <4>2. first[t] \in DOMAIN l.parent /\ dep[first[t]] = n
        BY <1>2, <4>1 DEF Searched
      <4> QED BY <1>3, <1>4, <3>1, <4>1, <4>2
    <3>2. CASE t \notin new
      <4>1. t \in DOMAIN l.parent \ {q.from} /\ m.parent[t] = l.parent[t]
        BY <1>3, <3>2
      <4> QED BY <1>2, <1>3, <1>4, <4>1 DEF Searched
    <3> QED BY <3>1, <3>2
  <2>3. ASSUME NEW t \in DOMAIN m.parent PROVE dup[t] <= n + 1
    <3>1. CASE t \in new
      BY <1>4, <3>1
    <3>2. CASE t \in DOMAIN l.parent
      <4>1. dep[t] <= n /\ dep[t] \in Nat
        BY <1>2, <3>2 DEF Searched
      <4> QED BY <1>4, <3>2, <4>1
    <3> QED BY <1>3, <3>1, <3>2
  <2>4. ASSUME NEW t \in m.frontier PROVE t \in DOMAIN m.parent /\ dup[t] = n + 1
    BY <1>3, <1>4
  <2> QED BY <2>1, <2>2, <2>3, <2>4 DEF Searched
<1>6. ASSUME once PROVE SearchedOnce(q, m, dup, n + 1, E)
  <2>1. SearchedOnce(q, l, dep, n, E)
    BY <1>2, <1>6
  <2>2. ASSUME NEW t \in Tables
        PROVE  Far(Tables, E, q.from, t, n + 1) <=> t \in new
    <3>1. Far(Tables, E, q.from, t, n + 1)
            <=> /\ \E s \in Tables : Far(Tables, E, q.from, s, n) /\ <<s, t>> \in E
                /\ \A k \in 0..n : ~Far(Tables, E, q.from, t, k)
      BY FarNext
    <3>2. (\A k \in 0..n : ~Far(Tables, E, q.from, t, k)) <=> t \notin DOMAIN l.parent
      <4>1. ASSUME t \in DOMAIN l.parent PROVE \E k \in 0..n : Far(Tables, E, q.from, t, k)
        <5>1. dep[t] \in 0..n /\ Far(Tables, E, q.from, t, dep[t])
          BY <1>2, <2>1, <4>1 DEF Searched, SearchedOnce
        <5> QED BY <5>1
      <4> QED BY <2>1, <4>1 DEF SearchedOnce
    <3>3. ASSUME NEW s \in Tables PROVE Far(Tables, E, q.from, s, n) <=> s \in l.frontier
      <4>1. ASSUME Far(Tables, E, q.from, s, n) PROVE s \in l.frontier
        <5>1. s \in DOMAIN l.parent
          BY <2>1, <4>1 DEF SearchedOnce
        <5>2. Far(Tables, E, q.from, s, dep[s]) /\ dep[s] \in Nat
          BY <2>1, <5>1 DEF SearchedOnce
        <5>3. dep[s] = n
          BY <4>1, <5>2, FarOnce
        <5> QED BY <2>1, <5>1, <5>3 DEF SearchedOnce
      <4>2. ASSUME s \in l.frontier PROVE Far(Tables, E, q.from, s, n)
        BY <1>2, <2>1, <4>2 DEF Searched, SearchedOnce
      <4> QED BY <4>1, <4>2
    <3>4. (\E s \in Tables : s \in l.frontier /\ <<s, t>> \in E)
            <=> t \in { e[2] : e \in { x \in E : x[1] \in l.frontier } }
      <4>1. ASSUME NEW s \in Tables, s \in l.frontier, <<s, t>> \in E
            PROVE  t \in { e[2] : e \in { x \in E : x[1] \in l.frontier } }
        <5>1. <<s, t>> \in { x \in E : x[1] \in l.frontier } /\ <<s, t>>[2] = t
          BY <4>1
        <5> QED BY <5>1
      <4>2. ASSUME NEW e \in { x \in E : x[1] \in l.frontier }, t = e[2]
            PROVE  \E s \in Tables : s \in l.frontier /\ <<s, t>> \in E
        <5>1. e = <<e[1], t>> /\ e[1] \in Tables /\ e \in E /\ e[1] \in l.frontier
          BY <4>2
        <5> QED BY <5>1
      <4> QED BY <4>1, <4>2
    <3> QED BY <3>1, <3>2, <3>3, <3>4
  <2>3. new \subseteq Tables
    OBVIOUS
  <2>4. ASSUME NEW t \in DOMAIN m.parent \ {q.from} PROVE <<m.parent[t], t>> \in E
    BY <1>3, <2>1 DEF SearchedOnce
  <2>5. ASSUME NEW t \in DOMAIN m.parent PROVE Far(Tables, E, q.from, t, dup[t])
    <3>1. CASE t \in new
      BY <1>4, <2>2, <2>3, <3>1
    <3>2. CASE t \in DOMAIN l.parent
      BY <1>4, <2>1, <3>2 DEF SearchedOnce
    <3> QED BY <1>3, <3>1, <3>2
  <2>6. ASSUME NEW t \in DOMAIN m.parent, dup[t] = n + 1 PROVE t \in m.frontier
    <3>1. CASE t \in DOMAIN l.parent
      <4>1. dep[t] <= n /\ dep[t] \in Nat
        BY <1>2, <3>1 DEF Searched
      <4> QED BY <1>4, <2>6, <3>1, <4>1
    <3> QED BY <1>3, <3>1
  <2>7. ASSUME NEW t \in Tables, NEW k \in 0..(n + 1), Far(Tables, E, q.from, t, k)
        PROVE  t \in DOMAIN m.parent
    <3>1. CASE k = n + 1
      BY <1>3, <2>2, <2>7, <3>1
    <3>2. CASE k \in 0..n
      BY <1>3, <2>1, <2>7, <3>2 DEF SearchedOnce
    <3> QED BY <3>1, <3>2
  <2> QED BY <2>4, <2>5, <2>6, <2>7 DEF SearchedOnce
<1>7. /\ n + 1 \in Nat /\ Searched(q, m, dup, n + 1, G)
      /\ once => SearchedOnce(q, m, dup, n + 1, E)
  BY <1>5, <1>6
<1> QED BY <1>4, <1>7, Zenon DEF PathBegun

(* The chain back from d, after n steps. *)
Longer(parent, c) == IF parent[c[1]] = c[1] THEN c ELSE <<parent[c[1]]>> \o c
Chains(parent, d, k, f) ==
  f = [n \in 0..k |-> IF n = 0 THEN <<d>> ELSE Longer(parent, f[n - 1])]
Line(parent, dep, d, n, c) ==
  /\ c \in Seq(DOMAIN parent) /\ Len(c) = (IF n < dep[d] THEN n ELSE dep[d]) + 1
  /\ c[Len(c)] = d
  /\ \A i \in 1..Len(c) : dep[c[i]] = dep[d] - Len(c) + i
  /\ \A i \in 1..(Len(c) - 1) : c[i] = parent[c[i + 1]]

LEMMA Prepended ==
  ASSUME NEW D, NEW x \in D, NEW c \in Seq(D), NEW e, e = <<x>> \o c
  PROVE  /\ e \in Seq(D) /\ Len(e) = Len(c) + 1 /\ e[1] = x
         /\ \A i \in 2..Len(e) : e[i] = c[i - 1]
<1>1. Len(c) \in Nat /\ c \in [1..Len(c) -> D]
  OBVIOUS
<1>2. <<x>> \in Seq(D) /\ Len(<<x>>) = 1 /\ <<x>>[1] = x
  OBVIOUS
<1>3. e \in Seq(D) /\ Len(e) = 1 + Len(c)
  BY <1>2
<1>4. \A i \in 1..Len(e) : e[i] = IF i <= 1 THEN <<x>>[i] ELSE c[i - 1]
  BY <1>1, <1>2, <1>3
<1> QED BY <1>1, <1>2, <1>3, <1>4

LEMMA LineGrows ==
  ASSUME NEW q, NEW l \in PathRecords, NEW n \in Nat, NEW dep \in [DOMAIN l.parent -> Nat], NEW G,
         Searched(q, l, dep, n, G), NEW d \in DOMAIN l.parent, NEW k \in Nat, NEW c,
         Line(l.parent, dep, d, k, c)
  PROVE  Line(l.parent, dep, d, k + 1, Longer(l.parent, c))
<1> DEFINE D == DOMAIN l.parent
           x == c[1]
<1>1. /\ c \in Seq(D) /\ Len(c) = (IF k < dep[d] THEN k ELSE dep[d]) + 1 /\ c[Len(c)] = d
      /\ \A i \in 1..Len(c) : dep[c[i]] = dep[d] - Len(c) + i
      /\ \A i \in 1..(Len(c) - 1) : c[i] = l.parent[c[i + 1]]
  BY DEF Line
<1>2. dep[d] \in Nat /\ Len(c) \in Nat /\ Len(c) >= 1 /\ 1 \in 1..Len(c) /\ x \in D
  BY <1>1
<1>3. dep[x] = dep[d] - Len(c) + 1 /\ dep[x] \in Nat
  BY <1>1, <1>2
<1>4. CASE k < dep[d]
  <2>1. Len(c) = k + 1 /\ dep[x] >= 1
    BY <1>1, <1>2, <1>3, <1>4
  <2>2. x # q.from
    BY <2>1 DEF Searched
  <2>3. l.parent[x] \in D /\ dep[x] = dep[l.parent[x]] + 1
    BY <1>2, <2>2 DEF Searched
  <2>4. l.parent[x] # x
    BY <1>3, <2>3
  <2> DEFINE e == <<l.parent[x]>> \o c
  <2>5. Longer(l.parent, c) = e
    BY <2>4 DEF Longer
  <2>6. /\ e \in Seq(D) /\ Len(e) = Len(c) + 1 /\ e[1] = l.parent[x]
        /\ \A i \in 2..Len(e) : e[i] = c[i - 1]
    <3> DEFINE y == l.parent[x]
    <3>1. e = <<y>> \o c /\ y \in D /\ c \in Seq(D)
      BY <1>1, <2>3
    <3> HIDE DEF e, D, y
    <3>2. /\ e \in Seq(D) /\ Len(e) = Len(c) + 1 /\ e[1] = y
          /\ \A i \in 2..Len(e) : e[i] = c[i - 1]
      BY <3>1, Prepended
    <3> QED BY <3>2 DEF y
  <2> HIDE DEF e
  <2>11. Len(e) = Len(c) + 1 /\ Len(e) \in Nat /\ Len(c) \in Nat
    BY <1>2, <2>6
  <2>7. \A i \in 1..Len(e) : dep[e[i]] = dep[d] - Len(e) + i
    <3> SUFFICES ASSUME NEW i \in 1..Len(e) PROVE dep[e[i]] = dep[d] - Len(e) + i
      OBVIOUS
    <3>1. CASE i = 1
      <4>1. dep[l.parent[x]] \in Nat
        BY <2>3
      <4> QED BY <1>2, <1>3, <2>3, <2>6, <3>1, <4>1
    <3>2. CASE i # 1
      <4>1. i - 1 \in 1..Len(c) /\ e[i] = c[i - 1]
        BY <1>2, <2>6, <3>2
      <4>2. dep[c[i - 1]] = dep[d] - Len(c) + (i - 1)
        BY <1>1, <4>1
      <4> QED BY <1>2, <2>6, <4>1, <4>2
    <3> QED BY <3>1, <3>2
  <2>8. \A i \in 1..(Len(e) - 1) : e[i] = l.parent[e[i + 1]]
    <3> SUFFICES ASSUME NEW i \in 1..(Len(e) - 1) PROVE e[i] = l.parent[e[i + 1]]
      OBVIOUS
    <3>1. CASE i = 1
      <4>1. 2 \in 2..Len(e) /\ 2 - 1 = 1
        BY <1>2, <2>6
      <4>2. e[2] = c[1]
        BY <2>6, <4>1
      <4> QED BY <2>6, <3>1, <4>2
    <3>2. CASE i # 1
      <4>1. PICK j \in 1..(Len(c) - 1) : i = j + 1 /\ i - 1 = j
        BY <1>2, <2>6, <3>2
      <4>2. i \in 2..Len(e) /\ i + 1 \in 2..Len(e) /\ (i + 1) - 1 = i
        BY <2>11, <3>2
      <4>3. e[i] = c[j] /\ e[i + 1] = c[j + 1]
        BY <2>6, <4>1, <4>2
      <4> QED BY <1>1, <4>1, <4>3
    <3> QED BY <3>1, <3>2
  <2>9. e[Len(e)] = d
    <3>1. Len(e) \in 2..Len(e) /\ Len(e) - 1 = Len(c)
      BY <1>2, <2>6
    <3> QED BY <1>1, <2>6, <3>1
  <2>10. Len(e) = (IF k + 1 < dep[d] THEN k + 1 ELSE dep[d]) + 1
    BY <1>2, <1>4, <2>1, <2>6
  <2> QED BY <2>5, <2>6, <2>7, <2>8, <2>9, <2>10 DEF Line
<1>5. CASE ~(k < dep[d])
  <2>1. Len(c) = dep[d] + 1 /\ dep[x] = 0
    BY <1>1, <1>2, <1>3, <1>5
  <2>2. x = q.from
    <3> SUFFICES ASSUME x # q.from PROVE FALSE
      OBVIOUS
    <3>1. l.parent[x] \in D /\ dep[x] = dep[l.parent[x]] + 1
      BY <1>2 DEF Searched
    <3> QED BY <2>1, <3>1
  <2>3. Longer(l.parent, c) = c
    BY <2>2 DEF Searched, Longer
  <2>4. Len(c) = (IF k + 1 < dep[d] THEN k + 1 ELSE dep[d]) + 1
    BY <1>2, <1>5, <2>1
  <2> QED BY <1>1, <2>3, <2>4 DEF Line
<1> QED BY <1>4, <1>5

(* PathTo is the whole chain: from the start, each the parent of the next. *)
LEMMA PathToIs ==
  ASSUME NEW q, NEW l \in PathRecords, NEW n \in Nat, NEW dep \in [DOMAIN l.parent -> Nat], NEW G,
         Searched(q, l, dep, n, G), NEW d \in DOMAIN l.parent,
         NEW s, s = PathTo(l.parent, d)
  PROVE  /\ s \in Seq(DOMAIN l.parent) /\ Len(s) = dep[d] + 1
         /\ s[1] = q.from /\ s[Len(s)] = d
         /\ \A i \in 1..Len(s) : dep[s[i]] = i - 1
         /\ \A i \in 1..(Len(s) - 1) : s[i + 1] # q.from /\ s[i] = l.parent[s[i + 1]]
<1> DEFINE D == DOMAIN l.parent
           K == Cardinality(D)
<1>1. D \in SUBSET Tables /\ IsFiniteSet(D) /\ K \in Nat
  <2>1. D \in SUBSET Tables
    BY DEF PathRecords
  <2> QED BY <2>1, FS_Subset, FS_CardinalityType, ServerAssumption
<1>2. dep[d] \in Nat
  OBVIOUS
<1> DEFINE S == { k \in Nat : \E f : Chains(l.parent, d, k, f) }
<1>3. 0 \in S
  <2> DEFINE f == [i \in 0..0 |-> <<d>>]
  <2>1. f = [i \in 0..0 |-> IF i = 0 THEN <<d>> ELSE Longer(l.parent, f[i - 1])]
    OBVIOUS
  <2> HIDE DEF f
  <2>2. Chains(l.parent, d, 0, f)
    BY <2>1 DEF Chains
  <2> QED BY <2>2
<1>4. ASSUME NEW k \in Nat, k \in S PROVE k + 1 \in S
  <2>1. PICK f : Chains(l.parent, d, k, f)
    BY <1>4
  <2>2. f = [i \in 0..k |-> IF i = 0 THEN <<d>> ELSE Longer(l.parent, f[i - 1])]
    BY <2>1 DEF Chains
  <2> DEFINE g == [i \in 0..(k + 1) |-> IF i = k + 1 THEN Longer(l.parent, f[k]) ELSE f[i]]
  <2>3. \A i \in 0..k : g[i] = f[i] /\ f[i] = IF i = 0 THEN <<d>> ELSE Longer(l.parent, f[i - 1])
    BY <2>2
  <2>4. g[k + 1] = Longer(l.parent, f[k]) /\ (k + 1) - 1 = k
    OBVIOUS
  <2>5. \A i \in 0..(k + 1) : g[i] = IF i = 0 THEN <<d>> ELSE Longer(l.parent, g[i - 1])
    <3> SUFFICES ASSUME NEW i \in 0..(k + 1)
                 PROVE  g[i] = IF i = 0 THEN <<d>> ELSE Longer(l.parent, g[i - 1])
      OBVIOUS
    <3> HIDE DEF g
    <3>1. CASE i = k + 1
      <4>1. g[k] = f[k] /\ i - 1 = k /\ i # 0
        BY <2>3, <3>1
      <4> QED BY <2>4, <3>1, <4>1
    <3>2. CASE i = 0
      BY <2>3, <3>2
    <3>3. CASE i \in 1..k
      <4>1. i \in 0..k /\ i - 1 \in 0..k /\ i # 0
        BY <3>3
      <4> QED BY <2>3, <4>1
    <3> QED BY <3>1, <3>2, <3>3
  <2>6. g = [i \in 0..(k + 1) |-> IF i = 0 THEN <<d>> ELSE Longer(l.parent, g[i - 1])]
    <3>1. g = [i \in 0..(k + 1) |-> g[i]]
      OBVIOUS
    <3> HIDE DEF g
    <3> QED BY <2>5, <3>1
  <2> HIDE DEF g
  <2>7. Chains(l.parent, d, k + 1, g)
    BY <2>6 DEF Chains
  <2> QED BY <2>7
<1>5. \E f : Chains(l.parent, d, K, f)
  <2> HIDE DEF S
  <2>1. K \in S
    BY <1>1, <1>3, <1>4, AllNaturals
  <2> QED BY <2>1 DEF S
<1> DEFINE chain == CHOOSE f : Chains(l.parent, d, K, f)
<1>6. s = chain[K]
  BY DEF PathTo, Chains, Longer
<1>7. Chains(l.parent, d, K, chain)
  BY <1>5
<1> HIDE DEF chain
<1>8. \A i \in 0..K : chain[i] = IF i = 0 THEN <<d>> ELSE Longer(l.parent, chain[i - 1])
  BY <1>7 DEF Chains
<1> DEFINE U == { k \in Nat : k <= K => Line(l.parent, dep, d, k, chain[k]) }
<1>9. 0 \in U
  <2>1. chain[0] = <<d>>
    BY <1>1, <1>8
  <2> DEFINE c == <<d>>
  <2>2. c \in Seq(D) /\ Len(c) = 1 /\ c[1] = d
    <3>1. d \in D
      OBVIOUS
    <3> HIDE DEF D
    <3> QED BY <3>1
  <2> HIDE DEF c
  <2>3. Line(l.parent, dep, d, 0, c)
    <3>1. Len(c) = (IF 0 < dep[d] THEN 0 ELSE dep[d]) + 1
      BY <1>2, <2>2
    <3>2. \A i \in 1..Len(c) : dep[c[i]] = dep[d] - Len(c) + i
      BY <1>2, <2>2
    <3> QED BY <2>2, <3>1, <3>2 DEF Line
  <2> QED BY <2>1, <2>3 DEF c
<1>10. ASSUME NEW k \in Nat, k \in U PROVE k + 1 \in U
  <2>1. CASE k + 1 <= K
    <3>1. k + 1 \in 0..K /\ (k + 1) - 1 = k /\ k + 1 # 0
      BY <1>1, <2>1
    <3>2. chain[k + 1] = Longer(l.parent, chain[k])
      BY <1>8, <3>1
    <3>3. Line(l.parent, dep, d, k, chain[k])
      BY <1>1, <1>10, <2>1
    <3>4. Line(l.parent, dep, d, k + 1, chain[k + 1])
      BY <3>2, <3>3, LineGrows
    <3> QED BY <3>4
  <2> QED BY <2>1
<1>11. Line(l.parent, dep, d, K, s)
  <2> HIDE DEF U
  <2>1. K \in U
    BY <1>1, <1>9, <1>10, AllNaturals
  <2> QED BY <1>1, <1>6, <2>1 DEF U
<1>12. /\ s \in Seq(D) /\ Len(s) = (IF K < dep[d] THEN K ELSE dep[d]) + 1 /\ s[Len(s)] = d
       /\ \A i \in 1..Len(s) : dep[s[i]] = dep[d] - Len(s) + i
       /\ \A i \in 1..(Len(s) - 1) : s[i] = l.parent[s[i + 1]]
  BY <1>11 DEF Line
<1>13. Len(s) \in Nat /\ s \in [1..Len(s) -> D]
  BY <1>12
<1>14. s \in Injection(1..Len(s), D)
  <2>1. \A i, j \in 1..Len(s) : s[i] = s[j] => i = j
    BY <1>2, <1>12, <1>13
  <2> QED BY <1>13, <2>1 DEF Injection, IsInjective
<1>15. Len(s) <= K
  <2>1. Cardinality(1..Len(s)) <= K
    BY <1>1, <1>14, FS_Injection
  <2>2. Len(s) >= 1
    BY <1>1, <1>2, <1>12
  <2>3. Cardinality(1..Len(s)) = Len(s) - 1 + 1
    <3> DEFINE b == Len(s)
    <3>1. b \in Int /\ ~(1 > b)
      BY <1>13, <2>2
    <3> HIDE DEF b
    <3>2. Cardinality(1..b) = b - 1 + 1
      BY <3>1, FS_Interval
    <3> QED BY <3>2 DEF b
  <2> QED BY <1>1, <1>13, <2>1, <2>3
<1>16. Len(s) = dep[d] + 1
  BY <1>1, <1>2, <1>12, <1>15
<1>17. ASSUME NEW i \in 1..Len(s) PROVE s[i] \in D /\ dep[s[i]] = i - 1
  <2>1. s[i] \in D
    BY <1>13
  <2>2. dep[s[i]] = dep[d] - Len(s) + i
    BY <1>12
  <2>3. dep[d] \in Nat /\ Len(s) \in Nat /\ i \in Int
    BY <1>2, <1>13
  <2> QED BY <1>16, <2>1, <2>2, <2>3
<1>18. s[1] = q.from
  <2> SUFFICES ASSUME s[1] # q.from PROVE FALSE
    OBVIOUS
  <2>1. s[1] \in D /\ dep[s[1]] = 0
    BY <1>2, <1>16, <1>17
  <2>2. l.parent[s[1]] \in D /\ dep[s[1]] = dep[l.parent[s[1]]] + 1
    BY <2>1 DEF Searched
  <2> QED BY <2>1, <2>2
<1>19. \A i \in 1..(Len(s) - 1) : s[i + 1] # q.from
  <2> SUFFICES ASSUME NEW i \in 1..(Len(s) - 1) PROVE s[i + 1] # q.from
    OBVIOUS
  <2>1. i + 1 \in 1..Len(s) /\ (i + 1) - 1 # 0
    BY <1>13
  <2>2. dep[s[i + 1]] # 0
    BY <1>17, <2>1
  <2> QED BY <2>2 DEF Searched
<1> QED BY <1>12, <1>16, <1>17, <1>18, <1>19

(* What an answer about a path says: sound whatever happened, a shortest   *)
(* path where nothing was published.                                       *)
InRows(C, x, y) == \E row \in C : row[1] = x /\ row[2] = y

SoundPath(q, a, G) ==
  a.connected => /\ Head(a.tables) = q.from /\ Last(a.tables) = q.to
                 /\ IsInjective(a.tables) /\ IsChain(a.tables, G)

ShortestPath(q, a, E, C) ==
  /\ a.connected <=> /\ InRows(C, q.from, q.to)
                     /\ InRows(ClosureRows(Tables, E), q.from, q.to)
  /\ a.connected => /\ IsChain(a.tables, E)
                    /\ \E row \in ClosureRows(Tables, E) :
                         row[1] = q.from /\ row[2] = q.to /\ row[3] = Len(a.tables) - 1

GoodPath(q, a, G, E, C, once) == SoundPath(q, a, G) /\ (once => ShortestPath(q, a, E, C))

LEMMA PathRefused ==
  ASSUME NEW q, NEW G, NEW E, NEW C, NEW once, NEW a, ~a.connected,
         once => \/ ~InRows(C, q.from, q.to)
                 \/ ~InRows(ClosureRows(Tables, E), q.from, q.to)
  PROVE  GoodPath(q, a, G, E, C, once)
BY DEF GoodPath, SoundPath, ShortestPath

LEMMA PathFound ==
  ASSUME NEW q, q.from \in Tables, q.to \in Tables, q.from # q.to,
         NEW G, NEW E \in SUBSET (Tables \X Tables), NEW C, NEW once \in BOOLEAN,
         once => InRows(C, q.from, q.to),
         NEW l \in PathRecords, PathBegun(q, l, G, E, once), q.to \in DOMAIN l.parent,
         NEW a, a.connected, a.tables = PathTo(l.parent, q.to)
  PROVE  GoodPath(q, a, G, E, C, once)
<1> DEFINE s == a.tables
<1>1. PICK n \in Nat : \E dep \in [DOMAIN l.parent -> Nat] :
        Searched(q, l, dep, n, G) /\ (once => SearchedOnce(q, l, dep, n, E))
  BY DEF PathBegun
<1>2. PICK dep \in [DOMAIN l.parent -> Nat] :
        Searched(q, l, dep, n, G) /\ (once => SearchedOnce(q, l, dep, n, E))
  BY <1>1
<1>3. /\ s \in Seq(DOMAIN l.parent) /\ Len(s) = dep[q.to] + 1
      /\ s[1] = q.from /\ s[Len(s)] = q.to
      /\ \A i \in 1..Len(s) : dep[s[i]] = i - 1
      /\ \A i \in 1..(Len(s) - 1) : s[i + 1] # q.from /\ s[i] = l.parent[s[i + 1]]
  BY <1>2, PathToIs
<1> HIDE DEF s
<1>4. Len(s) \in Nat /\ DOMAIN s = 1..Len(s) /\ dep[q.to] \in Nat
  BY <1>3
<1>5. Head(s) = q.from /\ Last(s) = q.to
  BY <1>3, <1>4 DEF Last
<1>6. IsInjective(s)
  BY <1>3, <1>4 DEF IsInjective
<1>7. ASSUME NEW i \in 1..(Len(s) - 1)
      PROVE  /\ s[i + 1] \in DOMAIN l.parent \ {q.from}
             /\ <<s[i], s[i + 1]>> = <<l.parent[s[i + 1]], s[i + 1]>>
  <2>1. i + 1 \in 1..Len(s)
    BY <1>4
  <2> QED BY <1>3, <1>4, <2>1
<1>8. IsChain(s, G)
  BY <1>2, <1>7 DEF Searched, IsChain
<1>9. ASSUME once PROVE ShortestPath(q, a, E, C)
  <2>1. SearchedOnce(q, l, dep, n, E)
    BY <1>2, <1>9
  <2>2. IsChain(s, E)
    BY <1>7, <2>1 DEF SearchedOnce, IsChain
  <2>3. Far(Tables, E, q.from, q.to, dep[q.to])
    BY <2>1 DEF SearchedOnce
  <2>4. \E row \in ClosureRows(Tables, E) :
          row[1] = q.from /\ row[2] = q.to /\ row[3] = dep[q.to]
    <3> DEFINE h == dep[q.to]
    <3>1. h \in Nat /\ Far(Tables, E, q.from, q.to, h)
      BY <1>4, <2>3
    <3> HIDE DEF h
    <3>2. \E row \in ClosureRows(Tables, E) :
            row[1] = q.from /\ row[2] = q.to /\ row[3] = h
      BY <3>1, RowIsFar, ServerAssumption
    <3> QED BY <3>2 DEF h
  <2>5. Len(s) - 1 = dep[q.to]
    BY <1>3, <1>4
  <2>6. \E row \in ClosureRows(Tables, E) :
          row[1] = q.from /\ row[2] = q.to /\ row[3] = Len(s) - 1
    BY <2>4, <2>5
  <2>7. InRows(ClosureRows(Tables, E), q.from, q.to)
    BY <2>4 DEF InRows
  <2> QED BY <1>9, <2>2, <2>6, <2>7 DEF ShortestPath, s
<1> QED BY <1>5, <1>6, <1>8, <1>9 DEF GoodPath, SoundPath, s

LEMMA PathMissed ==
  ASSUME NEW q, q.from \in Tables, q.to \in Tables, q.from # q.to,
         NEW G, NEW E \in SUBSET (Tables \X Tables), NEW C, NEW once \in BOOLEAN,
         NEW l \in PathRecords, PathBegun(q, l, G, E, once),
         q.to \notin DOMAIN l.parent, l.frontier = {},
         NEW a, ~a.connected
  PROVE  GoodPath(q, a, G, E, C, once)
<1>1. PICK n \in Nat : \E dep \in [DOMAIN l.parent -> Nat] :
        Searched(q, l, dep, n, G) /\ (once => SearchedOnce(q, l, dep, n, E))
  BY DEF PathBegun
<1>2. PICK dep \in [DOMAIN l.parent -> Nat] :
        Searched(q, l, dep, n, G) /\ (once => SearchedOnce(q, l, dep, n, E))
  BY <1>1
<1>3. SUFFICES ASSUME once, InRows(ClosureRows(Tables, E), q.from, q.to) PROVE FALSE
  BY PathRefused
<1>4. SearchedOnce(q, l, dep, n, E)
  BY <1>2, <1>3
<1>5. PICK row \in ClosureRows(Tables, E) : row[1] = q.from /\ row[2] = q.to
  BY <1>3 DEF InRows
<1> DEFINE h == row[3]
<1>6. h \in Nat /\ Far(Tables, E, q.from, q.to, h)
  BY <1>5, RowIsFar, ServerAssumption
<1> HIDE DEF h
<1>7. CASE h <= n
  <2>1. h \in 0..n
    BY <1>6, <1>7
  <2> QED BY <1>4, <1>6, <2>1 DEF SearchedOnce
<1>8. CASE h > n
  <2>1. n \in 0..h
    BY <1>6, <1>8
  <2>2. PICK t : Far(Tables, E, q.from, t, n)
    BY <1>6, <2>1, FarDescends
  <2>3. t \in Tables
    <3>1. PICK w \in Walks(Tables, E, q.from, t, n) : TRUE
      BY <2>2 DEF Far
    <3>2. n \in 0..n
      OBVIOUS
    <3> QED BY <3>1, <3>2 DEF Walks
  <2>4. n \in 0..n
    OBVIOUS
  <2>5. t \in DOMAIN l.parent
    BY <1>4, <2>2, <2>3, <2>4 DEF SearchedOnce
  <2>6. dep[t] \in Nat /\ Far(Tables, E, q.from, t, dep[t])
    BY <1>4, <2>5 DEF SearchedOnce
  <2>7. dep[t] = n
    BY <2>2, <2>6, FarOnce
  <2> QED BY <1>4, <2>5, <2>7 DEF SearchedOnce
<1> QED BY <1>6, <1>7, <1>8

-----------------------------------------------------------------------------
(* The list impact_analysis pages through, for the rows C of the closure.  *)
DownIn(C, t) == { row \in C : row[1] = t }
ItemsIn(C, top) == { row[2] : row \in DownIn(C, top) }
HopsIn(C, top, t) == (CHOOSE row \in DownIn(C, top) : row[2] = t)[3]
BeforeIn(C, top, x, y) ==
  HopsIn(C, top, x) < HopsIn(C, top, y) \/ (HopsIn(C, top, x) = HopsIn(C, top, y) /\ x < y)
Sorted(C, top, s) ==
  /\ s \in SetToSeqs(ItemsIn(C, top))
  /\ \A i, j \in DOMAIN s : i < j => ~BeforeIn(C, top, s[j], s[i])

Page(q, s) ==
  LET first == (q.page - 1) * q.size + 1
      last == IF first + q.size - 1 < Len(s) THEN first + q.size - 1 ELSE Len(s)
  IN  SubSeq(s, first, last)

GoodPage(q, a, C) ==
  q.group = "table" =>
    /\ a.total = Cardinality(DownIn(C, q.table))
    /\ \E s : Sorted(C, q.table, s) /\ a.items = Page(q, s)

(* One row per pair, and its distance is a number. *)
LEMMA RowsOfPair ==
  ASSUME NEW E \in SUBSET (Tables \X Tables), NEW row \in ClosureRows(Tables, E)
  PROVE  /\ row[1] \in Tables /\ row[2] \in Tables /\ row[1] # row[2] /\ row[3] \in Nat
         /\ \A other \in ClosureRows(Tables, E) :
              other[1] = row[1] /\ other[2] = row[2] => other = row
<1>1. \A x \in ClosureRows(Tables, E) :
        /\ x[1] \in Tables /\ x[2] \in Tables /\ x[1] # x[2]
        /\ x = <<x[1], x[2], Distance(Tables, E, x[1], x[2]), ShortestPaths(Tables, E, x[1], x[2])>>
  <2> SUFFICES ASSUME NEW x \in ClosureRows(Tables, E)
               PROVE  /\ x[1] \in Tables /\ x[2] \in Tables /\ x[1] # x[2]
                      /\ x = <<x[1], x[2], Distance(Tables, E, x[1], x[2]),
                               ShortestPaths(Tables, E, x[1], x[2])>>
    OBVIOUS
  <2>1. PICK p \in Connected(Tables, E) :
          x = <<p[1], p[2], Distance(Tables, E, p[1], p[2]), ShortestPaths(Tables, E, p[1], p[2])>>
    BY DEF ClosureRows
  <2>2. x[1] = p[1] /\ x[2] = p[2]
    BY <2>1
  <2>3. p[1] \in Tables /\ p[2] \in Tables /\ p[1] # p[2]
    BY DEF Connected
  <2> QED BY <2>1, <2>2, <2>3
<1>2. row[3] \in Nat
  BY <1>1, RowIsFar, ServerAssumption
<1>3. ASSUME NEW other \in ClosureRows(Tables, E), other[1] = row[1], other[2] = row[2]
      PROVE  other = row
  BY <1>1, <1>3, Zenon
<1> QED BY <1>1, <1>2, <1>3

(* The tables of a list are in a strict order. *)
LEMMA ItemsInOrder ==
  ASSUME NEW E \in SUBSET (Tables \X Tables), NEW C, C = ClosureRows(Tables, E), NEW top,
         NEW x \in ItemsIn(C, top), NEW y \in ItemsIn(C, top)
  PROVE  /\ x # y => BeforeIn(C, top, x, y) \/ BeforeIn(C, top, y, x)
         /\ ~(BeforeIn(C, top, x, y) /\ BeforeIn(C, top, y, x))
<1>1. ASSUME NEW t \in ItemsIn(C, top) PROVE t \in Nat /\ HopsIn(C, top, t) \in Nat
  <2>1. \E row \in DownIn(C, top) : row[2] = t
    BY DEF ItemsIn
  <2> DEFINE row == CHOOSE r \in DownIn(C, top) : r[2] = t
  <2>2. row \in DownIn(C, top) /\ row[2] = t
    BY <2>1
  <2>3. HopsIn(C, top, t) = row[3]
    BY DEF HopsIn
  <2> HIDE DEF row
  <2>4. row \in ClosureRows(Tables, E)
    BY <2>2 DEF DownIn
  <2>5. row[2] \in Tables /\ row[3] \in Nat
    BY <2>4, RowsOfPair
  <2> QED BY <2>2, <2>3, <2>5, ServerAssumption
<1>2. /\ x \in Nat /\ y \in Nat /\ HopsIn(C, top, x) \in Nat /\ HopsIn(C, top, y) \in Nat
  BY <1>1
<1> QED BY <1>2 DEF BeforeIn

(* An enumeration by SetToSeqs meets every element once. *)
LEMMA SeqsOf ==
  ASSUME NEW S, IsFiniteSet(S), NEW s \in SetToSeqs(S)
  PROVE  /\ Cardinality(S) \in Nat /\ s \in [1..Cardinality(S) -> S]
         /\ Len(s) = Cardinality(S) /\ s \in Seq(S)
         /\ \A i, j \in 1..Cardinality(S) : s[i] = s[j] => i = j
         /\ \A x \in S : \E i \in 1..Cardinality(S) : s[i] = x
<1> DEFINE K == Cardinality(S)
<1>1. K \in Nat
  BY FS_CardinalityType
<1>2. s \in [1..K -> S] /\ \A i, j \in 1..K : i # j => s[i] # s[j]
  BY DEF SetToSeqs
<1>3. Len(s) = K /\ s \in Seq(S)
  <2> HIDE DEF K
  <2> QED BY <1>1, <1>2
<1>4. ASSUME NEW x \in S, \A i \in 1..K : s[i] # x PROVE FALSE
  <2>1. IsFiniteSet(S \ {x}) /\ Cardinality(S \ {x}) = K - 1
    BY FS_RemoveElement
  <2>2. IsFiniteSet(1..K) /\ Cardinality(1..K) = K
    <3>1. 1 \in Int /\ K \in Int
      BY <1>1
    <3>2. K # 0
      BY FS_EmptySet
    <3> HIDE DEF K
    <3>3. IsFiniteSet(1..K) /\ Cardinality(1..K) = IF 1 > K THEN 0 ELSE K - 1 + 1
      BY <3>1, FS_Interval
    <3> QED BY <1>1, <3>2, <3>3
  <2>3. s \in [1..K -> S \ {x}]
    BY <1>2, <1>4
  <2>4. Cardinality(S \ {x}) < Cardinality(1..K)
    BY <1>1, <2>1, <2>2
  <2>5. \E i, j \in 1..K : i # j /\ s[i] = s[j]
    <3> DEFINE P == 1..K
               T == S \ {x}
    <3>1. /\ IsFiniteSet(P) /\ IsFiniteSet(T) /\ Cardinality(T) < Cardinality(P)
          /\ s \in [P -> T]
      BY <2>1, <2>2, <2>3, <2>4
    <3> HIDE DEF P, T
    <3>2. \E i, j \in P : i # j /\ s[i] = s[j]
      BY <3>1, FS_PigeonHole
    <3> QED BY <3>2 DEF P
  <2> QED BY <1>2, <2>5
<1> QED BY <1>1, <1>2, <1>3, <1>4

(* So there is one sorted list. *)
LEMMA OneSorted ==
  ASSUME NEW E \in SUBSET (Tables \X Tables), NEW C, C = ClosureRows(Tables, E), NEW top,
         NEW s, Sorted(C, top, s), NEW u, Sorted(C, top, u)
  PROVE  s = u
<1>. PICK S : S = ItemsIn(C, top)
  OBVIOUS
<1>. PICK K : K = Cardinality(S)
  OBVIOUS
<1>1. IsFiniteSet(S)
  <2>1. S \subseteq Tables
    <3> SUFFICES ASSUME NEW t \in S PROVE t \in Tables
      OBVIOUS
    <3>1. PICK row \in DownIn(C, top) : t = row[2]
      BY DEF ItemsIn
    <3>2. row \in ClosureRows(Tables, E)
      BY DEF DownIn
    <3> QED BY <3>1, <3>2, RowsOfPair
  <2> QED BY <2>1, FS_Subset, ServerAssumption
<1>2. s \in SetToSeqs(S) /\ u \in SetToSeqs(S)
  BY DEF Sorted
<1>3. /\ K \in Nat /\ s \in [1..K -> S] /\ u \in [1..K -> S]
      /\ \A i, j \in 1..K : s[i] = s[j] => i = j
      /\ \A i, j \in 1..K : u[i] = u[j] => i = j
      /\ \A x \in S : (\E i \in 1..K : s[i] = x) /\ (\E i \in 1..K : u[i] = x)
  <2>1. \A x \in SetToSeqs(S) :
          /\ K \in Nat /\ x \in [1..K -> S]
          /\ \A i, j \in 1..K : x[i] = x[j] => i = j
          /\ \A y \in S : \E i \in 1..K : x[i] = y
    <3> SUFFICES ASSUME NEW x \in SetToSeqs(S)
                 PROVE  /\ K \in Nat /\ x \in [1..K -> S]
                        /\ \A i, j \in 1..K : x[i] = x[j] => i = j
                        /\ \A y \in S : \E i \in 1..K : x[i] = y
      OBVIOUS
    <3>1. /\ Cardinality(S) \in Nat /\ x \in [1..Cardinality(S) -> S]
          /\ \A i, j \in 1..Cardinality(S) : x[i] = x[j] => i = j
          /\ \A y \in S : \E i \in 1..Cardinality(S) : x[i] = y
      BY <1>1, SeqsOf
    <3> QED BY <3>1, Zenon
  <2>2. /\ K \in Nat /\ s \in [1..K -> S]
        /\ \A i, j \in 1..K : s[i] = s[j] => i = j
        /\ \A y \in S : \E i \in 1..K : s[i] = y
    BY <1>2, <2>1, Zenon
  <2>3. /\ u \in [1..K -> S]
        /\ \A i, j \in 1..K : u[i] = u[j] => i = j
        /\ \A y \in S : \E i \in 1..K : u[i] = y
    BY <1>2, <2>1, Zenon
  <2>4. \A y \in S : (\E i \in 1..K : s[i] = y) /\ (\E i \in 1..K : u[i] = y)
    BY <2>2, <2>3, Zenon
  <2> QED BY <2>2, <2>3, <2>4, Zenon
<1>4. /\ \A i, j \in 1..K : i < j => ~BeforeIn(C, top, s[j], s[i])
      /\ \A i, j \in 1..K : i < j => ~BeforeIn(C, top, u[j], u[i])
  BY <1>3 DEF Sorted
<1>5. \A x, y \in S : x # y => BeforeIn(C, top, x, y) \/ BeforeIn(C, top, y, x)
  BY ItemsInOrder
<1>6. \A x, y \in S : ~(BeforeIn(C, top, x, y) /\ BeforeIn(C, top, y, x))
  BY ItemsInOrder
<1> DEFINE D == { i \in 1..K : s[i] # u[i] }
<1>7. D = {}
  <2> SUFFICES ASSUME D # {} PROVE FALSE
    OBVIOUS
  <2>1. D \subseteq Nat
    OBVIOUS
  <2>2. PICK i \in D : \A j \in D : i <= j
    <3> HIDE DEF D
    <3> QED BY <2>1, Least
  <2>3. i \in 1..K /\ s[i] # u[i] /\ s[i] \in S /\ u[i] \in S
    BY <1>3, <2>2
  <2>4. \A k \in 1..K : k < i => s[k] = u[k]
    BY <2>2
  <2>5. PICK j \in 1..K : u[j] = s[i]
    BY <1>3, <2>3
  <2>6. i < j
    <3>1. ~(j < i) /\ j # i
      BY <1>3, <2>3, <2>4, <2>5
    <3> QED BY <2>3, <3>1
  <2>7. PICK k \in 1..K : s[k] = u[i]
    BY <1>3, <2>3
  <2>8. i < k
    <3>1. ~(k < i) /\ k # i
      BY <1>3, <2>3, <2>4, <2>7
    <3> QED BY <2>3, <3>1
  <2>9. ~BeforeIn(C, top, u[i], s[i])
    BY <1>4, <2>3, <2>7, <2>8
  <2>10. ~BeforeIn(C, top, s[i], u[i])
    BY <1>4, <2>3, <2>5, <2>6
  <2> QED BY <1>5, <2>3, <2>9, <2>10
<1>8. \A i \in 1..K : s[i] = u[i]
  BY <1>7
<1> QED BY <1>3, <1>8

(* The tables counted are the tables listed. *)
LEMMA ItemsCounted ==
  ASSUME NEW E \in SUBSET (Tables \X Tables), NEW C, C = ClosureRows(Tables, E), NEW top
  PROVE  /\ ItemsIn(C, top) \subseteq Tables /\ IsFiniteSet(ItemsIn(C, top))
         /\ Cardinality(DownIn(C, top)) = Cardinality(ItemsIn(C, top))
<1> DEFINE R == DownIn(C, top)
           S == ItemsIn(C, top)
           f == [row \in R |-> row[2]]
<1>1. S \subseteq Tables
  <2> SUFFICES ASSUME NEW t \in S PROVE t \in Tables
    OBVIOUS
  <2>1. PICK row \in DownIn(C, top) : t = row[2]
    BY DEF ItemsIn
  <2>2. row \in ClosureRows(Tables, E)
    BY DEF DownIn
  <2> QED BY <2>1, <2>2, RowsOfPair
<1>2. IsFiniteSet(S)
  BY <1>1, FS_Subset, ServerAssumption
<1>3. f \in [R -> S]
  BY DEF ItemsIn
<1>4. \A x, y \in R : f[x] = f[y] => x = y
  <2> SUFFICES ASSUME NEW x \in R, NEW y \in R, f[x] = f[y] PROVE x = y
    OBVIOUS
  <2>1. x \in ClosureRows(Tables, E) /\ y \in ClosureRows(Tables, E) /\ x[1] = y[1]
    BY DEF DownIn
  <2>2. x[2] = y[2]
    OBVIOUS
  <2> HIDE DEF f, R
  <2> QED BY <2>1, <2>2, RowsOfPair
<1>5. \A y \in S : \E x \in R : f[x] = y
  BY DEF ItemsIn
<1>6. f \in Injection(R, S) /\ f \in Surjection(R, S)
  BY <1>3, <1>4, <1>5 DEF Injection, Surjection, IsInjective
<1>7. Cardinality(R) = Cardinality(S)
  <2> HIDE DEF R, S, f
  <2> QED BY <1>2, <1>6, FS_Injection
<1> QED BY <1>1, <1>2, <1>7

LEMMA Window ==
  ASSUME NEW S, NEW s \in Seq(S), NEW K, K = Len(s),
         NEW first \in Nat, first >= 1, NEW last \in Nat, last <= K
  PROVE  \A x : x \in Range(SubSeq(s, first, last)) <=> \E k \in first..last : x = s[k]
<1>0. PICK u : u = SubSeq(s, first, last)
  OBVIOUS
<1>1. Len(s) = K /\ K \in Nat /\ s \in [1..K -> S]
  OBVIOUS
<1>5. /\ DOMAIN u = 1 .. Len(u) /\ Len(u) = IF first <= last THEN last - first + 1 ELSE 0
      /\ \A i \in 1 .. Len(u) : u[i] = s[first + i - 1]
  BY <1>0, <1>1
<1>6. ASSUME NEW x \in Range(u) PROVE \E k \in first..last : x = s[k]
  <2>1. PICK i \in 1 .. Len(u) : x = u[i]
    BY <1>5, <1>6 DEF Range
  <2>0. PICK k : k = first + i - 1
    OBVIOUS
  <2>2. first <= last /\ i \in 1 .. (last - first + 1)
    BY <1>5, <2>1
  <2>3. k \in first .. last
    BY <2>0, <2>2
  <2>5. x = s[k]
    BY <1>5, <2>0, <2>1
  <2> QED BY <2>3, <2>5
<1>7. ASSUME NEW k \in first..last PROVE s[k] \in Range(u)
  <2>0. PICK i : i = k - first + 1
    OBVIOUS
  <2>1. first <= last /\ i \in 1 .. (last - first + 1) /\ first + i - 1 = k
    BY <2>0
  <2>2. i \in 1 .. Len(u)
    BY <1>5, <2>1
  <2>3. u[i] = s[k]
    BY <1>5, <2>1, <2>2
  <2> QED BY <1>5, <2>2, <2>3 DEF Range
<1> QED BY <1>0, <1>6, <1>7

LEMMA PageIs ==
  ASSUME NEW S, NEW s \in Seq(S), NEW K, K = Len(s), NEW q, NEW n \in Nat, q.size = n
  PROVE  /\ q.page = 1 => \A x : x \in Range(Page(q, s)) <=> \E i \in 1..K : i <= n /\ x = s[i]
         /\ q.page = 2 => \A x : x \in Range(Page(q, s))
                                 <=> \E i \in 1..K : n < i /\ i <= 2 * n /\ x = s[i]
<1>0. ASSUME NEW lo \in Nat, (q.page = 1 /\ lo = 0) \/ (q.page = 2 /\ lo = n),
             NEW hi, hi = lo + n
      PROVE  \A x : x \in Range(Page(q, s)) <=> \E i \in 1..K : lo < i /\ i <= hi /\ x = s[i]
  <2>1. PICK first : first = (q.page - 1) * n + 1
    OBVIOUS
  <2>2. PICK last : last = IF first + n - 1 < Len(s) THEN first + n - 1 ELSE Len(s)
    OBVIOUS
  <2>3. Page(q, s) = SubSeq(s, first, last)
    BY <2>1, <2>2 DEF Page
  <2>4. Len(s) = K /\ K \in Nat
    OBVIOUS
  <2>5. first = lo + 1
    <3>1. CASE q.page = 1 /\ lo = 0
      BY <1>0, <2>1, <3>1
    <3>2. CASE q.page = 2 /\ lo = n
      BY <1>0, <2>1, <3>2
    <3> QED BY <1>0, <3>1, <3>2
  <2>6. last = IF hi < K THEN hi ELSE K
    BY <1>0, <2>2, <2>4, <2>5
  <2>7. first \in Nat /\ first >= 1 /\ last \in Nat /\ last <= K
    BY <1>0, <2>4, <2>5, <2>6
  <2>8. \A x : x \in Range(Page(q, s)) <=> \E k \in first..last : x = s[k]
    <3>1. \A x : x \in Range(SubSeq(s, first, last)) <=> \E k \in first..last : x = s[k]
      BY <2>7, Window
    <3> QED BY <2>3, <3>1, Zenon
  <2>9. \A k : k \in first..last <=> k \in 1..K /\ lo < k /\ k <= hi
    BY <1>0, <2>4, <2>5, <2>6
  <2> QED BY <2>8, <2>9
<1>1. CASE q.page = 1
  <2>1. 0 \in Nat /\ n = 0 + n
    OBVIOUS
  <2>2. \A x : x \in Range(Page(q, s)) <=> \E i \in 1..K : 0 < i /\ i <= n /\ x = s[i]
    BY <1>0, <1>1, <2>1
  <2> QED BY <1>1, <2>2
<1>2. CASE q.page = 2
  <2>1. 2 * n = n + n
    OBVIOUS
  <2>0. PICK m : m = 2 * n
    OBVIOUS
  <2>2. \A x : x \in Range(Page(q, s)) <=> \E i \in 1..K : n < i /\ i <= m /\ x = s[i]
    BY <1>0, <1>2, <2>1, <2>0
  <2> QED BY <1>2, <2>0, <2>2
<1> QED BY <1>1, <1>2

(* Two pages of one list fit together. *)
Fit(q, a, b, C) ==
  LET all == ItemsIn(C, q.table)
      one == Range(a.items)
      two == Range(b.items)
  IN  /\ one \cap two = {} /\ one \cup two \subseteq all
      /\ a.total = Cardinality(all) /\ b.total = Cardinality(all)
      /\ Cardinality(all) <= 2 * q.size => one \cup two = all

LEMMA PagesFit ==
  ASSUME NEW E \in SUBSET (Tables \X Tables), NEW C, C = ClosureRows(Tables, E),
         NEW q, q.group = "table", q.page = 1, q.size \in Nat, NEW a, GoodPage(q, a, C),
         NEW p, p.group = "table", p.page = 2, p.size = q.size, p.table = q.table,
         NEW b, GoodPage(p, b, C)
  PROVE  Fit(q, a, b, C)
<1>. PICK S : S = ItemsIn(C, q.table)
  OBVIOUS
<1>. PICK n : n = q.size
  OBVIOUS
<1>1. IsFiniteSet(S) /\ Cardinality(DownIn(C, q.table)) = Cardinality(S)
  BY ItemsCounted, Zenon
<1>. PICK K : K = Cardinality(S)
  OBVIOUS
<1>2. a.total = K /\ b.total = K
  BY <1>1, Zenon DEF GoodPage
<1>3. PICK s : Sorted(C, q.table, s) /\ a.items = Page(q, s)
  BY DEF GoodPage
<1>4. PICK u : Sorted(C, q.table, u) /\ b.items = Page(p, u)
  BY DEF GoodPage
<1>5. u = s
  BY <1>3, <1>4, OneSorted
<1>6. s \in SetToSeqs(S)
  BY <1>3 DEF Sorted
<1>7. /\ K \in Nat /\ s \in [1..K -> S]
      /\ \A i, j \in 1..K : s[i] = s[j] => i = j
      /\ \A y \in S : \E i \in 1..K : s[i] = y
  <2>1. /\ Cardinality(S) \in Nat /\ s \in [1..Cardinality(S) -> S]
        /\ \A i, j \in 1..Cardinality(S) : s[i] = s[j] => i = j
        /\ \A y \in S : \E i \in 1..Cardinality(S) : s[i] = y
    BY <1>1, <1>6, SeqsOf
  <2> QED BY <2>1, Zenon
<1>8. n \in Nat
  OBVIOUS
<1>15. s \in Seq(S) /\ Len(s) = K
  BY <1>7
<1>9. \A x : x \in Range(a.items) <=> \E i \in 1..K : i <= n /\ x = s[i]
  <2>1. \A x : x \in Range(Page(q, s)) <=> \E i \in 1..K : i <= n /\ x = s[i]
    BY <1>15, <1>8, PageIs
  <2> QED BY <1>3, <2>1
<1>10. \A x : x \in Range(b.items) <=> \E i \in 1..K : n < i /\ i <= 2 * n /\ x = s[i]
  <2>1. \A x : x \in Range(Page(p, s)) <=> \E i \in 1..K : n < i /\ i <= 2 * n /\ x = s[i]
    BY <1>15, <1>8, PageIs
  <2> QED BY <1>4, <1>5, <2>1
<1>. PICK one, two : one = Range(a.items) /\ two = Range(b.items)
  OBVIOUS
<1>11. one \cap two = {}
  BY <1>7, <1>8, <1>9, <1>10
<1>12. one \cup two \subseteq S
  BY <1>7, <1>8, <1>9, <1>10
<1>13. ASSUME K <= 2 * n PROVE S \subseteq one \cup two
  <2> SUFFICES ASSUME NEW y \in S PROVE y \in one \/ y \in two
    OBVIOUS
  <2>1. PICK i \in 1..K : s[i] = y
    BY <1>7
  <2>2. (0 < i /\ i <= n) \/ (n < i /\ i <= 2 * n)
    BY <1>7, <1>8, <1>13
  <2> QED BY <1>9, <1>10, <2>1, <2>2
<1>14. K <= 2 * n => one \cup two = S
  BY <1>12, <1>13
<1> QED BY <1>2, <1>11, <1>12, <1>14 DEF Fit

-----------------------------------------------------------------------------
(* The families of _merge_families, for candidates D and the links L       *)
(* between them: who has one root is joined by links, and every link but   *)
(* those of the pairs still to do has one root at both ends.               *)
Mutual(D, L) == L \subseteq D \X D /\ \A i, j \in D : <<i, j>> \in L => <<j, i>> \in L
RootsFit(root, D, L, todo) ==
  /\ DOMAIN root = D /\ \A i \in D : root[i] \in D
  /\ \A i, j \in D : root[i] = root[j] => Reaches(D, L, i, j)
  /\ \A i, j \in D : <<i, j>> \in L =>
       <<i, j>> \in todo \/ <<j, i>> \in todo \/ root[i] = root[j]
FamilyOf(D, L, i) == { j \in D : Reaches(D, L, i, j) }

LEMMA RootsBegin ==
  ASSUME NEW D, D \subseteq Nat, NEW L, Mutual(D, L)
  PROVE  RootsFit([i \in D |-> i], D, L, { p \in D \X D : p[1] < p[2] })
<1> DEFINE root == [i \in D |-> i]
           todo == { p \in D \X D : p[1] < p[2] }
<1>1. \A i, j \in D : root[i] = root[j] => Reaches(D, L, i, j)
  BY ReachesSelf
<1>2. ASSUME NEW i \in D, NEW j \in D
      PROVE  <<i, j>> \in todo \/ <<j, i>> \in todo \/ root[i] = root[j]
  <2>1. i \in Nat /\ j \in Nat
    OBVIOUS
  <2>2. i < j \/ j < i \/ i = j
    BY <2>1
  <2> QED BY <2>2
<1> QED BY <1>1, <1>2 DEF RootsFit

(* A pair that is not linked, or whose ends are in one family already.     *)
LEMMA RootsSkip ==
  ASSUME NEW D, NEW L, Mutual(D, L), NEW root, NEW todo, RootsFit(root, D, L, todo),
         NEW i \in D, NEW j \in D, <<i, j>> \notin L \/ root[i] = root[j]
  PROVE  RootsFit(root, D, L, todo \ {<<i, j>>})
<1>1. ASSUME NEW a \in D, NEW b \in D, <<a, b>> \in L, root[a] # root[b]
      PROVE  <<a, b>> # <<i, j>> /\ <<b, a>> # <<i, j>>
  <2>1. <<b, a>> \in L
    BY <1>1 DEF Mutual
  <2> QED BY <1>1, <2>1
<1> QED BY <1>1 DEF RootsFit

(* A pair that is linked. *)
LEMMA RootsJoin ==
  ASSUME NEW D, NEW L, Mutual(D, L), NEW root, NEW todo, RootsFit(root, D, L, todo),
         NEW i \in D, NEW j \in D, <<i, j>> \in L
  PROVE  RootsFit(Unite(root, i, j), D, L, todo \ {<<i, j>>})
<1>. PICK new : new = Unite(root, i, j)
  OBVIOUS
<1>1. /\ DOMAIN root = D /\ \A a \in D : root[a] \in D
      /\ \A a, b \in D : root[a] = root[b] => Reaches(D, L, a, b)
      /\ \A a, b \in D : <<a, b>> \in L =>
           <<a, b>> \in todo \/ <<b, a>> \in todo \/ root[a] = root[b]
  BY DEF RootsFit
<1>2. /\ DOMAIN new = D
      /\ \A a \in D : new[a] = IF root[a] = root[j] THEN root[i] ELSE root[a]
  BY <1>1 DEF Unite
<1>3. <<j, i>> \in L
  BY DEF Mutual
<1>4. ASSUME NEW a \in D, NEW b \in D, new[a] = new[b] PROVE Reaches(D, L, a, b)
  <2>1. CASE root[a] = root[b]
    BY <1>1, <2>1
  <2>2. CASE root[a] = root[j] /\ root[b] = root[i]
    <3>1. Reaches(D, L, a, j) /\ Reaches(D, L, i, b)
      BY <1>1, <2>2
    <3>2. Reaches(D, L, a, i)
      BY <1>3, <3>1, ReachesStep
    <3> QED BY <3>1, <3>2, ReachesTransitive
  <2>3. CASE root[b] = root[j] /\ root[a] = root[i]
    <3>1. Reaches(D, L, a, i) /\ Reaches(D, L, j, b)
      BY <1>1, <2>3
    <3>2. Reaches(D, L, a, j)
      BY <3>1, ReachesStep
    <3> QED BY <3>1, <3>2, ReachesTransitive
  <2> QED BY <1>2, <1>4, <2>1, <2>2, <2>3
<1>5. ASSUME NEW a \in D, NEW b \in D, <<a, b>> \in L
      PROVE  <<a, b>> \in todo \ {<<i, j>>} \/ <<b, a>> \in todo \ {<<i, j>>} \/ new[a] = new[b]
  <2>1. new[i] = new[j]
    BY <1>2
  <2>2. root[a] = root[b] => new[a] = new[b]
    BY <1>2
  <2> QED BY <1>1, <1>5, <2>1, <2>2
<1>6. \A a \in D : new[a] \in D
  BY <1>1, <1>2
<1> QED BY <1>2, <1>4, <1>5, <1>6 DEF RootsFit

(* In the end the roots are the families. *)
LEMMA RootsEnd ==
  ASSUME NEW D, IsFiniteSet(D), NEW L, Mutual(D, L), NEW root, RootsFit(root, D, L, {})
  PROVE  /\ Group(root) = { FamilyOf(D, L, i) : i \in D }
         /\ Cardinality(Group(root)) > 1 <=> \E i, j \in D : j \notin FamilyOf(D, L, i)
<1>1. /\ DOMAIN root = D /\ \A a \in D : root[a] \in D
      /\ \A a, b \in D : root[a] = root[b] => Reaches(D, L, a, b)
      /\ \A a, b \in D : <<a, b>> \in L => root[a] = root[b]
  BY DEF RootsFit
<1>2. ASSUME NEW i \in D, NEW j \in D, Reaches(D, L, i, j) PROVE root[i] = root[j]
  <2> DEFINE S == { k \in D : root[k] = root[i] }
  <2>1. Closed(L, S)
    <3> SUFFICES ASSUME NEW e \in L, e[1] \in S PROVE e[2] \in S
      BY DEF Closed
    <3>1. e[1] \in D /\ e[2] \in D /\ <<e[1], e[2]>> \in L
      BY DEF Mutual
    <3> QED BY <1>1, <3>1
  <2>2. S \in SUBSET D /\ i \in S
    OBVIOUS
  <2>3. j \in S
    <3> HIDE DEF S
    <3> QED BY <1>2, <2>1, <2>2, ReachesWithin
  <2> QED BY <2>3
<1>3. \A i, j \in D : j \in FamilyOf(D, L, i) <=> root[i] = root[j]
  BY <1>1, <1>2 DEF FamilyOf
<1>4. \A i \in D : FamilyOf(D, L, i) = { j \in DOMAIN root : root[j] = root[i] }
  BY <1>1, <1>3 DEF FamilyOf
<1>. PICK G : G = Group(root)
  OBVIOUS
<1>5. G = { FamilyOf(D, L, i) : i \in D }
  <2>1. ASSUME NEW X \in G PROVE X \in { FamilyOf(D, L, i) : i \in D }
    <3>1. PICK x \in Range(root) : X = { j \in DOMAIN root : root[j] = x }
      BY DEF Group
    <3>2. PICK i \in D : x = root[i]
      BY <1>1 DEF Range
    <3> QED BY <1>4, <3>1, <3>2
  <2>2. ASSUME NEW i \in D PROVE FamilyOf(D, L, i) \in G
    <3>1. root[i] \in Range(root)
      BY <1>1 DEF Range
    <3> QED BY <1>4, <3>1 DEF Group
  <2> QED BY <2>1, <2>2
<1>6. IsFiniteSet(G)
  <2> DEFINE f == [i \in D |-> FamilyOf(D, L, i)]
  <2>1. f \in Surjection(D, G)
    BY <1>5 DEF Surjection
  <2> HIDE DEF f
  <2> QED BY <2>1, FS_Surjection
<1>7. ASSUME Cardinality(G) > 1 PROVE \E i, j \in D : j \notin FamilyOf(D, L, i)
  <2>1. G # {}
    BY <1>7, FS_EmptySet
  <2>2. PICK X \in G : TRUE
    BY <2>1
  <2>3. G # {X}
    <3>1. Cardinality({X}) = 1
      BY FS_Singleton
    <3>2. G = {X} => Cardinality(G) = 1
      BY <3>1, Zenon
    <3> QED BY <1>7, <3>2
  <2>4. PICK Y \in G : Y # X
    BY <2>2, <2>3
  <2>5. PICK i \in D, j \in D : X = FamilyOf(D, L, i) /\ Y = FamilyOf(D, L, j)
    BY <1>5
  <2>6. root[i] # root[j]
    BY <1>4, <2>4, <2>5
  <2> QED BY <1>3, <2>6
<1>8. ASSUME NEW i \in D, NEW j \in D, j \notin FamilyOf(D, L, i) PROVE Cardinality(G) > 1
  <2>. PICK X, Y : X = FamilyOf(D, L, i) /\ Y = FamilyOf(D, L, j)
    OBVIOUS
  <2>1. X # Y
    BY <1>3, <1>8
  <2>2. {X, Y} \in SUBSET G
    BY <1>5
  <2>3. IsFiniteSet({X}) /\ Cardinality({X}) = 1
    BY FS_Singleton
  <2>4. {X} \cup {Y} = {X, Y}
    OBVIOUS
  <2>5. Cardinality({X} \cup {Y}) = 2
    BY <2>1, <2>3, FS_AddElement
  <2>6. Cardinality({X, Y}) = 2
    BY <2>4, <2>5, Zenon
  <2>7. Cardinality({X, Y}) <= Cardinality(G) /\ Cardinality(G) \in Nat
    BY <1>6, <2>2, FS_Subset, FS_CardinalityType
  <2> QED BY <2>6, <2>7
<1> QED BY <1>5, <1>7, <1>8

(* Pairs of numbers have a first one. *)
LEMMA FirstPair ==
  ASSUME NEW T, T \subseteq Nat \X Nat, T # {}
  PROVE  \E p \in T : \A x \in T \ {p} : Precedes(p, x)
<1> DEFINE A == { p[1] : p \in T }
<1>1. A \subseteq Nat /\ A # {}
  OBVIOUS
<1>2. PICK a \in A : \A x \in A : a <= x
  <2> HIDE DEF A
  <2> QED BY <1>1, Least
<1> DEFINE B == { p[2] : p \in { x \in T : x[1] = a } }
<1>3. B \subseteq Nat /\ B # {}
  BY <1>2
<1>4. PICK b \in B : \A x \in B : b <= x
  <2> HIDE DEF B
  <2> QED BY <1>3, Least
<1>5. <<a, b>> \in T
  BY <1>4
<1>6. ASSUME NEW x \in T \ {<<a, b>>} PROVE Precedes(<<a, b>>, x)
  <2>1. x[1] \in Nat /\ x[2] \in Nat /\ a \in Nat /\ b \in Nat /\ x = <<x[1], x[2]>>
    BY <1>1, <1>3
  <2>2. a <= x[1] /\ (x[1] = a => b <= x[2])
    BY <1>2, <1>4
  <2>3. x[1] # a \/ x[2] # b
    BY <2>1
  <2> QED BY <2>1, <2>2, <2>3 DEF Precedes
<1> QED BY <1>5, <1>6

-----------------------------------------------------------------------------
(* How long an answer stored at s is kept. *)
TtlAt(s) == LET left == DayLength - (s % DayLength) IN IF left > MinTtl THEN left ELSE MinTtl

LEMMA Divided ==
  ASSUME NEW s \in Nat, NEW d \in Nat, d > 0
  PROVE  /\ s \div d \in Nat /\ s % d \in Nat /\ s % d < d
         /\ s = d * (s \div d) + (s % d)
  BY SMT

LEMMA Multiplied ==
  ASSUME NEW j \in Nat, NEW k \in Nat, NEW d \in Nat, j < k
  PROVE  d * j + d <= d * k
  BY SMT

LEMMA TtlBounds ==
  ASSUME NEW s \in Nat
  PROVE  TtlAt(s) \in Nat /\ TtlAt(s) <= DayLength
<1>1. DayLength \in Nat /\ DayLength > 0 /\ MinTtl \in Nat /\ MinTtl < DayLength
  BY ServerAssumption
<1>2. s % DayLength \in Nat /\ s % DayLength < DayLength
  BY <1>1, Divided
<1> QED BY <1>1, <1>2 DEF TtlAt

(* What still lives a tick after the hour was stored after it: the TTL ends *)
(* at the hour, or a tick later where it is the shortest.                  *)
LEMMA StoredSince ==
  ASSUME NEW s \in Nat, NEW d \in Nat, NEW nw \in Nat, nw < s + TtlAt(s),
         NEW hour, hour = DayLength * d, hour + 1 <= nw
  PROVE  hour <= s
<1>1. DayLength \in Nat /\ DayLength > 0 /\ MinTtl \in 1..2
  BY ServerAssumption
<1>. PICK k, m : k = s \div DayLength /\ m = s % DayLength
  OBVIOUS
<1>2. k \in Nat /\ m \in Nat /\ m < DayLength /\ s = DayLength * k + m
  BY <1>1, Divided
<1>. PICK day : day = DayLength * k
  OBVIOUS
<1>3. day \in Nat /\ s = day + m
  BY <1>1, <1>2
<1>4. hour \in Nat
  BY <1>1
<1>5. CASE k < d
  <2>1. day + DayLength <= hour
    BY <1>1, <1>2, <1>5, Multiplied
  <2>2. TtlAt(s) = IF DayLength - m > MinTtl THEN DayLength - m ELSE MinTtl
    BY DEF TtlAt
  <2>3. MinTtl = 1 \/ MinTtl = 2
    BY <1>1
  <2>4. s + TtlAt(s) <= day + DayLength + 1
    BY <1>1, <1>2, <1>3, <2>2, <2>3
  <2> QED BY <1>1, <1>3, <1>4, <2>1, <2>4, TtlBounds
<1>6. CASE d = k
  <2>1. hour = day
    BY <1>6, Zenon
  <2>2. day <= s
    BY <1>2, <1>3
  <2> QED BY <2>1, <2>2
<1>7. CASE d < k
  <2>1. hour + DayLength <= day
    BY <1>1, <1>2, <1>7, Multiplied
  <2> QED BY <1>1, <1>2, <1>3, <1>4, <2>1
<1> QED BY <1>2, <1>5, <1>6, <1>7

(* Nothing was published from the minute before an hour on, which was over *)
(* for a minute at b.                                                      *)
SettledAt(last, b) == \E d \in Nat : last < DayLength * d - 1 /\ DayLength * d + 1 <= b

LEMMA SettledSince ==
  ASSUME NEW last \in Int, NEW nw \in Nat, SettledAt(last, nw),
         NEW b \in Nat, NEW s \in Nat, s <= b + 1, nw < s + TtlAt(s)
  PROVE  last < b
<1>1. PICK d \in Nat : last < DayLength * d - 1 /\ DayLength * d + 1 <= nw
  BY DEF SettledAt
<1>2. PICK hour : hour = DayLength * d
  OBVIOUS
<1>3. hour \in Nat
  BY <1>2, ServerAssumption
<1>4. hour <= s
  BY <1>1, <1>2, StoredSince
<1> QED BY <1>1, <1>2, <1>3, <1>4

LEMMA SettledBefore ==
  ASSUME NEW last \in Int, NEW b \in Nat, SettledAt(last, b)
  PROVE  last < b
<1>1. PICK d \in Nat : last < DayLength * d - 1 /\ DayLength * d + 1 <= b
  BY DEF SettledAt
<1>2. DayLength * d \in Nat
  BY ServerAssumption
<1> QED BY <1>1, <1>2

-----------------------------------------------------------------------------
(* The candidates of a search, the links between them, and what the        *)
(* statements asked so far have told.                                      *)
RelatedIn(C, x, y) == x = y \/ InRows(C, x, y) \/ InRows(C, y, x)
LinksIn(c, C) ==
  { p \in (DOMAIN c) \X (DOMAIN c) : /\ 0 \notin {c[p[1]].table, c[p[2]].table}
                                     /\ RelatedIn(C, c[p[1]].table, c[p[2]].table) }
AskedRight(c, asked, C) ==
  \A i, j \in DOMAIN c :
    {c[i].table, c[j].table} \in DOMAIN asked
      => asked[{c[i].table, c[j].table}] = RelatedIn(C, c[i].table, c[j].table)
PairsDone(c, l, C) ==
  RootsFit(l.root, DOMAIN c, LinksIn(c, C), l.todo) /\ AskedRight(c, l.asked, C)

GoodFamilies(c, a, C) ==
  LET D == DOMAIN c
      L == LinksIn(c, C)
  IN  /\ DOMAIN a.anchor = { FamilyOf(D, L, i) : i \in D }
      /\ \A fam \in { FamilyOf(D, L, i) : i \in D } : a.anchor[fam] \in Anchors(fam, c)
      /\ a.ambiguous <=> \E i, j \in D : j \notin FamilyOf(D, L, i)

(* What is right about an answer while nothing was published, and always.  *)
GoodAnswer(q, a, E, C) ==
  /\ q.kind = "lineage" => GoodLineage(q, a, E)
  /\ q.kind = "path" => ShortestPath(q, a, E, C)
  /\ q.kind = "impact" => GoodPage(q, a, C)
  /\ q.kind = "search" => GoodFamilies(Candidates(q.keyword), a, C)
SoundAnswer(q, a) == a.kind = q.kind /\ (q.kind = "path" => SoundPath(q, a, UNION Graphs))

(* The local variables of a call at each place.                            *)
Ends(q) == q \in PathQueries /\ q.from \in Tables /\ q.to \in Tables /\ q.from # q.to
AtLevel(q, l, f, E, C) ==
  \/ /\ q \in LineageQueries /\ q.table \in Tables /\ l \in LevelRecords
     /\ f => LevelsDone(q, l, E)
  \/ /\ Ends(q) /\ l \in PathRecords
     /\ PathBegun(q, l, UNION Graphs, E, f)
     /\ f => InRows(C, q.from, q.to)
AtPairs(q, l, f, C) ==
  LET c == Candidates(q.keyword)
  IN  /\ q \in SearchQueries /\ DOMAIN l = {"store", "root", "asked", "todo"}
      /\ l.todo \subseteq { p \in (DOMAIN c) \X (DOMAIN c) : p[1] < p[2] }
      /\ f => PairsDone(c, l, C)
AtPlace(p, q, l, f, E, C) ==
  /\ p = "lookup" => q \in CachedQueries
  /\ p \in {"start", "level", "node", "page", "pairs"}
       => l.store \in BOOLEAN /\ (l.store => q \in CachedQueries)
  /\ p = "level" => AtLevel(q, l, f, E, C)
  /\ p = "node" => Ends(q) /\ (f => InRows(C, q.from, q.to))
  /\ p = "page" => q \in ImpactQueries /\ (f => l.total = Cardinality(DownIn(C, q.table)))
  /\ p = "pairs" => AtPairs(q, l, f, C)
  /\ p = "computed" => q \in CachedQueries /\ SoundAnswer(q, l) /\ (f => GoodAnswer(q, l, E, C))

(* One call, that began at b, with f for fresh.                            *)
Stands(p, q, l, a, b, f, E, C, last, nw) ==
  /\ b \in Nat /\ b <= nw
  /\ q = None => p = "idle" /\ a = None
  /\ p # "idle" =>
       /\ nw <= b + 1 /\ (p # "computed" => nw = b) /\ (last < b => f)
       /\ AtPlace(p, q, l, f, E, C)
  /\ p = "idle" /\ q # None =>
       SoundAnswer(q, a) /\ (f \/ SettledAt(last, b) => GoodAnswer(q, a, E, C))

(* A stored answer: computed by a call that began at most a tick before.   *)
StoredEntry(q, e, E, C, last, nw) ==
  /\ SoundAnswer(q, e.answer)
  /\ \E b, s \in Nat : /\ b <= s /\ s <= b + 1 /\ s <= nw /\ e.expires = s + TtlAt(s)
                       /\ last < b => GoodAnswer(q, e.answer, E, C)

CallPlaces == {"idle", "lookup", "start", "level", "node", "page", "pairs", "computed"}
ServedOK ==
  /\ edges \in Graphs /\ closure \in { Closures[g] : g \in Graphs }
  /\ now \in 0..LastTick /\ client \in {"none", "connected", "failed"}
  /\ changes \in 0..Changes /\ lastChange \in Int /\ lastChange <= now
ReadersOK ==
  /\ phase \in [Readers -> CallPlaces] /\ query \in [Readers -> Queries \cup {None}]
  /\ DOMAIN local = Readers /\ DOMAIN answer = Readers
  /\ DOMAIN began = Readers /\ fresh \in [Readers -> BOOLEAN]
StandsNow(r) ==
  Stands(phase[r], query[r], local[r], answer[r], began[r], fresh[r],
         edges, closure, lastChange, now)
CacheOK ==
  /\ DOMAIN cache = CachedQueries
  /\ \A q \in CachedQueries :
       cache[q] # None => StoredEntry(q, cache[q], edges, closure, lastChange, now)
ServerInv == ServedOK /\ ReadersOK /\ CacheOK /\ \A r \in Readers : StandsNow(r)

LEMMA KindOf ==
  ASSUME NEW q \in Queries
  PROVE  /\ \/ (q.kind = "lineage" /\ q \in LineageQueries)
            \/ (q.kind = "path" /\ q \in PathQueries)
            \/ (q.kind = "impact" /\ q \in ImpactQueries)
            \/ (q.kind = "search" /\ q \in SearchQueries)
         /\ q # None
         /\ (q \in CachedQueries) <=> (q.kind = "lineage" \/ q.kind = "impact")
<1>1. PICK r \in Readers : q \in QueriesOf[r]
  BY DEF Queries
<1>2. q \in LineageQueries \/ q \in PathQueries \/ q \in ImpactQueries \/ q \in SearchQueries
  BY <1>1, CallAssumption
<1>3. /\ q \in LineageQueries => q.kind = "lineage"
      /\ q \in PathQueries => q.kind = "path"
      /\ q \in ImpactQueries => q.kind = "impact"
      /\ q \in SearchQueries => q.kind = "search"
  BY DEF LineageQueries, PathQueries, ImpactQueries, SearchQueries
<1>4. None.kind = "none"
  BY DEF None
<1>5. q # None
  BY <1>2, <1>3, <1>4
<1> QED BY <1>2, <1>3, <1>5 DEF CachedQueries

LEMMA InitInv == ServerInit => ServerInv
<1> SUFFICES ASSUME ServerInit PROVE ServerInv
  OBVIOUS
<1> USE DEF ServerInit
<1>1. ServedOK
  BY ServerAssumption DEF ServedOK, Closures
<1>2. ReadersOK
  BY DEF ReadersOK, CallPlaces
<1>3. CacheOK
  BY DEF CacheOK
<1>4. \A r \in Readers : StandsNow(r)
  BY DEF StandsNow, Stands
<1> QED BY <1>1, <1>2, <1>3, <1>4 DEF ServerInv

LEMMA InvTypes == ServerInv => ServerTypeOK
<1> SUFFICES ASSUME ServerInv PROVE ServerTypeOK
  OBVIOUS
<1>1. ASSUME NEW q \in CachedQueries, cache[q] # None PROVE cache[q].expires <= now + DayLength
  <2>1. PICK b, s \in Nat : s <= now /\ cache[q].expires = s + TtlAt(s)
    BY <1>1 DEF ServerInv, CacheOK, StoredEntry
  <2>2. TtlAt(s) \in Nat /\ TtlAt(s) <= DayLength
    BY TtlBounds
  <2>3. now \in Nat /\ DayLength \in Nat
    BY ServerAssumption DEF ServerInv, ServedOK
  <2> QED BY <2>1, <2>2, <2>3
<1>2. \A r \in Readers : began[r] <= now /\ fresh[r] \in BOOLEAN
  BY DEF ServerInv, StandsNow, Stands, ReadersOK
<1> QED BY <1>1, <1>2 DEF ServerTypeOK, ServerInv, ServedOK, ReadersOK, CallPlaces

-----------------------------------------------------------------------------
(* A step of one call leaves the others where they are. *)
LEMMA OneReader ==
  ASSUME ServerInv, NEW r \in Readers, UNCHANGED <<served, now>>,
         client' \in {"none", "connected", "failed"}, ReadersOK', CacheOK', StandsNow(r)',
         \A x \in Readers \ {r} :
           /\ phase'[x] = phase[x] /\ query'[x] = query[x] /\ local'[x] = local[x]
           /\ answer'[x] = answer[x] /\ began'[x] = began[x] /\ fresh'[x] = fresh[x]
  PROVE  ServerInv'
<1>1. ServedOK'
  BY DEF ServerInv, ServedOK, served
<1>2. ASSUME NEW x \in Readers PROVE StandsNow(x)'
  <2>1. CASE x = r
    BY <2>1
  <2>2. CASE x # r
    <3>1. StandsNow(x)
      BY DEF ServerInv
    <3> QED BY <2>2, <3>1 DEF StandsNow, served
  <2> QED BY <2>1, <2>2
<1> QED BY <1>1, <1>2 DEF ServerInv

(* What a call under way is known to be. *)
LEMMA UnderWay ==
  ASSUME ServerInv, NEW r \in Readers, phase[r] # "idle"
  PROVE  /\ query[r] \in Queries /\ query[r] # None /\ fresh[r] \in BOOLEAN
         /\ began[r] \in Nat /\ began[r] <= now /\ now <= began[r] + 1
         /\ phase[r] # "computed" => now = began[r]
         /\ lastChange < began[r] => fresh[r]
         /\ AtPlace(phase[r], query[r], local[r], fresh[r], edges, closure)
         /\ phase \in [Readers -> CallPlaces] /\ now \in Nat /\ lastChange \in Int
         /\ edges \in Graphs /\ edges \in SUBSET (Tables \X Tables)
         /\ edges \subseteq UNION Graphs
         /\ \E E \in SUBSET (Tables \X Tables) : closure = ClosureRows(Tables, E)
<1>1. StandsNow(r) /\ ServedOK /\ ReadersOK
  BY DEF ServerInv
<1>2. /\ began[r] \in Nat /\ began[r] <= now
      /\ query[r] # None /\ now <= began[r] + 1
      /\ phase[r] # "computed" => now = began[r]
      /\ lastChange < began[r] => fresh[r]
      /\ AtPlace(phase[r], query[r], local[r], fresh[r], edges, closure)
  BY <1>1 DEF StandsNow, Stands
<1>3. query[r] \in Queries /\ fresh[r] \in BOOLEAN /\ phase \in [Readers -> CallPlaces]
  BY <1>1, <1>2 DEF ReadersOK
<1>4. now \in Nat /\ lastChange \in Int /\ edges \in Graphs
  BY <1>1, ServerAssumption DEF ServedOK
<1>5. edges \in SUBSET (Tables \X Tables) /\ edges \subseteq UNION Graphs
  BY <1>4, ServerAssumption
<1>6. PICK g \in Graphs : closure = ClosureRows(Tables, g)
  BY <1>1 DEF ServedOK, Closures
<1>7. g \in SUBSET (Tables \X Tables)
  BY ServerAssumption
<1> QED BY <1>2, <1>3, <1>4, <1>5, <1>6, <1>7

(* The call r goes on at p with l, and has not returned. *)
MovesTo(r, p, l) ==
  /\ phase' \in [Readers -> CallPlaces] /\ phase'[r] = p
  /\ DOMAIN local' = Readers /\ local'[r] = l
  /\ \A x \in Readers \ {r} : phase'[x] = phase[x] /\ local'[x] = local[x]
  /\ client' \in {"none", "connected", "failed"}
  /\ UNCHANGED <<served, now, cache, query, answer, began, fresh>>

LEMMA MovesInv ==
  ASSUME ServerInv, NEW r \in Readers, phase[r] # "idle", phase[r] # "computed",
         NEW p, p # "idle", p # "computed", NEW l, MovesTo(r, p, l),
         AtPlace(p, query[r], l, fresh[r], edges, closure)
  PROVE  ServerInv'
<1>1. ReadersOK'
  BY DEF ServerInv, ReadersOK, MovesTo
<1>2. CacheOK'
  BY DEF ServerInv, CacheOK, MovesTo, served
<1>3. StandsNow(r)'
  <2>1. StandsNow(r)
    BY DEF ServerInv
  <2>2. Stands(p, query[r], l, answer[r], began[r], fresh[r], edges, closure, lastChange, now)
    BY <2>1 DEF StandsNow, Stands
  <2> QED BY <2>2 DEF StandsNow, MovesTo, served
<1> QED BY <1>1, <1>2, <1>3, OneReader DEF MovesTo

(* It has its answer. *)
LEMMA ResultInv ==
  ASSUME ServerInv, NEW r \in Readers, phase[r] # "idle", phase[r] # "computed",
         phase[r] # "lookup",
         NEW a, Result(r, a), UNCHANGED <<served, now, client, cache, query, began, fresh>>,
         SoundAnswer(query[r], a), fresh[r] => GoodAnswer(query[r], a, edges, closure)
  PROVE  ServerInv'
<1>0. /\ StandsNow(r) /\ ReadersOK /\ query[r] # None /\ now = began[r]
      /\ (lastChange < began[r] => fresh[r]) /\ began[r] \in Nat
      /\ AtPlace(phase[r], query[r], local[r], fresh[r], edges, closure)
      /\ phase \in [Readers -> CallPlaces] /\ lastChange \in Int
  BY UnderWay DEF ServerInv
<1>1. local[r].store \in BOOLEAN /\ (local[r].store => query[r] \in CachedQueries)
  BY <1>0 DEF AtPlace, CallPlaces
<1>2. CASE local[r].store
  <2>1. /\ phase' = [phase EXCEPT ![r] = "computed"] /\ local' = [local EXCEPT ![r] = a]
        /\ answer' = answer
    BY <1>2 DEF Result, Goto, Keep
  <2>2. ReadersOK'
    BY <1>0, <2>1 DEF ReadersOK, CallPlaces
  <2>3. Stands("computed", query[r], a, answer[r], began[r], fresh[r],
               edges, closure, lastChange, now)
    BY <1>0, <1>1, <1>2 DEF StandsNow, Stands, AtPlace
  <2>4. phase'[r] = "computed" /\ local'[r] = a
    BY <1>0, <2>1 DEF ReadersOK
  <2>5. StandsNow(r)'
    BY <2>1, <2>3, <2>4 DEF StandsNow, served
  <2>6. CacheOK'
    BY DEF ServerInv, CacheOK, served
  <2>7. client' \in {"none", "connected", "failed"}
    BY DEF ServerInv, ServedOK
  <2>8. \A x \in Readers \ {r} :
           /\ phase'[x] = phase[x] /\ query'[x] = query[x] /\ local'[x] = local[x]
           /\ answer'[x] = answer[x] /\ began'[x] = began[x] /\ fresh'[x] = fresh[x]
    BY <1>0, <2>1 DEF ReadersOK
  <2> QED BY <2>2, <2>5, <2>6, <2>7, <2>8, OneReader
<1>3. CASE ~local[r].store
  <2>1. /\ phase' = [phase EXCEPT ![r] = "idle"] /\ local' = [local EXCEPT ![r] = None]
        /\ answer' = [answer EXCEPT ![r] = a]
    BY <1>3 DEF Result, Reply, Goto, Keep
  <2>2. ReadersOK'
    BY <1>0, <2>1 DEF ReadersOK, CallPlaces
  <2>3. SettledAt(lastChange, began[r]) => fresh[r]
    BY <1>0, SettledBefore
  <2>4. Stands("idle", query[r], None, a, began[r], fresh[r], edges, closure, lastChange, now)
    BY <1>0, <2>3 DEF StandsNow, Stands
  <2>5. phase'[r] = "idle" /\ local'[r] = None /\ answer'[r] = a
    BY <1>0, <2>1 DEF ReadersOK
  <2>6. StandsNow(r)'
    BY <2>4, <2>5 DEF StandsNow, served
  <2>7. CacheOK'
    BY DEF ServerInv, CacheOK, served
  <2>8. client' \in {"none", "connected", "failed"}
    BY DEF ServerInv, ServedOK
  <2>9. \A x \in Readers \ {r} :
           /\ phase'[x] = phase[x] /\ query'[x] = query[x] /\ local'[x] = local[x]
           /\ answer'[x] = answer[x] /\ began'[x] = began[x] /\ fresh'[x] = fresh[x]
    BY <1>0, <2>1 DEF ReadersOK
  <2> QED BY <2>2, <2>6, <2>7, <2>8, <2>9, OneReader
<1> QED BY <1>1, <1>2, <1>3

-----------------------------------------------------------------------------
LEMMA Going ==
  ASSUME ServerInv, NEW r \in Readers, NEW p, p \in CallPlaces, NEW l, Goto(r, p), Keep(r, l),
         UNCHANGED <<served, now, cache, query, answer, began, fresh>>,
         client' \in {"none", "connected", "failed"}
  PROVE  MovesTo(r, p, l)
BY DEF ServerInv, ReadersOK, MovesTo, Goto, Keep

LEMMA MissInv ==
  ASSUME ServerInv, NEW r \in Readers, Miss(r)
  PROVE  ServerInv'
<1>1. query[r] \in CachedQueries
  BY UnderWay DEF Miss, AtPlace
<1>2. MovesTo(r, "start", [store |-> TRUE])
  BY Going DEF Miss, CallPlaces
<1>3. AtPlace("start", query[r], [store |-> TRUE], fresh[r], edges, closure)
  BY <1>1 DEF AtPlace
<1> QED BY <1>2, <1>3, MovesInv DEF Miss

LEMMA NoCacheInv ==
  ASSUME ServerInv, NEW r \in Readers, NoCache(r)
  PROVE  ServerInv'
<1>1. client' \in {"none", "connected", "failed"}
  BY DEF NoCache, ServerInv, ServedOK
<1>2. MovesTo(r, "start", [store |-> FALSE])
  BY <1>1, Going DEF NoCache, CallPlaces
<1>3. AtPlace("start", query[r], [store |-> FALSE], fresh[r], edges, closure)
  BY DEF AtPlace
<1> QED BY <1>2, <1>3, MovesInv DEF NoCache

LEMMA FindStartInv ==
  ASSUME ServerInv, NEW r \in Readers, FindStart(r)
  PROVE  ServerInv'
<1> DEFINE l == [store |-> local[r].store, visited |-> {query[r].table},
                 frontier |-> {query[r].table}, hops |-> {}, level |-> 1, truncated |-> FALSE]
<1>1. /\ phase[r] = "start" /\ query[r] \in Queries /\ fresh[r] \in BOOLEAN
      /\ AtPlace(phase[r], query[r], local[r], fresh[r], edges, closure)
      /\ edges \in SUBSET (Tables \X Tables)
  BY UnderWay DEF FindStart
<1>2. query[r] \in LineageQueries /\ query[r].table \in Tables
  BY <1>1, KindOf DEF FindStart
<1>3. l.store \in BOOLEAN /\ (l.store => query[r] \in CachedQueries)
  BY <1>1 DEF AtPlace
<1>4. l \in LevelRecords
  BY <1>2, <1>3 DEF LevelRecords
<1>5. /\ l.visited = {query[r].table} /\ l.frontier = {query[r].table}
      /\ l.hops = {} /\ l.level = 1 /\ ~l.truncated
  OBVIOUS
<1>6. Goto(r, "level") /\ Keep(r, l)
  BY DEF FindStart
<1> HIDE DEF l
<1>7. LevelsDone(query[r], l, edges)
  BY <1>1, <1>2, <1>4, <1>5, LevelsBegin
<1>8. AtPlace("level", query[r], l, fresh[r], edges, closure)
  BY <1>2, <1>3, <1>4, <1>7 DEF AtPlace, AtLevel
<1>9. client' \in {"none", "connected", "failed"}
  BY DEF FindStart, ServerInv, ServedOK
<1>10. MovesTo(r, "level", l)
  BY <1>6, <1>9, Going DEF FindStart, CallPlaces
<1> QED BY <1>1, <1>8, <1>10, MovesInv

LEMMA ReadLevelInv ==
  ASSUME ServerInv, NEW r \in Readers, ReadLevel(r)
  PROVE  ServerInv'
<1> DEFINE l == local[r]
           q == query[r]
           rows == LevelRows(q, l.frontier)
<1>4. PICK T \in Taken(rows, l.visited) :
        Keep(r, [l EXCEPT !.visited = @ \cup Nexts(T),
                          !.frontier = Nexts(T) \ l.visited,
                          !.hops = @ \cup { <<l.level, e[1], e[2]>> : e \in T },
                          !.level = @ + 1, !.truncated = @ \/ T # rows])
  BY DEF ReadLevel
<1>1. l = local[r]
  OBVIOUS
<1>2. q = query[r]
  OBVIOUS
<1>3. rows = LevelRows(q, l.frontier)
  OBVIOUS
<1> HIDE DEF l, q, rows
<1> DEFINE m == [l EXCEPT !.visited = @ \cup Nexts(T),
                          !.frontier = Nexts(T) \ l.visited,
                          !.hops = @ \cup { <<l.level, e[1], e[2]>> : e \in T },
                          !.level = @ + 1, !.truncated = @ \/ T # rows]
<1>5. /\ phase[r] = "level" /\ q \in Queries /\ fresh[r] \in BOOLEAN
      /\ AtPlace("level", q, l, fresh[r], edges, closure)
      /\ edges \in SUBSET (Tables \X Tables)
  BY <1>1, <1>2, UnderWay DEF ReadLevel
<1>6. q \in LineageQueries /\ q.kind = "lineage" /\ l.level <= Depth(q)
  BY <1>1, <1>2, <1>5, KindOf DEF ReadLevel
<1>7. /\ q.table \in Tables /\ l \in LevelRecords
      /\ fresh[r] => LevelsDone(q, l, edges)
      /\ l.store \in BOOLEAN /\ (l.store => q \in CachedQueries)
  BY <1>5, <1>6 DEF AtPlace, AtLevel, Ends, PathQueries
<1>8. T \subseteq rows /\ rows = { e \in Follow(q, edges) : e[1] \in l.frontier }
  BY <1>3 DEF Taken, LevelRows, Follow, Turned
<1>9. rows \subseteq Tables \X Tables
  <2>1. Follow(q, edges) \in SUBSET (Tables \X Tables)
    BY <1>5, FollowTyped
  <2> QED BY <1>8, <2>1
<1>10. Nexts(T) \subseteq Tables
  BY <1>8, <1>9 DEF Nexts
<1>11. { <<l.level, e[1], e[2]>> : e \in T } \subseteq Nat \X Tables \X Tables
  BY <1>7, <1>8, <1>9 DEF LevelRecords
<1>12. PICK hops : hops = { <<l.level, e[1], e[2]>> : e \in T }
  OBVIOUS
<1>13. /\ m.visited = l.visited \cup Nexts(T) /\ m.frontier = Nexts(T) \ l.visited
       /\ m.hops = l.hops \cup { <<l.level, e[1], e[2]>> : e \in T }
       /\ m.level = l.level + 1 /\ (m.truncated <=> (l.truncated \/ T # rows))
       /\ m.store = l.store
  BY <1>7 DEF LevelRecords
<1>14. m \in LevelRecords
  <2>1. PICK v, f, h, n, cut :
          /\ v = l.visited \cup Nexts(T) /\ f = Nexts(T) \ l.visited /\ h = l.hops \cup hops
          /\ n = l.level + 1 /\ cut = (l.truncated \/ T # rows)
    OBVIOUS
  <2>2. m = [l EXCEPT !.visited = v, !.frontier = f, !.hops = h, !.level = n, !.truncated = cut]
    BY <1>12, <2>1
  <2>3. /\ v \in SUBSET Tables /\ f \in SUBSET Tables /\ n \in Nat
        /\ h \in SUBSET (Nat \X Tables \X Tables)
    BY <1>7, <1>10, <1>11, <1>12, <2>1 DEF LevelRecords
  <2>4. cut \in BOOLEAN
    BY <2>1
  <2> HIDE DEF m
  <2> QED BY <1>7, <2>2, <2>3, <2>4 DEF LevelRecords
<1> HIDE DEF m
<1>15. fresh[r] => LevelsDone(q, m, edges)
  BY <1>5, <1>6, <1>7, <1>8, <1>13, <1>14, LevelsGrow
<1>16. AtPlace("level", q, m, fresh[r], edges, closure)
  BY <1>6, <1>7, <1>13, <1>14, <1>15 DEF AtPlace, AtLevel
<1>17. Goto(r, "level")
  BY <1>5 DEF ReadLevel, ServerInv, ReadersOK, Goto
<1>18. client' \in {"none", "connected", "failed"}
  BY DEF ReadLevel, ServerInv, ServedOK
<1>19. MovesTo(r, "level", m)
  BY <1>4, <1>17, <1>18, Going DEF m, ReadLevel, CallPlaces
<1> QED BY <1>2, <1>5, <1>16, <1>19, MovesInv

LEMMA NoStartInv ==
  ASSUME ServerInv, NEW r \in Readers, NoStart(r)
  PROVE  ServerInv'
<1> DEFINE a == [kind |-> "lineage", error |-> "node_not_found"]
<1>1. query[r].table \notin Tables /\ query[r].kind = "lineage" /\ phase[r] = "start"
  BY DEF NoStart
<1>2. a.kind = "lineage" /\ "error" \in DOMAIN a
  OBVIOUS
<1>3. Result(r, a)
  BY DEF NoStart
<1> HIDE DEF a
<1>4. SoundAnswer(query[r], a) /\ GoodAnswer(query[r], a, edges, closure)
  BY <1>1, <1>2 DEF SoundAnswer, GoodAnswer, GoodLineage
<1> QED BY <1>1, <1>3, <1>4, ResultInv DEF NoStart

LEMMA EndLineageInv ==
  ASSUME ServerInv, NEW r \in Readers, EndLineage(r)
  PROVE  ServerInv'
<1> DEFINE l == local[r]
           q == query[r]
           a == [kind |-> "lineage", hops |-> l.hops, truncated |-> l.truncated]
<1>1. /\ phase[r] = "level" /\ q \in Queries /\ fresh[r] \in BOOLEAN
      /\ AtPlace("level", q, l, fresh[r], edges, closure)
      /\ edges \in SUBSET (Tables \X Tables)
  BY UnderWay DEF EndLineage
<1>2. /\ Result(r, a) /\ q.kind = "lineage"
      /\ (l.frontier = {} \/ l.level > Depth(q))
  BY DEF EndLineage
<1>3. q \in LineageQueries
  BY <1>1, <1>2, KindOf
<1> HIDE DEF l, q
<1>4. /\ q.table \in Tables /\ l \in LevelRecords
      /\ fresh[r] => LevelsDone(q, l, edges)
  BY <1>1, <1>2, <1>3 DEF AtPlace, AtLevel, Ends, PathQueries
<1>5. fresh[r] => GoodLineage(q, a, edges)
  BY <1>1, <1>2, <1>3, <1>4, LevelsEnd
<1>6. a.kind = "lineage"
  OBVIOUS
<1> HIDE DEF a
<1>7. SoundAnswer(q, a) /\ (fresh[r] => GoodAnswer(q, a, edges, closure))
  BY <1>2, <1>5, <1>6 DEF SoundAnswer, GoodAnswer
<1> QED BY <1>1, <1>2, <1>7, ResultInv DEF EndLineage, q

-----------------------------------------------------------------------------
(* What a good path makes of an answer. *)
LEMMA PathAnswers ==
  ASSUME NEW q, q.kind = "path", NEW a, a.kind = "path", NEW f \in BOOLEAN, NEW E, NEW C,
         GoodPath(q, a, UNION Graphs, E, C, f)
  PROVE  SoundAnswer(q, a) /\ (f => GoodAnswer(q, a, E, C))
BY DEF GoodPath, SoundAnswer, GoodAnswer

LEMMA CheckClosureInv ==
  ASSUME ServerInv, NEW r \in Readers, CheckClosure(r)
  PROVE  ServerInv'
<1> DEFINE q == query[r]
<1>1. /\ phase[r] = "start" /\ q \in Queries /\ fresh[r] \in BOOLEAN
      /\ AtPlace("start", q, local[r], fresh[r], edges, closure)
  BY UnderWay DEF CheckClosure
<1>2. q.kind = "path" /\ q \in PathQueries
  BY <1>1, KindOf DEF CheckClosure
<1>3. CASE InClosure(q.from, q.to)
  <2>1. PICK E \in SUBSET (Tables \X Tables) : closure = ClosureRows(Tables, E)
    BY <1>1, UnderWay
  <2>2. PICK row \in closure : row[1] = q.from /\ row[2] = q.to
    BY <1>3 DEF InClosure
  <2>3. Ends(q) /\ InRows(closure, q.from, q.to)
    BY <1>2, <2>1, <2>2, RowsOfPair DEF Ends, InRows
  <2>4. AtPlace("node", q, local[r], fresh[r], edges, closure)
    BY <1>1, <2>3 DEF AtPlace
  <2>5. Goto(r, "node") /\ UNCHANGED <<local, answer>>
    BY <1>3 DEF CheckClosure
  <2>6. UNCHANGED <<served, now, client, cache, query, began, fresh>>
    BY DEF CheckClosure
  <2>7. MovesTo(r, "node", local[r])
    BY <2>5, <2>6 DEF MovesTo, Goto, ServerInv, ReadersOK, ServedOK, CallPlaces
  <2> QED BY <1>1, <2>4, <2>7, MovesInv
<1>4. CASE ~InClosure(q.from, q.to)
  <2> DEFINE a == [kind |-> "path", connected |-> FALSE, why |-> "closure"]
  <2>1. Result(r, a)
    BY <1>4 DEF CheckClosure, NotConnected
  <2>2. a.kind = "path" /\ ~a.connected
    OBVIOUS
  <2>3. ~InRows(closure, q.from, q.to)
    BY <1>4 DEF InClosure, InRows
  <2> HIDE DEF a, q
  <2>4. GoodPath(q, a, UNION Graphs, edges, closure, fresh[r])
    BY <2>2, <2>3, PathRefused
  <2>5. SoundAnswer(q, a) /\ (fresh[r] => GoodAnswer(q, a, edges, closure))
    BY <1>1, <1>2, <2>2, <2>4, PathAnswers
  <2> QED BY <1>1, <2>1, <2>5, ResultInv DEF CheckClosure, q
<1> QED BY <1>3, <1>4

LEMMA FindEndsInv ==
  ASSUME ServerInv, NEW r \in Readers, FindEnds(r)
  PROVE  ServerInv'
<1> DEFINE q == query[r]
           l == [store |-> FALSE, frontier |-> {q.from}, parent |-> [t \in {q.from} |-> t]]
<1>1. /\ phase[r] = "node" /\ q \in Queries /\ fresh[r] \in BOOLEAN
      /\ AtPlace("node", q, local[r], fresh[r], edges, closure)
      /\ edges \in SUBSET (Tables \X Tables)
  BY UnderWay DEF FindEnds
<1>2. Ends(q) /\ (fresh[r] => InRows(closure, q.from, q.to))
  BY <1>1 DEF AtPlace
<1>3. q.from \in Tables /\ q.to \in Tables
  BY <1>2 DEF Ends
<1>4. Goto(r, "level") /\ Keep(r, l)
  BY <1>3 DEF FindEnds
<1>5. client' \in {"none", "connected", "failed"} /\ UNCHANGED answer
  BY <1>3 DEF FindEnds, ServerInv, ServedOK
<1> HIDE DEF q
<1>6. l.frontier = {q.from} /\ l.parent = [t \in {q.from} |-> t] /\ l.store = FALSE
  OBVIOUS
<1>7. l \in PathRecords
  <2>1. l.parent \in [{q.from} -> Tables] /\ {q.from} \in SUBSET Tables
    BY <1>3
  <2>2. l.parent \in UNION { [D -> Tables] : D \in SUBSET Tables }
    BY <2>1
  <2> QED BY <1>3, <2>2 DEF PathRecords
<1> HIDE DEF l
<1>8. PathBegun(q, l, UNION Graphs, edges, fresh[r])
  BY <1>1, <1>3, <1>6, <1>7, PathBegins
<1>9. AtPlace("level", q, l, fresh[r], edges, closure)
  BY <1>2, <1>6, <1>7, <1>8 DEF AtPlace, AtLevel
<1>10. MovesTo(r, "level", l)
  BY <1>4, <1>5, Going DEF FindEnds, CallPlaces
<1> QED BY <1>1, <1>9, <1>10, MovesInv DEF q

LEMMA ReadPathLevelInv ==
  ASSUME ServerInv, NEW r \in Readers, ReadPathLevel(r)
  PROVE  ServerInv'
<1> DEFINE l == local[r]
           q == query[r]
           new == NewTables(l.parent, l.frontier)
<1>1. PICK first \in [new -> l.frontier] :
        /\ \A t \in new : <<first[t], t>> \in edges
        /\ Keep(r, [l EXCEPT !.parent = Updated(@, first), !.frontier = new])
  BY DEF ReadPathLevel
<1>2. /\ phase[r] = "level" /\ q \in Queries /\ fresh[r] \in BOOLEAN
      /\ AtPlace("level", q, l, fresh[r], edges, closure)
      /\ edges \in SUBSET (Tables \X Tables) /\ edges \subseteq UNION Graphs
  BY UnderWay DEF ReadPathLevel
<1>3. q.kind = "path" /\ q \in PathQueries
  BY <1>2, KindOf DEF ReadPathLevel
<1>4. new = NewTables(l.parent, l.frontier) /\ q = query[r]
  OBVIOUS
<1> HIDE DEF l, q, new
<1>5. /\ Ends(q) /\ l \in PathRecords
      /\ PathBegun(q, l, UNION Graphs, edges, fresh[r])
      /\ fresh[r] => InRows(closure, q.from, q.to)
  BY <1>2, <1>3 DEF AtPlace, AtLevel, LineageQueries
<1>6. new = { e[2] : e \in { x \in edges : x[1] \in l.frontier } } \ DOMAIN l.parent
  BY <1>4 DEF NewTables
<1>. new = NewIn(edges, l)
  BY <1>6 DEF NewIn
<1>7. PICK up : up = Updated(l.parent, first)
  OBVIOUS
<1> DEFINE m == [l EXCEPT !.parent = up, !.frontier = new]
<1>8. Keep(r, m)
  BY <1>1, <1>7
<1>9. new \subseteq Tables
  <2> SUFFICES ASSUME NEW t \in new PROVE t \in Tables
    OBVIOUS
  <2>1. PICK e \in edges : t = e[2]
    BY <1>6
  <2> QED BY <1>2, <2>1
<1>10. l.frontier \subseteq Tables /\ l.store = FALSE
       /\ \E D \in SUBSET Tables : l.parent \in [D -> Tables]
  BY <1>5 DEF PathRecords
<1>11. \E D \in SUBSET Tables : up \in [D -> Tables]
  <2>1. PICK D \in SUBSET Tables : l.parent \in [D -> Tables]
    BY <1>10
  <2>2. D \cup new \in SUBSET Tables /\ DOMAIN l.parent = D /\ DOMAIN first = new
    BY <1>9, <2>1
  <2>3. up = [x \in D \cup new |-> IF x \in new THEN first[x] ELSE l.parent[x]]
    BY <1>7, <2>2 DEF Updated
  <2>4. \A x \in D \cup new : (IF x \in new THEN first[x] ELSE l.parent[x]) \in Tables
    BY <1>10, <2>1
  <2>5. up \in [D \cup new -> Tables]
    BY <2>3, <2>4
  <2> QED BY <2>2, <2>5
<1>12. up \in UNION { [D -> Tables] : D \in SUBSET Tables }
  BY <1>11
<1>13. m \in PathRecords /\ m.parent = up /\ m.frontier = new /\ m.store = FALSE
  BY <1>5, <1>9, <1>12 DEF PathRecords
<1> HIDE DEF m
<1>14. PathBegun(q, m, UNION Graphs, edges, fresh[r])
  <2>1. q.from \in Tables /\ m.parent = Updated(l.parent, first) /\ m.frontier = new
    BY <1>5, <1>7, <1>13 DEF Ends
  <2>2. FirstParents(edges, l, first)
    BY <1>1 DEF FirstParents
  <2>3. PICK G : G = UNION Graphs
    OBVIOUS
  <2>4. PathBegun(q, m, G, edges, fresh[r])
    <3>1. edges \subseteq G /\ PathBegun(q, l, G, edges, fresh[r])
      BY <1>2, <1>5, <2>3
    <3> QED BY <1>2, <1>5, <1>13, <2>1, <2>2, <3>1, PathGrows
  <2> QED BY <2>3, <2>4
<1>15. AtPlace("level", q, m, fresh[r], edges, closure)
  BY <1>5, <1>13, <1>14 DEF AtPlace, AtLevel
<1>16. Goto(r, "level")
  BY <1>2 DEF ReadPathLevel, ServerInv, ReadersOK, Goto
<1>17. client' \in {"none", "connected", "failed"}
  BY DEF ReadPathLevel, ServerInv, ServedOK
<1>18. MovesTo(r, "level", m)
  BY <1>8, <1>16, <1>17, Going DEF ReadPathLevel, CallPlaces
<1> QED BY <1>2, <1>4, <1>15, <1>18, MovesInv

LEMMA EndPathInv ==
  ASSUME ServerInv, NEW r \in Readers, EndPath(r)
  PROVE  ServerInv'
<1> DEFINE l == local[r]
           q == query[r]
<1>2. /\ phase[r] = "level" /\ q \in Queries /\ fresh[r] \in BOOLEAN
      /\ AtPlace("level", q, l, fresh[r], edges, closure)
      /\ edges \in SUBSET (Tables \X Tables)
  BY UnderWay DEF EndPath
<1>3. q.kind = "path" /\ q \in PathQueries
  BY <1>2, KindOf DEF EndPath
<1>5. /\ Ends(q) /\ l \in PathRecords
      /\ PathBegun(q, l, UNION Graphs, edges, fresh[r])
      /\ fresh[r] => InRows(closure, q.from, q.to)
  BY <1>2, <1>3 DEF AtPlace, AtLevel, LineageQueries
<1>6. CASE q.to \in DOMAIN l.parent
  <2> DEFINE a == [kind |-> "path", connected |-> TRUE, tables |-> PathTo(l.parent, q.to)]
  <2>1. Result(r, a)
    BY <1>6 DEF EndPath
  <2>2. a.kind = "path" /\ a.connected /\ a.tables = PathTo(l.parent, q.to)
    OBVIOUS
  <2> HIDE DEF a, q, l
  <2>3. GoodPath(q, a, UNION Graphs, edges, closure, fresh[r])
    BY <1>2, <1>5, <1>6, <2>2, PathFound DEF Ends
  <2>4. SoundAnswer(q, a) /\ (fresh[r] => GoodAnswer(q, a, edges, closure))
    BY <1>2, <1>3, <2>2, <2>3, PathAnswers
  <2> QED BY <1>2, <2>1, <2>4, ResultInv DEF EndPath, q
<1>7. CASE q.to \notin DOMAIN l.parent
  <2> DEFINE a == [kind |-> "path", connected |-> FALSE, why |-> "path_not_found"]
  <2>1. Result(r, a) /\ l.frontier = {}
    BY <1>7 DEF EndPath, NotConnected
  <2>2. a.kind = "path" /\ ~a.connected
    OBVIOUS
  <2> HIDE DEF a, q, l
  <2>3. GoodPath(q, a, UNION Graphs, edges, closure, fresh[r])
    BY <1>2, <1>5, <1>7, <2>1, <2>2, PathMissed DEF Ends
  <2>4. SoundAnswer(q, a) /\ (fresh[r] => GoodAnswer(q, a, edges, closure))
    BY <1>2, <1>3, <2>2, <2>3, PathAnswers
  <2> QED BY <1>2, <2>1, <2>4, ResultInv DEF EndPath, q
<1> QED BY <1>6, <1>7

-----------------------------------------------------------------------------
LEMMA CountDownstreamInv ==
  ASSUME ServerInv, NEW r \in Readers, CountDownstream(r)
  PROVE  ServerInv'
<1> DEFINE q == query[r]
           l == [store |-> local[r].store, total |-> Cardinality(Downstream(q.table))]
<1>1. /\ phase[r] = "start" /\ q \in Queries
      /\ AtPlace("start", q, local[r], fresh[r], edges, closure)
  BY UnderWay DEF CountDownstream
<1>2. q \in ImpactQueries
  BY <1>1, KindOf DEF CountDownstream
<1>3. Goto(r, "page") /\ Keep(r, l) /\ client' \in {"none", "connected", "failed"}
  BY DEF CountDownstream, ServerInv, ServedOK
<1>4. /\ l.store \in BOOLEAN /\ (l.store => q \in CachedQueries)
      /\ l.total = Cardinality(DownIn(closure, q.table))
  BY <1>1 DEF AtPlace, Downstream, DownIn
<1> HIDE DEF l
<1>5. AtPlace("page", q, l, fresh[r], edges, closure)
  BY <1>2, <1>4 DEF AtPlace
<1>6. MovesTo(r, "page", l)
  BY <1>3, Going DEF CountDownstream, CallPlaces
<1> QED BY <1>1, <1>5, <1>6, MovesInv

LEMMA ListingsSorted ==
  ASSUME NEW q, q.group = "table", NEW s \in Listings(q)
  PROVE  Sorted(closure, q.table, s)
<1>1. \A t : Downstream(t) = DownIn(closure, t)
  BY DEF Downstream, DownIn
<1>2. Items(q) = ItemsIn(closure, q.table)
  BY <1>1 DEF Items, ItemsIn
<1>3. \A x, y : Before(q, x, y) <=> BeforeIn(closure, q.table, x, y)
  BY <1>1 DEF Before, BeforeIn, HopsTo, HopsIn
<1>4. s \in SetToSeqs(Items(q)) /\ \A i, j \in DOMAIN s : i < j => ~Before(q, s[j], s[i])
  BY DEF Listings
<1> QED BY <1>2, <1>3, <1>4 DEF Sorted

LEMMA ListPageInv ==
  ASSUME ServerInv, NEW r \in Readers, ListPage(r)
  PROVE  ServerInv'
<1> DEFINE q == query[r]
           first == (q.page - 1) * q.size + 1
           last(s) == IF first + q.size - 1 < Len(s) THEN first + q.size - 1 ELSE Len(s)
<1>1. /\ phase[r] = "page" /\ q \in Queries
      /\ AtPlace("page", q, local[r], fresh[r], edges, closure)
  BY UnderWay DEF ListPage
<1>2. /\ q \in ImpactQueries
      /\ fresh[r] => local[r].total = Cardinality(DownIn(closure, q.table))
  BY <1>1 DEF AtPlace
<1>3. PICK s \in Listings(q) :
        Result(r, [kind |-> "impact", total |-> local[r].total,
                   items |-> SubSeq(s, first, last(s))])
  BY DEF ListPage
<1> DEFINE a == [kind |-> "impact", total |-> local[r].total,
                 items |-> SubSeq(s, first, last(s))]
<1>4. a.kind = "impact" /\ a.total = local[r].total /\ a.items = Page(q, s)
  BY DEF Page
<1>5. Result(r, a)
  BY <1>3
<1> HIDE DEF a
<1>6. q.kind = "impact"
  BY <1>2 DEF ImpactQueries
<1>7. fresh[r] => GoodPage(q, a, closure)
  BY <1>2, <1>4, ListingsSorted DEF GoodPage
<1>8. SoundAnswer(q, a) /\ (fresh[r] => GoodAnswer(q, a, edges, closure))
  BY <1>4, <1>6, <1>7 DEF SoundAnswer, GoodAnswer
<1> QED BY <1>1, <1>5, <1>8, ResultInv DEF ListPage

-----------------------------------------------------------------------------
LEMMA CandidatesTyped ==
  ASSUME NEW q \in SearchQueries, NEW c, c = Candidates(q.keyword)
  PROVE  DOMAIN c = 1..Len(c) /\ Len(c) \in Nat
<1>1. q.keyword \in DOMAIN Found
  BY DEF SearchQueries
<1>2. PICK S : S = [table : Tables \cup {0}, rank : Nat]
  OBVIOUS
<1>3. /\ Found[q.keyword].exact \in Seq(S) /\ Found[q.keyword].fuzzy \in Seq(S)
      /\ Found[q.keyword].similar \in Seq(S)
  BY <1>1, <1>2, CallAssumption
<1>4. c \in Seq(S)
  BY <1>3 DEF Candidates
<1> QED BY <1>4

LEMMA RelatedBothWays == \A C, x, y : RelatedIn(C, x, y) = RelatedIn(C, y, x)
BY DEF RelatedIn

LEMMA LinksMutual == \A c, C : Mutual(DOMAIN c, LinksIn(c, C))
<1> SUFFICES ASSUME NEW c, NEW C PROVE Mutual(DOMAIN c, LinksIn(c, C))
  OBVIOUS
<1>1. LinksIn(c, C) \subseteq (DOMAIN c) \X (DOMAIN c)
  BY DEF LinksIn
<1>2. ASSUME NEW i \in DOMAIN c, NEW j \in DOMAIN c, <<i, j>> \in LinksIn(c, C)
      PROVE  <<j, i>> \in LinksIn(c, C)
  <2>1. 0 \notin {c[i].table, c[j].table} /\ RelatedIn(C, c[i].table, c[j].table)
    BY <1>2 DEF LinksIn
  <2>2. RelatedIn(C, c[j].table, c[i].table)
    BY <2>1, RelatedBothWays
  <2> QED BY <2>1, <2>2 DEF LinksIn
<1> QED BY <1>1, <1>2 DEF Mutual

LEMMA SearchInv ==
  ASSUME ServerInv, NEW r \in Readers, Search(r)
  PROVE  ServerInv'
<1> DEFINE q == query[r]
           c == Candidates(q.keyword)
           pairs == { p \in (DOMAIN c) \X (DOMAIN c) : p[1] < p[2] }
           l == [store |-> FALSE, root |-> [i \in DOMAIN c |-> i], asked |-> <<>>,
                 todo |-> pairs]
<1>1. /\ phase[r] = "start" /\ q \in Queries
      /\ AtPlace("start", q, local[r], fresh[r], edges, closure)
  BY UnderWay DEF Search
<1>2. q \in SearchQueries
  BY <1>1, KindOf DEF Search
<1>3. Goto(r, "pairs") /\ Keep(r, l) /\ client' \in {"none", "connected", "failed"}
  BY DEF Search, ServerInv, ServedOK
<1>4. /\ DOMAIN l = {"store", "root", "asked", "todo"} /\ l.store = FALSE
      /\ l.root = [i \in DOMAIN c |-> i] /\ l.todo = pairs /\ DOMAIN l.asked = {}
  OBVIOUS
<1>5. DOMAIN c \subseteq Nat
  BY <1>2, CandidatesTyped
<1> HIDE DEF l
<1>6. RootsFit(l.root, DOMAIN c, LinksIn(c, closure), l.todo)
  <2> HIDE DEF c
  <2>1. RootsFit([i \in DOMAIN c |-> i], DOMAIN c, LinksIn(c, closure), pairs)
    BY <1>5, LinksMutual, RootsBegin
  <2> QED BY <1>4, <2>1
<1>7. PairsDone(c, l, closure)
  BY <1>4, <1>6 DEF PairsDone, AskedRight
<1>8. AtPlace("pairs", q, l, fresh[r], edges, closure)
  BY <1>2, <1>4, <1>7 DEF AtPlace, AtPairs
<1>9. MovesTo(r, "pairs", l)
  BY <1>3, Going DEF Search, CallPlaces
<1> QED BY <1>1, <1>8, <1>9, MovesInv

(* What a statement tells is true of both orders of a pair. *)
KeyOf(c, i, j) == {c[i].table, c[j].table}

LEMMA ToldMore ==
  ASSUME NEW c, NEW C, NEW asked, AskedRight(c, asked, C), NEW i \in DOMAIN c, NEW j \in DOMAIN c,
         NEW one, one = RelatedIn(C, c[i].table, c[j].table),
         NEW key, key = KeyOf(c, i, j), NEW f, DOMAIN f = {key}, f[key] = one
  PROVE  AskedRight(c, Updated(asked, f), C)
<1>. key = {c[i].table, c[j].table}
  BY DEF KeyOf
<1>. PICK new : new = Updated(asked, f)
  OBVIOUS
<1>2. /\ DOMAIN new = DOMAIN asked \cup {key} /\ new[key] = one
      /\ \A x \in DOMAIN asked : x # key => new[x] = asked[x]
  BY DEF Updated
<1>3. ASSUME NEW a \in DOMAIN c, NEW b \in DOMAIN c, {c[a].table, c[b].table} \in DOMAIN new
      PROVE  new[{c[a].table, c[b].table}] = RelatedIn(C, c[a].table, c[b].table)
  <2>1. CASE {c[a].table, c[b].table} = key
    <3>1. \/ c[a].table = c[i].table /\ c[b].table = c[j].table
          \/ c[a].table = c[j].table /\ c[b].table = c[i].table
      BY <2>1
    <3>2. RelatedIn(C, c[a].table, c[b].table) = RelatedIn(C, c[i].table, c[j].table)
      BY <3>1, RelatedBothWays
    <3> QED BY <1>2, <2>1, <3>2
  <2>2. CASE {c[a].table, c[b].table} # key
    BY <1>2, <1>3, <2>2 DEF AskedRight
  <2> QED BY <2>1, <2>2
<1> QED BY <1>3 DEF AskedRight

(* One pair: passed over, or asked for and, where it is related, joined. *)
LEMMA PairSkipped ==
  ASSUME NEW q, NEW c, c = Candidates(q.keyword), NEW C, NEW l, PairsDone(c, l, C),
         NEW i \in DOMAIN c, NEW j \in DOMAIN c,
         0 \in {c[i].table, c[j].table} \/ l.root[i] = l.root[j],
         NEW m, m.root = l.root, m.asked = l.asked, m.todo = l.todo \ {<<i, j>>}
  PROVE  PairsDone(c, m, C)
<1>. PICK L : L = LinksIn(c, C)
  OBVIOUS
<1>. PICK D : D = DOMAIN c
  OBVIOUS
<1>1. <<i, j>> \notin L \/ l.root[i] = l.root[j]
  BY DEF LinksIn
<1>2. Mutual(D, L) /\ RootsFit(l.root, D, L, l.todo)
  BY LinksMutual DEF PairsDone
<1>3. RootsFit(l.root, D, L, l.todo \ {<<i, j>>})
  BY <1>1, <1>2, RootsSkip
<1> QED BY <1>3 DEF PairsDone

LEMMA PairAsked ==
  ASSUME NEW c, NEW C, NEW l, PairsDone(c, l, C),
         NEW i \in DOMAIN c, NEW j \in DOMAIN c, 0 \notin {c[i].table, c[j].table},
         NEW one, one = RelatedIn(C, c[i].table, c[j].table),
         NEW m, m.root = IF one THEN Unite(l.root, i, j) ELSE l.root,
         NEW key, key = KeyOf(c, i, j), NEW f, DOMAIN f = {key}, f[key] = one,
         m.asked = Updated(l.asked, f),
         m.todo = l.todo \ {<<i, j>>}
  PROVE  PairsDone(c, m, C)
<1>. PICK L : L = LinksIn(c, C)
  OBVIOUS
<1>. PICK D : D = DOMAIN c
  OBVIOUS
<1>1. Mutual(D, L) /\ RootsFit(l.root, D, L, l.todo) /\ AskedRight(c, l.asked, C)
  BY LinksMutual DEF PairsDone
<1>2. one => <<i, j>> \in L
  BY DEF LinksIn
<1>3. ~one => <<i, j>> \notin L
  BY DEF LinksIn
<1>7. AskedRight(c, m.asked, C)
  BY <1>1, ToldMore
<1>4. CASE one
  <2>1. RootsFit(Unite(l.root, i, j), D, L, l.todo \ {<<i, j>>})
    BY <1>1, <1>2, <1>4, RootsJoin
  <2>2. RootsFit(m.root, D, L, m.todo)
    BY <1>4, <2>1
  <2> QED BY <1>7, <2>2 DEF PairsDone
<1>5. CASE ~one
  <2>1. RootsFit(l.root, D, L, l.todo \ {<<i, j>>})
    BY <1>1, <1>3, <1>5, RootsSkip
  <2>2. RootsFit(m.root, D, L, m.todo)
    BY <1>5, <2>1
  <2> QED BY <1>7, <2>2 DEF PairsDone
<1> QED BY <1>4, <1>5

LEMMA MergePairInv ==
  ASSUME ServerInv, NEW r \in Readers, MergePair(r)
  PROVE  ServerInv'
<1> DEFINE l == local[r]
           q == query[r]
           c == Candidates(q.keyword)
           pair == CHOOSE p \in l.todo : \A x \in l.todo \ {p} : Precedes(p, x)
           i == pair[1]
           j == pair[2]
           key == {c[i].table, c[j].table}
           one == IF key \in DOMAIN l.asked THEN l.asked[key]
                  ELSE Related(c[i].table, c[j].table)
           rest == [l EXCEPT !.todo = @ \ {pair}]
           more == [rest EXCEPT !.asked = Updated(@, [k \in {key} |-> one]),
                                !.root = IF one THEN Unite(@, i, j) ELSE @]
<1>1. /\ phase[r] = "pairs" /\ q \in Queries /\ fresh[r] \in BOOLEAN
      /\ AtPlace("pairs", q, l, fresh[r], edges, closure)
  BY UnderWay DEF MergePair
<1>2. l.todo # {} /\ IF 0 \in key \/ l.root[i] = l.root[j] THEN Keep(r, rest) ELSE Keep(r, more)
  BY DEF MergePair
<1>3. AtPairs(q, l, fresh[r], closure) /\ l.store \in BOOLEAN /\ (l.store => q \in CachedQueries)
  BY <1>1 DEF AtPlace
<1> HIDE DEF q, l
<1>4. /\ q \in SearchQueries /\ DOMAIN l = {"store", "root", "asked", "todo"}
      /\ l.todo \subseteq { p \in (DOMAIN c) \X (DOMAIN c) : p[1] < p[2] }
      /\ fresh[r] => PairsDone(c, l, closure)
  BY <1>3 DEF AtPairs
<1> HIDE DEF c
<1>5. DOMAIN c \subseteq Nat
  BY <1>4, CandidatesTyped DEF c
<1>6. pair \in l.todo
  <2>1. l.todo \subseteq Nat \X Nat
    BY <1>4, <1>5
  <2> QED BY <1>2, <2>1, FirstPair
<1> HIDE DEF pair
<1>7. pair = <<i, j>> /\ i \in DOMAIN c /\ j \in DOMAIN c
  BY <1>4, <1>6
<1>8. DOMAIN rest = DOMAIN l /\ rest.store = l.store /\ rest.root = l.root
      /\ rest.asked = l.asked /\ rest.todo = l.todo \ {<<i, j>>}
  BY <1>4, <1>7
<1> HIDE DEF rest
<1>9. /\ DOMAIN more = DOMAIN l /\ more.store = l.store /\ more.todo = l.todo \ {<<i, j>>}
      /\ more.asked = Updated(l.asked, [k \in {key} |-> one])
      /\ more.root = IF one THEN Unite(l.root, i, j) ELSE l.root
  BY <1>4, <1>8
<1> HIDE DEF more
<1>10. Goto(r, "pairs")
  BY <1>1 DEF MergePair, ServerInv, ReadersOK, Goto
<1>11. client' \in {"none", "connected", "failed"}
  BY DEF MergePair, ServerInv, ServedOK
<1>12. CASE 0 \in key \/ l.root[i] = l.root[j]
  <2>1. Keep(r, rest)
    BY <1>2, <1>12
  <2>2. fresh[r] => PairsDone(c, rest, closure)
    BY <1>4, <1>7, <1>8, <1>12, PairSkipped DEF c
  <2>3. AtPlace("pairs", q, rest, fresh[r], edges, closure)
    BY <1>3, <1>4, <1>8, <2>2 DEF AtPlace, AtPairs, c
  <2>4. MovesTo(r, "pairs", rest)
    BY <1>10, <1>11, <2>1, Going DEF MergePair, CallPlaces
  <2> QED BY <1>1, <2>3, <2>4, MovesInv DEF q
<1>13. CASE ~(0 \in key \/ l.root[i] = l.root[j])
  <2>1. Keep(r, more)
    BY <1>2, <1>13
  <2>2. ASSUME fresh[r] PROVE one = RelatedIn(closure, c[i].table, c[j].table)
    <3>1. AskedRight(c, l.asked, closure)
      BY <1>4, <2>2 DEF PairsDone
    <3>2. Related(c[i].table, c[j].table) = RelatedIn(closure, c[i].table, c[j].table)
      BY DEF Related, RelatedIn, InClosure, InRows
    <3>3. key \in DOMAIN l.asked => l.asked[key] = RelatedIn(closure, c[i].table, c[j].table)
      BY <1>7, <3>1 DEF AskedRight
    <3> QED BY <3>2, <3>3
  <2> HIDE DEF i, j, one
  <2>3. ASSUME fresh[r] PROVE PairsDone(c, more, closure)
    <3>1. PairsDone(c, l, closure) /\ one = RelatedIn(closure, c[i].table, c[j].table)
      BY <1>4, <2>2, <2>3
    <3>2. PICK f : f = [k \in {key} |-> one]
      OBVIOUS
    <3>3. DOMAIN f = {key} /\ f[key] = one /\ more.asked = Updated(l.asked, f)
      BY <1>9, <3>2
    <3>4. PICK k : k = key
      OBVIOUS
    <3>5. k = KeyOf(c, i, j) /\ 0 \notin {c[i].table, c[j].table}
      BY <1>13, <3>4 DEF KeyOf
    <3>6. DOMAIN f = {k} /\ f[k] = one
      BY <3>3, <3>4
    <3> HIDE DEF key
    <3> QED BY <1>7, <1>9, <3>1, <3>3, <3>5, <3>6, PairAsked
  <2>4. AtPlace("pairs", q, more, fresh[r], edges, closure)
    BY <1>3, <1>4, <1>9, <2>3 DEF AtPlace, AtPairs, c
  <2>5. MovesTo(r, "pairs", more)
    BY <1>10, <1>11, <2>1, Going DEF MergePair, CallPlaces
  <2> QED BY <1>1, <2>4, <2>5, MovesInv DEF q
<1> QED BY <1>12, <1>13

LEMMA EndSearchInv ==
  ASSUME ServerInv, NEW r \in Readers, EndSearch(r)
  PROVE  ServerInv'
<1> DEFINE l == local[r]
           q == query[r]
           c == Candidates(q.keyword)
           groups == Group(l.root)
<1>1. /\ phase[r] = "pairs" /\ q \in Queries /\ fresh[r] \in BOOLEAN
      /\ AtPlace("pairs", q, l, fresh[r], edges, closure)
  BY UnderWay DEF EndSearch
<1>2. PICK anchor \in [groups -> DOMAIN c] :
        /\ \A fam \in groups : anchor[fam] \in Anchors(fam, c)
        /\ Result(r, [kind |-> "search", anchor |-> anchor,
                      ambiguous |-> Cardinality(groups) > 1])
  BY DEF EndSearch
<1> DEFINE a == [kind |-> "search", anchor |-> anchor, ambiguous |-> Cardinality(groups) > 1]
<1>3. Result(r, a) /\ l.todo = {}
  BY <1>2 DEF EndSearch
<1>4. a.kind = "search" /\ a.anchor = anchor /\ (a.ambiguous <=> Cardinality(groups) > 1)
  OBVIOUS
<1> HIDE DEF q, l, a
<1>5. q \in SearchQueries /\ (fresh[r] => PairsDone(c, l, closure))
  BY <1>1 DEF AtPlace, AtPairs
<1>6. IsFiniteSet(DOMAIN c)
  BY <1>5, CandidatesTyped, FS_Interval
<1> HIDE DEF c
<1>7. ASSUME fresh[r] PROVE GoodFamilies(c, a, closure)
  <2>. PICK D : D = DOMAIN c
    OBVIOUS
  <2>. PICK L : L = LinksIn(c, closure)
    OBVIOUS
  <2>1. Mutual(D, L) /\ RootsFit(l.root, D, L, {}) /\ IsFiniteSet(D)
    BY <1>3, <1>5, <1>6, <1>7, LinksMutual DEF PairsDone
  <2>2. /\ groups = { FamilyOf(D, L, i) : i \in D }
        /\ Cardinality(groups) > 1 <=> \E i, j \in D : j \notin FamilyOf(D, L, i)
    BY <2>1, RootsEnd
  <2>3. DOMAIN a.anchor = groups /\ \A fam \in groups : a.anchor[fam] \in Anchors(fam, c)
    BY <1>2, <1>4
  <2> QED BY <1>4, <2>2, <2>3 DEF GoodFamilies
<1>8. q.kind = "search"
  BY <1>5 DEF SearchQueries
<1>9. SoundAnswer(q, a) /\ (fresh[r] => GoodAnswer(q, a, edges, closure))
  BY <1>4, <1>7, <1>8 DEF SoundAnswer, GoodAnswer, c
<1> QED BY <1>1, <1>3, <1>9, ResultInv DEF EndSearch, q

-----------------------------------------------------------------------------
LEMMA AskInv ==
  ASSUME ServerInv, NEW r \in Readers, Ask(r)
  PROVE  ServerInv'
<1>1. PICK q \in QueriesOf[r] :
        /\ query' = [query EXCEPT ![r] = q]
        /\ Goto(r, IF q \in CachedQueries THEN "lookup" ELSE "start")
  BY DEF Ask
<1>2. PICK p : p = IF q \in CachedQueries THEN "lookup" ELSE "start"
  OBVIOUS
<1>3. PICK l : l = [store |-> FALSE]
  OBVIOUS
<1>4. q \in Queries
  BY DEF Queries
<1>5. /\ phase' = [phase EXCEPT ![r] = p] /\ local' = [local EXCEPT ![r] = l]
      /\ began' = [began EXCEPT ![r] = now] /\ fresh' = [fresh EXCEPT ![r] = TRUE]
      /\ UNCHANGED <<served, now, client, cache, answer>>
  BY <1>1, <1>2, <1>3 DEF Ask, Goto, Keep
<1>6. ReadersOK /\ now \in Nat /\ client \in {"none", "connected", "failed"}
  BY ServerAssumption DEF ServerInv, ServedOK
<1>7. p \in CallPlaces /\ p # "idle"
  BY <1>2 DEF CallPlaces
<1>8. ReadersOK'
  BY <1>1, <1>4, <1>5, <1>6, <1>7 DEF ReadersOK
<1>9. AtPlace(p, q, l, TRUE, edges, closure)
  BY <1>2, <1>3 DEF AtPlace
<1>10. q # None
  BY <1>4, KindOf
<1>11. Stands(p, q, l, answer[r], now, TRUE, edges, closure, lastChange, now)
  <2>1. now <= now /\ now <= now + 1
    BY <1>6
  <2> QED BY <1>6, <1>7, <1>9, <1>10, <2>1, Zenon DEF Stands
<1>12. /\ phase'[r] = p /\ query'[r] = q /\ local'[r] = l /\ began'[r] = now
       /\ fresh'[r] = TRUE /\ answer'[r] = answer[r]
  BY <1>1, <1>5, <1>6 DEF ReadersOK
<1>13. StandsNow(r)'
  BY <1>5, <1>11, <1>12 DEF StandsNow, served
<1>14. CacheOK'
  BY <1>5 DEF ServerInv, CacheOK, served
<1>15. \A x \in Readers \ {r} :
         /\ phase'[x] = phase[x] /\ query'[x] = query[x] /\ local'[x] = local[x]
         /\ answer'[x] = answer[x] /\ began'[x] = began[x] /\ fresh'[x] = fresh[x]
  BY <1>1, <1>5, <1>6 DEF ReadersOK
<1> QED BY <1>5, <1>6, <1>8, <1>13, <1>14, <1>15, OneReader

(* An answer a call returns from the cache. *)
LEMMA EntryHolds ==
  ASSUME NEW q, NEW e, NEW E, NEW C, NEW last \in Int, NEW nw \in Nat,
         StoredEntry(q, e, E, C, last, nw), nw < e.expires
  PROVE  SoundAnswer(q, e.answer) /\ (SettledAt(last, nw) => GoodAnswer(q, e.answer, E, C))
<1>1. PICK b \in Nat : \E s \in Nat :
        /\ b <= s /\ s <= b + 1 /\ s <= nw /\ e.expires = s + TtlAt(s)
        /\ last < b => GoodAnswer(q, e.answer, E, C)
  BY DEF StoredEntry
<1>2. PICK s \in Nat :
        /\ b <= s /\ s <= b + 1 /\ s <= nw /\ e.expires = s + TtlAt(s)
        /\ last < b => GoodAnswer(q, e.answer, E, C)
  BY <1>1
<1>3. SettledAt(last, nw) => last < b
  BY <1>2, SettledSince
<1> QED BY <1>2, <1>3 DEF StoredEntry

(* A call returns a, computed or not. *)
LEMMA ReplyInv ==
  ASSUME ServerInv, NEW r \in Readers, phase[r] # "idle", NEW a, Reply(r, a),
         UNCHANGED <<served, now, query, began>>, client' \in {"none", "connected", "failed"},
         CacheOK', NEW f \in BOOLEAN, fresh' = [fresh EXCEPT ![r] = f],
         SoundAnswer(query[r], a),
         f \/ SettledAt(lastChange, began[r]) => GoodAnswer(query[r], a, edges, closure)
  PROVE  ServerInv'
<1>1. ReadersOK /\ began[r] \in Nat /\ began[r] <= now /\ query[r] # None
  BY UnderWay DEF ServerInv
<1>2. /\ phase' = [phase EXCEPT ![r] = "idle"] /\ local' = [local EXCEPT ![r] = None]
      /\ answer' = [answer EXCEPT ![r] = a]
  BY DEF Reply, Goto, Keep
<1>3. ReadersOK'
  BY <1>1, <1>2 DEF ReadersOK, CallPlaces
<1>4. Stands("idle", query[r], None, a, began[r], f, edges, closure, lastChange, now)
  BY <1>1 DEF Stands
<1>5. phase'[r] = "idle" /\ local'[r] = None /\ answer'[r] = a /\ fresh'[r] = f
  BY <1>1, <1>2 DEF ReadersOK
<1>6. StandsNow(r)'
  BY <1>4, <1>5 DEF StandsNow, served
<1>7. \A x \in Readers \ {r} :
        /\ phase'[x] = phase[x] /\ query'[x] = query[x] /\ local'[x] = local[x]
        /\ answer'[x] = answer[x] /\ began'[x] = began[x] /\ fresh'[x] = fresh[x]
  BY <1>1, <1>2 DEF ReadersOK
<1> QED BY <1>3, <1>6, <1>7, OneReader

LEMMA HitInv ==
  ASSUME ServerInv, NEW r \in Readers, Hit(r)
  PROVE  ServerInv'
<1> DEFINE q == query[r]
           a == cache[q].answer
<1>1. phase[r] = "lookup" /\ cache[q] # None /\ now < cache[q].expires
  BY DEF Hit, Live
<1>2. q \in CachedQueries /\ now = began[r] /\ lastChange \in Int /\ now \in Nat
  BY <1>1, UnderWay DEF AtPlace
<1>3. StoredEntry(q, cache[q], edges, closure, lastChange, now)
  BY <1>1, <1>2 DEF ServerInv, CacheOK
<1>4. SoundAnswer(q, a) /\ (SettledAt(lastChange, began[r]) => GoodAnswer(q, a, edges, closure))
  BY <1>1, <1>2, <1>3, EntryHolds
<1>5. /\ Reply(r, a) /\ client' = "connected" /\ fresh' = [fresh EXCEPT ![r] = FALSE]
      /\ UNCHANGED <<served, now, cache, query, began>>
  BY DEF Hit
<1>6. CacheOK'
  BY <1>5 DEF ServerInv, CacheOK, served
<1> HIDE DEF a
<1> QED BY <1>1, <1>4, <1>5, <1>6, ReplyInv

LEMMA StoreInv ==
  ASSUME ServerInv, NEW r \in Readers, Store(r)
  PROVE  ServerInv'
<1> DEFINE q == query[r]
           a == local[r]
           b == began[r]
           e == [kind |-> "entry", answer |-> a, expires |-> now + Ttl]
<1>1. /\ phase[r] = "computed" /\ fresh[r] \in BOOLEAN /\ b \in Nat /\ now \in Nat
      /\ b <= now /\ now <= b + 1 /\ (lastChange < b => fresh[r]) /\ lastChange \in Int
      /\ AtPlace("computed", q, a, fresh[r], edges, closure)
  BY UnderWay DEF Store
<1>2. q \in CachedQueries /\ SoundAnswer(q, a) /\ (fresh[r] => GoodAnswer(q, a, edges, closure))
  BY <1>1 DEF AtPlace
<1>3. /\ Reply(r, a) /\ (cache' = cache \/ cache' = [cache EXCEPT ![q] = e])
      /\ UNCHANGED <<served, now, client, query, began, fresh>>
  BY DEF Store
<1>4. e.answer = a /\ e.expires = now + TtlAt(now)
  BY DEF Ttl, TtlAt
<1> HIDE DEF a, e, q, b
<1>5. StoredEntry(q, e, edges, closure, lastChange, now)
  BY <1>1, <1>2, <1>4 DEF StoredEntry
<1>6. CacheOK'
  BY <1>2, <1>3, <1>5 DEF ServerInv, CacheOK, served
<1>7. client' \in {"none", "connected", "failed"}
  BY <1>3 DEF ServerInv, ServedOK
<1>8. fresh' = [fresh EXCEPT ![r] = fresh[r]]
  BY <1>3 DEF ServerInv, ReadersOK
<1>9. SettledAt(lastChange, b) => fresh[r]
  BY <1>1, SettledBefore
<1> QED BY <1>1, <1>2, <1>3, <1>6, <1>7, <1>8, <1>9, ReplyInv DEF q, b

-----------------------------------------------------------------------------
(* Something is published: what was known of it holds no longer. *)
LEMMA AtPlaceStale ==
  ASSUME NEW p, NEW q, NEW l, NEW f, NEW E, NEW C, AtPlace(p, q, l, f, E, C), NEW E2, NEW C2
  PROVE  AtPlace(p, q, l, FALSE, E2, C2)
<1>1. PathBegun(q, l, UNION Graphs, E, f) => PathBegun(q, l, UNION Graphs, E2, FALSE)
  BY DEF PathBegun
<1>2. AtLevel(q, l, f, E, C) => AtLevel(q, l, FALSE, E2, C2)
  BY <1>1 DEF AtLevel
<1>3. AtPairs(q, l, f, C) => AtPairs(q, l, FALSE, C2)
  BY DEF AtPairs
<1> QED BY <1>2, <1>3 DEF AtPlace

LEMMA ChangedInv ==
  ASSUME ServerInv, Changed, edges' \in Graphs, closure' \in { Closures[g] : g \in Graphs },
         changes' \in 0..Changes
  PROVE  ServerInv'
<1>1. /\ lastChange' = now /\ fresh' = [r \in Readers |-> FALSE]
      /\ UNCHANGED <<now, client, cache, phase, query, local, answer, began>>
  BY DEF Changed
<1>2. now \in Nat /\ now \in Int
  BY ServerAssumption DEF ServerInv, ServedOK
<1>3. ServedOK'
  BY <1>1, <1>2 DEF ServerInv, ServedOK
<1>4. ReadersOK'
  BY <1>1 DEF ServerInv, ReadersOK
<1>5. ASSUME NEW q \in CachedQueries, cache[q] # None
      PROVE  StoredEntry(q, cache[q], edges', closure', now, now)
  <2>1. StoredEntry(q, cache[q], edges, closure, lastChange, now)
    BY <1>5 DEF ServerInv, CacheOK
  <2> QED BY <1>2, <2>1 DEF StoredEntry
<1>6. CacheOK'
  BY <1>1, <1>5 DEF ServerInv, CacheOK
<1>7. ASSUME NEW r \in Readers PROVE StandsNow(r)'
  <2>1. Stands(phase[r], query[r], local[r], answer[r], began[r], fresh[r],
               edges, closure, lastChange, now)
    BY DEF ServerInv, StandsNow
  <2>2. AtPlace(phase[r], query[r], local[r], fresh[r], edges, closure)
          => AtPlace(phase[r], query[r], local[r], FALSE, edges', closure')
    BY AtPlaceStale
  <2>3. began[r] \in Nat /\ began[r] <= now
    BY <2>1 DEF Stands
  <2>4. ~SettledAt(now, began[r])
    BY <1>2, <2>3, SettledBefore
  <2>5. Stands(phase[r], query[r], local[r], answer[r], began[r], FALSE,
               edges', closure', now, now)
    <3>1. ~(now < began[r])
      BY <1>2, <2>3
    <3> QED BY <2>1, <2>2, <2>4, <3>1, Zenon DEF Stands
  <2> QED BY <1>1, <2>5 DEF StandsNow
<1> QED BY <1>3, <1>4, <1>6, <1>7 DEF ServerInv

LEMMA TickInv ==
  ASSUME ServerInv, Tick
  PROVE  ServerInv'
<1>1. /\ now < LastTick /\ now' = now + 1 /\ UNCHANGED <<served, client, cache, reader>>
      /\ \A r \in Readers : phase[r] = "idle" \/ (phase[r] = "computed" /\ began[r] = now)
  BY DEF Tick
<1>2. now \in Nat /\ LastTick \in Nat
  BY ServerAssumption DEF ServerInv, ServedOK
<1>3. ServedOK'
  BY <1>1, <1>2 DEF ServerInv, ServedOK, served
<1>4. ReadersOK'
  BY <1>1 DEF ServerInv, ReadersOK, reader
<1>5. ASSUME NEW q \in CachedQueries, cache[q] # None
      PROVE  StoredEntry(q, cache[q], edges, closure, lastChange, now + 1)
  <2>1. StoredEntry(q, cache[q], edges, closure, lastChange, now)
    BY <1>5 DEF ServerInv, CacheOK
  <2> QED BY <1>2, <2>1 DEF StoredEntry
<1>6. CacheOK'
  BY <1>1, <1>5 DEF ServerInv, CacheOK, served
<1>7. ASSUME NEW r \in Readers PROVE StandsNow(r)'
  <2>1. Stands(phase[r], query[r], local[r], answer[r], began[r], fresh[r],
               edges, closure, lastChange, now)
    BY DEF ServerInv, StandsNow
  <2>2. Stands(phase[r], query[r], local[r], answer[r], began[r], fresh[r],
               edges, closure, lastChange, now + 1)
    BY <1>1, <1>2, <2>1 DEF Stands
  <2> QED BY <1>1, <2>2 DEF StandsNow, served, reader
<1> QED BY <1>3, <1>4, <1>6, <1>7 DEF ServerInv

LEMMA NextInv == ServerInv /\ [ServerNext]_serverVars => ServerInv'
<1> SUFFICES ASSUME ServerInv, [ServerNext]_serverVars PROVE ServerInv'
  OBVIOUS
<1>1. CASE PublishEdges
  <2>1. /\ Changed /\ edges' \in Graphs /\ closure' = closure
        /\ changes < Changes /\ changes' = changes + 1
    BY <1>1 DEF PublishEdges
  <2>2. closure \in { Closures[g] : g \in Graphs } /\ changes \in 0..Changes
    BY DEF ServerInv, ServedOK
  <2>3. changes' \in 0..Changes
    BY <2>1, <2>2, ServerAssumption
  <2> QED BY <2>1, <2>2, <2>3, ChangedInv
<1>2. CASE PublishClosure
  <2>1. /\ Changed /\ edges \in Graphs /\ edges' = edges /\ closure' = Closures[edges]
        /\ changes' = changes /\ changes \in 0..Changes
    BY <1>2 DEF PublishClosure, ServerInv, ServedOK
  <2> QED BY <2>1, ChangedInv
<1>3. CASE Tick
  BY <1>3, TickInv
<1>4. ASSUME NEW r \in Readers, Ask(r) \/ Work(r) PROVE ServerInv'
  BY <1>4, AskInv, HitInv, MissInv, NoCacheInv, StoreInv, FindStartInv, NoStartInv,
     ReadLevelInv, EndLineageInv, CheckClosureInv, FindEndsInv, ReadPathLevelInv, EndPathInv,
     CountDownstreamInv, ListPageInv, SearchInv, MergePairInv, EndSearchInv DEF Work
<1>5. CASE UNCHANGED serverVars
  <2>1. \A r \in Readers : StandsNow(r)'
    BY <1>5 DEF ServerInv, StandsNow, serverVars, served, reader
  <2> QED BY <1>5, <2>1 DEF ServerInv, ServedOK, ReadersOK, CacheOK, serverVars, served, reader
<1> QED BY <1>1, <1>2, <1>3, <1>4, <1>5 DEF ServerNext

LEMMA Invariance == ServerSpec => []ServerInv
BY InitInv, NextInv, PTL DEF ServerSpec

-----------------------------------------------------------------------------
(* What the invariant says of a call that has returned. *)
LEMMA AnswerIs ==
  ASSUME ServerInv, NEW r \in Readers, NEW k, k # "none", Answered(r, k)
  PROVE  /\ query[r] \in Queries /\ query[r].kind = k /\ SoundAnswer(query[r], answer[r])
         /\ fresh[r] => GoodAnswer(query[r], answer[r], edges, closure)
         /\ Settled(r) => GoodAnswer(query[r], answer[r], edges, closure)
         /\ edges \in Graphs /\ edges \in SUBSET (Tables \X Tables)
         /\ \E g \in Graphs : closure = ClosureRows(Tables, g)
<1>1. /\ StandsNow(r) /\ ReadersOK /\ phase[r] = "idle" /\ answer[r].kind = k
      /\ edges \in Graphs /\ lastChange \in Int /\ now \in Nat
  BY ServerAssumption DEF ServerInv, Answered, ServedOK
<1>2. query[r] # None
  <2> SUFFICES ASSUME query[r] = None PROVE FALSE
    OBVIOUS
  <2>1. answer[r] = None
    BY <1>1 DEF StandsNow, Stands
  <2> QED BY <1>1, <2>1 DEF None
<1>3. query[r] \in Queries
  BY <1>1, <1>2 DEF ReadersOK
<1>4. /\ SoundAnswer(query[r], answer[r])
      /\ fresh[r] \/ SettledAt(lastChange, began[r])
           => GoodAnswer(query[r], answer[r], edges, closure)
  BY <1>1, <1>2 DEF StandsNow, Stands
<1>5. query[r].kind = k
  BY <1>1, <1>4 DEF SoundAnswer
<1>6. Settled(r) => SettledAt(lastChange, began[r])
  <2> SUFFICES ASSUME Settled(r) PROVE SettledAt(lastChange, began[r])
    OBVIOUS
  <2>1. PICK d \in 0..now : lastChange < d * DayLength - 1 /\ d * DayLength + 1 <= began[r]
    BY DEF Settled
  <2>2. d \in Nat /\ d * DayLength = DayLength * d
    BY <1>1, <2>1, ServerAssumption
  <2> QED BY <2>1, <2>2 DEF SettledAt
<1>7. \E g \in Graphs : closure = ClosureRows(Tables, g)
  BY DEF ServerInv, ServedOK, Closures
<1>8. edges \in SUBSET (Tables \X Tables)
  BY <1>1, ServerAssumption
<1> QED BY <1>1, <1>3, <1>4, <1>5, <1>6, <1>7, <1>8

LEMMA LineageHolds == ServerInv => LineageExact
<1> SUFFICES ASSUME ServerInv, NEW r \in Readers, Answered(r, "lineage"), Exact(r)
             PROVE  LET q == query[r]
                        a == answer[r]
                        seen == {q.table} \cup { h[3] : h \in a.hops }
                    IN  \/ "error" \in DOMAIN a /\ q.table \notin Tables
                        \/ ~a.truncated /\ a.hops = AllHops(q)
                        \/ /\ a.truncated /\ a.hops \subseteq AllHops(q) /\ a.hops # AllHops(q)
                           /\ Cardinality(seen) = MaxNodes
                           /\ \A h \in AllHops(q) \ a.hops, k \in a.hops : h[1] >= k[1]
  BY DEF LineageExact
<1> DEFINE q == query[r]
           a == answer[r]
           seen == {q.table} \cup { h[3] : h \in a.hops }
<1>1. /\ q \in Queries /\ q.kind = "lineage" /\ edges \in Graphs
      /\ GoodAnswer(q, a, edges, closure)
  BY AnswerIs DEF Exact
<1>2. q \in LineageQueries /\ GoodLineage(q, a, edges)
  BY <1>1, KindOf DEF GoodAnswer
<1>3. q.table \in Tables => AllHops(q) = HopsWithin(q, edges, Depth(q))
  BY <1>1, <1>2, AllHopsAre
<1>4. CASE "error" \in DOMAIN a /\ q.table \notin Tables
  BY <1>4
<1>5. CASE q.table \in Tables /\ ~a.truncated /\ a.hops = HopsWithin(q, edges, Depth(q))
  <2>1. ~a.truncated /\ a.hops = AllHops(q)
    BY <1>3, <1>5
  <2> QED BY <2>1, Zenon
<1>6. CASE q.table \in Tables /\ a.truncated /\ Short(q, a.hops, edges)
  <2>1. /\ a.truncated /\ a.hops \subseteq AllHops(q) /\ a.hops # AllHops(q)
        /\ Cardinality(seen) = MaxNodes
        /\ \A h \in AllHops(q) \ a.hops, k \in a.hops : h[1] >= k[1]
    BY <1>3, <1>6 DEF Short
  <2> QED BY <2>1, Zenon
<1> QED BY <1>2, <1>4, <1>5, <1>6 DEF GoodLineage

LEMMA PathHolds == ServerInv => PathIsShortest
<1> SUFFICES ASSUME ServerInv, NEW r \in Readers, Answered(r, "path")
             PROVE  LET q == query[r]
                        a == answer[r]
                    IN  /\ a.connected =>
                             /\ Head(a.tables) = q.from /\ Last(a.tables) = q.to
                             /\ IsInjective(a.tables) /\ IsChain(a.tables, UNION Graphs)
                        /\ fresh[r] =>
                             /\ a.connected <=>
                                  /\ InClosure(q.from, q.to)
                                  /\ \E x \in Distances : x[1] = q.from /\ x[2] = q.to
                             /\ a.connected =>
                                  /\ IsChain(a.tables, edges)
                                  /\ <<q.from, q.to, Len(a.tables) - 1>> \in Distances
  BY DEF PathIsShortest
<1> DEFINE q == query[r]
           a == answer[r]
<1>1. /\ q.kind = "path" /\ SoundAnswer(q, a) /\ edges \in Graphs
      /\ fresh[r] => GoodAnswer(q, a, edges, closure)
  BY AnswerIs
<1>2. SoundPath(q, a, UNION Graphs) /\ (fresh[r] => ShortestPath(q, a, edges, closure))
  BY <1>1 DEF SoundAnswer, GoodAnswer
<1> HIDE DEF q, a
<1>3. Closures[edges] = ClosureRows(Tables, edges)
  BY <1>1 DEF Closures
<1>4. \A x, y : InClosure(x, y) <=> InRows(closure, x, y)
  BY DEF InClosure, InRows
<1>6. \A row \in ClosureRows(Tables, edges) : <<row[1], row[2], row[3]>> \in Distances
  BY <1>3 DEF Distances
<1>5. ASSUME NEW x, NEW y
      PROVE  InRows(ClosureRows(Tables, edges), x, y)
               <=> \E d \in Distances : d[1] = x /\ d[2] = y
  <2>1. ASSUME NEW row \in ClosureRows(Tables, edges), row[1] = x, row[2] = y
        PROVE  \E d \in Distances : d[1] = x /\ d[2] = y
    BY <1>6, <2>1
  <2>2. ASSUME NEW d \in Distances, d[1] = x, d[2] = y
        PROVE  \E row \in ClosureRows(Tables, edges) : row[1] = x /\ row[2] = y
    <3>1. PICK row \in ClosureRows(Tables, edges) : d = <<row[1], row[2], row[3]>>
      BY <1>3 DEF Distances
    <3> QED BY <2>2, <3>1
  <2> QED BY <2>1, <2>2 DEF InRows
<1>7. a.connected => /\ Head(a.tables) = q.from /\ Last(a.tables) = q.to
                     /\ IsInjective(a.tables) /\ IsChain(a.tables, UNION Graphs)
  BY <1>2 DEF SoundPath
<1>8. ASSUME fresh[r]
      PROVE  a.connected <=> /\ InClosure(q.from, q.to)
                             /\ \E x \in Distances : x[1] = q.from /\ x[2] = q.to
  BY <1>2, <1>4, <1>5, <1>8 DEF ShortestPath
<1>9. ASSUME fresh[r], a.connected
      PROVE  IsChain(a.tables, edges) /\ <<q.from, q.to, Len(a.tables) - 1>> \in Distances
  <2>1. /\ IsChain(a.tables, edges)
        /\ \E row \in ClosureRows(Tables, edges) :
             row[1] = q.from /\ row[2] = q.to /\ row[3] = Len(a.tables) - 1
    BY <1>2, <1>9 DEF ShortestPath
  <2> QED BY <1>6, <2>1
<1> QED BY <1>7, <1>8, <1>9 DEF q, a

LEMMA PagesHold == ServerInv => PagesComplete
<1> SUFFICES ASSUME ServerInv, NEW r \in Readers, NEW s \in Readers,
                    Answered(r, "impact"), Exact(r), Answered(s, "impact"), Exact(s),
                    query[r].group = "table", query[s] = [query[r] EXCEPT !.page = 2],
                    query[r].page = 1
             PROVE  LET all == { row[2] : row \in Downstream(query[r].table) }
                        one == Range(answer[r].items)
                        two == Range(answer[s].items)
                    IN  /\ one \cap two = {} /\ one \cup two \subseteq all
                        /\ answer[r].total = Cardinality(all)
                        /\ answer[s].total = Cardinality(all)
                        /\ Cardinality(all) <= 2 * query[r].size => one \cup two = all
  BY DEF PagesComplete
<1> DEFINE q == query[r]
           p == query[s]
           a == answer[r]
           b == answer[s]
<1>1. q \in Queries /\ q.kind = "impact" /\ GoodAnswer(q, a, edges, closure)
  BY AnswerIs DEF Exact
<1>2. p \in Queries /\ p.kind = "impact" /\ GoodAnswer(p, b, edges, closure)
  BY AnswerIs DEF Exact
<1>3. q \in ImpactQueries
  BY <1>1, KindOf
<1>4. /\ q.group = "table" /\ q.page = 1 /\ q.size \in Nat
      /\ p.group = "table" /\ p.page = 2 /\ p.size = q.size /\ p.table = q.table
  BY <1>3 DEF ImpactQueries
<1>5. PICK g \in Graphs : closure = ClosureRows(Tables, g)
  BY AnswerIs
<1>6. g \in SUBSET (Tables \X Tables)
  BY ServerAssumption
<1>7. GoodPage(q, a, closure) /\ GoodPage(p, b, closure)
  BY <1>1, <1>2 DEF GoodAnswer
<1>8. { row[2] : row \in Downstream(query[r].table) } = ItemsIn(closure, q.table)
  BY DEF Downstream, ItemsIn, DownIn
<1> HIDE DEF q, p, a, b
<1> DEFINE all == ItemsIn(closure, q.table)
           one == Range(a.items)
           two == Range(b.items)
<1>9. /\ one \cap two = {} /\ one \cup two \subseteq all
      /\ a.total = Cardinality(all) /\ b.total = Cardinality(all)
      /\ Cardinality(all) <= 2 * q.size => one \cup two = all
  <2>1. Fit(q, a, b, closure)
    BY <1>4, <1>5, <1>6, <1>7, PagesFit
  <2> QED BY <2>1, Zenon DEF Fit
<1> HIDE DEF one, two
<1> QED BY <1>8, <1>9, Zenon DEF q, a, b, one, two

LEMMA FamiliesHold == ServerInv => FamiliesExact
<1> SUFFICES ASSUME ServerInv, NEW r \in Readers, Answered(r, "search"), fresh[r]
             PROVE  LET c == Candidates(query[r].keyword)
                        links == { p \in (DOMAIN c) \X (DOMAIN c) :
                                     0 \notin {c[p[1]].table, c[p[2]].table}
                                     /\ Related(c[p[1]].table, c[p[2]].table) }
                        family(i) == { j \in DOMAIN c : Reaches(DOMAIN c, links, i, j) }
                        families == { family(i) : i \in DOMAIN c }
                    IN  /\ DOMAIN answer[r].anchor = families
                        /\ \A fam \in families : answer[r].anchor[fam] \in Anchors(fam, c)
                        /\ answer[r].ambiguous <=> \E i, j \in DOMAIN c : j \notin family(i)
  BY DEF FamiliesExact
<1> DEFINE c == Candidates(query[r].keyword)
           a == answer[r]
           L == LinksIn(c, closure)
           links == { p \in (DOMAIN c) \X (DOMAIN c) :
                        0 \notin {c[p[1]].table, c[p[2]].table}
                        /\ Related(c[p[1]].table, c[p[2]].table) }
<1>1. query[r].kind = "search" /\ GoodAnswer(query[r], a, edges, closure)
  BY AnswerIs
<1>2. GoodFamilies(c, a, closure)
  BY <1>1 DEF GoodAnswer
<1>3. links = L
  <2> HIDE DEF c
  <2>1. \A x, y : Related(x, y) <=> RelatedIn(closure, x, y)
    BY DEF Related, RelatedIn, InClosure, InRows
  <2> QED BY <2>1 DEF LinksIn
<1> HIDE DEF c, a, L, links
<1>4. /\ DOMAIN a.anchor
           = { { j \in DOMAIN c : Reaches(DOMAIN c, links, i, j) } : i \in DOMAIN c }
      /\ \A fam \in { { j \in DOMAIN c : Reaches(DOMAIN c, links, i, j) } : i \in DOMAIN c } :
           a.anchor[fam] \in Anchors(fam, c)
      /\ a.ambiguous
           <=> \E i, j \in DOMAIN c : j \notin { k \in DOMAIN c : Reaches(DOMAIN c, links, i, k) }
  BY <1>2, <1>3, Zenon DEF GoodFamilies, FamilyOf, L
<1> QED BY <1>4, Zenon DEF c, a, links

-----------------------------------------------------------------------------
(* The variables of the server and of its calls keep their types. *)
THEOREM ServerTyped == ServerSpec => []ServerTypeOK
BY Invariance, InvTypes, PTL

(* While nothing is published in between, every lineage answer, computed   *)
(* or read from the cache, lists each edge within the depth at its level,  *)
(* or says that it was cut and omits only from its last levels             *)
(* (repo.get_lineage, cache.cached).                                       *)
THEOREM LineageIsExact == ServerSpec => []LineageExact
BY Invariance, LineageHolds, PTL

(* Whatever is published between its statements, a path that is found is a *)
(* simple chain of edges that were served; when nothing is, it is one of   *)
(* the shortest, and is found exactly where the closure has one            *)
(* (repo.get_lineage_path).                                                *)
THEOREM PathsAreShortest == ServerSpec => []PathIsShortest
BY Invariance, PathHolds, PTL

(* The two pages of a list, each computed or from the cache, show no table *)
(* twice and miss none (repo.impact_analysis, cache.cached).               *)
THEOREM PagesAreComplete == ServerSpec => []PagesComplete
BY Invariance, PagesHold, PTL

(* The families of a search are the candidates joined by chains of related *)
(* ones, in whatever order the pairs are asked for (repo._merge_families). *)
THEOREM FamiliesAreExact == ServerSpec => []FamiliesExact
BY Invariance, FamiliesHold, PTL

-----------------------------------------------------------------------------
(* PortalChat: connections, and the rows of the audit.                     *)
Fields == {"at", "out", "degraded", "status", "round", "tools", "cards", "trace"}
Holding == {"calling", "search", "lineage", "cards"}
NoCardYet == {"new", "begin", "llm", "tools", "calling", "connect"}
Over == {"audit", "end", "closed", "broken"}
Names == {"tool", "search_term", "get_lineage"}
CardCalls == {"search_term", "get_lineage"}
Traces == Seq([tool : Names, ok : BOOLEAN])

(* The last call, if there was one, was the LLM's. *)
LlmCalledLast(calls) == calls # <<>> => calls[Len(calls)] = "tool"

(* One chat: its record, the tools it called, whether it holds a connection. *)
Good(rec, calls, held) ==
  /\ DOMAIN rec = Fields /\ rec.trace \in Traces
  /\ held => rec.at \in Holding
  /\ rec.at = "calling" => rec.out = "nothing"
  /\ rec.status \in {"ok", "error"}
  /\ rec.status = "error" => rec.at \in Over
  /\ rec.at = "calling" => calls = Append(Tools(rec.trace), "tool")
  /\ rec.status = "error" =>
       \/ \E tool \in CardCalls : calls = Append(Tools(rec.trace), tool)
       \/ calls = Tools(rec.trace) /\ LlmCalledLast(calls)
  /\ rec.at \in NoCardYet => LlmCalledLast(calls)
  /\ rec.at # "calling" /\ rec.status = "ok" => calls = Tools(rec.trace)

(* Its row was written last of all and is never written again. *)
RowOf(row) ==
  /\ row.chat \in Chats
  /\ chat[row.chat].at \in {"end", "closed"}
  /\ row.trace = chat[row.chat].trace /\ row.status = chat[row.chat].status

IInv ==
  /\ DOMAIN chat = Chats /\ DOMAIN ran = Chats /\ pool \subseteq Chats
  /\ \A c \in Chats : Good(chat[c], ran[c], c \in pool)
  /\ \A row \in query_audit : RowOf(row)

-----------------------------------------------------------------------------
(* The names of a trace are a sequence as long as it. *)
LEMMA ToolsSeq ==
  ASSUME NEW s \in Traces
  PROVE  Tools(s) \in Seq(Names) /\ Len(Tools(s)) = Len(s)
<1>1. Len(s) \in Nat /\ DOMAIN s = 1..Len(s) /\ \A i \in 1..Len(s) : s[i].tool \in Names
  <2>1. Len(s) \in Nat /\ DOMAIN s = 1..Len(s)
    BY DEF Traces
  <2>2. \A i \in 1..Len(s) : s[i] \in [tool : Names, ok : BOOLEAN]
    BY ElementOfSeq DEF Traces
  <2> QED BY <2>1, <2>2
<1>2. Tools(s) = [i \in 1..Len(s) |-> s[i].tool]
  BY <1>1 DEF Tools
<1>3. Tools(s) \in [1..Len(s) -> Names]
  BY <1>1, <1>2
<1>4. Tools(s) \in Seq(Names)
  BY <1>1, <1>3, SeqDef
<1> QED BY <1>1, <1>2, <1>4

(* A trace that grows by an entry names one tool more.                     *)
LEMMA ToolsAppend ==
  ASSUME NEW s \in Traces, NEW e \in [tool : Names, ok : BOOLEAN]
  PROVE  /\ Append(s, e) \in Traces
         /\ Tools(Append(s, e)) = Append(Tools(s), e.tool)
<1>1. Append(s, e) \in Traces
  BY DEF Traces
<1>2. Tools(s) \in Seq(Names) /\ Len(Tools(s)) = Len(s)
  BY ToolsSeq
<1>3. DOMAIN Tools(Append(s, e)) = 1..(Len(s) + 1)
  BY DEF Tools, Traces
<1>4. DOMAIN Append(Tools(s), e.tool) = 1..(Len(s) + 1)
  BY <1>2
<1>5. ASSUME NEW i \in 1..(Len(s) + 1)
      PROVE  Tools(Append(s, e))[i] = Append(Tools(s), e.tool)[i]
  BY <1>2, <1>5 DEF Tools, Traces
<1>6. Tools(Append(s, e)) \in Seq(Names)
  BY <1>1, ToolsSeq
<1> QED BY <1>1, <1>2, <1>3, <1>4, <1>5, <1>6

(* The names of a trace are a sequence, and its last element can be cut off. *)
LEMMA AllButLast ==
  ASSUME NEW s \in Traces, NEW tool \in Names
  PROVE  LET calls == Append(Tools(s), tool)
         IN  /\ SubSeq(calls, 1, Len(calls) - 1) = Tools(s)
             /\ Len(calls) > 0 /\ calls[Len(calls)] = tool
<1>1. Tools(s) \in Seq(Names)
  BY ToolsSeq
<1> HIDE DEF Tools
<1> QED BY <1>1

-----------------------------------------------------------------------------
(* A step of one chat that keeps it good, with no row for it yet, keeps the *)
(* invariant: nothing else is touched.                                     *)
LEMMA OneChat ==
  ASSUME IInv, NEW c \in Chats, NEW rec,
         Become(c, rec),
         \A d \in Chats \ {c} : ran'[d] = ran[d], DOMAIN ran' = Chats,
         pool' \ {c} = pool \ {c}, pool' \subseteq Chats,
         Good(rec, ran'[c], c \in pool'),
         query_audit' = query_audit,
         \A row \in query_audit : row.chat = c =>
            rec.at \in {"end", "closed"} /\ rec.trace = chat[c].trace /\ rec.status = chat[c].status
  PROVE  IInv'
<1>1. DOMAIN chat' = Chats /\ chat'[c] = rec /\ \A d \in Chats \ {c} : chat'[d] = chat[d]
  BY DEF IInv, Become
<1>2. \A d \in Chats : Good(chat'[d], ran'[d], d \in pool')
  <2>1. ASSUME NEW d \in Chats \ {c} PROVE Good(chat'[d], ran'[d], d \in pool')
    <3>1. (d \in pool') = (d \in pool)
      OBVIOUS
    <3> QED BY <1>1, <3>1 DEF IInv, Good
  <2> QED BY <1>1, <2>1
<1>3. \A row \in query_audit' : RowOf(row)'
  BY <1>1 DEF IInv, RowOf
<1> QED BY <1>1, <1>2, <1>3 DEF IInv

(* While a chat runs there is no row for it. *)
LEMMA NoRowYet ==
  ASSUME IInv, NEW c \in Chats, chat[c].at \notin {"end", "closed"}
  PROVE  \A row \in query_audit : row.chat # c
  BY DEF IInv, RowOf

(* A step that leaves the trace and the tools called as they are. *)
LEMMA Moves ==
  ASSUME IInv, NEW c \in Chats, NEW rec, Become(c, rec),
         chat[c].at # "calling", rec.at # "calling",
         DOMAIN rec = Fields, rec.trace = chat[c].trace, rec.status = chat[c].status,
         chat[c].at \in Over => rec.at \in Over,
         rec.at \in NoCardYet => chat[c].at \in NoCardYet,
         chat[c].at \in {"end", "closed"} => rec.at \in {"end", "closed"},
         pool' \ {c} = pool \ {c}, pool' \subseteq Chats,
         c \in pool' => rec.at \in Holding,
         ran' = ran, query_audit' = query_audit
  PROVE  IInv'
<1>1. Good(rec, ran'[c], c \in pool')
  BY DEF IInv, Good
<1>2. \A row \in query_audit : row.chat = c =>
         rec.at \in {"end", "closed"} /\ rec.trace = chat[c].trace /\ rec.status = chat[c].status
  BY DEF IInv, RowOf
<1> QED BY <1>1, <1>2, OneChat DEF IInv

(* The event loop opens, sends and closes without touching the trace.      *)
LEMMA LoopKeeps ==
  ASSUME IInv, NEW c \in Chats, Open(c) \/ Send(c) \/ Close(c)
  PROVE  IInv'
<1>1. DOMAIN chat[c] = Fields /\ (c \in pool => chat[c].at \in Holding) /\ pool \subseteq Chats
  BY DEF IInv, Good
<1>2. CASE Open(c)
  <2> DEFINE rec == [chat[c] EXCEPT !.at = "begin"]
  <2>1. DOMAIN rec = Fields /\ rec.at = "begin" /\ rec.trace = chat[c].trace /\ rec.status = chat[c].status
    BY <1>1 DEF Fields
  <2>2. Become(c, rec) /\ chat[c].at = "new" /\ ran' = ran /\ pool' = pool /\ query_audit' = query_audit
    BY <1>2 DEF Open, elsewhere
  <2> HIDE DEF rec
  <2> QED BY <1>1, <2>1, <2>2, Moves DEF Over, NoCardYet, Holding
<1>3. CASE Send(c)
  <2> DEFINE rec == [chat[c] EXCEPT !.out = "nothing"]
  <2>1. DOMAIN rec = Fields /\ rec.at = chat[c].at /\ rec.trace = chat[c].trace /\ rec.status = chat[c].status
    BY <1>1 DEF Fields
  <2>2. Become(c, rec) /\ ran' = ran /\ pool' = pool /\ query_audit' = query_audit
    BY <1>3 DEF Send
  <2>3. chat[c].at # "calling"
    BY <1>3 DEF Send, IInv, Good
  <2> HIDE DEF rec
  <2> QED BY <1>1, <2>1, <2>2, <2>3, Moves
<1>4. CASE Close(c)
  <2> DEFINE rec == [chat[c] EXCEPT !.at = "closed", !.out = "nothing"]
  <2>1. DOMAIN rec = Fields /\ rec.at = "closed" /\ rec.trace = chat[c].trace /\ rec.status = chat[c].status
    BY <1>1 DEF Fields
  <2>2. Become(c, rec) /\ ran' = ran /\ pool' = pool \ {c} /\ query_audit' = query_audit
    BY <1>4 DEF Close, elsewhere
  <2>3. chat[c].at # "calling"
    BY <1>4 DEF Close, IInv, Good
  <2> HIDE DEF rec
  <2> QED BY <1>1, <2>1, <2>2, <2>3, Moves DEF Over, NoCardYet
<1> QED BY <1>2, <1>3, <1>4

(* A step of a thread that calls nothing and writes no row.                *)
Quiet(c, rec) ==
  /\ Become(c, rec)
  /\ DOMAIN rec = Fields /\ rec.trace = chat[c].trace /\ rec.status = chat[c].status
  /\ rec.at # "calling"
  /\ chat[c].at \in Over => rec.at \in Over
  /\ rec.at \in NoCardYet => chat[c].at \in NoCardYet
  /\ c \in pool' => rec.at \in Holding
  /\ chat[c].at \notin {"calling", "end", "closed"}
  /\ pool' \ {c} = pool \ {c} /\ pool' \subseteq Chats
  /\ ran' = ran /\ query_audit' = query_audit

(* Such are all steps that only go on, take or give back a connection.     *)
LEMMA QuietKeeps ==
  ASSUME IInv, NEW c \in Chats,
         \/ Begin(c) \/ Delta(c) \/ EndStream(c) \/ LlmFails(c) \/ EndRound(c)
         \/ TakeConnection(c) \/ YieldCard(c) \/ EndCards(c) \/ AuditFails(c)
  PROVE  IInv'
<1>1. DOMAIN chat[c] = Fields /\ (c \in pool => chat[c].at \in Holding) /\ pool \subseteq Chats
  BY DEF IInv, Good
<1> USE DEF Quiet, Running, elsewhere, Fields, Over, NoCardYet, Holding
<1>2. CASE Begin(c)
  <2>1. Quiet(c, [chat[c] EXCEPT !.out = "meta",
                                 !.at = IF chat[c].degraded THEN "connect" ELSE "llm"])
    BY <1>1, <1>2 DEF Begin
  <2> QED BY <2>1, Moves
<1>3. CASE Delta(c)
  <2>1. Quiet(c, [chat[c] EXCEPT !.out = "delta"])
    BY <1>1, <1>3 DEF Delta
  <2> QED BY <2>1, Moves
<1>4. CASE EndStream(c)
  <2>1. ASSUME Become(c, [chat[c] EXCEPT !.at = "audit"]) PROVE IInv'
    <3>1. Quiet(c, [chat[c] EXCEPT !.at = "audit"])
      BY <1>1, <1>4, <2>1 DEF EndStream
    <3> QED BY <3>1, Moves
  <2>2. ASSUME NEW n \in 1..MaxTools, Become(c, [chat[c] EXCEPT !.at = "tools", !.tools = n])
        PROVE  IInv'
    <3>1. Quiet(c, [chat[c] EXCEPT !.at = "tools", !.tools = n])
      BY <1>1, <1>4, <2>2 DEF EndStream
    <3> QED BY <3>1, Moves
  <2> QED BY <1>4, <2>1, <2>2 DEF EndStream
<1>5. CASE LlmFails(c)
  <2>1. Quiet(c, [chat[c] EXCEPT !.degraded = TRUE, !.out = "notice", !.at = "connect"])
    BY <1>1, <1>5 DEF LlmFails
  <2> QED BY <2>1, Moves
<1>6. CASE EndRound(c)
  <2>1. CASE chat[c].round < MaxRounds
    <3>1. Quiet(c, [chat[c] EXCEPT !.round = @ + 1, !.at = "llm"])
      BY <1>1, <1>6, <2>1 DEF EndRound
    <3> QED BY <3>1, Moves
  <2>2. CASE ~(chat[c].round < MaxRounds)
    <3>1. Quiet(c, [chat[c] EXCEPT !.round = @ + 1, !.at = "audit", !.out = "delta"])
      BY <1>1, <1>6, <2>2 DEF EndRound
    <3> QED BY <3>1, Moves
  <2> QED BY <2>1, <2>2
<1>7. CASE TakeConnection(c)
  <2>1. Quiet(c, [chat[c] EXCEPT !.at = "search"])
    BY <1>1, <1>7 DEF TakeConnection
  <2> QED BY <2>1, Moves
<1>8. CASE YieldCard(c)
  <2>1. Quiet(c, [chat[c] EXCEPT !.cards = @ - 1, !.out = "card"])
    BY <1>1, <1>8 DEF YieldCard
  <2> QED BY <2>1, Moves
<1>9. CASE EndCards(c)
  <2>1. Quiet(c, [chat[c] EXCEPT !.at = "audit"])
    BY <1>1, <1>9 DEF EndCards
  <2> QED BY <2>1, Moves
<1>10. CASE AuditFails(c)
  <2>1. Quiet(c, [chat[c] EXCEPT !.at = "broken"])
    BY <1>1, <1>10 DEF AuditFails
  <2> QED BY <2>1, Moves
<1> QED BY <1>2, <1>3, <1>4, <1>5, <1>6, <1>7, <1>8, <1>9, <1>10

-----------------------------------------------------------------------------
(* The steps that call a tool, return from one or write the row. *)

(* An entry of the trace carries the name of its tool. *)
LEMMA EntryTyped ==
  ASSUME NEW tool \in Names, NEW ok \in BOOLEAN
  PROVE  Entry(tool, ok) \in [tool : Names, ok : BOOLEAN] /\ Entry(tool, ok).tool = tool
  BY DEF Entry

(* A tool that is called is one name ahead of the trace (call_tool).       *)
LEMMA CallToolKeeps ==
  ASSUME IInv, NEW c \in Chats, CallTool(c)
  PROVE  IInv'
<1> DEFINE rec == [chat[c] EXCEPT !.at = "calling"]
<1>1. Become(c, rec) /\ query_audit' = query_audit /\ chat[c].at = "tools" /\ chat[c].out = "nothing"
      /\ pool' = pool \cup {c} /\ ran' = [ran EXCEPT ![c] = Append(@, "tool")]
  BY DEF CallTool, Called, Running, elsewhere
<1>2. Good(chat[c], ran[c], c \in pool) /\ DOMAIN ran = Chats /\ pool \subseteq Chats
  BY DEF IInv
<1>3. /\ DOMAIN rec = Fields /\ rec.at = "calling" /\ rec.out = "nothing"
      /\ rec.trace = chat[c].trace /\ rec.status = chat[c].status
  BY <1>1, <1>2 DEF Good, Fields
<1>4. chat[c].status = "ok" /\ ran[c] = Tools(chat[c].trace)
  BY <1>1, <1>2 DEF Good, Over
<1>5. ran'[c] = Append(Tools(chat[c].trace), "tool")
  BY <1>1, <1>2, <1>4
<1> HIDE DEF rec
<1>6. LlmCalledLast(ran'[c])
  <2>1. Tools(chat[c].trace) \in Seq(Names)
    BY <1>2, ToolsSeq DEF Good
  <2> HIDE DEF Tools
  <2> QED BY <1>5, <2>1 DEF LlmCalledLast
<1>7. Good(rec, ran'[c], c \in pool')
  BY <1>2, <1>3, <1>4, <1>5, <1>6 DEF Good, Holding
<1> QED BY <1>1, <1>2, <1>7, NoRowYet, OneChat

(* Returned or failed, it is in the trace and its connection is back.      *)
LEMMA ToolReturnsKeeps ==
  ASSUME IInv, NEW c \in Chats, ToolReturns(c)
  PROVE  IInv'
<1>1. PICK ok \in BOOLEAN : ToolEnds(c, <<Entry("tool", ok)>>)
  BY DEF ToolReturns
<1> DEFINE e == Entry("tool", ok)
           rec == [chat[c] EXCEPT !.trace = @ \o <<e>>, !.out = "tool", !.at = "tools", !.tools = @ - 1]
<1>2. Become(c, rec) /\ query_audit' = query_audit /\ chat[c].at = "calling"
      /\ pool' = pool \ {c} /\ ran' = ran
  BY <1>1 DEF ToolEnds, ToolReturns, Running, elsewhere
<1>3. Good(chat[c], ran[c], c \in pool) /\ DOMAIN ran = Chats /\ pool \subseteq Chats
  BY DEF IInv
<1>4. e \in [tool : Names, ok : BOOLEAN] /\ e.tool = "tool"
  BY <1>1, EntryTyped DEF Names
<1>5. chat[c].trace \in Traces /\ chat[c].trace \o <<e>> = Append(chat[c].trace, e)
  <2>1. chat[c].trace \in Traces
    BY <1>3 DEF Good
  <2> HIDE DEF e
  <2> QED BY <1>4, <2>1, AppendIsConcat DEF Traces
<1>6. /\ DOMAIN rec = Fields /\ rec.at = "tools"
      /\ rec.trace = Append(chat[c].trace, e) /\ rec.status = chat[c].status
  BY <1>3, <1>5 DEF Good, Fields
<1>7. chat[c].status = "ok" /\ ran[c] = Append(Tools(chat[c].trace), "tool")
  BY <1>2, <1>3 DEF Good, Over
<1>8. rec.trace \in Traces /\ ran'[c] = Tools(rec.trace)
  <2> HIDE DEF e, rec
  <2> QED BY <1>2, <1>4, <1>5, <1>6, <1>7, ToolsAppend
<1> HIDE DEF e, rec
<1>9. Good(rec, ran'[c], c \in pool')
  BY <1>2, <1>3, <1>6, <1>7, <1>8 DEF Good, NoCardYet
<1> QED BY <1>2, <1>3, <1>9, NoRowYet, OneChat

(* A call of the degraded answer that returned: traced and remembered.     *)
LEMMA TracedKeeps ==
  ASSUME IInv, NEW c \in Chats, NEW rec, NEW tool \in Names, NEW ok \in BOOLEAN,
         Become(c, rec), Called(c, tool), pool' = pool, query_audit' = query_audit,
         chat[c].at \in {"search", "lineage"}, rec.at \in {"lineage", "cards"},
         DOMAIN rec = Fields, rec.status = chat[c].status,
         rec.trace = Append(chat[c].trace, Entry(tool, ok))
  PROVE  IInv'
<1>1. Good(chat[c], ran[c], c \in pool) /\ DOMAIN ran = Chats /\ pool \subseteq Chats
  BY DEF IInv
<1>2. chat[c].status = "ok" /\ ran[c] = Tools(chat[c].trace) /\ chat[c].trace \in Traces
  BY <1>1 DEF Good, Over
<1>3. Entry(tool, ok) \in [tool : Names, ok : BOOLEAN] /\ Entry(tool, ok).tool = tool
  BY EntryTyped
<1>4. rec.trace \in Traces /\ Tools(rec.trace) = Append(Tools(chat[c].trace), tool)
  BY <1>2, <1>3, ToolsAppend
<1>5. ran' = [ran EXCEPT ![c] = Append(Tools(chat[c].trace), tool)]
  BY <1>2 DEF Called
<1>6. Good(rec, ran'[c], c \in pool')
  BY <1>1, <1>2, <1>4, <1>5 DEF Good, Holding, NoCardYet
<1> QED BY <1>1, <1>5, <1>6, NoRowYet, OneChat

(* Both calls of the degraded answer are traced when they return (_timed).  *)
LEMMA CardsKeep ==
  ASSUME IInv, NEW c \in Chats, SearchTerm(c) \/ GetLineage(c)
  PROVE  IInv'
<1>1. DOMAIN chat[c] = Fields
  BY DEF IInv, Good
<1>2. CASE SearchTerm(c)
  <2> DEFINE traced == [chat[c] EXCEPT !.trace = Append(@, Entry("search_term", TRUE))]
  <2>1. /\ Called(c, "search_term") /\ pool' = pool /\ query_audit' = query_audit
        /\ chat[c].at = "search"
    BY <1>2 DEF SearchTerm, Running, elsewhere
  <2>2. ASSUME NEW n \in 1..2, Become(c, [traced EXCEPT !.at = "cards", !.cards = n])
        PROVE  IInv'
    <3> DEFINE rec == [traced EXCEPT !.at = "cards", !.cards = n]
    <3>1. /\ rec.at = "cards" /\ DOMAIN rec = Fields /\ rec.status = chat[c].status
          /\ rec.trace = Append(chat[c].trace, Entry("search_term", TRUE))
      BY <1>1 DEF Fields
    <3>2. Become(c, rec)
      BY <2>2
    <3> HIDE DEF rec
    <3> QED BY <2>1, <3>1, <3>2, TracedKeeps DEF Names
  <2>3. ASSUME Become(c, [traced EXCEPT !.at = "lineage"])
        PROVE  IInv'
    <3> DEFINE rec == [traced EXCEPT !.at = "lineage"]
    <3>1. /\ rec.at = "lineage" /\ DOMAIN rec = Fields /\ rec.status = chat[c].status
          /\ rec.trace = Append(chat[c].trace, Entry("search_term", TRUE))
      BY <1>1 DEF Fields
    <3>2. Become(c, rec)
      BY <2>3
    <3> HIDE DEF rec
    <3> QED BY <2>1, <3>1, <3>2, TracedKeeps DEF Names
  <2> QED BY <1>2, <2>2, <2>3 DEF SearchTerm
<1>3. CASE GetLineage(c)
  <2>1. PICK ok \in BOOLEAN :
          Become(c, [chat[c] EXCEPT !.trace = Append(@, Entry("get_lineage", ok)),
                                    !.at = "cards", !.cards = 2])
    BY <1>3 DEF GetLineage
  <2>2. /\ Called(c, "get_lineage") /\ pool' = pool /\ query_audit' = query_audit
        /\ chat[c].at = "lineage"
    BY <1>3 DEF GetLineage, Running, elsewhere
  <2> DEFINE rec == [chat[c] EXCEPT !.trace = Append(@, Entry("get_lineage", ok)),
                                    !.at = "cards", !.cards = 2]
  <2>3. /\ rec.at = "cards" /\ DOMAIN rec = Fields /\ rec.status = chat[c].status
        /\ rec.trace = Append(chat[c].trace, Entry("get_lineage", ok))
    BY <1>1 DEF Fields
  <2>4. Become(c, rec) /\ ok \in BOOLEAN
    BY <2>1
  <2> HIDE DEF rec
  <2> QED BY <2>2, <2>3, <2>4, TracedKeeps DEF Names
<1> QED BY <1>2, <1>3

(* A statement that fails is missing from the trace, and the status says so. *)
LEMMA FailureKeeps ==
  ASSUME IInv, NEW c \in Chats, StatementFails(c)
  PROVE  IInv'
<1> DEFINE rec == [chat[c] EXCEPT !.status = "error", !.out = "error", !.at = "audit"]
<1>1. PICK tool \in CardCalls :
        /\ Called(c, tool) /\ chat[c].at \in {"search", "lineage"} /\ Become(c, rec)
        /\ pool' = pool \ {c} /\ query_audit' = query_audit
  BY DEF StatementFails, Broken, Running, elsewhere, CardCalls
<1>2. Good(chat[c], ran[c], c \in pool) /\ DOMAIN ran = Chats /\ pool \subseteq Chats
  BY DEF IInv
<1>3. chat[c].status = "ok" /\ ran[c] = Tools(chat[c].trace) /\ chat[c].trace \in Traces
  BY <1>1, <1>2 DEF Good, Over
<1>4. DOMAIN rec = Fields /\ rec.at = "audit" /\ rec.status = "error" /\ rec.trace = chat[c].trace
  BY <1>2 DEF Good, Fields
<1>5. ran' = [ran EXCEPT ![c] = Append(Tools(chat[c].trace), tool)]
  BY <1>1, <1>3 DEF Called
<1> HIDE DEF rec
<1>6. Good(rec, ran'[c], c \in pool')
  <2>1. tool \in CardCalls /\ ran'[c] = Append(Tools(rec.trace), tool)
    BY <1>1, <1>2, <1>4, <1>5
  <2>2. rec.trace \in Traces /\ c \notin pool'
    BY <1>1, <1>3, <1>4
  <2> QED BY <1>4, <2>1, <2>2 DEF Good, Over, NoCardYet
<1> QED BY <1>1, <1>2, <1>5, <1>6, NoRowYet, OneChat

(* A connection that fails breaks the chat off with its trace whole.       *)
LEMMA ConnectFailsKeeps ==
  ASSUME IInv, NEW c \in Chats, ConnectFails(c)
  PROVE  IInv'
<1> DEFINE rec == [chat[c] EXCEPT !.status = "error", !.out = "error", !.at = "audit"]
<1>1. /\ Become(c, rec) /\ chat[c].at = "connect" /\ ran' = ran /\ pool' = pool
      /\ query_audit' = query_audit
  BY DEF ConnectFails, Running, elsewhere
<1>2. Good(chat[c], ran[c], c \in pool) /\ DOMAIN ran = Chats /\ pool \subseteq Chats
  BY DEF IInv
<1>3. /\ chat[c].trace \in Traces /\ ran[c] = Tools(chat[c].trace) /\ LlmCalledLast(ran[c])
      /\ c \notin pool
  BY <1>1, <1>2 DEF Good, Over, NoCardYet, Holding
<1>4. DOMAIN rec = Fields /\ rec.at = "audit" /\ rec.status = "error" /\ rec.trace = chat[c].trace
  BY <1>2 DEF Good, Fields
<1> HIDE DEF rec
<1>5. Good(rec, ran'[c], c \in pool')
  BY <1>1, <1>3, <1>4 DEF Good, Over, NoCardYet
<1> QED BY <1>1, <1>2, <1>5, NoRowYet, OneChat

(* The row is the trace as it stands, and nothing is called after it.      *)
LEMMA WriteAuditKeeps ==
  ASSUME IInv, NEW c \in Chats, WriteAudit(c)
  PROVE  IInv'
<1> DEFINE rec == [chat[c] EXCEPT !.out = "done", !.at = "end"]
           row == [chat |-> c, trace |-> chat[c].trace, status |-> chat[c].status]
<1>1. /\ Become(c, rec) /\ chat[c].at = "audit" /\ ran' = ran /\ pool' = pool
      /\ query_audit' = query_audit \cup {row}
  BY DEF WriteAudit, Running
<1>2. Good(chat[c], ran[c], c \in pool) /\ DOMAIN chat = Chats /\ DOMAIN ran = Chats /\ pool \subseteq Chats
  BY DEF IInv
<1>3. DOMAIN rec = Fields /\ rec.at = "end" /\ rec.status = chat[c].status /\ rec.trace = chat[c].trace
  BY <1>2 DEF Good, Fields
<1>4. row.chat = c /\ row.trace = chat[c].trace /\ row.status = chat[c].status
  OBVIOUS
<1> HIDE DEF rec, row
<1>5. Good(rec, ran'[c], c \in pool')
  BY <1>1, <1>2, <1>3 DEF Good, Over, NoCardYet, Holding
<1>6. DOMAIN chat' = Chats /\ chat'[c] = rec /\ \A d \in Chats \ {c} : chat'[d] = chat[d]
  BY <1>1, <1>2 DEF Become
<1>7. \A d \in Chats : Good(chat'[d], ran'[d], d \in pool')
  BY <1>1, <1>5, <1>6 DEF IInv
<1>8. ASSUME NEW r \in query_audit'
      PROVE  /\ r.chat \in Chats
             /\ chat'[r.chat].at \in {"end", "closed"}
             /\ r.trace = chat'[r.chat].trace /\ r.status = chat'[r.chat].status
  <2>1. CASE r = row
    BY <1>3, <1>4, <1>6, <2>1
  <2>2. CASE r \in query_audit
    <3>1. r.chat # c
      BY <1>1, <2>2, NoRowYet
    <3> QED BY <1>6, <2>2, <3>1 DEF IInv, RowOf
  <2> QED BY <1>1, <1>8, <2>1, <2>2
<1> QED BY <1>1, <1>2, <1>6, <1>7, <1>8 DEF IInv, RowOf

-----------------------------------------------------------------------------
(* Every chat stays good and every row that of a chat that is over.        *)
LEMMA Inductive == Spec => []IInv
<1>1. Init => IInv
  <2> SUFFICES ASSUME Init PROVE IInv
    OBVIOUS
  <2>1. ASSUME NEW c \in Chats PROVE Good(chat[c], ran[c], c \in pool)
    <3>1. /\ DOMAIN chat[c] = Fields /\ chat[c].at = "new" /\ chat[c].status = "ok"
          /\ chat[c].trace = <<>> /\ ran[c] = <<>> /\ pool = {}
      BY DEF Init, Fields
    <3>2. Tools(<<>>) = <<>> /\ <<>> \in Traces
      BY DEF Tools, Traces
    <3> QED BY <3>1, <3>2 DEF Good, LlmCalledLast
  <2> QED BY <2>1 DEF Init, IInv
<1>2. IInv /\ [Next]_vars => IInv'
  <2> SUFFICES ASSUME IInv, [Next]_vars PROVE IInv'
    OBVIOUS
  <2>1. CASE UNCHANGED <<chat, ran, pool, query_audit>>
    BY <2>1 DEF IInv, RowOf
  <2>2. ASSUME NEW w \in Writes, StartWrite(w) \/ EndWrite(w) PROVE IInv'
    BY <2>1, <2>2 DEF StartWrite, EndWrite
  <2>3. ASSUME NEW c \in Chats, Thread(c) PROVE IInv'
    BY <2>3, QuietKeeps, CallToolKeeps, ToolReturnsKeeps, CardsKeep, FailureKeeps,
       ConnectFailsKeeps, WriteAuditKeeps DEF Thread
  <2> QED BY <2>1, <2>2, <2>3, LoopKeeps DEF Next, Server, vars
<1> QED BY <1>1, <1>2, PTL DEF Spec

(* A connection is held only while a tool or a card's statement needs it,  *)
(* by nobody whose chat is over: for any pool, rounds and failures         *)
(* (call_tool, gen's finally).                                             *)
THEOREM ConnectionsReturn == Spec => []ConnectionsComeBack
<1>1. IInv => ConnectionsComeBack
  BY DEF IInv, Good, ConnectionsComeBack, Holding
<1> QED BY <1>1, Inductive, PTL

(* The audit row of a chat names the calls it made, in order, through any  *)
(* number of rounds, failing tools, a failing LLM and a failing connection *)
(* - but for a card's call that broke it off (api_chat, _timed).           *)
THEOREM RowsNameEveryCall == Spec => []AuditNamesEveryCall
<1>1. ASSUME IInv, NEW row \in query_audit
      PROVE  LET calls == ran[row.chat]
                 n == Len(calls)
             IN  Tools(row.trace) = IF row.status = "error" /\ n > 0 /\ calls[n] # "tool"
                                    THEN SubSeq(calls, 1, n - 1) ELSE calls
  <2>1. PICK c \in Chats : c = row.chat
    BY <1>1 DEF IInv, RowOf
  <2>2. /\ Good(chat[c], ran[c], c \in pool) /\ chat[c].at \in {"end", "closed"}
        /\ row.trace = chat[c].trace /\ row.status = chat[c].status
    BY <1>1, <2>1 DEF IInv, RowOf
  <2>3. Tools(row.trace) \in Seq(Names)
    BY <2>2, ToolsSeq DEF Good
  <2> HIDE DEF Tools
  <2>4. CASE ran[c] = Tools(row.trace) /\ (row.status = "ok" \/ LlmCalledLast(ran[c]))
    BY <2>1, <2>3, <2>4 DEF LlmCalledLast
  <2>5. ASSUME NEW tool \in CardCalls, ran[c] = Append(Tools(row.trace), tool),
               row.status = "error"
        PROVE  Tools(row.trace) = SubSeq(ran[c], 1, Len(ran[c]) - 1)
               /\ Len(ran[c]) > 0 /\ ran[c][Len(ran[c])] # "tool"
    <3>1. tool \in Names /\ tool # "tool" /\ row.trace \in Traces
      BY <2>2, <2>5 DEF Good, CardCalls, Names
    <3> QED BY <2>5, <3>1, AllButLast
  <2>6. \/ ran[c] = Tools(row.trace) /\ (row.status = "ok" \/ LlmCalledLast(ran[c]))
        \/ row.status = "error" /\ \E tool \in CardCalls : ran[c] = Append(Tools(row.trace), tool)
    BY <2>2 DEF Good
  <2>7. CASE row.status = "error" /\ \E tool \in CardCalls : ran[c] = Append(Tools(row.trace), tool)
    BY <2>1, <2>5, <2>7
  <2> QED BY <2>4, <2>6, <2>7
<1>2. IInv => AuditNamesEveryCall
  BY <1>1 DEF AuditNamesEveryCall
<1> QED BY <1>2, Inductive, PTL

-----------------------------------------------------------------------------
(* The second invariant: types and pool, and what each client was shown.   *)
Places == Ended \cup {"begin", "llm", "tools", "calling", "connect", "search", "lineage",
                     "cards", "audit"}

Sound(rec) ==
  /\ DOMAIN rec = Fields
  /\ rec.at \in Places /\ rec.out \in Events \cup {"nothing"}
  /\ rec.degraded \in BOOLEAN /\ rec.status \in {"ok", "error"}
  /\ rec.round \in 0..MaxRounds + 1 /\ (rec.at \notin Over => rec.round <= MaxRounds)
  /\ rec.tools \in 0..MaxTools /\ (rec.at = "calling" => rec.tools > 0)
  /\ rec.cards \in 0..2

(* A chat's record, the events its client has received, its rows.          *)
Told(rec, seen, rows) ==
  /\ rec.out = "done" => rec.at = "end"
  /\ "done" \in seen => rec.at = "end" /\ rec.out = "nothing"
  /\ rec.at = "end" => rec.out \in {"done", "nothing"}
  /\ rec.out = "error" \/ "error" \in seen => rec.status = "error"
  /\ rec.status = "error" => rec.at \in Over
  /\ rec.status = "error" /\ rec.at # "closed" => rec.out = "error" \/ "error" \in seen
  /\ rec.at \in {"llm", "tools", "calling"} => ~rec.degraded
  /\ rec.at = "cards" /\ rec.cards = 0 => rec.out = "card" \/ "card" \in seen
  /\ rec.at \in {"audit", "end"} /\ rec.degraded => rec.status = "error" \/ "card" \in seen
  /\ rec.at = "end" => \E row \in rows : rows = {row} /\ row.status = rec.status
  /\ rows # {} => rec.at \in {"end", "closed"}

ChatInv ==
  /\ DOMAIN chat = Chats /\ shown \in [Chats -> SUBSET Events]
  /\ \A c \in Chats : Sound(chat[c]) /\ Told(chat[c], shown[c], RowsOf(c))

PoolInv ==
  /\ pool \subseteq Chats /\ IsFiniteSet(pool) /\ Cardinality(pool) <= PoolSize
  /\ loop \in Writes \cup {NoWrite} /\ written \subseteq Writes /\ faults \in 0..Faults

(* A chat goes on with a sound record; of the others nothing changes.      *)
LEMMA OneTold ==
  ASSUME ChatInv, NEW c \in Chats, NEW rec, Become(c, rec),
         NEW seen \in SUBSET Events, shown' = [shown EXCEPT ![c] = seen],
         \A row : row.chat # c => (row \in query_audit' <=> row \in query_audit),
         Sound(rec), Told(rec, seen, RowsOf(c)')
  PROVE  ChatInv'
<1>1. DOMAIN chat' = Chats /\ chat'[c] = rec /\ \A d \in Chats \ {c} : chat'[d] = chat[d]
  BY DEF ChatInv, Become
<1>2. shown' \in [Chats -> SUBSET Events] /\ shown'[c] = seen
      /\ \A d \in Chats \ {c} : shown'[d] = shown[d]
  BY DEF ChatInv
<1>3. \A d \in Chats \ {c} : RowsOf(d)' = RowsOf(d)
  BY DEF RowsOf
<1>4. \A d \in Chats : Sound(chat'[d])
  BY <1>1 DEF ChatInv
<1>5. \A d \in Chats : Told(chat'[d], shown'[d], RowsOf(d)')
  BY <1>1, <1>2, <1>3 DEF ChatInv
<1> QED BY <1>1, <1>2, <1>4, <1>5 DEF ChatInv

(* A thread writes no row and shows nothing, but for its audit.            *)
LEMMA ThreadTold ==
  ASSUME ChatInv, NEW c \in Chats, NEW rec, Become(c, rec),
         UNCHANGED <<shown, query_audit>>,
         Sound(rec), Told(rec, shown[c], RowsOf(c))
  PROVE  ChatInv'
<1>1. RowsOf(c)' = RowsOf(c)
  BY DEF RowsOf
<1>2. shown[c] \in SUBSET Events /\ shown' = [shown EXCEPT ![c] = shown[c]]
  BY DEF ChatInv
<1> QED BY <1>1, <1>2, OneTold

LEMMA ChatNow ==
  ASSUME ChatInv, NEW c \in Chats
  PROVE  Sound(chat[c]) /\ Told(chat[c], shown[c], RowsOf(c))
  BY DEF ChatInv

(* The steps of a thread before its audit row, one after the other.        *)
LEMMA StepsTold ==
  ASSUME ChatInv, NEW c \in Chats,
         \/ Begin(c) \/ Delta(c) \/ EndStream(c) \/ LlmFails(c) \/ CallTool(c) \/ ToolReturns(c)
         \/ EndRound(c) \/ TakeConnection(c) \/ ConnectFails(c) \/ SearchTerm(c)
         \/ GetLineage(c) \/ StatementFails(c) \/ YieldCard(c) \/ EndCards(c) \/ AuditFails(c)
  PROVE  ChatInv'
<1>1. Sound(chat[c]) /\ Told(chat[c], shown[c], RowsOf(c))
  BY ChatNow
<1>2. MaxRounds \in Nat /\ MaxTools \in Nat \ {0}
  BY PortalAssumption
<1>3. CASE Begin(c)
  <2> DEFINE rec == [chat[c] EXCEPT !.out = "meta", !.at = IF chat[c].degraded THEN "connect" ELSE "llm"]
  <2>1. /\ DOMAIN rec = Fields
        /\ rec.at = (IF chat[c].degraded THEN "connect" ELSE "llm")
        /\ rec.out = "meta" /\ rec.degraded = chat[c].degraded
        /\ rec.status = chat[c].status /\ rec.round = chat[c].round
        /\ rec.tools = chat[c].tools /\ rec.cards = chat[c].cards
    BY <1>1 DEF Sound, Fields
  <2>2. Become(c, rec) /\ UNCHANGED <<shown, query_audit>>
    BY <1>3 DEF Begin, elsewhere
  <2> HIDE DEF rec
  <2>3. Sound(rec)
    BY <1>1, <1>2, <2>1, <1>3 DEF Sound, Running, Places, Ended, Events, Over, Fields, Begin, elsewhere
  <2>4. Told(rec, shown[c], RowsOf(c))
    BY <1>1, <1>2, <2>1, <1>3 DEF Sound, Told, Running, Over, Begin, elsewhere
  <2> QED BY <2>2, <2>3, <2>4, ThreadTold
<1>4. CASE Delta(c)
  <2> DEFINE rec == [chat[c] EXCEPT !.out = "delta"]
  <2>1. /\ DOMAIN rec = Fields /\ rec.at = chat[c].at /\ rec.out = "delta"
        /\ rec.degraded = chat[c].degraded /\ rec.status = chat[c].status
        /\ rec.round = chat[c].round /\ rec.tools = chat[c].tools
        /\ rec.cards = chat[c].cards
    BY <1>1 DEF Sound, Fields
  <2>2. Become(c, rec) /\ UNCHANGED <<shown, query_audit>>
    BY <1>4 DEF Delta, elsewhere
  <2> HIDE DEF rec
  <2>3. Sound(rec)
    BY <1>1, <1>2, <2>1, <1>4 DEF Sound, Running, Places, Ended, Events, Over, Fields, Delta, elsewhere
  <2>4. Told(rec, shown[c], RowsOf(c))
    BY <1>1, <1>2, <2>1, <1>4 DEF Sound, Told, Running, Over, Delta, elsewhere
  <2> QED BY <2>2, <2>3, <2>4, ThreadTold
<1>5. CASE EndStream(c)
  <2>1. ASSUME Become(c, [chat[c] EXCEPT !.at = "audit"]) PROVE ChatInv'
    <3> DEFINE rec == [chat[c] EXCEPT !.at = "audit"]
    <3>1. /\ DOMAIN rec = Fields /\ rec.at = "audit" /\ rec.out = chat[c].out
          /\ rec.degraded = chat[c].degraded /\ rec.status = chat[c].status
          /\ rec.round = chat[c].round /\ rec.tools = chat[c].tools
          /\ rec.cards = chat[c].cards
      BY <1>1 DEF Sound, Fields
    <3>2. Become(c, rec) /\ UNCHANGED <<shown, query_audit>>
      BY <1>5, <2>1 DEF EndStream, elsewhere
    <3> HIDE DEF rec
    <3>3. Sound(rec)
      BY <1>1, <1>2, <3>1, <1>5, <2>1 DEF Sound, Running, Places, Ended, Events, Over, Fields, EndStream, elsewhere
    <3>4. Told(rec, shown[c], RowsOf(c))
      BY <1>1, <1>2, <3>1, <1>5, <2>1 DEF Sound, Told, Running, Over, EndStream, elsewhere
    <3> QED BY <3>2, <3>3, <3>4, ThreadTold
  <2>2. ASSUME NEW n \in 1..MaxTools, Become(c, [chat[c] EXCEPT !.at = "tools", !.tools = n])
        PROVE  ChatInv'
    <3> DEFINE rec == [chat[c] EXCEPT !.at = "tools", !.tools = n]
    <3>1. /\ DOMAIN rec = Fields /\ rec.at = "tools" /\ rec.out = chat[c].out
          /\ rec.degraded = chat[c].degraded /\ rec.status = chat[c].status
          /\ rec.round = chat[c].round /\ rec.tools = n /\ rec.cards = chat[c].cards
      BY <1>1 DEF Sound, Fields
    <3>2. Become(c, rec) /\ UNCHANGED <<shown, query_audit>>
      BY <1>5, <2>2 DEF EndStream, elsewhere
    <3> HIDE DEF rec
    <3>3. n \in 0..MaxTools
      BY <1>2, <2>2
    <3>4. chat[c].at = "llm"
      BY <1>5 DEF EndStream, Running
    <3>5. Sound(rec)
      BY <1>1, <3>1, <3>3, <3>4 DEF Sound, Places, Ended, Events, Over
    <3>6. Told(rec, shown[c], RowsOf(c))
      BY <1>1, <1>2, <3>1, <1>5, <2>2 DEF Sound, Told, Running, Over, EndStream, elsewhere
    <3> QED BY <3>2, <3>5, <3>6, ThreadTold
  <2> QED BY <1>5, <2>1, <2>2 DEF EndStream
<1>6. CASE LlmFails(c)
  <2> DEFINE rec == [chat[c] EXCEPT !.degraded = TRUE, !.out = "notice", !.at = "connect"]
  <2>1. /\ DOMAIN rec = Fields /\ rec.at = "connect" /\ rec.out = "notice"
        /\ rec.degraded = TRUE /\ rec.status = chat[c].status
        /\ rec.round = chat[c].round /\ rec.tools = chat[c].tools
        /\ rec.cards = chat[c].cards
    BY <1>1 DEF Sound, Fields
  <2>2. Become(c, rec) /\ UNCHANGED <<shown, query_audit>>
    BY <1>6 DEF LlmFails, elsewhere
  <2> HIDE DEF rec
  <2>3. Sound(rec)
    BY <1>1, <1>2, <2>1, <1>6 DEF Sound, Running, Places, Ended, Events, Over, Fields, LlmFails, elsewhere
  <2>4. Told(rec, shown[c], RowsOf(c))
    BY <1>1, <1>2, <2>1, <1>6 DEF Sound, Told, Running, Over, LlmFails, elsewhere
  <2> QED BY <2>2, <2>3, <2>4, ThreadTold
<1>7. CASE CallTool(c)
  <2> DEFINE rec == [chat[c] EXCEPT !.at = "calling"]
  <2>1. /\ DOMAIN rec = Fields /\ rec.at = "calling" /\ rec.out = chat[c].out
        /\ rec.degraded = chat[c].degraded /\ rec.status = chat[c].status
        /\ rec.round = chat[c].round /\ rec.tools = chat[c].tools
        /\ rec.cards = chat[c].cards
    BY <1>1 DEF Sound, Fields
  <2>2. Become(c, rec) /\ UNCHANGED <<shown, query_audit>>
    BY <1>7 DEF CallTool, elsewhere
  <2> HIDE DEF rec
  <2>3. Sound(rec)
    BY <1>1, <1>2, <2>1, <1>7 DEF Sound, Running, Places, Ended, Events, Over, Fields, CallTool, elsewhere
  <2>4. Told(rec, shown[c], RowsOf(c))
    BY <1>1, <1>2, <2>1, <1>7 DEF Sound, Told, Running, Over, CallTool, elsewhere
  <2> QED BY <2>2, <2>3, <2>4, ThreadTold
<1>8. CASE ToolReturns(c)
  <2>1. PICK ok \in BOOLEAN : ToolEnds(c, <<Entry("tool", ok)>>)
    BY <1>8 DEF ToolReturns
  <2> DEFINE rec == [chat[c] EXCEPT !.trace = @ \o <<Entry("tool", ok)>>, !.out = "tool",
                          !.at = "tools", !.tools = @ - 1]
  <2>2. /\ DOMAIN rec = Fields /\ rec.at = "tools" /\ rec.out = "tool"
        /\ rec.degraded = chat[c].degraded /\ rec.status = chat[c].status
        /\ rec.round = chat[c].round /\ rec.tools = chat[c].tools - 1
        /\ rec.cards = chat[c].cards
    BY <1>1 DEF Sound, Fields
  <2>3. Become(c, rec) /\ UNCHANGED <<shown, query_audit>>
    BY <1>8, <2>1 DEF ToolReturns, ToolEnds, elsewhere
  <2> HIDE DEF rec
  <2>4. chat[c].at = "calling" /\ chat[c].out = "nothing"
    BY <1>8 DEF ToolReturns, Running
  <2>5. chat[c].tools - 1 \in 0..MaxTools
    BY <1>1, <1>2, <2>4 DEF Sound
  <2>6. Sound(rec)
    BY <1>1, <2>2, <2>4, <2>5 DEF Sound, Places, Ended, Events, Over
  <2>7. Told(rec, shown[c], RowsOf(c))
    BY <1>1, <2>2, <2>4 DEF Told, Over
  <2> QED BY <2>3, <2>6, <2>7, ThreadTold
<1>9. CASE EndRound(c)
  <2>1. CASE chat[c].round < MaxRounds
    <3> DEFINE rec == [chat[c] EXCEPT !.round = @ + 1, !.at = "llm"]
    <3>1. /\ DOMAIN rec = Fields /\ rec.at = "llm" /\ rec.out = chat[c].out
          /\ rec.degraded = chat[c].degraded /\ rec.status = chat[c].status
          /\ rec.round = chat[c].round + 1 /\ rec.tools = chat[c].tools
          /\ rec.cards = chat[c].cards
      BY <1>1 DEF Sound, Fields
    <3>2. Become(c, rec) /\ UNCHANGED <<shown, query_audit>>
      BY <1>9, <2>1 DEF EndRound, elsewhere
    <3> HIDE DEF rec
    <3>3. chat[c].at = "tools" /\ chat[c].out = "nothing"
      BY <1>9 DEF EndRound, Running
    <3>4. chat[c].round \in 0..MaxRounds
      BY <1>1, <1>2, <3>3 DEF Sound, Over, Ended
    <3>5. chat[c].round + 1 \in 0..MaxRounds + 1 /\ chat[c].round + 1 <= MaxRounds
      BY <1>2, <3>4, <2>1
    <3>6. Sound(rec)
      BY <1>1, <3>1, <3>3, <3>5 DEF Sound, Places, Ended, Events, Over
    <3>7. Told(rec, shown[c], RowsOf(c))
      BY <1>1, <3>1, <3>3 DEF Told, Over
    <3> QED BY <3>2, <3>6, <3>7, ThreadTold
  <2>2. CASE ~(chat[c].round < MaxRounds)
    <3> DEFINE rec == [chat[c] EXCEPT !.round = @ + 1, !.at = "audit", !.out = "delta"]
    <3>1. /\ DOMAIN rec = Fields /\ rec.at = "audit" /\ rec.out = "delta"
          /\ rec.degraded = chat[c].degraded /\ rec.status = chat[c].status
          /\ rec.round = chat[c].round + 1 /\ rec.tools = chat[c].tools
          /\ rec.cards = chat[c].cards
      BY <1>1 DEF Sound, Fields
    <3>2. Become(c, rec) /\ UNCHANGED <<shown, query_audit>>
      BY <1>9, <2>2 DEF EndRound, elsewhere
    <3> HIDE DEF rec
    <3>3. chat[c].at = "tools" /\ chat[c].out = "nothing"
      BY <1>9 DEF EndRound, Running
    <3>4. chat[c].round \in 0..MaxRounds
      BY <1>1, <1>2, <3>3 DEF Sound, Over, Ended
    <3>5. chat[c].round + 1 \in 0..MaxRounds + 1
      BY <1>2, <3>4, <2>2
    <3>6. Sound(rec)
      BY <1>1, <3>1, <3>3, <3>5 DEF Sound, Places, Ended, Events, Over
    <3>7. Told(rec, shown[c], RowsOf(c))
      BY <1>1, <3>1, <3>3 DEF Told, Over
    <3> QED BY <3>2, <3>6, <3>7, ThreadTold
  <2> QED BY <2>1, <2>2
<1>10. CASE TakeConnection(c)
  <2> DEFINE rec == [chat[c] EXCEPT !.at = "search"]
  <2>1. /\ DOMAIN rec = Fields /\ rec.at = "search" /\ rec.out = chat[c].out
        /\ rec.degraded = chat[c].degraded /\ rec.status = chat[c].status
        /\ rec.round = chat[c].round /\ rec.tools = chat[c].tools
        /\ rec.cards = chat[c].cards
    BY <1>1 DEF Sound, Fields
  <2>2. Become(c, rec) /\ UNCHANGED <<shown, query_audit>>
    BY <1>10 DEF TakeConnection, elsewhere
  <2> HIDE DEF rec
  <2>3. Sound(rec)
    BY <1>1, <1>2, <2>1, <1>10 DEF Sound, Running, Places, Ended, Events, Over, Fields, TakeConnection, elsewhere
  <2>4. Told(rec, shown[c], RowsOf(c))
    BY <1>1, <1>2, <2>1, <1>10 DEF Sound, Told, Running, Over, TakeConnection, elsewhere
  <2> QED BY <2>2, <2>3, <2>4, ThreadTold
<1>11. CASE SearchTerm(c)
  <2> DEFINE traced == [chat[c] EXCEPT !.trace = Append(@, Entry("search_term", TRUE))]
  <2>1. ASSUME NEW n \in 1..2, Become(c, [traced EXCEPT !.at = "cards", !.cards = n])
        PROVE  ChatInv'
    <3> DEFINE rec == [traced EXCEPT !.at = "cards", !.cards = n]
    <3>1. /\ DOMAIN rec = Fields /\ rec.at = "cards" /\ rec.out = chat[c].out
          /\ rec.degraded = chat[c].degraded /\ rec.status = chat[c].status
          /\ rec.round = chat[c].round /\ rec.tools = chat[c].tools /\ rec.cards = n
      BY <1>1 DEF Sound, Fields
    <3>2. Become(c, rec) /\ UNCHANGED <<shown, query_audit>>
      BY <1>11, <2>1 DEF SearchTerm, elsewhere
    <3> HIDE DEF rec
    <3>3. Sound(rec)
      BY <1>1, <1>2, <3>1, <1>11, <2>1 DEF Sound, Running, Places, Ended, Events, Over, Fields, SearchTerm, elsewhere
    <3>4. Told(rec, shown[c], RowsOf(c))
      BY <1>1, <1>2, <3>1, <1>11, <2>1 DEF Sound, Told, Running, Over, SearchTerm, elsewhere
    <3> QED BY <3>2, <3>3, <3>4, ThreadTold
  <2>2. ASSUME Become(c, [traced EXCEPT !.at = "lineage"]) PROVE ChatInv'
    <3> DEFINE rec == [traced EXCEPT !.at = "lineage"]
    <3>1. /\ DOMAIN rec = Fields /\ rec.at = "lineage" /\ rec.out = chat[c].out
          /\ rec.degraded = chat[c].degraded /\ rec.status = chat[c].status
          /\ rec.round = chat[c].round /\ rec.tools = chat[c].tools
          /\ rec.cards = chat[c].cards
      BY <1>1 DEF Sound, Fields
    <3>2. Become(c, rec) /\ UNCHANGED <<shown, query_audit>>
      BY <1>11, <2>2 DEF SearchTerm, elsewhere
    <3> HIDE DEF rec
    <3>3. Sound(rec)
      BY <1>1, <1>2, <3>1, <1>11, <2>2 DEF Sound, Running, Places, Ended, Events, Over, Fields, SearchTerm, elsewhere
    <3>4. Told(rec, shown[c], RowsOf(c))
      BY <1>1, <1>2, <3>1, <1>11, <2>2 DEF Sound, Told, Running, Over, SearchTerm, elsewhere
    <3> QED BY <3>2, <3>3, <3>4, ThreadTold
  <2> QED BY <1>11, <2>1, <2>2 DEF SearchTerm
<1>12. CASE GetLineage(c)
  <2>1. PICK ok \in BOOLEAN :
          Become(c, [chat[c] EXCEPT !.trace = Append(@, Entry("get_lineage", ok)),
                                    !.at = "cards", !.cards = 2])
    BY <1>12 DEF GetLineage
  <2> DEFINE rec == [chat[c] EXCEPT !.trace = Append(@, Entry("get_lineage", ok)),
                                    !.at = "cards", !.cards = 2]
  <2>2. /\ DOMAIN rec = Fields /\ rec.at = "cards" /\ rec.out = chat[c].out
        /\ rec.degraded = chat[c].degraded /\ rec.status = chat[c].status
        /\ rec.round = chat[c].round /\ rec.tools = chat[c].tools /\ rec.cards = 2
    BY <1>1 DEF Sound, Fields
  <2>3. Become(c, rec) /\ UNCHANGED <<shown, query_audit>>
    BY <1>12, <2>1 DEF GetLineage, elsewhere
  <2> HIDE DEF rec
  <2>4. chat[c].at = "lineage" /\ chat[c].out = "nothing"
    BY <1>12 DEF GetLineage, Running
  <2>5. Sound(rec)
    BY <1>1, <2>2, <2>4 DEF Sound, Places, Ended, Events, Over
  <2>6. Told(rec, shown[c], RowsOf(c))
    BY <1>1, <2>2, <2>4 DEF Told, Over
  <2> QED BY <2>3, <2>5, <2>6, ThreadTold
<1>13. CASE StatementFails(c) \/ ConnectFails(c)
  <2> DEFINE rec == [chat[c] EXCEPT !.status = "error", !.out = "error", !.at = "audit"]
  <2>1. /\ DOMAIN rec = Fields /\ rec.at = "audit" /\ rec.out = "error"
        /\ rec.degraded = chat[c].degraded /\ rec.status = "error"
        /\ rec.round = chat[c].round /\ rec.tools = chat[c].tools
        /\ rec.cards = chat[c].cards
    BY <1>1 DEF Sound, Fields
  <2>2. Become(c, rec) /\ UNCHANGED <<shown, query_audit>>
    BY <1>13 DEF StatementFails, ConnectFails, Broken, elsewhere
  <2> HIDE DEF rec
  <2>3. chat[c].at \in {"connect", "search", "lineage"} /\ chat[c].out = "nothing"
    BY <1>13 DEF StatementFails, ConnectFails, Broken, Running
  <2>4. Sound(rec)
    BY <1>1, <2>1, <2>3 DEF Sound, Places, Ended, Events, Over
  <2>5. Told(rec, shown[c], RowsOf(c))
    BY <1>1, <2>1, <2>3 DEF Told, Over
  <2> QED BY <2>2, <2>4, <2>5, ThreadTold
<1>14. CASE YieldCard(c)
  <2> DEFINE rec == [chat[c] EXCEPT !.cards = @ - 1, !.out = "card"]
  <2>1. /\ DOMAIN rec = Fields /\ rec.at = chat[c].at /\ rec.out = "card"
        /\ rec.degraded = chat[c].degraded /\ rec.status = chat[c].status
        /\ rec.round = chat[c].round /\ rec.tools = chat[c].tools
        /\ rec.cards = chat[c].cards - 1
    BY <1>1 DEF Sound, Fields
  <2>2. Become(c, rec) /\ UNCHANGED <<shown, query_audit>>
    BY <1>14 DEF YieldCard, elsewhere
  <2> HIDE DEF rec
  <2>3. chat[c].at = "cards" /\ chat[c].out = "nothing" /\ chat[c].cards > 0
    BY <1>14 DEF YieldCard, Running
  <2>4. chat[c].cards - 1 \in 0..2
    BY <1>1, <2>3 DEF Sound
  <2>5. Sound(rec)
    BY <1>1, <2>1, <2>3, <2>4 DEF Sound, Places, Ended, Events, Over
  <2>6. Told(rec, shown[c], RowsOf(c))
    BY <1>1, <2>1, <2>3 DEF Told, Over
  <2> QED BY <2>2, <2>5, <2>6, ThreadTold
<1>15. CASE EndCards(c)
  <2> DEFINE rec == [chat[c] EXCEPT !.at = "audit"]
  <2>1. /\ DOMAIN rec = Fields /\ rec.at = "audit" /\ rec.out = chat[c].out
        /\ rec.degraded = chat[c].degraded /\ rec.status = chat[c].status
        /\ rec.round = chat[c].round /\ rec.tools = chat[c].tools
        /\ rec.cards = chat[c].cards
    BY <1>1 DEF Sound, Fields
  <2>2. Become(c, rec) /\ UNCHANGED <<shown, query_audit>>
    BY <1>15 DEF EndCards, elsewhere
  <2> HIDE DEF rec
  <2>3. Sound(rec)
    BY <1>1, <1>2, <2>1, <1>15 DEF Sound, Running, Places, Ended, Events, Over, Fields, EndCards, elsewhere
  <2>4. Told(rec, shown[c], RowsOf(c))
    BY <1>1, <1>2, <2>1, <1>15 DEF Sound, Told, Running, Over, EndCards, elsewhere
  <2> QED BY <2>2, <2>3, <2>4, ThreadTold
<1>16. CASE AuditFails(c)
  <2> DEFINE rec == [chat[c] EXCEPT !.at = "broken"]
  <2>1. /\ DOMAIN rec = Fields /\ rec.at = "broken" /\ rec.out = chat[c].out
        /\ rec.degraded = chat[c].degraded /\ rec.status = chat[c].status
        /\ rec.round = chat[c].round /\ rec.tools = chat[c].tools
        /\ rec.cards = chat[c].cards
    BY <1>1 DEF Sound, Fields
  <2>2. Become(c, rec) /\ UNCHANGED <<shown, query_audit>>
    BY <1>16 DEF AuditFails, elsewhere
  <2> HIDE DEF rec
  <2>3. Sound(rec)
    BY <1>1, <1>2, <2>1, <1>16 DEF Sound, Running, Places, Ended, Events, Over, Fields, AuditFails, elsewhere
  <2>4. Told(rec, shown[c], RowsOf(c))
    BY <1>1, <1>2, <2>1, <1>16 DEF Sound, Told, Running, Over, AuditFails, elsewhere
  <2> QED BY <2>2, <2>3, <2>4, ThreadTold
<1> QED BY <1>3, <1>4, <1>5, <1>6, <1>7, <1>8, <1>9, <1>10, <1>11, <1>12, <1>13, <1>14, <1>15, <1>16

(* The row is written and done is offered in one step (api_chat).          *)
LEMMA AuditTold ==
  ASSUME ChatInv, NEW c \in Chats, WriteAudit(c)
  PROVE  ChatInv'
<1> DEFINE rec == [chat[c] EXCEPT !.out = "done", !.at = "end"]
           row == [chat |-> c, trace |-> chat[c].trace, status |-> chat[c].status]
<1>1. Sound(chat[c]) /\ Told(chat[c], shown[c], RowsOf(c)) /\ shown[c] \in SUBSET Events
  BY ChatNow DEF ChatInv
<1>2. /\ Become(c, rec) /\ chat[c].at = "audit" /\ chat[c].out = "nothing"
      /\ query_audit' = query_audit \cup {row} /\ shown' = shown
  BY DEF WriteAudit, Running
<1>3. /\ DOMAIN rec = Fields /\ rec.at = "end" /\ rec.out = "done"
      /\ rec.degraded = chat[c].degraded /\ rec.status = chat[c].status
      /\ rec.round = chat[c].round /\ rec.tools = chat[c].tools
      /\ rec.cards = chat[c].cards
  BY <1>1 DEF Sound, Fields
<1>4. row.chat = c /\ row.status = chat[c].status
  OBVIOUS
<1> HIDE DEF rec, row
<1>5. RowsOf(c)' = {row}
  BY <1>1, <1>2, <1>4 DEF RowsOf, Told
<1>6. Sound(rec)
  BY <1>1, <1>3 DEF Sound, Places, Ended, Events, Over
<1>7. Told(rec, shown[c], {row})
  BY <1>1, <1>2, <1>3, <1>4 DEF Told, Over
<1>8. \A r : r.chat # c => (r \in query_audit' <=> r \in query_audit)
  BY <1>2, <1>4
<1>9. shown' = [shown EXCEPT ![c] = shown[c]]
  BY <1>2 DEF ChatInv
<1> QED BY <1>1, <1>2, <1>5, <1>6, <1>7, <1>8, <1>9, OneTold

(* The event loop opens a chat, sends its event or closes it.              *)
LEMMA LoopTold ==
  ASSUME ChatInv, NEW c \in Chats, Open(c) \/ Send(c) \/ Close(c)
  PROVE  ChatInv'
<1>1. Sound(chat[c]) /\ Told(chat[c], shown[c], RowsOf(c)) /\ shown[c] \in SUBSET Events
  BY ChatNow DEF ChatInv
<1>2. CASE Open(c)
  <2> DEFINE rec == [chat[c] EXCEPT !.at = "begin"]
  <2>1. /\ DOMAIN rec = Fields /\ rec.at = "begin" /\ rec.out = chat[c].out
        /\ rec.degraded = chat[c].degraded /\ rec.status = chat[c].status
        /\ rec.round = chat[c].round /\ rec.tools = chat[c].tools
        /\ rec.cards = chat[c].cards
    BY <1>1 DEF Sound, Fields
  <2>2. Become(c, rec) /\ UNCHANGED <<shown, query_audit>> /\ chat[c].at = "new"
    BY <1>2 DEF Open, elsewhere
  <2> HIDE DEF rec
  <2>3. Sound(rec)
    BY <1>1, <2>1, <2>2 DEF Sound, Places, Ended, Over
  <2>4. Told(rec, shown[c], RowsOf(c))
    BY <1>1, <2>1, <2>2 DEF Told, Over
  <2> QED BY <2>2, <2>3, <2>4, ThreadTold
<1>3. CASE Send(c)
  <2> DEFINE rec == [chat[c] EXCEPT !.out = "nothing"]
             seen == shown[c] \cup {chat[c].out}
  <2>1. /\ DOMAIN rec = Fields /\ rec.at = chat[c].at /\ rec.out = "nothing"
        /\ rec.degraded = chat[c].degraded /\ rec.status = chat[c].status
        /\ rec.round = chat[c].round /\ rec.tools = chat[c].tools
        /\ rec.cards = chat[c].cards
    BY <1>1 DEF Sound, Fields
  <2>2. /\ Become(c, rec) /\ query_audit' = query_audit /\ chat[c].out # "nothing"
        /\ shown' = [shown EXCEPT ![c] = seen]
    BY <1>3 DEF Send
  <2> HIDE DEF rec
  <2>3. Sound(rec) /\ seen \in SUBSET Events
    BY <1>1, <2>1, <2>2 DEF Sound, Places, Ended, Over
  <2>4. RowsOf(c)' = RowsOf(c)
    BY <2>2 DEF RowsOf
  <2>5. Told(rec, seen, RowsOf(c))
    BY <1>1, <2>1, <2>2 DEF Told, Over
  <2> QED BY <2>2, <2>3, <2>4, <2>5, OneTold
<1>4. CASE Close(c)
  <2> DEFINE rec == [chat[c] EXCEPT !.at = "closed", !.out = "nothing"]
  <2>1. /\ DOMAIN rec = Fields /\ rec.at = "closed" /\ rec.out = "nothing"
        /\ rec.degraded = chat[c].degraded /\ rec.status = chat[c].status
        /\ rec.round = chat[c].round /\ rec.tools = chat[c].tools
        /\ rec.cards = chat[c].cards
    BY <1>1 DEF Sound, Fields
  <2>2. Become(c, rec) /\ UNCHANGED <<shown, query_audit>> /\ chat[c].out # "nothing"
    BY <1>4 DEF Close, elsewhere
  <2> HIDE DEF rec
  <2>3. Sound(rec)
    BY <1>1, <2>1 DEF Sound, Places, Ended, Over
  <2>4. Told(rec, shown[c], RowsOf(c))
    BY <1>1, <2>1, <2>2 DEF Told, Over
  <2> QED BY <2>2, <2>3, <2>4, ThreadTold
<1> QED BY <1>2, <1>3, <1>4

(* The pool after a step: nobody enters, a chat leaves it, or enters it    *)
(* when there is a free connection.                                        *)
LEMMA PoolKeeps ==
  ASSUME PoolInv, NEW c \in Chats,
         \/ pool' \in {pool, pool \ {c}}
         \/ FreeConnection /\ pool' = pool \cup {c},
         UNCHANGED <<loop, written>>,
         faults' = faults \/ Fault
  PROVE  PoolInv'
<1>1. Cardinality(pool) \in Nat /\ PoolSize \in Nat /\ Faults \in Nat
  BY FS_CardinalityType, PortalAssumption DEF PoolInv
<1>2. /\ IsFiniteSet(pool \ {c})
      /\ Cardinality(pool \ {c}) \in {Cardinality(pool), Cardinality(pool) - 1}
  BY FS_RemoveElement DEF PoolInv
<1>3. /\ IsFiniteSet(pool \cup {c})
      /\ Cardinality(pool \cup {c}) \in {Cardinality(pool), Cardinality(pool) + 1}
  BY FS_AddElement DEF PoolInv
<1>4. /\ pool' \subseteq Chats /\ IsFiniteSet(pool') /\ Cardinality(pool') <= PoolSize
  <2>1. CASE pool' = pool
    BY <2>1 DEF PoolInv
  <2>2. CASE pool' = pool \ {c}
    <3>1. Cardinality(pool \ {c}) <= PoolSize
      BY <1>1, <1>2 DEF PoolInv
    <3> QED BY <1>2, <2>2, <3>1 DEF PoolInv
  <2>3. CASE FreeConnection /\ pool' = pool \cup {c}
    <3>1. Cardinality(pool \cup {c}) <= PoolSize
      BY <1>1, <1>3, <2>3 DEF FreeConnection
    <3> QED BY <1>3, <2>3, <3>1 DEF PoolInv
  <2> QED BY <2>1, <2>2, <2>3
<1>5. faults' \in 0..Faults
  BY <1>1 DEF PoolInv, Fault
<1> QED BY <1>4, <1>5 DEF PoolInv

LEMMA StepsPool ==
  ASSUME PoolInv, NEW c \in Chats, Open(c) \/ Send(c) \/ Close(c) \/ Thread(c)
  PROVE  PoolInv'
<1>1. UNCHANGED <<loop, written>>
  BY DEF Open, Send, Close, Thread, Begin, Delta, EndStream, LlmFails, CallTool, ToolReturns,
         ToolEnds, EndRound, TakeConnection, ConnectFails, SearchTerm, GetLineage, StatementFails,
         YieldCard, EndCards, WriteAudit, AuditFails, elsewhere
<1>2. faults' = faults \/ Fault
  BY DEF Open, Send, Close, Thread, Begin, Delta, EndStream, LlmFails, CallTool, ToolReturns,
         ToolEnds, EndRound, TakeConnection, ConnectFails, SearchTerm, GetLineage, StatementFails,
         Broken, YieldCard, EndCards, WriteAudit, AuditFails
<1>3. \/ pool' \in {pool, pool \ {c}}
      \/ FreeConnection /\ pool' = pool \cup {c}
  BY DEF Open, Send, Close, Thread, Begin, Delta, EndStream, LlmFails, CallTool, ToolReturns,
         ToolEnds, EndRound, TakeConnection, ConnectFails, SearchTerm, GetLineage, StatementFails,
         YieldCard, EndCards, WriteAudit, AuditFails
<1> QED BY <1>1, <1>2, <1>3, PoolKeeps

LEMMA ChatsKeepTelling == Spec => [](ChatInv /\ PoolInv)
<1>1. Init => ChatInv /\ PoolInv
  <2> SUFFICES ASSUME Init PROVE ChatInv /\ PoolInv
    OBVIOUS
  <2>1. PoolInv
    BY FS_EmptySet, PortalAssumption DEF Init, PoolInv
  <2>2. ASSUME NEW c \in Chats PROVE Sound(chat[c]) /\ Told(chat[c], shown[c], RowsOf(c))
    <3>1. /\ DOMAIN chat[c] = Fields /\ chat[c].at = "new" /\ chat[c].out = "nothing"
          /\ chat[c].degraded = ~LlmEnabled /\ chat[c].status = "ok" /\ chat[c].round = 0
          /\ chat[c].tools = 0 /\ chat[c].cards = 0
      BY DEF Init, Fields
    <3>2. shown[c] = {} /\ RowsOf(c) = {}
      BY DEF Init, RowsOf
    <3>3. Sound(chat[c])
      BY <3>1, PortalAssumption DEF Sound, Places, Ended, Over
    <3>4. Told(chat[c], shown[c], RowsOf(c))
      BY <3>1, <3>2 DEF Told, Over
    <3> QED BY <3>3, <3>4
  <2> QED BY <2>1, <2>2 DEF Init, ChatInv
<1>2. ChatInv /\ PoolInv /\ [Next]_vars => ChatInv' /\ PoolInv'
  <2> SUFFICES ASSUME ChatInv, PoolInv, [Next]_vars PROVE ChatInv' /\ PoolInv'
    OBVIOUS
  <2>1. CASE UNCHANGED vars
    BY <2>1 DEF vars, ChatInv, PoolInv, RowsOf
  <2>2. ASSUME NEW w \in Writes, StartWrite(w) \/ EndWrite(w) PROVE ChatInv' /\ PoolInv'
    BY <2>2 DEF StartWrite, EndWrite, ChatInv, PoolInv, RowsOf
  <2>3. ASSUME NEW c \in Chats, Open(c) \/ Send(c) \/ Close(c) \/ Thread(c) PROVE ChatInv'
    BY <2>3, LoopTold, StepsTold, AuditTold DEF Thread
  <2> QED BY <2>1, <2>2, <2>3, StepsPool DEF Next, Server
<1> QED BY <1>1, <1>2, PTL DEF Spec

(* The pool is never overdrawn and no round or card is counted beyond its  *)
(* bound, for any number of chats, rounds, tools and failures.             *)
THEOREM PortalTyped == Spec => []TypeOK
<1>1. ChatInv /\ PoolInv => TypeOK
  BY DEF ChatInv, PoolInv, TypeOK, Sound, Places
<1> QED BY <1>1, ChatsKeepTelling, PTL

(* A chat that is over without having been closed or broken off has        *)
(* exactly one row, and none has a row before it offers done.  Who received*)
(* done once the LLM failed was shown a card or an error, and an error     *)
(* exactly when the row says so (api_chat).                                *)
THEOREM DoneIsTrue == Spec => []DoneIsAudited
<1>1. ChatInv => DoneIsAudited
  <2> SUFFICES ASSUME ChatInv, NEW c \in Chats
               PROVE  /\ chat[c].at = "end" => Cardinality(RowsOf(c)) = 1
                      /\ chat[c].at \notin {"end", "closed"} => RowsOf(c) = {}
                      /\ "done" \in shown[c] =>
                           /\ chat[c].at = "end"
                           /\ chat[c].degraded => shown[c] \cap {"card", "error"} # {}
                           /\ "error" \in shown[c] <=> \E row \in RowsOf(c) : row.status = "error"
    BY DEF DoneIsAudited
  <2>1. Sound(chat[c]) /\ Told(chat[c], shown[c], RowsOf(c))
    BY ChatNow
  <2>2. CASE chat[c].at = "end"
    <3>1. PICK row \in RowsOf(c) : RowsOf(c) = {row} /\ row.status = chat[c].status
      BY <2>1, <2>2 DEF Told
    <3>2. Cardinality(RowsOf(c)) = 1
      BY <3>1, FS_Singleton
    <3> QED BY <2>1, <2>2, <3>1, <3>2 DEF Told
  <2>3. CASE chat[c].at # "end"
    BY <2>1, <2>3 DEF Told
  <2> QED BY <2>2, <2>3
<1> QED BY <1>1, ChatsKeepTelling, PTL
=============================================================================
