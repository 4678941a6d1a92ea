-------------------------- MODULE ClosureBFSProofs --------------------------
(* compute_closure finds what is reachable, at its distance and with the   *)
(* number of its shortest paths, for every set of tables, every adjacency  *)
(* dict and every order in which keys and neighbours come.                 *)
EXTENDS ClosureBFS, TableGraphProofs

E0 == Edges(adjacency)
Queued(t) == \E i \in 1..Len(q) : q[i] = t
Seen(t) == hops[t] # Unseen

(* What the search of anc has reached, and what it still owes: every       *)
(* neighbour of a reached table is reached unless that table waits in the  *)
(* queue or is being expanded.                                             *)
SearchInv ==
  anc # NoTable =>
    /\ anc \in Keys(adjacency) \ todo
    /\ Seen(anc)
    /\ \A t \in Tables : Seen(t) => Reaches(Tables, E0, anc, t)
    /\ \A t \in Tables : Queued(t) => Seen(t)
    /\ nbrs # {} => cur \in Tables /\ Seen(cur) /\ nbrs \subseteq adjacency[cur]
    /\ \A t \in Tables : Seen(t) /\ ~Queued(t) =>
         \A n \in adjacency[t] : Seen(n) \/ (t = cur /\ n \in nbrs)

(* Between two searches nothing is pending. *)
IdleInv == anc = NoTable => nbrs = {} /\ q = << >>

(* Rows belong to finished ancestors only. *)
RowsInv == \A r \in rows : Finished(r[1])

IInv ==
  /\ TypeOK
  /\ todo \subseteq Keys(adjacency)
  /\ SearchInv
  /\ IdleInv
  /\ RowsInv
  /\ ConnectivityExact

(* popleft takes the first table of the deque and keeps all the others.    *)
LEMMA QueueHead ==
  ASSUME NEW s \in Seq(Tables), s # << >>
  PROVE  /\ Head(s) \in Tables
         /\ Tail(s) \in Seq(Tables)
         /\ \A t : (\E i \in 1..Len(Tail(s)) : Tail(s)[i] = t)
                     => \E i \in 1..Len(s) : s[i] = t
         /\ \A t : (\E i \in 1..Len(s) : s[i] = t)
                     => t = Head(s) \/ \E i \in 1..Len(Tail(s)) : Tail(s)[i] = t
         /\ \E i \in 1..Len(s) : s[i] = Head(s)
<1>1. Len(s) \in Nat /\ Len(s) >= 1 /\ Head(s) = s[1] /\ Head(s) \in Tables
  OBVIOUS
<1>2. /\ Tail(s) \in Seq(Tables)
      /\ Len(Tail(s)) = Len(s) - 1
      /\ \A i \in 1..(Len(s) - 1) : Tail(s)[i] = s[i + 1]
  OBVIOUS
<1>3. ASSUME NEW t, NEW i \in 1..Len(Tail(s)), Tail(s)[i] = t
      PROVE  \E j \in 1..Len(s) : s[j] = t
  <2>1. i + 1 \in 1..Len(s) /\ s[i + 1] = t
    BY <1>1, <1>2, <1>3
  <2>2. QED
    BY <2>1
<1>4. ASSUME NEW t, NEW i \in 1..Len(s), s[i] = t, t # Head(s)
      PROVE  \E j \in 1..Len(Tail(s)) : Tail(s)[j] = t
  <2>1. i - 1 \in 1..Len(Tail(s)) /\ Tail(s)[i - 1] = t
    BY <1>1, <1>2, <1>4
  <2>2. QED
    BY <2>1
<1>5. QED
  BY <1>1, <1>2, <1>3, <1>4

(* append adds one table to the deque and keeps all it held.               *)
LEMMA QueueAppend ==
  ASSUME NEW s \in Seq(Tables), NEW e \in Tables
  PROVE  /\ Append(s, e) \in Seq(Tables)
         /\ \A t : (\E i \in 1..Len(Append(s, e)) : Append(s, e)[i] = t)
                     => t = e \/ \E i \in 1..Len(s) : s[i] = t
         /\ \A t : (t = e \/ \E i \in 1..Len(s) : s[i] = t)
                     => \E i \in 1..Len(Append(s, e)) : Append(s, e)[i] = t
<1>1. /\ Append(s, e) \in Seq(Tables)
      /\ Len(s) \in Nat
      /\ Len(Append(s, e)) = Len(s) + 1
      /\ Append(s, e)[Len(s) + 1] = e
      /\ \A i \in 1..Len(s) : Append(s, e)[i] = s[i]
  OBVIOUS
<1>2. ASSUME NEW t, NEW i \in 1..Len(Append(s, e)), Append(s, e)[i] = t
      PROVE  t = e \/ \E j \in 1..Len(s) : s[j] = t
  BY <1>1, <1>2
<1>3. ASSUME NEW t, t = e \/ \E i \in 1..Len(s) : s[i] = t
      PROVE  \E i \in 1..Len(Append(s, e)) : Append(s, e)[i] = t
  <2>1. CASE t = e
    <3>1. Len(s) + 1 \in 1..Len(Append(s, e))
      BY <1>1
    <3>2. QED
      BY <1>1, <2>1, <3>1
  <2>2. CASE \E i \in 1..Len(s) : s[i] = t
    <3>1. PICK i \in 1..Len(s) : s[i] = t
      BY <2>2
    <3>2. i \in 1..Len(Append(s, e)) /\ Append(s, e)[i] = t
      BY <1>1, <3>1
    <3>3. QED
      BY <3>2
  <2>3. QED
    BY <1>3, <2>1, <2>2
<1>4. QED
  BY <1>1, <1>2, <1>3

-----------------------------------------------------------------------------
(* The inductive invariant holds when compute_closure is called.           *)
LEMMA InitInv == Init => IInv
<1> SUFFICES ASSUME Init PROVE IInv
  OBVIOUS
<1> USE AdjacencyAssumption, NoTableAssumption DEF Init
<1>1. TypeOK
  BY DEF TypeOK, Keys, Unseen
<1>2. todo \subseteq Keys(adjacency)
  OBVIOUS
<1>3. SearchInv /\ IdleInv /\ RowsInv
  BY DEF SearchInv, IdleInv, RowsInv
<1>4. ConnectivityExact
  BY DEF ConnectivityExact, Finished
<1>5. QED
  BY <1>1, <1>2, <1>3, <1>4 DEF IInv

(* hops = {anc: 0}, q = deque([anc]): the search has reached its ancestor  *)
(* alone, which waits in the queue.                                        *)
LEMMA StartSearchInv ==
  ASSUME IInv, NEW a \in Tables, StartSearch(a)
  PROVE  IInv'
<1> USE NoTableAssumption DEF StartSearch, IInv
<1>1. TypeOK'
  BY DEF TypeOK, Unseen
<1>2. (todo \subseteq Keys(adjacency))'
  BY DEF Keys
<1>3. nbrs = {} /\ q = << >>
  BY DEF IdleInv
<1>4. SearchInv'
  <2>1. anc' = a /\ adjacency' = adjacency /\ a \in Keys(adjacency)
    BY DEF Keys
  <2>2. \A t \in Tables : Seen(t)' <=> t = a
    BY DEF Seen, Unseen
  <2>3. Queued(a)'
    <3>1. 1 \in 1..Len(q') /\ q'[1] = a
      OBVIOUS
    <3>2. QED
      BY <3>1 DEF Queued
  <2>4. \A t \in Tables : Queued(t)' => t = a
    BY DEF Queued
  <2>5. Reaches(Tables, E0, a, a)' /\ E0' = E0
    BY <2>1, ReachesSelf DEF E0, Edges
  <2>6. a \in Keys(adjacency') \ todo' /\ nbrs' = {}
    BY <1>3, <2>1 DEF Keys
  <2>7. QED
    BY <2>1, <2>2, <2>3, <2>4, <2>5, <2>6 DEF SearchInv
<1>5. IdleInv'
  BY DEF IdleInv
<1>6. \A r : Finished(r)' <=> Finished(r)
  BY DEF Finished, TypeOK, Keys
<1>7. RowsInv' /\ ConnectivityExact'
  BY <1>6 DEF RowsInv, ConnectivityExact
<1>8. QED
  BY <1>1, <1>2, <1>4, <1>5, <1>7

(* The table taken from the queue leaves all its neighbours owed.          *)
LEMMA PopTableInv ==
  ASSUME IInv, PopTable
  PROVE  IInv'
<1> USE DEF PopTable, IInv
<1>1. /\ Head(q) \in Tables
      /\ q' \in Seq(Tables)
      /\ \A t : Queued(t)' => Queued(t)
      /\ \A t : Queued(t) => t = Head(q) \/ Queued(t)'
      /\ Queued(Head(q))
  BY QueueHead DEF TypeOK, Queued
<1>2. TypeOK'
  BY <1>1 DEF TypeOK
<1>3. SearchInv'
  <2>1. \A t : Seen(t)' <=> Seen(t)
    BY DEF Seen
  <2>2. Seen(cur)' /\ cur' \in Tables /\ nbrs' = adjacency[cur']
    BY <1>1, <2>1 DEF SearchInv
  <2>3. ASSUME NEW t \in Tables, Seen(t), ~Queued(t)', NEW n \in adjacency[t]
        PROVE  Seen(n) \/ (t = cur' /\ n \in nbrs')
    BY <1>1, <2>3 DEF SearchInv
  <2>4. E0' = E0 /\ anc' = anc /\ todo' = todo /\ adjacency' = adjacency
    BY DEF E0
  <2>5. \A t \in Tables : Queued(t)' => Seen(t)'
    BY <1>1, <2>1 DEF SearchInv
  <2>6. QED
    BY <2>1, <2>2, <2>3, <2>4, <2>5 DEF SearchInv
<1>4. IdleInv'
  BY DEF IdleInv
<1>5. RowsInv' /\ ConnectivityExact'
  BY DEF RowsInv, ConnectivityExact, Finished
<1>6. (todo \subseteq Keys(adjacency))'
  BY DEF Keys
<1>7. QED
  BY <1>2, <1>3, <1>4, <1>5, <1>6

(* A neighbour that is reached is reachable, and is no longer owed.        *)
LEMMA VisitNeighbourInv ==
  ASSUME IInv, NEW nxt \in Tables, VisitNeighbour(nxt)
  PROVE  IInv'
<1> USE DEF IInv, VisitNeighbour
<1>1. /\ anc # NoTable /\ Seen(anc) /\ cur \in Tables /\ Seen(cur)
      /\ nxt \in adjacency[cur]
  BY DEF SearchInv, IdleInv
<1>2. hops[cur] \in Nat
  BY <1>1 DEF Seen, TypeOK
<1>3. TypeOK'
  <2>1. (nbrs' \subseteq Tables) /\ cur' \in Tables \cup {NoTable}
    BY DEF TypeOK
  <2>2. hops' \in [Tables -> Nat \cup {Unseen}] /\ cnt' \in [Tables -> Nat] /\ q' \in Seq(Tables)
    <3>1. CASE SkipAncestor(nxt)
      BY <3>1 DEF SkipAncestor, TypeOK
    <3>2. CASE Discover(nxt)
      BY <1>1, <1>2, <3>2, QueueAppend DEF Discover, TypeOK
    <3>3. CASE AddPaths(nxt)
      BY <1>1, <3>3 DEF AddPaths, TypeOK
    <3>4. CASE SkipSeen(nxt)
      BY <3>4 DEF SkipSeen, TypeOK
    <3>5. QED
      BY <3>1, <3>2, <3>3, <3>4
  <2>3. QED
    BY <2>1, <2>2 DEF TypeOK
<1>4. /\ E0' = E0
      /\ \A t \in Tables : Seen(t)' <=> Seen(t) \/ t = nxt
      /\ \A t \in Tables : Queued(t)' <=> Queued(t) \/ (t = nxt /\ ~Seen(nxt))
  <2>1. CASE SkipAncestor(nxt)
    BY <1>1, <2>1 DEF SkipAncestor, Seen, Queued, E0
  <2>2. CASE Discover(nxt)
    <3>1. \A t \in Tables : Queued(t)' <=> Queued(t) \/ t = nxt
      <4>1. q \in Seq(Tables) /\ q' = Append(q, nxt)
        BY <2>2 DEF Discover, TypeOK
      <4>2. /\ \A t : (\E i \in 1..Len(q') : q'[i] = t)
                        => t = nxt \/ \E i \in 1..Len(q) : q[i] = t
            /\ \A t : (t = nxt \/ \E i \in 1..Len(q) : q[i] = t)
                        => \E i \in 1..Len(q') : q'[i] = t
        BY <4>1, QueueAppend
      <4>3. QED
        BY <4>2, Zenon DEF Queued
    <3>2. \A t \in Tables : Seen(t)' <=> Seen(t) \/ t = nxt
      BY <1>2, <2>2 DEF Discover, Seen, TypeOK, Unseen
    <3>3. QED
      BY <2>2, <3>1, <3>2 DEF Discover, Seen, E0
  <2>3. CASE AddPaths(nxt)
    <3>1. Seen(nxt)
      BY <1>2, <2>3 DEF AddPaths, Seen, Unseen
    <3>2. QED
      BY <2>3, <3>1 DEF AddPaths, Seen, Queued, E0
  <2>4. CASE SkipSeen(nxt)
    BY <2>4 DEF SkipSeen, Seen, Queued, E0
  <2>5. QED
    BY <2>1, <2>2, <2>3, <2>4
<1>5. SearchInv'
  <2>1. Reaches(Tables, E0, anc, nxt)
    <3>1. <<cur, nxt>> \in E0
      BY <1>1 DEF E0, Edges
    <3>2. Reaches(Tables, E0, anc, cur)
      BY <1>1 DEF SearchInv
    <3>3. QED
      BY <3>1, <3>2, ReachesStep
  <2>2. \A t \in Tables : Seen(t)' => Reaches(Tables, E0, anc, t)
    BY <1>1, <1>4, <2>1 DEF SearchInv
  <2>3. ASSUME NEW t \in Tables, Seen(t)', ~Queued(t)', NEW n \in adjacency[t]
        PROVE  Seen(n)' \/ (t = cur /\ n \in nbrs')
    <3>1. Seen(t) /\ ~Queued(t) /\ n \in Tables
      BY <1>4, <2>3 DEF TypeOK
    <3>2. Seen(n) \/ (t = cur /\ n \in nbrs)
      BY <1>1, <2>3, <3>1 DEF SearchInv
    <3>3. QED
      BY <1>4, <3>1, <3>2
  <2>4. nbrs' # {} => cur' \in Tables /\ Seen(cur)' /\ nbrs' \subseteq adjacency[cur]
    BY <1>1, <1>4 DEF SearchInv
  <2>5. /\ anc' = anc /\ adjacency' = adjacency /\ cur' = cur
        /\ Seen(anc)' /\ anc \in Keys(adjacency') \ todo'
    BY <1>1, <1>4 DEF SearchInv, TypeOK, Keys
  <2>6. \A t \in Tables : Queued(t)' => Seen(t)'
    BY <1>1, <1>4 DEF SearchInv
  <2>7. QED
    BY <1>4, <2>2, <2>3, <2>4, <2>5, <2>6 DEF SearchInv
<1>6. IdleInv'
  BY <1>1 DEF IdleInv
<1>7. RowsInv' /\ ConnectivityExact'
  BY DEF RowsInv, ConnectivityExact, Finished
<1>8. (todo \subseteq Keys(adjacency))'
  BY DEF Keys
<1>9. QED
  BY <1>3, <1>5, <1>6, <1>7, <1>8

(* With nothing queued and nothing owed, the reached tables are a closed   *)
(* set, so every reachable table is among them.                            *)
LEMMA SeenIsReached ==
  ASSUME IInv, anc # NoTable, nbrs = {}, q = << >>
  PROVE  \A d \in Tables : Seen(d) <=> Reaches(Tables, E0, anc, d)
<1> DEFINE S == { t \in Tables : Seen(t) }
<1>1. \A t \in Tables : ~Queued(t)
  BY DEF Queued
<1>2. Closed(E0, S)
  <2>1. ASSUME NEW t \in Tables, Seen(t), NEW n \in adjacency[t]
        PROVE  n \in Tables /\ Seen(n)
    BY <1>1, <2>1 DEF IInv, SearchInv, TypeOK
  <2> QED BY <2>1 DEF Closed, E0, Edges
<1>3. anc \in S
  BY DEF IInv, SearchInv, Keys
<1>4. ASSUME NEW d \in Tables, Reaches(Tables, E0, anc, d) PROVE d \in S
  BY <1>2, <1>3, <1>4, ReachesWithin
<1> QED BY <1>4 DEF IInv, SearchInv

(* So the rows of the ancestor are complete when its search ends.          *)
LEMMA EndSearchInv ==
  ASSUME IInv, EndSearch
  PROVE  IInv'
<1> USE DEF IInv, EndSearch
<1>1. anc \in Tables /\ anc \in Keys(adjacency) \ todo
  BY DEF SearchInv, Keys
<1>2. TypeOK'
  <2>1. \A t \in Tables : Seen(t) => hops[t] \in Nat /\ cnt[t] \in Nat
    BY DEF TypeOK, Seen
  <2>2. FoundRows \subseteq Tables \X Tables \X Nat \X Nat
    BY <1>1, <2>1 DEF FoundRows, Seen
  <2>3. QED
    BY <2>2 DEF TypeOK
<1>3. \A d \in Tables : Seen(d) <=> Reaches(Tables, E0, anc, d)
  BY SeenIsReached
<1>4. \A a : Finished(a)' <=> Finished(a) \/ a = anc
  BY <1>1, NoTableAssumption DEF Finished, Keys
<1>5. \A r \in FoundRows : r[1] = anc
  BY DEF FoundRows
<1>6. RowsInv'
  BY <1>4, <1>5 DEF RowsInv
<1>7. \A a, d \in Tables :
        <<a, d>> \in Pairs(rows)' <=> \/ <<a, d>> \in Pairs(rows)
                                      \/ a = anc /\ d # anc /\ Seen(d)
  <2>1. Pairs(rows)' = Pairs(rows) \cup Pairs(FoundRows)
    BY DEF Pairs
  <2>2. ASSUME NEW a \in Tables, NEW d \in Tables, a = anc, d # anc, Seen(d)
        PROVE  <<a, d>> \in Pairs(FoundRows)
    <3>1. <<anc, d, hops[d], cnt[d]>> \in FoundRows
      BY <2>2 DEF FoundRows, Seen
    <3>2. <<<<anc, d, hops[d], cnt[d]>>[1], <<anc, d, hops[d], cnt[d]>>[2]>> = <<a, d>>
      BY <2>2
    <3>3. QED
      BY <3>1, <3>2 DEF Pairs
  <2>3. ASSUME NEW a \in Tables, NEW d \in Tables, <<a, d>> \in Pairs(FoundRows)
        PROVE  a = anc /\ d # anc /\ Seen(d)
    <3>1. PICK r \in FoundRows : <<a, d>> = <<r[1], r[2]>>
      BY <2>3 DEF Pairs
    <3>2. PICK t \in Tables : t # anc /\ Seen(t) /\ r = <<anc, t, hops[t], cnt[t]>>
      BY DEF FoundRows, Seen
    <3>3. QED
      BY <3>1, <3>2
  <2>4. QED
    BY <2>1, <2>2, <2>3
<1>8. \A d : <<anc, d>> \notin Pairs(rows)
  BY DEF RowsInv, Pairs, Finished
<1>9. ConnectivityExact'
  <2> SUFFICES ASSUME NEW a \in Tables, NEW d \in Tables, Finished(a)'
               PROVE  <<a, d>> \in Pairs(rows)' <=> a # d /\ Reaches(Tables, E0, a, d)
    BY DEF ConnectivityExact, E0
  <2>1. CASE a = anc
    BY <1>3, <1>7, <1>8, <2>1
  <2>2. CASE a # anc
    <3>1. Finished(a)
      BY <1>4, <2>2
    <3>2. <<a, d>> \in Pairs(rows) <=> a # d /\ Reaches(Tables, E0, a, d)
      BY <3>1 DEF ConnectivityExact, E0
    <3>3. QED
      BY <1>7, <2>2, <3>2
  <2>3. QED
    BY <2>1, <2>2
<1>10. SearchInv' /\ IdleInv' /\ (todo \subseteq Keys(adjacency))'
  BY DEF SearchInv, IdleInv, Keys
<1>11. QED
  BY <1>2, <1>6, <1>9, <1>10

(* The inductive invariant is kept by every step.                          *)
LEMMA IInvKept == IInv /\ [Next]_vars => IInv'
<1> SUFFICES ASSUME IInv, [Next]_vars PROVE IInv'
  OBVIOUS
<1>1. ASSUME NEW a \in Tables, StartSearch(a) PROVE IInv'
  BY <1>1, StartSearchInv
<1>2. CASE PopTable
  BY <1>2, PopTableInv
<1>3. ASSUME NEW nxt \in Tables, VisitNeighbour(nxt) PROVE IInv'
  BY <1>3, VisitNeighbourInv
<1>4. CASE EndSearch
  BY <1>4, EndSearchInv
<1>5. CASE UNCHANGED vars
  BY <1>5 DEF vars, IInv, TypeOK, SearchInv, IdleInv, RowsInv, ConnectivityExact,
              Finished, Keys, E0, Edges, Seen, Queued, Pairs
<1> QED BY <1>1, <1>2, <1>3, <1>4, <1>5 DEF Next, Return

(* compute_closure keeps its variables in their types, and the rows of     *)
(* every ancestor it has finished are exactly the tables that ancestor     *)
(* reaches: for any number of tables and any graph, cycles and self-loops  *)
(* included.                                                               *)
THEOREM ClosureIsReachability == Spec => [](TypeOK /\ ConnectivityExact)
<1>1. Init => IInv
  BY InitInv
<1>2. IInv => TypeOK /\ ConnectivityExact
  BY DEF IInv
<1> QED BY <1>1, <1>2, IInvKept, PTL DEF Spec

-----------------------------------------------------------------------------
(* Reached, but not yet expanded.                                         *)
Pending(t) == Seen(t) /\ (Queued(t) \/ (t = cur /\ nbrs # {}))

(* In what order the search proceeds: the queue is sorted by hops, no      *)
(* table is in it twice, what left it is not further than what waits, and  *)
(* what is reached is at most one hop further.                             *)
QueueOrder ==
  /\ \A i, j \in 1..Len(q) : q[i] = q[j] => i = j
  /\ \A i, j \in 1..Len(q) : i <= j => hops[q[i]] <= hops[q[j]]
  /\ \A i \in 1..Len(q), t \in Tables :
       Seen(t) => hops[t] <= hops[q[i]] + (IF Queued(t) THEN 1 ELSE 0)
  /\ nbrs # {} =>
       /\ ~Queued(cur)
       /\ \A t \in Tables : Seen(t) => hops[t] <= hops[cur] + (IF Queued(t) THEN 1 ELSE 0)

(* A neighbour that is not owed is at most one hop further. *)
HopsStep ==
  \A t \in Tables : Seen(t) /\ ~Queued(t) =>
    \A n \in adjacency[t] : (t = cur /\ n \in nbrs) \/ (Seen(n) /\ hops[n] <= hops[t] + 1)

(* The shortest walks to t whose last edge the search has followed, which  *)
(* cnt counts.                                                             *)
Followed(t) ==
  { w \in Walks(Tables, E0, anc, t, hops[t]) :
      hops[t] > 0 => LET u == w[hops[t] - 1]
                     IN  Seen(u) /\ ~Queued(u) /\ ~(u = cur /\ t \in nbrs) }

(* The search as far as hops goes.                                         *)
SearchOrder ==
  anc # NoTable => hops[anc] = 0 /\ QueueOrder /\ HopsStep

(* Each table reached has a walk of its hops, and its count is of those    *)
(* followed.                                                               *)
Counted ==
  anc # NoTable => \A t \in Tables : Seen(t) =>
    /\ Walks(Tables, E0, anc, t, hops[t]) # {}
    /\ IsFiniteSet(Followed(t)) /\ cnt[t] = Cardinality(Followed(t))

(* The rows of finished ancestors are those of the graph.                  *)
RowsRight ==
  \A r \in rows \cup ClosureRows(Tables, E0) :
    Finished(r[1]) => (r \in rows <=> r \in ClosureRows(Tables, E0))

ExactInv == IInv /\ SearchOrder /\ Counted /\ RowsRight

(* As long as every table that waits is at L hops or more, the ends of the *)
(* shorter walks are reached, in no more hops, and have been expanded.     *)
LEMMA LevelWalk ==
  ASSUME TypeOK, anc \in Tables, Seen(anc), hops[anc] = 0, HopsStep, NEW L \in Nat,
         \A u \in Tables : Pending(u) => hops[u] >= L,
         NEW k \in Nat, k < L, NEW t \in Tables, Walks(Tables, E0, anc, t, k) # {}
  PROVE  Seen(t) /\ ~Pending(t) /\ hops[t] <= k
<1> DEFINE Ends(i) == { x \in Tables : Walks(Tables, E0, anc, x, i) # {} }
           S == { i \in Nat : i < L => \A x \in Ends(i) : Seen(x) /\ hops[x] <= i }
<1>1. \A x \in Tables : Seen(x) => hops[x] \in Nat
  BY DEF TypeOK, Seen
<1>2. 0 \in S
  <2>1. ASSUME NEW x \in Ends(0) PROVE x = anc
    BY DEF Walks
  <2> QED BY <2>1
<1>3. ASSUME NEW i \in Nat, i \in S PROVE i + 1 \in S
  <2> SUFFICES ASSUME i + 1 < L, NEW x \in Ends(i + 1) PROVE Seen(x) /\ hops[x] <= i + 1
    OBVIOUS
  <2>1. PICK w \in Walks(Tables, E0, anc, x, i + 1) : TRUE
    OBVIOUS
  <2> DEFINE u == w[i]
  <2>2. u \in Tables /\ <<u, x>> \in E0 /\ x \in Tables /\ Walks(Tables, E0, anc, u, i) # {}
    BY <2>1, WalkShrinks
  <2> HIDE DEF u
  <2>3. Seen(u) /\ hops[u] <= i /\ hops[u] \in Nat
    BY <1>1, <1>3, <2>2
  <2>4. ~Pending(u)
    <3>1. Pending(u) => hops[u] >= L
      BY <2>2
    <3>2. ~(hops[u] >= L)
      BY <2>3
    <3> QED BY <3>1, <3>2
  <2>5. x \in adjacency[u]
    BY <2>2 DEF E0, Edges
  <2>6. Seen(x) /\ hops[x] <= hops[u] + 1
    BY <2>2, <2>3, <2>4, <2>5 DEF HopsStep, Pending
  <2> QED BY <1>1, <2>2, <2>3, <2>6
<1>4. k \in S
  <2> HIDE DEF S
  <2> QED BY <1>2, <1>3, AllNaturals
<1>5. Seen(t) /\ hops[t] <= k
  BY <1>4
<1> QED BY <1>1, <1>5

(* So nothing is reached by a walk shorter than its hops.                  *)
LEMMA NoShorterWalk ==
  ASSUME TypeOK, anc \in Tables, Seen(anc), hops[anc] = 0, HopsStep, NEW L \in Nat,
         \A u \in Tables : Pending(u) => hops[u] >= L,
         NEW t \in Tables, Seen(t), hops[t] <= L + 1, NEW k \in Nat, k < hops[t]
  PROVE  Walks(Tables, E0, anc, t, k) = {}
<1> SUFFICES ASSUME Walks(Tables, E0, anc, t, k) # {} PROVE FALSE
  OBVIOUS
<1>1. hops[t] \in Nat
  BY DEF TypeOK, Seen
<1>2. k = L
  BY <1>1, LevelWalk
<1>3. k # 0
  <2>1. k = 0 => t = anc
    BY DEF Walks
  <2> QED BY <2>1
<1>4. PICK w \in Walks(Tables, E0, anc, t, k) : TRUE
  OBVIOUS
<1> DEFINE i == k - 1
           u == w[i]
<1>5. i \in Nat /\ i + 1 = k
  BY <1>3
<1>6. u \in Tables /\ <<u, t>> \in E0 /\ Walks(Tables, E0, anc, u, i) # {}
  <2> HIDE DEF i
  <2> QED BY <1>4, <1>5, WalkShrinks
<1> HIDE DEF i, u
<1>7. Seen(u) /\ ~Pending(u) /\ hops[u] <= i
  BY <1>2, <1>5, <1>6, LevelWalk
<1>8. t \in adjacency[u] /\ hops[u] \in Nat
  BY <1>6, <1>7 DEF E0, Edges, TypeOK, Seen
<1>9. hops[t] <= hops[u] + 1
  BY <1>6, <1>7, <1>8 DEF HopsStep, Pending
<1> QED BY <1>1, <1>5, <1>7, <1>8, <1>9

(* A table that is not further than all that wait has all its shortest     *)
(* walks followed.                                                         *)
LEMMA AllFollowed ==
  ASSUME TypeOK, anc \in Tables, Seen(anc), hops[anc] = 0, HopsStep, NEW L \in Nat,
         \A u \in Tables : Pending(u) => hops[u] >= L,
         NEW t \in Tables, Seen(t), hops[t] <= L
  PROVE  Followed(t) = Walks(Tables, E0, anc, t, hops[t])
<1>1. hops[t] \in Nat
  BY DEF TypeOK, Seen
<1> SUFFICES ASSUME NEW w \in Walks(Tables, E0, anc, t, hops[t]), hops[t] > 0
             PROVE  LET u == w[hops[t] - 1]
                    IN  Seen(u) /\ ~Queued(u) /\ ~(u = cur /\ t \in nbrs)
  BY DEF Followed
<1> DEFINE i == hops[t] - 1
           u == w[i]
<1>2. i \in Nat /\ i + 1 = hops[t] /\ i < L
  BY <1>1
<1>3. u \in Tables /\ Walks(Tables, E0, anc, u, i) # {}
  <2> HIDE DEF i
  <2>1. w \in Walks(Tables, E0, anc, t, i + 1)
    BY <1>2
  <2> QED BY <1>2, <2>1, WalkShrinks
<1> HIDE DEF i, u
<1>4. Seen(u) /\ ~Pending(u)
  BY <1>2, <1>3, LevelWalk
<1>5. Seen(u) /\ ~Queued(u) /\ ~(u = cur /\ t \in nbrs)
  BY <1>4 DEF Pending
<1> QED BY <1>5 DEF u, i

(* While a table is expanded its hops and its count are final. *)
LEMMA ExpandedFinal ==
  ASSUME IInv, SearchOrder, Counted, anc # NoTable, nbrs # {}
  PROVE  /\ cur \in Tables /\ Seen(cur) /\ hops[cur] \in Nat
         /\ Followed(cur) = Walks(Tables, E0, anc, cur, hops[cur])
         /\ IsFiniteSet(Walks(Tables, E0, anc, cur, hops[cur]))
         /\ cnt[cur] = Cardinality(Walks(Tables, E0, anc, cur, hops[cur]))
         /\ \A t \in Tables, k \in Nat : Seen(t) /\ k < hops[t] => Walks(Tables, E0, anc, t, k) = {}
         /\ \A k \in Nat : k < hops[cur] => Walks(Tables, E0, anc, cur, k) = {}
<1>1. anc \in Tables /\ Seen(anc) /\ hops[anc] = 0 /\ HopsStep /\ TypeOK
  BY DEF IInv, SearchInv, SearchOrder, Keys
<1>2. cur \in Tables /\ Seen(cur) /\ hops[cur] \in Nat
  BY DEF IInv, SearchInv, TypeOK, Seen
<1>3. \A t \in Tables : Seen(t) => hops[t] \in Nat /\ hops[t] <= hops[cur] + 1
  BY <1>2 DEF SearchOrder, QueueOrder, IInv, TypeOK, Seen
<1>4. \A u \in Tables : Pending(u) => hops[u] >= hops[cur]
  <2> SUFFICES ASSUME NEW u \in Tables, Queued(u) PROVE hops[u] >= hops[cur]
    BY <1>2 DEF Pending
  <2>1. PICK i \in 1..Len(q) : q[i] = u
    BY DEF Queued
  <2>2. ~Queued(cur)
    BY DEF SearchOrder, QueueOrder
  <2>3. hops[cur] <= hops[q[i]] + 0
    BY <1>2, <2>2 DEF SearchOrder, QueueOrder
  <2>4. Seen(u)
    BY DEF IInv, SearchInv
  <2> QED BY <1>2, <1>3, <2>1, <2>3, <2>4
<1>5. Followed(cur) = Walks(Tables, E0, anc, cur, hops[cur])
  BY <1>1, <1>2, <1>4, AllFollowed
<1>6. \A t \in Tables, k \in Nat : Seen(t) /\ k < hops[t] => Walks(Tables, E0, anc, t, k) = {}
  BY <1>1, <1>2, <1>3, <1>4, NoShorterWalk
<1>7. IsFiniteSet(Followed(cur)) /\ cnt[cur] = Cardinality(Followed(cur))
  BY <1>2 DEF Counted
<1> QED BY <1>2, <1>5, <1>6, <1>7

(* When the queue is empty, so are those of every table reached. *)
LEMMA SearchFinal ==
  ASSUME IInv, SearchOrder, Counted, anc # NoTable, nbrs = {}, q = << >>,
         NEW t \in Tables, Seen(t), t # anc
  PROVE  /\ hops[t] = Distance(Tables, E0, anc, t)
         /\ cnt[t] = ShortestPaths(Tables, E0, anc, t)
<1>1. anc \in Tables /\ Seen(anc) /\ hops[anc] = 0 /\ HopsStep /\ TypeOK
  BY DEF IInv, SearchInv, SearchOrder, Keys
<1>2. hops[t] \in Nat
  BY <1>1 DEF TypeOK, Seen
<1>3. \A u \in Tables : ~Pending(u)
  BY DEF Pending, Queued
<1>4. Followed(t) = Walks(Tables, E0, anc, t, hops[t])
  BY <1>1, <1>2, <1>3, AllFollowed
<1>5. \A k \in Nat : k < hops[t] => Walks(Tables, E0, anc, t, k) = {}
  BY <1>1, <1>2, <1>3, NoShorterWalk
<1>6. Reaches(Tables, E0, anc, t) /\ E0 \in SUBSET (Tables \X Tables)
  BY <1>1 DEF IInv, SearchInv, E0, Edges
<1>7. Walks(Tables, E0, anc, t, hops[t]) # {} /\ cnt[t] = Cardinality(Followed(t))
  BY DEF Counted
<1>8. hops[t] = Distance(Tables, E0, anc, t)
  BY <1>1, <1>2, <1>5, <1>6, <1>7, FiniteAssumption, ShortestIsDistance
<1> QED BY <1>4, <1>7, <1>8 DEF ShortestPaths

-----------------------------------------------------------------------------
(* A step that keeps t's hops and the edges followed to t keeps its walks. *)
LEMMA SameFollowed ==
  ASSUME NEW t \in Tables, hops[t] \in Nat, hops'[t] = hops[t], anc' = anc, E0' = E0,
         \A u \in Tables :
           (<<u, t>> \in E0 /\ hops[t] > 0 /\ Walks(Tables, E0, anc, u, hops[t] - 1) # {}) =>
           ((Seen(u)' /\ ~Queued(u)' /\ ~(u = cur' /\ t \in nbrs'))
              <=> (Seen(u) /\ ~Queued(u) /\ ~(u = cur /\ t \in nbrs)))
  PROVE  Followed(t)' = Followed(t)
<1> DEFINE W == Walks(Tables, E0, anc, t, hops[t])
           P(u) == Seen(u) /\ ~Queued(u) /\ ~(u = cur /\ t \in nbrs)
           i == hops[t] - 1
<1>1. ASSUME NEW w \in W, hops[t] > 0
      PROVE  w[i] \in Tables /\ <<w[i], t>> \in E0 /\ Walks(Tables, E0, anc, w[i], i) # {}
  <2>1. i \in Nat /\ i + 1 = hops[t]
    BY <1>1
  <2> HIDE DEF i
  <2>2. w \in Walks(Tables, E0, anc, t, i + 1)
    BY <2>1
  <2> QED BY <2>1, <2>2, WalkShrinks
<1>2. W' = W /\ i' = i
  OBVIOUS
<1>3. Followed(t) = { w \in W : hops[t] > 0 => P(w[i]) }
  BY DEF Followed
<1>4. Followed(t)' = { w \in W' : hops'[t] > 0 =>
                         /\ hops'[w[i']] # Unseen
                         /\ ~ \E j \in 1..Len(q') : q'[j] = w[i']
                         /\ ~(w[i'] = cur' /\ t \in nbrs') }
  BY DEF Followed, Seen, Queued
<1>5. \A u \in Tables : (<<u, t>> \in E0 /\ hops[t] > 0 /\ Walks(Tables, E0, anc, u, i) # {}) =>
        ((/\ hops'[u] # Unseen
          /\ ~ \E j \in 1..Len(q') : q'[j] = u
          /\ ~(u = cur' /\ t \in nbrs')) <=> P(u))
  BY DEF Seen, Queued
<1> HIDE DEF W, P, i
<1> QED BY <1>1, <1>2, <1>3, <1>4, <1>5

(* One walk of no edges leads to the ancestor itself.                      *)
LEMMA StartSearchOrder ==
  ASSUME ExactInv, NEW a \in Tables, StartSearch(a)
  PROVE  SearchOrder' /\ Counted' /\ RowsRight'
<1> USE DEF StartSearch
<1>1. /\ anc' = a /\ nbrs' = {} /\ q' = <<a>> /\ hops'[a] = 0 /\ cnt'[a] = 1
      /\ \A t \in Tables : hops'[t] = IF t = a THEN 0 ELSE Unseen
      /\ \A t \in Tables : Seen(t)' <=> t = a
      /\ E0' = E0
  BY DEF ExactInv, IInv, IdleInv, Seen, Unseen, E0
<1>2. \A t : Queued(t)' <=> t = a
  <2>1. Len(q') = 1 /\ q'[1] = a
    BY <1>1
  <2> QED BY <2>1 DEF Queued
<1>3. QueueOrder' /\ HopsStep'
  <2>1. \A i \in 1..Len(q') : i = 1 /\ q'[i] = a
    BY <1>1
  <2> QED BY <1>1, <1>2, <2>1 DEF QueueOrder, HopsStep
<1>4. SearchOrder'
  BY <1>1, <1>3 DEF SearchOrder
<1>5. Counted'
  <2> SUFFICES /\ Walks(Tables, E0, a, a, 0) # {}
               /\ IsFiniteSet(Followed(a)') /\ 1 = Cardinality(Followed(a)')
    BY <1>1 DEF Counted
  <2> DEFINE w == [k \in 0..0 |-> a]
  <2>1. Walks(Tables, E0, a, a, 0) = {w}
    BY DEF Walks
  <2>2. Followed(a)' = Walks(Tables, E0, a, a, 0)
    BY <1>1 DEF Followed
  <2> HIDE DEF w
  <2>3. IsFiniteSet({w}) /\ Cardinality({w}) = 1
    BY FS_Singleton
  <2> QED BY <2>1, <2>2, <2>3
<1>6. RowsRight'
  <2>1. \A x : Finished(x)' => Finished(x)
    <3>1. a \in Tables /\ NoTable \notin Tables /\ todo \subseteq Keys(adjacency)
      BY NoTableAssumption DEF ExactInv, IInv
    <3> QED BY <3>1 DEF Finished, Keys
  <2> QED BY <1>1, <2>1 DEF RowsRight, ExactInv
<1> QED BY <1>4, <1>5, <1>6

(* The head of the queue is the nearest table that waits, and the edges    *)
(* from it are still to be followed.                                       *)
LEMMA PopTableOrder ==
  ASSUME ExactInv, PopTable
  PROVE  SearchOrder' /\ Counted' /\ RowsRight'
<1>0. PICK h : h = Head(q)
  OBVIOUS
<1>1. /\ anc # NoTable /\ nbrs = {} /\ q # << >> /\ cur' = h /\ q' = Tail(q)
      /\ nbrs' = adjacency[h] /\ UNCHANGED <<adjacency, todo, anc, hops, cnt, rows>>
  BY <1>0 DEF PopTable
<1>2. IInv /\ hops[anc] = 0 /\ QueueOrder /\ HopsStep /\ q \in Seq(Tables) /\ TypeOK
  BY <1>1 DEF ExactInv, SearchOrder, IInv, TypeOK
<1>3. /\ h \in Tables /\ h = q[1] /\ Len(q) \in Nat /\ Len(q) >= 1
      /\ Len(q') = Len(q) - 1 /\ \A i \in 1..Len(q') : q'[i] = q[i + 1] /\ i + 1 \in 1..Len(q)
  BY <1>0, <1>1, <1>2
<1>4. /\ \A t : Queued(t)' => Queued(t)
      /\ \A t : Queued(t) => t = h \/ Queued(t)'
      /\ Queued(h) /\ ~Queued(h)'
  <2>1. /\ \A t : Queued(t)' => Queued(t)
        /\ \A t : Queued(t) => t = h \/ Queued(t)'
        /\ Queued(h)
    <3>1. q' = Tail(q) /\ h = Head(q) /\ q # << >>
      BY <1>0, <1>1
    <3>2. q \in Seq(Tables)
      BY <1>2
    <3>3. /\ \A t : (\E i \in 1..Len(q') : q'[i] = t) => \E i \in 1..Len(q) : q[i] = t
          /\ \A t : (\E i \in 1..Len(q) : q[i] = t)
                     => t = h \/ \E i \in 1..Len(q') : q'[i] = t
          /\ \E i \in 1..Len(q) : q[i] = h
      BY <3>1, <3>2, QueueHead
    <3> QED BY <3>3, Zenon DEF Queued
  <2>2. ASSUME NEW i \in 1..Len(q'), q'[i] = h PROVE FALSE
    <3>1. i + 1 \in 1..Len(q) /\ 1 \in 1..Len(q) /\ q[i + 1] = q[1] /\ i + 1 # 1
      BY <1>3, <2>2
    <3> QED BY <1>2, <3>1 DEF QueueOrder
  <2>3. ~Queued(h)'
    BY <2>2 DEF Queued
  <2> QED BY <2>1, <2>3
<1>5. /\ \A t : Seen(t)' <=> Seen(t)
      /\ E0' = E0 /\ Seen(h)
  BY <1>1, <1>2, <1>3, <1>4 DEF Seen, E0, IInv, SearchInv
<1>6. \A t \in Tables : Seen(t) => hops[t] \in Nat
  BY <1>2 DEF TypeOK, Seen
<1>7. \A t \in Tables : Queued(t) => Seen(t)
  BY <1>1, <1>2 DEF IInv, SearchInv
<1>8. QueueOrder'
  <2>1. \A i, j \in 1..Len(q') : q'[i] = q'[j] => i = j
    <3> SUFFICES ASSUME NEW i \in 1..Len(q'), NEW j \in 1..Len(q'), q'[i] = q'[j] PROVE i = j
      OBVIOUS
    <3>1. i + 1 = j + 1
      BY <1>2, <1>3 DEF QueueOrder
    <3> QED BY <3>1
  <2>2. \A i, j \in 1..Len(q') : i <= j => hops[q'[i]] <= hops[q'[j]]
    <3> SUFFICES ASSUME NEW i \in 1..Len(q'), NEW j \in 1..Len(q'), i <= j
                 PROVE  hops[q'[i]] <= hops[q'[j]]
      OBVIOUS
    <3>1. i + 1 <= j + 1
      OBVIOUS
    <3> QED BY <1>2, <1>3, <3>1 DEF QueueOrder
  <2>3. ASSUME NEW i \in 1..Len(q'), NEW t \in Tables, Seen(t)
        PROVE  hops[t] <= hops[q'[i]] + (IF Queued(t)' THEN 1 ELSE 0)
    <3>1. i + 1 \in 1..Len(q) /\ 1 \in 1..Len(q) /\ q'[i] = q[i + 1]
      BY <1>3
    <3>2. hops[t] <= hops[q[i + 1]] + (IF Queued(t) THEN 1 ELSE 0)
      BY <1>2, <2>3, <3>1 DEF QueueOrder
    <3>3. hops[h] <= hops[q[i + 1]]
      BY <1>2, <1>3, <3>1 DEF QueueOrder
    <3>4. hops[q[i + 1]] \in Nat /\ hops[h] \in Nat /\ hops[t] \in Nat
      <4>1. Queued(q[i + 1]) /\ q[i + 1] \in Tables
        BY <1>2, <3>1 DEF Queued
      <4> QED BY <1>3, <1>5, <1>6, <1>7, <2>3, <4>1
    <3>5. CASE t = h
      BY <1>4, <3>1, <3>3, <3>4, <3>5
    <3>6. CASE t # h
      BY <1>4, <3>1, <3>2, <3>4, <3>6
    <3> QED BY <3>5, <3>6
  <2>4. ASSUME NEW t \in Tables, Seen(t)
        PROVE  hops[t] <= hops[h] + (IF Queued(t)' THEN 1 ELSE 0)
    <3>1. 1 \in 1..Len(q) /\ q[1] = h
      BY <1>3
    <3>2. hops[t] <= hops[h] + (IF Queued(t) THEN 1 ELSE 0)
      BY <1>2, <2>4, <3>1 DEF QueueOrder
    <3>3. hops[h] \in Nat /\ hops[t] \in Nat
      BY <1>3, <1>5, <1>6, <2>4
    <3> QED BY <1>4, <3>2, <3>3
  <2>5. ~Queued(cur)'
    BY <1>1, <1>4 DEF Queued
  <2> QED BY <1>1, <1>5, <2>1, <2>2, <2>3, <2>4, <2>5 DEF QueueOrder
<1>9. HopsStep'
  <2> SUFFICES ASSUME NEW t \in Tables, Seen(t), ~Queued(t)', NEW n \in adjacency[t]
               PROVE  (t = h /\ n \in nbrs') \/ (Seen(n) /\ hops[n] <= hops[t] + 1)
    BY <1>1, <1>5 DEF HopsStep
  <2>1. CASE t = h
    BY <1>1, <2>1
  <2>2. CASE t # h
    BY <1>1, <1>2, <1>4, <2>2 DEF HopsStep
  <2> QED BY <2>1, <2>2
<1>10. SearchOrder'
  BY <1>1, <1>2, <1>8, <1>9 DEF SearchOrder
<1>11. ASSUME NEW t \in Tables, Seen(t) PROVE Followed(t)' = Followed(t)
  <2>1. ASSUME NEW u \in Tables, <<u, t>> \in E0
        PROVE  (Seen(u)' /\ ~Queued(u)' /\ ~(u = cur' /\ t \in nbrs'))
                 <=> (Seen(u) /\ ~Queued(u) /\ ~(u = cur /\ t \in nbrs))
    <3>1. u = h => t \in nbrs'
      BY <1>1, <2>1 DEF E0, Edges
    <3> QED BY <1>1, <1>4, <1>5, <3>1
  <2>2. hops' = hops /\ anc' = anc /\ E0' = E0
    BY <1>1, <1>5
  <2> QED BY <1>6, <1>11, <2>1, <2>2, SameFollowed
<1>12. Counted'
  BY <1>1, <1>5, <1>11 DEF Counted, ExactInv
<1>13. RowsRight'
  BY <1>1, <1>5 DEF RowsRight, ExactInv, Finished, Keys
<1> QED BY <1>10, <1>12, <1>13

(* What the search has followed to a table it is beyond its ancestor.      *)
LEMMA FollowedFrom ==
  ASSUME NEW t \in Tables, NEW g \in Nat, NEW P, hops[t] = g + 1,
         \A u \in Tables : <<u, t>> \in E0 =>
           ((Seen(u) /\ ~Queued(u) /\ ~(u = cur /\ t \in nbrs)) <=> u \in P)
  PROVE  Followed(t) = { w \in Walks(Tables, E0, anc, t, g + 1) : w[g] \in P }
<1> DEFINE W == Walks(Tables, E0, anc, t, g + 1)
<1>1. \A w \in W : w[g] \in Tables /\ <<w[g], t>> \in E0
  BY WalkShrinks
<1>2. hops[t] - 1 = g /\ hops[t] > 0
  OBVIOUS
<1> QED BY <1>1, <1>2 DEF Followed

(* The same for the step that comes.                                       *)
LEMMA FollowedNext ==
  ASSUME NEW t \in Tables, NEW g \in Nat, NEW P, hops'[t] = g + 1, anc' = anc, E0' = E0,
         \A u \in Tables : <<u, t>> \in E0 =>
           ((Seen(u)' /\ ~Queued(u)' /\ ~(u = cur' /\ t \in nbrs')) <=> u \in P)
  PROVE  Followed(t)' = { w \in Walks(Tables, E0, anc, t, g + 1) : w[g] \in P }
<1> DEFINE W == Walks(Tables, E0, anc, t, g + 1)
<1>1. \A w \in W : w[g] \in Tables /\ <<w[g], t>> \in E0
  BY WalkShrinks
<1>2. hops'[t] - 1 = g /\ hops'[t] > 0
  OBVIOUS
<1>3. Followed(t)' = { w \in Walks(Tables, E0, anc, t, hops'[t]) : hops'[t] > 0 =>
                         /\ hops'[w[hops'[t] - 1]] # Unseen
                         /\ ~ \E j \in 1..Len(q') : q'[j] = w[hops'[t] - 1]
                         /\ ~(w[hops'[t] - 1] = cur' /\ t \in nbrs') }
  BY DEF Followed, Seen, Queued
<1>4. \A u \in Tables : <<u, t>> \in E0 =>
        ((/\ hops'[u] # Unseen
          /\ ~ \E j \in 1..Len(q') : q'[j] = u
          /\ ~(u = cur' /\ t \in nbrs')) <=> u \in P)
  BY DEF Seen, Queued
<1>5. Walks(Tables, E0, anc, t, hops'[t]) = W
  OBVIOUS
<1> HIDE DEF W
<1> QED BY <1>1, <1>2, <1>3, <1>4, <1>5 DEF W

(* A neighbour visited without being queued leaves the order as it is.     *)
LEMMA VisitKeepsOrder ==
  ASSUME ExactInv, NEW nxt \in Tables, VisitNeighbour(nxt), hops' = hops, q' = q,
         Seen(nxt), hops[nxt] <= hops[cur] + 1
  PROVE  SearchOrder'
<1>1. /\ anc # NoTable /\ nbrs # {} /\ nbrs' = nbrs \ {nxt}
      /\ UNCHANGED <<adjacency, anc, cur>>
  BY DEF VisitNeighbour, ExactInv, IInv, IdleInv
<1>2. \A t : (Seen(t)' <=> Seen(t)) /\ (Queued(t)' <=> Queued(t))
  BY DEF Seen, Queued
<1>3. Queued(cur)' <=> Queued(cur)
  BY <1>1 DEF Queued
<1>4. QueueOrder'
  BY <1>1, <1>2, <1>3 DEF ExactInv, SearchOrder, QueueOrder
<1>5. HopsStep'
  <2> SUFFICES ASSUME NEW t \in Tables, Seen(t), ~Queued(t), NEW n \in adjacency[t]
               PROVE  (t = cur /\ n \in nbrs') \/ (Seen(n) /\ hops[n] <= hops[t] + 1)
    BY <1>1, <1>2 DEF HopsStep, Seen
  <2> QED BY <1>1 DEF ExactInv, SearchOrder, HopsStep
<1> QED BY <1>1, <1>4, <1>5 DEF ExactInv, SearchOrder

(* A neighbour found is the last of the queue and the furthest table.      *)
LEMMA DiscoverOrder ==
  ASSUME ExactInv, NEW nxt \in Tables, VisitNeighbour(nxt), Discover(nxt)
  PROVE  /\ SearchOrder'
         /\ \A t \in Tables : Seen(t)' <=> Seen(t) \/ t = nxt
         /\ \A t \in Tables : Queued(t)' <=> Queued(t) \/ t = nxt
<1>1. /\ anc # NoTable /\ nbrs # {} /\ nbrs' = nbrs \ {nxt}
      /\ UNCHANGED <<adjacency, anc, cur>>
  BY DEF VisitNeighbour, ExactInv, IInv, IdleInv
<1>2. /\ QueueOrder /\ HopsStep /\ hops[anc] = 0 /\ anc \in Tables /\ Seen(anc)
      /\ q \in Seq(Tables) /\ TypeOK /\ cur \in Tables /\ Seen(cur) /\ ~Queued(cur)
  BY <1>1 DEF ExactInv, SearchOrder, QueueOrder, IInv, SearchInv, Keys, TypeOK
<1>3. /\ hops[nxt] = Unseen /\ hops' = [hops EXCEPT ![nxt] = hops[cur] + 1]
      /\ q' = Append(q, nxt)
  BY DEF Discover
<1>4. \A t \in Tables : Seen(t) => hops[t] \in Nat
  BY <1>2 DEF TypeOK, Seen
<1>5. /\ \A t \in Tables : t # nxt => hops'[t] = hops[t]
      /\ hops'[nxt] = hops[cur] + 1
  BY <1>2, <1>3 DEF TypeOK
<1>6. \A t \in Tables : Seen(t)' <=> Seen(t) \/ t = nxt
  BY <1>2, <1>4, <1>5 DEF Seen, Unseen
<1>7. \A t \in Tables : Queued(t)' <=> Queued(t) \/ t = nxt
  <2>1. /\ \A t : (\E i \in 1..Len(q') : q'[i] = t) => t = nxt \/ \E i \in 1..Len(q) : q[i] = t
        /\ \A t : (t = nxt \/ \E i \in 1..Len(q) : q[i] = t) => \E i \in 1..Len(q') : q'[i] = t
    BY <1>2, <1>3, QueueAppend
  <2> QED BY <2>1, Zenon DEF Queued
<1>8. /\ Len(q) \in Nat /\ Len(q') = Len(q) + 1 /\ q'[Len(q) + 1] = nxt
      /\ \A i \in 1..Len(q) : q'[i] = q[i] /\ q[i] \in Tables /\ Queued(q[i])
  BY <1>2, <1>3 DEF Queued
<1>9. /\ \A t \in Tables : Queued(t) => Seen(t)
      /\ ~Seen(nxt) /\ ~Queued(nxt) /\ nxt # cur
  BY <1>1, <1>2, <1>3 DEF Seen, ExactInv, IInv, SearchInv
<1>10. \A i \in 1..Len(q) : /\ q[i] # nxt /\ hops'[q[i]] = hops[q[i]] /\ hops[q[i]] \in Nat
                            /\ hops[cur] <= hops[q[i]] /\ hops[q[i]] <= hops[cur] + 1
  <2> SUFFICES ASSUME NEW i \in 1..Len(q)
               PROVE  /\ q[i] # nxt /\ hops'[q[i]] = hops[q[i]] /\ hops[q[i]] \in Nat
                      /\ hops[cur] <= hops[q[i]] /\ hops[q[i]] <= hops[cur] + 1
    OBVIOUS
  <2>1. q[i] \in Tables /\ Queued(q[i]) /\ Seen(q[i])
    BY <1>8, <1>9
  <2>2. q[i] # nxt /\ hops'[q[i]] = hops[q[i]] /\ hops[q[i]] \in Nat /\ hops[cur] \in Nat
    BY <1>2, <1>4, <1>5, <1>9, <2>1
  <2>3. hops[q[i]] <= hops[cur] + 1
    BY <1>1, <1>2, <2>1 DEF QueueOrder
  <2>4. hops[cur] <= hops[q[i]] + 0
    BY <1>2 DEF QueueOrder
  <2> QED BY <2>2, <2>3, <2>4
<1>11. ASSUME NEW t \in Tables, Seen(t), t # nxt
       PROVE  /\ hops'[t] = hops[t] /\ hops[t] \in Nat /\ (Queued(t)' <=> Queued(t))
              /\ hops[t] <= hops[cur] + (IF Queued(t) THEN 1 ELSE 0)
              /\ \A i \in 1..Len(q) : hops[t] <= hops[q[i]] + (IF Queued(t) THEN 1 ELSE 0)
  BY <1>1, <1>2, <1>4, <1>5, <1>7, <1>11 DEF QueueOrder
<1>12. hops[cur] \in Nat /\ hops'[cur] = hops[cur]
  BY <1>2, <1>4, <1>5, <1>9
<1>13. QueueOrder'
  <2>1. \A i, j \in 1..Len(q') : q'[i] = q'[j] => i = j
    <3> SUFFICES ASSUME NEW i \in 1..Len(q'), NEW j \in 1..Len(q'), q'[i] = q'[j] PROVE i = j
      OBVIOUS
    <3>1. i \in 1..Len(q) \/ i = Len(q) + 1
      BY <1>8
    <3>2. j \in 1..Len(q) \/ j = Len(q) + 1
      BY <1>8
    <3> QED BY <1>2, <1>8, <1>10, <3>1, <3>2 DEF QueueOrder
  <2>2. \A i, j \in 1..Len(q') : i <= j => hops'[q'[i]] <= hops'[q'[j]]
    <3> SUFFICES ASSUME NEW i \in 1..Len(q'), NEW j \in 1..Len(q'), i <= j
                 PROVE  hops'[q'[i]] <= hops'[q'[j]]
      OBVIOUS
    <3>1. CASE j \in 1..Len(q)
      <4>1. i \in 1..Len(q)
        BY <1>8, <3>1
      <4> QED BY <1>2, <1>8, <1>10, <3>1, <4>1 DEF QueueOrder
    <3>2. CASE j = Len(q) + 1
      <4>1. CASE i = j
        BY <1>5, <1>8, <1>12, <3>2, <4>1
      <4>2. CASE i \in 1..Len(q)
        BY <1>5, <1>8, <1>10, <3>2, <4>2
      <4> QED BY <1>8, <3>2, <4>1, <4>2
    <3> QED BY <1>8, <3>1, <3>2
  <2>3. ASSUME NEW t \in Tables, Seen(t)'
        PROVE  /\ hops'[t] <= hops[cur] + (IF Queued(t)' THEN 1 ELSE 0)
               /\ \A i \in 1..Len(q') : hops'[t] <= hops'[q'[i]] + (IF Queued(t)' THEN 1 ELSE 0)
    <3>1. CASE t = nxt
      <4>1. Queued(t)' /\ hops'[t] = hops[cur] + 1
        BY <1>5, <1>7, <3>1
      <4>2. ASSUME NEW i \in 1..Len(q') PROVE hops'[t] <= hops'[q'[i]] + 1
        <5>1. CASE i \in 1..Len(q)
          BY <1>8, <1>10, <1>12, <4>1, <5>1
        <5>2. CASE i = Len(q) + 1
          BY <1>5, <1>8, <1>12, <4>1, <5>2
        <5> QED BY <1>8, <5>1, <5>2
      <4> QED BY <1>12, <4>1, <4>2
    <3>2. CASE t # nxt
      <4>1. Seen(t)
        BY <1>6, <2>3, <3>2
      <4>2. ASSUME NEW i \in 1..Len(q')
            PROVE  hops'[t] <= hops'[q'[i]] + (IF Queued(t)' THEN 1 ELSE 0)
        <5>1. CASE i \in 1..Len(q)
          BY <1>8, <1>10, <1>11, <3>2, <4>1, <5>1
        <5>2. CASE i = Len(q) + 1
          <6>1. hops'[q'[i]] = hops[cur] + 1
            BY <1>5, <1>8, <5>2
          <6> QED BY <1>11, <1>12, <3>2, <4>1, <6>1
        <5> QED BY <1>8, <5>1, <5>2
      <4> QED BY <1>11, <3>2, <4>1, <4>2
    <3> QED BY <3>1, <3>2
  <2>4. ~Queued(cur)'
    <3>1. ASSUME NEW c \in Tables, c = cur PROVE ~Queued(c)'
      BY <1>2, <1>7, <1>9, <3>1
    <3> QED BY <1>1, <1>2, <3>1 DEF Queued
  <2> QED BY <1>1, <1>12, <2>1, <2>2, <2>3, <2>4 DEF QueueOrder
<1>14. HopsStep'
  <2> SUFFICES ASSUME NEW t \in Tables, Seen(t)', ~Queued(t)', NEW n \in adjacency[t]
               PROVE  (t = cur /\ n \in nbrs') \/ (Seen(n)' /\ hops'[n] <= hops'[t] + 1)
    BY <1>1 DEF HopsStep
  <2>1. t # nxt /\ Seen(t) /\ ~Queued(t) /\ hops'[t] = hops[t] /\ n \in Tables
    BY <1>2, <1>5, <1>6, <1>7 DEF TypeOK
  <2>2. (t = cur /\ n \in nbrs) \/ (Seen(n) /\ hops[n] <= hops[t] + 1)
    BY <1>2, <2>1 DEF HopsStep
  <2>3. CASE n = nxt
    BY <1>1, <1>5, <1>6, <1>9, <1>12, <2>1, <2>2, <2>3
  <2>4. CASE n # nxt
    BY <1>1, <1>5, <1>6, <2>1, <2>2, <2>4
  <2> QED BY <2>3, <2>4
<1>15. SearchOrder'
  <2>1. hops'[anc] = 0
    BY <1>2, <1>5, <1>9
  <2> QED BY <1>1, <1>13, <1>14, <2>1 DEF SearchOrder
<1> QED BY <1>6, <1>7, <1>15

(* A visited neighbour counts the paths over the expanded table once.      *)
LEMMA VisitNeighbourOrder ==
  ASSUME ExactInv, NEW nxt \in Tables, VisitNeighbour(nxt)
  PROVE  SearchOrder' /\ Counted' /\ RowsRight'
<1>1. /\ anc # NoTable /\ nbrs # {} /\ nbrs' = nbrs \ {nxt} /\ nxt \in nbrs
      /\ UNCHANGED <<adjacency, todo, anc, cur, rows>> /\ E0' = E0
  BY DEF VisitNeighbour, ExactInv, IInv, IdleInv, E0
<1>2. /\ IInv /\ SearchOrder /\ Counted /\ QueueOrder /\ HopsStep /\ hops[anc] = 0
      /\ anc \in Tables /\ Seen(anc) /\ TypeOK
      /\ nxt \in adjacency[cur] /\ ~Queued(cur)
      /\ \A t \in Tables : Seen(t) => hops[t] \in Nat
  BY <1>1 DEF ExactInv, SearchOrder, QueueOrder, IInv, SearchInv, Keys, TypeOK, Seen
<1>3. PICK c \in Tables, g \in Nat : c = cur /\ g = hops[cur]
  BY <1>1, <1>2, ExpandedFinal
<1>4. /\ Seen(c) /\ <<c, nxt>> \in E0 /\ ~Queued(c)
      /\ IsFiniteSet(Walks(Tables, E0, anc, c, g))
      /\ cnt[c] = Cardinality(Walks(Tables, E0, anc, c, g))
      /\ Walks(Tables, E0, anc, c, g) # {}
      /\ \A k \in Nat : k < g => Walks(Tables, E0, anc, c, k) = {}
  <2>1. <<c, nxt>> \in E0
    BY <1>2, <1>3 DEF E0, Edges
  <2>2. Walks(Tables, E0, anc, c, g) # {}
    BY <1>1, <1>2, <1>3, ExpandedFinal DEF Counted
  <2> QED BY <1>1, <1>2, <1>3, <2>1, <2>2, ExpandedFinal
<1>5. \A t \in Tables : Seen(t) => hops[t] <= g + 1
  BY <1>1, <1>2, <1>3 DEF QueueOrder
<1>6. RowsRight'
  BY <1>1 DEF RowsRight, ExactInv, Finished, Keys
<1> DEFINE V == { v \in Walks(Tables, E0, anc, nxt, g + 1) : v[g] = c }
<1>7. IsFiniteSet(V) /\ Cardinality(V) = cnt[c]
  BY <1>4, WalksOver
<1>8. ASSUME hops' = hops, q' = q, NEW t \in Tables, Seen(t),
             t = nxt => hops[t] <= g
      PROVE  Followed(t)' = Followed(t)
  <2>1. \A u \in Tables :
          (<<u, t>> \in E0 /\ hops[t] > 0 /\ Walks(Tables, E0, anc, u, hops[t] - 1) # {}) =>
          ((Seen(u)' /\ ~Queued(u)' /\ ~(u = cur' /\ t \in nbrs'))
              <=> (Seen(u) /\ ~Queued(u) /\ ~(u = cur /\ t \in nbrs)))
    <3> SUFFICES ASSUME NEW u \in Tables, hops[t] > 0, Walks(Tables, E0, anc, u, hops[t] - 1) # {}
                 PROVE  (Seen(u)' /\ ~Queued(u)' /\ ~(u = cur' /\ t \in nbrs'))
                          <=> (Seen(u) /\ ~Queued(u) /\ ~(u = cur /\ t \in nbrs))
      OBVIOUS
    <3>1. (Seen(u)' <=> Seen(u)) /\ (Queued(u)' <=> Queued(u))
      BY <1>8 DEF Seen, Queued
    <3>2. CASE t = nxt
      <4>1. hops[t] - 1 \in Nat /\ hops[t] - 1 < g
        BY <1>2, <1>8, <3>2
      <4>2. u # c
        BY <1>4, <4>1
      <4> QED BY <1>1, <1>3, <3>1, <4>2
    <3>3. CASE t # nxt
      BY <1>1, <3>1, <3>3
    <3> QED BY <3>2, <3>3
  <2> QED BY <1>1, <1>2, <1>8, <2>1, SameFollowed
<1>9. CASE SkipAncestor(nxt) \/ SkipSeen(nxt)
  <2>1. hops' = hops /\ q' = q /\ cnt' = cnt
    BY <1>9 DEF SkipAncestor, SkipSeen
  <2>2. Seen(nxt) /\ hops[nxt] <= g
    <3>1. CASE SkipAncestor(nxt)
      BY <1>2, <1>3, <3>1 DEF SkipAncestor
    <3>2. CASE SkipSeen(nxt)
      BY <1>2, <1>3, <1>5, <3>2 DEF SkipSeen, Seen
    <3> QED BY <1>9, <3>1, <3>2
  <2>3. hops[nxt] <= hops[cur] + 1
    BY <1>2, <1>3, <2>2
  <2>4. SearchOrder'
    BY <2>1, <2>2, <2>3, VisitKeepsOrder
  <2>5. \A t \in Tables : Seen(t) => Followed(t)' = Followed(t)
    BY <1>8, <2>1, <2>2
  <2>6. Counted'
    <3>1. \A t \in Tables : Seen(t)' <=> Seen(t)
      BY <2>1 DEF Seen
    <3> QED BY <1>1, <1>2, <2>1, <2>5, <3>1 DEF Counted
  <2> QED BY <1>6, <2>4, <2>6
<1>10. CASE AddPaths(nxt)
  <2>1. /\ hops' = hops /\ q' = q /\ hops[nxt] = g + 1
        /\ cnt' = [cnt EXCEPT ![nxt] = @ + cnt[cur]]
    BY <1>3, <1>10 DEF AddPaths
  <2>2. Seen(nxt)
    BY <2>1 DEF Seen, Unseen
  <2>3. SearchOrder'
    BY <1>3, <2>1, <2>2, VisitKeepsOrder
  <2>4. \A t : (Seen(t)' <=> Seen(t)) /\ (Queued(t)' <=> Queued(t))
    BY <2>1 DEF Seen, Queued
  <2> DEFINE P == { u \in Tables : Seen(u) /\ ~Queued(u) /\ ~(u = cur /\ nxt \in nbrs) }
  <2>5. c \notin P /\ \A u \in Tables :
          (Seen(u)' /\ ~Queued(u)' /\ ~(u = cur' /\ nxt \in nbrs')) <=> u \in P \cup {c}
    <3>1. ASSUME NEW u \in Tables
          PROVE  (Seen(u)' /\ ~Queued(u)' /\ ~(u = cur' /\ nxt \in nbrs')) <=> u \in P \cup {c}
      BY <1>1, <1>3, <1>4, <2>4
    <3>2. c \notin P
      BY <1>1, <1>3
    <3> QED BY <3>1, <3>2
  <2>6. Followed(nxt) = { w \in Walks(Tables, E0, anc, nxt, g + 1) : w[g] \in P }
    <3>1. \A u \in Tables : (Seen(u) /\ ~Queued(u) /\ ~(u = cur /\ nxt \in nbrs)) <=> u \in P
      OBVIOUS
    <3> HIDE DEF P
    <3> QED BY <2>1, <3>1, FollowedFrom
  <2>7. Followed(nxt)' = { w \in Walks(Tables, E0, anc, nxt, g + 1) : w[g] \in P \cup {c} }
    <3> DEFINE Q == P \cup {c}
    <3>1. \A u \in Tables : (Seen(u)' /\ ~Queued(u)' /\ ~(u = cur' /\ nxt \in nbrs')) <=> u \in Q
      BY <2>5
    <3>2. hops'[nxt] = g + 1
      BY <2>1
    <3> HIDE DEF Q, P
    <3>3. Followed(nxt)' = { w \in Walks(Tables, E0, anc, nxt, g + 1) : w[g] \in Q }
      BY <1>1, <3>1, <3>2, FollowedNext
    <3> QED BY <3>3 DEF Q
  <2> HIDE DEF P
  <2> DEFINE Old == Followed(nxt)
  <2>8. Followed(nxt)' = Old \cup V /\ Old \cap V = {}
    BY <2>5, <2>6, <2>7
  <2>9. IsFiniteSet(Old) /\ cnt[nxt] = Cardinality(Old) /\ cnt[nxt] \in Nat /\ cnt[c] \in Nat
    BY <1>1, <1>2, <2>2 DEF Counted, TypeOK
  <2>10. IsFiniteSet(Followed(nxt)') /\ Cardinality(Followed(nxt)') = cnt[nxt] + cnt[c]
    <3> HIDE DEF Old, V
    <3>1. IsFiniteSet(Old \cup V)
          /\ Cardinality(Old \cup V) = Cardinality(Old) + Cardinality(V) - Cardinality(Old \cap V)
      BY <1>7, <2>9, FS_Union
    <3>2. Cardinality(Old \cap V) = 0
      BY <2>8, FS_EmptySet
    <3> QED BY <1>7, <2>8, <2>9, <3>1, <3>2
  <2>11. cnt'[nxt] = cnt[nxt] + cnt[c] /\ \A t \in Tables : t # nxt => cnt'[t] = cnt[t]
    BY <1>2, <1>3, <2>1 DEF TypeOK
  <2>12. \A t \in Tables : (Seen(t) /\ t # nxt) => Followed(t)' = Followed(t)
    BY <1>8, <2>1
  <2>13. Counted'
    <3> SUFFICES ASSUME NEW t \in Tables, Seen(t)
                 PROVE  /\ Walks(Tables, E0, anc, t, hops[t]) # {}
                        /\ IsFiniteSet(Followed(t)') /\ cnt'[t] = Cardinality(Followed(t)')
      BY <1>1, <2>1, <2>4 DEF Counted
    <3>1. /\ Walks(Tables, E0, anc, t, hops[t]) # {}
          /\ IsFiniteSet(Followed(t)) /\ cnt[t] = Cardinality(Followed(t))
      BY <1>1, <1>2 DEF Counted
    <3>2. CASE t = nxt
      BY <2>10, <2>11, <3>1, <3>2
    <3>3. CASE t # nxt
      BY <2>11, <2>12, <3>1, <3>3
    <3> QED BY <3>2, <3>3
  <2> QED BY <1>6, <2>3, <2>13
<1>11. CASE Discover(nxt)
  <2>1. /\ SearchOrder'
        /\ \A t \in Tables : Seen(t)' <=> Seen(t) \/ t = nxt
        /\ \A t \in Tables : Queued(t)' <=> Queued(t) \/ t = nxt
    BY <1>11, DiscoverOrder
  <2>2. ~Seen(nxt) /\ nxt # c
    BY <1>4, <1>11 DEF Discover, Seen
  <2>3. /\ hops'[nxt] = g + 1 /\ cnt'[nxt] = cnt[c]
        /\ \A t \in Tables : t # nxt => hops'[t] = hops[t] /\ cnt'[t] = cnt[t]
    BY <1>2, <1>3, <1>11 DEF Discover, TypeOK
  <2>4. ASSUME NEW t \in Tables, Seen(t) PROVE Followed(t)' = Followed(t)
    <3>1. t # nxt /\ hops'[t] = hops[t] /\ hops[t] \in Nat
      BY <1>2, <2>2, <2>3, <2>4
    <3>2. \A u \in Tables :
            ((Seen(u)' /\ ~Queued(u)' /\ ~(u = cur' /\ t \in nbrs'))
                <=> (Seen(u) /\ ~Queued(u) /\ ~(u = cur /\ t \in nbrs)))
      BY <1>1, <2>1, <2>2, <3>1
    <3> QED BY <1>1, <3>1, <3>2, SameFollowed
  <2>5. \A u \in Tables : <<u, nxt>> \in E0 =>
          ((Seen(u)' /\ ~Queued(u)' /\ ~(u = cur' /\ nxt \in nbrs')) <=> u \in {c})
    <3> SUFFICES ASSUME NEW u \in Tables, <<u, nxt>> \in E0
                 PROVE  (Seen(u)' /\ ~Queued(u)' /\ ~(u = cur' /\ nxt \in nbrs')) <=> u = c
      OBVIOUS
    <3>1. CASE u = c
      BY <1>1, <1>3, <1>4, <2>1, <2>2, <3>1
    <3>2. CASE u # c
      <4>1. nxt \in adjacency[u]
        BY DEF E0, Edges
      <4>2. ~(Seen(u) /\ ~Queued(u))
        BY <1>2, <1>3, <2>2, <3>2, <4>1 DEF HopsStep
      <4> QED BY <2>1, <3>2, <4>2
    <3> QED BY <3>1, <3>2
  <2>6. Followed(nxt)' = { w \in Walks(Tables, E0, anc, nxt, g + 1) : w[g] \in {c} }
    BY <1>1, <2>3, <2>5, FollowedNext
  <2>7. Followed(nxt)' = V
    BY <2>6
  <2>8. Walks(Tables, E0, anc, nxt, g + 1) # {}
    <3>1. PICK w \in Walks(Tables, E0, anc, c, g) : TRUE
      BY <1>4
    <3>2. Grown(w, g, nxt) \in Walks(Tables, E0, anc, nxt, g + 1)
      BY <1>4, <3>1, WalkGrows
    <3> QED BY <3>2
  <2>9. Counted'
    <3> SUFFICES ASSUME NEW t \in Tables, Seen(t)'
                 PROVE  /\ Walks(Tables, E0, anc, t, hops'[t]) # {}
                        /\ IsFiniteSet(Followed(t)') /\ cnt'[t] = Cardinality(Followed(t)')
      BY <1>1 DEF Counted
    <3>1. CASE t = nxt
      <4> HIDE DEF V
      <4> QED BY <1>7, <2>3, <2>7, <2>8, <3>1
    <3>2. CASE t # nxt
      <4>1. Seen(t)
        BY <2>1, <3>2
      <4>2. /\ Walks(Tables, E0, anc, t, hops[t]) # {}
            /\ IsFiniteSet(Followed(t)) /\ cnt[t] = Cardinality(Followed(t))
        BY <1>1, <1>2, <4>1 DEF Counted
      <4> QED BY <2>3, <2>4, <3>2, <4>1, <4>2
    <3> QED BY <3>1, <3>2
  <2> QED BY <1>6, <2>1, <2>9
<1> QED BY <1>9, <1>10, <1>11 DEF VisitNeighbour

(* The rows a search adds are those of its ancestor.                       *)
LEMMA EndSearchOrder ==
  ASSUME ExactInv, EndSearch
  PROVE  SearchOrder' /\ Counted' /\ RowsRight'
<1>1. /\ anc # NoTable /\ nbrs = {} /\ q = << >> /\ anc' = NoTable /\ rows' = rows \cup FoundRows
      /\ UNCHANGED <<adjacency, todo>> /\ E0' = E0
  BY DEF EndSearch, E0
<1>2. IInv /\ SearchOrder /\ Counted /\ anc \in Keys(adjacency) \ todo /\ anc \in Tables
  BY <1>1 DEF ExactInv, IInv, SearchInv, Keys
<1>3. ASSUME NEW r PROVE r \in FoundRows <=> r \in ClosureRows(Tables, E0) /\ r[1] = anc
  <2>1. \A d \in Tables : Seen(d) <=> Reaches(Tables, E0, anc, d)
    BY <1>1, <1>2, SeenIsReached
  <2>2. \A d \in Tables : (d # anc /\ Seen(d)) =>
          hops[d] = Distance(Tables, E0, anc, d) /\ cnt[d] = ShortestPaths(Tables, E0, anc, d)
    BY <1>1, <1>2, SearchFinal
  <2>3. ASSUME r \in FoundRows PROVE r \in ClosureRows(Tables, E0) /\ r[1] = anc
    <3>1. PICK d \in Tables : d # anc /\ Seen(d) /\ r = <<anc, d, hops[d], cnt[d]>>
      BY <2>3 DEF FoundRows, Seen
    <3> DEFINE p == <<anc, d>>
    <3>2. p \in Connected(Tables, E0) /\ p[1] = anc /\ p[2] = d
      BY <1>2, <2>1, <3>1 DEF Connected
    <3>3. r = <<p[1], p[2], Distance(Tables, E0, p[1], p[2]), ShortestPaths(Tables, E0, p[1], p[2])>>
      BY <2>2, <3>1
    <3>4. r[1] = anc
      BY <3>1
    <3> HIDE DEF p
    <3> QED BY <3>2, <3>3, <3>4 DEF ClosureRows
  <2>4. ASSUME r \in ClosureRows(Tables, E0), r[1] = anc PROVE r \in FoundRows
    <3>1. PICK p \in Connected(Tables, E0) :
            r = <<p[1], p[2], Distance(Tables, E0, p[1], p[2]), ShortestPaths(Tables, E0, p[1], p[2])>>
      BY <2>4 DEF ClosureRows
    <3>2. p[1] = anc /\ p[2] \in Tables /\ p[2] # anc /\ Reaches(Tables, E0, anc, p[2])
      BY <2>4, <3>1 DEF Connected
    <3> DEFINE d == p[2]
    <3>3. d \in Tables /\ d # anc /\ Seen(d) /\ r = <<anc, d, hops[d], cnt[d]>>
      BY <2>1, <2>2, <3>1, <3>2
    <3> HIDE DEF d
    <3> QED BY <3>3 DEF FoundRows, Seen
  <2> QED BY <2>3, <2>4
<1>4. \A a : Finished(a)' <=> Finished(a) \/ a = anc
  BY <1>1, <1>2, NoTableAssumption DEF Finished, Keys
<1>5. \A r \in rows : r[1] # anc
  BY <1>2 DEF IInv, RowsInv, Finished
<1>6. ~Finished(anc)
  BY DEF Finished
<1>7. RowsRight'
  <2> SUFFICES ASSUME NEW r, Finished(r[1])' PROVE r \in rows' <=> r \in ClosureRows(Tables, E0)
    BY <1>1 DEF RowsRight
  <2>1. CASE r[1] = anc
    BY <1>1, <1>3, <1>5, <2>1
  <2>2. CASE r[1] # anc
    <3>1. Finished(r[1])
      BY <1>4, <2>2
    <3> QED BY <1>1, <1>3, <2>2, <3>1 DEF ExactInv, RowsRight
  <2> QED BY <2>1, <2>2
<1> QED BY <1>1, <1>7 DEF SearchOrder, Counted

(* A table without outgoing edges has no rows.                             *)
LEMMA RowsStartAtKeys ==
  ASSUME TypeOK, NEW r \in ClosureRows(Tables, E0)
  PROVE  r[1] \in Keys(adjacency)
<1>1. PICK p \in Connected(Tables, E0) :
        r = <<p[1], p[2], Distance(Tables, E0, p[1], p[2]), ShortestPaths(Tables, E0, p[1], p[2])>>
  BY DEF ClosureRows
<1>2. /\ r[1] = p[1] /\ p[1] \in Tables /\ p[1] # p[2] /\ Reaches(Tables, E0, p[1], p[2])
  BY <1>1 DEF Connected
<1>3. ASSUME adjacency[p[1]] = {} PROVE FALSE
  <2> DEFINE S == {p[1]}
  <2>1. Closed(E0, S) /\ S \in SUBSET Tables /\ p[1] \in S
    BY <1>2, <1>3 DEF Closed, E0, Edges
  <2>2. p[2] \in S
    <3> HIDE DEF S
    <3> QED BY <1>2, <2>1, ReachesWithin
  <2> QED BY <1>2, <2>2
<1> QED BY <1>2, <1>3 DEF Keys

(* The stronger invariant holds throughout. *)
LEMMA ExactInvHolds == Spec => []ExactInv
<1>1. Init => ExactInv
  <2> SUFFICES ASSUME Init PROVE ExactInv
    OBVIOUS
  <2>1. SearchOrder /\ Counted
    BY DEF Init, SearchOrder, Counted
  <2>2. \A a : ~Finished(a)
    BY DEF Init, Finished
  <2> QED BY <2>1, <2>2, InitInv DEF ExactInv, RowsRight
<1>2. ExactInv /\ [Next]_vars => ExactInv'
  <2> SUFFICES ASSUME ExactInv, [Next]_vars PROVE ExactInv'
    OBVIOUS
  <2>1. IInv'
    BY IInvKept DEF ExactInv
  <2>2. CASE UNCHANGED vars
    <3>1. /\ UNCHANGED <<adjacency, todo, anc, hops, cnt, q, cur, nbrs, rows>>
      BY <2>2 DEF vars
    <3>2. E0' = E0 /\ SearchOrder' /\ RowsRight'
      BY <3>1 DEF ExactInv, SearchOrder, QueueOrder, HopsStep, RowsRight, E0, Finished, Seen, Queued
    <3>3. Counted'
      BY <3>1, <3>2 DEF ExactInv, Counted, Followed, Seen, Queued
    <3> QED BY <2>1, <3>2, <3>3 DEF ExactInv
  <2>3. SearchOrder' /\ Counted' /\ RowsRight'
    BY <2>2, StartSearchOrder, PopTableOrder, VisitNeighbourOrder, EndSearchOrder DEF Next, Return, ExactInv
  <2> QED BY <2>1, <2>3 DEF ExactInv
<1> QED BY <1>1, <1>2, PTL DEF Spec

(* What compute_closure returns is row for row the closure of the graph:   *)
(* every connected pair with its distance and its number of shortest       *)
(* paths, for any finite number of tables, cycles and self-loops included. *)
THEOREM ClosureIsExact == Spec => []RowsExact
<1>1. ExactInv => RowsExact
  <2> SUFFICES ASSUME ExactInv, Returned PROVE rows = ClosureRows(Tables, E0)
    BY DEF RowsExact, E0
  <2>1. \A a \in Keys(adjacency) : Finished(a)
    BY NoTableAssumption DEF Returned, Finished, Keys
  <2>2. \A r \in rows : Finished(r[1])
    BY DEF ExactInv, IInv, RowsInv
  <2>3. \A r \in ClosureRows(Tables, E0) : Finished(r[1])
    BY <2>1, RowsStartAtKeys DEF ExactInv, IInv
  <2> QED BY <2>2, <2>3 DEF ExactInv, RowsRight
<1> QED BY <1>1, ExactInvHolds, PTL

(* A table leaves the queue with its final distance and path count: its    *)
(* neighbours never add a count that is still to grow.                     *)
THEOREM ExpandedWhenFinal == Spec => []ExpandedIsFinal
<1>1. ExactInv => ExpandedIsFinal
  <2> SUFFICES ASSUME ExactInv, anc # NoTable, nbrs # {}, cur # anc
               PROVE  /\ hops[cur] = Distance(Tables, E0, anc, cur)
                      /\ cnt[cur] = ShortestPaths(Tables, E0, anc, cur)
    BY DEF ExpandedIsFinal, Expanding, E0
  <2>1. /\ cur \in Tables /\ Seen(cur) /\ hops[cur] \in Nat
        /\ cnt[cur] = Cardinality(Walks(Tables, E0, anc, cur, hops[cur]))
        /\ \A k \in Nat : k < hops[cur] => Walks(Tables, E0, anc, cur, k) = {}
    BY ExpandedFinal DEF ExactInv
  <2>2. Walks(Tables, E0, anc, cur, hops[cur]) # {}
    BY <2>1 DEF ExactInv, Counted
  <2>3. /\ anc \in Tables /\ Reaches(Tables, E0, anc, cur)
        /\ E0 \in SUBSET (Tables \X Tables)
    BY <2>1 DEF ExactInv, IInv, SearchInv, Keys, E0, Edges
  <2>4. hops[cur] = Distance(Tables, E0, anc, cur)
    BY <2>1, <2>2, <2>3, FiniteAssumption, ShortestIsDistance
  <2> QED BY <2>1, <2>4 DEF ShortestPaths
<1> QED BY <1>1, ExactInvHolds, PTL
=============================================================================
