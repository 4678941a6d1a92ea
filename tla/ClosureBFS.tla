----------------------------- MODULE ClosureBFS -----------------------------
(***************************************************************************)
(* compute_closure of lineage-pipeline/pipeline/closure.py as the loop it  *)
(* is: one breadth-first search per table that has an outgoing edge, with  *)
(* the number of shortest paths summed layer by layer.  The order in which *)
(* Python walks the keys of the adjacency dict and each neighbour set is   *)
(* left open.                                                              *)
(***************************************************************************)
EXTENDS TableGraph, Sequences

CONSTANTS
  Tables,        \* full names of tables
  Adjacencies,   \* the adjacency dicts load_table_adjacency may return
  NoTable        \* anc before the first table and between two tables

ASSUME AdjacencyAssumption == Adjacencies \subseteq [Tables -> SUBSET Tables]
ASSUME FiniteAssumption == IsFiniteSet(Tables)
ASSUME NoTableAssumption == NoTable \notin Tables

VARIABLES
  adjacency,  \* the argument; a table without outgoing edges maps to {}
  todo,       \* keys the outer loop has not reached
  anc,        \* the ancestor whose search is running
  hops,       \* hops[t], or Unseen when t is not a key of hops
  cnt,        \* cnt[t], 0 by defaultdict(int)
  q,          \* the deque
  cur,        \* the table popped last
  nbrs,       \* neighbours of cur the inner loop has not reached
  rows        \* the rows collected so far

vars == <<adjacency, todo, anc, hops, cnt, q, cur, nbrs, rows>>

Unseen == -1

(* The tables with an outgoing edge: the keys of the dict. *)
Keys(adj) == { t \in Tables : adj[t] # {} }

Edges(adj) == { e \in Tables \X Tables : e[2] \in adj[e[1]] }

(* The shapes of compute_closure's local variables. *)
TypeOK ==
  /\ adjacency \in [Tables -> SUBSET Tables]
  /\ todo \subseteq Tables
  /\ anc \in Tables \cup {NoTable}
  /\ hops \in [Tables -> Nat \cup {Unseen}]
  /\ cnt \in [Tables -> Nat]
  /\ q \in Seq(Tables)
  /\ cur \in Tables \cup {NoTable}
  /\ nbrs \subseteq Tables
  /\ rows \subseteq Tables \X Tables \X Nat \X Nat

Init ==
  /\ adjacency \in Adjacencies
  /\ todo = Keys(adjacency)
  /\ anc = NoTable
  /\ hops = [t \in Tables |-> Unseen]
  /\ cnt = [t \in Tables |-> 0]
  /\ q = << >>
  /\ cur = NoTable
  /\ nbrs = {}
  /\ rows = {}

(* Mutant: hops keeps what the search before found. *)
StartSearchUnreset(a) ==
  /\ anc = NoTable
  /\ a \in todo
  /\ todo' = todo \ {a}
  /\ anc' = a
  /\ hops' = [hops EXCEPT ![a] = 0]
  /\ cnt' = [cnt EXCEPT ![a] = 1]
  /\ q' = <<a>>
  /\ UNCHANGED <<adjacency, cur, nbrs, rows>>

(* for anc in adjacency: hops = {anc: 0}, cnt = {anc: 1}, q = deque([anc]) *)
StartSearch(a) ==
  /\ anc = NoTable
  /\ a \in todo
  /\ todo' = todo \ {a}
  /\ anc' = a
  /\ hops' = [t \in Tables |-> IF t = a THEN 0 ELSE Unseen]
  /\ cnt' = [t \in Tables |-> IF t = a THEN 1 ELSE 0]
  /\ q' = <<a>>
  /\ UNCHANGED <<adjacency, cur, nbrs, rows>>

(* Mutant: the deque used as a stack. *)
PopTableLast ==
  /\ anc # NoTable
  /\ nbrs = {}
  /\ q # << >>
  /\ cur' = q[Len(q)]
  /\ q' = SubSeq(q, 1, Len(q) - 1)
  /\ nbrs' = adjacency[q[Len(q)]]
  /\ UNCHANGED <<adjacency, todo, anc, hops, cnt, rows>>

(* cur = q.popleft() *)
PopTable ==
  /\ anc # NoTable
  /\ nbrs = {}
  /\ q # << >>
  /\ cur' = Head(q)
  /\ q' = Tail(q)
  /\ nbrs' = adjacency[Head(q)]
  /\ UNCHANGED <<adjacency, todo, anc, hops, cnt, rows>>

(* if nxt == anc: continue *)
SkipAncestor(nxt) ==
  /\ nxt = anc
  /\ UNCHANGED <<hops, cnt, q>>

(* if nxt not in hops *)
Discover(nxt) ==
  /\ nxt # anc
  /\ hops[nxt] = Unseen
  /\ hops' = [hops EXCEPT ![nxt] = hops[cur] + 1]
  /\ cnt' = [cnt EXCEPT ![nxt] = cnt[cur]]
  /\ q' = Append(q, nxt)

(* Mutant: only the first predecessor's paths count. *)
AddNoPaths(nxt) ==
  /\ nxt # anc
  /\ hops[nxt] = hops[cur] + 1
  /\ UNCHANGED <<hops, cnt, q>>

(* elif hops[nxt] == hops[cur] + 1 *)
AddPaths(nxt) ==
  /\ nxt # anc
  /\ hops[nxt] = hops[cur] + 1
  /\ cnt' = [cnt EXCEPT ![nxt] = @ + cnt[cur]]
  /\ UNCHANGED <<hops, q>>

(* Mutant: a table seen before is queued again. *)
RequeueSeen(nxt) ==
  /\ nxt # anc
  /\ hops[nxt] \notin {Unseen, hops[cur] + 1}
  /\ q' = Append(q, nxt)
  /\ UNCHANGED <<hops, cnt>>

(* A neighbour already reached by a path that is not longer. *)
SkipSeen(nxt) ==
  /\ nxt # anc
  /\ hops[nxt] \notin {Unseen, hops[cur] + 1}
  /\ UNCHANGED <<hops, cnt, q>>

VisitNeighbour(nxt) ==
  /\ nxt \in nbrs
  /\ nbrs' = nbrs \ {nxt}
  /\ SkipAncestor(nxt) \/ Discover(nxt) \/ AddPaths(nxt) \/ SkipSeen(nxt)
  /\ UNCHANGED <<adjacency, todo, anc, cur, rows>>

(* rows.extend((anc, d, h, cnt[d]) for d, h in hops.items() if d != anc) *)
FoundRows ==
  { <<anc, d, hops[d], cnt[d]>> : d \in { t \in Tables : t # anc /\ hops[t] # Unseen } }

EndSearch ==
  /\ anc # NoTable
  /\ nbrs = {}
  /\ q = << >>
  /\ rows' = rows \cup FoundRows
  /\ anc' = NoTable
  /\ UNCHANGED <<adjacency, todo, hops, cnt, q, cur, nbrs>>

(* return rows *)
Returned == anc = NoTable /\ todo = {}

Return == Returned /\ UNCHANGED vars

Next ==
  \/ \E a \in Tables : StartSearch(a)
  \/ PopTable
  \/ \E nxt \in Tables : VisitNeighbour(nxt)
  \/ EndSearch
  \/ Return

(* The function runs to its end: nothing else can take its steps away. *)
Spec == Init /\ [][Next]_vars /\ WF_vars(Next)

-----------------------------------------------------------------------------
(* The rows returned are exactly the connected pairs, each with its        *)
(* distance and its number of shortest paths, cycles and self-loops        *)
(* included: what table_closure's readers take min_hops and path_cnt for.  *)
RowsExact == Returned => rows = ClosureRows(Tables, Edges(adjacency))

Expanding(t) == anc # NoTable /\ t = cur /\ nbrs # {} /\ t # anc

(* When a table leaves the queue its distance and its path count are       *)
(* final, for they are what its neighbours add: with a table expanded      *)
(* before its last predecessor of the layer above, path_cnt would be short *)
(* further down although min_hops stays right.                             *)
ExpandedIsFinal ==
  \A t \in Tables : Expanding(t) =>
    /\ hops[t] = Distance(Tables, Edges(adjacency), anc, t)
    /\ cnt[t] = ShortestPaths(Tables, Edges(adjacency), anc, t)

Finished(a) == a \in Keys(adjacency) \ todo /\ a # anc

(* Every search of every finished ancestor found exactly what it reaches:  *)
(* the connectivity that impact analysis reads off the closure.            *)
ConnectivityExact ==
  \A a, d \in Tables :
    Finished(a) => (<<a, d>> \in Pairs(rows)
                    <=> a # d /\ Reaches(Tables, Edges(adjacency), a, d))

(* A cycle in the lineage graph does not keep the traversal going. *)
Terminates == <>Returned
=============================================================================
