----------------------------- MODULE TableGraph -----------------------------
(***************************************************************************)
(* Reachability and shortest paths in a directed graph of tables, defined  *)
(* independently of any traversal.  A graph is a set of pairs <<src, dst>> *)
(* over a set N of nodes.  These are the reference definitions that the    *)
(* closure algorithms of lineage-pipeline are compared with; nothing here  *)
(* models code.                                                            *)
(***************************************************************************)
EXTENDS Integers, FiniteSets

(* S is closed under the edges E. *)
Closed(E, S) == \A e \in E : e[1] \in S => e[2] \in S

(* d is reachable from a when every closed set that holds a holds d: the   *)
(* least set containing a and closed under E.                              *)
Reaches(N, E, a, d) == \A S \in SUBSET N : (a \in S /\ Closed(E, S)) => d \in S

(* The pairs of distinct nodes joined by a path. *)
Connected(N, E) == { p \in N \X N : p[1] # p[2] /\ Reaches(N, E, p[1], p[2]) }

(* The walks of h edges from a to d, and the length of the shortest one.   *)
Walks(N, E, a, d, h) ==
  { w \in [0..h -> N] : /\ w[0] = a
                        /\ w[h] = d
                        /\ \A i \in 1..h : <<w[i - 1], w[i]>> \in E }

FirstNonEmpty(sets) ==
  CHOOSE h \in DOMAIN sets : sets[h] # {} /\ \A k \in 1..(h - 1) : sets[k] = {}
Distance(N, E, a, d) == FirstNonEmpty([h \in 1..Cardinality(N) |-> Walks(N, E, a, d, h)])

(* The number of shortest paths from a to d. *)
ShortestPaths(N, E, a, d) ==
  Cardinality(Walks(N, E, a, d, Distance(N, E, a, d)))

(* One row per connected pair: ancestor, descendant, min_hops, path_cnt.   *)
ClosureRows(N, E) ==
  { <<p[1], p[2], Distance(N, E, p[1], p[2]), ShortestPaths(N, E, p[1], p[2])>> :
      p \in Connected(N, E) }

(* The connected pairs that a set of closure rows records. *)
Pairs(rows) == { <<r[1], r[2]>> : r \in rows }
=============================================================================
