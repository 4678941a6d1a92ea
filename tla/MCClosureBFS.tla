---------------------------- MODULE MCClosureBFS ----------------------------
(* An instance of ClosureBFS for TLC. *)
EXTENDS ClosureBFS, FiniteSetsExt, TLC

CONSTANTS a, b, c, d

(* Every graph on three of the tables, self-loops included. *)
SmallGraphs == { g \in [Tables -> SUBSET {a, b, c}] : g[d] = {} }

(* The graphs on four tables without self-loops, one of each shape: four   *)
(* tables is the smallest size at which two shortest paths meet.  A shape  *)
(* is represented by the graph with the smallest number.                   *)
Order == a :> 0 @@ b :> 1 @@ c :> 2 @@ d :> 3
Number(g, p) ==
  MapThenSumSet(LAMBDA e : 2^(4 * Order[p[e[1]]] + Order[p[e[2]]]),
                { e \in Tables \X Tables : e[2] \in g[e[1]] })
Renamings == Permutations(Tables)
Identity == [t \in Tables |-> t]
Loopless == { g \in [Tables -> SUBSET Tables] : \A t \in Tables : t \notin g[t] }
Shapes == { g \in Loopless : \A p \in Renamings : Number(g, Identity) <= Number(g, p) }

Graphs == SmallGraphs \cup Shapes
=============================================================================
