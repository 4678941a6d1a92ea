--------------------------- MODULE MCLineageServer --------------------------
(***************************************************************************)
(* Four tables: a diamond, and a cycle of three with a self-loop beside a  *)
(* table of its own.                                                       *)
(***************************************************************************)
EXTENDS LineageServer

Diamond == {<<1, 2>>, <<1, 3>>, <<2, 4>>, <<3, 4>>}
Cycle == {<<1, 2>>, <<2, 3>>, <<3, 1>>, <<2, 2>>}
TheGraphs == {Diamond, Cycle}

TheTasks == [t \in Tables |-> IF t = 4 THEN {"k2"} ELSE {"k1"}]

Hit1(t, n) == [table |-> t, rank |-> n]
TheFound == [w1 |-> [exact |-> <<>>, fuzzy |-> <<>>,
                     similar |-> <<Hit1(2, 1), Hit1(3, 2), Hit1(4, 1), Hit1(0, 1)>>]]

Impact(page) == [kind |-> "impact", table |-> 1, group |-> "table", page |-> page, size |-> 1]
Lineage(t, dir, n) == [kind |-> "lineage", table |-> t, direction |-> dir, depth |-> n]

(* The second call asks only what the first may find in the cache, or the  *)
(* next page of it.                                                        *)
CONSTANTS r1, r2
TheQueriesOf ==
  r1 :> {Lineage(1, "downstream", 9), Lineage(4, "upstream", 1), Lineage(9, "upstream", 1),
         [kind |-> "path", from |-> 1, to |-> 4], [kind |-> "path", from |-> 1, to |-> 3],
         Impact(1), [Impact(1) EXCEPT !.group = "task"], [kind |-> "search", keyword |-> "w1"]}
  @@ r2 :> {Lineage(1, "downstream", 9), Impact(2)}
=============================================================================
