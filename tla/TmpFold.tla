------------------------------- MODULE TmpFold -------------------------------
(***************************************************************************)
(* The result of lineage-pipeline/pipeline/derive.py on a set of edges: a  *)
(* chain A -> tmp ... -> B becomes one synthetic edge A -> B and the edges *)
(* at tmp tables go away.  An edge is a record of source, target, the      *)
(* sql_id it comes from (NoSql where the column is NULL) and its src_type. *)
(* Column edges fold the same way over (table, column) keys; confidence,   *)
(* expressions and conditions are left out.                                *)
(***************************************************************************)
EXTENDS Integers, FiniteSets, Sequences

CONSTANT TmpTables    \* the tables is_tmp_table accepts

Last(chain) == chain[Len(chain)]

AtTmp(e) == e.src \in TmpTables \/ e.dst \in TmpTables

(* Mutant: a chain is not followed from one tmp table into the next. *)
OpenChainsOneLevel(W) ==
  { <<e>> : e \in { h \in W : h.src \notin TmpTables /\ h.dst \in TmpTables } }

(* The chains the search stacks: from a table that is not tmp into tmp     *)
(* tables, none of them twice; OpenChains(W)[k] are those of k edges.      *)
OpenChains(W) ==
  LET heads == { <<e>> : e \in { h \in W : h.src \notin TmpTables /\ h.dst \in TmpTables } }
      fresh(ch, e) == /\ e.src = Last(ch).dst
                      /\ e.dst \in TmpTables
                      /\ \A i \in 1..Len(ch) : ch[i].dst # e.dst
      upto[k \in 1..(Cardinality(TmpTables) + 1)] ==
        IF k = 1 THEN heads
        ELSE { Append(x[1], x[2]) : x \in { y \in upto[k - 1] \X W : fresh(y[1], y[2]) } }
  IN  UNION { upto[k] : k \in DOMAIN upto }

(* The chains that come out at a table that is not tmp, each with the edge *)
(* it comes out by.                                                        *)
FullChains(W) ==
  { x \in OpenChains(W) \X W : x[2].src = Last(x[1]).dst /\ x[2].dst \notin TmpTables }

(* The synthetic edge of a chain: sql_id and src_type of the last segment. *)
Synthesize(ch, last) == [src |-> ch[1].src, dst |-> last.dst,
                         sql |-> last.sql, type |-> last.type]

(* synthetic.setdefault(key, syn): one edge per source, target and sql_id. *)
Synthetic(W) ==
  LET all  == { Synthesize(x[1], x[2]) : x \in FullChains(W) }
      keys == { <<e.src, e.dst, e.sql>> : e \in all }
  IN  { CHOOSE e \in all : <<e.src, e.dst, e.sql>> = k : k \in keys }

Used(W) ==
  { e \in W : \E x \in FullChains(W) : e = x[2] \/ \E i \in 1..Len(x[1]) : e = x[1][i] }

(* The working set: the tmp edges of the given sql_ids. *)
Working(edges, sqls) == { e \in edges : e.sql \in sqls /\ AtTmp(e) }

(* fold_tmp_edges: the synthetic edges are inserted, then every tmp edge   *)
(* of the scope is deleted (drop_all_tmp), or only those a chain used.     *)
InsertSynthetic(edges, sqls) == edges \cup Synthetic(Working(edges, sqls))

FoldTmpEdges(edges, sqls, dropAll) ==
  LET W == Working(edges, sqls)
  IN  (edges \ (IF dropAll THEN W ELSE Used(W))) \cup Synthetic(W)
=============================================================================
