---------------------------- MODULE LineageStore ----------------------------
(***************************************************************************)
(* What lineage-pipeline promises the readers of lineage_edge and          *)
(* table_closure: the edges they see are always a whole graph.  A rebuild  *)
(* publishes one complete build in one step, an incremental run and a      *)
(* person drawing lineage each replace their own edges in one step, and a  *)
(* rebuilt closure is the closure of edges that were served.               *)
(***************************************************************************)
EXTENDS TableGraph, TmpFold

CONSTANTS
  Tables, Sqls, NoSql,
  Active,        \* the statements whose texts make up a build
  Results,       \* Results[s]: the edge sets the texts of s may parse to
  ManualEdges    \* the edges a person may draw

VARIABLES
  served,     \* lineage_edge
  links,      \* the pairs of table_closure
  draft       \* the closure being prepared, or NoDraft

CONSTANT NoDraft

storeVars == <<served, links, draft>>

AnySql == Sqls \cup {NoSql}

PairsOf(edges) == { <<e.src, e.dst>> : e \in edges }
ClosureOf(edges) == Connected(Tables, PairsOf(edges))

(* A complete build: one parse result of every active statement and the    *)
(* edges drawn by hand, with the tmp tables folded away.                   *)
Builds ==
  { FoldTmpEdges((UNION { v[s] : s \in Active }) \cup M, AnySql, TRUE) :
      v \in { f \in [Active -> UNION { Results[s] : s \in Active }] :
                \A s \in Active : f[s] \in Results[s] },
      M \in SUBSET ManualEdges }

StoreInit == served \in Builds /\ links = ClosureOf(served) /\ draft = NoDraft

Publish == served' \in Builds /\ UNCHANGED <<links, draft>>

Reparse(s) ==
  /\ \E R \in Results[s] :
       served' = { e \in served : ~(e.sql = s /\ e.type = "sql") } \cup R
  /\ UNCHANGED <<links, draft>>

(* The tmp chains of some statements are folded; a fold that breaks off    *)
(* may leave the chains beside their synthetic edges.                      *)
FoldSome ==
  /\ \E S \in SUBSET AnySql :
       served' \in {FoldTmpEdges(served, S, FALSE), InsertSynthetic(served, S)}
  /\ UNCHANGED <<links, draft>>

Draw(t) ==
  /\ \E M \in SUBSET { e \in ManualEdges : e.dst = t } :
       served' = { e \in served : ~(e.dst = t /\ e.type = "manual") } \cup M
  /\ UNCHANGED <<links, draft>>

PrepareClosure == draft' = ClosureOf(served) /\ UNCHANGED <<served, links>>

(* A rebuild gives its closure up: aborted, failed or dead.                *)
GiveUpClosure == draft' = NoDraft /\ UNCHANGED <<served, links>>

PublishClosure ==
  /\ draft # NoDraft
  /\ links' = draft
  /\ draft' = NoDraft
  /\ UNCHANGED served

(* A patch touches one rectangle of pairs, around one table.               *)
PatchClosure(t) ==
  /\ LET up   == { p[1] : p \in { x \in links : x[2] = t } } \cup {t}
         down == { p[2] : p \in { x \in links : x[1] = t } } \cup {t}
     IN  links' \ (up \X down) = links \ (up \X down)
  /\ UNCHANGED <<served, draft>>

StoreNext ==
  \/ Publish
  \/ \E s \in Sqls : Reparse(s)
  \/ FoldSome
  \/ \E t \in Tables : Draw(t)
  \/ PrepareClosure
  \/ GiveUpClosure
  \/ PublishClosure
  \/ \E t \in Tables : PatchClosure(t)

StoreSpec == StoreInit /\ [][StoreNext]_storeVars
=============================================================================
