-------------------------- MODULE IncrementalPatch --------------------------
(***************************************************************************)
(* The incremental path of lineage-pipeline at table level: the edges of   *)
(* one SQL are replaced in one transaction (loader.replace_edges_for_sql)  *)
(* and then the closure is patched in a second one around the table the    *)
(* SQL writes (closure.incremental_patch).  MySQL runs the second one on a *)
(* REPEATABLE READ snapshot: the ancestors, the descendants and the        *)
(* adjacency are all read as of its first SELECT, the deletes and inserts  *)
(* act on what is committed when they run.                                 *)
(*                                                                         *)
(* tmp folding between the two transactions is the subject of TmpFold; no  *)
(* table here is a tmp table.                                              *)
(***************************************************************************)
EXTENDS TableGraph

CONSTANTS
  Tables,       \* full names of tables
  Sqls,         \* sql_id
  Registered,   \* sql_repository.target_table of each SQL
  Results,      \* Results[s]: the parse results a text of s may give
  NoTarget,     \* target_table = '' of a result whose parse failed
  Threshold,    \* config.CLOSURE_INCR_DEGRADE_THRESHOLD
  AtOnce,       \* bound on incremental runs under way at the same time
  Failures      \* bound on database errors inside a patch

ParseResults == [target : Tables \cup {NoTarget}, sources : SUBSET Tables]

ASSUME SqlAssumption == /\ Registered \in [Sqls -> Tables]
                        /\ Results \in [Sqls -> SUBSET ParseResults]
                        /\ NoTarget \notin Tables
ASSUME FiniteAssumption == IsFiniteSet(Tables)
ASSUME BoundAssumption == {Threshold, AtOnce, Failures} \subseteq Nat

VARIABLES
  parsed,    \* parsed[s]: the result whose edges lineage_edge holds for s
  closure,   \* table_closure: <<ancestor, descendant, min_hops, path_cnt>>
  pc,        \* pc[s]: where the incremental run of s stands
  patch,     \* patch[s]: the region read and the rows computed for it
  drift,     \* history: what the runs so far may have left wrong
  failures   \* database errors so far

vars == <<parsed, closure, pc, patch, drift, failures>>

(* The table-level rows of lineage_edge written for a parse result. *)
EdgesOf(r) == { e \in Tables \X Tables : e[2] = r.target /\ e[1] \in r.sources }

LineageEdges(p) == UNION { EdgesOf(p[s]) : s \in Sqls }

(* result.target_table or job["target_table"] *)
PatchTarget(s, r) == IF r.target = NoTarget THEN Registered[s] ELSE r.target

Ancestors(rows, t) == { r[1] : r \in { x \in rows : x[2] = t } } \cup {t}
(* Mutant: the descendants without the table itself. *)
DescendantsOnly(rows, t) == { r[2] : r \in { x \in rows : x[1] = t } }
Descendants(rows, t) == { r[2] : r \in { x \in rows : x[1] = t } } \cup {t}
Within(rows, A, D) == { r \in rows : r[1] \in A /\ r[2] \in D }

NoPatch == [target |-> NoTarget, anc |-> {}, desc |-> {}, rows |-> {}]

(* The columns of table_closure, and a patch that holds tables only. *)
TypeOK ==
  /\ parsed \in [Sqls -> ParseResults]
  /\ closure \subseteq Tables \X Tables \X Nat \X Nat
  /\ pc \in [Sqls -> {"idle", "replaced", "computed"}]
  /\ DOMAIN patch = Sqls
  /\ \A s \in Sqls : /\ patch[s].target \in Tables \cup {NoTarget}
                     /\ patch[s].anc \cup patch[s].desc \subseteq Tables
                     /\ patch[s].rows \subseteq Tables \X Tables \X Nat \X Nat
  /\ drift \in {"none", "upstream", "lost"}
  /\ failures \in 0..Failures

(* Any lineage with the closure a full rebuild gives it. *)
Init ==
  /\ parsed \in { p \in [Sqls -> ParseResults] : \A s \in Sqls : p[s] \in Results[s] }
  /\ closure = ClosureRows(Tables, LineageEdges(parsed))
  /\ pc = [s \in Sqls |-> "idle"]
  /\ patch = [s \in Sqls |-> NoPatch]
  /\ drift = "none"
  /\ failures = 0

Idle == \A s \in Sqls : pc[s] = "idle"

(* The SQL still writes the table it wrote, and every table it newly reads *)
(* was already upstream of that table.  A change of another kind, or one   *)
(* made while another run is under way, ends what can be claimed.          *)
SameTarget(s, r) == PatchTarget(s, r) = PatchTarget(s, parsed[s])
KnownUpstream(s, r) ==
  LET E == LineageEdges(parsed)
      t == PatchTarget(s, r)
  IN  \A e \in EdgesOf(r) \ E : e[1] = t \/ Reaches(Tables, E, e[1], t)

DriftAfter(s, r) ==
  IF drift = "none" /\ Idle /\ SameTarget(s, r)
  THEN IF KnownUpstream(s, r) THEN "none" ELSE "upstream"
  ELSE "lost"

(* The job is read and parsed, and its edges are replaced and committed.   *)
ReplaceEdges(s, r) ==
  /\ pc[s] = "idle"
  /\ Cardinality({ u \in Sqls : pc[u] # "idle" }) < AtOnce
  /\ r \in Results[s]
  /\ drift' = DriftAfter(s, r)
  /\ parsed' = [parsed EXCEPT ![s] = r]
  /\ patch' = [patch EXCEPT ![s] = [NoPatch EXCEPT !.target = PatchTarget(s, r)]]
  /\ pc' = [pc EXCEPT ![s] = "replaced"]
  /\ UNCHANGED <<closure, failures>>

(* The reads of incremental_patch, on one snapshot. *)
Region(s) == [target |-> patch[s].target,
              anc  |-> Ancestors(closure, patch[s].target),
              desc |-> Descendants(closure, patch[s].target)]

TooLarge(A, D) == Cardinality(A) * Cardinality(D) > Threshold

ComputeRegion(s) ==
  /\ pc[s] = "replaced"
  /\ ~TooLarge(Region(s).anc, Region(s).desc)
  /\ patch' = [patch EXCEPT ![s] =
       [target |-> @.target, anc |-> Region(s).anc, desc |-> Region(s).desc,
        rows |-> Within(ClosureRows(Tables, LineageEdges(parsed)),
                        Region(s).anc, Region(s).desc)]]
  /\ pc' = [pc EXCEPT ![s] = "computed"]
  /\ UNCHANGED <<parsed, closure, drift, failures>>

(* return "degrade_full_rebuild": the caller logs it and the run ends. *)
Degrade(s) ==
  /\ pc[s] = "replaced"
  /\ TooLarge(Region(s).anc, Region(s).desc)
  /\ drift' = "lost"
  /\ patch' = [patch EXCEPT ![s] = NoPatch]
  /\ pc' = [pc EXCEPT ![s] = "idle"]
  /\ UNCHANGED <<parsed, closure, failures>>

(* Mutants: the deletes left out; INSERT IGNORE after deleting only the    *)
(* pairs that are gone.                                                    *)
CommitPatchUndeleted(s) ==
  /\ pc[s] = "computed"
  /\ closure' = closure \cup patch[s].rows
  /\ patch' = [patch EXCEPT ![s] = NoPatch]
  /\ pc' = [pc EXCEPT ![s] = "idle"]
  /\ UNCHANGED <<parsed, drift, failures>>
CommitPatchIgnore(s) ==
  /\ pc[s] = "computed"
  /\ LET old  == Within(closure, patch[s].anc, patch[s].desc)
         kept == { r \in old : <<r[1], r[2]>> \in Pairs(patch[s].rows) }
         new  == { r \in patch[s].rows : <<r[1], r[2]>> \notin Pairs(old) }
     IN  closure' = (closure \ old) \cup kept \cup new
  /\ patch' = [patch EXCEPT ![s] = NoPatch]
  /\ pc' = [pc EXCEPT ![s] = "idle"]
  /\ UNCHANGED <<parsed, drift, failures>>

(* DELETE the region, INSERT the computed rows, commit. *)
CommitPatch(s) ==
  /\ pc[s] = "computed"
  /\ closure' = (closure \ Within(closure, patch[s].anc, patch[s].desc)) \cup patch[s].rows
  /\ patch' = [patch EXCEPT ![s] = NoPatch]
  /\ pc' = [pc EXCEPT ![s] = "idle"]
  /\ UNCHANGED <<parsed, drift, failures>>

(* The run fails between its two commits.  A process that dies leaves the  *)
(* closure alone.  A statement that fails without ending the transaction   *)
(* (a lock wait that times out) raises into record_run, which marks the    *)
(* run failed and commits on the same connection: the ancestors deleted so *)
(* far, and the batches of 5000 rows inserted so far, are committed too.   *)
InterruptPatch(s) ==
  /\ pc[s] \in {"replaced", "computed"}
  /\ failures < Failures
  /\ \E A \in SUBSET patch[s].anc, R \in SUBSET patch[s].rows :
       /\ R # {} => A = patch[s].anc
       /\ closure' = (closure \ Within(closure, A, patch[s].desc)) \cup R
  /\ failures' = failures + 1
  /\ drift' = "lost"
  /\ patch' = [patch EXCEPT ![s] = NoPatch]
  /\ pc' = [pc EXCEPT ![s] = "idle"]
  /\ UNCHANGED parsed

Next ==
  \E s \in Sqls :
    \/ \E r \in Results[s] : ReplaceEdges(s, r)
    \/ ComputeRegion(s)
    \/ Degrade(s)
    \/ CommitPatch(s)
    \/ InterruptPatch(s)

Spec == Init /\ [][Next]_vars

-----------------------------------------------------------------------------
(* Connectivity is right after any series of changes, one at a time, that  *)
(* name no table that was not already upstream: what is outside the region *)
(* around T really is untouched by a change of T's incoming edges.         *)
KnownUpstreamPairsExact ==
  Idle /\ drift = "none" => Pairs(closure) = Connected(Tables, LineageEdges(parsed))

(* The same for the distances and path counts of every row.                *)
KnownUpstreamRowsExact ==
  Idle /\ drift = "none" => closure = ClosureRows(Tables, LineageEdges(parsed))

(* One change that names a new upstream table leaves the closure short,    *)
(* never wrong: every pair it records is connected, and a pair it lacks    *)
(* starts at a table that the closure does not list as upstream of a table *)
(* that the change gave a new source.                                      *)
NewUpstreamOnlyOmits ==
  LET C == Connected(Tables, LineageEdges(parsed))
  IN  Idle /\ drift = "upstream" =>
        /\ Pairs(closure) \subseteq C
        /\ \A p \in C \ Pairs(closure) :
             \E s \in Sqls : LET t == PatchTarget(s, parsed[s]) IN
               /\ <<p[1], t>> \notin Pairs(closure)
               /\ p[2] \in Descendants(closure, t)

(* The inserts never meet a row that the deletes left, in whatever order   *)
(* concurrent runs and failures interleave: (ancestor, descendant) is the  *)
(* primary key and a collision would fail the run.                         *)
NoDuplicateRow ==
  \A x, y \in closure : x[1] = y[1] /\ x[2] = y[2] => x = y
=============================================================================
