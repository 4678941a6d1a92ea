-------------------------- MODULE LineagePipeline --------------------------
(***************************************************************************)
(* lineage-pipeline at work on the shared MySQL tables, at table level:    *)
(* the nightly full rebuild (rebuild.full_rebuild, one or more processes), *)
(* the incremental run of the publish hook (rebuild.incremental), the      *)
(* portal's hand-drawn lineage (store.manual_lineage) and the collector    *)
(* that changes SQL texts.  An action ends at a commit or at a DDL         *)
(* statement: what lies between two of them no other process can see.      *)
(*                                                                         *)
(* Closures are sets of pairs here: min_hops and path_cnt are the subject  *)
(* of ClosureBFS and IncrementalPatch.                                     *)
(***************************************************************************)
EXTENDS TableGraph, TmpFold

CONSTANTS
  Tables, Sqls,
  Active,         \* the statements with is_active = 1, which nothing changes
  Cron,           \* full_rebuild as the nightly cron job starts it
  ByHand,         \* full_rebuild processes an operator may start once each
  NoSql,          \* sql_id IS NULL
  NoTable,        \* a table that does not exist
  Versions,       \* Versions[s]: the texts s may have
  Reads,          \* Reads[v]: the tables text v reads
  Writes,         \* Writes[s]: the table s writes
  Task,           \* Task[s]: its task_id
  NoTask,         \* task_id of a statement registered without one
  FailTexts,      \* texts that do not parse
  SlowTexts,      \* texts whose parse may pass PARSE_TIMEOUT_SECONDS
  Drawings,       \* what may be drawn by hand: [dst, srcs, sql]
  EdgeDelta,      \* REBUILD_EDGE_DELTA_MAX in percent
  ClosureDelta,   \* REBUILD_CLOSURE_DELTA_MAX in percent
  Threshold,      \* CLOSURE_INCR_DEGRADE_THRESHOLD
  Changes,        \* bound on new texts and drawings
  Hooks,          \* bound on incremental runs
  Faults          \* bound on crashes and database errors

Texts == UNION { Versions[s] : s \in Sqls }
AnySql == Sqls \cup {NoSql}
Rebuilds == {Cron} \cup ByHand

EdgeRows == [src : Tables, dst : Tables, sql : AnySql, type : {"sql", "manual"}]
Statuses == {"pending", "success", "degraded", "failed", "manual"}

ASSUME PipelineAssumption ==
  /\ Active \subseteq Sqls
  /\ Versions \in [Sqls -> SUBSET Texts]
  /\ Reads \in [Texts -> SUBSET Tables]
  /\ Writes \in [Sqls -> Tables]
  /\ DOMAIN Task = Sqls
  /\ SlowTexts \subseteq Texts
  /\ FailTexts \subseteq { v \in Texts : Reads[v] = {} }
  /\ NoSql \notin Sqls
  /\ \A w \in Drawings : /\ w.dst \in Tables /\ w.srcs \subseteq Tables
                         /\ w.sql \in AnySql
  /\ IsFiniteSet(TmpTables)
  /\ \A closure \in SUBSET (Tables \X Tables) : NoTable # closure
ASSUME LimitAssumption ==
  {EdgeDelta, ClosureDelta, Threshold, Changes, Hooks, Faults} \subseteq Nat

VARIABLES
  sql_repository,          \* [text, status] of every statement
  lineage_edge, lineage_edge_shadow, lineage_edge_prev,
  table_closure, table_closure_shadow, table_closure_prev,
  pc,          \* pc[r]: the step rebuild r takes next
  jobs,        \* jobs[r]: what rebuild r parsed: [reads, status] per statement
  found,       \* found[r]: the closure rebuild r computed
  run,         \* run[r]: pipeline_run.status of the last run of r
  hook,        \* the incremental run
  ghost,       \* history: what the properties compare with
  left         \* what remains of the bounds

edgeTables == <<lineage_edge, lineage_edge_shadow, lineage_edge_prev>>
closureTables == <<table_closure, table_closure_shadow, table_closure_prev>>
vars == <<sql_repository, edgeTables, closureTables, pc, jobs, found, run, hook, ghost, left>>

(* The edges of a statement that reads the given tables.                   *)
SqlEdges(s, reads) ==
  { [src |-> t, dst |-> Writes[s], sql |-> s, type |-> "sql"] : t \in reads }

(* Mutant: a status that is none of those of parse_status. *)
TimedOutUnknown == [reads |-> {}, status |-> "timeout"]

(* The parse result of a text; past the timeout the full rebuild gets a    *)
(* degraded result that carries no edge at all.                            *)
Parsed(v) == [reads |-> Reads[v],
              status |-> IF v \in FailTexts THEN "failed" ELSE "success"]
TimedOut == [reads |-> {}, status |-> "degraded"]

PairsOf(edges) == { <<e.src, e.dst>> : e \in edges }
ClosureOf(edges) == Connected(Tables, PairsOf(edges))

Built(reads) ==
  FoldTmpEdges(UNION { SqlEdges(s, reads[s]) : s \in Active }, AnySql, TRUE)

(* abs(new - old) / old > limit, with no verdict on an empty old table.    *)
Exceeds(old, new, percent) ==
  LET gap == IF new > old THEN new - old ELSE old - new
  IN  old > 0 /\ gap * 100 > old * percent

NoHook == [at |-> "idle", sql |-> NoSql, text |-> NoTable, anc |-> {}, desc |-> {}, pairs |-> {}]

Steps == {"idle", "read", "shadow", "create", "copy", "load", "fold", "checkEdges",
          "dropEdgePrev", "renameEdges", "closure", "createClosure", "loadClosure",
          "checkClosure", "dropClosurePrev", "renameClosure", "finish"}

(* The columns and the states of the tables and processes. *)
TypeOK ==
  /\ sql_repository \in [Sqls -> [text : Texts, status : Statuses]]
  /\ lineage_edge \subseteq EdgeRows
  /\ \A t \in {lineage_edge_shadow, lineage_edge_prev} : t = NoTable \/ t \subseteq EdgeRows
  /\ table_closure \subseteq Tables \X Tables
  /\ \A t \in {table_closure_shadow, table_closure_prev} :
       t = NoTable \/ t \subseteq Tables \X Tables
  /\ pc \in [Rebuilds -> Steps]
  /\ jobs \in [Rebuilds -> [Active -> [reads : SUBSET Tables, status : Statuses]]]
  /\ found \in [Rebuilds -> SUBSET (Tables \X Tables)]
  /\ run \in [Rebuilds -> {"none", "running", "success", "aborted", "failed"}]
  /\ hook.at \in {"idle", "replace", "fold", "region", "patch"} /\ hook.sql \in AnySql
  /\ left.changes \in 0..Changes /\ left.hooks \in 0..Hooks /\ left.faults \in 0..Faults

(* The state a successful full rebuild of the first texts leaves.          *)
Init ==
  /\ sql_repository \in [Sqls -> [text : Texts, status : Statuses]]
  /\ \A s \in Sqls : /\ sql_repository[s].text \in Versions[s]
                     /\ sql_repository[s].status = Parsed(sql_repository[s].text).status
  /\ lineage_edge = Built([s \in Sqls |-> Reads[sql_repository[s].text]])
  /\ table_closure = ClosureOf(lineage_edge)
  /\ lineage_edge_shadow = NoTable /\ lineage_edge_prev = NoTable
  /\ table_closure_shadow = NoTable /\ table_closure_prev = NoTable
  /\ pc = [r \in Rebuilds |-> "idle"]
  /\ jobs = [r \in Rebuilds |-> [s \in Active |-> TimedOut]]
  /\ found = [r \in Rebuilds |-> {}]
  /\ run = [r \in Rebuilds |-> "none"]
  /\ hook = NoHook
  /\ ghost = [by |-> Cron, touched |-> FALSE, edges |-> lineage_edge, closure |-> table_closure,
              drawn |-> {}, redrawn |-> {}, hooked |-> {}, overtaken |-> {}]
  /\ left = [changes |-> Changes, hooks |-> Hooks, faults |-> Faults,
             starts |-> Cardinality(ByHand)]

Spend(kind) == left[kind] > 0 /\ left' = [left EXCEPT ![kind] = @ - 1]

(* A rebuild that has read the texts, or copied the drawn edges, and not   *)
(* yet renamed will publish them as they were.                             *)
HasReadTexts(r) == pc[r] \in {"shadow", "create", "copy", "load", "fold", "checkEdges",
                              "dropEdgePrev", "renameEdges"}
HasCopied(r) == pc[r] \in {"load", "fold", "checkEdges", "dropEdgePrev", "renameEdges"}

Touch == [ghost EXCEPT !.touched = TRUE]

-----------------------------------------------------------------------------
(* rebuild.full_rebuild                                                    *)

Goto(r, from, to) == pc[r] = from /\ pc' = [pc EXCEPT ![r] = to]

(* record_run: INSERT 'running', commit. *)
StartFull(r) ==
  /\ Goto(r, "idle", "read")
  /\ IF r = Cron THEN UNCHANGED left ELSE Spend("starts")
  /\ run' = [run EXCEPT ![r] = "running"]
  /\ ghost' = [ghost EXCEPT !.by = r, !.touched = \E q \in Rebuilds \ {r} : pc[q] # "idle",
                            !.edges = lineage_edge, !.closure = table_closure]
  /\ UNCHANGED <<sql_repository, edgeTables, closureTables, jobs, found, hook>>

(* The active statements are read and parsed by the worker pool. *)
ReadJobs(r) ==
  /\ Goto(r, "read", "shadow")
  /\ \E slow \in SUBSET { s \in Active : sql_repository[s].text \in SlowTexts } :
       /\ jobs' = [jobs EXCEPT ![r] =
           [s \in Active |-> IF s \in slow THEN TimedOut ELSE Parsed(sql_repository[s].text)]]
       /\ ghost' = [ghost EXCEPT !.overtaken = @ \cup slow]
  /\ UNCHANGED <<sql_repository, edgeTables, closureTables, found, run, hook, left>>

(* Mutant: the shadow table of the run before is not dropped. *)
KeepShadow(r) ==
  /\ Goto(r, "shadow", "create")
  /\ UNCHANGED <<sql_repository, edgeTables, closureTables, jobs, found, run, hook, ghost,
                 left>>

(* DROP TABLE IF EXISTS lineage_edge_shadow *)
DropShadow(r) ==
  /\ Goto(r, "shadow", "create")
  /\ lineage_edge_shadow' = NoTable
  /\ UNCHANGED <<sql_repository, lineage_edge, lineage_edge_prev, closureTables,
                 jobs, found, run, hook, ghost, left>>

(* CREATE TABLE lineage_edge_shadow LIKE lineage_edge *)
CreateShadow(r) ==
  /\ Goto(r, "create", "copy")
  /\ lineage_edge_shadow = NoTable
  /\ lineage_edge_shadow' = {}
  /\ UNCHANGED <<sql_repository, lineage_edge, lineage_edge_prev, closureTables,
                 jobs, found, run, hook, ghost, left>>

(* Mutant: the shadow table starts without the drawn edges. *)
KeptNothing == { e \in lineage_edge : e.type \notin {"sql", "manual"} }

(* INSERT ... SELECT * FROM lineage_edge WHERE src_type <> 'sql'; commit.  *)
(* The rows keep their edge_id, the primary key.                           *)
Kept == { e \in lineage_edge : e.type # "sql" }

CopyKept(r) ==
  /\ Goto(r, "copy", "load")
  /\ lineage_edge_shadow # NoTable
  /\ lineage_edge_shadow \cap Kept = {}
  /\ lineage_edge_shadow' = lineage_edge_shadow \cup Kept
  /\ UNCHANGED <<sql_repository, lineage_edge, lineage_edge_prev, closureTables,
                 jobs, found, run, hook, ghost, left>>

Loaded(r, S) == UNION { SqlEdges(s, jobs[r][s].reads) : s \in S }
StatusesOf(r, S) ==
  [s \in Sqls |-> IF s \in S THEN [sql_repository[s] EXCEPT !.status = jobs[r][s].status]
                  ELSE sql_repository[s]]

(* Mutant: the last, incomplete batch is never written. *)
BulkInsertFullBatches(r) ==
  /\ Goto(r, "load", "fold")
  /\ lineage_edge_shadow # NoTable
  /\ sql_repository' = StatusesOf(r, Active)
  /\ UNCHANGED <<lineage_edge, lineage_edge_shadow, lineage_edge_prev, closureTables, jobs,
                 found, run, hook, ghost, left>>

(* bulk_insert_shadow: all edges and all parse_status values, one commit. *)
BulkInsert(r) ==
  /\ Goto(r, "load", "fold")
  /\ lineage_edge_shadow # NoTable
  /\ lineage_edge_shadow' = lineage_edge_shadow \cup Loaded(r, Active)
  /\ sql_repository' = StatusesOf(r, Active)
  /\ UNCHANGED <<lineage_edge, lineage_edge_prev, closureTables, jobs, found, run, hook,
                 ghost, left>>

(* fold_tmp_edges(edge_table="lineage_edge_shadow") *)
FoldShadow(r) ==
  /\ Goto(r, "fold", "checkEdges")
  /\ lineage_edge_shadow # NoTable
  /\ lineage_edge_shadow' = FoldTmpEdges(lineage_edge_shadow, AnySql, TRUE)
  /\ UNCHANGED <<sql_repository, lineage_edge, lineage_edge_prev, closureTables,
                 jobs, found, run, hook, ghost, left>>

EdgesExceed == Exceeds(Cardinality(lineage_edge), Cardinality(lineage_edge_shadow), EdgeDelta)

CheckEdges(r) ==
  /\ lineage_edge_shadow # NoTable
  /\ \/ /\ EdgesExceed
        /\ Goto(r, "checkEdges", "idle")
        /\ run' = [run EXCEPT ![r] = "aborted"]
     \/ /\ ~EdgesExceed
        /\ Goto(r, "checkEdges", "dropEdgePrev")
        /\ UNCHANGED run
  /\ UNCHANGED <<sql_repository, edgeTables, closureTables, jobs, found, hook, ghost, left>>

(* Mutant: the table kept from the swap before is not dropped. *)
KeepEdgePrev(r) ==
  /\ Goto(r, "dropEdgePrev", "renameEdges")
  /\ UNCHANGED <<sql_repository, edgeTables, closureTables, jobs, found, run, hook, ghost,
                 left>>

(* swap_shadow: DROP TABLE IF EXISTS lineage_edge_prev *)
DropEdgePrev(r) ==
  /\ Goto(r, "dropEdgePrev", "renameEdges")
  /\ lineage_edge_prev' = NoTable
  /\ UNCHANGED <<sql_repository, lineage_edge, lineage_edge_shadow, closureTables,
                 jobs, found, run, hook, ghost, left>>

(* MySQL holds a RENAME back while a transaction that read the table is    *)
(* open: the hook's, from its first SELECT to its commit.                  *)
HookReading == hook.at = "patch"

(* RENAME TABLE lineage_edge TO .._prev, lineage_edge_shadow TO lineage_edge *)
RenameEdges(r) ==
  /\ Goto(r, "renameEdges", "closure")
  /\ ~HookReading
  /\ lineage_edge_shadow # NoTable /\ lineage_edge_prev = NoTable
  /\ lineage_edge_prev' = lineage_edge
  /\ lineage_edge' = lineage_edge_shadow
  /\ lineage_edge_shadow' = NoTable
  /\ UNCHANGED <<sql_repository, closureTables, jobs, found, run, hook, ghost, left>>

(* Mutant: the adjacency is read from the table that was replaced. *)
DropClosureShadowOfPrev(r) ==
  /\ Goto(r, "closure", "createClosure")
  /\ found' = [found EXCEPT ![r] =
       ClosureOf(IF lineage_edge_prev = NoTable THEN {} ELSE lineage_edge_prev)]
  /\ table_closure_shadow' = NoTable
  /\ UNCHANGED <<sql_repository, edgeTables, table_closure, table_closure_prev,
                 jobs, run, hook, ghost, left>>

(* rebuild_closure_shadow: the adjacency is read from lineage_edge, then   *)
(* DROP TABLE IF EXISTS table_closure_shadow.                              *)
DropClosureShadow(r) ==
  /\ Goto(r, "closure", "createClosure")
  /\ found' = [found EXCEPT ![r] = ClosureOf(lineage_edge)]
  /\ table_closure_shadow' = NoTable
  /\ UNCHANGED <<sql_repository, edgeTables, table_closure, table_closure_prev,
                 jobs, run, hook, ghost, left>>

(* CREATE TABLE table_closure_shadow LIKE table_closure *)
CreateClosureShadow(r) ==
  /\ Goto(r, "createClosure", "loadClosure")
  /\ table_closure_shadow = NoTable
  /\ table_closure_shadow' = {}
  /\ UNCHANGED <<sql_repository, edgeTables, table_closure, table_closure_prev,
                 jobs, found, run, hook, ghost, left>>

(* INSERT INTO table_closure_shadow ... ; commit.  A pair already there is *)
(* a duplicate of the primary key.                                         *)
CanLoadClosure(r) ==
  table_closure_shadow # NoTable /\ table_closure_shadow \cap found[r] = {}

LoadClosureShadow(r) ==
  /\ Goto(r, "loadClosure", "checkClosure")
  /\ CanLoadClosure(r)
  /\ table_closure_shadow' = table_closure_shadow \cup found[r]
  /\ UNCHANGED <<sql_repository, edgeTables, table_closure, table_closure_prev,
                 jobs, found, run, hook, ghost, left>>

ClosureExceeds(r) == Exceeds(Cardinality(table_closure), Cardinality(found[r]), ClosureDelta)

CheckClosure(r) ==
  /\ \/ /\ ClosureExceeds(r)
        /\ Goto(r, "checkClosure", "idle")
        /\ run' = [run EXCEPT ![r] = "aborted"]
     \/ /\ ~ClosureExceeds(r)
        /\ Goto(r, "checkClosure", "dropClosurePrev")
        /\ UNCHANGED run
  /\ UNCHANGED <<sql_repository, edgeTables, closureTables, jobs, found, hook, ghost, left>>

DropClosurePrev(r) ==
  /\ Goto(r, "dropClosurePrev", "renameClosure")
  /\ table_closure_prev' = NoTable
  /\ UNCHANGED <<sql_repository, edgeTables, table_closure, table_closure_shadow,
                 jobs, found, run, hook, ghost, left>>

RenameClosure(r) ==
  /\ Goto(r, "renameClosure", "finish")
  /\ ~HookReading
  /\ table_closure_shadow # NoTable /\ table_closure_prev = NoTable
  /\ table_closure_prev' = table_closure
  /\ table_closure' = table_closure_shadow
  /\ table_closure_shadow' = NoTable
  /\ UNCHANGED <<sql_repository, edgeTables, jobs, found, run, hook, ghost, left>>

(* detect_cycles only reads; record_run: UPDATE 'success', commit. *)
FinishFull(r) ==
  /\ Goto(r, "finish", "idle")
  /\ run' = [run EXCEPT ![r] = "success"]
  /\ UNCHANGED <<sql_repository, edgeTables, closureTables, jobs, found, hook, ghost, left>>

(* A statement meets a table that another rebuild renamed, dropped or      *)
(* filled, and record_run marks the run failed.                            *)
StatementFails(r) ==
  /\ \/ pc[r] = "create" /\ lineage_edge_shadow # NoTable
     \/ pc[r] \in {"copy", "load", "fold", "checkEdges"} /\ lineage_edge_shadow = NoTable
     \/ pc[r] = "copy" /\ Kept # {} /\ lineage_edge_shadow # {}
     \/ pc[r] = "renameEdges" /\ (lineage_edge_shadow = NoTable \/ lineage_edge_prev # NoTable)
     \/ pc[r] = "createClosure" /\ table_closure_shadow # NoTable
     \/ pc[r] = "loadClosure" /\ ~CanLoadClosure(r)
     \/ pc[r] = "renameClosure" /\ (table_closure_shadow = NoTable
                                    \/ table_closure_prev # NoTable)
  /\ pc' = [pc EXCEPT ![r] = "idle"]
  /\ run' = [run EXCEPT ![r] = "failed"]
  /\ UNCHANGED <<sql_repository, edgeTables, closureTables, jobs, found, hook, ghost, left>>

(* What a block had executed when it failed: nothing, the copy, the        *)
(* statements bulk_insert_shadow had reached, the synthetic edges of the   *)
(* fold, the rows of the closure.                                          *)
LeftOver(r) ==
  \/ UNCHANGED <<sql_repository, lineage_edge_shadow, table_closure_shadow>>
  \/ /\ pc[r] \in {"copy", "fold"} /\ lineage_edge_shadow # NoTable
     /\ lineage_edge_shadow' = IF pc[r] = "copy" THEN lineage_edge_shadow \cup Kept
                               ELSE InsertSynthetic(lineage_edge_shadow, AnySql)
     /\ UNCHANGED <<sql_repository, table_closure_shadow>>
  \/ /\ pc[r] = "load" /\ lineage_edge_shadow # NoTable
     /\ \E S \in SUBSET Active : /\ sql_repository' = StatusesOf(r, S)
                                 /\ lineage_edge_shadow' = lineage_edge_shadow \cup Loaded(r, S)
     /\ UNCHANGED table_closure_shadow
  \/ /\ pc[r] = "loadClosure" /\ table_closure_shadow # NoTable
     /\ table_closure_shadow' = table_closure_shadow \cup found[r]
     /\ UNCHANGED <<sql_repository, lineage_edge_shadow>>

(* A database error: record_run commits what had been executed and marks   *)
(* the run failed.                                                         *)
ErrorInFull(r) ==
  /\ pc[r] # "idle"
  /\ Spend("faults")
  /\ LeftOver(r)
  /\ pc' = [pc EXCEPT ![r] = "idle"]
  /\ run' = [run EXCEPT ![r] = "failed"]
  /\ UNCHANGED <<lineage_edge, lineage_edge_prev, table_closure, table_closure_prev, jobs,
                 found, hook, ghost>>

(* The process dies: its pipeline_run row stays 'running'. *)
CrashFull(r) ==
  /\ pc[r] # "idle"
  /\ Spend("faults")
  /\ pc' = [pc EXCEPT ![r] = "idle"]
  /\ UNCHANGED <<sql_repository, edgeTables, closureTables, jobs, found, run, hook, ghost>>

FullStep(r) ==
  \/ ReadJobs(r) \/ DropShadow(r) \/ CreateShadow(r) \/ CopyKept(r) \/ BulkInsert(r)
  \/ FoldShadow(r)
  \/ CheckEdges(r) \/ DropEdgePrev(r) \/ RenameEdges(r)
  \/ DropClosureShadow(r) \/ CreateClosureShadow(r) \/ LoadClosureShadow(r)
  \/ CheckClosure(r)
  \/ DropClosurePrev(r) \/ RenameClosure(r) \/ FinishFull(r)
  \/ StatementFails(r)

-----------------------------------------------------------------------------
(* The collector, the publish hook and the portal                          *)

(* upsert_sql: another text replaces the row's, which waits as 'pending'.  *)
UpsertSql(s, v) ==
  /\ v \in Versions[s] \ {sql_repository[s].text}
  /\ Spend("changes")
  /\ sql_repository' = [sql_repository EXCEPT ![s] = [text |-> v, status |-> "pending"]]
  /\ ghost' = [Touch EXCEPT !.hooked = @ \ {s}, !.overtaken = @ \ {s}]
  /\ UNCHANGED <<edgeTables, closureTables, pc, jobs, found, run, hook>>

(* incremental: the job is read and parsed, with no timeout here. *)
StartHook(s) ==
  /\ hook.at = "idle"
  /\ Spend("hooks")
  /\ hook' = [NoHook EXCEPT !.at = "replace", !.sql = s, !.text = sql_repository[s].text]
  /\ UNCHANGED <<sql_repository, edgeTables, closureTables, pc, jobs, found, run, ghost>>

(* Mutant: the statement's old edges stay beside the new ones. *)
ReplaceEdgesUndeleted ==
  /\ hook.at = "replace"
  /\ lineage_edge' = lineage_edge \cup SqlEdges(hook.sql, Parsed(hook.text).reads)
  /\ sql_repository' =
       [sql_repository EXCEPT ![hook.sql].status = Parsed(hook.text).status]
  /\ hook' = [hook EXCEPT !.at = "fold"]
  /\ ghost' = [Touch EXCEPT
       !.overtaken = IF \E r \in Rebuilds : HasReadTexts(r) THEN @ \cup {hook.sql}
                     ELSE @ \ {hook.sql},
       !.hooked = IF hook.text = sql_repository[hook.sql].text THEN @ \cup {hook.sql}
                  ELSE @ \ {hook.sql}]
  /\ UNCHANGED <<lineage_edge_shadow, lineage_edge_prev, closureTables, pc, jobs, found,
                 run, left>>

(* replace_edges_for_sql: delete the statement's parsed edges, insert the  *)
(* new ones, set parse_status; one transaction.                            *)
ReplaceEdges ==
  /\ hook.at = "replace"
  /\ lineage_edge' = { e \in lineage_edge : ~(e.sql = hook.sql /\ e.type = "sql") }
                       \cup SqlEdges(hook.sql, Parsed(hook.text).reads)
  /\ sql_repository' =
       [sql_repository EXCEPT ![hook.sql].status = Parsed(hook.text).status]
  /\ hook' = [hook EXCEPT !.at = "fold"]
  /\ ghost' = [Touch EXCEPT
       !.overtaken = IF \E r \in Rebuilds : HasReadTexts(r) THEN @ \cup {hook.sql}
                     ELSE @ \ {hook.sql},
       !.hooked = IF hook.text = sql_repository[hook.sql].text THEN @ \cup {hook.sql}
                  ELSE @ \ {hook.sql}]
  /\ UNCHANGED <<lineage_edge_shadow, lineage_edge_prev, closureTables, pc, jobs, found,
                 run, left>>

(* fold_for_task: the scope of the fold is the active statements of the    *)
(* task; when there are none the WHERE clause falls away, and with it the  *)
(* limit to any statement.                                                 *)
TaskSqls(s) ==
  LET own == { t \in Active : Task[t] = Task[s] }
  IN  IF Task[s] = NoTask THEN {} ELSE IF own = {} THEN AnySql ELSE own

FoldTask ==
  /\ hook.at = "fold"
  /\ lineage_edge' = FoldTmpEdges(lineage_edge, TaskSqls(hook.sql), FALSE)
  /\ hook' = [hook EXCEPT !.at = "region"]
  /\ ghost' = Touch
  /\ UNCHANGED <<sql_repository, lineage_edge_shadow, lineage_edge_prev, closureTables,
                 pc, jobs, found, run, left>>

(* incremental_patch reads its region and recomputes it, on one snapshot.  *)
Upstream(t) == { p[1] : p \in { x \in table_closure : x[2] = t } } \cup {t}
Downstream(t) == { p[2] : p \in { x \in table_closure : x[1] = t } } \cup {t}
Oversized(t) == Cardinality(Upstream(t)) * Cardinality(Downstream(t)) > Threshold

ReadRegion ==
  LET t == Writes[hook.sql] IN
  /\ hook.at = "region"
  /\ \/ /\ Oversized(t)
        /\ hook' = NoHook
     \/ /\ ~Oversized(t)
        /\ hook' = [hook EXCEPT !.at = "patch", !.anc = Upstream(t), !.desc = Downstream(t),
                     !.pairs = ClosureOf(lineage_edge) \cap (Upstream(t) \X Downstream(t))]
  /\ UNCHANGED <<sql_repository, edgeTables, closureTables, pc, jobs, found, run, ghost,
                 left>>

PatchClosure ==
  /\ hook.at = "patch"
  /\ table_closure' = (table_closure \ (hook.anc \X hook.desc)) \cup hook.pairs
  /\ hook' = NoHook
  /\ ghost' = Touch
  /\ UNCHANGED <<sql_repository, edgeTables, table_closure_shadow, table_closure_prev,
                 pc, jobs, found, run, left>>

(* The hook dies, or meets a database error outside replace_edges_for_sql, *)
(* which rolls back: record_run commits the synthetic edges of the fold,   *)
(* the deletes and the inserts of the patch executed so far.               *)
BreakHook ==
  /\ hook.at # "idle"
  /\ Spend("faults")
  /\ \/ /\ \E A \in SUBSET hook.anc, R \in SUBSET hook.pairs :
               /\ R # {} => A = hook.anc
               /\ table_closure' = (table_closure \ (A \X hook.desc)) \cup R
        /\ UNCHANGED lineage_edge
     \/ /\ hook.at = "fold"
        /\ lineage_edge' = InsertSynthetic(lineage_edge, TaskSqls(hook.sql))
        /\ UNCHANGED table_closure
  /\ hook' = NoHook
  /\ ghost' = Touch
  /\ UNCHANGED <<sql_repository, lineage_edge_shadow, lineage_edge_prev,
                 table_closure_shadow, table_closure_prev, pc, jobs, found, run>>

HookStep == ReplaceEdges \/ FoldTask \/ ReadRegion \/ PatchClosure

(* manual_lineage: the drawn edges of the target are replaced; the row of  *)
(* the statement it repairs becomes 'manual'.  One transaction.            *)
DrawnBy(w) == { [src |-> t, dst |-> w.dst, sql |-> w.sql, type |-> "manual"] : t \in w.srcs }
DrawnTo(edges, t) == { e \in edges : e.type = "manual" /\ e.dst = t }

ManualLineage(w) ==
  /\ w \in Drawings
  /\ Spend("changes")
  /\ lineage_edge' = (lineage_edge \ DrawnTo(lineage_edge, w.dst)) \cup DrawnBy(w)
  /\ sql_repository' = IF w.sql = NoSql THEN sql_repository
                       ELSE [sql_repository EXCEPT ![w.sql].status = "manual"]
  /\ ghost' = [Touch EXCEPT
       !.drawn = (@ \ DrawnTo(@, w.dst)) \cup DrawnBy(w),
       !.redrawn = IF \E r \in Rebuilds : HasCopied(r) THEN @ \cup {w.dst} ELSE @ \ {w.dst}]
  /\ UNCHANGED <<lineage_edge_shadow, lineage_edge_prev, closureTables, pc, jobs, found,
                 run, hook>>

-----------------------------------------------------------------------------
Next ==
  \/ \E r \in Rebuilds : StartFull(r) \/ FullStep(r) \/ ErrorInFull(r) \/ CrashFull(r)
  \/ \E s \in Sqls : StartHook(s) \/ \E v \in Versions[s] : UpsertSql(s, v)
  \/ HookStep
  \/ BreakHook
  \/ \E w \in Drawings : ManualLineage(w)

(* cron starts the rebuild every night; a process that has started runs on *)
(* until it ends, fails or dies.                                           *)
Fairness ==
  /\ WF_vars(StartFull(Cron))
  /\ \A r \in Rebuilds : WF_vars(FullStep(r))
  /\ WF_vars(HookStep)

Spec == Init /\ [][Next]_vars
FairSpec == Spec /\ Fairness

-----------------------------------------------------------------------------
(* The graph rebuild r publishes when nobody writes meanwhile: the drawn   *)
(* edges and those of the texts as r parsed them, a text whose parse timed *)
(* out having none.                                                        *)
Parsing(r) == { e \in ghost.edges : e.type # "sql" } \cup Loaded(r, Active)
NewBuild(r) == FoldTmpEdges(Parsing(r), AnySql, TRUE)

(* r is the last rebuild that started, none ran beside it and nobody else  *)
(* wrote since.                                                            *)
Alone(r) == ghost.by = r /\ ~ghost.touched

(* What the code does, whatever befalls a rebuild that nobody writes       *)
(* beside - an abort at either check, a database error, a crash: readers   *)
(* are left with the graph and the closure they had, with the new graph    *)
(* and the old closure, or with both new; never with anything partial and  *)
(* never with the new closure alone.  A run recorded as aborted changed    *)
(* nothing when the count of the edges was out of bounds, and the graph    *)
(* but not the closure when the count of the closure was; that the second  *)
(* of these should not be is AbortKeepsOldService.                         *)
PublishedInOrder ==
  \A r \in Rebuilds : Alone(r) =>
    /\ lineage_edge \in {ghost.edges, NewBuild(r)}
    /\ table_closure # ghost.closure => /\ lineage_edge = NewBuild(r)
                                        /\ table_closure = ClosureOf(lineage_edge)
    /\ run[r] = "aborted" =>
         /\ table_closure = ghost.closure
         /\ \/ /\ lineage_edge = ghost.edges
               /\ Exceeds(Cardinality(ghost.edges), Cardinality(NewBuild(r)), EdgeDelta)
            \/ /\ lineage_edge = NewBuild(r)
               /\ Exceeds(Cardinality(ghost.closure), Cardinality(ClosureOf(lineage_edge)),
                          ClosureDelta)

(* rebuild.py:4, "a failed check aborts and the old lineage keeps serving":*)
(* an aborted run leaves the graph and the closure readers had.  The code  *)
(* has renamed the edges by the time it checks the closure.                *)
AbortKeepsOldService ==
  \A r \in Rebuilds : Alone(r) /\ run[r] = "aborted" =>
    lineage_edge = ghost.edges /\ table_closure = ghost.closure

(* What the code does: a run recorded as a success published the drawn     *)
(* edges and the edges of every active text it parsed in time, the closure *)
(* of exactly these, and the status of every parse.  A text whose parse    *)
(* timed out is published as 'degraded' and with no edge at all, although  *)
(* rebuild.py:42 names the result "degraded to table level"; only a text   *)
(* that may pass the timeout is.                                           *)
SuccessPublishesBoth ==
  \A r \in Rebuilds : Alone(r) /\ run[r] = "success" =>
    /\ lineage_edge = NewBuild(r)
    /\ table_closure = ClosureOf(lineage_edge)
    /\ \A s \in Active :
         /\ \/ jobs[r][s] = Parsed(sql_repository[s].text)
            \/ sql_repository[s].text \in SlowTexts /\ jobs[r][s] = TimedOut
         /\ sql_repository[s].status = jobs[r][s].status

(* Lineage drawn by hand while no rebuild stands between its copy and its  *)
(* rename stays exactly as drawn, whatever runs, fails or crashes later.   *)
DrawnLineageStays ==
  \A t \in Tables \ ghost.redrawn : DrawnTo(lineage_edge, t) = DrawnTo(ghost.drawn, t)

OwnReads(s) == { e.src : e \in { x \in lineage_edge : x.sql = s /\ x.type = "sql" } }
ShowsText(s) == OwnReads(s) = Reads[sql_repository[s].text]

(* The edges an incremental run wrote for the current text of an active    *)
(* statement stay, unless a rebuild had read the texts before and renames  *)
(* after, or its own parse of the text times out.                          *)
HookedLineageStays ==
  \A s \in (ghost.hooked \cap Active) \ ghost.overtaken : ShowsText(s)

SameBetweenLasting(E, F) ==
  \A x, y \in Tables \ TmpTables :
    Reaches(Tables, PairsOf(E), x, y) <=> Reaches(Tables, PairsOf(F), x, y)

(* A rebuild that succeeds leaves no edge at a tmp table, and folding them *)
(* away changes nothing about which other tables reach which.              *)
RebuildHidesOnlyTmp ==
  \A r \in Rebuilds : Alone(r) /\ run[r] = "success" =>
    /\ \A e \in lineage_edge : ~AtTmp(e)
    /\ SameBetweenLasting(Parsing(r), lineage_edge)

(* The lineage is that of the current texts and what was drawn, folded,    *)
(* and the closure is its own.                                             *)
OfTexts == UNION { SqlEdges(s, Reads[sql_repository[s].text]) : s \in Active }
Converged ==
  /\ lineage_edge = FoldTmpEdges({ e \in lineage_edge : e.type # "sql" } \cup OfTexts,
                                 AnySql, TRUE)
  /\ table_closure = ClosureOf(lineage_edge)

(* What only a person can mend: a change beyond the limits, which every    *)
(* night aborts on again, and a text that times out in every run.          *)
GaveUp == run[Cron] = "aborted" \/ \E s \in Active : jobs[Cron][s] = TimedOut

(* Once nobody changes anything any more, the nightly rebuild brings the   *)
(* lineage and the closure in line with the texts, for good - unless it    *)
(* aborts or a parse times out again and again.                            *)
NightlyConverges == <>[]~GaveUp => <>[]Converged

Drawable == UNION { DrawnBy(w) : w \in Drawings }
TextEdges == [s \in Sqls |-> { SqlEdges(s, Reads[v]) : v \in Versions[s] }
                              \cup { {} : v \in SlowTexts \cap Versions[s] }]
Preparing == pc[Cron] \in {"createClosure", "loadClosure", "checkClosure",
                           "dropClosurePrev", "renameClosure"}

Store == INSTANCE LineageStore WITH
  Results <- TextEdges, ManualEdges <- Drawable, NoDraft <- NoTable,
  served <- lineage_edge, links <- table_closure,
  draft <- IF Preparing THEN found[Cron] ELSE NoTable

(* Readers are served whole graphs: the pipeline implements LineageStore.  *)
ServesWholeGraphs == Store!StoreSpec
=============================================================================
