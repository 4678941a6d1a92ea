------------------------------ MODULE Gateway -------------------------------
(***************************************************************************)
(* query-gateway: the handlers query_metric and query_adhoc, each run by a *)
(* thread of its own, the executor with its semaphore and its connection   *)
(* pool, and the audit rows written through the pool of the platform       *)
(* database, from which ad hoc queries also read.                          *)
(***************************************************************************)
EXTENDS PlanCompiler

CONSTANTS
  MetricRequests, AdhocRequests,
  Plans, Contexts,        \* what /query/metric may be asked, and by whom
  TableLists, Statements, \* the tables of /query/adhoc, what the LLM may write
  PlatformPool,           \* maxconnections of audit._pool
  MaxConcurrency,         \* of executor._semaphore and executor._pool
  Faults                  \* bound: how many calls of a database or the LLM fail

ASSUME GatewayAssumption ==
  /\ MetricRequests \cap AdhocRequests = {}
  /\ PlatformPool \in Nat \ {0} /\ MaxConcurrency \in Nat \ {0} /\ Faults \in Nat

VARIABLES
  step,         \* where the thread of each request is
  work,         \* the compiled plan or the statement it works on
  platform,     \* the requests that hold a connection of audit._pool
  slots,        \* those that hold executor._semaphore
  warehouse,    \* those that hold a connection of executor._pool
  query_audit,  \* rows of query_audit
  reply,        \* what each caller got
  faults        \* calls that have failed

vars == <<step, work, platform, slots, warehouse, query_audit, reply, faults>>
pools == <<platform, slots, warehouse>>

Requests == MetricRequests \cup AdhocRequests
Replies == {"none", "data", "unknown_metric", "plan_error", "permission_denied",
            "rejected", "error500"}

TypeOK ==
  /\ step \in [Requests -> {"idle", "connected", "queued", "granted", "running",
                            "returned", "executed", "refused", "failed", "done"}]
  /\ DOMAIN work = Requests
  /\ platform \subseteq AdhocRequests /\ Cardinality(platform) <= PlatformPool
  /\ slots \subseteq Requests /\ Cardinality(slots) <= MaxConcurrency
  /\ warehouse \subseteq Requests /\ Cardinality(warehouse) <= MaxConcurrency
  /\ \A row \in query_audit : row.id \in Requests /\ row.status \in {"ok", "refused"}
  /\ reply \in [Requests -> Replies] /\ faults \in 0..Faults

Init ==
  /\ step = [r \in Requests |-> "idle"] /\ work = [r \in Requests |-> <<>>]
  /\ platform = {} /\ slots = {} /\ warehouse = {}
  /\ query_audit = {} /\ reply = [r \in Requests |-> "none"] /\ faults = 0

Goto(r, s) == step' = [step EXCEPT ![r] = s]
Fault == faults < Faults /\ faults' = faults + 1
Answer(r, a) == Goto(r, "done") /\ reply' = [reply EXCEPT ![r] = a]

-----------------------------------------------------------------------------
(* query_metric until executor.execute asks for a slot. *)

UnknownMetric(r) ==
  /\ step[r] = "idle"
  /\ Answer(r, "unknown_metric")
  /\ UNCHANGED <<work, pools, query_audit, faults>>

CompilePlan(r) ==
  /\ step[r] = "idle"
  /\ \E plan \in Plans, ctx \in Contexts :
       LET compiled == Compile(plan, ctx) IN
       /\ work' = [work EXCEPT ![r] = [compiled |-> compiled, ctx |-> ctx]]
       /\ Goto(r, IF compiled.error = "none" THEN "queued" ELSE "refused")
  /\ UNCHANGED <<pools, query_audit, reply, faults>>

(* query_adhoc: the platform connection is an argument of run_adhoc, so it *)
(* is taken first and kept until run_adhoc's frame is gone.                *)

ConnectPlatform(r) ==
  /\ step[r] = "idle"
  /\ Cardinality(platform) < PlatformPool
  /\ platform' = platform \cup {r}
  /\ \E tables \in TableLists : work' = [work EXCEPT ![r] = [tables |-> tables]]
  /\ Goto(r, "connected")
  /\ UNCHANGED <<slots, warehouse, query_audit, reply, faults>>

RejectTables(r) ==
  /\ step[r] = "connected" /\ ~TablesAllowed(work[r].tables)
  /\ Goto(r, "refused")
  /\ UNCHANGED <<work, pools, query_audit, reply, faults>>

GenerateSql(r) ==
  /\ step[r] = "connected" /\ TablesAllowed(work[r].tables)
  /\ \E stmt \in Statements :
       LET error == AdhocError(stmt, work[r].tables) IN
       /\ work' = IF error = "none"
                   THEN [work EXCEPT ![r] = [tables |-> @.tables, stmt |-> Limited(stmt)]]
                   ELSE work
       /\ Goto(r, CASE error = "none" -> "queued"
                    [] error = "parse_error" -> "failed"
                    [] OTHER -> "refused")
  /\ UNCHANGED <<pools, query_audit, reply, faults>>

LlmFails(r) ==
  /\ step[r] = "connected" /\ TablesAllowed(work[r].tables)
  /\ Fault
  /\ Goto(r, "failed")
  /\ UNCHANGED <<work, pools, query_audit, reply>>

-----------------------------------------------------------------------------
(* executor.execute *)

(* Mutant: nobody waits. *)
AcquireSlotAlways(r) ==
  /\ step[r] = "queued"
  /\ slots' = slots \cup {r}
  /\ Goto(r, "granted")
  /\ UNCHANGED <<work, platform, warehouse, query_audit, reply, faults>>

AcquireSlot(r) ==
  /\ step[r] = "queued" /\ Cardinality(slots) < MaxConcurrency
  /\ slots' = slots \cup {r}
  /\ Goto(r, "granted")
  /\ UNCHANGED <<work, platform, warehouse, query_audit, reply, faults>>

ConnectWarehouse(r) ==
  /\ step[r] = "granted" /\ Cardinality(warehouse) < MaxConcurrency
  /\ warehouse' = warehouse \cup {r}
  /\ Goto(r, "running")
  /\ UNCHANGED <<work, platform, slots, query_audit, reply, faults>>

(* EXPLAIN refuses a column of an alias that the statement does not join.  *)
Unjoined(r) ==
  /\ r \in MetricRequests
  /\ LET sql == work[r].compiled.sql
     IN  \E d \in sql.columns : JoinOf[d] \notin sql.joins

(* Mutant: the semaphore is given back only when the query succeeds. *)
QueryFailsKeepingSlot(r) ==
  /\ step[r] = "running"
  /\ (Unjoined(r) /\ UNCHANGED faults) \/ Fault
  /\ Goto(r, "failed")
  /\ UNCHANGED <<work, pools, query_audit, reply>>

(* The connection goes back when the frame is gone, after the semaphore.   *)
QueryFails(r) ==
  /\ step[r] = "running"
  /\ (Unjoined(r) /\ UNCHANGED faults) \/ Fault
  /\ slots' = slots \ {r}
  /\ Goto(r, "failed")
  /\ UNCHANGED <<work, platform, warehouse, query_audit, reply>>

QueryRuns(r) ==
  /\ step[r] = "running" /\ ~Unjoined(r)
  /\ slots' = slots \ {r}
  /\ Goto(r, "returned")
  /\ UNCHANGED <<work, platform, warehouse, query_audit, reply, faults>>

Return(r) ==
  /\ step[r] = "returned"
  /\ warehouse' = warehouse \ {r} /\ platform' = platform \ {r}
  /\ Goto(r, "executed")
  /\ UNCHANGED <<work, slots, query_audit, reply, faults>>

-----------------------------------------------------------------------------
(* audit.record takes a connection, inserts a row and gives it back.  The  *)
(* exception that refuses an ad hoc query still holds run_adhoc's frame,   *)
(* with the connection in it, while the refusal is recorded.               *)
(* query_adhoc does not pass is_customer_query: its default is FALSE.      *)

Row(r, status) ==
  [id |-> r, status |-> status,
   customer |-> r \in MetricRequests /\ work[r].compiled.customer]

RefusalOf(r) == IF r \in MetricRequests THEN work[r].compiled.error ELSE "rejected"

Record(r) ==
  /\ step[r] \in {"executed", "refused"} /\ Cardinality(platform) < PlatformPool
  /\ platform' = platform \ {r}
  /\ query_audit' = query_audit \cup
       {Row(r, IF step[r] = "executed" THEN "ok" ELSE "refused")}
  /\ Answer(r, IF step[r] = "executed" THEN "data" ELSE RefusalOf(r))
  /\ UNCHANGED <<work, slots, warehouse, faults>>

RecordFails(r) ==
  /\ step[r] \in {"executed", "refused"} /\ Cardinality(platform) < PlatformPool
  /\ Fault
  /\ Goto(r, "failed")
  /\ UNCHANGED <<work, pools, query_audit, reply>>

(* An exception no handler catches: 500, and every frame is gone. *)
Fail(r) ==
  /\ step[r] = "failed"
  /\ platform' = platform \ {r} /\ warehouse' = warehouse \ {r}
  /\ Answer(r, "error500")
  /\ UNCHANGED <<work, slots, query_audit, faults>>

Finish(r) == \/ AcquireSlot(r) \/ ConnectWarehouse(r) \/ QueryFails(r)
             \/ QueryRuns(r) \/ Return(r) \/ Record(r) \/ RecordFails(r) \/ Fail(r)

Thread(r) == Finish(r) \/ RejectTables(r) \/ GenerateSql(r) \/ LlmFails(r)

Next == \/ \E r \in MetricRequests : UnknownMetric(r) \/ CompilePlan(r) \/ Finish(r)
        \/ \E r \in AdhocRequests : ConnectPlatform(r) \/ Thread(r)

(* Some thread runs on as long as one can; the LLM answers or times out    *)
(* (60 s), and so do queries.                                              *)
Fairness == WF_vars(\/ \E r \in MetricRequests : Finish(r)
                    \/ \E r \in AdhocRequests : Thread(r))

Spec == Init /\ [][Next]_vars /\ Fairness

-----------------------------------------------------------------------------
RowsOf(r) == { row \in query_audit : row.id = r }
InWarehouse(r) == step[r] \in {"running", "returned", "executed"}

MetricWithinPolicy(sql, ctx) ==
  /\ sql.columns \cap L4 = {}
  /\ sql.columns \cap L3 \subseteq ctx.whitelist
  /\ sql.outputs \cap L3 \subseteq sql.masked
  /\ sql.policy = PolicyVars /\ PolicyVars \subseteq ctx.vars
  /\ sql.limit \in 1..HardLimit

AdhocWithinScope(stmt, tables) ==
  /\ stmt.select /\ ~stmt.locks /\ ~stmt.into
  /\ stmt.tables \cup stmt.unqualified \subseteq tables
  /\ { Lower[t] : t \in stmt.tables } \cap { Lower[b] : b \in Blacklist } = {}
  /\ stmt.limit > 0

(* What runs in the warehouse for a metric query shows no L4 field in any  *)
(* clause, an L3 field only to users who may see it and masked when it is  *)
(* put out, is restricted by the whole row policy and is within the hard   *)
(* limit (compile_plan); what runs for an ad hoc question, whatever the    *)
(* LLM wrote, reads only tables the caller named, none blacklisted under   *)
(* another case, takes no lock, writes nothing and has a limit (run_adhoc  *)
(* and validate_select_only together).                                     *)
QueriesWithinPolicy ==
  /\ \A r \in MetricRequests :
       InWarehouse(r) => MetricWithinPolicy(work[r].compiled.sql, work[r].ctx)
  /\ \A r \in AdhocRequests :
       InWarehouse(r) => AdhocWithinScope(work[r].stmt, work[r].tables)

(* Whether what r ran puts out or selects by customers.                    *)
ShowsCustomers(r) ==
  LET fields == IF r \in MetricRequests
                THEN work[r].compiled.sql.outputs \cup work[r].compiled.sql.filtered
                ELSE work[r].stmt.columns
  IN  CustomerDims \cap fields # {}

(* Nobody holds data, or a refusal by a check, that left no trace: the row *)
(* is there before the answer, just one, and says how the request ended    *)
(* (query_metric, query_adhoc).  The row of a metric query is marked when  *)
(* customers were put out or selected by, and only then.  Two promises of  *)
(* the repository are not kept, and this says what happens instead: a row  *)
(* of an ad hoc query has no mark, also when its statement shows customers *)
(* (sql/05_audit.sql:17 marks every such query), and a refusal with        *)
(* unknown_metric leaves no row (audit.py:1 has one for every refusal).    *)
AnswersAreAudited ==
  \A r \in Requests :
    /\ reply[r] = "data" =>
         RowsOf(r) = {[id |-> r, status |-> "ok",
                       customer |-> r \in MetricRequests /\ ShowsCustomers(r)]}
    /\ reply[r] \in {"plan_error", "permission_denied", "rejected"} =>
         { row.status : row \in RowsOf(r) } = {"refused"}
    /\ reply[r] = "unknown_metric" => RowsOf(r) = {}

(* Every request ends, also after errors of the databases and the LLM, as  *)
(* long as fewer ad hoc queries run at once than the platform pool has     *)
(* connections.                                                            *)
EveryRequestEnds == []<>(\A r \in Requests : step[r] \in {"idle", "done"})

(* audit.py, line 1: every request leaves a trace, a refused one too.      *)
RefusalLeavesTrace == \A r \in Requests : step[r] = "refused" ~> RowsOf(r) # {}
=============================================================================
