--------------------------- MODULE GatewayProofs ---------------------------
(***************************************************************************)
(* Whatever is asked of query-gateway, by whom, and whatever the LLM       *)
(* writes: what runs in the warehouse is within the policy.                *)
(***************************************************************************)
EXTENDS Gateway, TLAPS, FiniteSetTheorems

(* What pydantic, json and sqlglot make of a plan and of a statement: only *)
(* the types matter here.  A negative limit is a syntax error in MySQL.    *)
PlansTyped == \A plan \in Plans : plan.limit \in Nat

StatementsTyped ==
  Statements \subseteq
    [parses : BOOLEAN, select : BOOLEAN, unqualified : SUBSET (DOMAIN Lower),
     tables : SUBSET (DOMAIN Lower), columns : SUBSET Dims, locks : BOOLEAN, into : BOOLEAN, limit : Nat]

(* The thread is past every check. *)
Cleared == {"queued", "granted", "running", "returned", "executed"}

IInv ==
  /\ DOMAIN step = Requests /\ DOMAIN work = Requests
  /\ \A r \in MetricRequests :
       step[r] \in Cleared => MetricWithinPolicy(work[r].compiled.sql, work[r].ctx)
  /\ \A r \in AdhocRequests :
       step[r] \in Cleared => AdhocWithinScope(work[r].stmt, work[r].tables)

(* The error of a refused plan is one of those that compile_plan raises.   *)
TypeInv ==
  /\ TypeOK
  /\ IsFiniteSet(platform) /\ IsFiniteSet(slots) /\ IsFiniteSet(warehouse)
  /\ \A r \in MetricRequests :
       step[r] = "refused" => work[r].compiled.error \in {"plan_error", "permission_denied"}

(* The row of an answer with data, and the answers that refuse.            *)
DataRow(r) == [id |-> r, status |-> "ok", customer |-> r \in MetricRequests /\ ShowsCustomers(r)]
RefusedReplies == {"plan_error", "permission_denied", "rejected"}

(* Until a request is done it has left no row and got no answer; the mark  *)
(* of a metric query is right; and its answer has the row that it gets.    *)
Traced(r) ==
  /\ step[r] # "done" => RowsOf(r) = {} /\ reply[r] = "none"
  /\ (r \in MetricRequests /\ step[r] \in Cleared) =>
       (work[r].compiled.customer <=> ShowsCustomers(r))
  /\ reply[r] = "data" => RowsOf(r) = {DataRow(r)}
  /\ reply[r] \in RefusedReplies => { row.status : row \in RowsOf(r) } = {"refused"}
  /\ reply[r] = "unknown_metric" => RowsOf(r) = {}

AuditInv == \A r \in Requests : Traced(r)

-----------------------------------------------------------------------------
(* A set of at most seven numbers, as many as there are checks, has a least. *)
LEMMA LeastOfSeven ==
  ASSUME NEW S \in SUBSET (1..7), S # {}
  PROVE  Min(S) \in S
<1>1. \E x \in S : \A y \in S : x <= y
  <2>1. CASE 1 \in S BY <2>1
  <2>2. CASE 2 \in S /\ 1 \notin S BY <2>2
  <2>3. CASE 3 \in S /\ 1 \notin S /\ 2 \notin S BY <2>3
  <2>4. CASE 4 \in S /\ \A y \in S : y >= 4 BY <2>4
  <2>5. CASE 5 \in S /\ \A y \in S : y >= 5 BY <2>5
  <2>6. CASE 6 \in S /\ \A y \in S : y >= 6 BY <2>6
  <2>7. CASE \A y \in S : y = 7
    <3>1. PICK x \in S : TRUE
      OBVIOUS
    <3> QED BY <2>7, <3>1
  <2> QED BY <2>1, <2>2, <2>3, <2>4, <2>5, <2>6, <2>7
<1> QED BY <1>1 DEF Min

(* No error means that every check held (the order of raise statements).   *)
LEMMA NoErrorNoFailure ==
  ASSUME NEW checks, DOMAIN checks \subseteq 1..7,
         \A i \in DOMAIN checks : checks[i][2] # "none",
         FirstError(checks) = "none"
  PROVE  \A i \in DOMAIN checks : checks[i][1]
<1> DEFINE failed == { i \in DOMAIN checks : ~checks[i][1] }
<1>1. failed = {}
  <2>1. SUFFICES ASSUME failed # {} PROVE FALSE
    OBVIOUS
  <2>2. Min(failed) \in failed
    BY <2>1, LeastOfSeven
  <2>3. FirstError(checks) = checks[Min(failed)][2]
    BY <2>1 DEF FirstError
  <2> QED BY <2>2, <2>3
<1> QED BY <1>1

(* LIMIT is at least one row and at most the hard limit (compile_plan).    *)
LEMMA LimitWithin ==
  ASSUME NEW plan, plan.limit \in Nat
  PROVE  Limit(plan) \in 1..HardLimit
<1>1. HardLimit \in Nat \ {0}
  BY CompilerAssumption
<1>2. CASE plan.limit = 0
  BY <1>1, <1>2 DEF Limit
<1>3. CASE plan.limit # 0
  <2>1. \E x \in {plan.limit, HardLimit} : \A y \in {plan.limit, HardLimit} : x <= y
    BY <1>1
  <2>2. Min({plan.limit, HardLimit}) \in {plan.limit, HardLimit}
        /\ \A y \in {plan.limit, HardLimit} : Min({plan.limit, HardLimit}) <= y
    BY <2>1 DEF Min
  <2> QED BY <1>1, <1>3, <2>2 DEF Limit
<1> QED BY <1>2, <1>3

(* A compiled plan reads no field its user may not see, in any clause, is  *)
(* masked, restricted by the row policy and limited (compile_plan).        *)
LEMMA CompiledWithinPolicy ==
  ASSUME NEW plan, plan.limit \in Nat, NEW ctx, Compile(plan, ctx).error = "none"
  PROVE  MetricWithinPolicy(Compile(plan, ctx).sql, ctx)
<1> DEFINE checks == PlanChecks(plan, ctx)
           sql == Sql(plan, ctx)
<1>1. FirstError(checks) = "none"
  BY DEF Compile
<1>2. Compile(plan, ctx).sql = sql
  BY <1>1 DEF Compile
<1>3. DOMAIN checks = 1..7
  BY DEF PlanChecks
<1>4. \A i \in DOMAIN checks : checks[i][2] # "none"
  BY DEF PlanChecks
<1>5. \A i \in 1..7 : checks[i][1]
  BY <1>1, <1>3, <1>4, NoErrorNoFailure
<1>6. \A d \in Referenced(plan) : ~Denied(d, ctx)
  <2>1. checks[2][1] => \A d \in Referenced(plan) : ~Denied(d, ctx)
    BY DEF PlanChecks
  <2> QED BY <1>5, <2>1
<1>7. PolicyVars \subseteq ctx.vars
  <2>1. checks[5][1] => PolicyVars \subseteq ctx.vars
    BY DEF PlanChecks
  <2> QED BY <1>5, <2>1
<1>8. sql.columns \cap Dims \subseteq Referenced(plan)
  BY DEF Sql, Referenced
<1>9. sql.columns \cap L4 = {} /\ sql.columns \cap L3 \subseteq ctx.whitelist
  BY <1>6, <1>8, CompilerAssumption DEF Denied
<1>10. sql.outputs \cap L3 \subseteq sql.masked
  BY DEF Sql
<1>11. sql.policy = PolicyVars
  BY <1>7 DEF Sql
<1>12. sql.limit \in 1..HardLimit
  BY LimitWithin DEF Sql
<1> QED BY <1>2, <1>7, <1>9, <1>10, <1>11, <1>12 DEF MetricWithinPolicy

(* A statement that passes the checks of run_adhoc and of                  *)
(* validate_select_only stays within the tables its caller named.          *)
LEMMA CheckedWithinScope ==
  ASSUME StatementsTyped, NEW stmt \in Statements, NEW tables,
         AdhocError(stmt, tables) = "none"
  PROVE  AdhocWithinScope(Limited(stmt), tables)
<1> DEFINE checks == << <<stmt.parses, "parse_error">>,
                        <<stmt.select, "rejected">>,
                        <<stmt.unqualified = {}, "rejected">>,
                        <<stmt.tables \subseteq tables, "rejected">>,
                        <<~stmt.locks /\ ~stmt.into, "rejected">>,
                        <<\A t \in stmt.tables : ~Blacklisted(t), "rejected">> >>
<1>1. FirstError(checks) = "none"
  BY DEF AdhocError
<1>2. DOMAIN checks = 1..6
  OBVIOUS
<1>3. \A i \in DOMAIN checks : checks[i][2] # "none"
  OBVIOUS
<1>4. \A i \in DOMAIN checks : checks[i][1]
  <2> HIDE DEF checks
  <2> QED BY <1>1, <1>2, <1>3, NoErrorNoFailure
<1>5. stmt.select /\ stmt.unqualified = {} /\ stmt.tables \subseteq tables
      /\ ~stmt.locks /\ ~stmt.into /\ \A t \in stmt.tables : ~Blacklisted(t)
  <2>1. \A i \in 1..6 : checks[i][1]
    BY <1>2, <1>4
  <2>2. checks[2][1] => stmt.select
    OBVIOUS
  <2>3. checks[3][1] => stmt.unqualified = {}
    OBVIOUS
  <2>4. checks[4][1] => stmt.tables \subseteq tables
    OBVIOUS
  <2>5. checks[5][1] => ~stmt.locks /\ ~stmt.into
    OBVIOUS
  <2>6. checks[6][1] => \A t \in stmt.tables : ~Blacklisted(t)
    OBVIOUS
  <2> HIDE DEF checks
  <2> QED BY <2>1, <2>2, <2>3, <2>4, <2>5, <2>6
<1>6. /\ Limited(stmt).select = stmt.select /\ Limited(stmt).locks = stmt.locks
      /\ Limited(stmt).into = stmt.into /\ Limited(stmt).tables = stmt.tables
      /\ Limited(stmt).unqualified = stmt.unqualified
      /\ Limited(stmt).limit > 0
  BY CompilerAssumption DEF Limited, StatementsTyped
<1> QED BY <1>5, <1>6 DEF AdhocWithinScope, Blacklisted

-----------------------------------------------------------------------------
(* A step that leaves the work alone and clears nobody who was not cleared. *)
LEMMA ClearsNobody ==
  ASSUME IInv, UNCHANGED work, NEW r \in Requests, NEW s,
         Goto(r, s), s \in Cleared => step[r] \in Cleared
  PROVE  IInv'
<1>1. \A q \in Requests : step'[q] \in Cleared => step[q] \in Cleared
  BY DEF IInv, Goto
<1> QED BY <1>1 DEF IInv, Goto, Requests

(* From the slot to the answer the work stays what was cleared (execute).  *)
LEMMA FinishKeeps ==
  ASSUME IInv, NEW r \in Requests, Finish(r)
  PROVE  IInv'
<1>1. CASE AcquireSlot(r)
  BY <1>1, ClearsNobody DEF AcquireSlot, Cleared
<1>2. CASE ConnectWarehouse(r)
  BY <1>2, ClearsNobody DEF ConnectWarehouse, Cleared
<1>3. CASE QueryFails(r)
  BY <1>3, ClearsNobody DEF QueryFails, Cleared
<1>4. CASE QueryRuns(r)
  BY <1>4, ClearsNobody DEF QueryRuns, Cleared
<1>5. CASE Return(r)
  BY <1>5, ClearsNobody DEF Return, Cleared
<1>6. CASE Record(r)
  BY <1>6, ClearsNobody DEF Record, Answer, Cleared
<1>7. CASE RecordFails(r)
  BY <1>7, ClearsNobody DEF RecordFails, Cleared, pools
<1>8. CASE Fail(r)
  BY <1>8, ClearsNobody DEF Fail, Answer, Cleared
<1> QED BY <1>1, <1>2, <1>3, <1>4, <1>5, <1>6, <1>7, <1>8 DEF Finish

(* Compiling a plan clears a request only with SQL within the policy.      *)
LEMMA MetricKeeps ==
  ASSUME PlansTyped, IInv, NEW r \in MetricRequests, UnknownMetric(r) \/ CompilePlan(r)
  PROVE  IInv'
<1>1. r \in Requests /\ r \notin AdhocRequests
  BY GatewayAssumption DEF Requests
<1>2. CASE UnknownMetric(r)
  BY <1>1, <1>2, ClearsNobody DEF UnknownMetric, Answer, Cleared
<1>3. CASE CompilePlan(r)
  <2>1. PICK plan \in Plans, ctx \in Contexts :
          /\ work' = [work EXCEPT ![r] = [compiled |-> Compile(plan, ctx), ctx |-> ctx]]
          /\ Goto(r, IF Compile(plan, ctx).error = "none" THEN "queued" ELSE "refused")
    BY <1>3 DEF CompilePlan
  <2>2. work'[r].compiled = Compile(plan, ctx) /\ work'[r].ctx = ctx
    BY <1>1, <2>1 DEF IInv
  <2>3. step'[r] \in Cleared => Compile(plan, ctx).error = "none"
    BY <1>1, <2>1 DEF IInv, Goto, Cleared
  <2>4. step'[r] \in Cleared => MetricWithinPolicy(work'[r].compiled.sql, work'[r].ctx)
    BY <2>2, <2>3, CompiledWithinPolicy DEF PlansTyped
  <2>5. \A q \in Requests \ {r} : step'[q] = step[q] /\ work'[q] = work[q]
    BY <2>1 DEF IInv, Goto
  <2>6. DOMAIN step' = Requests /\ DOMAIN work' = Requests
    BY <2>1 DEF IInv, Goto
  <2> QED BY <1>1, <2>4, <2>5, <2>6 DEF IInv, Requests
<1> QED BY <1>2, <1>3

(* An ad hoc question is cleared only after all checks of its statement.   *)
LEMMA AdhocKeeps ==
  ASSUME StatementsTyped, IInv, NEW r \in AdhocRequests,
         ConnectPlatform(r) \/ RejectTables(r) \/ GenerateSql(r) \/ LlmFails(r)
  PROVE  IInv'
<1>1. r \in Requests /\ r \notin MetricRequests
  BY GatewayAssumption DEF Requests
<1>2. CASE RejectTables(r)
  BY <1>1, <1>2, ClearsNobody DEF RejectTables, Cleared, pools
<1>3. CASE LlmFails(r)
  BY <1>1, <1>3, ClearsNobody DEF LlmFails, Cleared, pools
<1>4. CASE ConnectPlatform(r)
  <2>1. PICK tables \in TableLists : work' = [work EXCEPT ![r] = [tables |-> tables]]
    BY <1>4 DEF ConnectPlatform
  <2>2. step' = [step EXCEPT ![r] = "connected"]
    BY <1>4 DEF ConnectPlatform, Goto
  <2> QED BY <1>1, <2>1, <2>2 DEF IInv, Requests, Cleared
<1>5. CASE GenerateSql(r)
  <2> DEFINE tables == work[r].tables
  <2>1. PICK stmt \in Statements :
          /\ work' = IF AdhocError(stmt, tables) = "none"
                     THEN [work EXCEPT ![r] = [tables |-> tables, stmt |-> Limited(stmt)]]
                     ELSE work
          /\ Goto(r, CASE AdhocError(stmt, tables) = "none" -> "queued"
                       [] AdhocError(stmt, tables) = "parse_error" -> "failed"
                       [] OTHER -> "refused")
    BY <1>5 DEF GenerateSql
  <2>2. CASE AdhocError(stmt, tables) # "none"
    <3>1. UNCHANGED work /\ (Goto(r, "failed") \/ Goto(r, "refused"))
      BY <2>1, <2>2
    <3> QED BY <1>1, <3>1, ClearsNobody DEF Cleared
  <2>3. CASE AdhocError(stmt, tables) = "none"
    <3>1. work' = [work EXCEPT ![r] = [tables |-> tables, stmt |-> Limited(stmt)]]
      BY <2>1, <2>3
    <3>2. work'[r].stmt = Limited(stmt) /\ work'[r].tables = tables
      BY <1>1, <3>1 DEF IInv
    <3>3. AdhocWithinScope(work'[r].stmt, work'[r].tables)
      BY <2>3, <3>2, CheckedWithinScope
    <3>4. \A q \in Requests \ {r} : step'[q] = step[q] /\ work'[q] = work[q]
      BY <2>1, <3>1 DEF IInv, Goto
    <3>5. DOMAIN step' = Requests /\ DOMAIN work' = Requests
      BY <2>1, <3>1 DEF IInv, Goto
    <3> QED BY <1>1, <3>3, <3>4, <3>5 DEF IInv, Requests
  <2> QED BY <2>2, <2>3
<1> QED BY <1>2, <1>3, <1>4, <1>5

-----------------------------------------------------------------------------
(* For every metric, plan, user, question and statement of the LLM, any    *)
(* number of requests at once, any pools and any failures: what runs in    *)
(* the warehouse is within the policy (query_metric, query_adhoc).         *)
THEOREM PolicyHolds ==
  ASSUME PlansTyped, StatementsTyped
  PROVE  Spec => []QueriesWithinPolicy
<1>1. Init => IInv
  BY DEF Init, IInv, Cleared, Requests
<1>2. IInv /\ [Next]_vars => IInv'
  <2> SUFFICES ASSUME IInv, [Next]_vars PROVE IInv'
    OBVIOUS
  <2>1. CASE UNCHANGED vars
    BY <2>1 DEF vars, IInv
  <2>2. ASSUME NEW r \in MetricRequests, UnknownMetric(r) \/ CompilePlan(r)
        PROVE  IInv'
    BY <2>2, MetricKeeps
  <2>3. ASSUME NEW r \in AdhocRequests,
               ConnectPlatform(r) \/ RejectTables(r) \/ GenerateSql(r) \/ LlmFails(r)
        PROVE  IInv'
    BY <2>3, AdhocKeeps
  <2>4. ASSUME NEW r \in Requests, Finish(r)
        PROVE  IInv'
    BY <2>4, FinishKeeps
  <2> QED BY <2>1, <2>2, <2>3, <2>4 DEF Next, Thread, Requests
<1>3. IInv => QueriesWithinPolicy
  BY DEF IInv, QueriesWithinPolicy, InWarehouse, Cleared
<1> QED BY <1>1, <1>2, <1>3, PTL DEF Spec

-----------------------------------------------------------------------------
(* The first error is "none" or the error of one of the checks.            *)
LEMMA ErrorIsOfACheck ==
  ASSUME NEW checks, DOMAIN checks \subseteq 1..7
  PROVE  FirstError(checks) \in {"none"} \cup { checks[i][2] : i \in DOMAIN checks }
<1> DEFINE failed == { i \in DOMAIN checks : ~checks[i][1] }
<1>1. CASE failed = {}
  BY <1>1 DEF FirstError
<1>2. CASE failed # {}
  <2>1. Min(failed) \in failed
    BY <1>2, LeastOfSeven
  <2>2. FirstError(checks) = checks[Min(failed)][2]
    BY <1>2 DEF FirstError
  <2> QED BY <2>1, <2>2
<1> QED BY <1>1, <1>2

LEMMA PlanErrors ==
  ASSUME NEW plan, NEW ctx
  PROVE  Compile(plan, ctx).error \in {"none", "plan_error", "permission_denied"}
<1> DEFINE checks == PlanChecks(plan, ctx)
<1>1. DOMAIN checks = 1..7
  BY DEF PlanChecks
<1>2. \A i \in 1..7 : checks[i][2] \in {"plan_error", "permission_denied"}
  BY DEF PlanChecks
<1>3. FirstError(checks) \in {"none"} \cup { checks[i][2] : i \in DOMAIN checks }
  <2> HIDE DEF checks
  <2> QED BY <1>1, ErrorIsOfACheck
<1>4. Compile(plan, ctx).error = FirstError(checks)
  BY DEF Compile
<1> QED
  <2> HIDE DEF checks
  <2> QED BY <1>1, <1>2, <1>3, <1>4

(* A pool after a step: nobody enters, x leaves it or x enters it with room. *)
LEMMA PoolStep ==
  ASSUME NEW P, IsFiniteSet(P), NEW Q, NEW x, NEW n \in Nat, Cardinality(P) <= n,
         \/ Q \in {P, P \ {x}}
         \/ Cardinality(P) < n /\ Q = P \cup {x}
  PROVE  IsFiniteSet(Q) /\ Cardinality(Q) <= n
<1>1. Cardinality(P) \in Nat
  BY FS_CardinalityType
<1>2. CASE Q = P
  BY <1>2
<1>3. CASE Q = P \ {x}
  <2>1. IsFiniteSet(P \ {x}) /\ Cardinality(P \ {x}) \in {Cardinality(P), Cardinality(P) - 1}
    BY FS_RemoveElement
  <2> QED BY <1>1, <1>3, <2>1
<1>4. CASE Cardinality(P) < n /\ Q = P \cup {x}
  <2>1. IsFiniteSet(P \cup {x}) /\ Cardinality(P \cup {x}) \in {Cardinality(P), Cardinality(P) + 1}
    BY FS_AddElement
  <2> QED BY <1>1, <1>4, <2>1
<1> QED BY <1>2, <1>3, <1>4

(* The three pools after a step of r. *)
PoolsWithin ==
  /\ platform \subseteq AdhocRequests /\ Cardinality(platform) <= PlatformPool
  /\ slots \subseteq Requests /\ Cardinality(slots) <= MaxConcurrency
  /\ warehouse \subseteq Requests /\ Cardinality(warehouse) <= MaxConcurrency
  /\ IsFiniteSet(platform) /\ IsFiniteSet(slots) /\ IsFiniteSet(warehouse)

LEMMA PoolsKeep ==
  ASSUME TypeInv, NEW r \in Requests,
         \/ platform' \in {platform, platform \ {r}}
         \/ /\ Cardinality(platform) < PlatformPool /\ platform' = platform \cup {r}
            /\ r \in AdhocRequests,
         \/ slots' \in {slots, slots \ {r}}
         \/ Cardinality(slots) < MaxConcurrency /\ slots' = slots \cup {r},
         \/ warehouse' \in {warehouse, warehouse \ {r}}
         \/ Cardinality(warehouse) < MaxConcurrency /\ warehouse' = warehouse \cup {r}
  PROVE  PoolsWithin'
<1>1. PlatformPool \in Nat /\ MaxConcurrency \in Nat
  BY GatewayAssumption
<1>2. /\ IsFiniteSet(platform) /\ Cardinality(platform) <= PlatformPool
      /\ IsFiniteSet(slots) /\ Cardinality(slots) <= MaxConcurrency
      /\ IsFiniteSet(warehouse) /\ Cardinality(warehouse) <= MaxConcurrency
  BY DEF TypeInv, TypeOK
<1>3. IsFiniteSet(platform') /\ Cardinality(platform') <= PlatformPool
  BY <1>1, <1>2, PoolStep
<1>4. IsFiniteSet(slots') /\ Cardinality(slots') <= MaxConcurrency
  BY <1>1, <1>2, PoolStep
<1>5. IsFiniteSet(warehouse') /\ Cardinality(warehouse') <= MaxConcurrency
  BY <1>1, <1>2, PoolStep
<1>6. /\ platform' \subseteq AdhocRequests /\ slots' \subseteq Requests
      /\ warehouse' \subseteq Requests
  BY DEF TypeInv, TypeOK
<1> QED BY <1>3, <1>4, <1>5, <1>6 DEF PoolsWithin

(* A thread that moves on to s with its work as it was.                    *)
LEMMA MovesTyped ==
  ASSUME TypeInv, NEW r \in Requests, UNCHANGED work,
         NEW s \in {"connected", "queued", "granted", "running", "returned", "executed",
                    "refused", "failed", "done"},
         Goto(r, s), s = "refused" => r \notin MetricRequests,
         \E a \in Replies : reply' \in {reply, [reply EXCEPT ![r] = a]},
         faults' = faults \/ Fault,
         \A row \in query_audit' \ query_audit :
           row.id \in Requests /\ row.status \in {"ok", "refused"},
         PoolsWithin'
  PROVE  TypeInv'
<1>1. step' \in [Requests -> {"idle", "connected", "queued", "granted", "running",
                              "returned", "executed", "refused", "failed", "done"}]
  BY DEF TypeInv, TypeOK, Goto
<1>2. reply' \in [Requests -> Replies]
  BY DEF TypeInv, TypeOK
<1>3. faults' \in 0..Faults
  BY GatewayAssumption DEF TypeInv, TypeOK, Fault
<1>4. \A row \in query_audit' : row.id \in Requests /\ row.status \in {"ok", "refused"}
  BY DEF TypeInv, TypeOK
<1>5. \A q \in MetricRequests : step'[q] = "refused" => step[q] = "refused"
  BY DEF TypeInv, TypeOK, Goto, Requests
<1>6. \A q \in MetricRequests :
       step'[q] = "refused" => work'[q].compiled.error \in {"plan_error", "permission_denied"}
  BY <1>5 DEF TypeInv
<1> QED BY <1>1, <1>2, <1>3, <1>4, <1>6 DEF TypeInv, TypeOK, PoolsWithin

(* From the slot to the answer, each step in turn (execute, record).       *)
LEMMA FinishTyped ==
  ASSUME TypeInv, NEW r \in Requests, Finish(r)
  PROVE  TypeInv'
<1> USE DEF Replies
<1>1. CASE AcquireSlot(r)
  BY <1>1, PoolsKeep, MovesTyped DEF AcquireSlot
<1>2. CASE ConnectWarehouse(r)
  BY <1>2, PoolsKeep, MovesTyped DEF ConnectWarehouse
<1>3. CASE QueryFails(r)
  BY <1>3, PoolsKeep, MovesTyped DEF QueryFails
<1>4. CASE QueryRuns(r)
  BY <1>4, PoolsKeep, MovesTyped DEF QueryRuns
<1>5. CASE Return(r)
  BY <1>5, PoolsKeep, MovesTyped DEF Return
<1>6. CASE Record(r)
  <2> DEFINE status == IF step[r] = "executed" THEN "ok" ELSE "refused"
             a == IF step[r] = "executed" THEN "data" ELSE RefusalOf(r)
  <2>1. a \in Replies
    BY <1>6 DEF Record, RefusalOf, TypeInv
  <2>2. Row(r, status).id = r /\ Row(r, status).status \in {"ok", "refused"}
    BY DEF Row
  <2>3. \A row \in query_audit' \ query_audit :
         row.id \in Requests /\ row.status \in {"ok", "refused"}
    BY <1>6, <2>2 DEF Record
  <2>4. Goto(r, "done") /\ reply' = [reply EXCEPT ![r] = a]
    BY <1>6 DEF Record, Answer
  <2>5. PoolsWithin'
    BY <1>6, PoolsKeep DEF Record
  <2> QED BY <1>6, <2>1, <2>3, <2>4, <2>5, MovesTyped DEF Record
<1>7. CASE RecordFails(r)
  BY <1>7, PoolsKeep, MovesTyped DEF RecordFails, pools
<1>8. CASE Fail(r)
  BY <1>8, PoolsKeep, MovesTyped DEF Fail, Answer
<1> QED BY <1>1, <1>2, <1>3, <1>4, <1>5, <1>6, <1>7, <1>8 DEF Finish

LEMMA MetricTyped ==
  ASSUME TypeInv, NEW r \in MetricRequests, UnknownMetric(r) \/ CompilePlan(r)
  PROVE  TypeInv'
<1>1. r \in Requests
  BY DEF Requests
<1>2. CASE UnknownMetric(r)
  BY <1>1, <1>2, PoolsKeep, MovesTyped DEF UnknownMetric, Answer, pools, Replies
<1>3. CASE CompilePlan(r)
  <2>1. PICK plan \in Plans, ctx \in Contexts :
          /\ work' = [work EXCEPT ![r] = [compiled |-> Compile(plan, ctx), ctx |-> ctx]]
          /\ Goto(r, IF Compile(plan, ctx).error = "none" THEN "queued" ELSE "refused")
    BY <1>3 DEF CompilePlan
  <2>2. DOMAIN work' = Requests /\ work'[r].compiled = Compile(plan, ctx)
    BY <1>1, <2>1 DEF TypeInv, TypeOK
  <2>3. /\ step' \in [Requests -> {"idle", "connected", "queued", "granted", "running",
                                   "returned", "executed", "refused", "failed", "done"}]
        /\ step'[r] = "refused" => Compile(plan, ctx).error # "none"
    BY <1>1, <2>1 DEF TypeInv, TypeOK, Goto
  <2>4. step'[r] = "refused" => work'[r].compiled.error \in {"plan_error", "permission_denied"}
    BY <2>2, <2>3, PlanErrors
  <2>5. \A q \in MetricRequests \ {r} : step'[q] = step[q] /\ work'[q] = work[q]
    BY <1>1, <2>1 DEF TypeInv, TypeOK, Goto, Requests
  <2>6. \A q \in MetricRequests :
         step'[q] = "refused" => work'[q].compiled.error \in {"plan_error", "permission_denied"}
    BY <2>4, <2>5 DEF TypeInv
  <2> QED BY <1>3, <2>2, <2>3, <2>6 DEF TypeInv, TypeOK, CompilePlan, pools
<1> QED BY <1>2, <1>3

LEMMA AdhocTyped ==
  ASSUME TypeInv, NEW r \in AdhocRequests,
         ConnectPlatform(r) \/ RejectTables(r) \/ GenerateSql(r) \/ LlmFails(r)
  PROVE  TypeInv'
<1> USE DEF Replies
<1>1. r \in Requests /\ r \notin MetricRequests
  BY GatewayAssumption DEF Requests
<1>2. CASE RejectTables(r)
  BY <1>1, <1>2, PoolsKeep, MovesTyped DEF RejectTables, pools
<1>3. CASE LlmFails(r)
  BY <1>1, <1>3, PoolsKeep, MovesTyped DEF LlmFails, pools
<1>4. CASE ConnectPlatform(r) \/ GenerateSql(r)
  <2>1. PoolsWithin'
    BY <1>1, <1>4, PoolsKeep DEF ConnectPlatform, GenerateSql, pools
  <2>2. \E w : work' \in {work, [work EXCEPT ![r] = w]}
    <3>1. CASE ConnectPlatform(r)
      BY <3>1 DEF ConnectPlatform
    <3>2. CASE GenerateSql(r)
      BY <3>2 DEF GenerateSql
    <3> QED BY <1>4, <3>1, <3>2
  <2>3. \E s \in {"connected", "queued", "failed", "refused"} : Goto(r, s)
    <3>1. CASE ConnectPlatform(r)
      BY <3>1 DEF ConnectPlatform
    <3>2. CASE GenerateSql(r)
      BY <3>2 DEF GenerateSql
    <3> QED BY <1>4, <3>1, <3>2
  <2>4. UNCHANGED <<reply, query_audit, faults>>
    BY <1>4 DEF ConnectPlatform, GenerateSql
  <2>5. \A q \in MetricRequests : step'[q] = step[q] /\ work'[q] = work[q]
    BY <1>1, <2>2, <2>3 DEF Goto, TypeInv, TypeOK, Requests
  <2>6. /\ step' \in [Requests -> {"idle", "connected", "queued", "granted", "running",
                                   "returned", "executed", "refused", "failed", "done"}]
        /\ DOMAIN work' = Requests
    <3>1. PICK s \in {"connected", "queued", "failed", "refused"} :
            step' = [step EXCEPT ![r] = s]
      BY <2>3 DEF Goto
    <3>2. step \in [Requests -> {"idle", "connected", "queued", "granted", "running",
                                "returned", "executed", "refused", "failed", "done"}]
      BY DEF TypeInv, TypeOK
    <3>3. DOMAIN work' = Requests
      BY <2>2 DEF TypeInv, TypeOK
    <3> QED BY <3>1, <3>2, <3>3
  <2> QED BY <2>1, <2>4, <2>5, <2>6 DEF TypeInv, TypeOK, PoolsWithin
<1> QED BY <1>2, <1>3, <1>4

(* A step of the gateway is a step of one of its requests.                 *)
LEMMA StepsOfGateway ==
  ASSUME Next
  PROVE  \/ \E r \in MetricRequests : UnknownMetric(r) \/ CompilePlan(r)
         \/ \E r \in AdhocRequests :
               ConnectPlatform(r) \/ RejectTables(r) \/ GenerateSql(r) \/ LlmFails(r)
         \/ \E r \in Requests : Finish(r)
  BY DEF Next, Thread, Requests

LEMMA GatewayKeepsTypes == Spec => []TypeInv
<1>1. Init => TypeInv
  BY GatewayAssumption, FS_EmptySet DEF Init, TypeInv, TypeOK, Replies, Requests
<1>2. TypeInv /\ [Next]_vars => TypeInv'
  <2> SUFFICES ASSUME TypeInv, [Next]_vars PROVE TypeInv'
    OBVIOUS
  <2>1. CASE UNCHANGED vars
    BY <2>1 DEF vars, TypeInv, TypeOK
  <2>2. CASE Next
    BY <2>2, StepsOfGateway, MetricTyped, AdhocTyped, FinishTyped
  <2> QED BY <2>1, <2>2
<1> QED BY <1>1, <1>2, PTL DEF Spec

(* The pools are never overdrawn, also when threads fail in between, and   *)
(* every refusal is one the caller is told (executor.execute, audit).      *)
THEOREM GatewayTyped == Spec => []TypeOK
<1>1. TypeInv => TypeOK
  BY DEF TypeInv
<1> QED BY <1>1, GatewayKeepsTypes, PTL

-----------------------------------------------------------------------------
(* Requests other than r keep what they left and what they were told.      *)
LEMMA OthersTraced ==
  ASSUME AuditInv, NEW r \in Requests, NEW q \in Requests \ {r},
         step'[q] = step[q], work'[q] = work[q], reply'[q] = reply[q],
         RowsOf(q)' = RowsOf(q)
  PROVE  Traced(q)'
<1>1. Traced(q)
  BY DEF AuditInv
<1>2. ShowsCustomers(q)' <=> ShowsCustomers(q)
  BY DEF ShowsCustomers
<1> QED BY <1>1, <1>2 DEF Traced, DataRow

(* A thread that moves on without a row and an answer that would need one. *)
LEMMA MovesTraced ==
  ASSUME TypeInv, AuditInv, NEW r \in Requests, UNCHANGED <<work, query_audit>>,
         NEW s, Goto(r, s), step[r] # "done",
         s \in Cleared => step[r] \in Cleared,
         \/ s # "done" /\ UNCHANGED reply
         \/ s = "done" /\ \E a \in {"unknown_metric", "error500"} : reply' = [reply EXCEPT ![r] = a]
  PROVE  AuditInv'
<1>1. step'[r] = s /\ \A q \in Requests \ {r} : step'[q] = step[q]
  BY DEF Goto, TypeInv, TypeOK
<1>2. \A q \in Requests \ {r} : reply'[q] = reply[q]
  BY DEF TypeInv, TypeOK
<1>3. \A q \in Requests : RowsOf(q)' = RowsOf(q)
  BY DEF RowsOf
<1>4. \A q \in Requests \ {r} : Traced(q)'
  BY <1>1, <1>2, <1>3, OthersTraced
<1>5. Traced(r)
  BY DEF AuditInv
<1>6. reply'[r] \in {"none", "unknown_metric", "error500"} /\ (s # "done" => reply'[r] = "none")
  BY <1>5 DEF TypeInv, TypeOK, Traced
<1>7. ShowsCustomers(r)' <=> ShowsCustomers(r)
  BY DEF ShowsCustomers
<1>8. Traced(r)'
  <2>1. RowsOf(r)' = {}
    BY <1>3, <1>5 DEF Traced
  <2> QED BY <1>1, <1>5, <1>6, <1>7, <2>1 DEF Traced, RefusedReplies
<1> QED BY <1>4, <1>8 DEF AuditInv

(* The answer that needs a row gets it in the same step (audit.record).    *)
LEMMA RecordTraced ==
  ASSUME TypeInv, AuditInv, NEW r \in Requests, Record(r)
  PROVE  AuditInv'
<1> DEFINE ok == step[r] = "executed"
           row == Row(r, IF ok THEN "ok" ELSE "refused")
           a == IF ok THEN "data" ELSE RefusalOf(r)
<1>1. Traced(r) /\ step[r] \in {"executed", "refused"}
  BY DEF AuditInv, Record
<1>2. /\ step' = [step EXCEPT ![r] = "done"] /\ reply' = [reply EXCEPT ![r] = a]
      /\ query_audit' = query_audit \cup {row} /\ work' = work
  BY DEF Record, Answer, Goto
<1>3. row.id = r /\ row.status = (IF ok THEN "ok" ELSE "refused")
  BY DEF Row
<1>4. RowsOf(r)' = {row}
  BY <1>1, <1>2, <1>3 DEF RowsOf, Traced
<1>5. step'[r] = "done" /\ reply'[r] = a
  BY <1>2 DEF TypeInv, TypeOK
<1>6. ShowsCustomers(r)' <=> ShowsCustomers(r)
  BY <1>2 DEF ShowsCustomers
<1>7. ok => row = DataRow(r)
  <2>1. ASSUME ok PROVE row = [id |-> r, status |-> "ok",
                               customer |-> r \in MetricRequests /\ work[r].compiled.customer]
    BY <2>1 DEF Row
  <2>2. ASSUME ok, r \in MetricRequests
        PROVE  work[r].compiled.customer <=> ShowsCustomers(r)
    BY <1>1, <2>2 DEF Traced, Cleared
  <2>3. ASSUME ok
        PROVE  (r \in MetricRequests /\ work[r].compiled.customer)
                 = (r \in MetricRequests /\ ShowsCustomers(r))
    BY <2>2, <2>3
  <2> QED BY <2>1, <2>3 DEF DataRow
<1>8. ok => RowsOf(r)' = {DataRow(r)'}
  <2>1. DataRow(r)' = DataRow(r)
    BY <1>2 DEF DataRow, ShowsCustomers
  <2> QED BY <1>4, <1>7, <2>1
<1>9. ~ok => a \in RefusedReplies
  BY <1>1 DEF RefusalOf, RefusedReplies, TypeInv
<1>10. { x.status : x \in RowsOf(r)' } = {IF ok THEN "ok" ELSE "refused"}
  BY <1>3, <1>4
<1>11. ok => a = "data" /\ a \notin RefusedReplies
  BY DEF RefusedReplies
<1>12. Traced(r)'
  <2> HIDE DEF a, row
  <2>1. ~ok => a # "data"
    BY <1>9 DEF RefusedReplies
  <2>2. reply'[r] = "data" => RowsOf(r)' = {DataRow(r)'}
    BY <1>5, <1>8, <2>1
  <2>3. reply'[r] \in RefusedReplies => { x.status : x \in RowsOf(r)' } = {"refused"}
    BY <1>5, <1>10, <1>11
  <2>4. a # "unknown_metric"
    BY <1>9, <1>11 DEF RefusedReplies
  <2> QED BY <1>5, <2>2, <2>3, <2>4 DEF Traced, Cleared
<1>13. \A q \in Requests \ {r} : RowsOf(q)' = RowsOf(q)
  <2> HIDE DEF row
  <2> QED BY <1>2, <1>3 DEF RowsOf
<1>14. \A q \in Requests \ {r} : step'[q] = step[q] /\ work'[q] = work[q] /\ reply'[q] = reply[q]
  BY <1>2 DEF TypeInv, TypeOK
<1>15. \A q \in Requests \ {r} : Traced(q)'
  BY <1>13, <1>14, OthersTraced
<1> QED BY <1>12, <1>15 DEF AuditInv

LEMMA FinishTraced ==
  ASSUME TypeInv, AuditInv, NEW r \in Requests, Finish(r)
  PROVE  AuditInv'
<1>1. CASE AcquireSlot(r)
  BY <1>1, MovesTraced DEF AcquireSlot, Cleared
<1>2. CASE ConnectWarehouse(r)
  BY <1>2, MovesTraced DEF ConnectWarehouse, Cleared
<1>3. CASE QueryFails(r)
  BY <1>3, MovesTraced DEF QueryFails, Cleared
<1>4. CASE QueryRuns(r)
  BY <1>4, MovesTraced DEF QueryRuns, Cleared
<1>5. CASE Return(r)
  BY <1>5, MovesTraced DEF Return, Cleared
<1>6. CASE Record(r)
  BY <1>6, RecordTraced
<1>7. CASE RecordFails(r)
  BY <1>7, MovesTraced DEF RecordFails, Cleared, pools
<1>8. CASE Fail(r)
  BY <1>8, MovesTraced DEF Fail, Answer, Cleared
<1> QED BY <1>1, <1>2, <1>3, <1>4, <1>5, <1>6, <1>7, <1>8 DEF Finish

(* A compiled plan is marked as a customer query when its SQL puts out or  *)
(* selects by customers, and only then (compile_plan).                     *)
LEMMA CustomerMark ==
  ASSUME NEW plan, NEW ctx, Compile(plan, ctx).error = "none"
  PROVE  LET sql == Compile(plan, ctx).sql
         IN  Compile(plan, ctx).customer <=> CustomerDims \cap (sql.outputs \cup sql.filtered) # {}
  BY DEF Compile, Sql, IsCustomerQuery

LEMMA MetricTraced ==
  ASSUME TypeInv, AuditInv, NEW r \in MetricRequests, UnknownMetric(r) \/ CompilePlan(r)
  PROVE  AuditInv'
<1>1. r \in Requests
  BY DEF Requests
<1>2. CASE UnknownMetric(r)
  BY <1>1, <1>2, MovesTraced DEF UnknownMetric, Answer, Cleared
<1>3. CASE CompilePlan(r)
  <2>1. PICK plan \in Plans, ctx \in Contexts :
          /\ work' = [work EXCEPT ![r] = [compiled |-> Compile(plan, ctx), ctx |-> ctx]]
          /\ Goto(r, IF Compile(plan, ctx).error = "none" THEN "queued" ELSE "refused")
    BY <1>3 DEF CompilePlan
  <2>2. work'[r].compiled = Compile(plan, ctx)
    BY <1>1, <2>1 DEF TypeInv, TypeOK
  <2>3. /\ step'[r] \in {"queued", "refused"}
        /\ step'[r] \in Cleared => Compile(plan, ctx).error = "none"
    BY <1>1, <2>1 DEF TypeInv, TypeOK, Goto, Cleared
  <2>4. UNCHANGED <<reply, query_audit>> /\ step[r] = "idle"
    BY <1>3 DEF CompilePlan
  <2>5. \A q \in Requests \ {r} : step'[q] = step[q] /\ work'[q] = work[q]
    BY <1>1, <2>1 DEF TypeInv, TypeOK, Goto
  <2>6. \A q \in Requests \ {r} : Traced(q)'
    BY <1>1, <2>4, <2>5, OthersTraced DEF RowsOf
  <2>7. Traced(r)
    BY <1>1 DEF AuditInv
  <2>8. reply'[r] = "none" /\ RowsOf(r)' = {}
    BY <2>4, <2>7 DEF Traced, RowsOf
  <2>9. step'[r] \in Cleared => (work'[r].compiled.customer <=> ShowsCustomers(r)')
    BY <2>2, <2>3, CustomerMark DEF ShowsCustomers
  <2>10. Traced(r)'
    BY <2>8, <2>9 DEF Traced, RefusedReplies
  <2> QED BY <2>6, <2>10 DEF AuditInv
<1> QED BY <1>2, <1>3

LEMMA AdhocTraced ==
  ASSUME TypeInv, AuditInv, NEW r \in AdhocRequests,
         ConnectPlatform(r) \/ RejectTables(r) \/ GenerateSql(r) \/ LlmFails(r)
  PROVE  AuditInv'
<1>1. r \in Requests /\ r \notin MetricRequests
  BY GatewayAssumption DEF Requests
<1>2. /\ step[r] # "done" /\ UNCHANGED <<reply, query_audit>>
  BY DEF ConnectPlatform, RejectTables, GenerateSql, LlmFails
<1>3. \A q \in Requests \ {r} : step'[q] = step[q] /\ work'[q] = work[q]
  <2>1. CASE ConnectPlatform(r)
    BY <2>1 DEF ConnectPlatform, Goto, TypeInv, TypeOK
  <2>2. CASE GenerateSql(r)
    BY <2>2 DEF GenerateSql, Goto, TypeInv, TypeOK
  <2>3. CASE RejectTables(r)
    BY <2>3 DEF RejectTables, Goto, TypeInv, TypeOK
  <2>4. CASE LlmFails(r)
    BY <2>4 DEF LlmFails, Goto, TypeInv, TypeOK
  <2> QED BY <2>1, <2>2, <2>3, <2>4
<1>4. \A q \in Requests \ {r} : Traced(q)'
  BY <1>1, <1>2, <1>3, OthersTraced DEF RowsOf
<1>5. Traced(r)
  BY <1>1 DEF AuditInv
<1>6. reply'[r] = "none" /\ RowsOf(r)' = {}
  BY <1>2, <1>5 DEF Traced, RowsOf
<1>7. Traced(r)'
  BY <1>1, <1>6 DEF Traced, RefusedReplies
<1> QED BY <1>4, <1>7 DEF AuditInv

(* For every plan, user, statement and failure: an answer with data or a   *)
(* refusal by a check has its audit row, just one; the row of a metric     *)
(* query has the right customer mark, that of an ad hoc query has none     *)
(* whatever it shows, and unknown_metric leaves no row.                    *)
THEOREM AnswersHaveTheirRows == Spec => []AnswersAreAudited
<1>1. Init => AuditInv
  BY DEF Init, AuditInv, Traced, RowsOf, Cleared, RefusedReplies
<1>2. TypeInv /\ AuditInv /\ [Next]_vars => AuditInv'
  <2> SUFFICES ASSUME TypeInv, AuditInv, [Next]_vars PROVE AuditInv'
    OBVIOUS
  <2>1. CASE UNCHANGED vars
    BY <2>1 DEF vars, AuditInv, Traced, RowsOf, DataRow, ShowsCustomers
  <2>2. CASE Next
    BY <2>2, StepsOfGateway, MetricTraced, AdhocTraced, FinishTraced
  <2> QED BY <2>1, <2>2
<1>3. AuditInv => AnswersAreAudited
  BY DEF AuditInv, Traced, AnswersAreAudited, DataRow, ShowsCustomers, RefusedReplies
<1>4. Spec => []TypeInv
  BY GatewayKeepsTypes
<1> QED BY <1>1, <1>2, <1>3, <1>4, PTL DEF Spec
=============================================================================
