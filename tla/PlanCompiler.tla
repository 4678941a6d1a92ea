---------------------------- MODULE PlanCompiler ----------------------------
(***************************************************************************)
(* query-gateway's compiler.compile_plan and the static checks of          *)
(* executor.validate_select_only and adhoc.run_adhoc, as functions.  SQL   *)
(* text is represented by what the checks and the warehouse see of it.     *)
(***************************************************************************)
EXTENDS Integers, Sequences, FiniteSetsExt

CONSTANTS
  Dims,          \* metric.dimensions
  L3, L4,        \* those with that sensitivity
  CustomerDims,  \* _SENSITIVE_CUSTOMER_DIMS
  Measure,       \* metric.metric, also a field to order by
  JoinOf,        \* JoinOf[d]: the alias a dimension's column is read from
  Base,          \* the alias of metric.base_table
  PolicyVars,    \* the ":var" tokens of metric.row_policy
  HardLimit,     \* QUERY_HARD_LIMIT
  Blacklist,     \* BLACKLIST_TABLES
  Lower          \* Lower[t]: the table name t in lower case

ASSUME CompilerAssumption ==
  /\ L3 \subseteq Dims /\ L4 \subseteq Dims \ L3
  /\ Measure \notin Dims
  /\ DOMAIN JoinOf = Dims
  /\ HardLimit \in Nat \ {0}
  /\ Blacklist \subseteq DOMAIN Lower

(* The error of the first check that fails, in the order the code raises. *)
FirstError(checks) ==
  LET failed == { i \in DOMAIN checks : ~checks[i][1] }
  IN  IF failed = {} THEN "none" ELSE checks[Min(failed)][2]

FilterFields(plan) == { f.field : f \in plan.filters }
OrderFields(plan) == { o.field : o \in plan.order }

(* Mutant: only what is put out is looked at. *)
ReferencedOutputs(plan) == plan.dimensions \cap Dims

(* Every use of a dimension counts: put out, filtered by, ordered by. *)
Referenced(plan) ==
  (plan.dimensions \cup FilterFields(plan) \cup OrderFields(plan)) \cap Dims

Denied(d, ctx) == d \in L4 \/ d \in L3 \ ctx.whitelist

(* _filter_sql: between takes two values, in takes a list that has some.   *)
WellShaped(f) == /\ f.op = "between" => f.value = "pair"
                 /\ f.op = "in" => f.value \in {"pair", "list"}

PlanChecks(plan, ctx) ==
  << <<plan.dimensions \subseteq Dims, "plan_error">>,
     <<\A d \in Referenced(plan) : ~Denied(d, ctx), "permission_denied">>,
     <<\A f \in plan.filters : f.field \in Dims /\ f.op # "unknown", "plan_error">>,
     <<\A f \in plan.filters : WellShaped(f), "plan_error">>,
     <<PolicyVars \subseteq ctx.vars, "permission_denied">>,
     <<\A o \in plan.order : o.field \in Dims \cup {Measure}, "plan_error">>,
     <<\A o \in plan.order : o.dir \in {"asc", "desc"}, "plan_error">> >>

(* int(limit or HARD_LIMIT), at most HARD_LIMIT *)
Limit(plan) == IF plan.limit = 0 THEN HardLimit ELSE Min({plan.limit, HardLimit})

(* Mutant: the fields of the filters are forgotten. *)
IsCustomerQueryByOutput(plan) == CustomerDims \cap plan.dimensions # {}

IsCustomerQuery(plan) == CustomerDims \cap (plan.dimensions \cup FilterFields(plan)) # {}

(* The SQL of a compiled plan; the joins are those of the output dimensions. *)
Sql(plan, ctx) ==
  [outputs |-> plan.dimensions,
   masked |-> plan.dimensions \cap L3,
   joins |-> { JoinOf[d] : d \in plan.dimensions } \cup {Base},
   columns |-> (plan.dimensions \cup FilterFields(plan) \cup OrderFields(plan)) \ {Measure},
   filtered |-> FilterFields(plan),
   policy |-> PolicyVars \cap ctx.vars,
   limit |-> Limit(plan)]

Compile(plan, ctx) ==
  LET error == FirstError(PlanChecks(plan, ctx))
  IN  [error |-> error,
       sql |-> IF error = "none" THEN Sql(plan, ctx) ELSE {},
       customer |-> error = "none" /\ IsCustomerQuery(plan)]

-----------------------------------------------------------------------------
(* A statement the LLM wrote: does it parse, is it one SELECT, its tables  *)
(* with and without a database name, the columns it puts out or selects    *)
(* by, locking or INTO, its LIMIT.  No check looks at the columns.         *)

(* run_adhoc before the LLM is asked. *)
TablesAllowed(tables) == Cardinality(tables) \in 1..5 /\ tables \cap Blacklist = {}

(* validate_select_only compares without regard to case. *)
Blacklisted(t) == Lower[t] \in { Lower[b] : b \in Blacklist }

(* run_adhoc after the LLM, then validate_select_only.  A parse error is   *)
(* no ExecutionRejected; a missing LIMIT is put in before.                 *)
AdhocError(stmt, tables) ==
  FirstError(<< <<stmt.parses, "parse_error">>,
                <<stmt.select, "rejected">>,
                <<stmt.unqualified = {}, "rejected">>,
                <<stmt.tables \subseteq tables, "rejected">>,
                <<~stmt.locks /\ ~stmt.into, "rejected">>,
                <<\A t \in stmt.tables : ~Blacklisted(t), "rejected">> >>)

Limited(stmt) == [stmt EXCEPT !.limit = IF @ = 0 THEN HardLimit ELSE @]
=============================================================================
