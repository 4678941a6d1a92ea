------------------------------- MODULE Ingest -------------------------------
(***************************************************************************)
(* How a statement of the scheduling platform gets its lineage: collect-sql *)
(* (fetch_from_scheduler, upsert_sql, incremental), the nightly rebuild that *)
(* parses every text again, a drawing in the portal that takes a statement   *)
(* out of the failed queue, and the health check that reads what they left.  *)
(* The parser is its order of early returns, over what can be wrong with a   *)
(* text; LineagePipeline has what the edges are and how they are swapped.    *)
(***************************************************************************)
EXTENDS Integers, FiniteSets, Sequences, FiniteSetsExt, SequencesExt

CONSTANTS
  Listing,      \* the nodes of the platform's tasks, in the order it lists them
  Unnumbered,   \* those it lists without a node_seq
  Texts, NoText,
  Flaws,        \* what is wrong with a text: a set of names for each
  TextsOf,      \* the texts a node may have
  PageSize, Attempts,
  MaxFailed,    \* HEALTH_MAX_FAILED_SQL
  MaxRows, Changes, Faults   \* bounds of the instance

Items == ToSet(Listing)

ASSUME IngestAssumption ==
  /\ Listing \in Seq(Items) /\ Unnumbered \subseteq Items
  /\ \A t \in Texts : Flaws[t] \subseteq
       {"syntax", "multi_insert", "no_target", "no_select", "ambiguous", "star",
        "column", "internal", "slow", "disagree", "unregistered"}
  /\ \A i \in Items : TextsOf[i] \subseteq Texts /\ TextsOf[i] # {}
  /\ PageSize \in Nat \ {0} /\ Attempts \in Nat \ {0}
  /\ {MaxFailed, MaxRows, Changes, Faults} \subseteq Nat

VARIABLES
  platform,   \* the text of each node
  snapshot,   \* whether the sources' columns are in schema_snapshot
  rows,       \* sql_repository, by sql_id
  collector, rebuild,
  lastRun,    \* the status of the newest full run
  fresh,      \* history: the statements written since the newest rebuild read the texts
  overtaken,  \* history: those whose status or edges such a rebuild then wrote over
  changes, faults

vars == <<platform, snapshot, rows, collector, rebuild, lastRun, fresh, overtaken,
          changes, faults>>

(***************************************************************************)
(* parse_sql                                                               *)
(***************************************************************************)
Result(status, reason, edges) == [status |-> status, reason |-> reason, edges |-> edges]

(* The early returns in their order; the first that applies is the result.  *)
Returns(text, snap) ==
  LET flaw(f) == f \in Flaws[text]
  IN << <<flaw("multi_insert"), Result("failed", "multi_insert_unsupported", {})>>,
        <<flaw("syntax"),       Result("failed", "parse_error", {})>>,
        <<flaw("no_target"),    Result("failed", "no_target", {})>>,
        <<flaw("no_select"),    Result("degraded", "no_select", {"table"})>>,
        <<flaw("ambiguous"),    Result("degraded", "qualify_failed", {"table"})>>,
        <<flaw("star") /\ ~snap, Result("degraded", "star_unresolved", {"table"})>>,
        <<flaw("column"),       Result("degraded", "column_lineage_partial", {"table", "column"})>>,
        <<TRUE,                 Result("success", "", {"table", "column"})>> >>

ParseSql(text, snap) ==
  LET returns == Returns(text, snap)
  IN returns[Min({k \in DOMAIN returns : returns[k][1]})][2]

(* Two engines that disagree on the sources change the reason only.         *)
Crosschecked(text, result) ==
  IF result.status = "success" /\ "disagree" \in Flaws[text]
  THEN [result EXCEPT !.reason = "crosscheck_mismatch"] ELSE result

(* _parse_job bounds the time and takes any error of the parser for a result; *)
(* incremental does neither.                                                 *)
ParseJob == [text \in Texts |-> [snap \in BOOLEAN |->
  Crosschecked(text,
    IF "slow" \in Flaws[text] THEN Result("degraded", "timeout", {})
    ELSE IF "internal" \in Flaws[text] THEN Result("failed", "internal_error", {})
    ELSE ParseSql(text, snap))]]

ParseHook ==
  [text \in Texts |-> [snap \in BOOLEAN |-> Crosschecked(text, ParseSql(text, snap))]]
Raises(text) == "internal" \in Flaws[text]

(***************************************************************************)
(* collect-sql                                                             *)
(***************************************************************************)
Idle == [at |-> "idle", page |-> 1, tries |-> 0, items |-> <<>>, sql |-> 0]
NotRunning == [at |-> "idle", jobs |-> <<>>, snap |-> FALSE]

(* The elements of s in keep, in their order.                                *)
Filtered(s, keep) ==
  LET kept[n \in 0 .. Len(s)] ==
        IF n = 0 THEN <<>> ELSE IF s[n] \in keep THEN Append(kept[n-1], s[n]) ELSE kept[n-1]
  IN kept[Len(s)]

(* What the platform lists now. A node without node_seq is inserted again by *)
(* every collection; the instance stops listing it at MaxRows.              *)
Offered(i) == /\ platform[i] # NoText
              /\ (i \in Unnumbered => Len(rows) < MaxRows)
Listed == Filtered(Listing, {i \in Items : Offered(i)})

Page(listed, p) == SubSeq(listed, (p - 1) * PageSize + 1, Min({p * PageSize, Len(listed)}))
Fetched(batch) == [k \in DOMAIN batch |-> [item |-> batch[k], text |-> platform[batch[k]]]]
Registered == {x \in [item : Items, text : Texts] : "unregistered" \notin Flaws[x.text]}
Valid(items) == Filtered(items, Registered)

(* Mutant: a full page is taken for the last one.                           *)
LastPageFull(batch) == Len(batch) <= PageSize

LastPage(batch) == Len(batch) < PageSize
UnchangedButCollector == UNCHANGED <<platform, snapshot, rebuild, lastRun, overtaken, changes>>

StartCollect ==
  /\ collector.at = "idle"
  /\ collector' = [Idle EXCEPT !.at = "fetch"]
  /\ UNCHANGED <<rows, fresh, faults>> /\ UnchangedButCollector

(* One request, by its number, of what is listed now; after the last one    *)
(* the items are validated. Each value is named once.                       *)
FetchPage ==
  /\ collector.at = "fetch"
  /\ \E listed \in {Listed} : \E batch \in {Page(listed, collector.page)} :
       \E items \in {collector.items \o Fetched(batch)} :
         collector' = IF LastPage(batch)
                      THEN [collector EXCEPT !.at = "next", !.items = Valid(items), !.tries = 0]
                      ELSE [collector EXCEPT !.page = @ + 1, !.items = items, !.tries = 0]
  /\ UNCHANGED <<rows, fresh, faults>> /\ UnchangedButCollector

(* The last attempt raises, and the collection ends with nothing stored.    *)
LastAttempt(tries) == tries = Attempts - 1
RequestFails ==
  /\ collector.at = "fetch" /\ faults < Faults
  /\ collector' = IF LastAttempt(collector.tries) THEN Idle
                  ELSE [collector EXCEPT !.tries = @ + 1]
  /\ faults' = faults + 1
  /\ UNCHANGED <<rows, fresh>> /\ UnchangedButCollector

EndCollect ==
  /\ collector.at = "next" /\ collector.items = <<>>
  /\ collector' = Idle
  /\ UNCHANGED <<rows, fresh, faults>> /\ UnchangedButCollector

(* Mutant: what failed to parse is not looked up, so as to be parsed again. *)
RowsOfParsed(item) ==
  {k \in DOMAIN rows : rows[k].item = item /\ rows[k].status # "failed" /\ item \notin Unnumbered}

(* WHERE task_id=%s AND node_seq=%s: no row equals NULL.                    *)
RowsOf(item) == {k \in DOMAIN rows : rows[k].item = item /\ item \notin Unnumbered}

Written(ids) == /\ fresh' = fresh \union ids
                /\ overtaken' = IF rebuild.at = "loaded" THEN overtaken \union ids
                                ELSE overtaken \ ids

Unchanged(x) == \E k \in RowsOf(x.item) : rows[k].text = x.text

SkipUnchanged ==
  /\ collector.at = "next" /\ collector.items # <<>> /\ Unchanged(Head(collector.items))
  /\ collector' = [collector EXCEPT !.items = Tail(@)]
  /\ UNCHANGED <<rows, fresh, faults>> /\ UnchangedButCollector

(* Mutant: the status of the old text stays.                                *)
KeepStatus(row, text) == [row EXCEPT !.text = text]

Pending(row, text) == [row EXCEPT !.text = text, !.status = "pending"]

UpdateText ==
  /\ collector.at = "next" /\ collector.items # <<>> /\ ~Unchanged(Head(collector.items))
  /\ \E k \in RowsOf(Head(collector.items).item) :
       /\ rows' = [rows EXCEPT ![k] = Pending(@, Head(collector.items).text)]
       /\ collector' = [collector EXCEPT !.at = "hook", !.sql = k, !.items = Tail(@)]
       /\ Written({k})
  /\ UNCHANGED <<platform, snapshot, rebuild, lastRun, changes, faults>>

InsertStatement ==
  /\ collector.at = "next" /\ collector.items # <<>> /\ RowsOf(Head(collector.items).item) = {}
  /\ rows' = Append(rows, [item |-> Head(collector.items).item,
                           text |-> Head(collector.items).text,
                           status |-> "pending", reason |-> "", edges |-> {}])
  /\ collector' = [collector EXCEPT !.at = "hook", !.sql = Len(rows) + 1, !.items = Tail(@)]
  /\ Written({Len(rows) + 1})
  /\ UNCHANGED <<platform, snapshot, rebuild, lastRun, changes, faults>>

Stored(row, result) ==
  [row EXCEPT !.status = result.status, !.reason = result.reason, !.edges = result.edges]

(* incremental, called by the loop: edges and status in one transaction.    *)
RunHook ==
  /\ collector.at = "hook" /\ ~Raises(rows[collector.sql].text)
  /\ rows' = [rows EXCEPT ![collector.sql] = Stored(@, ParseHook[@.text][snapshot])]
  /\ collector' = [collector EXCEPT !.at = "next", !.sql = 0]
  /\ Written({collector.sql})
  /\ UNCHANGED <<platform, snapshot, rebuild, lastRun, changes, faults>>

(* An error of the parser leaves main() through the loop: the rest of the   *)
(* collection is left to the next day.                                      *)
HookRaises ==
  /\ collector.at = "hook" /\ Raises(rows[collector.sql].text)
  /\ collector' = Idle
  /\ UNCHANGED <<rows, fresh, faults>> /\ UnchangedButCollector

(* A database error in the hook, or the death of the collector anywhere.    *)
CollectorDies ==
  /\ collector.at # "idle" /\ faults < Faults
  /\ collector' = Idle
  /\ faults' = faults + 1
  /\ UNCHANGED <<rows, fresh>> /\ UnchangedButCollector

(***************************************************************************)
(* full_rebuild                                                            *)
(***************************************************************************)
UnchangedButRebuild == UNCHANGED <<platform, snapshot, collector, changes>>

StartRebuild ==
  /\ rebuild.at = "idle"
  /\ rebuild' = [NotRunning EXCEPT !.at = "read"]
  /\ lastRun' = "running"
  /\ UNCHANGED <<rows, fresh, overtaken, faults>> /\ UnchangedButRebuild

(* One snapshot for the columns and the texts, then the worker pool.        *)
ReadJobs ==
  /\ rebuild.at = "read"
  /\ rebuild' = [at |-> "parsed", jobs |-> [k \in DOMAIN rows |-> rows[k].text], snap |-> snapshot]
  /\ fresh' = {}
  /\ UNCHANGED <<rows, lastRun, overtaken, faults>> /\ UnchangedButRebuild

StatusesOf(ids) ==
  [k \in DOMAIN rows |->
     IF k \in ids
     THEN LET result == ParseJob[rebuild.jobs[k]][rebuild.snap]
          IN [rows[k] EXCEPT !.status = result.status, !.reason = result.reason]
     ELSE rows[k]]

(* bulk_insert_shadow: the statuses at once, the edges into the shadow table. *)
LoadShadow ==
  /\ rebuild.at = "parsed"
  /\ rows' = StatusesOf(DOMAIN rebuild.jobs)
  /\ rebuild' = [rebuild EXCEPT !.at = "loaded"]
  /\ overtaken' = fresh
  /\ UNCHANGED <<lastRun, fresh, faults>> /\ UnchangedButRebuild

(* The swap: what the shadow table does not hold is gone.                   *)
SwapEdges ==
  /\ rebuild.at = "loaded"
  /\ rows' = [k \in DOMAIN rows |->
                [rows[k] EXCEPT !.edges = IF k \in DOMAIN rebuild.jobs
                                          THEN ParseJob[rebuild.jobs[k]][rebuild.snap].edges
                                          ELSE {}]]
  /\ rebuild' = NotRunning
  /\ lastRun' = "success"
  /\ UNCHANGED <<fresh, overtaken, faults>> /\ UnchangedButRebuild

Abort ==
  /\ rebuild.at = "loaded" /\ faults < Faults
  /\ rebuild' = NotRunning /\ lastRun' = "aborted" /\ faults' = faults + 1
  /\ UNCHANGED <<rows, fresh, overtaken>> /\ UnchangedButRebuild

(* record_run commits what a failing transaction had written: the statuses of *)
(* the statements before the one that failed.                               *)
RebuildFails ==
  /\ rebuild.at # "idle" /\ faults < Faults
  /\ \E n \in 0 .. Len(rebuild.jobs) :
       rows' = IF rebuild.at = "parsed" THEN StatusesOf(1 .. n) ELSE rows
  /\ overtaken' = IF rebuild.at = "parsed" THEN overtaken \union fresh ELSE overtaken
  /\ rebuild' = NotRunning /\ lastRun' = "failed" /\ faults' = faults + 1
  /\ UNCHANGED fresh /\ UnchangedButRebuild

(* A dead rebuild's record says 'running' until the next night's.           *)
RebuildDies ==
  /\ rebuild.at # "idle" /\ faults < Faults
  /\ rebuild' = NotRunning /\ faults' = faults + 1
  /\ UNCHANGED <<rows, lastRun, fresh, overtaken>> /\ UnchangedButRebuild

(***************************************************************************)
(* The platform, the metadata sync and the portal                          *)
(***************************************************************************)
Publish ==
  /\ changes < Changes /\ changes' = changes + 1
  /\ \E i \in Items : \E t \in TextsOf[i] \union {NoText} : platform' = [platform EXCEPT ![i] = t]
  /\ UNCHANGED <<snapshot, rows, collector, rebuild, lastRun, fresh, overtaken, faults>>

SyncMetadata ==
  /\ ~snapshot /\ snapshot' = TRUE
  /\ UNCHANGED <<platform, rows, collector, rebuild, lastRun, fresh, overtaken, changes, faults>>

(* manual_lineage with the sql_id that a failed queue, perhaps of an hour ago, *)
(* showed: any statement.                                                   *)
Draw ==
  /\ changes < Changes /\ changes' = changes + 1
  /\ \E k \in DOMAIN rows : rows' = [rows EXCEPT ![k].status = "manual"]
  /\ UNCHANGED <<platform, snapshot, collector, rebuild, lastRun, fresh, overtaken, faults>>

Init ==
  /\ platform \in {f \in [Items -> Texts] : \A i \in Items : f[i] \in TextsOf[i]}
  /\ snapshot = FALSE /\ rows = <<>>
  /\ collector = Idle /\ rebuild = NotRunning /\ lastRun = "none"
  /\ fresh = {} /\ overtaken = {} /\ changes = 0 /\ faults = 0

Collect == StartCollect \/ FetchPage \/ EndCollect \/ SkipUnchanged \/ UpdateText
             \/ InsertStatement \/ RunHook \/ HookRaises
Rebuild == StartRebuild \/ ReadJobs \/ LoadShadow \/ SwapEdges
Environment == RequestFails \/ CollectorDies \/ Abort \/ RebuildFails \/ RebuildDies
                 \/ Publish \/ SyncMetadata \/ Draw

Next == Collect \/ Rebuild \/ Environment

(* cron starts a collection and a rebuild every day.                        *)
Spec == Init /\ [][Next]_vars /\ WF_vars(Collect) /\ WF_vars(Rebuild)

-----------------------------------------------------------------------------
Statuses == {"pending", "success", "degraded", "failed", "manual"}
Reasons == {"", "multi_insert_unsupported", "parse_error", "no_target", "no_select", "qualify_failed",
            "star_unresolved", "column_lineage_partial", "crosscheck_mismatch", "timeout",
            "internal_error"}

(* The state is well typed, a request is tried no more often than it may,   *)
(* and a numbered node has one row, whatever became of its parse.           *)
TypeOK ==
  /\ platform \in [Items -> Texts \union {NoText}]
  /\ rows \in Seq([item : Items, text : Texts, status : Statuses, reason : Reasons,
                   edges : SUBSET {"table", "column"}])
  /\ \A j, k \in DOMAIN rows : rows[j].item = rows[k].item => j = k \/ rows[k].item \in Unnumbered
  /\ collector.at \in {"idle", "fetch", "next", "hook"}
  /\ collector.tries \in 0 .. Attempts - 1
  /\ (collector.at = "hook") <=> (collector.sql \in DOMAIN rows)
  /\ rebuild.at \in {"idle", "read", "parsed", "loaded"}
  /\ DOMAIN rebuild.jobs \subseteq DOMAIN rows
  /\ fresh \union overtaken \subseteq DOMAIN rows

ParsedAs(k, result) == rows[k].status = result.status /\ rows[k].reason = result.reason

(* A statement's parse_status is that of the text it holds, through every   *)
(* interleaving of collector, rebuild and portal and every failure of them: *)
(* it waits for its parse, was drawn by hand, or was written while a rebuild *)
(* stood between its read and its swap.                                     *)
StatusIsOfItsText ==
  \A k \in DOMAIN rows :
    rows[k].status \in {"pending", "manual"} \/ k \in overtaken
      \/ \E snap \in BOOLEAN : ParsedAs(k, ParseHook[rows[k].text][snap])
                               \/ ParsedAs(k, ParseJob[rows[k].text][snap])

(* health.check finds no issue with the status of the newest full run or the *)
(* failed queue.  Its other two issues, a finished_at of more than 26 hours *)
(* ago and an empty closure, only make it green less often.  A run whose    *)
(* record says 'running' is no issue, however old: it has no finished_at.   *)
FailedQueue == {k \in DOMAIN rows : rows[k].status = "failed"}

(* Mutant: only an aborted run is an issue.                                 *)
HealthyUnlessAborted == lastRun \notin {"none", "aborted"} /\ Cardinality(FailedQueue) <= MaxFailed

Healthy == lastRun \notin {"none", "aborted", "failed"} /\ Cardinality(FailedQueue) <= MaxFailed
ServedAs(k, result) ==
  [status |-> rows[k].status, reason |-> rows[k].reason, edges |-> rows[k].edges] = result

(* The levels of lineage that are served under a parse_status and its       *)
(* reason.  A text that timed out is 'degraded' as others are, but with no  *)
(* edge of either level.                                                    *)
LevelsOf(status, reason) ==
  CASE status = "failed" \/ reason = "timeout" -> {}
    [] reason \in {"no_select", "qualify_failed", "star_unresolved"} -> {"table"}
    [] OTHER -> {"table", "column"}

(* A green check after a rebuild that finished: but for what was collected  *)
(* since that rebuild read the texts, no statement waits, and each is served *)
(* with the edges, status and reason that one parse of its own text gave,   *)
(* so with the levels above.  The repository promises more than the code    *)
(* does: a timed-out text should keep its table level (rebuild.py:42), and a *)
(* last success of more than 26 hours ago should raise an issue             *)
(* (OPERATIONS.md:59), which a newest run that died, and is 'running' for   *)
(* ever, keeps the check from; of such a check nothing is claimed.          *)
GreenHealthIsTrue ==
  Healthy /\ lastRun # "running" =>
    \A k \in DOMAIN rows :
      \/ k \in overtaken
      \/ rows[k].status = "manual"
      \/ rows[k].status = "pending" /\ k \in fresh
      \/ /\ \E snap \in BOOLEAN : ServedAs(k, ParseHook[rows[k].text][snap])
                                  \/ ServedAs(k, ParseJob[rows[k].text][snap])
         /\ rows[k].edges = LevelsOf(rows[k].status, rows[k].reason)

StoredOnce(i) ==
  Cardinality({k \in DOMAIN rows : rows[k].item = i}) = 1
  /\ \A k \in DOMAIN rows : rows[k].item = i => rows[k].text = platform[i]

(* Requests that fail, pages that shift, texts that crash the parser in the *)
(* middle of a collection and runs that die only delay: once the platform   *)
(* rests, every numbered and registered node is stored, once, with the text *)
(* it has, and no statement waits for its parse for ever.                   *)
CatchesUp ==
  /\ <>[](\A i \in Items \ Unnumbered :
            platform[i] # NoText /\ "unregistered" \notin Flaws[platform[i]] => StoredOnce(i))
  /\ []<>(\A k \in DOMAIN rows : rows[k].status # "pending")
=============================================================================
