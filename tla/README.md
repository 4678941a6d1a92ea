# Verification of datavein

datavein collects the SQL of a data warehouse, parses it into column lineage, stores the lineage in
MySQL, precomputes the transitive closure of the table graph, and serves lineage, metrics and a chat
portal from it. This directory models the parts of it whose correctness is hard to test, checks the
models with TLC and proves the central facts about them with TLAPS.

    tlc -config MCPipeline.cfg MCLineagePipeline      # any row of the table of runs
    tlapm ClosureBFSProofs.tla                        # any *Proofs module

## 1. Inventory

| Component | State | Operations | What is hard | What makes it correct |
|---|---|---|---|---|
| Closure (`lineage-pipeline/pipeline/closure.py`) | `table_closure(ancestor, descendant, min_hops, path_cnt)` | `compute_closure`, `rebuild_closure_shadow`, `incremental_patch`, `detect_cycles` | cycles; path counts summed layer by layer; a patch confined to a region read from the old closure | rows = connected pairs with distance and number of shortest paths, before and after a patch |
| Rebuild (`rebuild.py`, `db.py`, `loader.py`) | `lineage_edge`, `_shadow`, `_prev`, the same three of the closure, `pipeline_run`, `sql_repository.parse_status` | `full_rebuild`, `incremental`, `swap_shadow`, `record_run` | many commits and DDL statements per run; runs beside each other; aborts, errors and crashes between any two | readers always see a whole graph, old or new; drawn lineage survives; the night repairs everything |
| tmp folding (`derive.py`) | edges at tmp tables | `fold_level`, `fold_tmp_edges`, `fold_for_task` | chains over several tmp tables, cycles of tmp tables, a fold of one task only | tmp tables disappear, reachability between the others stays |
| Collector (`sql_collector.py`, `cli.py`) | `sql_repository` | `fetch_from_scheduler` (pages, retries), `upsert_sql`, the `collect-sql` loop | death between upsert and parse; a parse that ends the loop; NULL in the lookup key | every text is stored and parsed sooner or later, no statement twice |
| Parser (`parser/core.py`, `crosscheck.py`) | none | `parse_sql`, `_parse_job`, `crosscheck` | order of its early returns | the status tells what the edges are worth |
| Metadata sync, vector build (`metadata_sync.py`, `vectorize.py`) | `table_metadata`, `column_metadata`, `schema_snapshot`, two vector collections | `sync`, `build` | failure between batches; several syncs a day | a search finds nothing older than the newest complete build; one sync's picture everywhere |
| Health, report | `pipeline_run`, `sql_repository` (read) | `health.check` | runs that died, halves of runs | green means true |
| MCP server (`lineage-mcp-server`) | Redis cache; reads MySQL and the vectors | `search_term`, `get_lineage`, `get_lineage_path`, `impact_analysis` | several reads of tables that are swapped meanwhile; truncation; pages; cache against swap | answers are exact where nothing was published, never malformed where something was, and say when they are cut |
| Query gateway (`query-gateway`) | connection pools, semaphore, `query_audit` | `query_metric`, `query_adhoc`, `compile_plan`, `execute` | three limited resources taken in different orders; many ways for a field to enter a query; audit of every outcome | policy always applied, nothing answered unaudited, every request ends |
| Portal (`web-portal`) | `biz_glossary`, `query_audit`, drawn edges, connection pool | chat stream with tool loop, degraded answers, glossary editing, `manual_lineage` | streams that break off, handlers that block the event loop, editors with stale pages, bound of the loop | every finished chat audited with its calls, connections come back, certification stays |
| Tools, deployment (`tools`, `deploy`) | files | benchmark, gold standard, backup | – | – |

How they meet: the collector writes `sql_repository`; the publish hook and the nightly cron job read it
and write edges and closure; the portal writes `manual` edges into the same `lineage_edge`; the MCP
server reads edges and closure while they are swapped; the portal calls the MCP server's functions in its
own process and from its own pool; the gateway and the portal write audit rows. All sharing between
processes is through MySQL (REPEATABLE READ, `autocommit` off in the pipeline, on in the services), the
cache and the vector store; inside a service it is a connection pool and, in the portal, the event loop.

`PROJECT.json` lists the hazards at their lines, with the properties that cover them.

## 2. Plan

Order of work, the most important behaviour first.

1. *Done.* Closure: `TableGraph` (reference definitions), `ClosureBFS`, `IncrementalPatch`.
2. *Done.* The shared tables: `LineagePipeline` with `TmpFold`, and the abstract `LineageStore` it implements.
3. *Done.* Collection, parsing and health: `Ingest`.
4. *Done.* Readers of what the pipeline publishes: `LineageServer`, with the cache.
5. *Done.* Gateway: `PlanCompiler` (pure), `Gateway` (threads and pools).
6. *Done.* Portal: `PortalChat`. Catalogue: `Catalogue` (metadata sync, glossary, vector build).
7. *Done.* Proofs of every safety property of these modules, and of the refinement
   of `LineageStore`.
8. Left for later modelling: the search of `fold_level` as a loop, `_node_id` under REPEATABLE READ, column
   level in `LineageServer`.

## 3. Modules

| Module | Models | State and actions |
|---|---|---|
| `TableGraph` | nothing in the code: reachability as the least closed set, distances and path counts by walks | operators only |
| `ClosureBFS` | `compute_closure` | its local variables; one action per step of its loops. The order of keys and neighbours (a Python `set`) is open |
| `IncrementalPatch` | `replace_edges_for_sql` and `incremental_patch` for any number of statements | `parsed` stands for the statement's rows of `lineage_edge`; `patch[s]` holds what the second transaction read on its snapshot. `ReplaceEdges` ends at the first commit, `ComputeRegion` at the last read, `CommitPatch` at the second commit; `Degrade` is the early return; `InterruptPatch` a failure with what `record_run` commits. `AtOnce` runs may be under way together. `drift` is history for the properties: `none` while every change came alone, kept its target and named no new upstream, `upstream` after one that named a new upstream, `lost` after anything else |
| `TmpFold` | `derive.py` as a function on sets of edges | operators; chains by recursive functions over their length |
| `LineagePipeline` | `full_rebuild`, `incremental`, `upsert_sql`, `manual_lineage` on the shared tables | one action per commit or DDL statement; `pc[r]` is the place of rebuild `r`, `hook` the incremental run. `StatementFails` is a statement that meets a table another rebuild dropped, renamed or filled; `LeftOver` what an error leaves committed. `ghost` is history for the properties, `left` the remaining bounds |
| `LineageStore` | the abstract specification: what readers of `lineage_edge` and `table_closure` are promised | `served`, `links`, and `draft`, the closure being prepared |
| `Ingest` | `fetch_from_scheduler`, `upsert_sql`, the `collect-sql` loop, `parse_sql` and `_parse_job`, the statuses and edges of `full_rebuild`, `health.check` | `collector` is the process and its place in page, list and hook; `rebuild` the nightly run between its read, its load and its swap; `rows` is `sql_repository` with the levels of lineage each statement is served with. `Returns` is `parse_sql` as the list of its early returns over what can be wrong with a text. `fresh` and `overtaken` are history |
| `LineageServer` | `get_lineage`, `get_lineage_path`, `impact_analysis`, `search_term` and `cache.cached` | one action per SQL statement or cache access; `local[r]` holds a call's variables. The pipeline is the environment: `PublishEdges`, and later `PublishClosure`. `fresh` and `lastChange` are history |
| `PlanCompiler` | `compile_plan`, `validate_select_only`, the checks of `run_adhoc` | functions: lists of checks in the order the code raises, and what the compiled SQL shows, filters, joins, masks and limits |
| `Gateway` | both handlers, the executor, the audit | `step[r]` is the place of the thread of request `r`; `platform`, `slots` and `warehouse` are the holders of the audit pool, the semaphore and the executor's pool |
| `PortalChat` | `api_chat`'s generator, `run_conversation`, `call_tool`, `degraded_answer`, `write_audit`, the async handlers | `chat[c].at` is the place in the code, `.out` the event the generator waits with at its yield; `loop` is the handler that keeps the event loop; `pool` the holders of a connection; `ran` is history |
| `Catalogue` | `metadata_sync.sync`, `create_glossary`, `update_glossary` with the page behind them, `vectorize.build` | the metastore and its copies, the terms and what each editor's page showed, the collections and the build's place among its batches. `since`, `sinceRead` and `synced` are history |
| `MC*` | instances for TLC | |
| `*Proofs` | the theorems: one module per component, `ServicesProofs` for server and portal, `TableGraphProofs` for graphs | |

Operators named *Mutant* in a comment are faulty variants of the definition below them. The runs are
repeated with each in place of its original, and the property named in `PROJECT.json` must then fail.

Abstractions.

- *Tables, columns, texts.* Tables stand for lineage nodes: column edges go through the same code with
  (table, column) keys. Confidence, expressions, conditions, stats and log lines are left out. A text is a
  model value with the tables it reads (`LineagePipeline`) or with its flaws (`Ingest`).
- *Pipeline.* A closure is a set of pairs, and edge tables are sets of rows, so a row that two overlapping
  rebuilds insert twice counts once. A RENAME waits for a transaction that has read the table (metadata
  locks), here the hook's. The incremental fold is one step: what it read cannot be renamed away before it
  commits, and other writers touch other rows.
- *Ingest.* `rows[k].edges` is the set of levels (table, column) the statement is served with. The rebuild
  is reduced to its read, its load and its swap, since `LineagePipeline` has the rest.
- *Server.* A table is a number in the order of full names, because `ORDER BY` breaks ties by it. The rows
  of a level arrive in any order (no `ORDER BY` there), so what is dropped at `MAX_NODES` is open. The clock
  ticks in units of 30 s, the shortest TTL being 60 s; a statement takes less than a tick, so that a tick
  falls only between an answer and its being stored.
- *Gateway.* SQL text is a record of what the checks and the warehouse see of it and of the
  columns it shows. Compiled metric SQL also
  passes `validate_select_only`; it is a SELECT with a LIMIT by construction, and the model assumes that no
  metric file names a blacklisted base table, which is left to whoever writes them.
- *Portal.* What the LLM says is open at every round; `delta` events after the first are dropped.
- *Catalogue.* Of a column only its comment is kept and of a term its caliber, status and certification.
  The editors' buttons are the ones the page shows for what it loaded.

## 4. Runs

| Run | Question | Bounds |
|---|---|---|
| `closure` | are rows, distances, path counts and connectivity of `compute_closure` exact, is a table expanded only when its count is final, does the traversal end | one graph of each shape of 4 tables without self-loops, and all graphs of 3 tables with them; 4 is the least at which two shortest paths meet; every order of keys and neighbours |
| `patch` | is the closure exact after incremental runs that name only known upstreams, does a new upstream lead to omissions only, can an insert ever collide | 4 tables, 3 statements (cycles, two equal paths, a failed parse, a target that moves), 2 runs at once, threshold 8 (reached), 1 database error |
| `pipeline` | in what order are edges and closure published, what does a success mean, does drawn and re-parsed lineage stay, does the pipeline implement `LineageStore`, does the night repair everything but what it aborts on or times out on again and again | 1 rebuild process at any number of nights, 2 statements on a chain of 3 tables, 1 change or drawing, 1 hook, 1 fault, a text that may time out and one that does not parse; limits 60 % and 50 %, so that each check both passes and aborts |
| `pipeline_overlap` | does the night repair everything also when a rebuild started by hand runs beside it | 2 rebuild processes, 1 change, 1 fault; limits too wide to abort |
| `pipeline_tmp` | does folding hide the tmp tables and nothing else | 4 tables, 2 of them tmp, 3 statements of one task, a cycle between the tmp tables, 1 change, 3 hooks, threshold 1 |
| `ingest` | is a status that of the text it stands by, does a green health check mean that everything is served with the levels its status and reason say, is everything stored and parsed in the end | 2 numbered nodes and 1 without number, texts of every kind that behaves differently (several inserts, crashing, unresolved star, slow, unregistered task), pages of 1, 2 attempts, 1 change (a new text, a withdrawn task or a drawing), 1 fault; collections and rebuilds repeat for ever |
| `server` | are lineage answers, paths, pages and families exact where nothing was published, and well formed where something was; does every call return | 2 calls, the second asking what the first may have cached or the next page of it; a diamond and a cycle with a self-loop on 4 tables; depth 2 and 3 nodes, so that both limits are hit; 1 publication of edges, the closure after it, a clock over two rebuild hours |
| `gateway` | is what runs within the policy, does an answer or a refusal have just its rows and a metric query its customer mark, does every request end | 1 metric and 2 ad hoc requests, 1 slot, a pool of 3; 4 dimensions (plain, joined, L3, L4) used in every clause, 3 users, statements that each fail one check and two that fail none, one of which shows customers; 1 failure of LLM, warehouse or audit |
| `portal` | does the audit name every call, does a chat have its row before its end, and a degraded one a card or an error to show, do connections come back, does everything end | 2 chats and 1 write on a pool of 3, 2 tool rounds of 1 call, 2 failures (the LLM's, and then a connection's or a statement's, in one chat), clients that leave at any event |
| `catalogue` | can a search find what its source no longer says, which sync are snapshots, rows and online flags of, is a certification ever undone | 3 columns of 2 tables, 1 term, 2 editors, batches of 2, 2 days, 3 changes, 1 failure; editors, like columns and calibers interchangeable |

The bounds count events (new texts, publications, faults, clients' requests), never steps. One event of each
kind is enough for what the pipeline's properties compare, because each speaks of one rebuild or one hook and
everything that can meet it; the hazards of two hooks at once are the subject of `patch`. In `server` one
publication puts a statement of a call before or after it, and a second would only make the answer less
comparable; in `portal` two failures are what it takes to have the LLM fail and then the cards; in
`catalogue` three changes let a term be created, changed and changed again by the other editor, or a table
go and come back between two syncs. `HookedLineageStays` leaves out the statements in `ghost.overtaken`, and
`GreenHealthIsTrue` those in `overtaken`: a rebuild that had read the texts before the hook ran publishes
something else for it until the next night.

Two runs are expected to fail and show where the code departs from its own documentation:

| Run | Shows |
|---|---|
| `gateway_pool` | with as many refused ad hoc requests at once as the platform pool has connections (here 2), each holds the connection of `run_adhoc`'s frame, which its exception keeps alive, and waits for another one to write its audit row. No row is ever written, although `audit.py` says that a refused request leaves its trace too |
| `pipeline_abort` | a rebuild that aborts at the closure check has already renamed the edges, so readers are left with the new edges and the old closure, although `rebuild.py:4` has the old lineage keep serving (`AbortKeepsOldService`) |

Where a property of a passing run had to follow the code against a sentence of the repository, its comment says
so, section 6 lists it as a departure, and `PROJECT.json` quotes the sentence under `findings`.

### Fairness

`ClosureBFS` assumes that the function keeps running (`WF` of its next step): nothing can disable it.
`LineagePipeline` assumes that cron starts the nightly rebuild whenever it is idle, that a rebuild
process that has started keeps taking steps until it ends, and that the hook does too; `Ingest` assumes the
same of the daily collection and of the rebuild. Nothing is assumed of people, the platform, errors or
crashes. Weak fairness is enough, since a waiting RENAME stays enabled once the hook's transaction has
ended, and the hooks of an instance are bounded.

The three services assume only that *some* thread, call or event goes on as long as one can (`WF` of their
disjunction). The operating system schedules every thread, so this is less than what it guarantees. It is
enough because the requests of an instance are finitely many and each is a finite number of steps; what
could keep one from ending is a wait for a resource whose holder waits in turn, and that is what
`EveryRequestEnds` and `EverythingEnds` look for. They hold where the pool has more connections than there
are ad hoc requests, or chats; `gateway_pool` is the case where it has not. A call of the LLM or of the warehouse
ends by its answer or its timeout. `Catalogue` has no liveness property and assumes nothing.

### Where the services stop

`Gateway`, `LineageServer` and `PortalChat` are run without the deadlock check: every request of an
instance is made once, and then nothing is left to do. The other runs check for deadlock.

## 5. Proofs

The theorems hold for every value of the constants that the modules' `ASSUME`s admit: any number of tables,
statements, texts, requests, chats and terms, any limits, and any number of failures. Those assumptions
say what a constant is, with these exceptions. `IsFiniteSet(Tables)` (`ClosureBFS`, `IncrementalPatch`, `LineageServer`) and
`IsFiniteSet(TmpTables)` (`LineagePipeline`): a database has finitely many tables; shortest walks are counted
and chains of tmp tables end because of it. `PlansTyped` and `StatementsTyped` (in `GatewayProofs`):
limits are natural numbers, and statements have the fields the checks look at. `ServerAssumption`: the
shortest TTL is 60 s, two ticks, and less than a day. `CallAssumption`: pages count from 1 and sizes from 0, since a
negative LIMIT or OFFSET is an error of the database.

| Theorem | Says | Assumes besides |
|---|---|---|
| `ClosureBFSProofs!ClosureIsReachability` | `TypeOK /\ ConnectivityExact`: every finished search recorded exactly what its ancestor reaches | – |
| `ClosureBFSProofs!ClosureIsExact` | `RowsExact`: what is returned is the closure row for row, with distances and numbers of shortest paths | – |
| `ClosureBFSProofs!ExpandedWhenFinal` | `ExpandedIsFinal`: a table is expanded with its final distance and count | – |
| `IncrementalPatchProofs!PatchExact` | `KnownUpstreamPairsExact`: between runs the closure's pairs are exact while `drift = "none"` | – |
| `IncrementalPatchProofs!PatchRowsExact` | `KnownUpstreamRowsExact`: so are its rows | – |
| `IncrementalPatchProofs!ShortNotWrong` | `NewUpstreamOnlyOmits`: a new upstream leaves pairs out and never makes one up | – |
| `IncrementalPatchProofs!RowsUnique` | `NoDuplicateRow`: a pair has one row, whatever runs together, fails or drifts | – |
| `TableGraphProofs!RegionUnaffected` | a change of the edges into `t` whose new sources were upstream of `t` changes connectivity only inside ancestors(t) x descendants(t) | – |
| `LineagePipelineProofs!RebuildPublishes` | `PublishedInOrder /\ SuccessPublishesBoth`: wherever a rebuild that nobody writes beside stops, readers have old and old, new edges and old closure, or new and new; an abort at the first check leaves the first, at the second check the second; a success means the drawn edges, those of every active text parsed in time, and their closure | `ByHand = {}` (cron alone starts rebuilds) |
| `LineagePipelineProofs!RebuildHidesTmp` | `RebuildHidesOnlyTmp`: a success leaves no edge at a tmp table and the reachability between the others as it was | `ByHand = {}` |
| `LineagePipelineProofs!DrawnStays` | `DrawnLineageStays`: lineage drawn while no rebuild stands between copy and rename stays exactly as drawn | `ByHand = {}`; nothing is drawn at a tmp table (the full fold would delete it) |
| `LineagePipelineProofs!HookedStays` | `HookedLineageStays`: the edges a hook wrote stay until the text changes | `ByHand = {}`; no text reads or writes a tmp table (folding would replace its edges) |
| `LineagePipelineProofs!WholeGraphsServed` | `ServesWholeGraphs`: the pipeline implements `LineageStore` | `ByHand = {}`; nothing is drawn at a tmp table |
| `LineagePipelineProofs!PipelineTyped` | `TypeOK` | – |
| `IngestProofs!IngestTyped`, `StatusFitsItsText`, `HealthIsTrue` | `TypeOK`, `StatusIsOfItsText`, `GreenHealthIsTrue`: a status is that of the row's text, and a green health check means edges, status and reason of one parse of each text, with the levels that go with them | – |
| `GatewayProofs!GatewayTyped` | `TypeOK`: pools and semaphore are never overdrawn | – |
| `GatewayProofs!PolicyHolds` | `QueriesWithinPolicy`: whatever is asked by whomever, and whatever the LLM writes, what runs is within the policy | `PlansTyped`, `StatementsTyped` |
| `GatewayProofs!AnswersHaveTheirRows` | `AnswersAreAudited`: who gets data has exactly one row, marked for a metric query exactly when customers are shown and never for an ad hoc one; a refusal by a check has its row, `unknown_metric` none | – |
| `ServicesProofs!ServerTyped` | `ServerTypeOK`: besides the types, no stored answer outlives a day | – |
| `ServicesProofs!LineageIsExact` | `LineageExact`: an answer nothing was published behind, cached or not, has every edge at its level, or says it is cut and omits only from its last levels | – |
| `ServicesProofs!PathsAreShortest` | `PathIsShortest`: a path is a simple chain of edges that were served, whatever is published meanwhile, and a shortest one when nothing is | – |
| `ServicesProofs!PagesAreComplete` | `PagesComplete`: two pages of a list miss nothing and show nothing twice | – |
| `ServicesProofs!FamiliesAreExact` | `FamiliesExact`: families are the candidates joined by chains of related ones | – |
| `ServicesProofs!PortalTyped` | `TypeOK` | – |
| `ServicesProofs!ConnectionsReturn` | `ConnectionsComeBack`: a chat holds a connection only while a tool or a statement of the cards needs it | – |
| `ServicesProofs!RowsNameEveryCall` | `AuditNamesEveryCall`: the row of a chat names the calls it made, in order, but for the search or lineage of a card that broke it off with an error | – |
| `ServicesProofs!DoneIsTrue` | `DoneIsAudited`: one row when the end is offered, none before; a degraded chat showed a card or an error, and an error exactly when its row says so | – |
| `CatalogueProofs!CatalogueTyped`, `SearchIsFresh`, `SnapshotsFit` | `TypeOK`, `SearchFindsNothingOlder`, `SnapshotFitsCatalogue`: online tables and their newest snapshots are those of the newest sync, every row that of the last sync that saw its column | – |
| `CatalogueProofs!CertificationIsKept` | `CertificationStays`, an action property: no step undoes a certification | – |

*Induction.* The installed provers cannot instantiate the library's induction theorems, which take an
operator. `TableGraphProofs` has what replaces them: `Least` (a nonempty set of naturals has a least member,
from `NatLessThanWellFounded` and `WFMin`, which take relations) and `AllNaturals` (a set of naturals that
contains 0 and successors is all of them). The property to prove is made a set of numbers, and a recursive function
is first shown to exist up to each number (`KeptExists`, `StackExists`).

*Walks.* `TableGraph` defines reachability as membership in every closed set, distance as the least length of
a walk and path counts as numbers of walks. The lemmas that join them are in `TableGraphProofs`: a shortest
walk repeats no table and so is shorter than the number of tables (`ShortestWalk`, by the pigeonhole
principle for finite sets), reachability is the existence of a walk, and every walk of `k + 1` edges is one of `k` edges
and one edge more, in exactly one way.

*Closure.* `ConnectivityExact` speaks of finished searches and is not inductive. `IInv` adds what the running
search has reached and still owes: every reached table is reachable, and every neighbour of a reached table
is reached unless that table still waits in the queue or is being expanded. When the queue is empty and
nothing is owed, the reached tables form a closed set that contains the ancestor; `Reaches` is membership
in every such set, so nothing reachable is missing. For the rows `ExactInv` adds `SearchOrder`, the order of
the queue (its tables have the distance of the table being expanded or one more, in this order), and
`Counted`: `cnt[t]` is the number of shortest walks to `t` whose last edge has been followed. The level lemma
(`LevelWalk`) turns the order into distances: what is at distance `k` is reached before anything at distance
`k` is expanded, so no count changes after its table was expanded.

*Patch.* The invariant speaks while `drift = "none"`, when at most one run is under way, and says where it
stands: idle, the pairs are exact; after `ReplaceEdges` they are exact outside the region around the target
(`RegionUnaffected`) and the region read from the closure is that of the old edges; after `ComputeRegion`
the rows held are the connected pairs of the region. `CommitPatch` joins the two. That new sources were
already upstream is needed exactly where a newly read table would go missing without it. For the rows the
same is said of all walks: outside the region no walk passes the target, so walks, distances and counts are those
of the old edges. `ShortInv` is the weaker claim after a new upstream (what is recorded is
connected, and what is missing starts at a table not listed), and `RowInv` needs none of this: what is
inserted lies in the region that was just deleted, one row per pair.

*Order of publication.* The two properties speak of stopped and finished rebuilds. `OInv` says what holds at
each step while nobody has written since the start: before the first rename readers have the old pair and
the shadow table holds what the steps so far put there (the kept edges, then those parsed, then the folded
graph); between the renames they have the new edges and the old closure, and the closure's shadow is that
of the edges served; at the end both are new. Every fault and abort goes to "idle", where the three outcomes
are allowed, so one lemma (`StopOrder`) covers them all. A writer beside the rebuild sets `ghost.touched`,
and the claims begin again at the next start.

*Folding.* A chain of the search stack is characterised as a function (`IsChain`): it starts at a lasting
table, passes through tmp tables only and none twice, hence no longer than their number. A set of tables closed
under the edges is closed under the folded ones; conversely a closed set of the folded graph, extended by the
tmp tables of the chains that start in it, is closed under the edges. Since `Reaches` is membership in every
closed set, reachability between lasting tables is the same before and after, cycles of tmp tables included.
`RebuildHidesTmp` applies this to the graph that `OInv` says was published.

*Drawn and hooked lineage.* `DInv` adds that the shadow table holds the drawn edges from the copy on, except
those to tables drawn to since, and that no drawn edge is at a tmp table. `FoldKeepsDrawn` is the lemma about
`derive.py` it rests on: a synthetic edge has the type of an edge of the working set, which then holds no
drawn edge, and only edges of the working set are deleted. `HInv` says the same of the parsed edges: what a
statement is served with is a parse of its current text, and so is what a rebuild has parsed for it or put into
the shadow table, unless the hook ran after the rebuild had read the texts.

*Refinement.* `WholeGraphsServed` maps every step of `LineagePipeline` to a step of `LineageStore` or to a
stutter. What the store needs of a state is `RInv`: the results held by a rebuild are parses (`JobsFit`), the
edge shadow about to be renamed is a build of them (`EdgeDraft`), the closure shadow is
the closure of some edges that were served (`ClosureDraft`), and a hook's pairs are those of the region it read (`PatchDraft`).

*Ingest.* `RowInv` is the claim for one row together with what each part of the state may still do to it: the
text a rebuild in between has read, whether the row was written since (`fresh`, `overtaken`), and what the last
run left. Each step writes one row (`WrittenInv`) or, at the swap, all rows from the parses of the texts read.
`Leveled` says which levels go with each result of a parse, over the early returns of `parse_sql`.
`Filtered` is characterised by induction over the listing.

*Gateway.* `QueriesWithinPolicy` speaks of what is in the warehouse. `IInv` says it from the moment a
request is cleared to wait for a slot, and that nothing after that touches the work (`ClearsNobody`). The
weight is in the two lemmas about the checks: no error means every check held (`NoErrorNoFailure`, by the
least failing check), and then every clause of the SQL is within the policy (`CompiledWithinPolicy`,
`CheckedWithinScope`). `Traced` says for one request which rows it has at each place of its thread; a request's
step leaves the others' rows alone (`OthersTraced`). The limits are proved with the cardinalities of the holders.

*Server.* `ServerInv` says of each call, at each place of its tool, what its local variables are worth while
nothing has been published since it asked (`AtPlace` with `fresh`), and what they are worth in any case: the parents of
a path search lead back to the start along edges of some generation. A publication takes the first away and leaves
the second (`AtPlaceStale`). `TableGraphProofs` describes distance by what a breadth-first search sees of it
(`Far`): level by level the frontier is what is at that distance (`LevelsGrow`, `PathGrows`), and a level
that is empty is the last. A list in the order of hops and names is the only one (`OneSorted`), so two calls
page through the same list though each sorts for itself. Of the cache the invariant knows when the answer was asked for
and when it was stored, at most a tick later (`StoredEntry`). `SettledSince` is the arithmetic of the hours: who asks a tick
after an hour, and finds nothing published since two ticks before it, finds no answer asked for before the last
publication, because what was stored before the hour has expired. Families: who shares a root is linked, and every link has
one root or its pair still to do (`RootsFit`); what was asked before is still true (`AskedRight`).

*Portal.* `Good` says of one chat what relates its place, its trace and the calls it made: equal, but for
one call more while a tool is under way and after a statement that broke the chat off. A row agrees with
the chat it was written for, which calls nothing any more (`RowOf`). Each step touches one chat (`OneChat`).
`Told` relates the place to what the client has seen and to the number of rows, across the failure of the LLM
and of the connection for the cards.

*Catalogue.* `IndexInv` carries the sets of what a source has said since the newest complete build read it:
what the build wants and what the source says now are among them, and an entry of an opened collection that the build
does not still have to write is as it wants it. `SnapshotInv` adds that no snapshot is newer than the day, so the
newest is that of the last sync.

Only model-checked: what must eventually happen (`Terminates`, `NightlyConverges` and the others
under fairness), which is beyond the provers.

## 6. What the models show besides

Behaviour met while modelling that is in the models as the code has it, or left out where said, and that
the properties step around by their conditions or state outright. Those that contradict a sentence of the
repository are marked † and are findings in `PROJECT.json`. Line numbers are those of the files under `src`.

*Pipeline*
- A newly read table does not become an ancestor after a patch, because the region is read from the old
  closure (`closure.py:94`); the night repairs it. `NewUpstreamOnlyOmits` bounds the damage.
- `record_run` commits the half of a patch, or of a status update, that was executed before an error
  (`db.py:62`).
- Re-parsing one segment of a folded chain loses what is upstream of the tmp table until the night
  (`derive.py`, `fold_for_task`); the full fold also deletes drawn and ingested edges at tmp tables
  (`derive.py:150`).
- Lineage drawn between the copy and the rename of a rebuild is lost (`rebuild.py:102`); drawing the same
  target for another statement removes what was drawn for the first.
- Two rebuilds at once share the shadow table, and an empty one may be renamed into place (`rebuild.py:100`).
- † An abort at the closure check comes after the edges were swapped (`rebuild.py:120`; run `pipeline_abort`), and
  every later night meets the same limit and aborts again (`rebuild.py:124`): `GaveUp` in `NightlyConverges`.
- † A text that times out is published as degraded with no edges at all (`rebuild.py:39`), where the message of
  the result and the design document promise the table level; `SuccessPublishesBoth` states what happens. The
  incremental run has no timeout and gives it all its edges, until the night.
- The `WHERE` of a task's fold falls away when the task has no active statement (`derive.py:127`); the model has
  it (`TaskSqls`), with `Active` the statements whose `is_active` is 1, which nothing in the pipeline changes.
- `INSERT IGNORE` followed by a SELECT on an older snapshot may find no node (`loader.py:36`; not modelled).

*Collection*
- A statement without `node_seq` is inserted again by every collection, and its old texts stay active
  (`sql_collector.py:71`); so does a task that is withdrawn from the platform.
- A text on which the parser raises ends the collect loop; what is listed after it waits for the next day
  (`cli.py:35`).
- A drawing sets the status to `manual`, and the next rebuild writes its own over it, so the statement is
  back in the failed queue.
- † A statement that is degraded for `timeout` is served with no level at all, and the check stays green;
  `GreenHealthIsTrue` states the levels of each status and reason (`LevelsOf`).
- † A run that died stays `running` with no end, which the health check never calls stale (`health.py:24`),
  although an alarm past 26 hours is documented. The age of a finished run is not modelled, and nothing is claimed
  of a check that finds the newest run `running`.

*Server*
- One failed connection to Redis disables the cache for the life of the process (`cache.py:29`).
- An answer computed after the rebuild hour but before the swap is kept until the next rebuild hour.
- `list_metrics` sends a POST to `/metrics`, which the gateway serves by GET (`lineage-mcp-server`
  `app.py:83`, `query-gateway` `app.py:47`; not modelled); its timeout of 60 s is shorter than that of LLM
  and query together.

*Gateway*
- A dimension of a joined table that is only filtered or ordered by is not joined (`compiler.py:114`):
  EXPLAIN refuses the statement, and the caller gets a 500 without an audit row. So do errors of the LLM,
  of its SQL when it does not parse, and of the databases. `AnswersAreAudited` therefore speaks of answers and
  refusals.
- † The row of an ad hoc query never has the customer mark (`app.py:90`), whatever columns its statement shows,
  and `unknown_metric` leaves no row at all (`app.py:55`); `AnswersAreAudited` states both.
- Row policy and masking are those of compiled plans; to an ad hoc statement the code applies neither.
- A LIMIT that the LLM wrote is kept however large it is. A negative limit of a plan is a syntax error.
- The semaphore is given back before the warehouse connection is, so a request may hold the one and wait for
  the other for a moment.

*Portal*
- The async handlers wait for a connection on the event loop. When as many chats as the pool has connections
  stand at a card, nobody goes on: `EverythingEnds` holds for pools larger than that.
- † `LLM_MAX_TOOL_ROUNDS` rounds are documented, one more is made (`llm.py:160`); `TypeOK` has the code's bound.
- † A client that leaves before the end has no audit row, although every chat is documented to have one;
  `DoneIsAudited` states it.
- An LLM that ends with an empty answer leads to `done` without one.
- The edit form sends the status it showed, so saving from a stale page can bring a deprecated term back.
  Renaming a term to an existing one is a 500, where creating one is a 409.

*Catalogue*
- † Columns that are dropped keep their row in `column_metadata` (`metadata_sync.py:100`), and so their entry in
  the vectors, where a daily diff is documented; `SnapshotFitsCatalogue` states whose row it is.
- REPLACE resets the fields it does not name
  (`is_sensitive`, `sens_level`); a metastore that shows no table takes none offline.
- `content_hash` leaves out certification, owner, reference table and table comment, so a change of only
  these does not reach the collections (`vectorize.py:138`). Nothing in `deploy` starts the vector build.

## 7. Not modelled

Report formatting, configuration, HTML templates, the benchmark and gold-standard tools and the deployment
scripts keep no state the program shares. `get_table_info`, the dashboard, the coverage report, `GET /metrics`
and cycle detection only read. Not yet: column level in the server, node ids, the loop inside `fold_level`,
schema snapshots and stats of a rebuild. The inside of sqlglot, MySQL, Redis, the LLM and the vector store
is met only through what the code does with them.
