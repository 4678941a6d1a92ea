---------------------------- MODULE LineageServer ---------------------------
(***************************************************************************)
(* lineage-mcp-server: the tools get_lineage, get_lineage_path,            *)
(* impact_analysis and search_term as the sequences of statements they     *)
(* are, each statement seeing what is served at that moment, with the      *)
(* Redis cache before two of them.  lineage-pipeline is the environment:   *)
(* it publishes edges, and some time later their closure (see              *)
(* LineageStore).  A table is its place in the order of full names.        *)
(***************************************************************************)
EXTENDS TableGraph, Sequences, SequencesExt, Functions

CONSTANTS
  Tables,        \* names with a node, numbered in the order of ORDER BY
  Graphs,        \* the table edges a generation may have
  Readers,       \* tool calls, each asked once
  QueriesOf,     \* QueriesOf[r]: what it may ask
  Found,         \* Found[k]: hits of a keyword, exact, fuzzy and by vector
  TasksOf,       \* TasksOf[t]: active tasks that write t
  MaxDepth, MaxNodes,
  DayLength,     \* ticks from one REBUILD_HOUR to the next, a tick is 30 s
  MinTtl,        \* the shortest TTL, in ticks
  LastTick, Changes  \* bounds: the clock, the edges published

ASSUME ServerAssumption ==
  /\ Tables \subseteq Nat /\ IsFiniteSet(Tables) /\ Graphs \subseteq SUBSET (Tables \X Tables)
  /\ MaxNodes \in Nat \ {0} /\ MaxDepth \in Nat
  /\ DayLength \in Nat /\ MinTtl \in 1..2 /\ MinTtl < DayLength  \* 60 s at least
  /\ LastTick \in Nat /\ Changes \in Nat

(* What the four tools may be asked; the name of a table need not be known. *)
(* A page below 1 or a negative size is no question: LIMIT refuses it.       *)
LineageQueries == [kind : {"lineage"}, table : Nat, direction : {"upstream", "downstream"},
                   depth : Int]
PathQueries == [kind : {"path"}, from : Nat, to : Nat]
ImpactQueries == [kind : {"impact"}, table : Nat, group : {"table", "task"},
                  page : Nat \ {0}, size : Nat]
SearchQueries == [kind : {"search"}, keyword : DOMAIN Found]

ASSUME CallAssumption ==
  /\ \A r \in Readers :
       QueriesOf[r] \subseteq LineageQueries \cup PathQueries \cup ImpactQueries \cup SearchQueries
  /\ \A k \in DOMAIN Found : {Found[k].exact, Found[k].fuzzy, Found[k].similar}
                               \subseteq Seq([table : Tables \cup {0}, rank : Nat])

VARIABLES
  edges, closure,  \* what lineage_edge and table_closure serve
  now,
  client,          \* cache._client: "none", "connected", or "failed" for good
  cache,           \* cache[q]: a stored answer with its expiry, or None
  phase, query,    \* of each call
  local,           \* its local variables
  answer,          \* what it returned
  began, fresh,    \* when it asked; it computed itself and nothing changed since
  lastChange, changes

served == <<edges, closure, lastChange, changes>>
reader == <<phase, query, local, answer, began, fresh>>
serverVars == <<served, now, client, cache, reader>>

None == [kind |-> "none"]
Queries == UNION { QueriesOf[r] : r \in Readers }
CachedQueries == { q \in Queries : q.kind \in {"lineage", "impact"} }
Closures == [g \in Graphs |-> ClosureRows(Tables, g)]

ServerInit ==
  /\ edges \in Graphs /\ closure = Closures[edges]
  /\ now = 0 /\ client = "none" /\ cache = [q \in CachedQueries |-> None]
  /\ phase = [r \in Readers |-> "idle"] /\ query = [r \in Readers |-> None]
  /\ local = [r \in Readers |-> None] /\ answer = [r \in Readers |-> None]
  /\ began = [r \in Readers |-> 0] /\ fresh = [r \in Readers |-> FALSE]
  /\ lastChange = -DayLength /\ changes = 0

ServerTypeOK ==
  /\ edges \in Graphs /\ closure \in { Closures[g] : g \in Graphs }
  /\ now \in 0..LastTick /\ client \in {"none", "connected", "failed"}
  /\ \A q \in CachedQueries : cache[q] # None => cache[q].expires <= now + DayLength
  /\ phase \in [Readers -> {"idle", "lookup", "start", "level", "node", "page",
                            "pairs", "computed"}]
  /\ query \in [Readers -> Queries \cup {None}]
  /\ \A r \in Readers : began[r] <= now /\ fresh[r] \in BOOLEAN
  /\ lastChange <= now /\ changes \in 0..Changes

(* A dict g updated by f. *)
Updated(g, f) == [x \in DOMAIN g \cup DOMAIN f |-> IF x \in DOMAIN f THEN f[x] ELSE g[x]]

Goto(r, p) == phase' = [phase EXCEPT ![r] = p]
Keep(r, l) == local' = [local EXCEPT ![r] = l]
Reply(r, a) == /\ Goto(r, "idle") /\ answer' = [answer EXCEPT ![r] = a]
               /\ Keep(r, None)
(* The result of compute(): stored first where there is a cache. *)
Result(r, a) == IF local[r].store
                THEN /\ Goto(r, "computed") /\ Keep(r, a)
                     /\ UNCHANGED answer
                ELSE Reply(r, a)

-----------------------------------------------------------------------------
(* The environment, as long as some call is still to come or to return. *)

Busy == \E r \in Readers : query[r] = None \/ phase[r] # "idle"

Changed == /\ Busy /\ lastChange' = now
           /\ fresh' = [r \in Readers |-> FALSE]
           /\ UNCHANGED <<now, client, cache, phase, query, local, answer, began>>

PublishEdges == /\ changes < Changes /\ changes' = changes + 1
                /\ edges' \in Graphs \ {edges} /\ UNCHANGED closure
                /\ Changed
PublishClosure == /\ closure # Closures[edges] /\ closure' = Closures[edges]
                  /\ UNCHANGED <<edges, changes>>
                  /\ Changed

(* Bound: statements take less than a tick; a tick may fall between an     *)
(* answer and its being stored, not more.                                  *)
Tick == /\ Busy /\ now < LastTick /\ now' = now + 1
        /\ \A r \in Readers : phase[r] = "idle" \/ (phase[r] = "computed" /\ began[r] = now)
        /\ UNCHANGED <<served, client, cache, reader>>

-----------------------------------------------------------------------------
(* The tools of app.py and cache.cached around get_lineage and             *)
(* impact_analysis.                                                        *)

Ask(r) ==
  /\ query[r] = None
  /\ \E q \in QueriesOf[r] :
       /\ query' = [query EXCEPT ![r] = q]
       /\ Goto(r, IF q \in CachedQueries THEN "lookup" ELSE "start")
  /\ began' = [began EXCEPT ![r] = now] /\ fresh' = [fresh EXCEPT ![r] = TRUE]
  /\ Keep(r, [store |-> FALSE])
  /\ UNCHANGED <<served, now, client, cache, answer>>

Live(q) == cache[q] # None /\ now < cache[q].expires

Hit(r) ==
  /\ phase[r] = "lookup" /\ client # "failed" /\ Live(query[r])
  /\ client' = "connected"
  /\ Reply(r, cache[query[r]].answer)
  /\ fresh' = [fresh EXCEPT ![r] = FALSE]
  /\ UNCHANGED <<served, now, cache, query, began>>

Miss(r) ==
  /\ phase[r] = "lookup" /\ client # "failed" /\ ~Live(query[r])
  /\ client' = "connected"
  /\ Goto(r, "start") /\ Keep(r, [store |-> TRUE])
  /\ UNCHANGED <<served, now, cache, query, answer, began, fresh>>

(* _redis gives the cache up for good when it cannot connect; a lookup     *)
(* that fails later only skips it.                                         *)
NoCache(r) ==
  /\ phase[r] = "lookup"
  /\ client' = IF client = "none" THEN "failed" ELSE client
  /\ Goto(r, "start") /\ Keep(r, [store |-> FALSE])
  /\ UNCHANGED <<served, now, cache, query, answer, began, fresh>>

(* Mutant: a day, whenever the answer was computed. *)
TtlOneDay == DayLength

(* Mutant: always the hour of tomorrow. *)
TtlTomorrow == 2 * DayLength - (now % DayLength)

(* _ttl_to_next_rebuild *)
Ttl == LET left == DayLength - (now % DayLength) IN IF left > MinTtl THEN left ELSE MinTtl

(* setex; a failure is passed over. *)
Store(r) ==
  /\ phase[r] = "computed"
  /\ \/ "error" \notin DOMAIN local[r]
        /\ cache' = [cache EXCEPT ![query[r]] =
                       [kind |-> "entry", answer |-> local[r], expires |-> now + Ttl]]
     \/ UNCHANGED cache
  /\ Reply(r, local[r])
  /\ UNCHANGED <<served, now, client, query, began, fresh>>

-----------------------------------------------------------------------------
(* repo.get_lineage *)

FindStart(r) ==
  /\ phase[r] = "start" /\ query[r].kind = "lineage" /\ query[r].table \in Tables
  /\ Goto(r, "level")
  /\ Keep(r, [store |-> local[r].store, visited |-> {query[r].table},
              frontier |-> {query[r].table}, hops |-> {}, level |-> 1, truncated |-> FALSE])
  /\ UNCHANGED <<served, now, client, cache, query, answer, began, fresh>>

NoStart(r) ==
  /\ phase[r] = "start" /\ query[r].kind = "lineage" /\ query[r].table \notin Tables
  /\ Result(r, [kind |-> "lineage", error |-> "node_not_found"])
  /\ UNCHANGED <<served, now, client, cache, query, began, fresh>>

(* The edges seen from the frontier, as <<cur, next>>. *)
LevelRows(q, frontier) ==
  { e \in IF q.direction = "upstream" THEN { <<x[2], x[1]>> : x \in edges } ELSE edges :
      e[1] \in frontier }
Nexts(rows) == { e[2] : e \in rows }

(* The rows the loop may have taken when it ends or breaks off, for some   *)
(* order of them: the limit was not reached before the last one.           *)
Taken(rows, visited) ==
  { T \in SUBSET rows :
      /\ T # {} => \E last \in T : Cardinality(visited \cup Nexts(T \ {last})) < MaxNodes
      /\ T # rows => Cardinality(visited \cup Nexts(T)) >= MaxNodes }

Depth(q) == IF q.depth < MaxDepth THEN q.depth ELSE MaxDepth

ReadLevel(r) ==
  LET l == local[r]
      rows == LevelRows(query[r], l.frontier)
  IN  /\ phase[r] = "level" /\ query[r].kind = "lineage"
      /\ l.frontier # {} /\ l.level <= Depth(query[r])
      /\ \E T \in Taken(rows, l.visited) :
           Keep(r, [l EXCEPT !.visited = @ \cup Nexts(T),
                             !.frontier = Nexts(T) \ l.visited,
                             !.hops = @ \cup { <<l.level, e[1], e[2]>> : e \in T },
                             !.level = @ + 1, !.truncated = @ \/ T # rows])
      /\ UNCHANGED <<served, now, client, cache, phase, query, answer, began, fresh>>

EndLineage(r) ==
  LET l == local[r] IN
  /\ phase[r] = "level" /\ query[r].kind = "lineage"
  /\ l.frontier = {} \/ l.level > Depth(query[r])
  /\ Result(r, [kind |-> "lineage", hops |-> l.hops, truncated |-> l.truncated])
  /\ UNCHANGED <<served, now, client, cache, query, began, fresh>>

-----------------------------------------------------------------------------
(* repo.get_lineage_path *)

NotConnected(r, why) == Result(r, [kind |-> "path", connected |-> FALSE, why |-> why])
InClosure(a, d) == \E row \in closure : row[1] = a /\ row[2] = d

CheckClosure(r) ==
  /\ phase[r] = "start" /\ query[r].kind = "path"
  /\ IF InClosure(query[r].from, query[r].to)
     THEN Goto(r, "node") /\ UNCHANGED <<local, answer>>
     ELSE NotConnected(r, "closure")
  /\ UNCHANGED <<served, now, client, cache, query, began, fresh>>

FindEnds(r) ==
  /\ phase[r] = "node"
  /\ IF {query[r].from, query[r].to} \subseteq Tables
     THEN /\ Goto(r, "level") /\ UNCHANGED answer
          /\ Keep(r, [store |-> FALSE, frontier |-> {query[r].from},
                      parent |-> [t \in {query[r].from} |-> t]])
     ELSE NotConnected(r, "node_not_found")
  /\ UNCHANGED <<served, now, client, cache, query, began, fresh>>

(* Mutant: a table met before is entered again, its parent overwritten. *)
NewTablesAll(parent, frontier) == { e[2] : e \in { x \in edges : x[1] \in frontier } }

NewTables(parent, frontier) ==
  { e[2] : e \in { x \in edges : x[1] \in frontier } } \ DOMAIN parent

(* The first row that leads to a new table gives its parent. *)
ReadPathLevel(r) ==
  LET l == local[r]
      new == NewTables(l.parent, l.frontier)
  IN  /\ phase[r] = "level" /\ query[r].kind = "path"
      /\ l.frontier # {} /\ query[r].to \notin DOMAIN l.parent
      /\ \E first \in [new -> l.frontier] :
           /\ \A t \in new : <<first[t], t>> \in edges
           /\ Keep(r, [l EXCEPT !.parent = Updated(@, first), !.frontier = new])
      /\ UNCHANGED <<served, now, client, cache, phase, query, answer, began, fresh>>

(* The hops back from a table to the start, which is its own parent. *)
PathTo(parent, d) ==
  LET chain[n \in 0..Cardinality(DOMAIN parent)] ==
        IF n = 0 THEN <<d>>
        ELSE LET c == chain[n - 1]
             IN  IF parent[c[1]] = c[1] THEN c ELSE <<parent[c[1]]>> \o c
  IN  chain[Cardinality(DOMAIN parent)]

EndPath(r) ==
  LET l == local[r] IN
  /\ phase[r] = "level" /\ query[r].kind = "path"
  /\ \/ /\ query[r].to \in DOMAIN l.parent
        /\ Result(r, [kind |-> "path", connected |-> TRUE,
                      tables |-> PathTo(l.parent, query[r].to)])
     \/ /\ query[r].to \notin DOMAIN l.parent /\ l.frontier = {}
        /\ NotConnected(r, "path_not_found")
  /\ UNCHANGED <<served, now, client, cache, query, began, fresh>>

-----------------------------------------------------------------------------
(* repo.impact_analysis *)

Downstream(t) == { row \in closure : row[1] = t }

CountDownstream(r) ==
  /\ phase[r] = "start" /\ query[r].kind = "impact"
  /\ Goto(r, "page")
  /\ Keep(r, [store |-> local[r].store, total |-> Cardinality(Downstream(query[r].table))])
  /\ UNCHANGED <<served, now, client, cache, query, answer, began, fresh>>

(* Tables by hops, then name; tasks by the number of affected tables only. *)
Items(q) == IF q.group = "table" THEN { row[2] : row \in Downstream(q.table) }
            ELSE UNION { TasksOf[row[2]] : row \in Downstream(q.table) }
Affected(q, k) == Cardinality({ row \in Downstream(q.table) : k \in TasksOf[row[2]] })
HopsTo(q, t) == (CHOOSE row \in Downstream(q.table) : row[2] = t)[3]
Before(q, x, y) ==
  IF q.group = "table"
  THEN HopsTo(q, x) < HopsTo(q, y) \/ (HopsTo(q, x) = HopsTo(q, y) /\ x < y)
  ELSE Affected(q, x) > Affected(q, y)

(* Mutant: ordered by hops alone, ties as they come. *)
ListingsByHops(q) ==
  { s \in SetToSeqs(Items(q)) :
      \A i, j \in DOMAIN s : i < j => q.group = "task" \/ HopsTo(q, s[i]) <= HopsTo(q, s[j]) }

Listings(q) ==
  { s \in SetToSeqs(Items(q)) : \A i, j \in DOMAIN s : i < j => ~Before(q, s[j], s[i]) }

ListPage(r) ==
  LET q == query[r]
      first == (q.page - 1) * q.size + 1
      last(s) == IF first + q.size - 1 < Len(s) THEN first + q.size - 1 ELSE Len(s)
  IN  /\ phase[r] = "page"
      /\ \E s \in Listings(q) :
           Result(r, [kind |-> "impact", total |-> local[r].total,
                      items |-> SubSeq(s, first, last(s))])
      /\ UNCHANGED <<served, now, client, cache, query, began, fresh>>

-----------------------------------------------------------------------------
(* repo.search_term: the first level that finds something; its hits are    *)
(* merged into families, one statement per pair of tables not yet asked.   *)

Candidates(k) == IF Found[k].exact # <<>> THEN Found[k].exact
                 ELSE IF Found[k].fuzzy # <<>> THEN Found[k].fuzzy ELSE Found[k].similar

Search(r) ==
  LET c == Candidates(query[r].keyword) IN
  /\ phase[r] = "start" /\ query[r].kind = "search"
  /\ Goto(r, "pairs")
  /\ Keep(r, [store |-> FALSE, root |-> [i \in DOMAIN c |-> i], asked |-> <<>>,
              todo |-> { p \in (DOMAIN c) \X (DOMAIN c) : p[1] < p[2] }])
  /\ UNCHANGED <<served, now, client, cache, query, answer, began, fresh>>

Related(x, y) == x = y \/ InClosure(x, y) \/ InClosure(y, x)

(* Mutant: only the candidate itself moves, not its whole family. *)
UniteOne(root, i, j) == [root EXCEPT ![j] = root[i]]

(* parent[find(j)] = find(i) *)
Unite(root, i, j) == [k \in DOMAIN root |-> IF root[k] = root[j] THEN root[i] ELSE root[k]]

Precedes(p, x) == p[1] < x[1] \/ (p[1] = x[1] /\ p[2] < x[2])

MergePair(r) ==
  LET l == local[r]
      c == Candidates(query[r].keyword)
      pair == CHOOSE p \in l.todo : \A x \in l.todo \ {p} : Precedes(p, x)
      i == pair[1]
      j == pair[2]
      key == {c[i].table, c[j].table}
      one == IF key \in DOMAIN l.asked THEN l.asked[key] ELSE Related(c[i].table, c[j].table)
      rest == [l EXCEPT !.todo = @ \ {pair}]
  IN  /\ phase[r] = "pairs" /\ l.todo # {}
      /\ IF 0 \in key \/ l.root[i] = l.root[j] THEN Keep(r, rest)
         ELSE Keep(r, [rest EXCEPT !.asked = Updated(@, [k \in {key} |-> one]),
                                   !.root = IF one THEN Unite(@, i, j) ELSE @])
      /\ UNCHANGED <<served, now, client, cache, phase, query, answer, began, fresh>>

Group(root) == { { i \in DOMAIN root : root[i] = x } : x \in Range(root) }
Anchors(fam, c) == { i \in fam : \A j \in fam : c[i].rank >= c[j].rank }

EndSearch(r) ==
  LET c == Candidates(query[r].keyword)
      groups == Group(local[r].root)
  IN  /\ phase[r] = "pairs" /\ local[r].todo = {}
      /\ \E anchor \in [groups -> DOMAIN c] :
           /\ \A fam \in groups : anchor[fam] \in Anchors(fam, c)
           /\ Result(r, [kind |-> "search", anchor |-> anchor,
                         ambiguous |-> Cardinality(groups) > 1])
      /\ UNCHANGED <<served, now, client, cache, query, began, fresh>>

-----------------------------------------------------------------------------
Work(r) == \/ Hit(r) \/ Miss(r) \/ NoCache(r) \/ Store(r)
           \/ FindStart(r) \/ NoStart(r) \/ ReadLevel(r) \/ EndLineage(r)
           \/ CheckClosure(r) \/ FindEnds(r) \/ ReadPathLevel(r) \/ EndPath(r)
           \/ CountDownstream(r) \/ ListPage(r)
           \/ Search(r) \/ MergePair(r) \/ EndSearch(r)

ServerNext == \/ PublishEdges \/ PublishClosure \/ Tick
        \/ \E r \in Readers : Ask(r) \/ Work(r)

(* Some tool call goes on as long as one can. *)
ServerSpec == ServerInit /\ [][ServerNext]_serverVars /\ WF_serverVars(\E r \in Readers : Work(r))

-----------------------------------------------------------------------------
Answered(r, kind) == phase[r] = "idle" /\ answer[r].kind = kind

(* Nothing was published from the minute before the last REBUILD_HOUR on,  *)
(* and the question came after the first minute.                           *)
Settled(r) == \E d \in 0..now : LET hour == d * DayLength
                                IN  lastChange < hour - 1 /\ hour + 1 <= began[r]
Exact(r) == fresh[r] \/ Settled(r)

(* The hops get_lineage should list: each edge at its distance.            *)
AllHops(q) ==
  LET up == q.direction = "upstream"
      E == IF up THEN { <<x[2], x[1]>> : x \in edges } ELSE edges
      rows(t) == { row \in Closures[edges] :
                     IF up THEN row[1] = t /\ row[2] = q.table
                           ELSE row[1] = q.table /\ row[2] = t }
      far(t) == IF t = q.table THEN {0} ELSE { row[3] : row \in rows(t) }
      hops == { x \in (0..Depth(q) - 1) \X E : x[1] \in far(x[2][1]) }
  IN  { <<x[1] + 1, x[2][1], x[2][2]>> : x \in hops }

(* Where nothing was published in between, a lineage answer, cached or     *)
(* not, has every edge within the depth at its level, or says it is        *)
(* truncated: then it names MaxNodes tables and omits hops only from the   *)
(* last levels it shows (get_lineage, cached).                             *)
LineageExact ==
  \A r \in Readers : (Answered(r, "lineage") /\ Exact(r)) =>
    LET q == query[r]
        a == answer[r]
        seen == {q.table} \cup { h[3] : h \in a.hops }
    IN  \/ "error" \in DOMAIN a /\ q.table \notin Tables
        \/ ~a.truncated /\ a.hops = AllHops(q)
        \/ /\ a.truncated /\ a.hops \subseteq AllHops(q) /\ a.hops # AllHops(q)
           /\ Cardinality(seen) = MaxNodes
           /\ \A h \in AllHops(q) \ a.hops, k \in a.hops : h[1] >= k[1]

Distances == { <<row[1], row[2], row[3]>> : row \in Closures[edges] }
IsChain(s, E) == \A i \in 1..Len(s) - 1 : <<s[i], s[i + 1]>> \in E

(* An answer that two tables are connected always comes with a simple      *)
(* chain from one to the other along edges of some generation, even when   *)
(* edges and closure are swapped between its statements; when nothing      *)
(* was, the chain is a shortest path (get_lineage_path).                   *)
PathIsShortest ==
  \A r \in Readers : Answered(r, "path") =>
    LET q == query[r]
        a == answer[r]
    IN  /\ a.connected => /\ Head(a.tables) = q.from /\ Last(a.tables) = q.to
                          /\ IsInjective(a.tables) /\ IsChain(a.tables, UNION Graphs)
        /\ fresh[r] =>
             /\ a.connected <=> /\ InClosure(q.from, q.to)
                                /\ \E x \in Distances : x[1] = q.from /\ x[2] = q.to
             /\ a.connected => /\ IsChain(a.tables, edges)
                               /\ <<q.from, q.to, Len(a.tables) - 1>> \in Distances

(* Two calls that page through the same impact list, whether their pages   *)
(* come from the cache or not, miss no table and show none twice, as long  *)
(* as nothing was published (impact_analysis, cached).  Lists of tasks     *)
(* have ties and promise less.                                             *)
PagesComplete ==
  \A r, s \in Readers :
    /\ Answered(r, "impact") /\ Exact(r) /\ Answered(s, "impact") /\ Exact(s)
    /\ query[r].group = "table" /\ query[s] = [query[r] EXCEPT !.page = 2]
    /\ query[r].page = 1
    => LET all == { row[2] : row \in Downstream(query[r].table) }
           one == Range(answer[r].items)
           two == Range(answer[s].items)
       IN  /\ one \cap two = {} /\ one \cup two \subseteq all
           /\ answer[r].total = Cardinality(all) /\ answer[s].total = Cardinality(all)
           /\ Cardinality(all) <= 2 * query[r].size => one \cup two = all

(* Candidates are in one family exactly when a chain of candidates links   *)
(* them, each related to the next by the closure, whatever their order;    *)
(* then and only then is a search unambiguous (_merge_families).           *)
FamiliesExact ==
  \A r \in Readers : (Answered(r, "search") /\ fresh[r]) =>
    LET c == Candidates(query[r].keyword)
        links == { p \in (DOMAIN c) \X (DOMAIN c) :
                     0 \notin {c[p[1]].table, c[p[2]].table}
                     /\ Related(c[p[1]].table, c[p[2]].table) }
        family(i) == { j \in DOMAIN c : Reaches(DOMAIN c, links, i, j) }
        families == { family(i) : i \in DOMAIN c }
    IN  /\ DOMAIN answer[r].anchor = families
        /\ \A fam \in families : answer[r].anchor[fam] \in Anchors(fam, c)
        /\ answer[r].ambiguous <=> \E i, j \in DOMAIN c : j \notin family(i)

(* Every tool call returns, also on cyclic lineage and while generations   *)
(* are swapped under it.                                                   *)
EveryCallReturns == []<>(\A r \in Readers : phase[r] = "idle")
=============================================================================
