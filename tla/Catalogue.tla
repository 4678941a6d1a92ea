------------------------------ MODULE Catalogue -----------------------------
(***************************************************************************)
(* The catalogue and its vector index: metadata_sync.sync copies tables,   *)
(* columns and a schema snapshot of the day from the Hive metastore; people *)
(* edit the glossary in the portal from pages they loaded earlier;          *)
(* vectorize.build brings two Chroma collections up to what both hold,      *)
(* batch by batch, by the hashes of the entries.                            *)
(***************************************************************************)
EXTENDS Integers, FiniteSets, FiniteSetsExt, TLC

CONSTANTS
  Columns, TableOf,   \* the columns there may be, and the table of each
  Terms,              \* term_id's there may be
  Words, Calibers,    \* what a comment and what a caliber may say
  Admitted,           \* the comments that admission_reason lets in
  Gone,               \* no such column, no such entry
  Editors,
  Chosen,             \* the status a form may say, whatever the page showed
  BatchSize, LastDay,
  Changes, Faults     \* bounds of the instance

Tables == {TableOf[c] : c \in Columns}
Ids == Columns \union Terms

ASSUME CatalogueAssumption ==
  /\ Columns \intersect Terms = {} /\ DOMAIN TableOf = Columns
  /\ Admitted \subseteq Words /\ Gone \notin Words \union Calibers
  /\ \A shown \in SUBSET Columns : Gone # shown
  /\ Chosen \subseteq {"pending_review", "active", "deprecated"}
  /\ BatchSize \in Nat \ {0} /\ LastDay \in Nat \ {0}
  /\ Changes \in Nat /\ Faults \in Nat

VARIABLES
  metastore,          \* each column's comment there, or Gone
  column_metadata, online,   \* rows of column_metadata, the tables with is_online=1
  schema_snapshot,    \* for each table and day, the columns or no row
  day, sync,          \* the date, and a sync between its fetch and its commit
  biz_glossary, page, \* the terms, and what each editor's list showed
  index, build,       \* both collections, and the build that writes them
  synced,             \* history: what the newest committed sync had fetched, and each
                      \* column as the last committed sync that saw it had fetched it
  since, sinceRead,   \* history: what each entry's source said since the newest
                      \* complete build read it, and since the one under way did
  changes, faults

vars == <<metastore, column_metadata, online, schema_snapshot, day, sync, biz_glossary,
          page, index, build, since, sinceRead, synced, changes, faults>>

(***************************************************************************)
(* metadata_sync                                                           *)
(***************************************************************************)
Seen(got) == {TableOf[c] : c \in {x \in Columns : got[x] # Gone}}
ColumnsOf(got, t) == {c \in Columns : TableOf[c] = t /\ got[c] # Gone}
NotSyncing == [at |-> "idle", got |-> <<>>, today |-> 0]

(* fetch_from_metastore, one snapshot of the metastore, and the date after it. *)
Fetch ==
  /\ sync.at = "idle"
  /\ sync' = [at |-> "fetched", got |-> metastore, today |-> day]
  /\ UNCHANGED <<metastore, column_metadata, online, schema_snapshot, day, biz_glossary, page,
                 index, build, since, sinceRead, synced, changes, faults>>

(* Mutant: a snapshot of the day that exists is kept.                       *)
SnapshotOnce(got, today) ==
  [t \in Tables |-> IF t \in Seen(got) /\ schema_snapshot[t][today] = Gone
                    THEN [schema_snapshot[t] EXCEPT ![today] = ColumnsOf(got, t)]
                    ELSE schema_snapshot[t]]

SnapshotOfToday(got, today) ==
  [t \in Tables |-> IF t \in Seen(got)
                    THEN [schema_snapshot[t] EXCEPT ![today] = ColumnsOf(got, t)]
                    ELSE schema_snapshot[t]]

(* REPLACE writes what is seen; a column that is not seen keeps its row.    *)
Replaced(got) == [c \in Columns |-> IF got[c] # Gone THEN got[c] ELSE column_metadata[c]]

(* A metastore that shows nothing takes nothing offline.                    *)
StillOnline(got) == IF Seen(got) = {} THEN online ELSE Seen(got)

(***************************************************************************)
(* What the build wants in the collections: vectorize.build's two queries   *)
(***************************************************************************)
GlossaryEntry(glossary, k) ==
  IF glossary[k].status = "active"
  THEN [text |-> glossary[k].caliber, certified |-> glossary[k].certified] ELSE Gone

ColumnEntry(columns, tables, c) ==
  IF TableOf[c] \in tables /\ columns[c] \in Admitted
  THEN [text |-> columns[c], certified |-> FALSE] ELSE Gone

Desired(glossary, columns, tables) ==
  [x \in Ids |-> IF x \in Terms THEN GlossaryEntry(glossary, x) ELSE ColumnEntry(columns, tables, x)]

(* The part of an entry that its content_hash covers.                       *)
Hash(entry) == IF entry = Gone THEN Gone ELSE entry.text

(* History: what the sources say from here on.                              *)
Remember(glossary, columns, tables) ==
  LET said == Desired(glossary, columns, tables)
      add(h) == [x \in Ids |-> h[x] \union {Hash(said[x])}]
  IN since' = add(since) /\ sinceRead' = add(sinceRead)

(* History: what a sync that commits now has fetched, and each column as    *)
(* last seen.                                                               *)
SyncedNow(got) ==
  [newest |-> got,
   last |-> [c \in Columns |-> IF got[c] = Gone THEN synced.last[c] ELSE got[c]]]

(* One transaction for all tables, columns and snapshots.                   *)
CommitSync ==
  /\ sync.at = "fetched"
  /\ column_metadata' = Replaced(sync.got)
  /\ online' = StillOnline(sync.got)
  /\ schema_snapshot' = SnapshotOfToday(sync.got, sync.today)
  /\ sync' = NotSyncing /\ synced' = SyncedNow(sync.got)
  /\ Remember(biz_glossary, column_metadata', online')
  /\ UNCHANGED <<metastore, day, biz_glossary, page, index, build, changes, faults>>

SyncFails ==
  /\ sync.at = "fetched" /\ faults < Faults
  /\ sync' = NotSyncing /\ faults' = faults + 1
  /\ UNCHANGED <<metastore, column_metadata, online, schema_snapshot, day, biz_glossary, page,
                 index, build, since, sinceRead, synced, changes>>

Alter ==
  /\ changes < Changes /\ changes' = changes + 1
  /\ \E c \in Columns, w \in Words \union {Gone} :
       metastore[c] # w /\ metastore' = [metastore EXCEPT ![c] = w]
  /\ UNCHANGED <<column_metadata, online, schema_snapshot, day, sync, biz_glossary, page,
                 index, build, since, sinceRead, synced, faults>>

Midnight ==
  /\ day < LastDay /\ day' = day + 1
  /\ UNCHANGED <<metastore, column_metadata, online, schema_snapshot, sync, biz_glossary, page,
                 index, build, since, sinceRead, synced, changes, faults>>

(***************************************************************************)
(* The glossary: store.py through the portal's page                         *)
(***************************************************************************)
UnchangedButGlossary ==
  UNCHANGED <<metastore, column_metadata, online, schema_snapshot, day, sync, index, build, synced, faults>>

NoTerm == [status |-> "none", certified |-> FALSE, caliber |-> Gone]

LoadPage(e) ==
  /\ page[e] # biz_glossary
  /\ page' = [page EXCEPT ![e] = biz_glossary]
  /\ UNCHANGED <<biz_glossary, since, sinceRead, changes>> /\ UnchangedButGlossary

(* Every operation loads the list again when it is done.                    *)
Put(e, k, term) ==
  /\ changes < Changes /\ changes' = changes + 1
  /\ biz_glossary' = [biz_glossary EXCEPT ![k] = term]
  /\ page' = [page EXCEPT ![e] = biz_glossary']
  /\ Remember(biz_glossary', column_metadata, online)
  /\ UnchangedButGlossary

(* create_glossary: the form may ask for any status.                        *)
CreateTerm(e) ==
  \E k \in Terms, w \in Calibers, st \in Chosen :
    /\ biz_glossary[k].status = "none"
    /\ Put(e, k, [status |-> st, certified |-> FALSE, caliber |-> w])

Shows(e, k) == page[e][k].status # "none" /\ biz_glossary[k].status # "none"

(* Buttons that the page shows for what it loaded, each a patch of a field. *)
Approve(e, k) ==
  /\ Shows(e, k) /\ page[e][k].status = "pending_review"
  /\ Put(e, k, [biz_glossary[k] EXCEPT !.status = "active"])

Deprecate(e, k) ==
  /\ Shows(e, k) /\ page[e][k].status # "deprecated"
  /\ Put(e, k, [biz_glossary[k] EXCEPT !.status = "deprecated"])

Certify(e, k) ==
  /\ Shows(e, k) /\ ~page[e][k].certified
  /\ Put(e, k, [biz_glossary[k] EXCEPT !.certified = TRUE])

(* Mutant: the form sends everything it loaded.                             *)
SaveWholeForm(e, k) ==
  /\ Shows(e, k)
  /\ \E w \in Calibers, st \in Chosen :
       Put(e, k, [page[e][k] EXCEPT !.caliber = w, !.status = st])

(* The edit form sends the fields it shows, the status among them.          *)
SaveForm(e, k) ==
  /\ Shows(e, k)
  /\ \E w \in Calibers, st \in Chosen :
       Put(e, k, [biz_glossary[k] EXCEPT !.caliber = w, !.status = st])

(***************************************************************************)
(* vectorize.build                                                          *)
(***************************************************************************)
NotBuilding == [at |-> "idle", want |-> <<>>, delete |-> {}, upsert |-> {}]
UnchangedButBuild ==
  UNCHANGED <<metastore, column_metadata, online, schema_snapshot, day, sync, biz_glossary, page,
              synced, changes>>

CollectionIds(name) == IF name = "glossary" THEN Terms ELSE Columns

(* _sync_collection: the ids to delete and to write, by the stored hashes.  *)
ToDelete(want, ids) == {x \in ids : index[x] # Gone /\ want[x] = Gone}
(* Mutant: an entry that is there counts as unchanged.                      *)
MissingOnly(want, ids) == {x \in ids : want[x] # Gone /\ index[x] = Gone}

(* Mutant: the ids that are there are compared too.                         *)
ChangedOrGone(want, ids) == {x \in ids : Hash(index[x]) # Hash(want[x])}

Changed(want, ids) == {x \in ids : want[x] # Gone /\ Hash(index[x]) # Hash(want[x])}

OpenCollection(name, want) ==
  [at |-> name, want |-> want, delete |-> ToDelete(want, CollectionIds(name)),
   upsert |-> Changed(want, CollectionIds(name))]

(* Both queries read the snapshot that the first one began.                 *)
StartBuild ==
  /\ build.at = "idle"
  /\ LET want == Desired(biz_glossary, column_metadata, online)
     IN /\ build' = OpenCollection("glossary", want)
        /\ sinceRead' = [x \in Ids |-> {Hash(want[x])}]
  /\ UNCHANGED <<index, since, faults>> /\ UnchangedButBuild

Batches(ids) == {s \in SUBSET ids : Cardinality(s) = Min({BatchSize, Cardinality(ids)})}

DeleteBatch ==
  /\ build.at # "idle" /\ build.delete # {}
  /\ \E s \in Batches(build.delete) :
       /\ index' = [x \in Ids |-> IF x \in s THEN Gone ELSE index[x]]
       /\ build' = [build EXCEPT !.delete = @ \ s]
  /\ UNCHANGED <<since, sinceRead, faults>> /\ UnchangedButBuild

UpsertBatch ==
  /\ build.at # "idle" /\ build.delete = {} /\ build.upsert # {}
  /\ \E s \in Batches(build.upsert) :
       /\ index' = [x \in Ids |-> IF x \in s THEN build.want[x] ELSE index[x]]
       /\ build' = [build EXCEPT !.upsert = @ \ s]
  /\ UNCHANGED <<since, sinceRead, faults>> /\ UnchangedButBuild

NextCollection ==
  /\ build.at = "glossary" /\ build.delete = {} /\ build.upsert = {}
  /\ build' = OpenCollection("schema", build.want)
  /\ UNCHANGED <<index, since, sinceRead, faults>> /\ UnchangedButBuild

EndBuild ==
  /\ build.at = "schema" /\ build.delete = {} /\ build.upsert = {}
  /\ build' = NotBuilding
  /\ since' = sinceRead
  /\ UNCHANGED <<index, sinceRead, faults>> /\ UnchangedButBuild

(* The embedding service or Chroma fails: what was written stays written.   *)
BuildFails ==
  /\ build.at # "idle" /\ faults < Faults
  /\ build' = NotBuilding /\ faults' = faults + 1
  /\ UNCHANGED <<index, since, sinceRead>> /\ UnchangedButBuild

Init ==
  /\ \E w \in Admitted : metastore = [c \in Columns |-> w]
  /\ column_metadata = [c \in Columns |-> Gone] /\ online = {}
  /\ schema_snapshot = [t \in Tables |-> [d \in 1 .. LastDay |-> Gone]]
  /\ day = 1 /\ sync = NotSyncing
  /\ biz_glossary = [k \in Terms |-> NoTerm] /\ page = [e \in Editors |-> biz_glossary]
  /\ index = [x \in Ids |-> Gone] /\ build = NotBuilding
  /\ since = [x \in Ids |-> {Gone}] /\ sinceRead = since
  /\ synced = [newest |-> column_metadata, last |-> column_metadata]
  /\ changes = 0 /\ faults = 0

Next ==
  \/ Fetch \/ CommitSync \/ SyncFails \/ Alter \/ Midnight
  \/ \E e \in Editors : \/ LoadPage(e) \/ CreateTerm(e)
                        \/ \E k \in Terms : Approve(e, k) \/ Deprecate(e, k)
                                              \/ Certify(e, k) \/ SaveForm(e, k)
  \/ StartBuild \/ DeleteBatch \/ UpsertBatch \/ NextCollection \/ EndBuild \/ BuildFails

Spec == Init /\ [][Next]_vars

-----------------------------------------------------------------------------
Entry == [text : Words \union Calibers, certified : BOOLEAN]
Term == [status : {"none", "pending_review", "active", "deprecated"},
         certified : BOOLEAN, caliber : Calibers \union {Gone}]

(* The state is well typed, and a build still has to delete only what is in *)
(* the collection and to write only what it wants there.                    *)
TypeOK ==
  /\ metastore \in [Columns -> Words \union {Gone}]
  /\ column_metadata \in [Columns -> Words \union {Gone}] /\ online \subseteq Tables
  /\ biz_glossary \in [Terms -> Term] /\ page \in [Editors -> [Terms -> Term]]
  /\ index \in [Ids -> Entry \union {Gone}]
  /\ \A x \in build.delete : index[x] # Gone
  /\ \A x \in build.upsert : build.want[x] \in Entry

(* Whatever the build left behind when it failed and whatever is written    *)
(* while it runs, a search never gets an entry that its source did not say  *)
(* at some time since the newest complete build read it: no term that was   *)
(* deprecated and no table that was offline all that time, and no older     *)
(* text (_sync_collection, build).                                          *)
SearchFindsNothingOlder == \A x \in Ids : Hash(index[x]) \in since[x]

Newest(t) == Max({0} \union {d \in 1 .. LastDay : schema_snapshot[t][d] # Gone})

(* After any number of syncs, also several of a day and failed ones, between *)
(* which columns come and go: the tables online are those of the newest     *)
(* sync, unless it saw none at all, and the parser's view of each (the      *)
(* newest snapshot, as load_schema_snapshot picks it) has the columns that  *)
(* sync saw.  The rows of the catalogue are not those of the newest sync:   *)
(* sync never deletes one, so a dropped column keeps the row of the last    *)
(* sync that saw it, in an online table too, where the snapshot does not    *)
(* list it; every row is that of the last sync that saw its column          *)
(* (metadata_sync.sync, load_schema_snapshot).                              *)
SnapshotFitsCatalogue ==
  /\ Seen(synced.newest) # {} =>
       /\ online = Seen(synced.newest)
       /\ \A t \in online : schema_snapshot[t][Newest(t)] = ColumnsOf(synced.newest, t)
  /\ \A t \in Tables : ColumnsOf(synced.newest, t) \subseteq ColumnsOf(column_metadata, t)
  /\ \A c \in Columns : column_metadata[c] = synced.last[c]

(* An owner's certification is not undone by editors who work from pages    *)
(* that were loaded before it (update_glossary, the edit form).             *)
CertificationStays ==
  [][\A k \in Terms : biz_glossary[k].certified => biz_glossary'[k].certified]_vars
=============================================================================
