-------------------------- MODULE CatalogueProofs --------------------------
(***************************************************************************)
(* What a search finds and what the parser is told, for any columns, terms *)
(* and texts, any batch size, any number of editors, syncs, builds and     *)
(* failures in between, on any days.                                       *)
(***************************************************************************)
EXTENDS Catalogue, TLAPS

(* A term that was created has a caliber; one that was not is not certified. *)
LiveTerm == [status : {"pending_review", "active", "deprecated"},
             certified : BOOLEAN, caliber : Calibers]
Glossaries == [Terms -> LiveTerm \union {NoTerm}]
Comments == [Columns -> Words \union {Gone}]
Entries == [Ids -> Entry \union {Gone}]

TypeInv ==
  /\ metastore \in Comments /\ column_metadata \in Comments /\ online \subseteq Tables
  /\ biz_glossary \in Glossaries /\ page \in [Editors -> Glossaries]
  /\ sync.at = "fetched" => sync.got \in Comments
  /\ index \in Entries
  /\ DOMAIN build = {"at", "want", "delete", "upsert"}
  /\ build.at \in {"idle", "glossary", "schema"}
  /\ build.delete \subseteq Ids /\ build.upsert \subseteq Ids
  /\ build.at # "idle" => build.want \in Entries
  /\ build.at = "idle" => build.delete = {} /\ build.upsert = {}
  /\ \A x \in build.delete : index[x] # Gone /\ build.want[x] = Gone
  /\ \A x \in build.upsert : build.want[x] # Gone

(* The hash that a build which starts now would want for x.                *)
Said(x) == Hash(Desired(biz_glossary, column_metadata, online)[x])

(* The collections that the build under way has opened.                    *)
Opened == IF build.at = "schema" THEN Ids ELSE Terms

(* Beside the claim itself: what the sources say now, and what the build   *)
(* wants, is among what they said; and an entry of an opened collection    *)
(* that the build does not still have to write is as it wants it.          *)
IndexInv ==
  /\ DOMAIN since = Ids /\ DOMAIN sinceRead = Ids
  /\ \A x \in Ids :
       /\ Hash(index[x]) \in since[x]
       /\ Said(x) \in since[x] \intersect sinceRead[x]
       /\ build.at # "idle" => Hash(build.want[x]) \in since[x] \intersect sinceRead[x]
  /\ build.at # "idle" =>
       \A x \in Opened \ (build.delete \union build.upsert) : Hash(index[x]) = Hash(build.want[x])

(* No snapshot is newer than the day, nor than the day of the sync that is *)
(* to be committed next.                                                   *)
SnapshotInv ==
  /\ SnapshotFitsCatalogue
  /\ day \in 1 .. LastDay
  /\ DOMAIN schema_snapshot = Tables
  /\ \A t \in Tables : DOMAIN schema_snapshot[t] = 1 .. LastDay
  /\ \A t \in Tables, d \in 1 .. LastDay : schema_snapshot[t][d] # Gone => d <= day
  /\ sync.at = "fetched" =>
       /\ sync.today \in 1 .. day
       /\ \A t \in Tables, d \in 1 .. LastDay : schema_snapshot[t][d] # Gone => d <= sync.today

-----------------------------------------------------------------------------
(* The steps that write nothing but the metastore and the day's clock, and *)
(* those of the people and of the build.                                   *)
SyncStep == Fetch \/ SyncFails \/ Alter \/ Midnight
BuildStep == StartBuild \/ DeleteBatch \/ UpsertBatch \/ NextCollection \/ EndBuild \/ BuildFails

(* What an operation of the glossary puts in the place of a term.          *)
Puts(e, k, term) == Put(e, k, term) /\ term \in LiveTerm
                    /\ (biz_glossary[k].certified => term.certified)

(* Every operation of the glossary puts a live term, as certified as the   *)
(* one in its place (create_glossary, update_glossary).                    *)
LEMMA EditorPuts ==
  ASSUME TypeInv, NEW e \in Editors, NEW k \in Terms,
         Approve(e, k) \/ Deprecate(e, k) \/ Certify(e, k) \/ SaveForm(e, k)
  PROVE  \E term : Puts(e, k, term)
<1>1. biz_glossary[k] \in LiveTerm
  <2>1. biz_glossary[k] \in LiveTerm \union {NoTerm}
    BY DEF TypeInv, Glossaries
  <2>2. biz_glossary[k].status # "none"
    BY DEF Approve, Deprecate, Certify, SaveForm, Shows
  <2> QED BY <2>1, <2>2 DEF NoTerm
<1>2. CASE Approve(e, k)
  BY <1>1, <1>2 DEF Approve, Puts, LiveTerm
<1>3. CASE Deprecate(e, k)
  BY <1>1, <1>3 DEF Deprecate, Puts, LiveTerm
<1>4. CASE Certify(e, k)
  BY <1>1, <1>4 DEF Certify, Puts, LiveTerm
<1>5. CASE SaveForm(e, k)
  <2>1. PICK w \in Calibers, st \in Chosen :
          Put(e, k, [biz_glossary[k] EXCEPT !.caliber = w, !.status = st])
    BY <1>5 DEF SaveForm
  <2>2. st \in {"pending_review", "active", "deprecated"}
    BY CatalogueAssumption
  <2> DEFINE term == [biz_glossary[k] EXCEPT !.caliber = w, !.status = st]
  <2>3. term \in LiveTerm
    BY <1>1, <2>2 DEF LiveTerm
  <2>4. term.certified = biz_glossary[k].certified
    BY <1>1 DEF LiveTerm
  <2>5. Put(e, k, term)
    BY <2>1
  <2> HIDE DEF term
  <2> QED BY <2>3, <2>4, <2>5 DEF Puts
<1> QED BY <1>2, <1>3, <1>4, <1>5

LEMMA CreatePuts ==
  ASSUME TypeInv, NEW e \in Editors, CreateTerm(e)
  PROVE  \E k \in Terms : \E term : Puts(e, k, term)
<1>1. PICK k \in Terms, w \in Calibers, st \in Chosen :
        /\ biz_glossary[k].status = "none"
        /\ Put(e, k, [status |-> st, certified |-> FALSE, caliber |-> w])
  BY DEF CreateTerm
<1>2. st \in {"pending_review", "active", "deprecated"}
  BY CatalogueAssumption
<1>3. ~biz_glossary[k].certified
  BY <1>1 DEF TypeInv, Glossaries, NoTerm, LiveTerm
<1> QED BY <1>1, <1>2, <1>3 DEF Puts, LiveTerm

(* The steps of the catalogue. *)
LEMMA StepsOfCatalogue ==
  ASSUME TypeInv, Next
  PROVE  \/ SyncStep \/ CommitSync \/ BuildStep
         \/ \E e \in Editors : LoadPage(e)
         \/ \E e \in Editors, k \in Terms : \E term : Puts(e, k, term)
  BY EditorPuts, CreatePuts DEF Next, SyncStep, BuildStep

-----------------------------------------------------------------------------
(* What the build wants is typed, whatever the sources say.                *)
LEMMA DesiredTyped ==
  ASSUME NEW glossary \in Glossaries, NEW columns \in Comments, NEW tables
  PROVE  Desired(glossary, columns, tables) \in Entries
<1>1. \A k \in Terms : GlossaryEntry(glossary, k) \in Entry \union {Gone}
  BY DEF GlossaryEntry, Entry, Glossaries, LiveTerm, NoTerm
<1>2. \A c \in Columns : ColumnEntry(columns, tables, c) \in Entry \union {Gone}
  BY CatalogueAssumption DEF ColumnEntry, Entry, Comments
<1> QED BY <1>1, <1>2 DEF Desired, Entries, Ids

LEMMA SyncTyped ==
  ASSUME TypeInv, SyncStep \/ CommitSync
  PROVE  TypeInv'
<1>1. UNCHANGED <<biz_glossary, page, index, build>>
  BY DEF SyncStep, Fetch, SyncFails, Alter, Midnight, CommitSync
<1>2. sync'.at = "fetched" => sync'.got \in Comments
  BY DEF SyncStep, Fetch, SyncFails, Alter, Midnight, CommitSync, NotSyncing, TypeInv
<1>3. metastore' \in Comments
  BY DEF SyncStep, Fetch, SyncFails, Alter, Midnight, CommitSync, TypeInv, Comments
<1>4. column_metadata' \in Comments /\ online' \subseteq Tables
  BY DEF SyncStep, Fetch, SyncFails, Alter, Midnight, CommitSync, TypeInv, Comments, Replaced,
         StillOnline, Seen, Tables
<1> QED BY <1>1, <1>2, <1>3, <1>4 DEF TypeInv

LEMMA PagesTyped ==
  ASSUME TypeInv, NEW e \in Editors,
         LoadPage(e) \/ \E k \in Terms : \E term : Puts(e, k, term)
  PROVE  TypeInv'
<1>1. UNCHANGED <<metastore, column_metadata, online, sync, index, build>>
  BY DEF LoadPage, Puts, Put, UnchangedButGlossary
<1>2. biz_glossary' \in Glossaries
  BY DEF LoadPage, Puts, Put, TypeInv, Glossaries
<1>3. page' = [page EXCEPT ![e] = biz_glossary']
  BY DEF LoadPage, Puts, Put
<1> QED BY <1>1, <1>2, <1>3 DEF TypeInv

LEMMA OpenTyped ==
  ASSUME TypeInv, NEW name \in {"glossary", "schema"}, NEW want \in Entries,
         build' = OpenCollection(name, want),
         UNCHANGED <<metastore, column_metadata, online, sync, biz_glossary, page, index>>
  PROVE  TypeInv'
<1>1. CollectionIds(name) \subseteq Ids
  BY DEF CollectionIds, Ids
<1>2. /\ DOMAIN build' = {"at", "want", "delete", "upsert"}
      /\ build'.at = name /\ build'.want = want
      /\ build'.delete = ToDelete(want, CollectionIds(name))
      /\ build'.upsert = Changed(want, CollectionIds(name))
  BY DEF OpenCollection
<1>3. /\ build'.delete \subseteq Ids /\ build'.upsert \subseteq Ids
      /\ \A x \in build'.delete : index[x] # Gone /\ want[x] = Gone
      /\ \A x \in build'.upsert : want[x] # Gone
  BY <1>1, <1>2 DEF ToDelete, Changed
<1> QED BY <1>2, <1>3 DEF TypeInv

LEMMA BuildTyped ==
  ASSUME TypeInv, BuildStep
  PROVE  TypeInv'
<1>1. UNCHANGED <<metastore, column_metadata, online, sync, biz_glossary, page>>
  BY DEF BuildStep, StartBuild, DeleteBatch, UpsertBatch, NextCollection, EndBuild, BuildFails,
         UnchangedButBuild
<1>2. CASE StartBuild
  <2>1. Desired(biz_glossary, column_metadata, online) \in Entries
    BY DesiredTyped DEF TypeInv
  <2> QED BY <1>1, <1>2, <2>1, OpenTyped DEF StartBuild
<1>3. CASE NextCollection
  <2>1. build.want \in Entries
    BY <1>3 DEF TypeInv, NextCollection
  <2> QED BY <1>1, <1>3, <2>1, OpenTyped DEF NextCollection
<1>4. CASE EndBuild \/ BuildFails
  BY <1>1, <1>4 DEF EndBuild, BuildFails, NotBuilding, TypeInv
<1>5. CASE DeleteBatch
  <2>1. PICK s \in Batches(build.delete) :
          /\ index' = [x \in Ids |-> IF x \in s THEN Gone ELSE index[x]]
          /\ build' = [build EXCEPT !.delete = @ \ s]
    BY <1>5 DEF DeleteBatch
  <2>2. /\ build'.at = build.at /\ build'.want = build.want /\ build'.upsert = build.upsert
        /\ build'.delete = build.delete \ s /\ DOMAIN build' = DOMAIN build
    BY <2>1 DEF TypeInv
  <2>3. index' \in Entries /\ \A x \in build'.delete : index'[x] = index[x]
    BY <2>1, <2>2 DEF TypeInv, Entries
  <2> QED BY <1>1, <2>2, <2>3 DEF TypeInv
<1>6. CASE UpsertBatch
  <2>1. PICK s \in Batches(build.upsert) :
          /\ index' = [x \in Ids |-> IF x \in s THEN build.want[x] ELSE index[x]]
          /\ build' = [build EXCEPT !.upsert = @ \ s]
    BY <1>6 DEF UpsertBatch
  <2>2. /\ build'.at = build.at /\ build'.want = build.want /\ build'.delete = build.delete
        /\ build'.upsert = build.upsert \ s /\ DOMAIN build' = DOMAIN build
    BY <2>1 DEF TypeInv
  <2>3. index' \in Entries
    BY <1>6, <2>1 DEF TypeInv, Entries, UpsertBatch
  <2>4. build.delete = {} /\ build.at # "idle"
    BY <1>6 DEF UpsertBatch
  <2> QED BY <1>1, <2>2, <2>3, <2>4 DEF TypeInv
<1> QED BY <1>2, <1>3, <1>4, <1>5, <1>6 DEF BuildStep

LEMMA CatalogueKeepsTypes == Spec => []TypeInv
<1>1. Init => TypeInv
  BY CatalogueAssumption DEF Init, TypeInv, NotSyncing, NotBuilding, Comments, Glossaries, Entries
<1>2. TypeInv /\ [Next]_vars => TypeInv'
  <2> SUFFICES ASSUME TypeInv, [Next]_vars PROVE TypeInv'
    OBVIOUS
  <2>1. CASE UNCHANGED vars
    BY <2>1 DEF vars, TypeInv
  <2>2. CASE Next
    BY <2>2, StepsOfCatalogue, SyncTyped, PagesTyped, BuildTyped
  <2> QED BY <2>1, <2>2
<1> QED BY <1>1, <1>2, PTL DEF Spec

(* The catalogue, the collections and what a build still has to do are     *)
(* well typed (metadata_sync.sync, _sync_collection).                      *)
THEOREM CatalogueTyped == Spec => []TypeOK
<1>1. TypeInv => TypeOK
  <2>1. Glossaries \subseteq [Terms -> Term]
    <3>1. LiveTerm \subseteq Term
      BY DEF LiveTerm, Term
    <3>2. NoTerm \in Term
      BY DEF NoTerm, Term
    <3> QED BY <3>1, <3>2 DEF Glossaries
  <2>2. ASSUME TypeInv PROVE \A x \in build.upsert : build.want[x] \in Entry
    BY <2>2 DEF TypeInv, Entries
  <2> QED BY <2>1, <2>2 DEF TypeInv, TypeOK, Comments, Entries
<1> QED BY <1>1, CatalogueKeepsTypes, PTL

-----------------------------------------------------------------------------
(* What the sources say is remembered whenever it may have changed.        *)
LEMMA Remembered ==
  ASSUME IndexInv, UNCHANGED <<index, build>>,
         Remember(biz_glossary', column_metadata', online')
  PROVE  IndexInv'
<1>1. \A x \in Ids : /\ since'[x] = since[x] \union {Said(x)'}
                    /\ sinceRead'[x] = sinceRead[x] \union {Said(x)'}
  BY DEF Remember, Said, IndexInv
<1>2. DOMAIN since' = Ids /\ DOMAIN sinceRead' = Ids
  BY DEF Remember
<1>3. \A x \in Ids :
       /\ Hash(index'[x]) \in since'[x]
       /\ Said(x)' \in since'[x] \intersect sinceRead'[x]
       /\ build'.at # "idle" => Hash(build'.want[x]) \in since'[x] \intersect sinceRead'[x]
  BY <1>1 DEF IndexInv
<1>4. Opened' = Opened
  BY DEF Opened
<1> QED BY <1>2, <1>3, <1>4 DEF IndexInv

LEMMA SyncIndexed ==
  ASSUME IndexInv, SyncStep \/ CommitSync
  PROVE  IndexInv'
<1>1. CASE SyncStep
  <2>1. UNCHANGED <<biz_glossary, column_metadata, online, index, build, since, sinceRead>>
    BY <1>1 DEF SyncStep, Fetch, SyncFails, Alter, Midnight
  <2> QED BY <2>1 DEF IndexInv, Said, Opened
<1>2. CASE CommitSync
  <2>1. Remember(biz_glossary', column_metadata', online') /\ UNCHANGED <<index, build>>
    BY <1>2 DEF CommitSync
  <2> QED BY <2>1, Remembered
<1> QED BY <1>1, <1>2

LEMMA PagesIndexed ==
  ASSUME IndexInv, NEW e \in Editors,
         LoadPage(e) \/ \E k \in Terms : \E term : Puts(e, k, term)
  PROVE  IndexInv'
<1>1. CASE LoadPage(e)
  BY <1>1 DEF LoadPage, UnchangedButGlossary, IndexInv, Said, Opened
<1>2. ASSUME NEW k \in Terms, NEW term, Puts(e, k, term) PROVE IndexInv'
  <2>1. Remember(biz_glossary', column_metadata', online') /\ UNCHANGED <<index, build>>
    BY <1>2 DEF Puts, Put, UnchangedButGlossary
  <2> QED BY <2>1, Remembered
<1> QED BY <1>1, <1>2

(* A collection that is opened has, but for what is to be deleted and to   *)
(* be written, the hashes that the build wants (_sync_collection).         *)
LEMMA OpenedAsWanted ==
  ASSUME NEW want, NEW ids, NEW x \in ids \ (ToDelete(want, ids) \union Changed(want, ids))
  PROVE  Hash(index[x]) = Hash(want[x])
  BY DEF ToDelete, Changed, Hash

LEMMA BuildIndexed ==
  ASSUME TypeInv, IndexInv, BuildStep
  PROVE  IndexInv'
<1>1. UNCHANGED <<biz_glossary, column_metadata, online>>
  BY DEF BuildStep, StartBuild, DeleteBatch, UpsertBatch, NextCollection, EndBuild, BuildFails,
         UnchangedButBuild
<1>2. \A x : Said(x)' = Said(x)
  BY <1>1 DEF Said
<1>3. CASE StartBuild
  <2> DEFINE want == Desired(biz_glossary, column_metadata, online)
  <2>1. /\ build' = OpenCollection("glossary", want)
        /\ sinceRead' = [x \in Ids |-> {Hash(want[x])}]
        /\ UNCHANGED <<index, since>>
    BY <1>3 DEF StartBuild
  <2>2. \A x : Said(x) = Hash(want[x])
    BY DEF Said
  <2> HIDE DEF want
  <2>3. /\ build'.want = want /\ build'.at = "glossary"
        /\ build'.delete = ToDelete(want, Terms) /\ build'.upsert = Changed(want, Terms)
    BY <2>1 DEF OpenCollection, CollectionIds
  <2>4. Opened' = Terms
    BY <2>3 DEF Opened
  <2>5. \A x \in Opened' \ (build'.delete \union build'.upsert) : Hash(index[x]) = Hash(want[x])
    BY <2>3, <2>4, OpenedAsWanted
  <2> QED BY <1>2, <2>1, <2>2, <2>3, <2>5 DEF IndexInv
<1>4. CASE NextCollection
  <2> DEFINE want == build.want
  <2>1. /\ build.at = "glossary" /\ build.delete = {} /\ build.upsert = {}
        /\ build' = OpenCollection("schema", want)
        /\ UNCHANGED <<index, since, sinceRead>>
    BY <1>4 DEF NextCollection
  <2>2. /\ build'.want = want /\ build'.at = "schema"
        /\ build'.delete = ToDelete(want, Columns) /\ build'.upsert = Changed(want, Columns)
    BY <2>1 DEF OpenCollection, CollectionIds
  <2>3. \A x \in Terms : Hash(index[x]) = Hash(want[x])
    BY <2>1 DEF IndexInv, Opened
  <2>4. \A x \in Columns \ (build'.delete \union build'.upsert) : Hash(index[x]) = Hash(want[x])
    BY <2>2, OpenedAsWanted
  <2>5. Opened' = Terms \union Columns
    BY <2>2 DEF Opened, Ids
  <2> QED BY <1>2, <2>1, <2>2, <2>3, <2>4, <2>5 DEF IndexInv
<1>5. CASE DeleteBatch
  <2>1. PICK s \in Batches(build.delete) :
          /\ index' = [x \in Ids |-> IF x \in s THEN Gone ELSE index[x]]
          /\ build' = [build EXCEPT !.delete = @ \ s]
    BY <1>5 DEF DeleteBatch
  <2>2. /\ build'.at = build.at /\ build'.want = build.want /\ build'.upsert = build.upsert
        /\ build'.delete = build.delete \ s /\ build.at # "idle"
    BY <1>5, <2>1 DEF TypeInv, DeleteBatch
  <2>3. s \subseteq build.delete
    BY <2>1 DEF Batches
  <2>4. \A x \in s : Hash(index'[x]) = Hash(build.want[x])
    BY <2>1, <2>3 DEF TypeInv, Hash
  <2>5. \A x \in Ids \ s : index'[x] = index[x]
    BY <2>1
  <2>6. Opened' = Opened /\ Opened \subseteq Ids
    BY <2>2 DEF Opened, Ids
  <2>7. UNCHANGED <<since, sinceRead>>
    BY <1>5 DEF DeleteBatch
  <2>8. \A x \in Ids : Hash(index'[x]) \in since[x]
    BY <2>2, <2>4, <2>5 DEF IndexInv
  <2>9. \A x \in Opened \ (build'.delete \union build'.upsert) : Hash(index'[x]) = Hash(build'.want[x])
    BY <2>2, <2>4, <2>5, <2>6 DEF IndexInv
  <2> QED BY <1>2, <2>2, <2>6, <2>7, <2>8, <2>9 DEF IndexInv
<1>6. CASE UpsertBatch
  <2>1. PICK s \in Batches(build.upsert) :
          /\ index' = [x \in Ids |-> IF x \in s THEN build.want[x] ELSE index[x]]
          /\ build' = [build EXCEPT !.upsert = @ \ s]
    BY <1>6 DEF UpsertBatch
  <2>2. /\ build'.at = build.at /\ build'.want = build.want /\ build'.delete = build.delete
        /\ build'.upsert = build.upsert \ s /\ build.at # "idle"
    BY <1>6, <2>1 DEF TypeInv, UpsertBatch
  <2>3. s \subseteq Ids
    BY <2>1 DEF Batches, TypeInv
  <2>4. \A x \in s : index'[x] = build.want[x]
    BY <2>1, <2>3
  <2>5. \A x \in Ids \ s : index'[x] = index[x]
    BY <2>1
  <2>6. Opened' = Opened /\ Opened \subseteq Ids
    BY <2>2 DEF Opened, Ids
  <2>7. UNCHANGED <<since, sinceRead>>
    BY <1>6 DEF UpsertBatch
  <2>8. \A x \in Ids : Hash(index'[x]) \in since[x]
    BY <2>2, <2>4, <2>5 DEF IndexInv
  <2>9. \A x \in Opened \ (build'.delete \union build'.upsert) : Hash(index'[x]) = Hash(build'.want[x])
    BY <2>2, <2>4, <2>5, <2>6 DEF IndexInv
  <2> QED BY <1>2, <2>2, <2>6, <2>7, <2>8, <2>9 DEF IndexInv
<1>7. CASE EndBuild
  <2>1. /\ build.at = "schema" /\ build.delete = {} /\ build.upsert = {}
        /\ build'.at = "idle" /\ since' = sinceRead /\ UNCHANGED <<index, sinceRead>>
    BY <1>7 DEF EndBuild, NotBuilding
  <2>2. \A x \in Ids : Hash(index[x]) = Hash(build.want[x])
    BY <2>1 DEF IndexInv, Opened
  <2>3. \A x \in Ids : Hash(index[x]) \in sinceRead[x]
    BY <2>1, <2>2 DEF IndexInv
  <2> QED BY <1>2, <2>1, <2>3 DEF IndexInv
<1>8. CASE BuildFails
  <2>1. build'.at = "idle" /\ UNCHANGED <<index, since, sinceRead>>
    BY <1>8 DEF BuildFails, NotBuilding
  <2> QED BY <1>2, <2>1 DEF IndexInv
<1> QED BY <1>3, <1>4, <1>5, <1>6, <1>7, <1>8 DEF BuildStep

(* Whatever builds that failed left behind and whatever is edited, synced  *)
(* or taken offline while a build runs: a search finds nothing that its    *)
(* source has not said since the newest complete build read it.            *)
THEOREM SearchIsFresh == Spec => []SearchFindsNothingOlder
<1>1. Init => IndexInv
  <2> SUFFICES ASSUME Init PROVE IndexInv
    OBVIOUS
  <2>1. \A x \in Ids : Said(x) = Gone
    BY DEF Init, Said, Desired, GlossaryEntry, ColumnEntry, Hash, NoTerm
  <2> QED BY <2>1 DEF Init, IndexInv, Hash, NotBuilding
<1>2. TypeInv /\ IndexInv /\ [Next]_vars => IndexInv'
  <2> SUFFICES ASSUME TypeInv, IndexInv, [Next]_vars PROVE IndexInv'
    OBVIOUS
  <2>1. CASE UNCHANGED vars
    BY <2>1 DEF vars, IndexInv, Said, Opened
  <2>2. CASE Next
    BY <2>2, StepsOfCatalogue, SyncIndexed, PagesIndexed, BuildIndexed
  <2> QED BY <2>1, <2>2
<1>3. IndexInv => SearchFindsNothingOlder
  BY DEF IndexInv, SearchFindsNothingOlder
<1> QED BY <1>1, <1>2, <1>3, CatalogueKeepsTypes, PTL DEF Spec

-----------------------------------------------------------------------------
(* A sync that commits leaves, of each table it saw, the rows and the      *)
(* newest snapshot of what it saw.                                         *)
LEMMA CommitFits ==
  ASSUME TypeInv, SnapshotInv, CommitSync
  PROVE  SnapshotInv'
<1> DEFINE got == sync.got
           today == sync.today
<1>1. /\ synced' = SyncedNow(got) /\ column_metadata' = Replaced(got) /\ online' = StillOnline(got)
      /\ schema_snapshot' = SnapshotOfToday(got, today) /\ UNCHANGED day
      /\ sync'.at = "idle" /\ sync.at = "fetched"
  BY DEF CommitSync, NotSyncing
<1>2. /\ LastDay \in Nat /\ day \in 1 .. LastDay /\ today \in 1 .. day
      /\ \A t \in Tables, d \in 1 .. LastDay : schema_snapshot[t][d] # Gone => d <= today
  BY <1>1, CatalogueAssumption DEF SnapshotInv
<1>3. Seen(got) \subseteq Tables
  BY DEF Seen, Tables
<1> HIDE DEF got, today
<1>4. /\ DOMAIN schema_snapshot' = Tables
      /\ \A t \in Tables : DOMAIN schema_snapshot'[t] = 1 .. LastDay
  BY <1>1 DEF SnapshotInv, SnapshotOfToday
<1>5. \A t \in Tables, d \in 1 .. LastDay : d # today => schema_snapshot'[t][d] = schema_snapshot[t][d]
  BY <1>1 DEF SnapshotInv, SnapshotOfToday
<1>6. \A t \in Tables, d \in 1 .. LastDay : schema_snapshot'[t][d] # Gone => d <= today
  BY <1>2, <1>5
<1>7. \A t \in Seen(got) : schema_snapshot'[t][today] = ColumnsOf(got, t)
  BY <1>1, <1>2, <1>3 DEF SnapshotInv, SnapshotOfToday
<1>8. \A t : ColumnsOf(got, t) # Gone
  BY CatalogueAssumption DEF ColumnsOf
<1>9. \A t \in Seen(got) : Newest(t)' = today
  <2> SUFFICES ASSUME NEW t \in Seen(got) PROVE Newest(t)' = today
    OBVIOUS
  <2> DEFINE S == {0} \union {b \in 1 .. LastDay : schema_snapshot'[t][b] # Gone}
  <2>1. today \in S /\ \A b \in S : today >= b /\ (b # today => ~(b >= today))
    BY <1>2, <1>3, <1>6, <1>7, <1>8
  <2>2. Max(S) = today
    <3> HIDE DEF S
    <3> QED BY <2>1 DEF Max
  <2> QED BY <2>2 DEF Newest
<1>10. /\ \A t : ColumnsOf(got, t) \subseteq ColumnsOf(column_metadata', t)
       /\ \A c \in Columns : column_metadata'[c] = SyncedNow(got).last[c]
  <2>1. \A c \in Columns : column_metadata[c] = synced.last[c]
    BY DEF SnapshotInv, SnapshotFitsCatalogue
  <2> QED BY <1>1, <2>1 DEF Replaced, ColumnsOf, SyncedNow
<1>11. Seen(got) # {} => online' = Seen(got)
  BY <1>1 DEF StillOnline
<1>12. SnapshotFitsCatalogue'
  <2>1. synced'.newest = got /\ synced'.last = SyncedNow(got).last
    BY <1>1 DEF SyncedNow
  <2> QED BY <2>1, <1>7, <1>9, <1>10, <1>11 DEF SnapshotFitsCatalogue
<1>13. \A t \in Tables, d \in 1 .. LastDay : schema_snapshot'[t][d] # Gone => d <= day'
  BY <1>1, <1>2, <1>6
<1> QED BY <1>1, <1>2, <1>4, <1>12, <1>13 DEF SnapshotInv

(* After any number of syncs, on any days, failed ones among them: the     *)
(* tables online and the parser's newest snapshots are those of the newest *)
(* sync; every row, that of a dropped column too, is as the last sync that *)
(* saw its column fetched it (metadata_sync.sync, load_schema_snapshot).   *)
THEOREM SnapshotsFit == Spec => []SnapshotFitsCatalogue
<1>1. Init => SnapshotInv
  <2> SUFFICES ASSUME Init PROVE SnapshotInv
    OBVIOUS
  <2>1. /\ Seen(synced.newest) = {} /\ \A t : ColumnsOf(synced.newest, t) = {}
        /\ \A c \in Columns : column_metadata[c] = synced.last[c]
    BY DEF Init, Seen, ColumnsOf
  <2>2. day = 1 /\ 1 \in 1 .. LastDay
    BY CatalogueAssumption DEF Init
  <2> QED BY <2>1, <2>2 DEF Init, SnapshotInv, SnapshotFitsCatalogue, NotSyncing
<1>2. TypeInv /\ SnapshotInv /\ [Next]_vars => SnapshotInv'
  <2> SUFFICES ASSUME TypeInv, SnapshotInv, [Next]_vars PROVE SnapshotInv'
    OBVIOUS
  <2>1. ASSUME UNCHANGED <<schema_snapshot, column_metadata, online, synced>>
        PROVE  SnapshotFitsCatalogue'
    BY <2>1 DEF SnapshotInv, SnapshotFitsCatalogue, Newest
  <2>2. CASE UNCHANGED vars
    BY <2>1, <2>2 DEF vars, SnapshotInv
  <2>3. CASE SyncStep
    <3>1. UNCHANGED <<schema_snapshot, column_metadata, online, synced>>
      BY <2>3 DEF SyncStep, Fetch, SyncFails, Alter, Midnight
    <3>2. CASE Fetch
      BY <2>1, <3>1, <3>2 DEF Fetch, SnapshotInv
    <3>3. CASE SyncFails
      BY <2>1, <3>1, <3>3 DEF SyncFails, SnapshotInv, NotSyncing
    <3>4. CASE Alter
      BY <2>1, <3>1, <3>4 DEF Alter, SnapshotInv
    <3>5. CASE Midnight
      <4>1. day' = day + 1 /\ day < LastDay /\ sync' = sync /\ LastDay \in Nat
        BY <3>5, CatalogueAssumption DEF Midnight
      <4> QED BY <2>1, <3>1, <4>1 DEF SnapshotInv
    <3> QED BY <2>3, <3>2, <3>3, <3>4, <3>5 DEF SyncStep
  <2>4. CASE BuildStep \/ (\E e \in Editors : LoadPage(e))
             \/ (\E e \in Editors, k \in Terms : \E term : Puts(e, k, term))
    <3>1. UNCHANGED <<schema_snapshot, column_metadata, online, synced, day, sync>>
      BY <2>4 DEF BuildStep, StartBuild, DeleteBatch, UpsertBatch, NextCollection, EndBuild,
                  BuildFails, UnchangedButBuild, LoadPage, Puts, Put, UnchangedButGlossary
    <3> QED BY <2>1, <3>1 DEF SnapshotInv
  <2> QED BY <2>2, <2>3, <2>4, CommitFits, StepsOfCatalogue
<1>3. SnapshotInv => SnapshotFitsCatalogue
  BY DEF SnapshotInv
<1> QED BY <1>1, <1>2, <1>3, CatalogueKeepsTypes, PTL DEF Spec

-----------------------------------------------------------------------------
(* No edit from a page that was loaded before an owner certified a term    *)
(* takes the certification away (update_glossary).                         *)
THEOREM CertificationIsKept == Spec => CertificationStays
<1>1. TypeInv /\ [Next]_vars =>
        [\A k \in Terms : biz_glossary[k].certified => biz_glossary'[k].certified]_vars
  <2> SUFFICES ASSUME TypeInv, Next,
                      NEW k \in Terms, biz_glossary[k].certified
               PROVE  biz_glossary'[k].certified
    OBVIOUS
  <2>1. CASE UNCHANGED biz_glossary
    BY <2>1
  <2>2. ASSUME NEW e \in Editors, NEW j \in Terms, NEW term, Puts(e, j, term)
        PROVE  biz_glossary'[k].certified
    BY <2>2 DEF Puts, Put, TypeInv, Glossaries
  <2>3. SyncStep \/ CommitSync \/ BuildStep \/ (\E e \in Editors : LoadPage(e))
          => UNCHANGED biz_glossary
    BY DEF SyncStep, Fetch, SyncFails, Alter, Midnight, CommitSync, BuildStep, StartBuild,
           DeleteBatch, UpsertBatch, NextCollection, EndBuild, BuildFails, UnchangedButBuild,
           LoadPage
  <2> QED BY <2>1, <2>2, <2>3, StepsOfCatalogue
<1> QED BY <1>1, CatalogueKeepsTypes, PTL DEF Spec, CertificationStays
=============================================================================
