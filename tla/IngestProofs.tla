---------------------------- MODULE IngestProofs ----------------------------
(* What a statement's row says of its text, for every platform, page size   *)
(* and number of changes and failures.                                      *)
EXTENDS Ingest, TableGraphProofs, SequenceTheorems, TLAPS

-----------------------------------------------------------------------------
(* Filtered is a sequence of what it keeps.                                 *)
KeptAt(s, keep, kept, n) ==
  IF n = 0 THEN <<>> ELSE IF s[n] \in keep THEN Append(kept[n-1], s[n]) ELSE kept[n-1]
Keeps(kept, s, keep, m) == kept = [n \in 0 .. m |-> KeptAt(s, keep, kept, n)]

LEMMA KeptExists ==
  ASSUME NEW s, NEW keep, NEW m \in Nat
  PROVE  \E kept : Keeps(kept, s, keep, m)
<1> DEFINE S == {n \in Nat : \E kept : Keeps(kept, s, keep, n)}
<1>1. 0 \in S
  <2>1. Keeps([n \in 0 .. 0 |-> <<>>], s, keep, 0)
    BY DEF Keeps, KeptAt
  <2> QED BY <2>1
<1>2. ASSUME NEW n \in Nat, n \in S PROVE n + 1 \in S
  <2>1. PICK f : Keeps(f, s, keep, n)
    BY <1>2
  <2> DEFINE g == [i \in 0 .. (n+1) |-> IF i = n+1 THEN KeptAt(s, keep, f, n+1) ELSE f[i]]
  <2>2. \A i \in 0 .. n : f[i] = KeptAt(s, keep, f, i)
    BY <2>1 DEF Keeps
  <2>3. \A i \in 0 .. n : g[i] = f[i]
    OBVIOUS
  <2>4. ASSUME NEW i \in 0 .. (n+1) PROVE KeptAt(s, keep, g, i) = KeptAt(s, keep, f, i)
    <3>1. CASE i = 0
      BY <3>1 DEF KeptAt
    <3>2. CASE i # 0
      <4>1. g[i-1] = f[i-1]
        BY <3>2, <2>3
      <4> HIDE DEF g
      <4> QED BY <3>2, <4>1 DEF KeptAt
    <3> QED BY <3>1, <3>2
  <2>5. \A i \in 0 .. (n+1) :
          (IF i = n+1 THEN KeptAt(s, keep, f, n+1) ELSE f[i]) = KeptAt(s, keep, f, i)
    BY <2>2
  <2>6. g = [i \in 0 .. (n+1) |-> KeptAt(s, keep, f, i)]
    BY <2>5
  <2> HIDE DEF g
  <2>7. Keeps(g, s, keep, n+1)
    BY <2>4, <2>6 DEF Keeps
  <2> QED BY <2>7
<1> HIDE DEF S
<1>3. Nat \subseteq S
  BY <1>1, <1>2, AllNaturals
<1> QED BY <1>3 DEF S

LEMMA FilteredType ==
  ASSUME NEW S, NEW s \in Seq(S), NEW keep
  PROVE  Filtered(s, keep) \in Seq(S \cap keep)
<1> DEFINE kept == CHOOSE f : Keeps(f, s, keep, Len(s))
<1>1. Len(s) \in Nat
  OBVIOUS
<1>2. Filtered(s, keep) = kept[Len(s)]
  BY DEF Filtered, Keeps, KeptAt
<1>3. Keeps(kept, s, keep, Len(s))
  BY <1>1, KeptExists
<1> HIDE DEF kept
<1>4. \A i \in 0 .. Len(s) : kept[i] = KeptAt(s, keep, kept, i)
  BY <1>3 DEF Keeps
<1> DEFINE Q == {n \in Nat : n <= Len(s) => kept[n] \in Seq(S \cap keep)}
<1>5. 0 \in Q
  <2>1. kept[0] = <<>>
    BY <1>1, <1>4 DEF KeptAt
  <2> QED BY <2>1, EmptySeq
<1>6. ASSUME NEW n \in Nat, n \in Q PROVE n + 1 \in Q
  <2> SUFFICES ASSUME n + 1 <= Len(s) PROVE kept[n+1] \in Seq(S \cap keep)
    OBVIOUS
  <2>1. kept[n+1] = IF s[n+1] \in keep THEN Append(kept[n], s[n+1]) ELSE kept[n]
    BY <1>1, <1>4 DEF KeptAt
  <2>2. kept[n] \in Seq(S \cap keep) /\ s[n+1] \in S
    BY <1>1, <1>6
  <2> QED BY <2>1, <2>2, AppendProperties
<1> HIDE DEF Q
<1>7. Nat \subseteq Q
  BY <1>5, <1>6, AllNaturals
<1> QED BY <1>1, <1>2, <1>7 DEF Q

-----------------------------------------------------------------------------
(* What a parse may come to, whichever of the two asked for it.             *)
Levels == {"table", "column"}
Results == [status : {"success", "degraded", "failed"}, reason : Reasons, edges : SUBSET Levels]

LEMMA ParseSqlType ==
  ASSUME NEW text, NEW snap
  PROVE  ParseSql(text, snap) \in Results
<1> DEFINE returns == Returns(text, snap)
           T == {k \in DOMAIN returns : returns[k][1]}
<1>1. DOMAIN returns = 1 .. 8 /\ returns[8][1]
  BY DEF Returns
<1>2. PICK least \in T : \A y \in T : least <= y
  <2>1. T \subseteq Nat /\ 8 \in T
    BY <1>1
  <2> HIDE DEF T
  <2> QED BY <2>1, Least
<1>3. Min(T) \in T
  <2> HIDE DEF T
  <2> QED BY <1>2 DEF Min
<1>4. \A k \in 1 .. 8 : returns[k][2] \in Results
  <2> DEFINE answers(k) == returns[k][2] \in Results
  <2>1. answers(1) /\ answers(2) /\ answers(3) /\ answers(4)
    BY DEF Returns, Results, Result, Reasons, Levels
  <2>2. answers(5) /\ answers(6) /\ answers(7) /\ answers(8)
    BY DEF Returns, Results, Result, Reasons, Levels
  <2> HIDE DEF answers
  <2>3. \A k \in 1 .. 8 : answers(k)
    BY <2>1, <2>2
  <2> QED BY <2>3 DEF answers
<1>5. Min(T) \in 1 .. 8
  BY <1>1, <1>3
<1>6. ParseSql(text, snap) = returns[Min(T)][2]
  BY DEF ParseSql
<1> HIDE DEF T, returns
<1> QED BY <1>4, <1>5, <1>6

LEMMA CrosscheckedType ==
  ASSUME NEW text, NEW result \in Results
  PROVE  Crosschecked(text, result) \in Results
  BY DEF Crosschecked, Results, Reasons

LEMMA ParsesType ==
  ASSUME NEW text \in Texts, NEW snap \in BOOLEAN
  PROVE  ParseJob[text][snap] \in Results /\ ParseHook[text][snap] \in Results
<1>1. Result("degraded", "timeout", {}) \in Results /\ Result("failed", "internal_error", {}) \in Results
  BY DEF Result, Results, Reasons
<1>2. ParseHook[text][snap] = Crosschecked(text, ParseSql(text, snap))
  BY DEF ParseHook
<1>3. ParseJob[text][snap] =
        Crosschecked(text,
          IF "slow" \in Flaws[text] THEN Result("degraded", "timeout", {})
          ELSE IF "internal" \in Flaws[text] THEN Result("failed", "internal_error", {})
          ELSE ParseSql(text, snap))
  BY DEF ParseJob
<1> QED BY <1>1, <1>2, <1>3, ParseSqlType, CrosscheckedType

(* One parse gives its edges, status and reason together: the levels that   *)
(* the two stand for, and none after a timeout (parse_sql, _parse_job).     *)
Leveled == {result \in Results :
              /\ result.edges = LevelsOf(result.status, result.reason)
              /\ result.status = "success" => result.reason \in {"", "crosscheck_mismatch"}}

LEMMA ParseSqlLeveled ==
  ASSUME NEW text, NEW snap
  PROVE  ParseSql(text, snap) \in Leveled
<1> DEFINE returns == Returns(text, snap)
           T == {k \in DOMAIN returns : returns[k][1]}
<1>1. DOMAIN returns = 1 .. 8 /\ returns[8][1]
  BY DEF Returns
<1>2. PICK least \in T : \A y \in T : least <= y
  <2>1. T \subseteq Nat /\ 8 \in T
    BY <1>1
  <2> HIDE DEF T
  <2> QED BY <2>1, Least
<1>3. Min(T) \in T
  <2> HIDE DEF T
  <2> QED BY <1>2 DEF Min
<1>4. \A k \in 1 .. 8 : returns[k][2] \in Leveled
  <2> DEFINE answers(k) == returns[k][2] \in Leveled
  <2>1. answers(1) /\ answers(2)
    BY DEF Returns, Leveled, LevelsOf, Results, Result, Reasons, Levels
  <2>2. answers(3) /\ answers(4)
    BY DEF Returns, Leveled, LevelsOf, Results, Result, Reasons, Levels
  <2>3. answers(5) /\ answers(6)
    BY DEF Returns, Leveled, LevelsOf, Results, Result, Reasons, Levels
  <2>4. answers(7) /\ answers(8)
    BY DEF Returns, Leveled, LevelsOf, Results, Result, Reasons, Levels
  <2> HIDE DEF answers
  <2>5. \A k \in 1 .. 8 : answers(k)
    BY <2>1, <2>2, <2>3, <2>4
  <2> QED BY <2>5 DEF answers
<1>5. Min(T) \in 1 .. 8
  BY <1>1, <1>3
<1>6. ParseSql(text, snap) = returns[Min(T)][2]
  BY DEF ParseSql
<1> HIDE DEF T, returns
<1> QED BY <1>4, <1>5, <1>6

LEMMA CrosscheckedLeveled ==
  ASSUME NEW text, NEW result \in Leveled
  PROVE  Crosschecked(text, result) \in Leveled
  BY DEF Crosschecked, Leveled, LevelsOf, Results, Reasons

LEMMA ParsesLeveled ==
  ASSUME NEW text \in Texts, NEW snap \in BOOLEAN
  PROVE  ParseJob[text][snap] \in Leveled /\ ParseHook[text][snap] \in Leveled
<1>1. Result("degraded", "timeout", {}) \in Leveled /\ Result("failed", "internal_error", {}) \in Leveled
  BY DEF Result, Results, Reasons, Leveled, LevelsOf
<1>2. ParseHook[text][snap] = Crosschecked(text, ParseSql(text, snap))
  BY DEF ParseHook
<1>3. ParseJob[text][snap] =
        Crosschecked(text,
          IF "slow" \in Flaws[text] THEN Result("degraded", "timeout", {})
          ELSE IF "internal" \in Flaws[text] THEN Result("failed", "internal_error", {})
          ELSE ParseSql(text, snap))
  BY DEF ParseJob
<1> QED BY <1>1, <1>2, <1>3, ParseSqlLeveled, CrosscheckedLeveled

-----------------------------------------------------------------------------
(* The state's types, strengthened: what the collector holds are nodes with *)
(* texts, and a rebuild has at most the statements that are there.          *)
Rows == [item : Items, text : Texts, status : Statuses, reason : Reasons, edges : SUBSET Levels]
Found == [item : Items, text : Texts]

RowsOK ==
  /\ rows \in Seq(Rows)
  /\ \A j, k \in DOMAIN rows : rows[j].item = rows[k].item => j = k \/ rows[k].item \in Unnumbered

CollectorOK ==
  /\ collector \in [at : {"idle", "fetch", "next", "hook"}, page : Nat \ {0},
                    tries : 0 .. Attempts - 1, items : Seq(Found), sql : Nat]
  /\ collector.at = "hook" => collector.sql \in DOMAIN rows
  /\ collector.at # "hook" => collector.sql = 0

RebuildOK ==
  /\ rebuild \in [at : {"idle", "read", "parsed", "loaded"}, jobs : Seq(Texts), snap : BOOLEAN]
  /\ Len(rebuild.jobs) <= Len(rows)

TypeInv ==
  /\ platform \in [Items -> Texts \union {NoText}] /\ snapshot \in BOOLEAN
  /\ RowsOK /\ CollectorOK /\ RebuildOK
  /\ fresh \subseteq DOMAIN rows /\ overtaken \subseteq DOMAIN rows

LEMMA TypeInvIsTypeOK == TypeInv => TypeOK
<1> SUFFICES ASSUME TypeInv PROVE TypeOK
  OBVIOUS
<1>1. rows \in Seq(Rows) /\ rebuild.jobs \in Seq(Texts) /\ Len(rebuild.jobs) <= Len(rows)
  BY DEF TypeInv, RowsOK, RebuildOK
<1>2. DOMAIN rows = 1 .. Len(rows) /\ DOMAIN rebuild.jobs = 1 .. Len(rebuild.jobs)
      /\ Len(rows) \in Nat /\ Len(rebuild.jobs) \in Nat
  BY <1>1, LenProperties
<1>3. DOMAIN rebuild.jobs \subseteq DOMAIN rows
  BY <1>1, <1>2
<1>4. (collector.at = "hook") <=> (collector.sql \in DOMAIN rows)
  BY <1>2 DEF TypeInv, CollectorOK
<1> QED BY <1>3, <1>4 DEF TypeInv, TypeOK, RowsOK, CollectorOK, RebuildOK, Rows, Levels

(* What the listing, a page of it and its valid items are.                  *)
LEMMA ListedType == TypeInv => Listed \in Seq({i \in Items : platform[i] \in Texts})
<1> SUFFICES ASSUME TypeInv PROVE Listed \in Seq({i \in Items : platform[i] \in Texts})
  OBVIOUS
<1>1. Listing \in Seq(Items)
  BY IngestAssumption
<1>2. Listed \in Seq(Items \cap {i \in Items : Offered(i)})
  BY <1>1, FilteredType DEF Listed
<1>3. Items \cap {i \in Items : Offered(i)} \subseteq {i \in Items : platform[i] \in Texts}
  BY DEF TypeInv, Offered
<1> QED BY <1>2, <1>3, SeqMonotonic

LEMMA PageType ==
  ASSUME NEW S, NEW listed \in Seq(S), NEW p \in Nat \ {0}
  PROVE  Page(listed, p) \in Seq(S)
<1>1. PageSize \in Nat \ {0} /\ Len(listed) \in Nat
  BY IngestAssumption
<1> DEFINE T == {p * PageSize, Len(listed)}
<1>2. p * PageSize \in Nat
  BY <1>1
<1>3. PICK least \in T : \A y \in T : least <= y
  BY <1>1, <1>2
<1>4. Min(T) \in T /\ \A y \in T : Min(T) <= y
  <2> HIDE DEF T
  <2> QED BY <1>3 DEF Min
<1>5. Min(T) \in Nat /\ Min(T) <= Len(listed)
  BY <1>1, <1>2, <1>4
<1>6. (p - 1) * PageSize + 1 \in Nat \ {0}
  BY <1>1
<1> HIDE DEF T
<1>7. \A i \in (p - 1) * PageSize + 1 .. Min(T) : listed[i] \in S
  <2> DEFINE first == (p - 1) * PageSize + 1
  <2>1. first \in Nat \ {0}
    BY <1>6
  <2> HIDE DEF first
  <2>2. \A i \in first .. Min(T) : i \in 1 .. Len(listed)
    BY <1>1, <1>5, <2>1
  <2> QED BY <2>2, ElementOfSeq DEF first
<1>8. Page(listed, p) = SubSeq(listed, (p - 1) * PageSize + 1, Min(T))
  BY DEF Page, T
<1> QED BY <1>5, <1>6, <1>7, <1>8, SubSeqProperties

LEMMA FetchedType ==
  ASSUME NEW batch \in Seq({i \in Items : platform[i] \in Texts})
  PROVE  Fetched(batch) \in Seq(Found)
<1>1. DOMAIN batch = 1 .. Len(batch) /\ Len(batch) \in Nat
  BY LenProperties
<1>2. \A k \in 1 .. Len(batch) : batch[k] \in Items /\ platform[batch[k]] \in Texts
  BY <1>1
<1>3. \A k \in 1 .. Len(batch) : [item |-> batch[k], text |-> platform[batch[k]]] \in Found
  BY <1>2 DEF Found
<1> QED BY <1>1, <1>3 DEF Fetched

LEMMA ValidType ==
  ASSUME NEW items \in Seq(Found)
  PROVE  Valid(items) \in Seq(Found)
<1>1. Valid(items) \in Seq(Found \cap Registered)
  BY FilteredType DEF Valid
<1> QED BY <1>1, SeqMonotonic

-----------------------------------------------------------------------------
(* The types after a step.                                                  *)
LEMMA Places ==
  ASSUME TypeInv
  PROVE  /\ Len(rows) \in Nat /\ DOMAIN rows = 1 .. Len(rows) /\ \A k \in DOMAIN rows : rows[k] \in Rows
         /\ Len(rebuild.jobs) \in Nat /\ DOMAIN rebuild.jobs = 1 .. Len(rebuild.jobs)
         /\ DOMAIN rebuild.jobs \subseteq DOMAIN rows
         /\ \A k \in DOMAIN rebuild.jobs : rebuild.jobs[k] \in Texts
<1>1. rows \in Seq(Rows) /\ rebuild.jobs \in Seq(Texts) /\ Len(rebuild.jobs) <= Len(rows)
  BY DEF TypeInv, RowsOK, RebuildOK
<1> QED BY <1>1, LenProperties, ElementOfSeq

(* Rows are edited where they are.                                          *)
LEMMA RowsEdited ==
  ASSUME TypeInv, DOMAIN rows' = DOMAIN rows, rows' = [k \in DOMAIN rows' |-> rows'[k]],
         \A k \in DOMAIN rows : rows'[k] \in Rows /\ rows'[k].item = rows[k].item
  PROVE  RowsOK' /\ Len(rows') = Len(rows)
<1>1. Len(rows) \in Nat /\ DOMAIN rows = 1 .. Len(rows)
  BY Places
<1>2. rows' \in Seq(Rows)
  <2>1. rows' \in [1 .. Len(rows) -> Rows]
    BY <1>1
  <2> QED BY <1>1, <2>1
<1>3. Len(rows') = Len(rows)
  BY <1>1, <1>2, LenProperties
<1>4. \A j, k \in DOMAIN rows : rows[j].item = rows[k].item => j = k \/ rows[k].item \in Unnumbered
  BY DEF TypeInv, RowsOK
<1> QED BY <1>2, <1>3, <1>4 DEF RowsOK

LEMMA PendingType ==
  ASSUME NEW row \in Rows, NEW text \in Texts
  PROVE  /\ Pending(row, text) \in Rows /\ Pending(row, text).item = row.item
         /\ Pending(row, text).text = text /\ Pending(row, text).status = "pending"
  BY DEF Pending, Rows, Statuses

LEMMA StoredType ==
  ASSUME NEW row \in Rows, NEW result \in Results
  PROVE  /\ Stored(row, result) \in Rows
         /\ Stored(row, result).item = row.item /\ Stored(row, result).text = row.text
         /\ Stored(row, result).status = result.status
         /\ Stored(row, result).reason = result.reason
         /\ Stored(row, result).edges = result.edges
  BY DEF Stored, Rows, Statuses, Results

(* The rows after the statuses of some jobs are stored.                     *)
Parse(k) == ParseJob[rebuild.jobs[k]][rebuild.snap]
WithStatus(row, result) == [row EXCEPT !.status = result.status, !.reason = result.reason]

LEMMA WithStatusType ==
  ASSUME NEW row \in Rows, NEW result \in Results
  PROVE  /\ WithStatus(row, result) \in Rows /\ WithStatus(row, result).item = row.item
         /\ WithStatus(row, result).text = row.text /\ WithStatus(row, result).edges = row.edges
         /\ WithStatus(row, result).status = result.status
         /\ WithStatus(row, result).reason = result.reason
  BY DEF WithStatus, Rows, Results, Statuses

LEMMA ParseType ==
  ASSUME TypeInv, NEW k \in DOMAIN rebuild.jobs
  PROVE  Parse(k) \in Results
  BY Places, ParsesType DEF Parse, TypeInv, RebuildOK

LEMMA StatusesType ==
  ASSUME TypeInv, NEW ids \in SUBSET (DOMAIN rebuild.jobs), NEW k \in DOMAIN rows
  PROVE  /\ k \notin ids => StatusesOf(ids)[k] = rows[k]
         /\ k \in ids => StatusesOf(ids)[k] = WithStatus(rows[k], Parse(k))
         /\ StatusesOf(ids)[k] \in Rows /\ StatusesOf(ids)[k].item = rows[k].item
         /\ StatusesOf(ids)[k].text = rows[k].text
<1>1. k \notin ids => StatusesOf(ids)[k] = rows[k]
  BY DEF StatusesOf
<1>2. k \in ids => StatusesOf(ids)[k] = WithStatus(rows[k], Parse(k))
  BY DEF StatusesOf, WithStatus, Parse
<1>3. rows[k] \in Rows
  BY Places
<1>4. k \in ids => Parse(k) \in Results
  BY ParseType
<1> QED BY <1>1, <1>2, <1>3, <1>4, WithStatusType

(* A step of the collector that leaves the rows alone.                      *)
LEMMA CollectorMoves ==
  ASSUME TypeInv, UNCHANGED rows, UnchangedButCollector, UNCHANGED fresh, CollectorOK'
  PROVE  TypeInv'
  BY DEF TypeInv, UnchangedButCollector, RowsOK, RebuildOK

(* A step of a rebuild that leaves the rows alone.                          *)
LEMMA RebuildMoves ==
  ASSUME TypeInv, UNCHANGED rows, UnchangedButRebuild, RebuildOK',
         fresh' \subseteq fresh, overtaken' \subseteq fresh \union overtaken
  PROVE  TypeInv'
  BY DEF TypeInv, UnchangedButRebuild, RowsOK, CollectorOK

LEMMA IdleType == Idle \in [at : {"idle"}, page : Nat \ {0}, tries : 0 .. Attempts - 1,
                            items : Seq(Found), sql : {0}]
<1>1. Attempts \in Nat \ {0}
  BY IngestAssumption
<1>2. 0 \in 0 .. Attempts - 1 /\ 1 \in Nat \ {0} /\ <<>> \in Seq(Found)
  BY <1>1, EmptySeq
<1> QED BY <1>2 DEF Idle

(* One row is edited.                                                       *)
LEMMA RowEdited ==
  ASSUME TypeInv, NEW k \in DOMAIN rows, NEW row \in Rows, row.item = rows[k].item,
         rows' = [rows EXCEPT ![k] = row]
  PROVE  /\ RowsOK' /\ Len(rows') = Len(rows) /\ DOMAIN rows' = DOMAIN rows
         /\ rows'[k] = row /\ \A j \in DOMAIN rows \ {k} : rows'[j] = rows[j]
<1>1. DOMAIN rows' = DOMAIN rows /\ rows' = [j \in DOMAIN rows' |-> rows'[j]]
  OBVIOUS
<1>2. rows'[k] = row /\ \A j \in DOMAIN rows \ {k} : rows'[j] = rows[j]
  OBVIOUS
<1>3. \A j \in DOMAIN rows : rows'[j] \in Rows /\ rows'[j].item = rows[j].item
  BY <1>2, Places
<1> QED BY <1>1, <1>2, <1>3, RowsEdited

LEMMA UpdateTextDoes ==
  ASSUME TypeInv, UpdateText
  PROVE  \E k \in DOMAIN rows, text \in Texts :
           /\ DOMAIN rows' = DOMAIN rows /\ rows'[k] = Pending(rows[k], text)
           /\ \A j \in DOMAIN rows \ {k} : rows'[j] = rows[j]
           /\ Written({k}) /\ UNCHANGED <<rebuild, lastRun>> /\ TypeInv'
<1> DEFINE x == Head(collector.items)
<1>1. PICK k \in RowsOf(x.item) :
        /\ rows' = [rows EXCEPT ![k] = Pending(@, x.text)]
        /\ collector' = [collector EXCEPT !.at = "hook", !.sql = k, !.items = Tail(@)]
        /\ Written({k})
  BY DEF UpdateText
<1>2. collector.items \in Seq(Found) /\ collector.items # <<>>
  BY DEF UpdateText, TypeInv, CollectorOK
<1>3. x \in Found /\ Tail(collector.items) \in Seq(Found)
  BY <1>2, HeadTailProperties
<1> HIDE DEF x
<1>4. k \in DOMAIN rows /\ x.text \in Texts /\ rows[k] \in Rows /\ k \in Nat
  BY <1>1, <1>3, Places DEF RowsOf, Found
<1>5. /\ RowsOK' /\ Len(rows') = Len(rows) /\ DOMAIN rows' = DOMAIN rows
      /\ rows'[k] = Pending(rows[k], x.text) /\ \A j \in DOMAIN rows \ {k} : rows'[j] = rows[j]
  BY <1>1, <1>4, RowEdited, PendingType
<1>6. CollectorOK'
  BY <1>1, <1>3, <1>4, <1>5 DEF CollectorOK, TypeInv
<1>7. UNCHANGED <<platform, snapshot, rebuild, lastRun>>
  BY DEF UpdateText
<1>8. TypeInv'
  BY <1>1, <1>4, <1>5, <1>6, <1>7 DEF TypeInv, RebuildOK, Written
<1> QED BY <1>1, <1>4, <1>5, <1>7, <1>8

LEMMA InsertDoes ==
  ASSUME TypeInv, InsertStatement
  PROVE  LET k == Len(rows) + 1
         IN  /\ DOMAIN rows' = DOMAIN rows \union {k} /\ rows'[k].status = "pending"
             /\ \A j \in DOMAIN rows : j # k /\ rows'[j] = rows[j]
             /\ Written({k}) /\ UNCHANGED <<rebuild, lastRun>> /\ TypeInv'
<1> DEFINE x == Head(collector.items)
           row == [item |-> x.item, text |-> x.text, status |-> "pending", reason |-> "", edges |-> {}]
           k == Len(rows) + 1
<1>1. /\ rows' = Append(rows, row) /\ RowsOf(x.item) = {}
      /\ collector' = [collector EXCEPT !.at = "hook", !.sql = k, !.items = Tail(@)]
      /\ Written({k})
  BY DEF InsertStatement
<1>2. collector.items \in Seq(Found) /\ collector.items # <<>>
  BY DEF InsertStatement, TypeInv, CollectorOK
<1>3. x \in Found /\ Tail(collector.items) \in Seq(Found)
  BY <1>2, HeadTailProperties
<1> HIDE DEF x
<1>4. row \in Rows /\ row.item = x.item /\ row.status = "pending"
  BY <1>3 DEF Rows, Found, Statuses, Reasons
<1>5. /\ Len(rows) \in Nat /\ DOMAIN rows = 1 .. Len(rows) /\ rows \in Seq(Rows)
  BY Places DEF TypeInv, RowsOK
<1> HIDE DEF row
<1>6. /\ rows' \in Seq(Rows) /\ Len(rows') = k /\ rows'[k] = row
      /\ \A j \in 1 .. Len(rows) : rows'[j] = rows[j]
  BY <1>1, <1>4, <1>5, AppendProperties
<1>7. DOMAIN rows' = DOMAIN rows \union {k} /\ k \notin DOMAIN rows
  BY <1>5, <1>6, LenProperties
<1>8. RowsOK'
  <2>1. \A j \in DOMAIN rows : rows[j].item = x.item => x.item \in Unnumbered
    BY <1>1 DEF RowsOf
  <2>2. \A i, j \in DOMAIN rows : rows[i].item = rows[j].item => i = j \/ rows[j].item \in Unnumbered
    BY DEF TypeInv, RowsOK
  <2>3. \A j \in DOMAIN rows : rows'[j] = rows[j]
    BY <1>5, <1>6
  <2> QED BY <1>4, <1>6, <1>7, <2>1, <2>2, <2>3 DEF RowsOK
<1>9. CollectorOK'
  <2>1. k \in Nat /\ k \in DOMAIN rows'
    BY <1>5, <1>7
  <2>2. collector' = [collector EXCEPT !.at = "hook", !.sql = k, !.items = Tail(@)]
    BY <1>1
  <2> HIDE DEF k
  <2> QED BY <1>3, <2>1, <2>2 DEF CollectorOK, TypeInv
<1>10. UNCHANGED <<platform, snapshot, rebuild, lastRun>>
  BY DEF InsertStatement
<1>11. TypeInv'
  BY <1>1, <1>5, <1>6, <1>7, <1>8, <1>9, <1>10 DEF TypeInv, RebuildOK, Written
<1> QED BY <1>1, <1>4, <1>5, <1>6, <1>7, <1>10, <1>11

LEMMA RunHookDoes ==
  ASSUME TypeInv, RunHook
  PROVE  \E k \in DOMAIN rows, snap \in BOOLEAN :
           /\ DOMAIN rows' = DOMAIN rows
           /\ rows'[k] = Stored(rows[k], ParseHook[rows[k].text][snap])
           /\ \A j \in DOMAIN rows \ {k} : rows'[j] = rows[j]
           /\ Written({k}) /\ UNCHANGED <<rebuild, lastRun>> /\ TypeInv'
<1> DEFINE k == collector.sql
           result == ParseHook[rows[k].text][snapshot]
<1>1. /\ rows' = [rows EXCEPT ![k] = Stored(@, ParseHook[@.text][snapshot])]
      /\ collector' = [collector EXCEPT !.at = "next", !.sql = 0]
      /\ Written({k}) /\ UNCHANGED <<platform, snapshot, rebuild, lastRun>>
  BY DEF RunHook
<1>2. k \in DOMAIN rows /\ snapshot \in BOOLEAN
  BY DEF RunHook, TypeInv, CollectorOK
<1>3. rows[k] \in Rows /\ rows[k].text \in Texts
  BY <1>2, Places DEF Rows
<1>4. result \in Results
  BY <1>2, <1>3, ParsesType
<1> HIDE DEF result
<1>5. rows' = [rows EXCEPT ![k] = Stored(rows[k], result)]
  BY <1>1, <1>2 DEF result
<1>6. /\ RowsOK' /\ Len(rows') = Len(rows) /\ DOMAIN rows' = DOMAIN rows
      /\ rows'[k] = Stored(rows[k], result) /\ \A j \in DOMAIN rows \ {k} : rows'[j] = rows[j]
  BY <1>2, <1>3, <1>4, <1>5, RowEdited, StoredType
<1>7. CollectorOK'
  BY <1>1 DEF CollectorOK, TypeInv
<1>8. TypeInv'
  BY <1>1, <1>2, <1>6, <1>7 DEF TypeInv, RebuildOK, Written
<1> QED BY <1>1, <1>2, <1>6, <1>8 DEF result

LEMMA CollectorMovesType ==
  ASSUME TypeInv, \/ StartCollect \/ FetchPage \/ RequestFails \/ EndCollect
                  \/ SkipUnchanged \/ HookRaises \/ CollectorDies
  PROVE  TypeInv' /\ UNCHANGED <<rows, fresh>> /\ UnchangedButCollector
<1>1. UNCHANGED <<rows, fresh>> /\ UnchangedButCollector
  BY DEF StartCollect, FetchPage, RequestFails, EndCollect, SkipUnchanged, HookRaises, CollectorDies
<1>2. ASSUME collector' = Idle PROVE CollectorOK'
  BY <1>2, IdleType DEF CollectorOK
<1>3. ASSUME StartCollect PROVE CollectorOK'
  BY <1>3, IdleType DEF StartCollect, CollectorOK
<1>4. ASSUME FetchPage PROVE CollectorOK'
  <2>1. PICK listed \in {Listed} : \E batch \in {Page(listed, collector.page)} :
          \E items \in {collector.items \o Fetched(batch)} :
            collector' = IF LastPage(batch)
                         THEN [collector EXCEPT !.at = "next", !.items = Valid(items), !.tries = 0]
                         ELSE [collector EXCEPT !.page = @ + 1, !.items = items, !.tries = 0]
    BY <1>4 DEF FetchPage
  <2>2. PICK batch \in {Page(listed, collector.page)} :
          \E items \in {collector.items \o Fetched(batch)} :
            collector' = IF LastPage(batch)
                         THEN [collector EXCEPT !.at = "next", !.items = Valid(items), !.tries = 0]
                         ELSE [collector EXCEPT !.page = @ + 1, !.items = items, !.tries = 0]
    BY <2>1
  <2>3. PICK items \in {collector.items \o Fetched(batch)} :
            collector' = IF LastPage(batch)
                         THEN [collector EXCEPT !.at = "next", !.items = Valid(items), !.tries = 0]
                         ELSE [collector EXCEPT !.page = @ + 1, !.items = items, !.tries = 0]
    BY <2>2
  <2>4. collector.page \in Nat \ {0} /\ collector.items \in Seq(Found) /\ collector.at = "fetch"
    BY <1>4 DEF TypeInv, CollectorOK, FetchPage
  <2>5. batch \in Seq({i \in Items : platform[i] \in Texts})
    BY <2>1, <2>2, <2>4, ListedType, PageType
  <2>6. items \in Seq(Found)
    BY <2>3, <2>4, <2>5, FetchedType, ConcatProperties
  <2>7. Valid(items) \in Seq(Found) /\ 0 \in 0 .. Attempts - 1
    BY <2>6, ValidType, IngestAssumption
  <2>8. collector.page + 1 \in Nat \ {0}
    BY <2>4
  <2> QED BY <1>1, <2>3, <2>4, <2>6, <2>7, <2>8 DEF TypeInv, CollectorOK
<1>5. ASSUME RequestFails PROVE CollectorOK'
  <2>1. CASE LastAttempt(collector.tries)
    BY <1>2, <1>5, <2>1 DEF RequestFails
  <2>2. CASE ~LastAttempt(collector.tries)
    <3>1. collector' = [collector EXCEPT !.tries = @ + 1] /\ collector.at = "fetch"
      BY <1>5, <2>2 DEF RequestFails
    <3>2. collector.tries + 1 \in 0 .. Attempts - 1
      BY <2>2, IngestAssumption DEF LastAttempt, TypeInv, CollectorOK
    <3> QED BY <1>1, <3>1, <3>2 DEF TypeInv, CollectorOK
  <2> QED BY <2>1, <2>2
<1>6. ASSUME SkipUnchanged PROVE CollectorOK'
  <2>1. collector.items \in Seq(Found) /\ collector.items # <<>>
    BY <1>6 DEF SkipUnchanged, TypeInv, CollectorOK
  <2>2. Tail(collector.items) \in Seq(Found)
    BY <2>1, HeadTailProperties
  <2> QED BY <1>1, <1>6, <2>2 DEF SkipUnchanged, TypeInv, CollectorOK
<1>7. CollectorOK'
  BY <1>2, <1>3, <1>4, <1>5, <1>6 DEF EndCollect, HookRaises, CollectorDies
<1> QED BY <1>1, <1>7, CollectorMoves

LEMMA NotRunningType ==
  /\ NotRunning \in [at : {"idle"}, jobs : Seq(Texts), snap : BOOLEAN]
  /\ Len(NotRunning.jobs) = 0 /\ NotRunning.at = "idle"
  BY EmptySeq DEF NotRunning

LEMMA RebuildMovesType ==
  ASSUME TypeInv, StartRebuild \/ ReadJobs \/ Abort \/ RebuildDies
  PROVE  TypeInv' /\ UNCHANGED rows
<1>1. UNCHANGED rows /\ UnchangedButRebuild
  BY DEF StartRebuild, ReadJobs, Abort, RebuildDies
<1>2. Len(rows) \in Nat /\ DOMAIN rows = 1 .. Len(rows) /\ \A k \in DOMAIN rows : rows[k] \in Rows
  BY Places
<1>3. ASSUME rebuild' = NotRunning PROVE RebuildOK'
  BY <1>1, <1>2, <1>3, NotRunningType DEF RebuildOK
<1>4. ASSUME StartRebuild PROVE RebuildOK'
  BY <1>1, <1>2, <1>4, NotRunningType DEF StartRebuild, RebuildOK
<1>5. ASSUME ReadJobs PROVE RebuildOK'
  <2> DEFINE jobs == [k \in DOMAIN rows |-> rows[k].text]
  <2>1. rebuild' = [at |-> "parsed", jobs |-> jobs, snap |-> snapshot]
    BY <1>5 DEF ReadJobs
  <2>2. jobs \in Seq(Texts) /\ Len(jobs) = Len(rows)
    <3>1. \A k \in 1 .. Len(rows) : rows[k].text \in Texts
      BY <1>2 DEF Rows
    <3>2. jobs \in [1 .. Len(rows) -> Texts]
      BY <1>2, <3>1
    <3> QED BY <1>2, <3>2
  <2> HIDE DEF jobs
  <2> QED BY <1>1, <1>2, <2>1, <2>2 DEF RebuildOK, TypeInv
<1>6. RebuildOK'
  BY <1>3, <1>4, <1>5 DEF Abort, RebuildDies
<1>7. fresh' \subseteq fresh /\ overtaken' \subseteq fresh \union overtaken
  BY DEF StartRebuild, ReadJobs, Abort, RebuildDies
<1> QED BY <1>1, <1>6, <1>7, RebuildMoves

(* A rebuild stores the statuses of some of its jobs.                       *)
LEMMA StatusesStored ==
  ASSUME TypeInv, NEW ids \in SUBSET (DOMAIN rebuild.jobs), rows' = StatusesOf(ids),
         UnchangedButRebuild, fresh' = fresh, overtaken' \subseteq fresh \union overtaken,
         rebuild' \in {NotRunning, [rebuild EXCEPT !.at = "loaded"]}
  PROVE  TypeInv' /\ DOMAIN rows' = DOMAIN rows
<1>1. DOMAIN rows' = DOMAIN rows /\ rows' = [k \in DOMAIN rows' |-> rows'[k]]
  BY DEF StatusesOf
<1>2. \A k \in DOMAIN rows : rows'[k] \in Rows /\ rows'[k].item = rows[k].item
  BY StatusesType
<1>3. RowsOK' /\ Len(rows') = Len(rows)
  BY <1>1, <1>2, RowsEdited
<1>4. RebuildOK'
  BY <1>3, Places, NotRunningType DEF RebuildOK, TypeInv
<1> QED BY <1>1, <1>3, <1>4 DEF TypeInv, UnchangedButRebuild, CollectorOK

LEMMA LoadShadowType ==
  ASSUME TypeInv, LoadShadow
  PROVE  TypeInv' /\ DOMAIN rows' = DOMAIN rows
<1>1. /\ rows' = StatusesOf(DOMAIN rebuild.jobs) /\ rebuild' = [rebuild EXCEPT !.at = "loaded"]
      /\ UnchangedButRebuild /\ fresh' = fresh /\ overtaken' = fresh
  BY DEF LoadShadow
<1> QED BY <1>1, StatusesStored

LEMMA RebuildFailsType ==
  ASSUME TypeInv, RebuildFails
  PROVE  \E ids \in SUBSET (DOMAIN rebuild.jobs) :
           /\ rows' = IF rebuild.at = "parsed" THEN StatusesOf(ids) ELSE rows
           /\ TypeInv' /\ DOMAIN rows' = DOMAIN rows
<1>1. PICK n \in 0 .. Len(rebuild.jobs) :
        rows' = IF rebuild.at = "parsed" THEN StatusesOf(1 .. n) ELSE rows
  BY DEF RebuildFails
<1>2. 1 .. n \in SUBSET (DOMAIN rebuild.jobs)
  BY <1>1, Places
<1>3. /\ rebuild' = NotRunning /\ UnchangedButRebuild /\ fresh' = fresh
      /\ overtaken' \subseteq fresh \union overtaken
  BY DEF RebuildFails
<1>4. CASE rebuild.at = "parsed"
  <2>1. TypeInv' /\ DOMAIN rows' = DOMAIN rows
    BY <1>1, <1>2, <1>3, <1>4, StatusesStored
  <2> QED BY <1>1, <1>2, <2>1
<1>5. CASE rebuild.at # "parsed"
  <2>1. rows' = rows
    BY <1>1, <1>5
  <2>2. RebuildOK'
    BY <1>3, <2>1, Places, NotRunningType DEF RebuildOK
  <2>3. TypeInv'
    BY <1>3, <2>1, <2>2, RebuildMoves
  <2> QED BY <1>1, <1>2, <2>1, <2>3
<1> QED BY <1>4, <1>5

LEMMA SwapType ==
  ASSUME TypeInv, SwapEdges
  PROVE  /\ TypeInv' /\ DOMAIN rows' = DOMAIN rows
         /\ \A k \in DOMAIN rows :
              /\ rows'[k].text = rows[k].text /\ rows'[k].status = rows[k].status
              /\ rows'[k].reason = rows[k].reason
              /\ k \in DOMAIN rebuild.jobs => rows'[k].edges = Parse(k).edges
<1> DEFINE edges(k) == IF k \in DOMAIN rebuild.jobs THEN Parse(k).edges ELSE {}
<1>1. rows' = [k \in DOMAIN rows |-> [rows[k] EXCEPT !.edges = edges(k)]]
  BY DEF SwapEdges, Parse
<1>2. \A k \in DOMAIN rows : edges(k) \in SUBSET Levels
  BY ParseType DEF Results
<1> HIDE DEF edges
<1>3. \A k \in DOMAIN rows :
        /\ rows'[k] \in Rows /\ rows'[k].item = rows[k].item /\ rows'[k].text = rows[k].text
        /\ rows'[k].status = rows[k].status /\ rows'[k].reason = rows[k].reason
        /\ rows'[k].edges = edges(k)
  BY <1>1, <1>2, Places DEF Rows
<1>4. DOMAIN rows' = DOMAIN rows /\ rows' = [k \in DOMAIN rows' |-> rows'[k]]
  BY <1>1
<1>5. RowsOK' /\ Len(rows') = Len(rows)
  BY <1>3, <1>4, RowsEdited
<1>6. RebuildOK'
  BY <1>5, Places, NotRunningType DEF SwapEdges, RebuildOK
<1>7. UnchangedButRebuild /\ UNCHANGED <<fresh, overtaken>>
  BY DEF SwapEdges
<1>8. TypeInv'
  BY <1>4, <1>5, <1>6, <1>7 DEF TypeInv, UnchangedButRebuild, CollectorOK
<1> QED BY <1>3, <1>4, <1>8 DEF edges

LEMMA PlatformType ==
  ASSUME TypeInv, Publish \/ SyncMetadata
  PROVE  TypeInv' /\ UNCHANGED <<rows, rebuild, lastRun, fresh, overtaken>>
<1>1. UNCHANGED <<rows, collector, rebuild, lastRun, fresh, overtaken>>
  BY DEF Publish, SyncMetadata
<1>2. platform' \in [Items -> Texts \union {NoText}] /\ snapshot' \in BOOLEAN
  BY IngestAssumption DEF Publish, SyncMetadata, TypeInv
<1> QED BY <1>1, <1>2 DEF TypeInv, RowsOK, CollectorOK, RebuildOK

LEMMA DrawDoes ==
  ASSUME TypeInv, Draw
  PROVE  \E k \in DOMAIN rows :
           /\ DOMAIN rows' = DOMAIN rows /\ TypeInv'
           /\ rows'[k].status = "manual" /\ rows'[k].text = rows[k].text
           /\ \A j \in DOMAIN rows \ {k} : rows'[j] = rows[j]
           /\ UNCHANGED <<rebuild, lastRun, fresh, overtaken>>
<1>1. PICK k \in DOMAIN rows : rows' = [rows EXCEPT ![k].status = "manual"]
  BY DEF Draw
<1> DEFINE row == [rows[k] EXCEPT !.status = "manual"]
<1>2. rows' = [rows EXCEPT ![k] = row]
  BY <1>1
<1>3. row \in Rows /\ row.item = rows[k].item /\ row.text = rows[k].text /\ row.status = "manual"
  BY Places DEF Rows, Statuses
<1> HIDE DEF row
<1>4. /\ RowsOK' /\ Len(rows') = Len(rows) /\ DOMAIN rows' = DOMAIN rows
      /\ rows'[k] = row /\ \A j \in DOMAIN rows \ {k} : rows'[j] = rows[j]
  BY <1>2, <1>3, RowEdited
<1>5. UNCHANGED <<platform, snapshot, collector, rebuild, lastRun, fresh, overtaken>>
  BY DEF Draw
<1> QED BY <1>3, <1>4, <1>5 DEF TypeInv, CollectorOK, RebuildOK

-----------------------------------------------------------------------------
(* What a row says of its text while runs come and go.                      *)
HasStatus(row, result) == row.status = result.status /\ row.reason = result.reason
Fits(row) ==
  \E snap \in BOOLEAN : \/ HasStatus(row, ParseHook[row.text][snap])
                        \/ HasStatus(row, ParseJob[row.text][snap])
IsServed(row, result) == [status |-> row.status, reason |-> row.reason, edges |-> row.edges] = result
Serves(row) ==
  \E snap \in BOOLEAN : \/ IsServed(row, ParseHook[row.text][snap])
                        \/ IsServed(row, ParseJob[row.text][snap])

(* The row k beside the rebuild r, the statements written since it read,    *)
(* those it wrote over, and what the newest run's record says: the texts    *)
(* that were read are those of the rows not written since; once the shadow  *)
(* table is loaded, so are their statuses.                                  *)
RowInv(row, k, r, written, over, run) ==
  /\ r.at \in {"parsed", "loaded"} /\ k \notin written =>
       k \in DOMAIN r.jobs /\ row.text = r.jobs[k]
  /\ r.at = "loaded" /\ k \notin over =>
       /\ k \notin written
       /\ row.status = "manual" \/ HasStatus(row, ParseJob[r.jobs[k]][r.snap])
  /\ k \in over \/ row.status \in {"pending", "manual"} \/ Fits(row)
  /\ run = "success" =>
       k \in over \/ row.status = "manual" \/ (row.status = "pending" /\ k \in written) \/ Serves(row)

RunInv == /\ lastRun \in {"none", "running", "success", "aborted", "failed"}
          /\ rebuild.at # "idle" => lastRun = "running"
StatusInv ==
  /\ RunInv
  /\ \A k \in DOMAIN rows : RowInv(rows[k], k, rebuild, fresh, overtaken, lastRun)

(* A row that a collection has just written, and the others.                *)
LEMMA WrittenInv ==
  ASSUME StatusInv, NEW k, Written({k}), UNCHANGED <<rebuild, lastRun>>,
         DOMAIN rows' \subseteq DOMAIN rows \union {k},
         \A j \in DOMAIN rows \ {k} : rows'[j] = rows[j],
         rows'[k].status = "pending" \/ (Fits(rows'[k]) /\ Serves(rows'[k]))
  PROVE  StatusInv'
<1>1. \A j \in DOMAIN rows \ {k} :
        (j \in fresh' <=> j \in fresh) /\ (j \in overtaken' <=> j \in overtaken)
  BY DEF Written
<1>2. k \in fresh' /\ (rebuild.at = "loaded" => k \in overtaken')
  BY DEF Written
<1>3. RowInv(rows'[k], k, rebuild', fresh', overtaken', lastRun')
  BY <1>2 DEF RowInv
<1>4. ASSUME NEW j \in DOMAIN rows \ {k}
      PROVE  RowInv(rows'[j], j, rebuild', fresh', overtaken', lastRun')
  <2>1. RowInv(rows[j], j, rebuild, fresh, overtaken, lastRun)
    BY DEF StatusInv
  <2> QED BY <1>1, <2>1 DEF RowInv
<1> QED BY <1>3, <1>4 DEF StatusInv, RunInv

(* Nothing that the invariant speaks of changes.                            *)
LEMMA NothingWritten ==
  ASSUME StatusInv, UNCHANGED <<rows, rebuild, lastRun, fresh, overtaken>>
  PROVE  StatusInv'
  BY DEF StatusInv, RunInv

(* A row that fits its text, by what served it.                             *)
LEMMA FitsByJob ==
  ASSUME NEW row, NEW snap \in BOOLEAN, HasStatus(row, ParseJob[row.text][snap])
  PROVE  Fits(row)
  BY DEF Fits

LEMMA CollectInv ==
  ASSUME TypeInv, StatusInv, UpdateText \/ InsertStatement \/ RunHook
  PROVE  TypeInv' /\ StatusInv'
<1>1. CASE UpdateText
  <2>1. PICK k \in DOMAIN rows, text \in Texts :
           /\ DOMAIN rows' = DOMAIN rows /\ rows'[k] = Pending(rows[k], text)
           /\ \A j \in DOMAIN rows \ {k} : rows'[j] = rows[j]
           /\ Written({k}) /\ UNCHANGED <<rebuild, lastRun>> /\ TypeInv'
    BY <1>1, UpdateTextDoes
  <2>2. rows'[k].status = "pending"
    BY <2>1, Places, PendingType
  <2> QED BY <2>1, <2>2, WrittenInv
<1>2. CASE InsertStatement
  BY <1>2, InsertDoes, WrittenInv
<1>3. CASE RunHook
  <2>1. PICK k \in DOMAIN rows, snap \in BOOLEAN :
           /\ DOMAIN rows' = DOMAIN rows
           /\ rows'[k] = Stored(rows[k], ParseHook[rows[k].text][snap])
           /\ \A j \in DOMAIN rows \ {k} : rows'[j] = rows[j]
           /\ Written({k}) /\ UNCHANGED <<rebuild, lastRun>> /\ TypeInv'
    BY <1>3, RunHookDoes
  <2> DEFINE result == ParseHook[rows[k].text][snap]
  <2>2. rows[k] \in Rows /\ rows[k].text \in Texts
    BY <2>1, Places DEF Rows
  <2>3. result \in Results
    BY <2>1, <2>2, ParsesType
  <2>4. /\ rows'[k].text = rows[k].text /\ rows'[k].status = result.status
        /\ rows'[k].reason = result.reason /\ rows'[k].edges = result.edges
    BY <2>1, <2>2, <2>3, StoredType
  <2>5. HasStatus(rows'[k], result) /\ IsServed(rows'[k], result)
    <3> HIDE DEF result
    <3> QED BY <2>3, <2>4 DEF HasStatus, IsServed, Results
  <2>6. Fits(rows'[k]) /\ Serves(rows'[k])
    BY <2>1, <2>4, <2>5 DEF Fits, Serves
  <2> QED BY <2>1, <2>6, WrittenInv
<1> QED BY <1>1, <1>2, <1>3

LEMMA RebuildInv ==
  ASSUME TypeInv, StatusInv, Rebuild \/ Abort \/ RebuildFails \/ RebuildDies
  PROVE  TypeInv' /\ StatusInv'
<1>1. \A k \in DOMAIN rows : RowInv(rows[k], k, rebuild, fresh, overtaken, lastRun)
  BY DEF StatusInv
<1>2. rebuild.snap \in BOOLEAN
  BY DEF TypeInv, RebuildOK
<1>3. CASE StartRebuild \/ Abort \/ RebuildDies
  <2>1. TypeInv' /\ UNCHANGED <<rows, fresh, overtaken>>
    BY <1>3, RebuildMovesType DEF StartRebuild, Abort, RebuildDies
  <2>2. rebuild'.at \in {"idle", "read"} /\ lastRun' # "success" /\ RunInv'
    BY <1>3, NotRunningType DEF StartRebuild, Abort, RebuildDies, RunInv, StatusInv, NotRunning
  <2>3. \A k \in DOMAIN rows : RowInv(rows[k], k, rebuild', fresh, overtaken, lastRun')
    BY <1>1, <2>2 DEF RowInv
  <2> QED BY <2>1, <2>2, <2>3 DEF StatusInv
<1>4. CASE ReadJobs
  <2>1. TypeInv' /\ UNCHANGED rows
    BY <1>4, RebuildMovesType
  <2>2. /\ rebuild'.at = "parsed" /\ rebuild'.jobs = [k \in DOMAIN rows |-> rows[k].text]
        /\ UNCHANGED <<lastRun, overtaken>> /\ lastRun = "running"
    BY <1>4 DEF ReadJobs, StatusInv, RunInv
  <2>3. \A k \in DOMAIN rows : RowInv(rows[k], k, rebuild', fresh', overtaken, lastRun)
    BY <1>1, <2>2 DEF RowInv
  <2> QED BY <2>1, <2>2, <2>3 DEF StatusInv, RunInv
<1>5. CASE LoadShadow
  <2>1. TypeInv' /\ DOMAIN rows' = DOMAIN rows
    BY <1>5, LoadShadowType
  <2>2. /\ rebuild.at = "parsed" /\ rows' = StatusesOf(DOMAIN rebuild.jobs)
        /\ rebuild' = [rebuild EXCEPT !.at = "loaded"]
        /\ overtaken' = fresh /\ UNCHANGED <<lastRun, fresh>>
    BY <1>5 DEF LoadShadow
  <2>3. /\ rebuild'.at = "loaded" /\ rebuild'.jobs = rebuild.jobs /\ rebuild'.snap = rebuild.snap
        /\ lastRun = "running"
    BY <2>2 DEF TypeInv, RebuildOK, StatusInv, RunInv
  <2>4. ASSUME NEW k \in DOMAIN rows, k \notin fresh
        PROVE  RowInv(rows'[k], k, rebuild', fresh', overtaken', lastRun')
    <3>1. k \in DOMAIN rebuild.jobs /\ rows[k].text = rebuild.jobs[k]
      BY <1>1, <2>2, <2>4 DEF RowInv
    <3>2. rows'[k] = WithStatus(rows[k], Parse(k)) /\ rows[k] \in Rows /\ Parse(k) \in Results
      BY <2>2, <3>1, StatusesType, Places, ParseType
    <3>3. HasStatus(rows'[k], Parse(k)) /\ rows'[k].text = rows[k].text
      BY <3>2, WithStatusType DEF HasStatus
    <3>4. Fits(rows'[k])
      BY <1>2, <3>1, <3>3, FitsByJob DEF Parse
    <3> QED BY <2>2, <2>3, <2>4, <3>1, <3>3, <3>4 DEF RowInv, Parse
  <2>5. ASSUME NEW k \in DOMAIN rows, k \in fresh
        PROVE  RowInv(rows'[k], k, rebuild', fresh', overtaken', lastRun')
    BY <2>2, <2>3, <2>5 DEF RowInv
  <2> QED BY <2>1, <2>2, <2>3, <2>4, <2>5 DEF StatusInv, RunInv
<1>6. CASE SwapEdges
  <2>1. /\ TypeInv' /\ DOMAIN rows' = DOMAIN rows
        /\ \A k \in DOMAIN rows :
             /\ rows'[k].text = rows[k].text /\ rows'[k].status = rows[k].status
             /\ rows'[k].reason = rows[k].reason
             /\ k \in DOMAIN rebuild.jobs => rows'[k].edges = Parse(k).edges
    BY <1>6, SwapType
  <2>2. /\ rebuild.at = "loaded" /\ rebuild'.at = "idle" /\ lastRun' = "success"
        /\ UNCHANGED <<fresh, overtaken>>
    BY <1>6, NotRunningType DEF SwapEdges
  <2>3. ASSUME NEW k \in DOMAIN rows
        PROVE  RowInv(rows'[k], k, rebuild', fresh', overtaken', lastRun')
    <3>1. RowInv(rows[k], k, rebuild, fresh, overtaken, lastRun)
      BY <1>1
    <3>2. Fits(rows[k]) => Fits(rows'[k])
      BY <2>1 DEF Fits, HasStatus
    <3>3. ASSUME k \notin overtaken PROVE rows'[k].status = "manual" \/ Serves(rows'[k])
      <4>1. /\ k \in DOMAIN rebuild.jobs /\ rows[k].text = rebuild.jobs[k]
            /\ rows[k].status = "manual" \/ HasStatus(rows[k], Parse(k))
        BY <2>2, <3>1, <3>3 DEF RowInv, Parse
      <4>2. Parse(k) \in Results
        BY <4>1, ParseType
      <4>3. CASE HasStatus(rows[k], Parse(k))
        <5>1. IsServed(rows'[k], Parse(k))
          BY <2>1, <4>1, <4>2, <4>3 DEF IsServed, HasStatus, Results
        <5> QED BY <1>2, <2>1, <4>1, <5>1 DEF Serves, Parse
      <4> QED BY <2>1, <4>1, <4>3
    <3> QED BY <2>1, <2>2, <3>1, <3>2, <3>3 DEF RowInv
  <2> QED BY <2>1, <2>2, <2>3 DEF StatusInv, RunInv
<1>7. CASE RebuildFails
  <2>1. PICK ids \in SUBSET (DOMAIN rebuild.jobs) :
           /\ rows' = IF rebuild.at = "parsed" THEN StatusesOf(ids) ELSE rows
           /\ TypeInv' /\ DOMAIN rows' = DOMAIN rows
    BY <1>7, RebuildFailsType
  <2>2. /\ overtaken' = IF rebuild.at = "parsed" THEN overtaken \union fresh ELSE overtaken
        /\ rebuild'.at = "idle" /\ lastRun' = "failed" /\ UNCHANGED fresh
    BY <1>7, NotRunningType DEF RebuildFails
  <2>3. ASSUME NEW k \in DOMAIN rows
        PROVE  k \in overtaken' \/ rows'[k].status \in {"pending", "manual"} \/ Fits(rows'[k])
    <3>1. RowInv(rows[k], k, rebuild, fresh, overtaken, lastRun)
      BY <1>1
    <3>2. CASE rows'[k] = rows[k]
      BY <2>2, <3>1, <3>2 DEF RowInv
    <3>3. CASE rows'[k] # rows[k]
      <4>1. rebuild.at = "parsed" /\ rows' = StatusesOf(ids) /\ k \in ids
        BY <2>1, <3>3, StatusesType
      <4>2. rows'[k] = WithStatus(rows[k], Parse(k)) /\ rows[k] \in Rows /\ Parse(k) \in Results
        BY <2>1, <4>1, StatusesType, Places, ParseType
      <4>3. HasStatus(rows'[k], Parse(k)) /\ rows'[k].text = rows[k].text
        BY <4>2, WithStatusType DEF HasStatus
      <4>4. CASE k \notin fresh
        <5>1. rows[k].text = rebuild.jobs[k]
          BY <3>1, <4>1, <4>4 DEF RowInv
        <5> QED BY <1>2, <4>3, <5>1, FitsByJob DEF Parse
      <4> QED BY <2>2, <4>1, <4>4
    <3> QED BY <3>2, <3>3
  <2>4. \A k \in DOMAIN rows' : RowInv(rows'[k], k, rebuild', fresh', overtaken', lastRun')
    BY <2>1, <2>2, <2>3 DEF RowInv
  <2>5. RunInv'
    BY <2>2 DEF RunInv
  <2> QED BY <2>1, <2>4, <2>5 DEF StatusInv
<1> QED BY <1>3, <1>4, <1>5, <1>6, <1>7 DEF Rebuild

LEMMA OtherInv ==
  ASSUME TypeInv, StatusInv, Publish \/ SyncMetadata \/ Draw
  PROVE  TypeInv' /\ StatusInv'
<1>1. CASE Publish \/ SyncMetadata
  BY <1>1, PlatformType, NothingWritten
<1>2. CASE Draw
  <2>1. PICK k \in DOMAIN rows :
           /\ DOMAIN rows' = DOMAIN rows /\ TypeInv'
           /\ rows'[k].status = "manual" /\ rows'[k].text = rows[k].text
           /\ \A j \in DOMAIN rows \ {k} : rows'[j] = rows[j]
           /\ UNCHANGED <<rebuild, lastRun, fresh, overtaken>>
    BY <1>2, DrawDoes
  <2>2. ASSUME NEW j \in DOMAIN rows
        PROVE  RowInv(rows'[j], j, rebuild, fresh, overtaken, lastRun)
    <3>1. RowInv(rows[j], j, rebuild, fresh, overtaken, lastRun)
      BY DEF StatusInv
    <3>2. CASE j = k
      BY <2>1, <3>1, <3>2 DEF RowInv
    <3> QED BY <2>1, <3>1, <3>2
  <2> QED BY <2>1, <2>2 DEF StatusInv, RunInv
<1> QED BY <1>1, <1>2

LEMMA IngestInductive == Spec => [](TypeInv /\ StatusInv)
<1>1. Init => TypeInv /\ StatusInv
  <2> SUFFICES ASSUME Init PROVE TypeInv /\ StatusInv
    OBVIOUS
  <2>1. rows = <<>> /\ DOMAIN rows = {} /\ Len(rows) = 0 /\ rows \in Seq(Rows)
    BY EmptySeq DEF Init
  <2>2. RowsOK /\ RebuildOK /\ CollectorOK
    BY <2>1, IdleType, NotRunningType DEF Init, RowsOK, RebuildOK, CollectorOK, Idle
  <2>3. platform \in [Items -> Texts \union {NoText}]
    BY DEF Init
  <2> QED BY <2>1, <2>2, <2>3, NotRunningType DEF Init, TypeInv, StatusInv, RunInv
<1>2. TypeInv /\ StatusInv /\ [Next]_vars => TypeInv' /\ StatusInv'
  <2> SUFFICES ASSUME TypeInv, StatusInv, [Next]_vars PROVE TypeInv' /\ StatusInv'
    OBVIOUS
  <2>1. CASE UNCHANGED vars
    BY <2>1, NothingWritten DEF vars, TypeInv, RowsOK, CollectorOK, RebuildOK
  <2>2. CASE \/ StartCollect \/ FetchPage \/ RequestFails \/ EndCollect
             \/ SkipUnchanged \/ HookRaises \/ CollectorDies
    BY <2>2, CollectorMovesType, NothingWritten DEF UnchangedButCollector
  <2> QED BY <2>1, <2>2, CollectInv, RebuildInv, OtherInv DEF Next, Collect, Environment
<1> QED BY <1>1, <1>2, PTL DEF Spec

(* The state keeps its types: a numbered node has one row, and a collection *)
(* only ever waits for the parse of a row that is there (upsert_sql, main). *)
THEOREM IngestTyped == Spec => []TypeOK
<1>1. TypeInv => TypeOK
  BY TypeInvIsTypeOK
<1> QED BY <1>1, IngestInductive, PTL

(* parse_status is that of the row's own text, whatever the collector, the  *)
(* rebuild, the portal and their failures did in between, but for what was  *)
(* written while a rebuild stood between its read and its swap.             *)
THEOREM StatusFitsItsText == Spec => []StatusIsOfItsText
<1>1. StatusInv => StatusIsOfItsText
  BY DEF StatusInv, RowInv, StatusIsOfItsText, Fits, HasStatus, ParsedAs
<1> QED BY <1>1, IngestInductive, PTL

(* After a health check without an issue and a rebuild that finished, each  *)
(* statement that did not come since is served as one parse of its own text *)
(* gave it: with the levels of its status and reason, a timed-out one with  *)
(* none (health.check, record_run, bulk_insert_shadow).                     *)
THEOREM HealthIsTrue == Spec => []GreenHealthIsTrue
<1>1. ASSUME TypeInv, StatusInv, Healthy, lastRun # "running", lastRun = "success"
      PROVE  \A k \in DOMAIN rows :
      \/ k \in overtaken
      \/ rows[k].status = "manual"
      \/ rows[k].status = "pending" /\ k \in fresh
      \/ \E snap \in BOOLEAN : ServedAs(k, ParseHook[rows[k].text][snap])
                               \/ ServedAs(k, ParseJob[rows[k].text][snap])
  BY <1>1 DEF StatusInv, RowInv, Serves, IsServed, ServedAs
<1>2. ASSUME TypeInv, NEW k \in DOMAIN rows, NEW snap \in BOOLEAN,
             \/ ServedAs(k, ParseHook[rows[k].text][snap])
             \/ ServedAs(k, ParseJob[rows[k].text][snap])
      PROVE  rows[k].edges = LevelsOf(rows[k].status, rows[k].reason)
  <2>1. rows[k].text \in Texts
    BY <1>2, Places DEF TypeInv, RowsOK, Rows
  <2>2. PICK result \in Leveled : ServedAs(k, result)
    BY <1>2, <2>1, ParsesLeveled
  <2>3. result.edges = LevelsOf(result.status, result.reason)
    BY DEF Leveled
  <2>4. rows[k].edges = result.edges /\ rows[k].status = result.status /\ rows[k].reason = result.reason
    BY <2>2 DEF ServedAs
  <2> QED BY <2>3, <2>4
<1>3. TypeInv /\ StatusInv => GreenHealthIsTrue
  BY <1>1, <1>2 DEF GreenHealthIsTrue, Healthy, StatusInv, RunInv
<1> QED BY <1>3, IngestInductive, PTL
=============================================================================
