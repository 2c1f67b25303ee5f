----------------------------- MODULE ReadPages -----------------------------
(***************************************************************************)
(* The lists of the server that a client pages through: runs, the cases of *)
(* a run, the rows of its matrix and the cases a cache entry answered,     *)
(* from src/crates/domarinn-server/src/storage: runs, cases, matrix,       *)
(* cachelink and mod.rs, with the limits of routes.rs.                     *)
(*                                                                         *)
(* A page carries a cursor made from its last row.  Runs are uploaded and  *)
(* deleted between the pages; the cases of a run never change.  A value    *)
(* that may be NULL is a set of at most one element, and a condition of    *)
(* SQL is one of {TRUE}, {FALSE} and {}.                                   *)
(***************************************************************************)
EXTENDS Integers, Sequences, FiniteSets, FiniteSetsExt, SequencesExt

CONSTANTS PageRuns,       \* run ids, by number
          RunRow,         \* run -> [created, hits, misses, failed, errors, xpassed]
          CaseRows,       \* the cases of the run that is read, by idx
          EntryRows,      \* the cases of a cache entry: <<run, case>>
          ListingKinds,   \* what may be listed: [kind, filter]
          Limits,         \* the page sizes clients ask for
          MaxTableChanges \* bound on uploads and deletions

VARIABLES table,          \* the runs that are stored
          listing,        \* what the client pages through
          cursor,         \* next_cursor of the last page: {} before the first one
          listed,         \* the rows it was given, in order
          hidden,         \* cached_hidden of the first page
          steady,         \* history: the rows that were there all the time
          untouched,      \* history: nothing was uploaded or deleted
          over,           \* there is no next page
          tableChanges

pageVars == <<table, listing, cursor, listed, hidden, steady, untouched, over, tableChanges>>

----------------------------------------------------------------------------
(* Conditions of SQL.                                                      *)

And(a, b) == IF FALSE \in a \cup b THEN {FALSE} ELSE IF {} \in {a, b} THEN {} ELSE {TRUE}

Coalesce(value, default) == IF value = {} THEN default ELSE CHOOSE v \in value : TRUE

\* cache_misses = 0 AND cache_hits > 0: NULL for a run whose counts are unknown.
fully_cached_sql(r) ==
    And({v = 0 : v \in RunRow[r].misses}, {v > 0 : v \in RunRow[r].hits})

\* IS NOT TRUE.
IsNotTrue(condition) == condition # {TRUE}

----------------------------------------------------------------------------
(* Runs: RunListFilter::query.                                             *)

StatusClause(r, status) ==
    CASE status = "fail" -> RunRow[r].failed > 0 \/ Coalesce(RunRow[r].xpassed, 0) > 0
      [] status = "error" -> RunRow[r].errors > 0
      [] status = "pass" -> RunRow[r].failed = 0 /\ RunRow[r].errors = 0
                            /\ Coalesce(RunRow[r].xpassed, 0) = 0
      [] OTHER -> TRUE

CachedClause(r, cached) ==
    CASE cached = "exclude" -> IsNotTrue(fully_cached_sql(r))
      [] cached = "only" -> fully_cached_sql(r) = {TRUE}
      [] OTHER -> TRUE

\* ORDER BY created_at DESC, id DESC.
RunBefore(r, q) == \/ RunRow[r].created > RunRow[q].created
                   \/ RunRow[r].created = RunRow[q].created /\ r > q

RunsMatching(filter) ==
    {r \in table : StatusClause(r, filter.status) /\ CachedClause(r, filter.cached)}

\* The row a page's cursor is made from is the last one shown, not the one
\* fetched to find out whether there is a next page.
RowThatDidNotFit(fetched, limit) == fetched[limit + 1]
CursorRow(fetched, limit) == fetched[limit]

\* Rows after the cursor, one more than a page holds; there is a next page
\* when the one too many was there.
PageAfter(rows, Before(_, _), At, limit) ==
    LET fetched == SetToSortSeq({r \in rows : At = {} \/ \E a \in At : Before(a, r)}, Before) IN
    [page |-> SubSeq(fetched, 1, Min({limit, Len(fetched)})),
     next |-> IF Len(fetched) > limit THEN {CursorRow(fetched, limit)} ELSE {}]

RunPage(limit) == PageAfter(RunsMatching(listing.filter), RunBefore, cursor, limit)

\* What "exclude" leaves out, counted on the first page.
CachedHidden ==
    Cardinality({r \in table : StatusClause(r, listing.filter.status) /\ fully_cached_sql(r) = {TRUE}})

----------------------------------------------------------------------------
(* Cases: CaseListFilter::query.                                           *)

CaseIdx == DOMAIN CaseRows

CaseClause(i, filter) ==
    LET row == CaseRows[i] IN
    CASE filter = "cached" -> row.cached = {1}
      [] filter = "fresh" -> Coalesce(row.cached, 0) # 1
      [] filter = "unknown" -> row.status = "error" /\ row.class \in {{}, {""}}
      [] filter = "timeout" -> row.class = {"timeout"}
      [] filter = "refused" -> row.empty = {"refused"}
      [] OTHER -> TRUE

CaseBefore(i, j) == i < j

CasesMatching(filter) == {i \in CaseIdx : CaseClause(i, filter)}

CasePage(limit) == PageAfter(CasesMatching(listing.filter), CaseBefore, cursor, limit)

----------------------------------------------------------------------------
(* The matrix: MatrixFilter::query.                                        *)

\* Cases without a provider or a test are left out.
InMatrix == {i \in CaseIdx : CaseRows[i].provider # "" /\ CaseRows[i].test # ""}

\* A row is a test, and stands where its first case does.
FirstSeen(i) == Min({j \in InMatrix : CaseRows[j].test = CaseRows[i].test})

MatrixRows == {FirstSeen(i) : i \in InMatrix}

MatrixColumns == {<<CaseRows[i].provider, CaseRows[i].prompt>> : i \in InMatrix}

\* finalize_row and finalize_cell: the keys of a cell, by repeat.
CellOf(row, column) ==
    SetToSortSeq({i \in InMatrix : /\ CaseRows[i].test = CaseRows[row].test
                                   /\ <<CaseRows[i].provider, CaseRows[i].prompt>> = column},
                 LAMBDA i, j : \/ CaseRows[i].repeat < CaseRows[j].repeat
                               \/ CaseRows[i].repeat = CaseRows[j].repeat /\ i < j)

\* Each column's place is where it was first seen.
ColumnPlace(column) == Min({i \in InMatrix : <<CaseRows[i].provider, CaseRows[i].prompt>> = column})

RowCases(row) ==
    FlattenSeq([k \in 1..Cardinality(MatrixColumns) |->
        CellOf(row, SetToSortSeq(MatrixColumns, LAMBDA a, b : ColumnPlace(a) < ColumnPlace(b))[k])])

MatrixPage(limit) ==
    LET rows == PageAfter(MatrixRows, CaseBefore, cursor, limit) IN
    [page |-> FlattenSeq([k \in DOMAIN rows.page |-> RowCases(rows.page[k])]), next |-> rows.next]

----------------------------------------------------------------------------
(* The cases a cache entry answered: entry_runs.                           *)

EntryMatching == {e \in EntryRows : e[1] \in table}

\* The rows of one run come in no particular order, and the cursor names a run.
EntryBefore(e, f) == RunBefore(e[1], f[1])

EntryPages(limit) ==
    LET rows == {e \in EntryMatching : cursor = {} \/ \E a \in cursor : RunBefore(a, e[1])} IN
    {[page |-> page, next |-> IF Cardinality(rows) > limit THEN {page[limit][1]} ELSE {}] :
        page \in {SubSeq(s, 1, Min({limit, Len(s)})) :
                    s \in {t \in [1..Cardinality(rows) -> rows] :
                             \A i, j \in DOMAIN t : i < j => t[i] # t[j] /\ ~ EntryBefore(t[j], t[i])}}}

----------------------------------------------------------------------------
Matching ==
    CASE listing.kind = "runs" -> RunsMatching(listing.filter)
      [] listing.kind = "cases" -> CasesMatching(listing.filter)
      [] listing.kind = "matrix" -> InMatrix
      [] listing.kind = "entry" -> EntryMatching

PagesOf(limit) ==
    CASE listing.kind = "runs" -> {RunPage(limit)}
      [] listing.kind = "cases" -> {CasePage(limit)}
      [] listing.kind = "matrix" -> {MatrixPage(limit)}
      [] listing.kind = "entry" -> EntryPages(limit)

PagesInit ==
    /\ table \in SUBSET PageRuns
    /\ listing \in ListingKinds
    /\ cursor = {} /\ listed = <<>> /\ hidden = {} /\ over = FALSE
    /\ steady = Matching /\ untouched = TRUE /\ tableChanges = 0

\* A page with or without a next one.
FetchPage ==
    /\ ~ over
    /\ \E limit \in Limits : \E p \in PagesOf(limit) :
         /\ listed' = listed \o p.page
         /\ cursor' = p.next
         /\ over' = (p.next = {})
    /\ hidden' = IF listing.kind = "runs" /\ listing.filter.cached = "exclude" /\ cursor = {}
                 THEN {CachedHidden} ELSE hidden
    /\ UNCHANGED <<table, listing, steady, untouched, tableChanges>>

ChangeTable(new) ==
    /\ ~ over /\ listing.kind \in {"runs", "entry"}
    /\ tableChanges < MaxTableChanges
    /\ table' = new
    /\ tableChanges' = tableChanges + 1
    /\ UNCHANGED <<listing, cursor, listed, hidden, over>>
    /\ untouched' = FALSE
    /\ steady' = steady \cap Matching'

IngestRun == \E r \in PageRuns \ table : ChangeTable(table \cup {r})

DeleteRun == \E r \in table : ChangeTable(table \ {r})

PagesNext == FetchPage \/ IngestRun \/ DeleteRun

PagesSpec == PagesInit /\ [][PagesNext]_pageVars

----------------------------------------------------------------------------
\* What a filter is about, without the logic of SQL: a run is cached only if
\* that is known, and a case whose origin is unknown was not.
KnownCached(r) == RunRow[r].misses = {0} /\ \E h \in RunRow[r].hits : h > 0

Wanted(x) ==
    IF listing.kind = "runs"
    THEN CASE listing.filter.cached = "exclude" -> ~ KnownCached(x)
           [] listing.filter.cached = "only" -> KnownCached(x)
           [] OTHER -> TRUE
    ELSE TRUE

(* Paging to the end gives every row that was there all the time exactly   *)
(* once, whatever is uploaded and deleted between the pages, and leaves    *)
(* out of the runs only those known to be cached, as many as it says       *)
(* (storage/runs.rs, cases.rs, matrix.rs).  The cases of a cache entry are *)
(* never repeated, but its cursor names a run, so the rest of a run that a *)
(* page cuts is not listed (storage/cachelink.rs).                         *)
PagesAreExact ==
    /\ IsInjective(listed)
    /\ over /\ listing.kind # "entry" => steady \subseteq Range(listed)
    /\ over /\ listing.kind = "runs" =>
         \A r \in table : untouched /\ StatusClause(r, listing.filter.status) =>
             (Wanted(r) <=> r \in Range(listed))
    /\ over /\ listing.kind = "cases" /\ listing.filter = "fresh" =>
         \A i \in CaseIdx : CaseRows[i].cached = {1} \/ i \in Range(listed)
    /\ over /\ untouched /\ hidden # {} =>
         hidden = {Cardinality({r \in table : StatusClause(r, listing.filter.status)
                                               /\ r \notin Range(listed)})}

=============================================================================
