----------------------------- MODULE CacheIndex -----------------------------
(***************************************************************************)
(* The server's cache table with the index over it: entries are opaque     *)
(* blobs, stored once; what the table says of them (kind, empty reason,    *)
(* searchable text) is derived from the blob when it is written, or later  *)
(* by a background task, for rows that older builds wrote.  Entries leave  *)
(* by key, by filter and by age or size meanwhile, row ids are used again, *)
(* and a client pages through the table, or through the cache directory of *)
(* the server's own machine (domarinn-server/src/storage/cache.rs,         *)
(* cacheindex.rs, cachebrowse.rs; cachebrowse.rs; localcache.rs; lib.rs).  *)
(***************************************************************************)
EXTENDS Integers, FiniteSets, Sequences, TLC
LOCAL INSTANCE SequencesExt
LOCAL INSTANCE FiniteSetsExt

CONSTANTS
    EntryKeys,     \* numbers: the order of the keys' text
    Blobs,         \* [parses, kind, reason, text, size]; a kind is a number, in
                   \* the order of the kinds' text
    Dialects,      \* "sqlite" gives a freed row id again, "postgres" does not
    OldTables,     \* the rows that the builds before this one left
    Batch,         \* INDEX_BATCH
    ReadBudget,    \* READ_BYTE_BUDGET
    PageSize,
    Listings,      \* the listings a client pages through
    AskedPrunes,   \* the filters of prune requests
    AgeLimit, SizeLimit, SweptReasons,  \* what the retention task applies
    LastDay,       \* bound: of the clock
    MaxIds,        \* bound: row ids ever given
    MaxRestarts    \* bound: restarts of the server, and failed batches

Unknown == "null"
NoKind == 0

VARIABLES
    day,       \* the clock
    dialect,
    rows,      \* row id -> row, for the rows there are
    lastId,    \* the largest id ever given
    texts,     \* cache_entries_fts: row id -> text
    task,      \* the background task
    restarts,
    files,     \* the local directory: key -> [body, modified]
    snapshot,  \* what the server keeps of it for a while: at most one listing
    pager      \* a client that asks for one page after another

localVars == <<files, snapshot>>
indexVars == <<day, dialect, rows, lastId, texts, task, restarts, localVars, pager>>

-----------------------------------------------------------------------------
\* The promoted columns, and what an older build promoted.
Columns(kind, reason, text) == [kind |-> kind, reason |-> reason, text |-> text]
NoColumns == Columns(NoKind, Unknown, Unknown)

\* EntryIndex::derive: nothing, when the blob is not an entry.
derive(body) ==
    IF body.parses THEN {Columns(body.kind, body.reason, body.text)} ELSE {}
ColumnsOf(derived) == IF derived = {} THEN NoColumns ELSE CHOOSE c \in derived : TRUE

\* A row as cache_put writes it.  indexed_at, reindexed_at are looked at for
\* being NULL only.
FreshRow(k, body) ==
    [key |-> k, body |-> body, created |-> day, access |-> day,
     indexed |-> TRUE, reindexed |-> TRUE,
     ok |-> IF body.parses THEN 1 ELSE 0, columns |-> ColumnsOf(derive(body))]

Ids == DOMAIN rows
IdsOf(k) == {i \in Ids : rows[i].key = k}
Largest(S) == IF S = {} THEN 0 ELSE CHOOSE i \in S : \A j \in S : j <= i
NextId == (IF dialect = "sqlite" THEN Largest(Ids) ELSE lastId) + 1

SumSizes(S) == MapThenSumSet(LAMBDA i : rows[i].body.size, S)

\* insert_fts: delete, then insert.
insert_fts(all, id, columns) == (id :> columns.text) @@ all

\* DELETE FROM cache_entries: the trigger, or the cascade, takes the text along.
KeepTexts(all, ids) == all                              \* mutant: no trigger
Without(f, ids) == [i \in DOMAIN f \ ids |-> f[i]]
WithoutTexts(all, ids) == Without(all, ids)

-----------------------------------------------------------------------------
\* CachePruneFilter; an absent predicate is {}, an absent size target too.  A
\* request may name reasons and list none: it is blank, and selects nothing.
Unnamed(f) == ~f.blank /\ \A field \in DOMAIN f \ {"blank"} : f[field] = {}
NamesRows(f) == f.older # {} \/ f.newer # {} \/ f.reasons # {} \/ f.kind # {}

\* prune_predicate.
prune_predicate(f, row) ==
    /\ \A days \in f.older : row.created < day - days
    /\ \A days \in f.newer : row.created >= day - days
    /\ f.reasons # {} => row.columns.reason \in f.reasons
    /\ \A kind \in f.kind : row.columns.kind = kind

\* The rows that leave so that the rest fits: the least recently used ones, in
\* the order the table gives for the same time, and none after it fits.
Evicted(S, target) ==
    {out \in SUBSET S :
        /\ \A i \in out, j \in S \ out : rows[i].access <= rows[j].access
        /\ SumSizes(S \ out) <= target \/ out = S
        /\ out # {} => \E last \in out :
              /\ \A i \in out : rows[i].access <= rows[last].access
              /\ SumSizes(S \ (out \ {last})) > target}

RowsLeave(ids) ==
    /\ rows' = Without(rows, ids)
    /\ texts' = WithoutTexts(texts, ids)

cache_prune(f) ==
    LET named == IF NamesRows(f) THEN {i \in Ids : prune_predicate(f, rows[i])} ELSE {}
    IN IF f.target = {} THEN RowsLeave(named)
       ELSE \E target \in f.target : \E out \in Evicted(Ids \ named, target) :
                RowsLeave(named \cup out)

-----------------------------------------------------------------------------
\* Requests.
cache_put(k, body) ==
    IF IdsOf(k) # {} THEN UNCHANGED <<rows, texts, lastId>>
    ELSE /\ NextId <= MaxIds
         /\ rows' = (NextId :> FreshRow(k, body)) @@ rows
         /\ texts' = IF derive(body) = {} THEN texts
                     ELSE insert_fts(texts, NextId, ColumnsOf(derive(body)))
         /\ lastId' = Largest({lastId, NextId})

\* cache_get and cache_has: a row that is found was used just now.
cache_get(k) ==
    /\ rows' = [i \in Ids |-> IF i \in IdsOf(k) THEN [rows[i] EXCEPT !.access = day] ELSE rows[i]]
    /\ UNCHANGED <<texts, lastId>>

cache_delete_entry(k) == RowsLeave(IdsOf(k)) /\ UNCHANGED lastId

\* The route: a prune that names nothing means the configured limits.
RetentionFilter ==
    [older |-> {AgeLimit}, newer |-> {}, reasons |-> {}, kind |-> {}, target |-> {SizeLimit}, blank |-> FALSE]
SweepFilter ==
    [older |-> {}, newer |-> {}, reasons |-> SweptReasons, kind |-> {}, target |-> {},
     blank |-> FALSE]
PruneRequest(f) ==
    /\ cache_prune(IF Unnamed(f) THEN RetentionFilter ELSE f)
    /\ UNCHANGED lastId

\* Once an hour, in two statements.
Retention == cache_prune(RetentionFilter) /\ UNCHANGED lastId
EmptyReasonSweep == SweptReasons # {} /\ cache_prune(SweepFilter) /\ UNCHANGED lastId

-----------------------------------------------------------------------------
\* The background task: rows nobody looked at, then rows an older build looked at.
Idle(pass) == [pass |-> pass, at |-> "idle", picked |-> {}, read |-> {}, room |-> ReadBudget]

\* After a batch that stamped n rows.
Rest(pass, n) == Idle(IF pass = "index" /\ n = 0 THEN "reindex" ELSE "index")

Pending(pass, row) ==
    IF pass = "index" THEN ~row.indexed ELSE row.indexed /\ ~row.reindexed

FirstOf(S, n) == {i \in S : Cardinality({j \in S : j < i}) < n}

\* The ids of the batch, in one statement.
PickBatch ==
    LET ids == FirstOf({i \in Ids : Pending(task.pass, rows[i])}, Batch)
    IN /\ task.at = "idle"
       /\ task' = IF ids = {} THEN Rest(task.pass, 0)
                  ELSE [task EXCEPT !.at = "bodies",
                                    !.picked = {[id |-> i, ok |-> rows[i].ok] : i \in ids}]

\* The bodies, one after another: a row may have gone, or its id may be another
\* row's by now.  The batch ends early when it holds enough bytes.
ReadBody ==
    /\ task.at = "bodies"
    /\ IF task.picked = {} \/ task.room = 0
       THEN task' = IF task.read = {} THEN Rest(task.pass, 0) ELSE [task EXCEPT !.at = "write"]
       ELSE LET next == CHOOSE r \in task.picked : \A q \in task.picked : r.id <= q.id
                rest == [task EXCEPT !.picked = @ \ {next}]
            IN task' = IF task.pass = "reindex" /\ next.ok # 1
                       THEN [rest EXCEPT !.read = @ \cup {[id |-> next.id, index |-> {}]}]
                       ELSE IF next.id \notin Ids THEN rest
                       ELSE LET body == rows[next.id].body
                            IN [rest EXCEPT
                                  !.read = @ \cup {[id |-> next.id, index |-> derive(body)]},
                                  !.room = IF body.size >= @ THEN 0 ELSE @ - body.size]

\* What the UPDATE's WHERE clause lets through.
AnyRow(pass, row) == TRUE                            \* mutant: WHERE id = ? only
Writable(pass, row) == Pending(pass, row)

StampedWhenRead(pass, row, index) ==                 \* mutant: nothing found, nothing written
    IF index = {} THEN row
    ELSE [row EXCEPT !.indexed = TRUE, !.reindexed = TRUE, !.ok = 1, !.columns = ColumnsOf(index)]
Stamped(pass, row, index) ==
    CASE pass = "index" ->
            [row EXCEPT !.indexed = TRUE, !.reindexed = TRUE,
                        !.ok = IF index = {} THEN 0 ELSE 1, !.columns = ColumnsOf(index)]
      [] index = {} -> [row EXCEPT !.reindexed = TRUE]
      [] OTHER -> [row EXCEPT !.reindexed = TRUE, !.columns = ColumnsOf(index)]

WriteBatch ==
    LET hit == {r \in task.read : r.id \in Ids /\ Writable(task.pass, rows[r.id])}
        indexOf(i) == (CHOOSE r \in hit : r.id = i).index
        ids == {r.id : r \in hit}
        derived == {i \in ids : indexOf(i) # {}}
    IN /\ task.at = "write"
       /\ rows' = [i \in Ids |-> IF i \in ids THEN Stamped(task.pass, rows[i], indexOf(i))
                                 ELSE rows[i]]
       /\ texts' = [i \in derived |-> ColumnsOf(indexOf(i)).text] @@ texts
       /\ task' = Rest(task.pass, Cardinality(ids))

\* A batch fails and nothing of it is kept, or the server starts again.
LoseBatch ==
    /\ restarts < MaxRestarts
    /\ restarts' = restarts + 1
    /\ task' = Idle("index")

-----------------------------------------------------------------------------
\* A listing: [tier, sort, descending, state, kinds, reasons, words].  The rows
\* it selects, as pairs of the value it sorts by and the key.
requires_non_null(sort) == sort = "kind"

SortValue(sort, row) ==
    CASE sort = "created" -> row.created
      [] sort = "access" -> row.access
      [] sort = "size" -> row.body.size
      [] sort = "kind" -> row.columns.kind
      [] sort = "key" -> row.key

Selects(l, columns) ==
    /\ l.kinds # {} => columns.kind \in l.kinds
    /\ l.reasons # {} => columns.reason \in l.reasons
    /\ requires_non_null(l.sort) => columns.kind # NoKind

\* list_entries
ServerListed(l) ==
    {<<SortValue(l.sort, rows[i]), rows[i].key>> : i \in {j \in Ids :
        /\ l.state = "unindexed" => ~rows[j].indexed
        /\ l.state = "unparseable" => rows[j].ok = 0
        /\ l.words # {} => j \in DOMAIN texts /\ texts[j] \in l.words
        /\ Selects(l, rows[j].columns)}}

\* LocalTier::list, over a snapshot: every file is read for it, and there is no
\* time of access.
LocalRow(fs, k) ==
    [key |-> k, body |-> fs[k].body, created |-> fs[k].modified, access |-> fs[k].modified,
     columns |-> ColumnsOf(derive(fs[k].body))]
LocalListed(l, fs) ==
    {<<SortValue(l.sort, LocalRow(fs, k)), k>> : k \in {j \in DOMAIN fs :
        /\ l.state # "unindexed"
        /\ l.state = "unparseable" => ~fs[j].body.parses
        /\ l.words # {} => fs[j].body.text \in l.words
        /\ Selects(l, LocalRow(fs, j).columns)}}

Before(l, a, b) ==
    IF l.descending THEN a[1] > b[1] \/ (a[1] = b[1] /\ a[2] > b[2])
                    ELSE a[1] < b[1] \/ (a[1] = b[1] /\ a[2] < b[2])

\* The keyset condition: what comes after the last row of the page before.
AfterValue(l, cursor, pair) ==                       \* mutant: the sort value alone
    \A last \in cursor : IF l.descending THEN pair[1] < last[1] ELSE pair[1] > last[1]
AfterCursor(l, cursor, pair) == \A last \in cursor : Before(l, last, pair)

\* The local tier looks for the cursor's key, and starts over without it.
AfterKey(l, listed, cursor, pair) ==
    \A last \in cursor : \A at \in listed : at[2] = last[2] => Before(l, at, pair)

FirstPage(l, left) == {p \in left : Cardinality({q \in left : Before(l, q, p)}) < PageSize}

\* LocalTier::rows: one listing of the directory serves for a while.
LocalFiles == IF snapshot = {} THEN files ELSE CHOOSE fs \in snapshot : TRUE

\* What is left to be shown after the cursor.
Remaining(l, cursor) ==
    IF l.tier = "server" THEN {p \in ServerListed(l) : AfterCursor(l, cursor, p)}
    ELSE LET listed == LocalListed(l, LocalFiles)
         IN {p \in listed : AfterKey(l, listed, cursor, p)}

\* History: what the listing could show at this moment, to any page.
Shown(l) ==
    IF l.tier = "server" THEN ServerListed(l)
    ELSE LocalListed(l, files) \cap LocalListed(l, LocalFiles)
Watch == pager' = [pager EXCEPT !.steady = @ \cap UNION {Shown(l)' : l \in pager.listing}]

NoPager == [listing |-> {}, cursor |-> {}, got |-> <<>>, steady |-> {}, done |-> FALSE,
            lost |-> FALSE]

StartListing ==
    /\ pager = NoPager
    /\ \E l \in Listings : pager' = [NoPager EXCEPT !.listing = {l}, !.steady = Shown(l)]
    /\ UNCHANGED snapshot

\* One extra row tells whether there is a next page.  History: lost says that the
\* row a local cursor names was no longer at its place.  Bound: no page after that.
NextPage ==
    /\ ~pager.done /\ ~pager.lost
    /\ \E l \in pager.listing :
         LET left == Remaining(l, pager.cursor)
             page == FirstPage(l, left)
             last == CHOOSE p \in page : \A q \in page : q = p \/ Before(l, q, p)
             more == left # page
         IN /\ pager' = [pager EXCEPT
                        !.got = @ \o SetToSeq(page),
                        !.cursor = IF more THEN {last} ELSE {},
                        !.done = ~more,
                        !.lost = @ \/ (l.tier = "local" /\
                                       ~(pager.cursor \subseteq LocalListed(l, LocalFiles)))]
            /\ snapshot' = IF l.tier = "local" THEN {LocalFiles} ELSE snapshot

-----------------------------------------------------------------------------
IndexInit ==
    /\ day = 0
    /\ dialect \in Dialects
    /\ rows \in OldTables
    /\ texts = [i \in {j \in Ids : rows[j].ok = 1} |-> rows[i].columns.text]
    /\ lastId = Largest(Ids)
    /\ task = Idle("index")
    /\ restarts = 0
    /\ files = [k \in {1, 2} \cap EntryKeys |-> [body |-> CHOOSE b \in Blobs : TRUE, modified |-> 0]]
    /\ snapshot = {}
    /\ pager = NoPager

IndexClock ==
    /\ day < LastDay /\ day' = day + 1
    /\ UNCHANGED <<dialect, rows, lastId, texts, task, restarts, localVars, pager>>

TableStep ==
    /\ \/ \E k \in EntryKeys, body \in Blobs : cache_put(k, body)
       \/ \E k \in EntryKeys : cache_get(k) \/ cache_delete_entry(k)
       \/ \E f \in AskedPrunes : PruneRequest(f)
       \/ Retention
       \/ EmptyReasonSweep
    /\ UNCHANGED <<day, dialect, task, restarts, localVars>>
    /\ Watch

TaskStep ==
    /\ \/ (PickBatch \/ ReadBody) /\ UNCHANGED <<rows, texts>>
       \/ WriteBatch
    /\ UNCHANGED <<day, dialect, lastId, restarts, localVars>>
    /\ Watch

TaskFault == LoseBatch /\ UNCHANGED <<day, dialect, rows, lastId, texts, localVars, pager>>

PagerStep ==
    /\ StartListing \/ NextPage
    /\ UNCHANGED <<day, dialect, rows, lastId, texts, task, restarts, files>>

\* Runs on the server's machine store and evict entries in the local directory;
\* a snapshot of it ends when it is old.
LocalStep ==
    /\ \/ \E k \in EntryKeys \ DOMAIN files, body \in Blobs :
              files' = (k :> [body |-> body, modified |-> day]) @@ files
       \/ \E k \in DOMAIN files : files' = Without(files, {k})
    /\ UNCHANGED <<day, dialect, rows, lastId, texts, task, restarts, snapshot>>
    /\ Watch

SnapshotEnds ==
    /\ snapshot # {} /\ snapshot' = {}
    /\ UNCHANGED <<day, dialect, rows, lastId, texts, task, restarts, files>>
    /\ Watch

IndexNext ==
    IndexClock \/ TableStep \/ TaskStep \/ TaskFault \/ PagerStep \/ LocalStep \/ SnapshotEnds

\* The task's loop never ends.
IndexSpec == IndexInit /\ [][IndexNext]_indexVars /\ WF_indexVars(TaskStep)

-----------------------------------------------------------------------------
\* What the table says of an entry comes from that entry's own blob, whichever
\* row had the id before and whoever wrote the columns: a row that was looked at
\* by this build shows all of it, one that an older build looked at all but the
\* empty reason, and searching finds it by its own text and never by another's
\* (write_batch, write_reindex_batch, cache_put, the delete trigger).
IndexIsOwn ==
    /\ \A i \in Ids :
         LET row == rows[i]
             own == ColumnsOf(derive(row.body))
         IN /\ row.indexed => /\ row.ok = (IF row.body.parses THEN 1 ELSE 0)
                              /\ \/ row.columns = own
                                 \/ ~row.reindexed /\ row.columns = [own EXCEPT !.reason = Unknown]
            /\ ~row.indexed => row.columns = NoColumns
    /\ DOMAIN texts = {i \in Ids : rows[i].ok = 1}
    /\ \A i \in DOMAIN texts : texts[i] = rows[i].body.text

\* The backlog of rows from older builds drains and stays drained, whatever
\* requests do meanwhile: a blob that cannot be parsed is not looked at again and
\* again, and a blob larger than the batch's budget does not stop it
\* (spawn_cache_index_backfill, cache_index_batch, cache_reindex_batch).
BacklogDrains == <>[](\A i \in Ids : rows[i].indexed /\ rows[i].reindexed)

\* A client that follows the cursors to the end sees every row exactly once that
\* stayed in the listing at its place: rows with the same sort value are not lost
\* at the edge of a page, and rows that come, go or move do not shift the others
\* (list_entries, encode_entry_cursor); on the local tier, as long as the row the
\* cursor names stays at its place too (LocalTier::list).
PagingIsExact ==
    ~pager.lost => \A p \in pager.steady :
        LET times == Cardinality({n \in DOMAIN pager.got : pager.got[n] = p})
        IN times <= 1 /\ (pager.done => times = 1)

\* What the cache browser shows is the table: each row its own entry, and each
\* entry on one page.
BrowserIsExact == IndexIsOwn /\ PagingIsExact
=============================================================================
