---------------------------- MODULE StoreUpgrade ----------------------------
(***************************************************************************)
(* Opening a runs database that an older build left: the schema is brought *)
(* to the latest version, one transaction per migration, and the columns   *)
(* that were added since are filled from the stored documents, chunk by    *)
(* chunk and pass after pass, before the first request is served.  The     *)
(* process may be stopped anywhere and starts over                         *)
(* (domarinn-server/src/storage/schema.rs, backfill.rs, search.rs, mod.rs).*)
(***************************************************************************)
EXTENDS Integers, FiniteSets, Sequences

SeqExt == INSTANCE SequencesExt

CONSTANTS
    Runs,
    RunOfCase,          \* case -> run
    Documents,      \* the case documents there may be: case -> [ok, empty, answered]
    StartVersions,  \* the schema versions a database may be found at
    CASE_CHUNK,
    RUN_CHUNK,
    MaxStops        \* bound: stops before the backfill is over

CaseRows == DOMAIN RunOfCase
CasesOf(r) == {c \in CaseRows : RunOfCase[c] = r}
Latest == 21

\* A field of a document is absent ("none") or a text; NULL is the column's, not the
\* document's.
ASSUME UpgradeAssumption ==
    /\ IsFiniteSet(CaseRows) /\ \A c \in CaseRows : RunOfCase[c] \in Runs
    /\ StartVersions \subseteq 1 .. Latest
    /\ \A d \in Documents : \A c \in CaseRows : "null" \notin {d[c].empty, d[c].answered}

VARIABLES
    docs,     \* cases.detail: case -> [ok: it decodes, empty, answered]
    bodies,   \* run_blobs.body: run -> it decodes and has a config_digest
    version,  \* user_version
    cases,    \* the promoted columns of a case
    runRows,  \* the promoted columns of a run
    fts,      \* run -> its rows in runs_fts
    kept,     \* the rows that reference a table the migrations rebuild
    pass,     \* where opening is
    stops

upgradeVars == <<docs, bodies, version, cases, runRows, fts, kept, pass, stops>>

-----------------------------------------------------------------------------
\* The columns.  A text is "null", "" or a value, a count is Unfilled, Lost or a number;
\* a case's column that does not exist yet reads as "null".
Unfilled == -2
Lost == -1

CaseColumns(provider, cached, error, empty, answered) ==
    [provider |-> provider, cached |-> cached, error |-> error, empty |-> empty,
     answered |-> answered]
RunColumns(digest, hits, empty, fallback) ==
    [digest |-> digest, hits |-> hits, empty |-> empty, fallback |-> fallback]

\* A field that a document does not have.
OrEmpty(field) == IF field = "none" THEN "" ELSE field
Says(c, field) == docs[c][field] \notin {"none", ""}

\* What an upload of the document stores today (PreparedRun::build).
PreparedCase(c) == CaseColumns("p", 1, "", OrEmpty(docs[c].empty), OrEmpty(docs[c].answered))
PreparedRun(r) ==
    RunColumns("d", Cardinality(CasesOf(r)), Cardinality({c \in CasesOf(r) : Says(c, "empty")}),
               Cardinality({c \in CasesOf(r) : Says(c, "answered")}))

\* An undecodable case's row.
LostCase == CaseColumns("", Lost, "", "", "")

\* The version that adds each column, and the one that adds the search tables.
AddedIn ==
    [provider |-> 3, digest |-> 3, search |-> 5, cached |-> 6, hits |-> 6, error |-> 7,
     empty |-> 15, answered |-> 17, fallback |-> 18]

At(v, added, value, none) == IF v < added THEN none ELSE value
CaseAt(v, row) ==
    CaseColumns(At(v, AddedIn.provider, row.provider, "null"),
                At(v, AddedIn.cached, row.cached, Unfilled),
                At(v, AddedIn.error, row.error, "null"),
                At(v, AddedIn.empty, row.empty, "null"),
                At(v, AddedIn.answered, row.answered, "null"))
RunAt(v, row) ==
    RunColumns(At(v, AddedIn.digest, row.digest, "null"),
               At(v, AddedIn.hits, row.hits, Unfilled),
               At(v, AddedIn.empty, row.empty, Unfilled),
               At(v, AddedIn.fallback, row.fallback, Unfilled))

\* A database whose build kept the columns it knew; where an even older one could not
\* read a case, the row is already marked.
UpgradeInit ==
    /\ docs \in Documents
    /\ bodies \in [Runs -> BOOLEAN]
    /\ version \in StartVersions
    /\ \E marked \in SUBSET {c \in CaseRows : ~docs[c].ok} :
         cases = [c \in CaseRows |->
                    CaseAt(version, IF c \in marked THEN LostCase ELSE PreparedCase(c))]
    /\ runRows = [r \in Runs |-> RunAt(version, PreparedRun(r))]
    /\ fts = [r \in Runs |-> At(version, AddedIn.search, 1, 0)]
    /\ kept = {"sessions", "case_tags"}
    /\ pass = "migrate"
    /\ stops = 0

-----------------------------------------------------------------------------
\* migrate_runs switches foreign keys off, so that dropping a table that is being rebuilt
\* deletes nothing that references it.
Dropped(rows) == rows

\* Migration 14 rebuilds users, 19 cases (20 baselines, which nothing references).
Rebuilds(v) == CASE v = 14 -> {"sessions"} [] v = 19 -> {"case_tags"} [] OTHER -> {}

\* One migration and its version, in a transaction.
Migrate ==
    /\ pass = "migrate" /\ version < Latest
    /\ version' = version + 1
    /\ kept' = (kept \ Rebuilds(version + 1)) \cup Dropped(kept \cap Rebuilds(version + 1))
    /\ UNCHANGED <<docs, bodies, cases, runRows, fts, pass, stops>>

\* run: the passes, in this order.
Passes ==
    <<"migrate", "cases", "empty_count", "fallback_count", "runs", "no_fallback",
      "answerers", "search", "serving">>
PassAfter(p) == LET i == CHOOSE i \in DOMAIN Passes : Passes[i] = p IN Passes[i + 1]

\* A transaction over one chunk of the rows that a pass still selects.
ChunksOf(pending, most) ==
    {chunk \in SUBSET pending :
        Cardinality(chunk) = IF Cardinality(pending) < most THEN Cardinality(pending)
                                                            ELSE most}

\* A pass selects nothing any more (or was one statement), and the next one begins.
PassIsOver(p) ==
    /\ pass = p /\ pass' = PassAfter(p)
    /\ UNCHANGED <<docs, bodies, version, cases, runRows, fts, kept, stops>>

Migrated == version = Latest /\ PassIsOver("migrate")

\* decode_case
decode_case(c) ==
    IF docs[c].ok THEN CaseColumns("p", 1, "", OrEmpty(docs[c].empty), OrEmpty(docs[c].answered))
    ELSE LostCase

backfill_cases ==
    LET pending == {c \in CaseRows : \/ "null" \in {cases[c].provider, cases[c].error, cases[c].empty}
                                  \/ cases[c].cached = Unfilled}
    IN \/ pending = {} /\ PassIsOver("cases")
       \/ /\ pass = "cases" /\ pending # {}
          /\ \E chunk \in ChunksOf(pending, CASE_CHUNK) :
               cases' = [c \in CaseRows |-> IF c \in chunk THEN decode_case(c) ELSE cases[c]]
          /\ UNCHANGED <<docs, bodies, version, runRows, fts, kept, pass, stops>>

\* The two counts that the case rows can give, each in one statement, for the runs whose
\* case rows know it.
AnyRow(r) == TRUE                                      \* mutant: unread cases count
NoLostCase(r) == \A c \in CasesOf(r) : cases[c].cached # Lost

CountEmpty ==
    /\ pass = "empty_count"
    /\ runRows' = [r \in Runs |->
                 IF /\ runRows[r].empty = Unfilled /\ runRows[r].digest # "null" /\ runRows[r].hits # Unfilled
                    /\ NoLostCase(r)
                 THEN [runRows[r] EXCEPT !.empty = Cardinality(
                          {c \in CasesOf(r) : cases[c].empty \notin {"", "null"}})]
                 ELSE runRows[r]]
    /\ pass' = PassAfter(pass)
    /\ UNCHANGED <<docs, bodies, version, cases, fts, kept, stops>>

CountFallback ==
    /\ pass = "fallback_count"
    /\ runRows' = [r \in Runs |->
                 IF /\ runRows[r].fallback = Unfilled /\ NoLostCase(r)
                    /\ \A c \in CasesOf(r) : cases[c].answered # "null"
                 THEN [runRows[r] EXCEPT !.fallback = Cardinality(
                          {c \in CasesOf(r) : cases[c].answered # ""})]
                 ELSE runRows[r]]
    /\ pass' = PassAfter(pass)
    /\ UNCHANGED <<docs, bodies, version, cases, fts, kept, stops>>

\* decode_run_columns, and what is stored of a body that does not decode.
count_cases(r, field) == Cardinality({c \in CasesOf(r) : docs[c][field] \notin {"none", ""}})
decode_run_columns(r) ==
    IF bodies[r] THEN RunColumns("d", Cardinality(CasesOf(r)), count_cases(r, "empty"), count_cases(r, "answered"))
    ELSE RunColumns("", Lost, Lost, Lost)

Coalesce(old, new) ==
    RunColumns(IF old.digest = "null" THEN new.digest ELSE old.digest,
               IF old.hits = Unfilled THEN new.hits ELSE old.hits,
               IF old.empty = Unfilled THEN new.empty ELSE old.empty,
               IF old.fallback = Unfilled THEN new.fallback ELSE old.fallback)

backfill_runs ==
    LET pending == {r \in Runs : \/ runRows[r].digest = "null"
                                 \/ Unfilled \in {runRows[r].hits, runRows[r].empty, runRows[r].fallback}}
    IN \/ pending = {} /\ PassIsOver("runs")
       \/ /\ pass = "runs" /\ pending # {}
          /\ \E chunk \in ChunksOf(pending, RUN_CHUNK) :
               runRows' = [r \in Runs |-> IF r \in chunk THEN Coalesce(runRows[r], decode_run_columns(r))
                                                     ELSE runRows[r]]
          /\ UNCHANGED <<docs, bodies, version, cases, fts, kept, pass, stops>>

\* backfill_case_answerers: one statement for the runs that never fell back, ...
StampNoFallback ==
    /\ pass = "no_fallback"
    /\ cases' = [c \in CaseRows |->
                   IF cases[c].answered = "null" /\ runRows[RunOfCase[c]].fallback = 0
                   THEN [cases[c] EXCEPT !.answered = ""] ELSE cases[c]]
    /\ pass' = PassAfter(pass)
    /\ UNCHANGED <<docs, bodies, version, runRows, fts, kept, stops>>

\* ... and the documents of the rest.
backfill_case_answerers ==
    LET pending == {c \in CaseRows : cases[c].answered = "null"}
    IN \/ pending = {} /\ PassIsOver("answerers")
       \/ /\ pass = "answerers" /\ pending # {}
          /\ \E chunk \in ChunksOf(pending, CASE_CHUNK) :
               cases' = [c \in CaseRows |->
                           IF c \in chunk
                           THEN [cases[c] EXCEPT !.answered = decode_case(c).answered]
                           ELSE cases[c]]
          /\ UNCHANGED <<docs, bodies, version, runRows, fts, kept, pass, stops>>

\* search::backfill: a run's row and its cases', whatever their documents say.
search_backfill ==
    LET pending == {r \in Runs : fts[r] = 0}
    IN \/ pending = {} /\ PassIsOver("search")
       \/ /\ pass = "search" /\ pending # {}
          /\ \E chunk \in ChunksOf(pending, RUN_CHUNK) :
               fts' = [r \in Runs |-> IF r \in chunk THEN fts[r] + 1 ELSE fts[r]]
          /\ UNCHANGED <<docs, bodies, version, cases, runRows, kept, pass, stops>>

\* The process is stopped before it serves, and started again.
Stop ==
    /\ pass # "serving" /\ stops < MaxStops
    /\ pass' = "migrate" /\ stops' = stops + 1
    /\ UNCHANGED <<docs, bodies, version, cases, runRows, fts, kept>>

UpgradeStep ==
    \/ Migrate \/ Migrated \/ backfill_cases \/ CountEmpty \/ CountFallback \/ backfill_runs
    \/ StampNoFallback \/ backfill_case_answerers \/ search_backfill

UpgradeNext == UpgradeStep \/ Stop

UpgradeSpec == UpgradeInit /\ [][UpgradeNext]_upgradeVars

-----------------------------------------------------------------------------
UpgradeTypeOK ==
    /\ version \in 1 .. Latest /\ stops \in 0 .. MaxStops
    /\ pass \in {Passes[i] : i \in DOMAIN Passes}
    /\ \A r \in Runs : {runRows[r].hits, runRows[r].empty, runRows[r].fallback} \subseteq Unfilled .. Cardinality(CaseRows)

\* When the first request is served, whatever version the database came from, in
\* whichever chunks and after however many stops: no column is left to fill; a case whose
\* document can be read has the columns it says; a run's counts are those of its
\* document, and unknown only when neither its document nor (for the two that are
\* counted) its rows could tell; a run is in the search index once; and rebuilding a table
\* lost no row that references it (backfill::run, migrate_runs).
CountIsTrue(r, column, of) ==
    \/ runRows[r][column] = of
    \/ runRows[r][column] = Lost /\ ~bodies[r]
UpgradeIsFaithful ==
    pass = "serving" =>
        /\ version = Latest /\ kept = {"sessions", "case_tags"}
        /\ \A c \in CaseRows :
             /\ cases[c].cached # Unfilled
             /\ "null" \notin {cases[c].provider, cases[c].error, cases[c].empty, cases[c].answered}
             /\ docs[c].ok => cases[c] = PreparedCase(c)
        /\ \A r \in Runs :
             /\ runRows[r].digest # "null" /\ fts[r] = 1
             /\ CountIsTrue(r, "hits", PreparedRun(r).hits)
             /\ CountIsTrue(r, "empty", PreparedRun(r).empty)
             /\ CountIsTrue(r, "fallback", PreparedRun(r).fallback)

-----------------------------------------------------------------------------
(***************************************************************************)
(* domarinn migrate-db: a SQLite deployment is opened as a server would    *)
(* open it, and copied table by table into an empty PostgreSQL database,   *)
(* whose schema the command and any server that starts on that database    *)
(* bring up to date under one advisory lock.  There is no transaction      *)
(* around the copy: it may be cut off anywhere, run again, and meet rows   *)
(* that a server has written meanwhile (domarinn-server/src/storage/       *)
(* migratedb.rs, pg.rs, schema_pg.rs).                                     *)
(***************************************************************************)

CONSTANTS
    Keys,        \* the cache's keys
    SourceRows,  \* cache key -> row id in SQLite, of the entries there are
    Batch,       \* MAX_BINDS, in rows
    MaxCrashes   \* bound: connections lost

ASSUME MoveAssumption == IsFiniteSet(DOMAIN SourceRows) /\ Batch \in Nat \ {0}

VARIABLES
    lock,     \* who holds the advisory lock, as a set
    applied,  \* ledger -> the versions that were applied, in order
    procs,    \* process -> [pc, seen]
    copying,  \* [table, rows: not copied yet]
    target,   \* PostgreSQL's rows: table -> rows
    ids,      \* cache_entries.id there: key -> id
    texts,    \* cache_entries_fts there: id -> the text, named by the key it is of
    lastId,   \* the identity sequence
    crashes

moveVars == <<lock, applied, procs, copying, target, ids, texts, lastId, crashes>>

Processes == {"move", "server"}
Ledgers == [runs |-> 3, cache |-> 1]
NotRead == -1

\* RUNS_TABLES and CACHE_TABLES, without the tables that are copied like one of these.
Tables ==
    <<"runs", "cases", "runs_fts", "users", "sessions", "cache_entries", "cache_counters",
      "cache_entries_fts">>

\* The rows there are to copy; a search text without its entry is joined away.
source(table) ==
    CASE table \in {"runs", "runs_fts"} -> Runs
      [] table = "cases" -> CaseRows
      [] table = "users" -> {"admin"}
      [] table = "sessions" -> kept \cap {"sessions"}
      [] table = "cache_counters" -> {"counted"}
      [] OTHER -> DOMAIN SourceRows

MoveInit ==
    /\ lock = {} /\ applied = [l \in DOMAIN Ledgers |-> <<>>]
    /\ procs = [p \in Processes |-> [pc |-> "start", seen |-> NotRead]]
    /\ copying = [table |-> 1, rows |-> {}]
    /\ target = [t \in {Tables[i] : i \in DOMAIN Tables} |->
                    IF t = "cache_counters" THEN {"zero"} ELSE {}]
    /\ ids = <<>> /\ texts = <<>> /\ lastId = 0 /\ crashes = 0

Goto(p, pc) == procs' = [procs EXCEPT ![p] = [pc |-> pc, seen |-> NotRead]]

-----------------------------------------------------------------------------
(* migrate *)

LockIsFree == lock = {}

TakeLock(p) ==
    /\ procs[p].pc = "start" /\ pass = "serving"
    /\ LockIsFree
    /\ lock' = {p} /\ Goto(p, "runs")
    /\ UNCHANGED <<applied, copying, target, ids, texts, lastId, crashes>>

\* apply_ledger: the version is read once, and each migration is a transaction of its
\* own; one that was applied before finds its tables there and fails.
ReadVersion(p) ==
    /\ procs[p].pc \in DOMAIN Ledgers /\ procs[p].seen = NotRead
    /\ procs' = [procs EXCEPT ![p].seen = Len(applied[procs[p].pc])]
    /\ UNCHANGED <<lock, applied, copying, target, ids, texts, lastId, crashes>>

ApplyMigration(p) ==
    LET ledger == procs[p].pc
        next == procs[p].seen + 1
    IN /\ ledger \in DOMAIN Ledgers /\ procs[p].seen \in 0 .. Ledgers[ledger] - 1
       /\ IF next <= Len(applied[ledger])
          THEN Goto(p, "migration_failed") /\ lock' = lock \ {p} /\ UNCHANGED applied
          ELSE /\ procs' = [procs EXCEPT ![p].seen = next]
               /\ applied' = [applied EXCEPT ![ledger] = Append(@, next)]
               /\ UNCHANGED lock
       /\ UNCHANGED <<copying, target, ids, texts, lastId, crashes>>

LedgerIsUpToDate(p) ==
    /\ procs[p].pc \in DOMAIN Ledgers /\ procs[p].seen = Ledgers[procs[p].pc]
    /\ IF procs[p].pc = "runs" THEN Goto(p, "cache") /\ UNCHANGED lock
                               ELSE Goto(p, "migrated") /\ lock' = lock \ {p}
    /\ UNCHANGED <<applied, copying, target, ids, texts, lastId, crashes>>

-----------------------------------------------------------------------------
(* migrate_blocking, from the check on *)

HasRows == \E t \in {"runs", "users", "cache_entries"} : target[t] # {}

CheckEmpty ==
    /\ procs["move"].pc = "migrated"
    /\ IF HasRows THEN Goto("move", "refused") /\ UNCHANGED copying
                  ELSE /\ Goto("move", "copy")
                       /\ copying' = [table |-> 1, rows |-> source(Tables[1])]
    /\ UNCHANGED <<lock, applied, target, ids, texts, lastId, crashes>>

\* A row's parent is there already: the order of the tables.
Parents(table, rows) ==
    CASE table = "cases" -> {RunOfCase[c] : c \in rows} \subseteq target["runs"]
      [] table = "runs_fts" -> rows \subseteq target["runs"]
      [] table = "sessions" -> target["users"] # {}
      [] OTHER -> TRUE

\* f @@ g
Merged(f, g) == [x \in DOMAIN f \cup DOMAIN g |-> IF x \in DOMAIN f THEN f[x] ELSE g[x]]

\* Entries get their id as they come: any order of the batch.
Numberings(rows) == {f \in [rows -> lastId + 1 .. lastId + Cardinality(rows)] :
                        \A j, k \in rows : f[j] = f[k] => j = k}

\* copy_cache_fts finds the new id of an entry by its key.
BySourceRow(k) == SourceRows[k]                        \* mutant: the old row id
key_to_id(k) == ids[k]

\* copy_table, copy_cache_counters, copy_cache_fts: one insert of a batch.
CopyBatch ==
    LET table == Tables[copying.table]
    IN /\ procs["move"].pc = "copy" /\ copying.rows # {}
       /\ \E rows \in ChunksOf(copying.rows, Batch) :
            IF rows \cap target[table] # {} \/ ~Parents(table, rows)
            THEN Goto("move", "failed") /\ UNCHANGED <<copying, target, ids, texts, lastId>>
            ELSE /\ copying' = [copying EXCEPT !.rows = @ \ rows]
                 /\ target' = [target EXCEPT ![table] =
                        IF table = "cache_counters" THEN rows ELSE @ \cup rows]
                 /\ IF table = "cache_entries"
                    THEN /\ \E f \in Numberings(rows) : ids' = Merged(ids, f)
                         /\ lastId' = lastId + Cardinality(rows)
                    ELSE UNCHANGED <<ids, lastId>>
                 /\ texts' = IF table = "cache_entries_fts"
                             THEN Merged(texts, [i \in {key_to_id(k) : k \in rows} |->
                                                CHOOSE k \in rows : key_to_id(k) = i])
                             ELSE texts
                 /\ UNCHANGED procs
       /\ UNCHANGED <<lock, applied, crashes>>

\* verify_counts, and the next table.
verify_counts ==
    LET table == Tables[copying.table]
    IN /\ procs["move"].pc = "copy" /\ copying.rows = {}
       /\ IF Cardinality(target[table]) # Cardinality(source(table))
          THEN Goto("move", "failed") /\ UNCHANGED copying
          ELSE IF copying.table = Len(Tables)
          THEN Goto("move", "copied") /\ UNCHANGED copying
          ELSE /\ copying' = [table |-> copying.table + 1,
                              rows |-> source(Tables[copying.table + 1])]
               /\ UNCHANGED procs
       /\ UNCHANGED <<lock, applied, target, ids, texts, lastId, crashes>>

-----------------------------------------------------------------------------
\* A server on the same database takes a run, or a cache entry.
ServerIngests ==
    /\ procs["server"].pc = "migrated" /\ "new" \notin target["runs"]
    /\ target' = [target EXCEPT !["runs"] = @ \cup {"new"}, !["runs_fts"] = @ \cup {"new"}]
    /\ UNCHANGED <<lock, applied, procs, copying, ids, texts, lastId, crashes>>

ServerCaches ==
    /\ procs["server"].pc = "migrated"
    /\ \E k \in Keys \ target["cache_entries"] :
         /\ target' = [target EXCEPT !["cache_entries"] = @ \cup {k},
                                     !["cache_entries_fts"] = @ \cup {k}]
         /\ ids' = Merged(ids, [j \in {k} |-> lastId + 1])
         /\ texts' = Merged(texts, [i \in {lastId + 1} |-> k])
         /\ lastId' = lastId + 1
    /\ lastId < 2 * Cardinality(Keys)
    /\ UNCHANGED <<lock, applied, procs, copying, crashes>>

\* A process dies, its session's lock with it, and is started again; so is a command that
\* failed.
Crash(p) ==
    /\ crashes < MaxCrashes /\ procs[p].pc \notin {"start", "copied"}
    /\ crashes' = crashes + 1 /\ lock' = lock \ {p} /\ Goto(p, "start")
    /\ UNCHANGED <<applied, copying, target, ids, texts, lastId>>

MoveNext ==
    \/ \E p \in Processes :
         TakeLock(p) \/ ReadVersion(p) \/ ApplyMigration(p) \/ LedgerIsUpToDate(p) \/ Crash(p)
    \/ CheckEmpty \/ CopyBatch \/ verify_counts \/ ServerIngests \/ ServerCaches

\* The database is opened, as a server would, and then copied.
OpenedAndMoved ==
    (UpgradeNext /\ UNCHANGED moveVars) \/ (MoveNext /\ UNCHANGED upgradeVars)

MoveSpec == UpgradeInit /\ MoveInit /\ [][OpenedAndMoved]_<<upgradeVars, moveVars>>

-----------------------------------------------------------------------------
MoveTypeOK ==
    /\ Cardinality(lock) <= 1 /\ lock \subseteq Processes
    /\ DOMAIN ids = target["cache_entries"]
    /\ copying.table \in DOMAIN Tables /\ crashes \in 0 .. MaxCrashes

\* When the command reports success, the new database holds every row of the old one,
\* each search text with the entry it is of and the counters, whatever a server did to
\* that database meanwhile and however often an earlier attempt was cut off; and nobody
\* who starts on that database applies a migration a second time (migrate_blocking,
\* copy_database, copy_cache_fts, verify_counts; pg::migrate, apply_ledger).
MoveIsWhole ==
    /\ procs["move"].pc = "copied" =>
         /\ \A i \in DOMAIN Tables : source(Tables[i]) \subseteq target[Tables[i]]
         /\ \A k \in DOMAIN SourceRows : ids[k] \in DOMAIN texts /\ texts[ids[k]] = k
    /\ \A p \in Processes : procs[p].pc # "migration_failed"

-----------------------------------------------------------------------------
(***************************************************************************)
(* The SQL executor under every query of the server, over SQLite and over  *)
(* PostgreSQL: how a Rust value becomes a parameter, a parameter a stored  *)
(* value of either engine, and a stored value a Rust value again; and the  *)
(* placeholders of a statement (domarinn-server/src/storage/exec.rs).      *)
(*                                                                         *)
(* A value is its storage class and a number that names it: an integer is  *)
(* itself, in two's complement of IntWidth bits, a real counts halves, a   *)
(* text or a string of bytes is named by any number.  A conversion that    *)
(* fails is Refused.                                                       *)
(***************************************************************************)
CONSTANTS IntWidth,    \* 64: bits of an i64
          Samples      \* the names of texts and byte strings

ASSUME WidthAssumption == IntWidth \in Nat \ {0, 1}

VARIABLES wrote,    \* the Rust value that was written: [type, some, n]
          cell,     \* engine -> the stored Value, or Vacant
          bound,    \* what PostgreSQL was sent for a parameter of the type it inferred
          stmt      \* the statement, as the pieces it is assembled from

sqlVars == <<wrote, cell, bound, stmt>>

Modulus == 2 ^ IntWidth
Half == 2 ^ (IntWidth - 1)
Signed(n) == IF n % Modulus >= Half THEN (n % Modulus) - Modulus ELSE n % Modulus

Val(kind, n) == [kind |-> kind, n |-> n]
NullValue == Val("null", 0)
Refused == Val("refused", 0)
Vacant == Val("vacant", 0)

RustTypes == {"i64", "u64", "bool", "f64", "String", "Vec<u8>"}

\* The values of a type; `some` is FALSE for None of an Option of it.
ValuesOf(t) ==
    CASE t = "i64" -> -Half .. Half - 1
      [] t = "u64" -> 0 .. Modulus - 1
      [] t = "bool" -> {0, 1}
      [] t = "f64" -> -1 .. 2
      [] OTHER -> Samples

----------------------------------------------------------------------------
(* IntoValue and FromValue.                                                *)

Class(t) == CASE t \in {"i64", "u64", "bool"} -> "int" [] t = "f64" -> "real"
              [] t = "String" -> "text" [] OTHER -> "blob"

\* params!: every integer is cast to i64, None is NULL.
to_value(w) ==
    CASE ~w.some -> NullValue
      [] Class(w.type) = "int" -> Val("int", Signed(w.n))
      [] OTHER -> Val(Class(w.type), w.n)

\* A caller casts back what it reads of an unsigned integer.
from_value(t, v) ==
    CASE t = "i64" /\ v.kind = "int" -> v.n
      [] t = "u64" /\ v.kind = "int" -> v.n % Modulus
      [] t = "bool" /\ v.kind = "int" -> IF v.n # 0 THEN 1 ELSE 0
      [] t = "f64" /\ v.kind = "real" -> v.n
      [] t = "f64" /\ v.kind = "int" -> 2 * v.n
      [] t = "String" /\ v.kind = "text" -> v.n
      [] t = "Vec<u8>" /\ v.kind \in {"blob", "text"} -> v.n

\* Where from_value bails.
Readable(t, v) ==
    v.kind \in (CASE Class(t) = "int" -> {"int"} [] t = "f64" -> {"real", "int"}
                  [] t = "String" -> {"text"} [] OTHER -> {"blob", "text"})

----------------------------------------------------------------------------
(* The two engines.                                                        *)

\* The column a value of the class is kept in, as each schema declares it.
PgType(class) == CASE class = "int" -> "INT8" [] class = "real" -> "FLOAT8"
                   [] class = "text" -> "TEXT" [] OTHER -> "BYTEA"

\* SQLite keeps any value in any column; a numeric one it converts when nothing
\* is lost.
SqliteStores(class, v) ==
    CASE class = "real" /\ v.kind = "int" -> Val("real", 2 * v.n)
      [] class = "int" /\ v.kind = "real" /\ v.n % 2 = 0 -> Val("int", v.n \div 2)
      [] OTHER -> v

\* Text and bytes are sent as bytes, whatever the type.
OnlyItsOwn(v, ty) ==
    IF <<v.kind, ty>> \in {<<"text", "TEXT">>, <<"blob", "BYTEA">>} THEN v ELSE Refused

BytesAs(v, ty) == Val(IF ty = "TEXT" THEN "text" ELSE "blob", v.n)

\* ToSql for Value: by the type PostgreSQL inferred.  INT2 and OID are as INT4, FLOAT4
\* as FLOAT8.
to_sql(v, ty) ==
    CASE v.kind = "null" -> v
      [] v.kind = "int" /\ ty = "INT8" -> v
      [] v.kind = "int" /\ ty = "INT4" ->
            IF v.n \in -(Half \div 2) .. Half \div 2 - 1 THEN v ELSE Refused
      [] v.kind = "int" /\ ty = "BOOL" -> Val("bool", IF v.n # 0 THEN 1 ELSE 0)
      [] v.kind = "int" /\ ty = "FLOAT8" -> Val("real", 2 * v.n)
      [] v.kind = "real" /\ ty = "FLOAT8" -> v
      [] v.kind \in {"text", "blob"} -> BytesAs(v, ty)
      [] OTHER -> Refused

\* FromSql for Value: a BOOL is 0 or 1, the other types are their class.
from_sql(v) == IF v.kind = "bool" THEN Val("int", v.n) ELSE v

\* Row::get of a column of the engine.
get(engine, v) == IF engine = "pg" THEN from_sql(v) ELSE v

----------------------------------------------------------------------------
(* translate.                                                              *)

\* A statement is code and literals in turn; a quote within a literal is doubled.
Digits == {"1", "2"}
Doubled(text) == SeqExt!FlattenSeq([i \in DOMAIN text |-> IF text[i] = "'" THEN <<"'", "'">> ELSE <<text[i]>>])
Piece(p) == IF p.literal THEN <<"'">> \o Doubled(p.text) \o <<"'">> ELSE p.text
Assembled(pieces) == SeqExt!FlattenSeq([i \in DOMAIN pieces |-> Piece(pieces[i])])

InString(sql, i) == Cardinality({j \in 1 .. i - 1 : sql[j] = "'"}) % 2 = 1

TranslateAll(sql) ==
    [i \in DOMAIN sql |->
        IF sql[i] = "?" /\ i < Len(sql) /\ sql[i + 1] \in Digits THEN "$" ELSE sql[i]]

translate(sql) ==
    [i \in DOMAIN sql |->
        IF sql[i] = "?" /\ ~InString(sql, i) /\ i < Len(sql) /\ sql[i + 1] \in Digits
        THEN "$" ELSE sql[i]]

\* What it is to be: the numbered placeholders of the code, and nothing else.
Meaning(pieces) ==
    Assembled([i \in DOMAIN pieces |->
        IF pieces[i].literal THEN pieces[i]
        ELSE [literal |-> FALSE,
              text |-> [j \in DOMAIN pieces[i].text |->
                            IF pieces[i].text[j] = "?" THEN "$" ELSE pieces[i].text[j]]]])

Codes == {<<"=">>, <<"?", "1">>, <<"=", "?", "2">>}
Literals == {<<>>, <<"?", "1">>, <<"'">>, <<"'", "?", "2">>, <<"?", "1", "'">>}
Statements == {<<[literal |-> FALSE, text |-> c], [literal |-> TRUE, text |-> l],
                 [literal |-> FALSE, text |-> d]>> : c, d \in Codes, l \in Literals}

----------------------------------------------------------------------------
SqlInit ==
    /\ wrote = [type |-> "i64", some |-> FALSE, n |-> 0]
    /\ cell = [e \in {"sqlite", "pg"} |-> Vacant]
    /\ bound = Vacant /\ stmt = <<>>

\* Conn::execute and Tx::execute: the statement is translated for PostgreSQL only.
execute(engine, w) ==
    /\ cell = [e \in {"sqlite", "pg"} |-> Vacant]
    /\ wrote' = w
    /\ cell' = [cell EXCEPT ![engine] =
                  IF engine = "pg" THEN to_sql(to_value(w), PgType(Class(w.type)))
                                   ELSE SqliteStores(Class(w.type), to_value(w))]
    /\ stmt' \in Statements
    /\ UNCHANGED bound

\* A build before this one wrote bytes as text, which SQLite keeps.
OlderBuildWrites(n) ==
    /\ cell = [e \in {"sqlite", "pg"} |-> Vacant]
    /\ wrote' = [type |-> "Vec<u8>", some |-> TRUE, n |-> n]
    /\ cell' = [cell EXCEPT !["sqlite"] = Val("text", n)]
    /\ UNCHANGED <<bound, stmt>>

\* copy_table: a cell is read as a Value and bound as it is.
CopyCell ==
    /\ cell["sqlite"] # Vacant /\ cell["pg"] = Vacant
    /\ cell' = [cell EXCEPT !["pg"] = to_sql(get("sqlite", cell["sqlite"]), PgType(Class(wrote.type)))]
    /\ UNCHANGED <<wrote, bound, stmt>>

\* The value is compared with an expression of a type that PostgreSQL inferred.
BindParameter ==
    /\ cell["pg"] # Vacant /\ bound = Vacant
    /\ Class(wrote.type) = "int"
    /\ \E ty \in {"INT8", "INT4"} \cup (IF wrote.type = "bool" THEN {"BOOL"} ELSE {}) :
          bound' = to_sql(to_value(wrote), ty)
    /\ UNCHANGED <<wrote, cell, stmt>>

SqlNext ==
    \/ \E t \in RustTypes : \E n \in ValuesOf(t), some \in BOOLEAN, e \in DOMAIN cell :
          execute(e, [type |-> t, some |-> some, n |-> n])
    \/ \E n \in Samples : OlderBuildWrites(n)
    \/ CopyCell \/ BindParameter

----------------------------------------------------------------------------
\* v is the Rust value that was written.
Reads(v) ==
    IF v.kind = "null" THEN ~wrote.some
    ELSE wrote.some /\ Readable(wrote.type, v) /\ from_value(wrote.type, v) = wrote.n

\* A value that was written reads back as itself from either engine, also after it was
\* copied from the one to the other and where an older build stored it as another class;
\* a parameter is sent as the value it is or not at all; and a statement reaches
\* PostgreSQL with exactly its placeholders renamed, whatever stands in its literals
\* (IntoValue, FromValue, Row::get, ToSql and FromSql for Value, translate).
ValuesAreKept ==
    /\ \A e \in DOMAIN cell : cell[e] # Vacant => Reads(get(e, cell[e]))
    /\ bound \notin {Vacant, Refused} => Reads(from_sql(bound))
    /\ translate(Assembled(stmt)) = Meaning(stmt)
=============================================================================
