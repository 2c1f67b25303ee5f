------------------------------ MODULE RunStore ------------------------------
(***************************************************************************)
(* The server's run storage and what clients, operators and the hourly     *)
(* retention task do to it (domarinn-server/src/storage/runs.rs,           *)
(* projects.rs, retention.rs; domarinn-cli/src/share.rs for the uploader). *)
(* Every operation on the server is one immediate transaction, so it is    *)
(* one action; the answer to an upload may be lost on its way back.        *)
(* A suite stands for a (project, suite) pair.                             *)
(***************************************************************************)
EXTENDS Integers, FiniteSets

CONSTANTS
    RunIds,     \* run ids; their order is the order of the strings
    Suites,
    Branches,
    Cases,      \* case keys
    Shapes,     \* suite, branch and cases of the runs clients may produce
    Recording,  \* clients use `run --share`, which saves the URL it is given
    Checkouts,  \* branches found where `domarinn share` runs; Null outside git
    MaxAge,     \* DOMARINN_RUN_MAX_AGE_DAYS
    MaxNow      \* bound: the clock

Null == "null"

ShapeSet ==
    [suite: Suites \cup {Null}, branch: Branches \cup {Null}, cases: SUBSET Cases]

ASSUME RunStoreAssumption ==
    /\ RunIds \subseteq Int
    /\ Null \notin Suites /\ Null \notin Branches
    /\ Shapes \subseteq ShapeSet
    /\ Checkouts \subseteq Branches \cup {Null}
    /\ Recording \in BOOLEAN
    /\ MaxAge \in Nat /\ MaxNow \in Nat

VARIABLES
    now,
    local,    \* run -> the document in its client's own store
    runs,     \* run -> the document stored on the server
    indexed,  \* rows of the search index: <<run, document>>
    pins,     \* suite -> what its baseline is pinned to
    refused   \* history: runs one of whose uploads was a conflict

vars == <<now, local, runs, indexed, pins, refused>>

Docs ==
    [suite: Suites \cup {Null}, branch: Branches \cup {Null},
     cases: SUBSET Cases, finished: Nat, shared: BOOLEAN]
NoDoc == [suite |-> Null, branch |-> Null, cases |-> {}, finished |-> -1,
          shared |-> FALSE]

NoPin == [kind |-> "none", to |-> Null]
RunPin(r) == [kind |-> "run", to |-> r]
BranchPin(b) == [kind |-> "branch", to |-> b]
Pins == {NoPin} \cup {RunPin(r) : r \in RunIds} \cup {BranchPin(b) : b \in Branches}

\* TypeOK: every table and every client holds values of its kind.
TypeOK ==
    /\ now \in Nat
    /\ local \in [RunIds -> Docs \cup {NoDoc}]
    /\ runs \in [RunIds -> Docs \cup {NoDoc}]
    /\ indexed \subseteq RunIds \X Docs
    /\ pins \in [Suites -> Pins]
    /\ refused \subseteq RunIds

Stored == {r \in RunIds : runs[r] # NoDoc}

Init ==
    /\ now = 0
    /\ local = [r \in RunIds |-> NoDoc]
    /\ runs = [r \in RunIds |-> NoDoc]
    /\ indexed = {}
    /\ pins = [s \in Suites |-> NoPin]
    /\ refused = {}

-----------------------------------------------------------------------------
(***************************************************************************)
(* Clients: a run ends and is saved locally; it is uploaded, perhaps more  *)
(* than once.                                                              *)
(***************************************************************************)
\* A run ends on its client.  Clients and the server agree on the time.
FinishRun(r, shape) ==
    /\ local[r] = NoDoc
    /\ local' = [local EXCEPT ![r] =
                    [suite |-> shape.suite, branch |-> shape.branch,
                     cases |-> shape.cases, finished |-> now, shared |-> FALSE]]
    /\ UNCHANGED <<now, runs, indexed, pins, refused>>

\* upload_run: a document without git metadata takes the checkout's, and the
\* URL of an earlier upload is left out.
SentWithUrl(doc, checkout) ==        \* mutant: the URL travels
    [doc EXCEPT !.branch = IF doc.branch = Null THEN checkout ELSE @]
Sent(doc, checkout) ==
    [doc EXCEPT !.branch = IF doc.branch = Null THEN checkout ELSE @,
                !.shared = FALSE]

\* PreparedRun::insert compares the content hash of a run with the same id.
Conflict(r, doc) == runs[r] # NoDoc /\ runs[r] # doc

\* PreparedRun::insert: the run, its cases and its search rows in one
\* transaction, or nothing.
Ingest(r, doc) ==
    /\ refused' = refused \cup (IF Conflict(r, doc) THEN {r} ELSE {})
    /\ runs' = [runs EXCEPT ![r] = IF @ = NoDoc THEN doc ELSE @]
    /\ indexed' = indexed \cup (IF runs[r] = NoDoc THEN {<<r, doc>>} ELSE {})

\* An upload whose answer is lost, or `domarinn share`, which records nothing.
Share(r, checkout) ==
    /\ local[r] # NoDoc
    /\ Ingest(r, Sent(local[r], checkout))
    /\ UNCHANGED <<now, local, pins>>

\* `run --share` hears the answer and saves the run again with its URL.
ShareAndRecord(r, checkout) ==
    /\ Recording /\ local[r] # NoDoc
    /\ Ingest(r, Sent(local[r], checkout))
    /\ ~Conflict(r, Sent(local[r], checkout))
    /\ local' = [local EXCEPT ![r].shared = TRUE]
    /\ UNCHANGED <<now, pins>>

-----------------------------------------------------------------------------
(***************************************************************************)
(* Operators: baselines are pinned and unpinned, runs deleted.             *)
(***************************************************************************)
\* Pins of deleted runs go with them: ON DELETE CASCADE.
CascadePins(gone) ==
    [s \in Suites |-> IF pins[s].kind = "run" /\ pins[s].to \in gone
                      THEN NoPin ELSE pins[s]]

\* The search tables have no foreign keys; their rows are deleted by hand.
KeepSearchRows(gone) == indexed      \* mutant: rows left behind
DropSearchRows(gone) == {row \in indexed : row[1] \notin gone}

RemoveRuns(gone) ==
    /\ UNCHANGED <<now, local, refused>>
    /\ runs' = [r \in RunIds |-> IF r \in gone THEN NoDoc ELSE runs[r]]
    /\ indexed' = DropSearchRows(gone)
    /\ pins' = CascadePins(gone)

DeleteRun(r) ==
    /\ r \in Stored
    /\ RemoveRuns({r})

\* A run can be pinned while it is stored and belongs to the suite.
Pinnable(s, r) == r \in Stored /\ runs[r].suite = s

PinRun(s, r) ==
    /\ Pinnable(s, r)
    /\ pins' = [pins EXCEPT ![s] = RunPin(r)]
    /\ UNCHANGED <<now, local, runs, indexed, refused>>

\* A branch can be pinned before any run of it exists.
PinBranch(s, b) ==
    /\ pins' = [pins EXCEPT ![s] = BranchPin(b)]
    /\ UNCHANGED <<now, local, runs, indexed, refused>>

DeleteBaseline(s) ==
    /\ pins' = [pins EXCEPT ![s] = NoPin]
    /\ UNCHANGED <<now, local, runs, indexed, refused>>

-----------------------------------------------------------------------------
(***************************************************************************)
(* The hourly retention task.                                              *)
(***************************************************************************)
\* IS NOT DISTINCT FROM: a missing suite or branch is equal to itself.
SameGroupSqlEquals(r, q) ==                \* mutant: NULL = NULL is not true
    /\ runs[r].suite = runs[q].suite /\ runs[r].suite # Null
    /\ runs[r].branch = runs[q].branch /\ runs[r].branch # Null
SameGroup(r, q) ==
    runs[r].suite = runs[q].suite /\ runs[r].branch = runs[q].branch

\* SELECT run_id FROM baselines WHERE run_id IS NOT NULL.
Pinned(r) == \E s \in Suites : pins[s] = RunPin(r)

\* created_at is MAX(created_at) over the run's own group.
NewestOfGroup(r) ==
    /\ \E q \in Stored : SameGroup(r, q)
    /\ \A q \in Stored : SameGroup(r, q) => runs[q].finished <= runs[r].finished

\* PROTECTED
Protected(r) == Pinned(r) \/ NewestOfGroup(r)

Expired(r) == r \in Stored /\ runs[r].finished < now - MaxAge

\* NOT (PROTECTED); the subquery of the pins leaves out NULL run ids, so that
\* a branch pin does not make the predicate NULL.
Evictable(r) == Expired(r) /\ ~Protected(r)

Sweep == RemoveRuns({r \in RunIds : Evictable(r)})

Tick ==
    /\ now < MaxNow
    /\ now' = now + 1
    /\ UNCHANGED <<local, runs, indexed, pins, refused>>

-----------------------------------------------------------------------------
Next ==
    \/ Tick
    \/ Sweep
    \/ \E r \in RunIds, shape \in Shapes : FinishRun(r, shape)
    \/ \E r \in RunIds, c \in Checkouts : Share(r, c)
    \/ \E r \in RunIds, c \in Checkouts : ShareAndRecord(r, c)
    \/ \E r \in RunIds : DeleteRun(r)
    \/ \E s \in Suites, r \in RunIds : PinRun(s, r)
    \/ \E s \in Suites, b \in Branches : PinBranch(s, b)
    \/ \E s \in Suites : DeleteBaseline(s)

Spec == Init /\ [][Next]_vars

-----------------------------------------------------------------------------
(***************************************************************************)
(* Properties.                                                             *)
(***************************************************************************)
\* PinsResolve: whatever uploads, deletions, pins and sweeps happen, a suite
\* pinned to a run names a stored run of that very suite, so exporting its
\* baseline finds it (set_baseline, delete_run, sweep, the foreign key).
PinsResolve ==
    \A s \in Suites : pins[s].kind = "run" =>
        pins[s].to \in Stored /\ runs[pins[s].to].suite = s

\* SearchAgrees: the search index holds exactly the stored documents, although
\* it has no foreign key and an id can be uploaded again after it was deleted.
SearchAgrees == indexed = {<<r, runs[r]>> : r \in Stored}

\* Nothing refers to a run that is not there, or to another one that has its id
\* by now: not a suite's baseline, and not the search index
\* (delete_run, ingest_run, sweep).
NothingDangles == PinsResolve /\ SearchAgrees

\* ReshareIsHarmless: uploading one's own run again, after a lost answer or a
\* recorded URL, is never refused as a different run with the same id.
ReshareIsHarmless == refused = {}

\* SweepIsSelective: a sweep unpins no suite and leaves every group of runs
\* (suite and branch, missing ones too) its newest member, but no run that has
\* expired, is pinned nowhere and is older than another of its group, whatever
\* is pinned elsewhere.
Superseded(r) ==
    \E q \in Stored : /\ runs[q].suite = runs[r].suite
                      /\ runs[q].branch = runs[r].branch
                      /\ runs[q].finished > runs[r].finished
Stale(r) == /\ r \in Stored /\ runs[r].finished < now - MaxAge
            /\ \A s \in Suites : pins[s] # RunPin(r)
            /\ Superseded(r)
SweepIsSelective ==
    [][Sweep => /\ pins' = pins
                /\ \A r \in Stored : \E q \in RunIds :
                        /\ runs'[q] # NoDoc
                        /\ runs'[q].suite = runs[r].suite
                        /\ runs'[q].branch = runs[r].branch
                        /\ runs'[q].finished >= runs[r].finished
                /\ \A r \in RunIds : Stale(r) => runs'[r] = NoDoc]_vars
=============================================================================
