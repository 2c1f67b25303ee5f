# A formal model of domarinn

domarinn evaluates prompts and applications: a suite of test cases is expanded
into a matrix of cells, every cell calls a provider, its answer is judged by
asserts (local predicates, and graders that call a model or a program), and the
run is compared with a baseline so that CI can fail on a regression. A server
keeps runs, baselines and a shared response cache, for users with roles.

This directory holds TLA+ models of the parts that carry the program's own
logic, TLC configurations that check them on small instances, and TLAPS proofs
of the properties that hold for every instance. `PROJECT.json` ties each
definition to the lines it models and lists runs, mutants, hazards and theorems.

    tlc -workers 2 -config Pacing.cfg MCPacing      # one run
    tlapm RunnerProofs.tla                          # one module of proofs

## Inventory

| Part (crate) | State | Operations | Made correct by |
|---|---|---|---|
| Cell scheduler, `runner.rs` (core) | cells in flight, the abort flag | start a cell, collect its result | every cell gets a result; bounded loss after an abort |
| Cell pipeline, `runner_cell.rs`, `runner_asserts.rs` | what one cell has done | render, call, assert, grade, finish | no case passes that was not graded |
| Fallback chain, `runner_fallback.rs` | link, primary outcome, links passed over | call, hand off, settle | never worse than without fallback |
| Cached call, `runner_cache.rs`, `empty_policy.rs`, `cache_adopt.rs` | response cache, probe budget | look up, adopt an old key, refuse, call, store | offline means offline; replays match the store |
| Rate limiter and retries, `rate_limit.rs`, `retry.rs` | next slot; attempts and in-flight time of a call | acquire, send, answer, back off | the rate is bounded; `Retry-After` is honoured |
| Providers, `anthropic.rs`, `openai.rs`, `http_provider.rs`, `exec*.rs`, `chat_wire.rs`, `pricing.rs` | a child process and its pipes | build a request and its key, read an answer, spawn, feed, time out, kill | a replay is one's own; an answer is read and priced as it is; no process is left |
| Scoring, `scoring.rs`, `assertion.rs`, `asserts.rs` | scored asserts of a case | score, skip, grade, verdict | skipping a grader never changes a verdict |
| Grader calls, `grader*.rs`, `embeddings.rs`, `request_cache.rs` | exchanges in the cache | look up, adopt a verdict, ask, ask again | a verdict comes from a payload the parser accepts, and answers what is asked today |
| Cache tiers, crate `domarinn-cache` | files, remote table or bucket | get with populate, put, purge | entries are immutable and whole |
| Cache commands, CLI `cachecmd.rs`, `cachels.rs`, `cachecfg.rs` | what one command has seen | ls, show, stats, gc, clear | exactly what was asked for is removed and shown |
| Server cache, `storage/cache*.rs`, `localcache.rs` | entries, derived columns | put, get, prune, index, backfill, page | the index describes its own entry; pages neither repeat nor lose |
| Run store, `storage/runs.rs`, `retention.rs`, `projects.rs` | runs, search rows, pins | ingest, delete, pin, sweep | nothing dangles; retention keeps baselines |
| Database, `storage/schema*.rs`, `backfill.rs`, `migratedb.rs`, `exec.rs`, `pg.rs` | schema version, filled columns, the copy | open, migrate, fill, copy, bind and read | columns say what documents say; nothing is missing from a move |
| Gate, `baselines.rs`, `composite.rs`, `diff.rs`, `stats.rs`, CLI `run.rs`, `baseline.rs`, `share.rs`, `loadrun.rs` | the run directory, what a gate has read | store, resolve, export, merge, compare, upload, exit | the newest result of each case; a regression fails the job |
| Access and pages, `routes.rs`, `runsets.rs`, `sets.rs`, `mcp/` | sets, grants, cursors | read, write, page, call a tool | nobody reads or writes beyond the rights held; pages are exact |
| Accounts, `accounts.rs`, `storage/auth.rs`, `attempts.rs`, `ratelimit.rs`, `clientip.rs`, `csrf.rs`, `sso/` | users, sessions, keys, counters, buckets, transactions | set up, log in, change, disable, delete, sign in through a provider | an enabled administrator remains; revocation is final; a login happens once; locks hold |
| Loading, matrix, filters | the stack of files | compose, validate, expand, plan | imports compose; the cells are the matrix; credentials are checked first |
| Import, CLI `import.rs` | none: a function of a config | convert | what is converted keeps its meaning |
| Templates, reports, web UI, CI actions | none | render text | not modelled |

**How the parts interact.** One CLI process drives all cells of a run with
`buffer_unordered` on a single task, so code between two `await`s is atomic and
cells interleave only there. Cells share the response cache, the abort flag, the
budget for probing old keys and, per provider, a limiter behind a mutex. Several
CLI processes share a run directory, a cache directory, a bucket or the server's
cache table. A write of the server is one immediate transaction, but a handler
is several of them, with password hashing on another thread in between; a client
may lose the answer to a request that was carried out, and a gate needs two
requests. Background tasks (retention, the cache index) run beside the handlers.

**What is hard.** The abort flag is raised while other cells are between two
awaits; a fallback chain may settle at any link; a strict run must find every
path to a live call closed; a file is published in several file-system calls and
processes die between them; purges decide on what they read earlier; uploads are
repeated and arrive out of order; SQL's NULL turns a protection rule into its
opposite; a gate reads the pin and the baseline at different times; two
administrators demote each other; a password check overlaps with a lock; an
assertion expires while the callback that carries it is under way; a start is
stopped between two chunks of a backfill; a call to the remote cache, or the write
to an exec child, has no timeout and may never end.

## Modules

| Module | Models | State ↔ code |
|---|---|---|
| `Pacing` | `RateLimiter::acquire`, `with_retry_limited` | `next` is the mutex-guarded slot; per call: `attempts`, `inFlight`, `started`, `wake` |
| `Runner` | `run_with_progress`, `run_cell`, `call_chain`, `call_with_cache`, `evaluate_asserts`, `EmptyPolicy`, `MigrationProbe` | `pc` is the await point a cell stands at; `cache`, `remaining`, `adopted`, `aborted` are what cells share |
| `Scoring` | `evaluate_asserts` with `case_verdict`, `remaining_can_change_outcome`, negation | the asserts scored, skipped and graded of one case, and what grading all would have given |
| `GraderExchange` | `request_cache.rs`: one cached exchange of a judge, checker or embedding | the store, the budget, where each exchange is; runs follow each other |
| `GradedCalls` | `grader.rs`, `grader_llm.rs`, `embeddings.rs`: what is asked, under which key, how the answer is read | the store and the gradings made |
| `ImportSuite` | the predicates of `asserts.rs`; `import promptfoo` | operators; one conversion per behaviour |
| `ProviderCalls` | request, key and headers of each provider, over environments and processes | the store and what each call sent and got |
| `ProviderReplies` | what becomes of every kind of answer, and its price | one answer per behaviour |
| `ChatWire` | a transcript in the shapes of both vendors | one transcript per behaviour |
| `ExecChild` | `run_exec_raw`, `collect_output`, `GroupKill` | the call, two processes of the group, the pipes of stdin and stdout |
| `ImmutableStore` | the contract of `CacheBackend`: write once, remove | the entry of each key |
| `CacheTiers` | `LayeredCache` over `LocalDiskCache` over S3, the server or nothing | published files, temp files, the remote tier, one operation per process |
| `CacheCommands` | the `cache` subcommands and which tiers a run uses | the files of two directories, the walk of one command |
| `CacheIndex` | the server's entries, their index, its task, prunes and listings | rows with ids that may be used again, the batch the task has read, a pager |
| `RunStore` | ingest, delete, baselines, retention; uploads of the CLI | `runs`, `indexed`, `pins` are tables; `local` is the client's own copy |
| `BranchBaseline` | `branch_runs_newest_first`, `merge_branch_runs`, `export_baseline`, the gate; extends `RunStore` | `gate`: what the gate has read so far |
| `StoreUpgrade` | opening an older database and `migrate-db`; the SQL executor | version and columns, both databases and the copy; one value and one statement |
| `RunAccess` | handlers and MCP tools that check a set and then read or write | grants, restrictions, and the statements a request has left |
| `ReadPages` | lists of runs, cases, matrix rows and the cases of an entry | the table and the cursor of one client |
| `Accounts` | every handler on users, sessions and keys, step by step | the three tables and where each request is |
| `LoginAttempts` | counters and locks | rows per key, checks in flight |
| `McpEndpoint`, `ClientIp` | token buckets and the checks of the MCP endpoint; the address a request is booked under | the map of buckets, one request at a time |
| `SsoLogins`, `SsoProviders` | login transactions and assertions; provider settings and who signs in, cookies and the origin check | transactions, consumed assertions, callbacks under way; accounts and identities, two jars |
| `SuiteFiles`, `SuitePlan` | composition of files and validation; matrix, filters and credentials | the stack of the loader, operators; the plan of one run |
| `RunGate` | diffs as the CLI and the server compute them; the run directory and the exit code | operators; two processes over one directory |

`MC*` modules give small values to the constants that are functions or sets of
records. Models that share no state are checked side by side in one run: an
initial choice `part` says which of them a behaviour is, and the others keep an
initial state (`MCPacing`, `MCCached`, `MCAbort`, `MCOffline`,
`MCTiers`, `MCRunStore`, `MCServer`, `MCSuite`). Modules named `*Proofs` hold the
theorems. Operators called a mutant, or described as a mistaken version, are
plausible wrong versions of the definition that follows them; each property is
shown to fail with one.

**Choices in the models.**

- *Runner.* One action is the code between two awaits. A response is its reason
  for being empty, a failure its error class. There is one old key per
  generation (`adopt_legacy_canonical` may try several documents). Graders end
  in a verdict, an error or a rejected credential; their own cache is
  `GraderExchange`. A case passes when all asserts pass; thresholds are in
  `Scoring`. Retries and limits are in `Pacing`. `ProbeBudget = 0` is
  `--no-cache-migration`. `Put` is the documented contract of the cache; how far
  the disk cache keeps it is the subject of `CacheTiers`.
- *Pacing.* Time is a counter; a timer may fire up to `Lateness` ticks late.
  With late timers two sends may be closer than the interval, so the property is
  on the n-th send, which is what the slots guarantee.
- *Scoring.* Scores are integers up to `Top`, means are compared by cross
  multiplication; the rounding of floats is not modelled. Graded scores are in
  range.
- *CacheTiers.* A put is: look, write a temp file, rename; a purge: list, read,
  unlink. `RenameFails` stands for every outcome of a failed rename. Failures of
  `stat`, and read errors other than a missing file, are not modelled.
- *RunStore.* A suite is a (project, suite) pair. Clients and the server agree
  on the time. `Recording` says whether clients use `run --share`, which saves
  the URL it was given into the run. Every caller sees every run; who sees which
  is `RunAccess`.
- *BranchBaseline.* One gate at a time. A lookback of 2 stands for
  `BRANCH_LOOKBACK` = 20. Unreadable blobs and the fallback for old servers are
  not modelled.
- *SsoLogins.* A callback checks the response and computes until when the
  assertion must be remembered in one step, and marks it in a later one, as the
  handler does; an assertion may expire between the two, and then it may be
  marked with a time that has passed, when it can no longer be accepted either.
- *Accounts.* A handler reads the row, hashes on another thread, and writes;
  these are steps of their own. Token formats and hashing are left out. `ended` is
  history: the tokens of the sessions that were there when their user logged out,
  was disabled, deleted or given a new password, written by those steps whatever
  becomes of the rows; a token that is issued is a new one.
- *SuiteFiles.* A document, its `defaults` and their `assert` may each be absent,
  null or there; other values that are no mapping behave like null in
  `deep_merge` and are left out.
- *ExecChild.* The third pipe, stderr, is collected like stdout and left out.
- *McpEndpoint.* The clock is read just before the lock of the buckets is taken;
  the model has no step between the two.
- *RunGate.* `resolve` scans the directory and reads the runs it chose again in
  one step: that a run is torn by a second write between the two reads is not
  seen, only that it is torn or whole at the step.
- *ProviderCalls, GradedCalls.* A key is the canonical document itself, so that a
  collision of the hash is left out.

## Runs

| Run | Question | Size |
|---|---|---|
| `pacing` | Calls share a limiter with hints, retries and late timers: `RateBound`, `WireIsHonest`, `EveryCallIsAnswered`. A request is served while sets are restricted, grants withdrawn and runs deleted: `AccessIsHeld`. A client pages while runs come and go: `PagesAreExact` | 2 calls, 1 retry; 1 user, 2 runs, 2 changes; 4 runs, pages of 1 and 2 |
| `runner_cached` | Cells with one request and three-link chains over a store with two old key shapes and faults: `NeverWorse`. Providers that differ in one thing each share a store: `ReplayIsOwn`. Every kind of answer: `RepliesAreRead` | 3 cells, 2 at a time; 2 calls |
| `runner_abort` | Cells of one request share the cache while the credential is rejected: `BoundedLoss`, `NoUngradedPass`, `ReplayMatchesStore`. Transcripts, a child with a helper, imported configs: `ResultsAnswerTheirCalls`, `NoProcessIsLeft`, `ImportKeepsMeaning` | 3 cells, 2 at a time; 5 messages; outputs beyond a pipe |
| `runner_offline` | `--cache-only` over stores warmed under any key shape: `CacheOnlyIsOffline`, `HungCallsCostTheirSlots`. The index beside requests, restarts and reused ids: `BrowserIsExact`, `BacklogDrains`. Verdicts over a store: `GradedAsAsked` | 3 cells; 3 entries, pages of 1; 2 gradings |
| `tiers` | Two sites, one with a directory for each writer over the server, one with a shared directory over a bucket, with purges, faults and crashes: `ReadsAreWhole`, `TiersAreImmutable`. One cache command with runs beside it: `CommandsAreExact` | 3 processes; 2 keys, 2 changes |
| `tiers_race` | two writers of a key in one directory; **violated** | |
| `store` | Uploads, pins, deletions, sweeps: `NothingDangles`, `ReshareIsHarmless`, `SweepIsSelective`. A gate meanwhile: `GateFindsItsBaseline`. Opening, moving and reading a database: `DatabaseIsKept` | 3 runs, 2 suites, lookback 2; every schema version that changes what is filled |
| `server` | Overlapping requests: `AdminRemains`, `RevocationIsFinal`; attempts: `LadderHolds`; sign-ins: `LoginsHappenOnce`, `CallersAreKnown`; buckets: `RoomIsMadeFairly` | 3 users, 2 requests; 7 moments; 2 assertions, 2 callbacks |
| `suite` | Three files, some empty, that import each other in every way: `ImportsCompose`. Forty suites under fifteen sets of options: `PlanIsSound`. Two processes over one run directory, killed anywhere: `ExitIsHonest`, `RegressionsAreShared`. Every case of local and graded asserts: `ShortCircuitIsInvisible`. Concurrent exchanges over two runs: `StoredVerdictsStand` | 2 + 2 asserts, positive weights; 6 exchanges, 2 re-asks |
| `preflight` | the suites again: is every credential that a run reads checked before it?; **violated** | |
| `scoring_zero_weight` | the cases again, with weight 0; **violated** | |
| `exec_timeout` | a child that does not read its request; **violated** | |

**Why the bounds are enough for what is asked.** Interference between cells is
pairwise (two writers, a writer and a reader, a poisoner and a victim), so two
cells in flight show it; `runner_abort` has a third that starts after the abort,
which the bound on the loss needs. Chains have a first, a middle and a last
link. One retry separates the first attempt from the last. Three runs fill a
lookback of two and exceed it, leave a group with a tie and an older member, and
give the other suite a run. Two clock values tell expired from fresh with
`MaxAge = 0`. Two overlapping requests over three users show one administrator
acting on another while a third remains or does not; seven moments hold a
window, a lock, its escalation and its end. Pages of one row put every row at
the edge of a page. Widths of two and four bits keep the relation of the address
families that `/96` depends on. The size of the system is lifted altogether
where there is a theorem. Symmetry is used for interchangeable cells, callbacks,
requests and tokens, in runs without liveness properties.

**Fairness.** `Pacing`: some step is taken while one can be; the clock cannot pass
the deadline of a sleeping call by more than `Lateness`, nor that of a request by
more than `Timeout`, so no call is left behind. That is tokio polling what is
runnable, and the timeout that the clients of the HTTP providers are built with.
`Runner`: a step that waits for nobody is taken (`Ready`), since `buffer_unordered`
polls every future it holds and fills its slots. Of a call, to a provider, a grader
or the cache, nothing is assumed: the client of the remote cache has no timeout
(`remote_http.rs:38`), nor has the write of a request to an exec child
(`exec.rs:256`, see `exec_timeout`), so a run need not end.
`HungCallsCostTheirSlots` says what such a call costs, for the lookups of a
cache-only run: while fewer of them than `Concurrency` hang, every other cell gets
its result. `CacheIndex`:
the background task goes on (`BacklogDrains`), which is the loop in `lib.rs`;
requests owe nothing. `ExecChild`: the steps of the call and its timeout are taken,
the processes of the child owe nothing. The other models have safety properties
alone and no fairness.

**Deadlock** is not checked: runs end, calls return and clocks stop at their
bound in all models.

## What the violated runs show

- `scoring_zero_weight`: with no threshold, a graded assert of weight 0 is
  skipped (the remaining weight is 0) although its failure would fail the case;
  the reference says the short circuit never changes a verdict.
- `tiers_race`: the existence check and the rename of `LocalDiskCache::put` are
  separate, so of two writers that both looked first, the last one wins; the
  comment and the guide say the first write does. At a site where every directory
  has one writing process and the server decides, the refinement of
  `ImmutableStore` holds (`tiers`, and `TiersAreImmutableCorrect`).
- `exec_timeout`: the request is written to the child before the timeout starts
  and before any output is read, so a child that does not read a request larger
  than the pipe keeps the call waiting for ever; the reference says the timeout
  is per request and the child is killed.
- `preflight`: the preflight is given the ids of the providers that form cells
  (`runner.rs:474`, `:706`), and an embeddings provider forms none, so the branch of
  `preflight::check` that is about it (`preflight.rs:227`) is dead and the key that
  a `similar` assert needs is found missing by the asserts of a run under way. The
  reference says that every credential the run will read is checked before the
  first call, and a comment that the embeddings provider is.

Further observations made while modelling, without a run of their own:

- the strict refusal of a miss sits inside the branch that has a key
  (`runner_cache.rs:315`), so a `--cache-only` run calls a provider without one;
  `CacheOnlyCorrect` therefore assumes that every provider is keyed;
- requests of judges and embeddings are keyed without the headers
  (`grader.rs:586`, `embeddings.rs:95`), while the caching page says headers are
  keyed; an older verdict or response is adopted whatever `request:` overlay or
  salt applies today (`cache_migrate.rs:186`, `runner_cache.rs:580`);
- a negated `contains-json` whose schema does not compile passes when the output
  has no JSON (`asserts.rs:307`);
- the probe budget is claimed once per old key shape, so a run looks for fewer
  cases than the constant's comment suggests (`cache_adopt.rs:62`);
- `merge_branch_runs` sets `truncated` only for a list longer than the lookback,
  and both callers cap the list first (`composite.rs:76`); if the newest run of a
  branch has no cases, it is the one a sweep protects, and the branch may lose
  its composite (`retention.rs:90`);
- a run without git metadata takes that of the checkout it is uploaded from, so
  uploads from two checkouts differ and the second is a conflict
  (`share.rs:257`); `ReshareCorrect` names the assumption that rules it out;
- an empty file, one with nothing but comments, and a key with nothing after it
  (`defaults:`) are null, and null replaces what was merged before it
  (`loader.rs:201`, `:211`): an empty fragment takes away the providers, tests and
  asserts of the base and of the fragments before it; `ImportsCompose` says exactly
  what is kept;
- an `assert:` that is one mapping, a `defaultTest:` that is a file, a `config`
  that is no mapping, a key of a provider's config without a counterpart and the
  `threshold` of an assertion whose kind takes none are dropped by the import
  without a note (`import.rs:515`, `:89`, `:188`), though `import.rs:3` and the CLI
  reference say nothing is silently dropped; `contains-any: []` becomes an
  expression that matches everything; a latency threshold is rounded up to a whole
  millisecond (`import.rs:689`). `ImportKeepsMeaning` is about the rest;
- a login reads the user's row, verifies the password on another thread and then
  issues the session without looking again (`accounts.rs:241`): one that began
  before an administrator reset the password gets a session after the sessions
  were revoked. `RevocationIsFinal` is about the sessions there were; one that is
  issued to a user who was disabled meanwhile is refused at every lookup, until
  the account is enabled again;
- a call to the remote cache has no timeout (`remote_http.rs:38`): a cell whose
  lookup hangs keeps its slot, and with as many of them as slots the run stops;
- the cases of a cache entry are paged with a cursor shaped for runs
  (`storage/cachelink.rs:61`); a cursor into the local cache whose key has left
  starts from the beginning (`localcache.rs:279`);
- an upload checks the access to the set and ingests in two transactions
  (`routes.rs`, `post_run`); `AccessIsHeld` says what that can lead to at most;
- validation refuses a repeated provider or prompt id but not a repeated test id
  (`loader_validate.rs:170`, `:216`), and two cases then have one key: the server
  keeps the first of them (`storage/runs.rs:510`), the diff compares with the last
  (`diff.rs:98`), so `RegressionsAreShared` is about runs without one;
- a result that names no call, in a round where another names one out of order,
  can share that one's id (`chat_wire.rs:67`);
- `cache show` skips a corrupt entry of the first tier, where a run reports an
  error (`cachels.rs:126`, `layered.rs:39`);
- a start that is refused for its proxies or providers has already written the
  bootstrap administrator (`lib.rs:353`);
- the clock skew of sign-ins has no upper limit (`sso/settings.rs:98`) while a
  consumed assertion without an expiry is remembered for a fixed hour
  (`saml.rs:28`): `LoginsHappenOnceCorrect` assumes that an assertion's delay and
  the skew are shorter than that, which holds below 58.5 minutes of skew.

## Proofs

All theorems are for any values of the constants that satisfy the named
assumptions of the modules, which TLC evaluates on every run.

- **`PacingProofs`** — `TypeCorrect`; `RateBoundCorrect`: the n-th request is
  sent no earlier than n−1 intervals after the start. The bound speaks of what
  was sent, while what advances is the reservation, so the inductive invariant
  relates requests sent, slots reserved but not used, and `next`: for every time
  t, the calls that hold a slot after t, together with those already sent, fit
  before `next`. `WireIsHonestCorrect`: `Honest` adds to the property where the
  promise of a Retry-After is kept while the call sleeps (`Paced`: its wake time
  is not before the window closes) and that the attempts counted are the requests
  sent, one ahead while a call waits for its slot. `NoProcessIsLeftCorrect`, of
  the exec provider's calls: `ExecInv` says that only living processes hold
  pipes, that what was written is collected or still in the pipe, and that the
  guard is armed until the output has ended.
- **`RunnerProofs`** — `TypeCorrect`, and five properties of the runner.
  - `BoundedLossCorrect`: after the abort flag is raised fewer than `Concurrency`
    provider calls begin, at most one in any cell. Nothing in the property stops
    a cell that has not called yet from calling twice; `LossInv` adds the set of
    cells that lost a call or still may. When the flag is raised they are cells
    in flight without the one that raised it, and no cell joins them afterwards.
    `CellStepShape` reduces the thirteen actions to the few facts needed.
  - `NoUngradedPassCorrect`: `GradedSoFar` says that while a case can still pass,
    verdicts given and asserts to do add up to the graded asserts, so an assert
    that is left out must have marked the case.
  - `NeverWorseCorrect`: `Walked` says that a cell on its chain lists exactly the
    links before its own, and what it is about to settle on came from that link;
    then every exit of `call_chain` reports the primary or its own link.
  - `ReplayMatchesStoreCorrect`: `Replayed` carries the claim for the outcome in
    hand and the primary's, from the lookup that read them to the report, across
    writes of other cells, which only add entries (`Grows`).
  - `CacheOnlyCorrect`: under `Providers \subseteq Keyed`, `Offline` says that a
    strict run reaches no call.
- **`ScoringProofs`** — `ShortCircuitSound`: with positive weights, the verdict
  after skipping is the verdict grading would have given. `ScoringInv` keeps the
  sums of both worlds within their bounds; `Settled` says that once skipped,
  every completion falls on the same side of the threshold. `0 \notin Weights` is
  an assumption, and `scoring_zero_weight` shows it is needed.
  `StoredVerdictsStandCorrect`: `StoreStands` adds that older keys are only read
  and that what a run filed may be filed (`MayFile`), so an adopted verdict can be
  traced to the store of before. `Sound` says that an exchange that began with an
  entry that serves finds it there still and, unless a read failed, is past its
  lookup only when it has that answer. Concurrent exchanges of one request hold
  different entries in hand; the first put decides and the others change nothing.
- **`CacheProofs`** — `ReadsAreWholeCorrect`: `Whole` says that every tier holds
  only what was offered under the key, that the temp file a process is about to
  rename is its own and complete, and what each process carries from step to
  step. `TiersAreImmutableCorrect`: the refinement of `ImmutableStore`, for
  any number of processes, directories and keys. Where writers have a directory
  each, `AllAlone` says that the path a writer found empty stays empty until its
  rename, since only removals and the writer's own renames touch it; so each step is a
  write of an empty key, a removal or a stutter (`TiersStep`). The mapping is
  constant at the other sites, where the claim is false (`tiers_race`).
- **`RunStoreProofs`** — `TypeCorrect`; `NothingDanglesCorrect`, from
  `PinsResolveCorrect` and `SearchAgreesCorrect`, inductive with the types;
  `ReshareCorrect`: under `PlaceDoesNotMatter` no upload of one's own run is
  refused. Its invariant says what the server holds is what the client would send
  now (`StoredIsSent`), which is why the URL must be left out of what is sent.
  `SweepIsSelectiveCorrect`, an action property: a sweep protects the newest
  members of a group, so a group survives if it has one. Finish times lie between
  zero and the clock (`FromThePast`), and a bounded set of numbers has a largest
  (`LargestOfBounded`, from the minimum principle of well-founded relations).
  `GateFindsItsBaselineCorrect`, in two halves. `CompositeIsNewestCorrect` needs
  nothing but types and that finitely many runs are stored: counting the runs that
  are newer gives each run of a branch a place of its own (`EveryPlaceIsTaken`), so
  that there is a list in the order of `ORDER BY` (`SortedIsInOrder`) and its first
  rows are the window; the walk of `merge_branch_runs` is a recursive function, and
  what it holds after each run (`Holds`) is shown by induction over the interval
  of its places (`IntervalInduction`). That the gate is not skipped rests on
  `GateInv`: while nobody deletes a run or moves the pin, the baseline the gate
  began with stands (`BaselineStands`), since a pinned run is protected by the pin
  and a branch keeps its newest run, which is not the gated one. The last
  clause is the assumption `UploadsKeepTheirBranch`: a run made without git
  metadata and uploaded from a checkout of the branch becomes the branch's newest,
  lets a sweep take the others and is then no baseline for itself, and the gate is
  skipped. `RunsHaveCases` is needed for the same reason: a newest run whose
  filters leave nothing is protected, and no baseline.
  `UpgradeIsFaithfulCorrect`, of `StoreUpgrade`: each pass reads what the ones
  before it filled, and may find it from another start. `CaseIsRight` says that a
  case whose document can be read never gets the mark of one that cannot, and that
  each of its columns is open or what the document says; for a case nobody can
  read any more but an older build could, the answerer is the exception, and only
  once its run is counted. `RunIsRight` says that a count is open, true, or given
  up with the body; the counts taken over rows are true because they ask for rows
  none of which is marked (`RowsCountEmpty`, `RowsCountFallback`). `PassesLeave`
  says what is filled from which pass on. `MoveIsWholeCorrect`, over the same
  initial states: `LockInv` says that whoever migrates holds the lock alone and
  knows the length of the ledger, so that no migration is tried twice; `IdsAreOwn`
  that every entry has an id nobody else has and that a text under it is its
  text, however the server's inserts and the copy's interleave (`NewIds`); and
  `CopyInv` that the tables before the current one are whole and of the current
  one all but the rows still to copy. The assumptions type the constants; that
  no field of a document is the text `"null"` keeps the column's NULL apart from
  the model's texts.
- **`AccountsProofs`** — `AccountsTypeCorrect`; `AdminRemainsCorrect`, an action
  property: each write that could take the last administrator counts the others
  in the same transaction, whatever the request had read of the row before. `RevocationIsFinalCorrect`:
  that an ended token is refused is not inductive, since the row of a disabled
  user's session is refused too and would be admitted again once the account is
  enabled; `Owned` says that an ended session has no row, and that every session
  and key has an owner. `Shrinks` is what the revoking transactions do to them, and
  `AccountsInv` adds what requests under way carry (`RequestsOK`).
  `LadderHoldsCorrect`: the table and its history that nothing was pruned from
  are never equal for long, so `Alike` says what two rows must have in common for
  the same answers from now on: nothing when what they remember is over, or the
  same count with a lock and a chain of locks that are the same or over in both.
  Time keeps it, counting keeps it, and a row that may be pruned has a twin that
  may be. `Reserved` bounds the verifications by what the row has counted.
  `LoginsHappenOnceCorrect`: a transaction moves on from its
  row to one callback to one login (`TxnsMoveOn`). For assertions the row that
  remembers a use may be collected, so `UsedAreRemembered` says that it lasts as
  long as the assertion can be accepted, and `ChecksAreSound` carries the expiry
  that a callback computed when it checked to the moment it marks.
- **`AccessProofs`** — `AccessIsHeldCorrect`: the check of a request and the
  statement that relies on it are separate transactions, so what was true at the
  check may be false when the row is read or written. `ClientOK` says that all
  a caller may do now is among what it could do since its request began (`Has`),
  whatever administrators change, and `Relies` what each handler carries from its
  check to the statement that checks nothing: the run read by id was shown, the
  set written to was one the caller could upload to or manage. The assumption,
  that a set is a pair of names, is how `runsets.rs` stores it.

- **`GateProofs`** — `ExitIsHonestCorrect`: the exit code is true for any number
  of processes over one directory and any server, though what a process is
  compared with is looked up while the others write. `GateInv` says of what can
  be found that it was made: a run that is not finished is in no file and was not
  uploaded (`OnlySettledAreSeen`), so nothing that was read can change later. A
  process holds a base of other runs of its suite, and its flag is what the diff
  says of that base and of what it made (`Compares`, over `GoodBase`, which holds
  of every way to resolve a reference: `Resolved`); and it holds what was decided
  on the way, such as that a run without cases was allowed and that a second write
  only follows an upload (`Knows`). `LadderSays` is the case distinction over the
  exit codes; under it are lemmas on the counts of a summary, the faults of errored
  cases and the deltas (`SummaryCounts`, `NothingAnswered`, `Faults`,
  `Regressions`), and that the merge of a branch keeps one case of a key
  (`Merging`). `RegressionsAreSharedCorrect` compares the CLI's and the server's
  rules on every two lists of cases without a repeated key; it also uses that
  McNemar's test needs a pair that moved. `RunsAssumption` types the constants.
  `NewIdsAssumption` says that the id of a new run is no other run's and is not
  named by its own options; a run generates its id at random (`runner.rs:832`).

**Only model-checked.** Liveness (`EveryCallIsAnswered`,
`HungCallsCostTheirSlots`, `BacklogDrains`, and the violated `EveryExecCallEnds`), since the
provers have no rules for fairness. `PagesAreExact`,
`BrowserIsExact`, `RoomIsMadeFairly` and `CommandsAreExact` speak
of folds, filtered sequences and sorted sequences, whose facts are inductions over
data. `ReplayIsOwn`, `RepliesAreRead`, `ResultsAnswerTheirCalls`,
`ImportKeepsMeaning`, `GradedAsAsked`, `ImportsCompose`, `PlanIsSound`,
and `CallersAreKnown` compare what sequential code computes with
a reference definition on enumerated inputs, mostly through recursion or folds; so
does `ValuesAreKept`, the third part of `DatabaseIsKept`, whose other two parts are
theorems.

## Not modelled

Templates and variables: text substitution without state, whose failure is an
input of `Runner`. The rendering of reports, diffs and case details in the CLI,
the web UI, CI actions and the plugin: formatting, and clients of the modelled
operations. Aggregates over stored runs (series of a case, health of a project):
SELECTs without effects. Digests, provenance and drift warnings: descriptive
data. SQL text, connection pools and drivers; what the models use is that a write
is one serialised transaction. Extraction of parameters and encoding of answers.
Signatures and protocol messages of single sign-on: the provider library's.

## What is left

1. What `gc` and `clear` take and leave, the part of `CommandsAreExact` without
   sequences, for any cache.
2. A least counterexample stands in for induction where the claim is first-order,
   as in `LargestOfBounded`, `LastOfKey` and `IntervalInduction`: the rows of a page
   (`PagesAreExact`) are next.
3. The server's counterpart of a gate that is refused a baseline: `RunGate` lets
   the server answer anything that fits, `BranchBaseline` models the answer, and
   the two are not composed.
