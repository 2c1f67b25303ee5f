------------------------------ MODULE SuitePlan ------------------------------
(***************************************************************************)
(* From a loaded suite to the cells of a run: what run_with_progress does  *)
(* before the first call (runner.rs), with the expansion of test sources   *)
(* (resolve.rs, matrix.rs, generate.rs, filevars.rs), the filters          *)
(* (filter.rs), the building of providers (provider_factory.rs), the       *)
(* diagnosis of an empty run (empty_run.rs) and the check of credentials   *)
(* (preflight.rs).  A glob over ids is the set of ids it matches; a        *)
(* reference to a file is what reading it would give.                      *)
(***************************************************************************)
EXTENDS SuiteFiles

CONSTANTS PlannedSuites,       \* the suites considered
          Options,      \* the options of a run considered
          Generated     \* what a generator may answer: its exit and its cases

ASSUME SuitePlanAssumption == \A s \in PlannedSuites : IsSuite(s)

VARIABLES suite, opts,
          stage,        \* "validate", "check", "expand", "generate", "cells", "run" or "refused"
          refusal,      \* why the run did not start
          pool,         \* ids of the providers that were built
          tests,        \* the cases, expanded
          generators,      \* generators still to be run
          cells

planVars == <<suite, opts, stage, refusal, pool, tests, generators, cells>>

Refuse(kind, reason) == /\ stage' = "refused"
                        /\ refusal' = [kind |-> kind, reason |-> reason]

(* RunError::is_config_error *)
is_config_error(r) == r.kind \in {"factory", "resolve", "nothing", "credentials", "bad tests"}

-----------------------------------------------------------------------------
(* Filter.  An empty list of tags, providers or prompts restricts nothing. *)
matches_test(o, tc) ==
    /\ o.tags = {} \/ o.tags \cap tc.tags # {}
    /\ \A i \in DOMAIN o.filters : tc.id \in o.filters[i]

test_allows_provider(id, tc) ==
    /\ tc.only # {} => id \in tc.only
    /\ id \notin tc.skip

provider_included(o, id, tc) ==
    /\ o.providers # {} => id \in o.providers
    /\ test_allows_provider(id, tc)

prompt_included(o, id) == o.prompts = {} \/ id \in o.prompts

-----------------------------------------------------------------------------
(* expand_matrix: one case per combination of axis values, in axis order,  *)
(* its id extended by the combination.                                     *)
Combos(axes) ==
    FoldLeft(LAMBDA combos, axis :
                FlattenSeq([i \in DOMAIN combos |-> [j \in DOMAIN axis |-> Append(combos[i], axis[j])]]),
             << <<>> >>, axes)

default_matrix_id(base, combo) == base \o combo

expand_matrix(tc) ==
    IF tc.matrix = <<>> THEN <<tc>>
    ELSE LET combos == Combos(tc.matrix) IN
         [i \in DOMAIN combos |-> [tc EXCEPT !.matrix = <<>>, !.id = default_matrix_id(@, combos[i])]]

EmptyAxis(tc) == \E i \in DOMAIN tc.matrix : tc.matrix[i] = <<>>

(* ensure_id: a case without an id takes its source and its place.         *)
ensure_id(tc, stem, i) == IF tc.id = <<>> THEN [tc EXCEPT !.id = <<stem, ToString(i)>>] ELSE tc

(* load_glob: the cases of the files a pattern matches, in file order.     *)
load_glob(src) ==
    FlattenSeq([f \in DOMAIN src.files |->
                   [i \in DOMAIN src.files[f].cases |-> ensure_id(src.files[f].cases[i], src.files[f].stem, i)]])

(* A pattern that is no file URL or leaves the suite's directory, and a    *)
(* file that cannot be read or parsed, end the expansion.                  *)
GlobFails(src) == src.spec # "inside" \/ \E f \in DOMAIN src.files : ~ src.files[f].parses

CasesOf(s, i) ==
    CASE s.tests[i].src = "inline" -> <<ensure_id(s.tests[i].case, "inline", i)>>
      [] s.tests[i].src = "glob" -> load_glob(s.tests[i])
      [] s.tests[i].src = "generator" -> <<>>

(* merge_defaults: default asserts come first; tags, history and values    *)
(* are added where the case has none.                                      *)
merge_defaults(tc, d) ==
    [tc EXCEPT !.asserts = d.asserts \o @, !.tags = @ \cup d.tags,
               !.history = IF @ = <<>> THEN d.history ELSE @, !.refs = @ \cup d.refs]

(* resolve_file_vars, resolve_assert_file_vals and resolve_digest_salts    *)
(* read files inside of the suite's directory or fail (load_file_var).     *)
RefFails(ref) == ref \in {"missing", "outside"}
RefsFail(ts) == \E i \in DOMAIN ts : \E ref \in ts[i].refs : RefFails(ref)

-----------------------------------------------------------------------------
(* EmptyRun::check_provider_filter: a requested id that is unknown, that   *)
(* is only a fallback, or that is an embeddings provider.                  *)
ProvidersOf(s, id) == {s.providers[i] : i \in {j \in DOMAIN s.providers : s.providers[j].id = id}}

check_provider_filter(s, requested) ==
    LET Named(id) == ProvidersOf(s, id)
        OnlyFallback(id) == \E p \in Named(id) : p.fallback_only
        Embeds(id) == \E p \in Named(id) : p.kind = "embeddings"
    IN CASE \E id \in requested : Named(id) = {} -> <<"NoProvidersSelected">>
         [] /\ \A id \in requested : Named(id) # {}
            /\ \E id \in requested : OnlyFallback(id) -> <<"FallbackOnlyExcluded">>
         [] /\ \A id \in requested : Named(id) # {} /\ ~ OnlyFallback(id)
            /\ \E id \in requested : Embeds(id) -> <<"EmbeddingsSelected">>
         [] OTHER -> <<>>

(* EmptyRun::no_providers *)
no_providers(s, requested) ==
    IF /\ requested = {}
       /\ \E i \in DOMAIN s.providers : s.providers[i].kind # "embeddings" /\ s.providers[i].fallback_only
       /\ \A i \in DOMAIN s.providers : ~ forms_cells(s.providers[i])
    THEN "FallbackOnlyExcluded" ELSE "NoProvidersSelected"

Selected(s, o) == SelectSeq(s.providers, LAMBDA p : forms_cells(p) /\ (o.providers = {} \/ p.id \in o.providers))

(* build_provider_with_timeout: a header that does not render or a digest  *)
(* without files; an embeddings provider is never built here.              *)
build_provider(p) == p.builds /\ p.kind # "embeddings"

(* The providers named by a selected one's chain, built outside of the     *)
(* matrix; one that cannot be built is left out.                           *)
FallbackPool(s, o) ==
    LET sel == Selected(s, o)
        chosen == {sel[i].id : i \in DOMAIN sel}
        wanted == (UNION {ToSet(sel[i].fallback) : i \in DOMAIN sel}) \ chosen
    IN {s.providers[i].id : i \in {j \in DOMAIN s.providers :
                                     s.providers[j].id \in wanted /\ build_provider(s.providers[j])}}

(* resolve_chain: each link once, without the primary, what the test       *)
(* excludes and what was not built.                                        *)
resolve_chain_with_repeats(primary, ids, built, tc) ==
    SelectSeq(ids, LAMBDA id : id # primary /\ test_allows_provider(id, tc) /\ id \in built)

resolve_chain(primary, ids, built, tc) ==
    LET once == FoldLeft(LAMBDA seen, id : IF Contains(seen, id) THEN seen ELSE Append(seen, id), <<>>, ids)
    IN SelectSeq(once, LAMBDA id : id # primary /\ test_allows_provider(id, tc) /\ id \in built)

PromptSlots(s) == IF s.prompts = <<>> THEN <<"none">> ELSE [i \in DOMAIN s.prompts |-> s.prompts[i].id]

(* The cells of one provider under one prompt slot: every test the filters *)
(* and the test itself leave to the provider, `repeat` times.              *)
CellsOf(s, o, ts, built, p, prompt) ==
    IF prompt # "none" /\ ~ prompt_included(o, prompt) THEN <<>>
    ELSE FlattenSeq([t \in DOMAIN ts |->
            IF matches_test(o, ts[t]) /\ provider_included(o, p.id, ts[t])
            THEN [r \in 1..o.repeat |->
                     [provider |-> p.id, prompt |-> prompt, test |-> ts[t], repeat |-> r - 1,
                      chain |-> resolve_chain(p.id, p.fallback, built, ts[t])]]
            ELSE <<>>])

FormCells(s, o, ts, built) ==
    LET sel == Selected(s, o)
        slots == PromptSlots(s)
    IN FlattenSeq(FlattenSeq([i \in DOMAIN sel |-> [j \in DOMAIN slots |-> CellsOf(s, o, ts, built, sel[i], slots[j])]]))

-----------------------------------------------------------------------------
(* preflight.  A credential: how it is presented, what the environment     *)
(* holds for it, and whether the request goes to the vendor's own host.    *)
default_env_for(c) == c.kind \in VendorKinds /\ c.auth # "none"

(* check_shape: an OAuth token presented to the vendor as an API key.      *)
check_shape(c) == c.kind = "anthropic" /\ c.value = "oauth" /\ c.auth = "api_key" /\ c.host = "vendor"

CredentialFails(c) == default_env_for(c) /\ (c.value = "unset" \/ check_shape(c))

any_assert(ts) == UNION {ToSet(ts[i].asserts) : i \in DOMAIN ts}

(* The credentials `check` reads: those of the selected providers, an      *)
(* embeddings provider's when a `similar` assert is left, the suite's      *)
(* grader when a rubric without its own is left, and each rubric's own.    *)
CheckedCredentialsShared(s, selected, ts) ==
       {s.providers[i] : i \in {j \in DOMAIN s.providers : s.providers[j].id \in selected}}
       \cup (IF \E a \in any_assert(ts) : a.kind = "llm-rubric" THEN ToSet(s.grader) ELSE {})

CheckedCredentials(s, selected, ts) ==
       {s.providers[i] : i \in {j \in DOMAIN s.providers :
                                  /\ s.providers[j].id \in selected
                                  /\ s.providers[j].kind = "embeddings" => \E a \in any_assert(ts) : a.kind = "similar"}}
       \cup (IF \E a \in any_assert(ts) : a.kind = "llm-rubric" /\ a.grader = <<>> THEN ToSet(s.grader) ELSE {})
       \cup UNION {ToSet(a.grader) : a \in {b \in any_assert(ts) : b.kind = "llm-rubric"}}

check(s, selected, ts) == {c \in CheckedCredentials(s, selected, ts) : CredentialFails(c)}

-----------------------------------------------------------------------------
(* A suite reaches the runner when it has no validation error (execute).   *)
PlanInit ==
    /\ suite \in PlannedSuites /\ opts \in Options
    /\ stage = "validate" /\ refusal = [kind |-> "none", reason |-> "none"]
    /\ pool = {} /\ tests = <<>> /\ generators = <<>> /\ cells = <<>>

Validate ==
    /\ stage = "validate"
    /\ \/ has_errors(validate(suite)) /\ Refuse("validation", "errors")
       \/ ~ has_errors(validate(suite)) /\ stage' = "check" /\ UNCHANGED refusal
    /\ UNCHANGED <<suite, opts, pool, tests, generators, cells>>

(* The runner's own checks, for callers that did not validate, then the    *)
(* provider filter and the building of providers.                          *)
CheckAndBuild ==
    /\ stage = "check"
    /\ LET sel == Selected(suite, opts)
           diagnosis == check_provider_filter(suite, opts.providers)
           runnable == /\ opts.globs_compile
                       /\ \A i \in DOMAIN suite.providers : ~ Repeated(suite.providers, i)
                       /\ check_runner_limits(suite) = {}
       IN \/ /\ ~ runnable
             /\ Refuse("resolve", "suite") /\ UNCHANGED <<pool, generators>>
          \/ /\ runnable /\ diagnosis # <<>>
             /\ Refuse("nothing", diagnosis[1]) /\ UNCHANGED <<pool, generators>>
          \/ /\ runnable /\ diagnosis = <<>> /\ \E i \in DOMAIN sel : ~ build_provider(sel[i])
             /\ Refuse("factory", "provider") /\ UNCHANGED <<pool, generators>>
          \/ /\ runnable /\ diagnosis = <<>> /\ \A i \in DOMAIN sel : build_provider(sel[i])
             /\ pool' = {sel[i].id : i \in DOMAIN sel} \cup FallbackPool(suite, opts)
             /\ generators' = SelectSeq([i \in DOMAIN suite.tests |-> suite.tests[i].src], LAMBDA x : x = "generator")
             /\ stage' = "expand" /\ UNCHANGED refusal
    /\ UNCHANGED <<suite, opts, tests, cells>>

(* expand_tests: sources in order, then sweeps, defaults and references.   *)
ExpandTests ==
    /\ stage = "expand"
    /\ LET sources == FlattenSeq([i \in DOMAIN suite.tests |-> CasesOf(suite, i)])
           swept == FlattenSeq([i \in DOMAIN sources |-> expand_matrix(sources[i])])
           merged == [i \in DOMAIN swept |-> merge_defaults(swept[i], suite.defaults)]
           fails == \/ \E i \in DOMAIN suite.tests : suite.tests[i].src = "glob" /\ GlobFails(suite.tests[i])
                    \/ \E i \in DOMAIN sources : EmptyAxis(sources[i])
                    \/ RefsFail(merged)
       IN \/ fails /\ Refuse("resolve", "tests") /\ UNCHANGED tests
          \/ ~ fails /\ tests' = merged /\ stage' = "generate" /\ UNCHANGED refusal
    /\ UNCHANGED <<suite, opts, pool, generators, cells>>

(* run_one, then what expand_tests did for the other cases; a sweep is not *)
(* expanded for a generated case.                                          *)
RunGenerator ==
    /\ stage = "generate" /\ generators # <<>>
    /\ generators' = Tail(generators)
    /\ \E g \in Generated :
          LET given == [i \in DOMAIN g.cases |-> merge_defaults(ensure_id(g.cases[i], "generated", i), suite.defaults)]
          IN \/ g.exit = "failed" /\ Refuse("generate", "exec") /\ UNCHANGED tests
             \/ g.exit = "bad tests" /\ Refuse("bad tests", "generator") /\ UNCHANGED tests
             \/ g.exit = "ok" /\ RefsFail(given) /\ Refuse("resolve", "tests") /\ UNCHANGED tests
             \/ g.exit = "ok" /\ ~ RefsFail(given) /\ tests' = tests \o given /\ UNCHANGED <<stage, refusal>>
    /\ UNCHANGED <<suite, opts, pool, cells>>

(* Why nothing would run: no sources, empty sources, or, with tests, the   *)
(* first of no provider, no prompt slot, and the filters.                  *)
NoTests(s) == IF s.tests = <<>> THEN "NoTestSources" ELSE "SourcesProducedNothing"

NoCells(s, o) ==
    CASE Selected(s, o) = <<>> -> no_providers(s, o.providers)
      [] Selected(s, o) # <<>> /\ s.prompts # <<>>
         /\ SelectSeq(PromptSlots(s), LAMBDA p : p # "none") = <<>> -> "NoPromptsSelected"
      [] OTHER -> "FilteredOut"

(* The matrix, the two diagnoses of an empty run, and the credentials of   *)
(* what is left unless the run only replays.                               *)
PlanCells ==
    /\ stage = "generate" /\ generators = <<>>
    /\ LET formed == FormCells(suite, opts, tests, pool)
           selected == {Selected(suite, opts)[i].id : i \in DOMAIN Selected(suite, opts)}
           left == SelectSeq(tests, LAMBDA t : matches_test(opts, t))
           unchecked == formed = <<>> \/ opts.strict
           issues == check(suite, selected, left)
       IN \/ /\ tests = <<>> /\ ~ opts.allow_empty
             /\ Refuse("nothing", NoTests(suite)) /\ UNCHANGED cells
          \/ /\ tests # <<>> /\ formed = <<>> /\ ~ opts.allow_empty
             /\ Refuse("nothing", NoCells(suite, opts)) /\ UNCHANGED cells
          \/ /\ ~ unchecked /\ issues # {}
             /\ Refuse("credentials", "preflight") /\ UNCHANGED cells
          \/ /\ formed # <<>> \/ opts.allow_empty
             /\ unchecked \/ issues = {}
             /\ cells' = formed /\ stage' = "run" /\ UNCHANGED refusal
    /\ UNCHANGED <<suite, opts, pool, tests, generators>>

PlanNext == Validate \/ CheckAndBuild \/ ExpandTests \/ RunGenerator \/ PlanCells

-----------------------------------------------------------------------------
CellKey(c) == <<c.provider, c.prompt, c.test.id, c.repeat>>

(* The cells are exactly the combinations a reader of the suite would      *)
(* count: a provider that is a system under test, a prompt, a test and a   *)
(* repetition that no filter and no test excludes, each once when the ids  *)
(* of the tests differ; and each chain has distinct links that were built, *)
(* that the test allows and that are not the cell's provider.              *)
CellsAreTheMatrix ==
    stage = "run" =>
        /\ {CellKey(cells[i]) : i \in DOMAIN cells} =
              {<<p, q, t, r>> \in {suite.providers[i].id : i \in DOMAIN suite.providers}
                                   \X ToSet(PromptSlots(suite)) \X {tests[i].id : i \in DOMAIN tests}
                                   \X (0..(opts.repeat - 1)) :
                  /\ \E i \in DOMAIN suite.providers : suite.providers[i].id = p /\ forms_cells(suite.providers[i])
                  /\ opts.providers # {} => p \in opts.providers
                  /\ opts.prompts # {} /\ suite.prompts # <<>> => q \in opts.prompts
                  /\ \E i \in DOMAIN tests : tests[i].id = t /\ matches_test(opts, tests[i])
                                               /\ test_allows_provider(p, tests[i])}
        /\ (\A i, j \in DOMAIN tests : i # j => tests[i].id # tests[j].id) =>
              \A i, j \in DOMAIN cells : i # j => CellKey(cells[i]) # CellKey(cells[j])
        /\ \A i \in DOMAIN cells :
              LET chain == cells[i].chain IN
              /\ \A j \in DOMAIN chain :
                    /\ chain[j] # cells[i].provider /\ chain[j] \in pool
                    /\ test_allows_provider(chain[j], cells[i].test)
                    /\ \A k \in DOMAIN chain : k # j => chain[k] # chain[j]

(* Providers that a run with these cells calls with a credential, the      *)
(* links of chains apart (they are best effort): those of the cells, and   *)
(* the first embeddings provider that can be built (build_embeddings),     *)
(* which a `similar` assert of a cell asks.                                *)
ProvidersRead == {suite.providers[i] : i \in {j \in DOMAIN suite.providers :
                     \E c \in DOMAIN cells : cells[c].provider = suite.providers[j].id}}

EmbeddingsRead ==
    LET usable == {j \in DOMAIN suite.providers : suite.providers[j].kind = "embeddings" /\ suite.providers[j].builds}
        asked == \E c \in DOMAIN cells : \E a \in DOMAIN cells[c].test.asserts : cells[c].test.asserts[a].kind = "similar"
    IN IF asked /\ usable # {} THEN {suite.providers[CHOOSE j \in usable : \A k \in usable : j <= k]} ELSE {}

(* The judges that the rubrics of the cells ask: the one an assert names,  *)
(* or else the suite's.                                                    *)
JudgesRead ==
    UNION {UNION {LET a == cells[c].test.asserts[k] IN
                  IF a.kind # "llm-rubric" THEN {} ELSE IF a.grader = <<>> THEN ToSet(suite.grader) ELSE ToSet(a.grader) :
                  k \in DOMAIN cells[c].test.asserts} : c \in DOMAIN cells}

(* When the cells begin, no credential is missing of the providers that    *)
(* form cells and of the judges (run_with_progress, preflight::check).     *)
(* The embeddings provider is not among them: `selected` leaves it out, so *)
(* that the branch of `check` that is about it is never taken.             *)
NoCallWithoutCredential ==
    stage = "run" /\ ~ opts.strict => \A c \in JudgesRead \cup ProvidersRead : ~ CredentialFails(c)

(* What a run is going to do is what the suite says: the cells are the     *)
(* matrix, and none of them finds the credential of its provider or of a   *)
(* judge missing after the preflight.  Of the credential of an embeddings  *)
(* provider, which the preflight passes over, nothing is said.             *)
PlanIsSound == CellsAreTheMatrix /\ NoCallWithoutCredential

(* "Before the first call, domarinn checks that every credential the run   *)
(* will actually read resolves to a non-empty value" (docs/reference/      *)
(* providers.md): also that of the embeddings provider, of which           *)
(* preflight.rs says that it is "checked separately above".                *)
EveryCredentialIsChecked ==
    stage = "run" /\ ~ opts.strict =>
        \A c \in JudgesRead \cup ProvidersRead \cup EmbeddingsRead : ~ CredentialFails(c)
=============================================================================
