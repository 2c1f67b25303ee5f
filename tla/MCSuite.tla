------------------------------- MODULE MCSuite -------------------------------
(***************************************************************************)
(* What `domarinn run` does around the calls of a run, as parts side by    *)
(* side: a behaviour loads a suite from its files, or plans the cells of   *)
(* one that is loaded, or scores a case, or grades cases over a store, or  *)
(* stores, compares and shares the results of two processes.  The parts    *)
(* share no state; part says which.                                        *)
(***************************************************************************)
EXTENDS SuiteFiles, SuitePlan, Scoring, GraderExchange, RunGate

VARIABLE part

-----------------------------------------------------------------------------
\* Files: two that may import each other and a third; every shape of tree,
\* diamond and cycle over them occurs, with null documents and keys.
Asserts(list) == [is |-> "mapping", assert |-> [is |-> "list", items |-> list]]
NullDefaults == [NoDefaults EXCEPT !.is = "null"]
NullAsserts == [NoDefaults EXCEPT !.is = "mapping", !.assert.is = "null"]
Doc(a, b, d) == [is |-> "mapping", set |-> [k \in Fields |-> IF k = "name" THEN a ELSE b], defaults |-> d]
NoDocument(why) == [is |-> why, extends |-> NoText, imports |-> <<>>, doc |-> NullDoc]
Holding(e, i, d) == [is |-> "document", extends |-> e, imports |-> i, doc |-> d]

AFewContents ==
    {NoDocument("missing"), NoDocument("unparsable"), NoDocument("document")}
    \cup {Holding(e, i, d) :
             e \in {NoText, "base.yaml"},
             i \in {<<>>, <<"part.yaml">>, <<"base.yaml", "part.yaml">>, <<"suite.yaml">>},
             d \in {Doc(NoText, "${env:V}", NoDefaults), Doc("y", "${env:V:-default}", Asserts(<<"b">>))}}
    \cup {Holding(e, <<"part.yaml">>, Doc("x", NoText, NullDefaults)) : e \in {NoText, "base.yaml"}}
    \cup {Holding(NoText, <<>>, Doc("x", NoText, d)) : d \in {Asserts(<<"a">>), NullDefaults, NullAsserts}}

-----------------------------------------------------------------------------
\* Suites: one that runs, and one variation for each thing the planning reads.
P(id, kind) == [id |-> id, kind |-> kind, keys |-> {"id", "type"}, path |-> "none", fallback_only |-> FALSE,
                fallback |-> <<>>, builds |-> TRUE, auth |-> "api_key", value |-> "key", host |-> "vendor"]
Judge == [kind |-> "openai", keys |-> {"type", "model"}, verdict_mode |-> <<>>, auth |-> "bearer", value |-> "key", host |-> "vendor"]
A(kind) == [kind |-> kind, keys |-> {"type", IF kind = "exec" THEN "command" ELSE "value"}, grader |-> <<>>]
Rubric(g) == [kind |-> "llm-rubric", keys |-> {"type", "value"}, grader |-> g]
Turn(role) == [role |-> role, content |-> "text", calls |-> FALSE, answers |-> FALSE]
Case(id) == [id |-> id, tags |-> {}, asserts |-> <<A("equals")>>, history |-> <<>>, only |-> {}, skip |-> {},
             expect_fail |-> <<>>, matrix |-> <<>>, refs |-> {}]
InlineTest(c) == [src |-> "inline", case |-> c]
GlobTest(spec, files) == [src |-> "glob", spec |-> spec, files |-> files]
File(parses, cases) == [stem |-> "f", parses |-> parses, cases |-> cases]
Prompt(id) == [id |-> id, template |-> TRUE, messages |-> <<>>]
Chat(id, turns) == [id |-> id, template |-> FALSE, messages |-> <<turns>>]

Plain == [version |-> 1, providers |-> <<P("p", "anthropic"), P("q", "http")>>,
          prompts |-> <<Prompt("a"), Prompt("b")>>,
          tests |-> <<InlineTest([Case(<<"t">>) EXCEPT !.tags = {"x"}]), InlineTest([Case(<<>>) EXCEPT !.skip = {"q"}])>>,
          defaults |-> [asserts |-> <<>>, history |-> <<>>, tags |-> {}, refs |-> {}],
          runner |-> [rps |-> <<>>, timeout_ms |-> <<>>, patterns_compile |-> TRUE],
          grader |-> <<>>]

WithProviders(ps) == [Plain EXCEPT !.providers = ps]
WithCases(cs) == [Plain EXCEPT !.tests = [i \in DOMAIN cs |-> InlineTest(cs[i])]]
WithTests(ts) == [Plain EXCEPT !.tests = ts]
FallsBackTo(chain) == [P("p", "openai") EXCEPT !.fallback = chain]
Reserve(id) == [P(id, "exec") EXCEPT !.fallback_only = TRUE]
Unset(p) == [p EXCEPT !.value = "unset"]

ProviderSuites ==
    {WithProviders(ps) : ps \in
        {<<>>, <<P("p", "openai"), P("p", "exec")>>, <<[P("p", "openai") EXCEPT !.path = "relative"]>>,
         <<[P("p", "openai") EXCEPT !.keys = {"id", "typo"}]>>, <<[P("p", "openai") EXCEPT !.builds = FALSE]>>,
         <<FallsBackTo(<<"q", "p">>), P("q", "exec")>>, <<FallsBackTo(<<"q">>)>>,
         <<FallsBackTo(<<"q", "r", "q">>), P("q", "http"), Reserve("r")>>,
         <<FallsBackTo(<<"r", "q">>), [P("q", "http") EXCEPT !.fallback = <<"r">>], Reserve("r")>>,
         <<FallsBackTo(<<"q">>), [Reserve("q") EXCEPT !.builds = FALSE]>>,
         <<FallsBackTo(<<"e">>), P("e", "embeddings")>>, <<Reserve("r")>>, <<P("p", "http"), Reserve("r")>>,
         <<P("p", "http"), P("e", "embeddings")>>, <<[P("e", "embeddings") EXCEPT !.fallback_only = TRUE]>>,
         <<P("e", "embeddings")>>, <<[P("e", "embeddings") EXCEPT !.fallback = <<"e">>]>>,
         <<Unset(P("p", "anthropic"))>>, <<[Unset(P("p", "anthropic")) EXCEPT !.auth = "none"]>>,
         <<[P("p", "anthropic") EXCEPT !.value = "oauth"]>>,
         <<[P("p", "anthropic") EXCEPT !.value = "oauth", !.host = "proxy"]>>}}

RuleSuites ==
    {[Plain EXCEPT !.version = 2], [Plain EXCEPT !.runner.rps = <<0>>], [Plain EXCEPT !.runner.rps = <<3>>],
     [Plain EXCEPT !.runner.timeout_ms = <<0>>], [Plain EXCEPT !.runner.patterns_compile = FALSE],
     [Plain EXCEPT !.grader = <<[Judge EXCEPT !.verdict_mode = <<"auto">>]>>], [Plain EXCEPT !.grader = <<[Judge EXCEPT !.keys = {"typo"}]>>],
     [Plain EXCEPT !.prompts = <<>>], [Plain EXCEPT !.prompts = <<Prompt("a"), Prompt("a")>>],
     [Plain EXCEPT !.prompts = <<[Prompt("a") EXCEPT !.template = FALSE]>>],
     [Plain EXCEPT !.prompts = <<Chat("a", <<>>)>>],
     [Plain EXCEPT !.prompts = <<Chat("a", <<Turn("system"), Turn("history"), Turn("history")>>)>>],
     [Plain EXCEPT !.prompts = <<Chat("a", <<Turn("user"), Turn("history"), [Turn("user") EXCEPT !.calls = TRUE]>>)>>],
     [Plain EXCEPT !.prompts = <<Chat("a", <<Turn("user"), Turn("history")>>)>>, !.defaults.history = <<<<Turn("tool")>>>>],
     [Plain EXCEPT !.defaults = [asserts |-> <<A("exec")>>, history |-> <<<<Turn("assistant")>>>>, tags |-> {"y"}, refs |-> {"found"}]],
     [Plain EXCEPT !.defaults.refs = {"missing"}]}

Embeds(value) == [P("e", "embeddings") EXCEPT !.value = value]
Rubrics == <<[Case(<<"t">>) EXCEPT !.asserts = <<Rubric(<<>>), Rubric(<<Judge>>)>>]>>
CaseSuites ==
    {WithCases(cs) : cs \in
        {<<[Case(<<"t">>) EXCEPT !.matrix = <<<<"1", "2">>, <<"u", "v">>>>], Case(<<"t">>)>>,
         <<[Case(<<"t">>) EXCEPT !.matrix = <<<<"1">>, <<>>>>]>>,
         <<[Case(<<"t">>) EXCEPT !.refs = {"outside"}]>>, <<[Case(<<"t">>) EXCEPT !.expect_fail = <<"known">>, !.asserts = <<>>]>>,
         <<[Case(<<"t">>) EXCEPT !.only = {"q"}, !.history = <<<<[Turn("user") EXCEPT !.content = "none"]>>>>]>>,
         <<[Case(<<"t">>) EXCEPT !.only = {"q"}, !.history = <<<<[Turn("user") EXCEPT !.content = "blank"]>>>>]>>,
         <<[Case(<<"t">>) EXCEPT !.asserts = <<Rubric(<<[Judge EXCEPT !.verdict_mode = <<"auto">>]>>)>>]>>,
         <<Case(<<"t">>), Case(<<"t">>)>>, Rubrics,
         <<[Case(<<"t">>) EXCEPT !.asserts = <<Rubric(<<Unset(Judge)>>)>>]>>}}
    \cup {[WithCases(Rubrics) EXCEPT !.grader = <<j>>] : j \in {Judge, Unset(Judge)}}
    \cup {[WithCases(<<[Case(<<"t">>) EXCEPT !.asserts = <<A("similar")>>]>>) EXCEPT
             !.providers = <<P("p", "http"), Embeds(value)>>] : value \in {"key", "unset"}}

SourceSuites ==
    {WithTests(ts) : ts \in
        {<<>>, <<GlobTest("inside", <<>>)>>, <<GlobTest("outside", <<>>)>>, <<GlobTest("inside", <<File(FALSE, <<>>)>>)>>,
         <<GlobTest("inside", <<File(TRUE, <<Case(<<>>), [Case(<<"t">>) EXCEPT !.tags = {"x"}]>>), File(TRUE, <<Case(<<"u">>)>>)>>),
           [src |-> "generator"]>>,
         <<[src |-> "generator"], [src |-> "generator"]>>}}

AFewSuites == {Plain} \cup ProviderSuites \cup RuleSuites \cup CaseSuites \cup SourceSuites

NoOptions == [tags |-> {}, filters |-> <<>>, providers |-> {}, prompts |-> {}, repeat |-> 1,
              allow_empty |-> FALSE, strict |-> FALSE, globs_compile |-> TRUE]
AFewOptions ==
    {NoOptions, [NoOptions EXCEPT !.tags = {"x"}], [NoOptions EXCEPT !.tags = {"z"}],
     [NoOptions EXCEPT !.tags = {"z"}, !.allow_empty = TRUE], [NoOptions EXCEPT !.filters = << {<<"t">>}, {<<"t">>, <<"u">>} >>],
     [NoOptions EXCEPT !.providers = {"p"}], [NoOptions EXCEPT !.providers = {"p", "q"}], [NoOptions EXCEPT !.providers = {"r"}],
     [NoOptions EXCEPT !.providers = {"p", "e"}], [NoOptions EXCEPT !.prompts = {"a"}], [NoOptions EXCEPT !.prompts = {"z"}],
     [NoOptions EXCEPT !.repeat = 2], [NoOptions EXCEPT !.strict = TRUE], [NoOptions EXCEPT !.globs_compile = FALSE],
     [NoOptions EXCEPT !.allow_empty = TRUE]}

AFewAnswers == {[exit |-> "failed", cases |-> <<>>], [exit |-> "bad tests", cases |-> <<>>], [exit |-> "ok", cases |-> <<>>],
                [exit |-> "ok", cases |-> <<Case(<<>>), [Case(<<"g">>) EXCEPT !.matrix = <<<<"1", "2">>>>]>>],
                [exit |-> "ok", cases |-> <<[Case(<<>>) EXCEPT !.refs = {"missing"}]>>]}

-----------------------------------------------------------------------------
\* Processes: the first makes a run that the second may find, half written or
\* whole, by every kind of reference.
C(k, status, class, fb) == [key |-> k, status |-> status, class |-> class, fallback |-> fb, output |-> status,
                            prompt |-> <<"d">>, provider |-> <<"d">>, asserts |-> <<"d">>]
Own(k, status) == C(k, status, <<>>, FALSE)
Single ==
    {Own("k", s) : s \in Statuses}
    \cup {C("k", "pass", <<>>, TRUE), C("k", "error", <<"exec_failed", "grader_missing">>, FALSE),
          C("k", "error", <<"assert_failed", "grader_missing">>, FALSE)}
AFewOutcomes ==
    [j \in Jobs |-> IF j = "j1" THEN {<<Own("k", "pass")>>}
                    ELSE {<<>>} \cup {<<c>> : c \in Single}
                         \cup {<<C("k", "pass", <<>>, TRUE), C("l", "fail", <<>>, TRUE)>>,
                               <<C("k", "pass", <<>>, TRUE), Own("l", "pass")>>,
                               <<C("k", "pass", <<>>, TRUE), Own("l", "skip")>>,
                               <<Own("k", "error"), C("l", "error", <<"render_failed">>, FALSE)>>}]
RunOfSuite(name, cases, at) == [project |-> "p", suite |-> name, branch |-> "main", cases |-> cases, finished |-> at]
StoredBefore == [e1 |-> RunOfSuite("s", <<Own("l", "fail"), Own("l", "pass")>>, 1), e2 |-> RunOfSuite("other", <<Own("k", "pass")>>, 2)]
SharedBefore == [v1 |-> RunOfSuite("s", <<Own("k", "xfail")>>, 1), v2 |-> RunOfSuite("other", <<Own("k", "pass")>>, 2)]

NoArgs == [formats |-> <<>>, out |-> "", loads |-> TRUE, share |-> FALSE, allow_share_failure |-> FALSE, server |-> TRUE,
           window |-> "includes", against |-> <<>>, suite_branch |-> <<>>, allow_empty |-> FALSE, project |-> "p", branch |-> "main"]
Against(at, what) == [NoArgs EXCEPT !.against = <<[at |-> at, what |-> what]>>]
AFewArgs ==
    [j \in Jobs |->
        IF j = "j1" THEN {[Against("none", "") EXCEPT !.share = TRUE]}
        ELSE {[NoArgs EXCEPT !.formats = <<"a", "">>, !.out = "a"], [NoArgs EXCEPT !.formats = <<"a">>, !.out = "b"],
              [NoArgs EXCEPT !.loads = FALSE], [NoArgs EXCEPT !.share = TRUE, !.server = FALSE],
              [NoArgs EXCEPT !.share = TRUE, !.server = FALSE, !.allow_share_failure = TRUE, !.suite_branch = <<"main">>],
              [Against("server", "baseline") EXCEPT !.allow_empty = TRUE], [Against("server", "main") EXCEPT !.project = ""],
              [NoArgs EXCEPT !.suite_branch = <<"main">>], Against("local", ""),
              [Against("latest", "") EXCEPT !.share = TRUE],
              Against("run", "e1"), Against("run", "e2"), Against("run", "gone")}]

-----------------------------------------------------------------------------
\* Exchanges: two judges of one rubric, a checker and a judge that is
\* misconfigured, and the two texts of a similarity.
Kinds == [x \in Exchanges |-> CASE x \in {"j1", "j2", "d"} -> "judge"
                               [] x = "c" -> "exec"
                               [] x \in {"v", "w"} -> "embedding"]
Requests == [x \in Exchanges |-> IF x \in {"j1", "j2"} THEN "rubric" ELSE x]
Together == {{"j1", "j2"}, {"c", "d"}, {"v", "w"}}
Texts == {{"v", "w"}}

\* Nothing stored; a payload that no longer parses; entries under the older shapes.
Entry(v, r) == [verdict |-> v, raw |-> r]
Filed(shape, e) == [k \in GraderKeys |-> IF k[1] = shape THEN e ELSE NoEntry]
OldStores ==
    {Filed("today", NoEntry), Filed("today", Entry(NoValue, "malformed")),
     Filed("canonical", Entry(NoValue, "truncated")),
     Filed("canonical", Entry(NoValue, "no")), Filed("verdict", Entry("no", NoValue))}

-----------------------------------------------------------------------------
suiteVars == <<filesVars, planVars, vars, gvars, gateVars, part>>

\* The parts that do not run start in one of their states.
NoFiles == disk = [f \in Files |-> NoDocument("missing")] /\ env = FALSE /\ FilesInit
NoPlan == suite = Plain /\ opts = NoOptions /\ PlanInit
NoScoring == threshold = NoThreshold /\ blank = FALSE /\ Init
NoExchange == /\ gsuite = CHOOSE s \in GradedSuites : TRUE
              /\ gstore = CHOOSE s \in GraderStores : TRUE
              /\ GraderInit
NoGate == /\ GateInit
          /\ \A j \in Jobs : job[j].args = CHOOSE a \in Args[j] : TRUE

SuiteInit ==
    \/ part = "gate" /\ NoFiles /\ NoPlan /\ NoScoring /\ NoExchange /\ GateInit
    \/ /\ NoGate
       /\ \/ part = "files" /\ NoPlan /\ NoScoring /\ NoExchange /\ FilesInit
          \/ part = "plan" /\ NoFiles /\ NoScoring /\ NoExchange /\ PlanInit
          \/ part = "score" /\ NoFiles /\ NoPlan /\ NoExchange /\ Init
          \/ part = "grade" /\ NoFiles /\ NoPlan /\ NoScoring /\ GraderInit

SuiteNext ==
    /\ UNCHANGED part
    /\ \/ part = "files" /\ FilesNext /\ UNCHANGED <<planVars, vars, gvars, gateVars>>
       \/ part = "plan" /\ PlanNext /\ UNCHANGED <<filesVars, vars, gvars, gateVars>>
       \/ part = "score" /\ Next /\ UNCHANGED <<filesVars, planVars, gvars, gateVars>>
       \/ part = "grade" /\ GraderNext /\ UNCHANGED <<filesVars, planVars, vars, gateVars>>
       \/ part = "gate" /\ GateNext /\ UNCHANGED <<filesVars, planVars, vars, gvars>>

SuiteSpec == SuiteInit /\ [][SuiteNext]_suiteVars

\* Plans alone.
PlanSpec == (SuiteInit /\ part = "plan") /\ [][SuiteNext]_suiteVars
=============================================================================
