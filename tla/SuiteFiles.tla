----------------------------- MODULE SuiteFiles -----------------------------
(***************************************************************************)
(* Loading a suite: load_file_raw composes a file with the file it         *)
(* `extends` and the files it `imports`, depth first, and then substitutes *)
(* environment placeholders (loader.rs, interp.rs).  A document is reduced *)
(* to what merging and substitution tell apart: keys that a later document *)
(* overrides, and the `assert` list under `defaults`, which is appended to *)
(* that of an earlier one.  A file that is empty or holds only comments is *)
(* a null document; `defaults` and its `assert` may be null as well.  The  *)
(* recursion of the code is the explicit stack `frames`.                   *)
(***************************************************************************)
EXTENDS Integers, Sequences, SequencesExt, FiniteSets, Relation

CONSTANTS Files,        \* the files a suite may be made of
          RootFile,     \* the file the command names
          Fields,       \* keys of a document
          EnvFields,    \* those under providers, a grader's provider or cache.s3
          Contents      \* what a path may hold: records with is, extends, imports, doc

ASSUME SuiteFilesAssumption ==
    /\ RootFile \in Files
    /\ EnvFields \subseteq Fields

NoText == "-"          \* the key is absent
NoAsserts == [is |-> "absent", items |-> <<>>]
NoDefaults == [is |-> "absent", assert |-> NoAsserts]
NullDoc == [is |-> "null", set |-> [k \in Fields |-> NoText], defaults |-> NoDefaults]

VARIABLES disk,         \* what each path holds: a document, nothing or no YAML
          env,          \* whether the variable of a placeholder is set
          frames,       \* one frame per file whose load is under way
          goal,         \* the file to open next, or NoText
          loading,      \* "run", "interpolate", or how the load ended
          loaded,       \* the composed document
          closed        \* history: files in the order their load finished, and
                        \* how deep in the imports each was

filesVars == <<disk, env, frames, goal, loading, loaded, closed>>

Ended == {"Cycle", "Io", "Yaml", "EnvMissing", "Deserialize", "ok"}

-----------------------------------------------------------------------------
(* A key of both mappings is merged, one of either is kept.                *)
MergeKey(base, over, Merge(_, _)) ==
    CASE over.is = "absent" -> base
      [] over.is # "absent" /\ base.is = "absent" -> over
      [] OTHER -> Merge(base, over)

(* Two `assert` lists are appended, the base's first; what is no list is   *)
(* replaced, and replaces.                                                 *)
append_sequences(base, over) ==
    IF base.is = "list" /\ over.is = "list" THEN [base EXCEPT !.items = @ \o over.items] ELSE over

MergeDefaults(base, over) ==
    IF base.is = "mapping" /\ over.is = "mapping"
    THEN [base EXCEPT !.assert = MergeKey(@, over.assert, append_sequences)] ELSE over

(* deep_merge: mappings are merged key by key, and anything else of `over` *)
(* replaces what is in `base`: null does.                                  *)
deep_merge(base, over) ==
    IF base.is = "mapping" /\ over.is = "mapping"
    THEN [is |-> "mapping",
          set |-> [k \in Fields |-> IF over.set[k] # NoText THEN over.set[k] ELSE base.set[k]],
          defaults |-> MergeKey(base.defaults, over.defaults, MergeDefaults)]
    ELSE over

(* What a frame has merged so far: nothing yet is not an empty document.   *)
Accumulate(frame, doc) ==
    IF frame.some THEN deep_merge(frame.acc, doc) ELSE doc

(* The files a document names, in the order they are composed.             *)
References(c) == (IF c.extends = NoText THEN <<>> ELSE <<c.extends>>) \o c.imports

OnStackOrRead(f) ==                                    \* mutant: nothing is popped
    \/ \E i \in DOMAIN closed : closed[i].file = f
    \/ \E i \in DOMAIN frames : frames[i].file = f

OnStack(f) == \E i \in DOMAIN frames : frames[i].file = f

-----------------------------------------------------------------------------
FilesInit ==
    /\ disk \in [Files -> Contents]
    /\ env \in BOOLEAN
    /\ frames = <<>>
    /\ goal = RootFile
    /\ loading = "run"
    /\ loaded = NullDoc
    /\ closed = <<>>

(* load_and_compose up to its first reference: refuse a file that is       *)
(* already on the stack, read it, parse it, take `extends` and `imports`.  *)
OpenFile ==
    /\ loading = "run" /\ goal # NoText
    /\ LET c == disk[goal] IN
       \/ /\ OnStack(goal)
          /\ loading' = "Cycle" /\ UNCHANGED <<frames, goal>>
       \/ /\ ~ OnStack(goal) /\ c.is = "missing"
          /\ loading' = "Io" /\ UNCHANGED <<frames, goal>>
       \/ /\ ~ OnStack(goal) /\ c.is = "unparsable"
          /\ loading' = "Yaml" /\ UNCHANGED <<frames, goal>>
       \/ /\ ~ OnStack(goal) /\ c.is = "document"
          /\ frames' = Append(frames, [file |-> goal, rest |-> References(c),
                                       some |-> FALSE, acc |-> NullDoc, own |-> c.doc])
          /\ goal' = NoText
          /\ UNCHANGED loading
    /\ UNCHANGED <<disk, env, loaded, closed>>

(* The next reference of the file on top.                                  *)
FollowReference ==
    /\ loading = "run" /\ goal = NoText /\ frames # <<>>
    /\ LET top == Last(frames) IN
       /\ top.rest # <<>>
       /\ goal' = Head(top.rest)
       /\ frames' = Append(Front(frames), [top EXCEPT !.rest = Tail(top.rest)])
    /\ UNCHANGED <<disk, env, loading, loaded, closed>>

(* The file's own document is merged over what it composed, its entry      *)
(* leaves the stack, and the caller merges the result.                     *)
CloseFile ==
    /\ loading = "run" /\ goal = NoText /\ frames # <<>>
    /\ LET top == Last(frames)
           merged == Accumulate(top, top.own)
           below == Front(frames)
       IN /\ top.rest = <<>>
          /\ closed' = Append(closed, [file |-> top.file, depth |-> Len(frames)])
          /\ \/ /\ below = <<>>
                /\ frames' = <<>> /\ loaded' = merged /\ loading' = "interpolate"
             \/ /\ below # <<>>
                /\ frames' = Append(Front(below),
                                    [Last(below) EXCEPT !.some = TRUE,
                                                        !.acc = Accumulate(Last(below), merged)])
                /\ UNCHANGED <<loaded, loading>>
    /\ UNCHANGED <<disk, env, goal>>

(* interpolate_env: placeholders under the fields it walks are replaced by *)
(* the variable, else by their default; one without either ends the load.  *)
(* What a variable holds is not looked into again.                         *)
IsPlaceholder(v) == v \in {"${env:V}", "${env:V:-default}"}
resolve_placeholder(v) ==
    CASE env -> "value of V"
      [] ~ env /\ v = "${env:V:-default}" -> "default"
      [] OTHER -> NoText
interpolate_str(v) == IF IsPlaceholder(v) THEN resolve_placeholder(v) ELSE v

InterpolateEnv ==
    /\ loading = "interpolate"
    /\ LET holes == {k \in EnvFields : IsPlaceholder(loaded.set[k])} IN
       \/ /\ \E k \in holes : resolve_placeholder(loaded.set[k]) = NoText
          /\ loading' = "EnvMissing" /\ UNCHANGED loaded
       \/ /\ \A k \in holes : resolve_placeholder(loaded.set[k]) # NoText
          /\ loading' = "deserialize"
          /\ loaded' = [loaded EXCEPT !.set =
                           [k \in Fields |-> IF k \in EnvFields THEN interpolate_str(@[k]) ELSE @[k]]]
    /\ UNCHANGED <<disk, env, frames, goal, closed>>

(* deserialize_suite: a suite is a mapping and an assert list is a list;   *)
(* `defaults` may be null.                                                 *)
DeserializeSuite ==
    /\ loading = "deserialize"
    /\ loading' = IF loaded.is = "mapping" /\ loaded.defaults.assert.is # "null" THEN "ok" ELSE "Deserialize"
    /\ UNCHANGED <<disk, env, frames, goal, loaded, closed>>

FilesNext == OpenFile \/ FollowReference \/ CloseFile \/ InterpolateEnv \/ DeserializeSuite

-----------------------------------------------------------------------------
Names == [f, g \in Files |-> disk[f].is = "document" /\ Contains(References(disk[f]), g)]
Reaches == TransitiveClosure(Names, Files)

(* The documents in the order their load ended, and which of them were     *)
(* composed together: Under(i, r) is that i was composed into the file r   *)
(* or into the file that names r, before it.                               *)
Closed(i) == disk[closed[i].file].doc
Under(i, r) == i < r /\ \A m \in i..r : closed[m].depth >= closed[r].depth
Subtree(r) == {m \in 1..r : \A n \in m..(r - 1) : closed[n].depth > closed[r].depth}

(* Of the documents that have a key, those whose value a null value wiped: *)
(* the last that a file composed later, or under it, says of the key.      *)
Kept(present, isNull) ==
    {i \in present \ isNull :
        \A r \in DOMAIN closed :
            LET said == present \cap Subtree(r)
            IN Under(i, r) /\ said # {} => Max(said) <= i \/ Max(said) \notin isNull}

Standing == Kept(DOMAIN closed, {i \in DOMAIN closed : Closed(i).is = "null"})
DefaultsKept ==
    LET present == {i \in Standing : Closed(i).defaults.is # "absent"}
    IN Kept(present, {i \in present : Closed(i).defaults.is = "null"})
AssertsKept ==
    LET present == {i \in DefaultsKept : Closed(i).defaults.assert.is # "absent"}
    IN Kept(present, {i \in present : Closed(i).defaults.assert.is = "null"})

(* A load is refused as a cycle exactly when a file that is reached names  *)
(* itself in the end: a file that two others import is read twice and is   *)
(* no cycle, which is what the pop at the end of load_and_compose is for.  *)
(* Whatever the shape of the import tree otherwise, the composed suite is  *)
(* what one gets by laying the documents over each other in the order      *)
(* their load ended: the last file that sets a key decides it, and the     *)
(* assert lists are appended.  The tree is seen only by what is null: an   *)
(* empty file wipes what the file that names it had composed before, and   *)
(* no more, and a `defaults` or an `assert` with nothing under it wipes    *)
(* the defaults or the asserts that were composed before, as far up as no  *)
(* later file of the same subtree has them (deep_merge, append_sequences). *)
ImportsCompose ==
    /\ loading = "Cycle" =>
          \E f \in Files : (f = RootFile \/ Reaches[RootFile, f]) /\ Reaches[f, f]
    /\ loading \in {"interpolate", "deserialize"} \cup (Ended \ {"Cycle", "Io", "Yaml"}) =>
          \A f \in Files : (f = RootFile \/ Reaches[RootFile, f]) => ~ Reaches[f, f]
    /\ loading = "interpolate" =>
        /\ \A k \in Fields :
              LET setters == {i \in Standing : Closed(i).set[k] # NoText}
              IN loaded.set[k] = IF setters = {} THEN NoText ELSE Closed(Max(setters)).set[k]
        /\ loaded.defaults.assert.items =
              FlattenSeq([i \in DOMAIN closed |-> IF i \in AssertsKept THEN Closed(i).defaults.assert.items ELSE <<>>])

-----------------------------------------------------------------------------
(***************************************************************************)
(* Validation of a loaded suite (loader_validate.rs and the modules it     *)
(* calls): every rule as the set of issues it reports.  An issue is a      *)
(* severity, the rule and the place; messages are left out.  An optional   *)
(* field is a sequence of at most one element.  The suite keeps what the   *)
(* rules and the planning of a run read.                                   *)
(***************************************************************************)

(* Key sets of the schema: fields common to every entry, and of each type  *)
(* (VariantKeys::from_schema).                                             *)
VendorKeys == {"model", "base_url", "api_key_env", "params", "pricing", "request", "cache_salt"}
ProviderKindKeys ==
    [k \in {"exec", "http", "anthropic", "openai", "embeddings"} |->
        CASE k = "exec" -> {"command", "env", "timeout_ms", "cache_salt"}
          [] k = "http" -> {"url", "method", "headers", "body", "output_expr"}
          [] OTHER -> VendorKeys]
AssertKindKeys ==
    [k \in {"contains", "icontains", "icontains-any", "regex", "equals", "starts-with", "is-json",
            "contains-json", "length", "jinja", "exec", "tool-call", "llm-rubric", "cost", "latency",
            "tokens", "similar"} |->
        CASE k = "icontains-any" -> {"values"}
          [] k = "is-json" -> {}
          [] k = "contains-json" -> {"schema"}
          [] k = "length" -> {"min", "max"}
          [] k = "exec" -> {"command", "config", "cache_salt"}
          [] k = "tool-call" -> {"name", "args", "schema"}
          [] k = "llm-rubric" -> {"value", "grader", "threshold", "params"}
          [] k \in {"cost", "latency"} -> {"max"}
          [] k = "tokens" -> {"max", "count"}
          [] k = "similar" -> {"value", "threshold"}
          [] OTHER -> {"value"}]
ProviderKeys == [common |-> {"id", "label", "fallback", "fallback_only", "type"}, by_type |-> ProviderKindKeys]
AssertKeys == [common |-> {"weight", "negate", "type"}, by_type |-> AssertKindKeys]
(* A grader's provider is a bare ProviderKind: no id, no chain.            *)
JudgeKeys == [common |-> {"type"}, by_type |-> ProviderKindKeys]

VendorKinds == {"anthropic", "openai", "embeddings"}

Err(rule, at) == [sev |-> "error", rule |-> rule, at |-> at]
Warn(rule, at) == [sev |-> "warning", rule |-> rule, at |-> at]

errors(report) == {i \in report : i.sev = "error"}
has_errors(report) == errors(report) # {}

-----------------------------------------------------------------------------
(* What can be deserialised (config.rs and its config_*.rs): a suite that  *)
(* is none of these never reaches validation.  A record keeps what the     *)
(* rules and the planning read; whether a provider builds, what the        *)
(* environment holds for its credential and where it is sent are facts     *)
(* about the place the suite runs in.                                      *)
IsOptional(o, S) == o = <<>> \/ (Len(o) = 1 /\ o[1] \in S)

AuthModes == {"api_key", "bearer", "none"}
Credential == [value: {"key", "oauth", "unset"}, auth: AuthModes, host: {"vendor", "proxy"}]
IsCredential(c) == [value |-> c.value, auth |-> c.auth, host |-> c.host] \in Credential

IsProviderKind(p) == p.kind \in DOMAIN ProviderKindKeys /\ p.keys \subseteq STRING

(* RequestCfg: of its fields only the path override is validated.          *)
IsRequest(path) == path \in {"none", "absolute", "relative"}

IsProvider(p) ==
    /\ p.id \in STRING /\ p.fallback \in Seq(STRING) /\ p.fallback_only \in BOOLEAN
    /\ IsProviderKind(p) /\ IsRequest(p.path) /\ IsCredential(p) /\ p.builds \in BOOLEAN

VerdictModes == {"forced", "auto"}
IsGrader(g) == IsProviderKind(g) /\ IsCredential(g) /\ IsOptional(g.verdict_mode, VerdictModes)

(* An assert of an unknown kind does not deserialise.                      *)
IsAssert(a) ==
    /\ a.kind \in DOMAIN AssertKindKeys /\ a.keys \subseteq STRING
    /\ a.grader = <<>> \/ (a.kind = "llm-rubric" /\ Len(a.grader) = 1 /\ IsGrader(a.grader[1]))

(* The text of a turn: MessageContentSpec, text or blocks.                 *)
TurnContents == {"none", "text", "blank"}
Message == [role: {"system", "user", "assistant", "tool"}, content: TurnContents,
            calls: BOOLEAN, answers: BOOLEAN]

(* PromptEntry: the marker `history`, or a turn.                           *)
PromptEntry == Message \cup [role: {"history"}, content: {"text"}, calls: {FALSE}, answers: {FALSE}]
IsPrompt(p) ==
    /\ p.id \in STRING /\ p.template \in BOOLEAN
    /\ p.messages = <<>> \/ (Len(p.messages) = 1 /\ p.messages[1] \in Seq(PromptEntry))

(* HistorySpec: inline turns; a transcript file is read when tests are     *)
(* expanded and is one of the references of its case.                      *)
IsHistory(h) == h = <<>> \/ (Len(h) = 1 /\ h[1] \in Seq(Message))

IsTestCase(c) ==
    /\ c.id \in Seq(STRING) /\ c.tags \subseteq STRING
    /\ c.only \subseteq STRING /\ c.skip \subseteq STRING
    /\ \A i \in DOMAIN c.asserts : IsAssert(c.asserts[i])
    /\ IsHistory(c.history)
    /\ c.matrix \in Seq(Seq(STRING)) /\ c.refs \subseteq {"found", "missing", "outside"}

(* expect_fail: a flag or a reason; a reason enables it.                   *)
expect_fail_enabled(c) == c.expect_fail # <<>> /\ c.expect_fail[1] # "false"

(* TestSource: a glob, a generator or an inline case.                      *)
IsTestSource(t) ==
    CASE t.src = "glob" -> t.spec \in {"inside", "outside"} /\ \A f \in DOMAIN t.files :
                              \A i \in DOMAIN t.files[f].cases : IsTestCase(t.files[f].cases[i])
      [] t.src = "generator" -> TRUE
      [] t.src = "inline" -> IsTestCase(t.case)

IsDefaults(d) ==
    /\ \A i \in DOMAIN d.asserts : IsAssert(d.asserts[i])
    /\ IsHistory(d.history) /\ d.tags \subseteq STRING /\ d.refs \subseteq {"found", "missing", "outside"}

IsRunner(r) ==
    /\ IsOptional(r.rps, Int) /\ IsOptional(r.timeout_ms, Nat) /\ r.patterns_compile \in BOOLEAN

IsSuite(s) ==
    /\ s.version \in Nat
    /\ \A i \in DOMAIN s.providers : IsProvider(s.providers[i])
    /\ \A i \in DOMAIN s.prompts : IsPrompt(s.prompts[i])
    /\ \A i \in DOMAIN s.tests : IsTestSource(s.tests[i])
    /\ IsDefaults(s.defaults) /\ IsRunner(s.runner)
    /\ s.grader = <<>> \/ (Len(s.grader) = 1 /\ IsGrader(s.grader[1]))

-----------------------------------------------------------------------------
Inline(suite) == {i \in DOMAIN suite.tests : suite.tests[i].src = "inline"}

-----------------------------------------------------------------------------
(* check_flatten_entry: an entry of a known type has no key outside of the *)
(* common ones and those of its type.                                      *)
check_flatten_entry(type, keys, schema, at) ==
    IF type \notin DOMAIN schema.by_type THEN {}
    ELSE {Err("unknown key", at) : k \in keys \ (schema.common \cup schema.by_type[type])}

(* check_grader_provider: the provider mapping nested in a grader.         *)
check_grader_provider(grader, at) ==
    UNION {check_flatten_entry(grader[i].kind, grader[i].keys, JudgeKeys, at) :
              i \in DOMAIN grader}

CheckAsserts(asserts, at) ==
    UNION {check_flatten_entry(asserts[j].kind, asserts[j].keys, AssertKeys, at)
              \cup check_grader_provider(asserts[j].grader, at) : j \in DOMAIN asserts}

(* check_unknown_flatten_keys: providers, the grader, the default asserts  *)
(* and those of inline cases; globs and generators are not in the file.    *)
check_unknown_flatten_keys(suite) ==
    UNION {check_flatten_entry(suite.providers[i].kind, suite.providers[i].keys,
                               ProviderKeys, <<"providers", i>>) : i \in DOMAIN suite.providers}
    \cup check_grader_provider(suite.grader, <<"grader">>)
    \cup CheckAsserts(suite.defaults.asserts, <<"defaults">>)
    \cup UNION {CheckAsserts(suite.tests[i].case.asserts, <<"tests", i>>) : i \in Inline(suite)}

IsAuto(g) == g.verdict_mode = <<"auto">>

(* check_verdict_mode: `auto` on the suite's grader or on that of an       *)
(* inline case's assert; the default asserts are not looked at.            *)
check_verdict_mode(suite) ==
    {Err("verdict_mode", <<"grader">>) : i \in {j \in DOMAIN suite.grader : IsAuto(suite.grader[j])}}
    \cup UNION {{Err("verdict_mode", <<"tests", i, a>>) :
                    a \in {b \in DOMAIN suite.tests[i].case.asserts :
                              LET x == suite.tests[i].case.asserts[b]
                              IN \E g \in DOMAIN x.grader : x.kind = "llm-rubric" /\ IsAuto(x.grader[g])}} :
                i \in Inline(suite)}

(* check_runner_limits: a rate must be positive and a timeout not zero.    *)
check_runner_limits(suite) ==
    {Err("rps", <<"runner">>) : i \in {j \in DOMAIN suite.runner.rps : suite.runner.rps[j] <= 0}}
    \cup {Err("timeout_ms", <<"runner">>) :
             i \in {j \in DOMAIN suite.runner.timeout_ms : suite.runner.timeout_ms[j] = 0}}

(* check_request_path: a vendor's path override starts with a slash.       *)
check_request_path(p, at) ==
    IF p.kind \in VendorKinds /\ p.path = "relative" THEN {Err("request.path", at)} ELSE {}

Repeated(s, i) == \E j \in 1..(i - 1) : s[j].id = s[i].id

CheckProviders(suite) ==
    UNION {(IF Repeated(suite.providers, i) THEN {Err("duplicate provider", <<"providers", i>>)} ELSE {})
              \cup check_request_path(suite.providers[i], <<"providers", i>>) :
           i \in DOMAIN suite.providers}
    \cup IF suite.providers = <<>> THEN {Err("no provider", <<"providers">>)} ELSE {}

(* Exactly one of template and messages, at most one marker, no empty      *)
(* message list, no repeated id.                                           *)
CheckPrompt(suite, i) ==
    LET p == suite.prompts[i]
        at == <<"prompts", i>>
        entries == IF p.messages = <<>> THEN <<>> ELSE Head(p.messages)
        markers == {j \in DOMAIN entries : entries[j].role = "history"}
    IN (IF p.template = (p.messages # <<>>) THEN {Err("one of template, messages", at)} ELSE {})
       \cup (IF Cardinality(markers) > 1 THEN {Err("markers", at)} ELSE {})
       \cup (IF p.messages # <<>> /\ entries = <<>> THEN {Err("no messages", at)} ELSE {})
       \cup (IF Repeated(suite.prompts, i) THEN {Err("duplicate prompt", at)} ELSE {})

(* A case that expects to fail and asserts nothing can only pass.          *)
CheckExpectFail(suite) ==
    {Warn("expect_fail", <<"tests", i>>) :
        i \in {j \in Inline(suite) : /\ expect_fail_enabled(suite.tests[j].case)
                                     /\ suite.tests[j].case.asserts = <<>>
                                     /\ suite.defaults.asserts = <<>>}}

-----------------------------------------------------------------------------
(* turn_problem: a turn without content or calls, calls outside of an      *)
(* assistant's turn, a call id outside of a tool's turn.                   *)
turn_problem(t) ==
    \/ t.content = "none" /\ ~ t.calls
    \/ t.calls /\ t.role # "assistant"
    \/ t.answers /\ t.role # "tool"

is_blank(t) == ~ t.calls /\ t.content = "blank"

CheckTurn(t, at) ==
    (IF turn_problem(t) THEN {Err("turn", at)} ELSE {})
    \cup (IF is_blank(t) THEN {Warn("blank", at)} ELSE {})

(* prompt_puts_history_first: a template, messages without a marker, or a  *)
(* marker that only system turns precede.                                  *)
prompt_puts_history_first(p) ==
    p.messages # <<>> =>
        LET entries == Head(p.messages)
            markers == {j \in DOMAIN entries : entries[j].role = "history"}
        IN markers # {} =>
              LET at == CHOOSE j \in markers : \A k \in markers : j <= k
              IN \A j \in 1..(at - 1) : entries[j].role = "system"

history_can_land_first(suite) ==
    suite.prompts = <<>> \/ \E i \in DOMAIN suite.prompts : prompt_puts_history_first(suite.prompts[i])

(* check_history: the first turn that is no system turn must not answer    *)
(* somebody when the history opens the transcript, and each turn is well   *)
(* formed.                                                                 *)
check_history(turns, leads, at) ==
    LET spoken == {j \in DOMAIN turns : turns[j].role # "system"}
        first == CHOOSE j \in spoken : \A k \in spoken : j <= k
    IN (IF leads /\ spoken # {} /\ turns[first].role \in {"assistant", "tool"}
        THEN {Warn("history opens", at)} ELSE {})
       \cup UNION {CheckTurn(turns[j], at) : j \in DOMAIN turns}

CheckHistory(suite) ==
    LET leads == history_can_land_first(suite) IN
    UNION {check_history(suite.defaults.history[i], leads, <<"defaults">>) :
              i \in DOMAIN suite.defaults.history}
    \cup UNION {UNION {check_history(suite.tests[i].case.history[j], leads, <<"tests", i>>) :
                          j \in DOMAIN suite.tests[i].case.history} : i \in Inline(suite)}
    \cup UNION {UNION {UNION {CheckTurn(suite.prompts[i].messages[m][j], <<"prompts", i>>) :
                                 j \in {k \in DOMAIN suite.prompts[i].messages[m] :
                                           suite.prompts[i].messages[m][k].role # "history"}} :
                          m \in DOMAIN suite.prompts[i].messages} :
                   i \in DOMAIN suite.prompts}

-----------------------------------------------------------------------------
(* Provider::forms_cells: the one definition of who is a system under test *)
forms_cells(p) == p.kind # "embeddings" /\ ~ p.fallback_only

ByIdIn(suite, id) == {i \in DOMAIN suite.providers : suite.providers[i].id = id}

(* One entry of a provider's chain: itself, unknown, an embeddings         *)
(* provider; then the warnings about repetition and about chains of        *)
(* chains.                                                                 *)
CheckLink(suite, i, j) ==
    LET p == suite.providers[i]
        target == p.fallback[j]
        at == <<"providers", i, j>>
        found == ByIdIn(suite, target)
        other == suite.providers[CHOOSE k \in found : \A l \in found : k <= l]
    IN CASE target = p.id -> {Err("fallback to itself", at)}
         [] target # p.id /\ found = {} -> {Err("unknown fallback", at)}
         [] target # p.id /\ found # {} /\ other.kind = "embeddings" -> {Err("fallback to embeddings", at)}
         [] OTHER ->
              (IF \E k \in 1..(j - 1) : p.fallback[k] = target THEN {Warn("listed twice", at)} ELSE {})
              \cup (IF other.fallback # <<>> THEN {Warn("chain of chains", at)} ELSE {})

CheckFallback(suite) ==
    LET Named(id) == \E i \in DOMAIN suite.providers :
                        /\ forms_cells(suite.providers[i])
                        /\ Contains(suite.providers[i].fallback, id)
        OfProvider(i) ==
            LET p == suite.providers[i]
                embeddings == p.kind = "embeddings"
            IN (IF p.fallback # <<>> /\ embeddings THEN {Err("fallback of embeddings", <<"providers", i>>)} ELSE {})
               \cup (IF p.fallback_only /\ embeddings THEN {Err("fallback_only embeddings", <<"providers", i>>)} ELSE {})
               \cup (IF p.fallback_only /\ ~ embeddings /\ ~ Named(p.id)
                     THEN {Warn("unreachable", <<"providers", i>>)} ELSE {})
               \cup UNION {CheckLink(suite, i, j) : j \in DOMAIN p.fallback}
        under_test == {i \in DOMAIN suite.providers : suite.providers[i].kind # "embeddings"}
    IN UNION {OfProvider(i) : i \in DOMAIN suite.providers}
       \cup (IF under_test # {} /\ \A i \in under_test : suite.providers[i].fallback_only
             THEN {Err("only fallbacks", <<"providers">>)} ELSE {})
       \cup (IF suite.runner.patterns_compile THEN {} ELSE {Err("refusal pattern", <<"runner">>)})

(* validate: every rule over the whole suite.                              *)
validate(suite) ==
    check_unknown_flatten_keys(suite) \cup check_verdict_mode(suite) \cup check_runner_limits(suite)
    \cup (IF suite.version # 1 THEN {Err("version", <<"version">>)} ELSE {})
    \cup CheckProviders(suite)
    \cup UNION {CheckPrompt(suite, i) : i \in DOMAIN suite.prompts}
    \cup CheckExpectFail(suite)
    \cup CheckHistory(suite)
    \cup CheckFallback(suite)
=============================================================================
