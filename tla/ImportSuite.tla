---------------------------- MODULE ImportSuite -----------------------------
(***************************************************************************)
(* Assertions that need no grader, from src/crates/domarinn-core/src:      *)
(* asserts.rs, assertion.rs and jsonschema_cache.rs.                       *)
(*                                                                         *)
(* A text is a sequence of letters, small ones below 0 and their capitals  *)
(* above.  An output has its text, the JSON value it is, and the first one *)
(* in it.  A regular expression is the set of the texts it looks for, and  *)
(* Broken stands for an expression, a schema or a template that is none.   *)
(***************************************************************************)
EXTENDS Integers, Sequences, FiniteSets, FiniteSetsExt

CONSTANTS Broken,         \* an expression or a schema that cannot be used
          NoJson          \* no value

----------------------------------------------------------------------------
(* Texts.                                                                  *)

Lower(text) == [n \in DOMAIN text |-> IF text[n] > 0 THEN -text[n] ELSE text[n]]

StartsAt(text, part, k) ==
    k + Len(part) <= Len(text) /\ \A n \in DOMAIN part : text[k + n] = part[n]

Contains(text, part) == \E k \in 0..Len(text) : StartsAt(text, part, k)

----------------------------------------------------------------------------
(* AssertOutcome.                                                          *)

Verdict(passed) == [passed |-> passed, unevaluable |-> FALSE]
Unevaluable == [passed |-> FALSE, unevaluable |-> TRUE]

FlippedAlways(o, negate) == IF negate THEN [o EXCEPT !.passed = ~@] ELSE o

\* An assertion that is broken has no opposite.
negated(o, negate) == IF ~negate \/ o.unevaluable THEN o ELSE [o EXCEPT !.passed = ~@]

\* A schema is the set of values that match it.
validate_against(value, schema) ==
    IF schema = Broken THEN Unevaluable ELSE Verdict(value \in schema)

----------------------------------------------------------------------------
(* Tool calls: a name, and arguments that are a function of their names.   *)

\* Expected arguments first, then the schema; only the schema can be broken
\* once the arguments were compared, and broken arguments are found first.
tool_call_matches(call, assert) ==
    CASE assert.args = Broken -> Unevaluable
      [] assert.args # Broken /\ assert.args # NoJson
         /\ \E k \in DOMAIN assert.args : k \notin DOMAIN call.args \/ call.args[k] # assert.args[k] ->
            Verdict(FALSE)
      [] OTHER -> IF assert.schema = NoJson THEN Verdict(TRUE)
                  ELSE validate_against(call.args, assert.schema)

\* The calls of that name, up to the first that decides.
tool_call(assert, calls) ==
    LET tried == {n \in DOMAIN calls : calls[n].name = assert.name}
        result == [n \in tried |-> tool_call_matches(calls[n], assert)]
        deciding == {n \in tried : result[n].passed \/ result[n].unevaluable}
    IN IF deciding = {} THEN Verdict(FALSE)
       ELSE result[CHOOSE n \in deciding : \A m \in deciding : n <= m]

----------------------------------------------------------------------------
(* evaluate_kind.                                                          *)

\* A budget is not enforced on what was not reported.
WithinBudget(measured, max) == Verdict(measured = NoJson \/ measured <= max)

TextMatches(assert, text) ==
    CASE assert.type = "contains" -> Contains(text, assert.value)
      [] assert.type = "icontains" -> Contains(Lower(text), Lower(assert.value))
      [] assert.type = "icontains-any" -> \E v \in assert.values : Contains(Lower(text), Lower(v))
      [] assert.type = "starts-with" -> StartsAt(text, assert.value, 0)
      [] assert.type = "equals" -> text = assert.value
      [] assert.type = "length" -> Len(text) \in assert.min..assert.max

\* output: its text, json and embedded; and what was measured of the call.
evaluate_kind(assert, output) ==
    CASE assert.type = "regex" ->
            IF assert.value = Broken THEN Unevaluable
            ELSE Verdict(\E v \in assert.value : Contains(output.text, v))
      [] assert.type = "is-json" -> Verdict(output.json # NoJson)
      [] assert.type = "contains-json" ->
            IF output.embedded = NoJson THEN Verdict(FALSE)
            ELSE IF assert.schema = NoJson THEN Verdict(TRUE)
            ELSE validate_against(output.embedded, assert.schema)
      [] assert.type = "tool-call" -> tool_call(assert, output.calls)
      [] assert.type = "jinja" ->
            IF assert.value = Broken THEN Unevaluable ELSE Verdict(output.text \in assert.value)
      [] assert.type = "cost" -> WithinBudget(output.cost, assert.max)
      [] assert.type = "latency" -> Verdict(output.latency <= assert.max)
      [] assert.type = "tokens" ->
            WithinBudget(IF assert.billable THEN output.billable ELSE output.tokens, assert.max)
      [] OTHER -> Verdict(TextMatches(assert, output.text))

is_local(assert) == assert.type \notin {"exec", "llm-rubric", "similar"}

Budgets == {"cost", "latency", "tokens"}

\* Nothing was produced for the assertion to be about.
guard_applies(assert, output) ==
    output.calls = <<>> /\ output.text = <<>> /\ assert.type \notin Budgets

\* What a negated assertion finds missing in an empty output is no evidence.
deny_vacuous_negated_pass(o, negate) == IF negate /\ o.passed THEN Verdict(FALSE) ELSE o

negate_and_guard(o, assert, output) ==
    LET n == negated(o, assert.negate) IN
    IF guard_applies(assert, output) THEN deny_vacuous_negated_pass(n, assert.negate) ELSE n

evaluate_local(assert, output) == negate_and_guard(evaluate_kind(assert, output), assert, output)

-----------------------------------------------------------------------------
(***************************************************************************)
(* `domarinn import promptfoo`, from src/crates/domarinn-cli/src/import.rs:*)
(* what becomes of the providers, prompts, tests and assertions of a       *)
(* promptfoo config, and of what has no counterpart.                       *)
(*                                                                         *)
(* A note is a tuple that names the element and the keys it is about.  The *)
(* meaning of a converted assertion is the evaluation above.              *)
(***************************************************************************)

CONSTANTS PromptfooConfigs,   \* configs: providers, prompts, default, tests, extra
          Absent,             \* a key that is not there
          Misfit,             \* a value of another form than is read in its place
          OwnAsserts,         \* assertions added to the suite by hand
          JudgedOutputs       \* outputs: text, json, embedded, calls and measures

VARIABLES source,             \* the config that is read
          imported,           \* the suite and the notes, or Absent
          judged              \* the output that its assertions are about, or Absent

importVars == <<source, imported, judged>>

Converted(items, notes) == [items |-> items, notes |-> notes]

\* The conversions of a list one after the other.
Concat(list) ==
    Converted([n \in 1..Len(list) |-> list[n].items], UNION {list[n].notes : n \in DOMAIN list})

\* A note for keys, unless there are none.
Unconverted(where, keys) == IF keys = {} THEN {} ELSE {<<where, keys>>}

----------------------------------------------------------------------------
(* Providers.                                                              *)

PARAM_KEYS == {"temperature", "max_tokens"}

\* What a spec such as `openai:chat:m` stands for.
provider_from_spec(spec) ==
    LET Kind(type) == [type |-> type, model |-> spec.model, local |-> FALSE, params |-> {}]
        Noted(type, why) == Converted(Kind(type), {<<"provider", {why}>>})
    IN CASE spec.vendor \in {"openai", "ollama"} ->
            LET type == IF spec.mode = "embedding" THEN "embeddings" ELSE "openai"
                p == [Kind(type) EXCEPT !.local = spec.vendor = "ollama"]
                renamed == IF spec.vendor = "openai" THEN {"completion", "responses"} ELSE {"completion"}
            IN Converted(p, IF spec.mode \in renamed THEN {<<"provider", {"mode"}>>} ELSE {})
         [] spec.vendor = "anthropic" ->
            IF spec.mode = "completion" THEN Noted("anthropic", "mode") ELSE Converted(Kind("anthropic"), {})
         [] spec.vendor = "exec" ->
            IF spec.mode = "quoted" THEN Noted("exec", "mode") ELSE Converted(Kind("exec"), {})
         [] spec.vendor = "http" -> Converted(Kind("http"), {})
         [] OTHER -> Noted("exec", "vendor")

\* A key is carried over under its own name or another, or noted.
ParamOf(spec, key) == IF key = "num_predict" /\ spec.vendor = "ollama" THEN "max_tokens" ELSE key

apply_provider_config(p, spec, config) ==
    IF p.type \notin {"openai", "anthropic", "embeddings"}
    THEN Converted(p, Unconverted("config", config))
    ELSE LET params == {k \in config : ParamOf(spec, k) \in PARAM_KEYS}
             named == config \cap {"apiBaseUrl", "apiKeyEnvar"}
             secret == config \cap {"apiKey"}
         IN Converted([p EXCEPT !.params = {ParamOf(spec, k) : k \in params} \cup named],
                      Unconverted("secret", secret)
                      \cup Unconverted("config", config \ (params \cup named \cup secret)))

\* A text, a mapping with an id or one that has the spec for its only key; or nothing.
\* Nothing is read of a `config` that is no mapping.
convert_provider(entry) ==
    IF entry.form \notin {"text", "mapping"} THEN Converted({}, {<<"provider", {"form"}>>})
    ELSE LET made == provider_from_spec(entry.spec)
             configured == IF entry.config = Misfit THEN Converted(made.items, {})
                           ELSE apply_provider_config(made.items, entry.spec, entry.config)
         IN IF entry.form = "text" THEN Converted({made.items}, made.notes)
            ELSE Converted({configured.items},
                           made.notes \cup configured.notes \cup Unconverted("provider", entry.extra))

convert_providers(list) ==
    IF list = Absent THEN Converted(<<>>, {<<"config", {"providers"}>>})
    ELSE Concat([n \in DOMAIN list |-> convert_provider(list[n])])

----------------------------------------------------------------------------
(* Prompts.                                                                *)

convert_prompt(entry) ==
    IF entry \in {"text", "raw", "id"} THEN Converted({entry}, {}) ELSE Converted({}, {<<"prompt", {entry}>>})

convert_prompts(list) ==
    IF list = Absent THEN Converted(<<>>, {}) ELSE Concat([n \in DOMAIN list |-> convert_prompt(list[n])])

----------------------------------------------------------------------------
(* Assertions.  One of promptfoo's has a type, a value, whether it is      *)
(* negated, a weight, a threshold and further keys.                        *)

\* A value is a text or a list of texts.
string_list(value) == IF value = Absent THEN Absent ELSE value

Assertion(type) == [type |-> type, negate |-> FALSE]
WithValue(type, value) == [type |-> type, negate |-> FALSE, value |-> value]

\* What is measured counts in parts, of a millisecond or of money.
Millisecond == 2

\* max.ceil(): a budget in whole milliseconds.
Ceil(max) == Millisecond * ((max + Millisecond - 1) \div Millisecond)

\* The budget of `cost` and `latency`: the value where there is no threshold.
BudgetOf(a) == IF a.threshold # Absent THEN a.threshold ELSE a.value

\* The alternatives of a list, as a regex; that of no texts matches everything.
Alternation(values) == IF values = {} THEN {<<>>} ELSE values

\* The assertions for one of a type, or nothing when it has no counterpart.
convert_base(a) ==
    CASE a.type \in {"contains", "icontains", "starts-with", "equals"} ->
            IF a.value = Absent THEN {} ELSE {{WithValue(a.type, a.value)}}
      [] a.type = "regex" -> IF a.value = Absent THEN {} ELSE {{WithValue("regex", a.value)}}
      [] a.type = "is-json" -> IF a.value # Absent THEN {} ELSE {{Assertion("is-json")}}
      [] a.type = "contains-json" ->
            {{[type |-> "contains-json", negate |-> FALSE,
               schema |-> IF a.value = Absent THEN NoJson ELSE a.value]}}
      [] a.type = "contains-any" ->
            IF string_list(a.value) = Absent THEN {} ELSE {{WithValue("regex", Alternation(a.value))}}
      [] a.type = "icontains-any" ->
            IF string_list(a.value) = Absent THEN {}
            ELSE {{[type |-> "icontains-any", negate |-> FALSE, values |-> a.value]}}
      [] a.type \in {"contains-all", "icontains-all"} ->
            IF a.negate \/ string_list(a.value) = Absent THEN {}
            ELSE {{WithValue(IF a.type = "contains-all" THEN "contains" ELSE "icontains", v) : v \in a.value}}
      [] a.type \in {"llm-rubric", "similar"} ->
            IF a.value = Absent THEN {}
            ELSE {{[type |-> a.type, negate |-> FALSE, value |-> a.value, threshold |-> a.threshold]}}
      [] a.type \in {"cost", "latency"} ->
            IF a.negate \/ BudgetOf(a) \in {Absent, Misfit} THEN {}
            ELSE {{[type |-> a.type, negate |-> FALSE,
                    max |-> IF a.type = "latency" THEN Ceil(BudgetOf(a)) ELSE BudgetOf(a)]}}
      [] OTHER -> {}

UnsharedWeight(weight, n) == weight

\* The weight of one assertion is shared by those it becomes.  Weights are
\* counted in parts, of which there are enough to share.
SharedWeight(weight, n) == IF weight = Absent THEN Absent ELSE weight \div n

convert_assert(a) ==
    IF a.type = Absent THEN Converted({}, {<<"assert", {"type"}>>})
    ELSE LET noted == Unconverted("assert", a.extra) IN
         IF convert_base(a) = {} THEN Converted({}, noted \cup {<<"assert", {a.type}>>})
         ELSE LET made == CHOOSE s \in convert_base(a) : TRUE
              IN Converted({[assert |-> [m EXCEPT !.negate = a.negate],
                             weight |-> SharedWeight(a.weight, Cardinality(made))] : m \in made}, noted)

\* Nothing is read of an `assert` that is no list.
convert_asserts(list) ==
    IF list \in {Absent, Misfit} THEN Converted(<<>>, {})
    ELSE Concat([n \in DOMAIN list |-> convert_assert(list[n])])

----------------------------------------------------------------------------
(* Tests.                                                                  *)

\* A list among the variables is an axis of the matrix.
convert_test_case(t) ==
    LET asserts == convert_asserts(t.assert) IN
    Converted([vars |-> IF t.vars = Misfit THEN {} ELSE {v \in t.vars : ~v.list},
               matrix |-> IF t.vars = Misfit THEN {} ELSE {v \in t.vars : v.list},
               assert |-> asserts.items, threshold |-> t.threshold],
              asserts.notes \cup Unconverted("test", t.extra)
              \cup (IF t.vars = Misfit THEN {<<"test", {"vars"}>>} ELSE {}))

\* A file of tests is left to be loaded; a program that makes tests is not.
convert_test_file(name) ==
    CASE name = "file" -> Converted({name}, {<<"test", {name}>>})
      [] OTHER -> Converted({}, {<<"test", {name}>>})

convert_test(t) ==
    CASE t.form = "text" -> convert_test_file(t.name)
      [] t.form = "mapping" -> LET made == convert_test_case(t) IN Converted({made.items}, made.notes)
      [] OTHER -> Converted({}, {<<"test", {"form"}>>})

convert_tests(list) ==
    IF list = Absent THEN Converted(<<>>, {}) ELSE Concat([n \in DOMAIN list |-> convert_test(list[n])])

\* Nothing is read of a defaultTest that is no mapping.
convert_default_test(t) ==
    IF t \in {Absent, Misfit} THEN Converted({}, {})
    ELSE LET made == convert_asserts(t.assert)
         IN Converted({[vars |-> t.vars, assert |-> made.items, threshold |-> t.threshold]},
                      made.notes \cup Unconverted("default", t.extra))

----------------------------------------------------------------------------
(* The command: one config, read and converted.                            *)

convert(src) ==
    LET providers == convert_providers(src.providers)
        prompts == convert_prompts(src.prompts)
        default == convert_default_test(src.default)
        tests == convert_tests(src.tests)
    IN [providers |-> providers.items, prompts |-> prompts.items, default |-> default.items,
        tests |-> tests.items,
        notes |-> providers.notes \cup prompts.notes \cup default.notes \cup tests.notes
                  \cup Unconverted("config", src.extra)]

ImportInit == source \in PromptfooConfigs /\ imported = Absent /\ judged = Absent

Import == imported = Absent /\ imported' = convert(source) /\ UNCHANGED <<source, judged>>

\* An output of a run of the suite is judged.
JudgeOutput ==
    /\ imported # Absent /\ judged = Absent
    /\ judged' \in JudgedOutputs
    /\ UNCHANGED <<source, imported>>

ImportNext == Import \/ JudgeOutput

----------------------------------------------------------------------------
(* What promptfoo says of an output.                                       *)

Meant(a, o) ==
    LET texts == IF a.type \in {"icontains-any", "icontains-all", "icontains"} THEN Lower(o.text) ELSE o.text
        holds == CASE a.type \in {"contains", "icontains"} ->
                        Contains(texts, IF a.type = "icontains" THEN Lower(a.value) ELSE a.value)
                   [] a.type = "starts-with" -> StartsAt(texts, a.value, 0)
                   [] a.type = "equals" -> texts = a.value
                   [] a.type \in {"regex", "contains-any"} -> \E v \in a.value : Contains(texts, v)
                   [] a.type = "contains-all" -> \A v \in a.value : Contains(texts, v)
                   [] a.type = "icontains-any" -> \E v \in a.value : Contains(texts, Lower(v))
                   [] a.type = "icontains-all" -> \A v \in a.value : Contains(texts, Lower(v))
                   [] a.type = "is-json" -> o.json # NoJson
                   [] a.type = "contains-json" ->
                        o.embedded # NoJson /\ (a.value # Absent => o.embedded \in a.value)
                   [] a.type = "cost" -> o.cost = NoJson \/ o.cost <= BudgetOf(a)
                   [] a.type = "latency" -> o.latency <= BudgetOf(a)
    IN holds # a.negate

\* The tests of the config that are mappings, with what became of them.
TestsConverted ==
    {<<source.tests[n], CHOOSE t \in imported.tests[n] : TRUE>> :
        n \in {m \in DOMAIN source.tests : source.tests[m].form = "mapping"}}

Produced(o) == o.text # <<>> \/ o.calls # <<>>

\* What an assertion becomes says of an output what it said.  Two differences:
\* a latency budget is rounded up, so that it is looser by less than a
\* millisecond; and one that cannot be evaluated passes nothing, but for a
\* schema that nothing is held against.
MeansTheSame(a, passes) ==
    CASE a.value = Broken -> passes => a.negate /\ a.type = "contains-json" /\ judged.embedded = NoJson
      [] a.value # Broken /\ a.type = "latency" ->
            /\ Meant(a, judged) => passes
            /\ passes => judged.latency < BudgetOf(a) + Millisecond
      [] OTHER -> passes <=> Meant(a, judged)

\* A list of texts with none in it: it becomes nothing, or what always matches,
\* without a note.
EmptyList(a) == a.type \in {"contains-any", "contains-all", "icontains-all"} /\ a.value = {}

\* An assertion of the config is noted as missing, or those that it became mean
\* the same, and weigh together what it weighed.
AssertKept(a, made) ==
    \/ EmptyList(a)
    \/ made = {} /\ (a.type = Absent \/ \E note \in imported.notes : a.type \in note[2])
    \/ /\ made # {}
       /\ (judged # Absent /\ Produced(judged) /\ (\A x \in made : is_local(x.assert))) =>
             MeansTheSame(a, \A m \in made : evaluate_local(m.assert, judged).passed)
       /\ a.weight # Absent => MapThenSumSet(LAMBDA m : m.weight, made) = a.weight

\* An assertion and its opposite are never both satisfied, and one of them is
\* where there is an output and the assertion can be evaluated; in which order
\* calls were made does not matter to either.
OppositesExclude(a) ==
    LET yes == evaluate_local([a EXCEPT !.negate = FALSE], judged)
        no == evaluate_local([a EXCEPT !.negate = TRUE], judged)
        turned == [judged EXCEPT !.calls = [n \in DOMAIN @ |-> @[Len(@) + 1 - n]]]
    IN /\ ~(yes.passed /\ no.passed)
       /\ Produced(judged) /\ ~yes.unevaluable => yes.passed \/ no.passed
       /\ evaluate_local([a EXCEPT !.negate = FALSE], turned) = yes

\* What is imported keeps its meaning, for every output of the suite, and what is
\* not carried over is noted: assertions, keys of the config, of a provider, of
\* its own configuration and of a test, and variables (convert, convert_assert,
\* apply_provider_config, evaluate_local).  Left out in silence, against what
\* the head of import.rs says, are: an `assert` that is no list, a `defaultTest`
\* and a provider's `config` that are no mapping, and the empty lists of
\* `contains-any` and `contains-all` (EmptyList).
ImportKeepsMeaning ==
    imported # Absent =>
      /\ \A pair \in TestsConverted :
           LET t == pair[1] IN
           /\ t.assert \notin {Absent, Misfit} =>
                \A k \in DOMAIN t.assert :
                  /\ AssertKept(t.assert[k], pair[2].assert[k])
                  /\ t.assert[k].type # Absent =>
                        Unconverted("assert", t.assert[k].extra) \subseteq imported.notes
           /\ IF t.vars = Misfit THEN <<"test", {"vars"}>> \in imported.notes
              ELSE t.vars = pair[2].vars \cup pair[2].matrix
           /\ \A key \in t.extra : \E note \in imported.notes : key \in note[2]
      /\ source.providers # Absent => \A n \in DOMAIN source.providers :
           LET p == source.providers[n] IN
           p.form = "mapping" =>
             \A key \in (IF p.config = Misfit THEN {} ELSE p.config) \cup p.extra :
               \/ \E made \in imported.providers[n] : ParamOf(p.spec, key) \in made.params
               \/ \E note \in imported.notes : key \in note[2]
      /\ \A key \in source.extra : \E note \in imported.notes : key \in note[2]
      /\ judged # Absent => \A a \in OwnAsserts : OppositesExclude(a)
=============================================================================
