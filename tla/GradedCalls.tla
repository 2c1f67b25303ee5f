---------------------------- MODULE GradedCalls ----------------------------
(***************************************************************************)
(* What a graded assert asks and what it makes of the answer, from         *)
(* domarinn-core/src: grader.rs, grader_llm.rs, embeddings.rs, and the     *)
(* older verdict keys of cache_migrate.rs.                                 *)
(*                                                                         *)
(* A text is a sequence of tokens, and a token is a word or a placeholder: *)
(* outputs and rubrics may contain what looks like a placeholder.  A       *)
(* grading is one step, its answer the one that ask_live ends with; how    *)
(* exchanges interleave and are asked again is GraderExchange.             *)
(***************************************************************************)
EXTENDS Integers, Sequences, FiniteSets

LOCAL INSTANCE SequencesExt

CONSTANTS
    GradingSuites,   \* the graded asserts of a suite, each with its grader's configuration
    GradedCases,     \* what is graded: output, calls, vars, test, provider
    GraderEnvirons,  \* values of the environment variables
    JudgeAnswers, CheckerAnswers, EmbeddingAnswers, \* what the three answer
    OldOrigins,      \* pairs of a grading and a case that an older version stored
    TopScore,        \* the score 1.0
    MaxUsage,        \* the largest count of tokens
    MaxGradings,     \* bound: gradings
    Nothing, Unset

VARIABLES
    asserts,         \* the graded asserts of the suite at hand, which does not change
    verdictStore,        \* the store: key -> payload and its price; history: what was asked
    graded,          \* the last grading and what came of it
    gradings         \* gradings made

gradedVars == <<asserts, verdictStore, graded, gradings>>

----------------------------------------------------------------------------
(* The message of a judge.                                                 *)

Place(name) == <<"place", name>>
RUBRIC == Place("rubric")
OUTPUT == Place("output")
TOOL_CALLS == Place("tool_calls")
WithoutIds(c) == [n \in DOMAIN c.calls |-> <<"call", c.calls[n].name, c.calls[n].args>>]

\* The ids of the calls are left out.
format_tool_calls(c) == WithoutIds(c)

FillOne(text, place, value) ==
    FlattenSeq([n \in DOMAIN text |-> IF text[n] = place THEN value ELSE <<text[n]>>])
SubstituteInTurn(text, rubric, output, calls) ==
    FillOne(FillOne(FillOne(text, RUBRIC, rubric), OUTPUT, output), TOOL_CALLS, calls)

\* What is filled in is not looked at again.
substitute_once(text, rubric, output, calls) ==
    FlattenSeq([n \in DOMAIN text |-> CASE text[n] = RUBRIC -> rubric
                                        [] text[n] = OUTPUT -> output
                                        [] text[n] = TOOL_CALLS -> calls
                                        [] OTHER -> <<text[n]>>])

\* The template is read where it is used; calls are shown where it has a place
\* for them, and only there.
read_grader_template(g) == g.template.reads
TemplateFits(g) ==
    /\ read_grader_template(g)
    /\ g.include_calls <=> \E n \in DOMAIN g.template.text : g.template.text[n] = TOOL_CALLS

DefaultTemplate(g) ==
    <<<<"word", "RUBRIC">>, RUBRIC, <<"word", "OUTPUT">>, OUTPUT>>
    \o (IF g.include_calls THEN <<<<"word", "CALLS">>, TOOL_CALLS>> ELSE <<>>)

TemplateOf(g) == IF g.template = Nothing THEN DefaultTemplate(g) ELSE g.template.text

grading_user_message(g, c) ==
    substitute_once(TemplateOf(g), g.rubric, c.output, format_tool_calls(c))

----------------------------------------------------------------------------
(* What is sent, and under which key its answer is kept.                   *)

Over(f, g) == [x \in DOMAIN f \cup DOMAIN g |-> IF x \in DOMAIN g THEN g[x] ELSE f[x]]

\* The assert's parameters over the provider's.
merge_params(g) == Over(g.params, g.assert_params)

\* A member of the overlay is literal or read from the environment, which the
\* key does not.
OnTheWire(overlay, e) == [x \in DOMAIN overlay |-> IF overlay[x][1] = "env" THEN <<"text", e[overlay[x][2]]>> ELSE overlay[x]]
Readable(overlay, e) == \A x \in DOMAIN overlay : overlay[x][1] = "env" => e[overlay[x][2]] # Unset

JudgeMembers(g, c) ==
    LET user == <<"message", grading_user_message(g, c)>>
        own == IF g.vendor = "anthropic"
               THEN [x \in {"model", "system", "messages", "tools"} |->
                        CASE x = "model" -> <<"text", g.model>> [] x = "messages" -> user [] OTHER -> <<"text", "verdict">>]
               ELSE [x \in {"model", "messages", "response_format"} |->
                        CASE x = "model" -> <<"text", g.model>> [] x = "messages" -> user [] OTHER -> <<"text", "verdict">>]
        body == Over(merge_params(g), own)
    IN IF g.vendor = "anthropic" THEN Over([x \in {"max_tokens"} |-> <<"text", "default">>], body) ELSE body

EmbeddingMembers(g, text) ==
    Over(g.params, [x \in {"model", "input"} |-> IF x = "model" THEN <<"text", g.model>> ELSE <<"message", text>>])

\* What a checker is told.  The key leaves out the test, and the environment
\* among the variables.
AssertReq(g, c, e) ==
    [output |-> c.output, calls |-> c.calls, test |-> c.test, provider |-> c.provider,
     config |-> g.config, vars |-> c.vars, env |-> e]
WithoutVars(g, c) == <<g.command, c.output, c.calls, c.provider, g.config>>
exec_assert_canonical(g, c) == <<g.command, c.output, c.calls, c.provider, g.config, c.vars>>

GraderCall(key, wire) == [key |-> key, wire |-> wire]

\* The calls of a grading: a judge's, a checker's, or one for each text.
CallsOf(g, c, e) ==
    CASE g.kind = "llm-rubric" ->
            LET m == JudgeMembers(g, c) IN
            <<GraderCall([as |-> "judge", path |-> g.path, body |-> Over(m, g.overlay), salt |-> g.salt],
                   [told |-> Over(m, OnTheWire(g.overlay, e)), at |-> <<g.base, g.path>>])>>
      [] g.kind = "exec" ->
            <<GraderCall([as |-> "exec", request |-> exec_assert_canonical(g, c), salt |-> g.salt],
                   [told |-> AssertReq(g, c, e), at |-> <<g.command>>])>>
      [] g.kind = "similar" ->
            [n \in 1..2 |->
                LET m == EmbeddingMembers(g, IF n = 1 THEN c.output ELSE g.rubric) IN
                GraderCall([as |-> "embedding", path |-> g.path, body |-> Over(m, g.overlay), salt |-> g.salt],
                     [told |-> Over(m, OnTheWire(g.overlay, e)), at |-> <<g.base, g.path>>])]

\* What is wrong before anything is looked up.
Unprepared(g, e) ==
    CASE g.kind = "exec" -> Nothing
      [] g.vendor = Nothing -> "unconfigured"
      [] g.rubric = Nothing -> "misconfigured"
      [] g.kind = "llm-rubric" /\ g.template # Nothing /\ ~TemplateFits(g) -> "misconfigured"
      [] g.vendor \notin {"anthropic", "openai"} -> "unsupported"
      [] ~Readable(g.overlay, e) -> "misconfigured"
      [] g.kind = "llm-rubric" /\ g.vendor = "anthropic" /\ "thinking" \in DOMAIN merge_params(g) -> "misconfigured"
      [] OTHER -> Nothing

----------------------------------------------------------------------------
(* What the answers are read as.                                           *)

GradingFails(error) == [error |-> error]
Clamped(score) == IF score < 0 THEN 0 ELSE IF score > TopScore THEN TopScore ELSE score

\* pass has to be a boolean and score a number.
from_json(input) ==
    IF input.pass = Nothing \/ input.score = Nothing THEN GradingFails("invalid_verdict")
    ELSE [pass |-> input.pass, score |-> Clamped(input.score)]

\* Of the tool uses, the one that has the verdict's name, or the only one.
ChosenInput(tools) ==
    LET named == {n \in DOMAIN tools : tools[n].name = "submit_verdict"} IN
    IF named # {} THEN tools[CHOOSE n \in named : \A m \in named : n <= m].input
    ELSE IF Len(tools) = 1 THEN tools[1].input ELSE Nothing

parse_judge(vendor, payload) ==
    IF payload.truncated THEN GradingFails("truncated_verdict")
    ELSE LET input == IF vendor = "anthropic" THEN ChosenInput(payload.tools) ELSE payload.content
         IN IF input = Nothing THEN GradingFails("invalid_verdict") ELSE from_json(input)

\* A checker that sends no score scores by its verdict.
parse_checker(payload) ==
    IF payload.pass = Nothing THEN GradingFails("exec_failed")
    ELSE [pass |-> payload.pass,
          score |-> IF payload.score # Nothing THEN payload.score ELSE IF payload.pass THEN TopScore ELSE 0]

\* The numbers of the vector, if there is one.
parse_embedding(payload) ==
    LET numbers == SelectSeq(payload.vector, LAMBDA x : x # Nothing)
    IN IF numbers = <<>> THEN GradingFails("invalid_verdict") ELSE [vector |-> numbers]

parse(g, payload) ==
    CASE g.kind = "llm-rubric" -> parse_judge(g.vendor, payload)
      [] g.kind = "exec" -> parse_checker(payload)
      [] g.kind = "similar" -> parse_embedding(payload)

IsError(parsed) == "error" \in DOMAIN parsed

\* post_judge, EmbeddingsProvider::post and run_exec_json: an answer that is no
\* payload.  Without a credential there is none.
NoCredential(g, e) == g.auth /\ e["KEY"] = Unset
status_class(status) ==
    IF status \in {401, 403} THEN "auth_rejected"
    ELSE IF status = 429 \/ status >= 500 THEN "transport" ELSE "misconfigured"
post_error(g, e, answer) ==
    CASE g.kind = "exec" -> IF answer.how = "ok" THEN Nothing ELSE "exec_failed"
      [] g.kind = "similar" -> IF answer.how = "ok" /\ ~NoCredential(g, e) THEN Nothing ELSE "transport"
      [] g.kind = "llm-rubric" ->
            IF NoCredential(g, e) THEN "misconfigured"
            ELSE CASE answer.how = "ok" -> Nothing
                   [] answer.how = "garbled" -> "invalid_verdict"
                   [] answer.how = "status" -> status_class(answer.status)
                   [] answer.how = "unreachable" -> "transport"

\* The price of a payload: nothing when its tokens or the rate are not known.
priced(g, payload) ==
    IF g.kind = "exec" \/ g.rate = Nothing \/ payload.usage = Nothing THEN Nothing ELSE g.rate * payload.usage

sum_usage(a, b) ==
    IF a = Nothing /\ b = Nothing THEN Nothing
    ELSE LET sum == (IF a = Nothing THEN 0 ELSE a) + (IF b = Nothing THEN 0 ELSE b)
         IN IF sum > MaxUsage THEN MaxUsage ELSE sum

\* The cosine as its sign, and as the squares of both sides of the quotient;
\* vectors that cannot be compared have none.
Dot(a, b) == FoldLeft(LAMBDA sum, n : sum + a[n] * b[n], 0, [n \in DOMAIN a |-> n])
cosine(a, b) ==
    IF Len(a) # Len(b) \/ Dot(a, a) = 0 \/ Dot(b, b) = 0 THEN [dot |-> 0, of |-> 1]
    ELSE [dot |-> Dot(a, b), of |-> Dot(a, a) * Dot(b, b)]

----------------------------------------------------------------------------
(* Older versions kept verdictStore, under the assert and what was graded.     *)

legacy_grading_fingerprint(g) ==
    IF g.kind = "exec" THEN <<"exec", g.command, g.salt>>
    ELSE <<"llm-rubric", g.vendor, g.model, g.base, g.params, g.assert_params, g.template>>

legacy_graded_payload(g, c, e) ==
    IF g.kind = "exec" THEN <<"exec", g.config, c.output, c.vars, e, c.test, c.provider>>
    ELSE <<"llm-rubric", g.rubric, c.output>>

legacy_grader_verdict_key(g, c, e) ==
    [as |-> "verdict", of |-> legacy_grading_fingerprint(g), on |-> legacy_graded_payload(g, c, e)]

\* Calls were not shown then, so that where they are there is no older verdict.
HasOldVerdict(g, c) ==
    CASE g.kind = "llm-rubric" -> ~g.include_calls
      [] g.kind = "exec" -> c.calls = <<>>
      [] g.kind = "similar" -> FALSE

legacy_verdict(g, c, e) == legacy_grader_verdict_key(g, c, e)

----------------------------------------------------------------------------
(* A grading.                                                              *)

AnswersTo(g) ==
    CASE g.kind = "llm-rubric" -> JudgeAnswers[g.vendor]
      [] g.kind = "exec" -> CheckerAnswers
      [] g.kind = "similar" -> EmbeddingAnswers

Stored(k) == k \in DOMAIN verdictStore

\* serve: a verdict of an older version, or a payload that is still accepted.
Adopted(k) == Stored(k) /\ verdictStore[k].outcome # Nothing
Usable(g, k) == Stored(k) /\ ~Adopted(k) /\ ~IsError(parse(g, verdictStore[k].payload))

\* The outcome of parsed answers, with what they used and cost.  A price that is
\* not known today is the one it was stored with.
Outcome(g, parsed, entries) ==
    LET cost(n) == IF priced(g, entries[n].payload) # Nothing THEN priced(g, entries[n].payload) ELSE entries[n].cost
    IN CASE g.kind = "similar" ->
               [verdict |-> cosine(parsed[1].vector, parsed[2].vector),
                usage |-> sum_usage(entries[1].payload.usage, entries[2].payload.usage),
                cost |-> LET a == priced(g, entries[1].payload) b == priced(g, entries[2].payload)
                         IN IF a = Nothing \/ b = Nothing THEN Nothing ELSE a + b]
         [] g.kind = "exec" -> [verdict |-> parsed[1], usage |-> Nothing, cost |-> Nothing]
         [] g.kind = "llm-rubric" -> [verdict |-> parsed[1], usage |-> entries[1].payload.usage, cost |-> cost(1)]

Ends(g, c, e, how, sources, outcome) ==
    /\ gradings' = gradings + 1 /\ UNCHANGED asserts
    /\ graded' = [g |-> g, c |-> c, e |-> e, how |-> how, from |-> sources, outcome |-> outcome]

\* It cannot be asked.
GradeUnprepared(g, c, e) ==
    /\ Unprepared(g, e) # Nothing
    /\ Ends(g, c, e, "error", <<>>, GradingFails(Unprepared(g, e)))
    /\ UNCHANGED verdictStore

\* The verdict of an older version, for a call that has no entry of its own.
OldVerdictFor(g, c, e) ==
    /\ HasOldVerdict(g, c) /\ Stored(legacy_verdict(g, c, e))
    /\ ~Adopted(CallsOf(g, c, e)[1].key) /\ ~Usable(g, CallsOf(g, c, e)[1].key)

GradeFromOld(g, c, e) ==
    LET old == verdictStore[legacy_verdict(g, c, e)]
        key == CallsOf(g, c, e)[1].key
    IN /\ Unprepared(g, e) = Nothing
       /\ OldVerdictFor(g, c, e)
       /\ verdictStore' = Over([k \in {key} |-> old], verdictStore)
       /\ Ends(g, c, e, "old", <<old>>, old.outcome)

\* It was adopted before, and is kept under the key of today.
GradeFromAdopted(g, c, e) ==
    LET key == CallsOf(g, c, e)[1].key IN
    /\ Unprepared(g, e) = Nothing
    /\ Adopted(key)
    /\ Ends(g, c, e, "old", <<verdictStore[key]>>, verdictStore[key].outcome)
    /\ UNCHANGED verdictStore

\* Answers that are stored are used, unless they are no longer accepted; others
\* are asked for, and kept when they are accepted.  When one of two fails, the
\* other may be dropped before it is kept.
GradeByAnswers(g, c, e) ==
    LET calls == CallsOf(g, c, e)
        asked == {n \in DOMAIN calls : ~Usable(g, calls[n].key)}
        entry(n, p) == [payload |-> p, cost |-> priced(g, p), told |-> calls[n].wire, outcome |-> Nothing]
    IN /\ Unprepared(g, e) = Nothing
       /\ ~Adopted(calls[1].key) /\ ~OldVerdictFor(g, c, e)
       /\ \E answer \in [asked -> AnswersTo(g)] :
            LET refused == {n \in asked : post_error(g, e, answer[n]) # Nothing}
                entries == [n \in DOMAIN calls |->
                              IF n \in asked THEN entry(n, answer[n]) ELSE verdictStore[calls[n].key]]
                read == DOMAIN calls \ refused
                parsed == [n \in read |-> parse(g, entries[n].payload)]
                failed == refused \cup {n \in read : IsError(parsed[n])}
                keepable == {calls[n].key : n \in asked \ failed}
                error(n) == IF n \in refused THEN GradingFails(post_error(g, e, answer[n])) ELSE parsed[n]
            IN \E kept \in IF failed = {} THEN {keepable} ELSE SUBSET keepable :
                 /\ verdictStore' = Over([k \in kept |->
                                        entries[CHOOSE n \in asked \ failed : calls[n].key = k]], verdictStore)
                 /\ \/ /\ failed = {}
                       /\ Ends(g, c, e, IF asked = {} THEN "store" ELSE "live", entries, Outcome(g, parsed, entries))
                    \/ \E n \in failed : Ends(g, c, e, "error", <<>>, error(n))

\* What an older version left: the judge's verdict on what it was told then.
OldEntry(o) ==
    [payload |-> Nothing, cost |-> Nothing, told |-> CallsOf(o.g, o.c, o.e)[1].wire,
     outcome |-> [verdict |-> [pass |-> TRUE, score |-> TopScore], usage |-> Nothing, cost |-> Nothing]]

GradedInit ==
    /\ asserts \in GradingSuites
    /\ verdictStore \in {[k \in {} |-> Nothing]}
                    \cup {[k \in {legacy_grader_verdict_key(o.g, o.c, o.e)} |-> OldEntry(o)] : o \in OldOrigins}
    /\ graded = Nothing /\ gradings = 0

GradedNext ==
    /\ gradings < MaxGradings
    /\ \E g \in asserts, c \in GradedCases, e \in GraderEnvirons :
         GradeUnprepared(g, c, e) \/ GradeFromOld(g, c, e) \/ GradeByAnswers(g, c, e) \/ GradeFromAdopted(g, c, e)

----------------------------------------------------------------------------
Times(token, text) == Cardinality({n \in DOMAIN text : text[n] = token})

\* A judge reads every place of the template filled with what belongs there, word
\* for word, whatever these words look like.
MessageIsWhole(g, c) ==
    LET message == grading_user_message(g, c)
        template == TemplateOf(g)
        calls == format_tool_calls(c)
    IN \A token \in {message[n] : n \in DOMAIN message} \cup {c.output[n] : n \in DOMAIN c.output} :
         Times(token, message) =
             (IF token \in {RUBRIC, OUTPUT, TOOL_CALLS} THEN 0 ELSE Times(token, template))
             + Times(RUBRIC, template) * Times(token, g.rubric)
             + Times(OUTPUT, template) * Times(token, c.output)
             + Times(TOOL_CALLS, template) * Times(token, calls)

\* What was told then is what would be told now.  What the environment and
\* the test add is not part of it, nor, for an older verdict, a `request:`.
SameQuestion(g, then, now, old) ==
    IF g.kind = "exec" THEN [then.told EXCEPT !.test = now.told.test, !.env = now.told.env] = now.told
    ELSE LET free == {x \in DOMAIN g.overlay : old \/ g.overlay[x][1] = "env"}
         IN /\ DOMAIN then.told \cup free = DOMAIN now.told \cup free
            /\ \A x \in DOMAIN now.told \ free : then.told[x] = now.told[x]
            /\ old \/ then.at[2] = now.at[2]

\* A verdict is the answer to what this assert asks about this output, whether it
\* is given now, kept, or kept by an older version: the judge, the checker or the
\* embedding was told the same, calls and parameters included.  A judge is told
\* the rubric and the output as they are, and scores between 0 and 1; a replay
\* stays priced; a cosine is one (grading_user_message, substitute_once,
\* exec_assert_canonical, legacy_verdict, Judge::request and parse, cosine).
GradedAsAsked ==
    graded # Nothing =>
        LET g == graded.g c == graded.c calls == CallsOf(g, c, graded.e) IN
        /\ g.kind = "llm-rubric" /\ graded.how # "error" => MessageIsWhole(g, c)
        /\ \A n \in DOMAIN graded.from :
             SameQuestion(g, graded.from[n].told, calls[n].wire, graded.how = "old")
        /\ graded.how \in {"live", "store"} =>
             /\ g.kind = "llm-rubric" =>
                  /\ graded.outcome.verdict.score \in 0..TopScore
                  /\ graded.from[1].cost # Nothing => graded.outcome.cost # Nothing
             /\ g.kind = "similar" =>
                  graded.outcome.verdict.dot * graded.outcome.verdict.dot <= graded.outcome.verdict.of
============================================================================
