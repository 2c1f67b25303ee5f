------------------------------ MODULE MCAbort -------------------------------
(***************************************************************************)
(* A small instance of Runner whose providers refuse a credential, and     *)
(* small instances of ChatWire, ExecChild and ImportSuite, in one run.     *)
(* They share no state: a behaviour is one of them, the one that part      *)
(* names, and the others keep one of their initial states.                 *)
(***************************************************************************)
EXTENDS MCRunner, ChatWire, ExecChild, ImportSuite

VARIABLE part

abortVars == <<vars, wireVars, execVars, importVars, part>>

-----------------------------------------------------------------------------
(* Transcripts.                                                            *)

Message(role, made, answered) == [role |-> role, calls |-> made, id |-> answered]
Messages ==
    {Message("system", <<>>, NoId), Message("user", <<>>, NoId),
     Message("assistant", <<NoId>>, NoId), Message("assistant", <<NoId, NoId>>, NoId),
     Message("assistant", <<<<"a">>, NoId>>, NoId),
     Message("tool", <<>>, NoId), Message("tool", <<>>, <<"a">>)}

\* An id that is written belongs to one call.
NamesOneCall(t) ==
    \A k, m \in DOMAIN t : (<<"a">> \in {t[k].calls[n] : n \in DOMAIN t[k].calls}
                            /\ <<"a">> \in {t[m].calls[n] : n \in DOMAIN t[m].calls}) => k = m

UpToFive == {t \in UNION {[1..n -> Messages] : n \in 1..5} : NamesOneCall(t)}

-----------------------------------------------------------------------------
(* Configs of promptfoo, and outputs for the imported suite.               *)

Pf(type, value) == [type |-> type, value |-> value, negate |-> FALSE, weight |-> Absent, threshold |-> Absent, extra |-> {}]
\* Texts of one or two letters, in small and in capitals.
SomeTexts == {<<1>>, <<-1>>, <<2>>, <<-1, 2>>}
SomeLists == {{}, {<<1>>}, {<<-1>>, <<2>>}, {<<1>>, <<-1>>, <<2>>}}
Schemas == {{"v"}, {"w"}, Broken}
AFewPfAsserts ==
    LET plain == {Pf(t, v) : t \in {"contains", "icontains", "starts-with", "equals"}, v \in {Absent, <<1>>, <<-1, 2>>}}
                 \cup {Pf(t, v) : t \in {"contains-any", "icontains-any", "contains-all", "icontains-all", "regex"},
                                  v \in SomeLists \cup {Absent}}
                 \cup {Pf("regex", Broken), Pf("is-json", Absent), Pf("is-json", {"v"}), Pf("javascript", Absent), Pf(Absent, Absent)}
                 \cup {Pf("contains-json", v) : v \in Schemas \cup {Absent}}
                 \cup {[Pf(t, v) EXCEPT !.threshold = m] : t \in {"cost", "latency"}, v \in {Absent, 4}, m \in {1, 2, 3, Misfit, Absent}}
                 \cup {[Pf("llm-rubric", <<1>>) EXCEPT !.threshold = 1]}
    IN plain \cup {[a EXCEPT !.negate = TRUE] : a \in plain} \cup {[a EXCEPT !.weight = 6, !.extra = {"transform"}] : a \in plain}

PfTest(asserts) == [form |-> "mapping", name |-> "", vars |-> {}, assert |-> asserts, threshold |-> Absent, extra |-> {}]
PfConfig == [providers |-> Absent, prompts |-> Absent, default |-> Absent, tests |-> <<>>, extra |-> {}]
PfSpec(v, m) == [vendor |-> v, mode |-> m, model |-> "m"]
SpecsOfAll == {PfSpec(v, m) : v \in {"openai", "ollama"}, m \in {"chat", "completion", "embedding", "responses"}}
         \cup {PfSpec("anthropic", m) : m \in {"messages", "completion"}} \cup {PfSpec("exec", m) : m \in {"plain", "quoted"}}
         \cup {PfSpec("http", ""), PfSpec("file", ""), PfSpec("other", "")}
PfProvider(spec, config, extra) == [form |-> "mapping", spec |-> spec, config |-> config, extra |-> extra]
SomeConfigs == {Misfit, {}, {"temperature", "num_predict"}, {"max_tokens", "apiBaseUrl", "apiKeyEnvar"}, {"apiKey", "other"}}
AFewConfigs ==
    {[PfConfig EXCEPT !.tests = <<PfTest(<<a>>)>>] : a \in AFewPfAsserts}
    \cup {[PfConfig EXCEPT !.tests = <<PfTest(<<a, Pf("contains-all", {<<1>>, <<2>>})>>)>>] : a \in {Pf("regex", {<<1>>}), Pf("webhook", Absent)}}
    \cup {[PfConfig EXCEPT !.providers = <<PfProvider(s, c, e)>>, !.extra = e] : s \in SpecsOfAll, c \in SomeConfigs, e \in {{}, {"delay"}}}
    \cup {[PfConfig EXCEPT !.providers = <<[PfProvider(s, {}, {}) EXCEPT !.form = f]>>] : s \in {PfSpec("openai", "chat")}, f \in {"text", "number"}}
    \cup {[PfConfig EXCEPT !.prompts = <<p>>] : p \in {"text", "raw", "id", "list"}}
    \cup {[PfConfig EXCEPT !.default = d] : d \in {Misfit, [vars |-> {}, assert |-> <<Pf("is-json", Absent)>>, threshold |-> 1, extra |-> {"options"}]}}
    \cup {[PfConfig EXCEPT !.tests = <<t>>] :
            t \in {[PfTest(Absent) EXCEPT !.form = "text", !.name = n] : n \in {"file", "program", "url"}}
                  \cup {[PfTest(Misfit) EXCEPT !.vars = v, !.extra = {"options"}] :
                            v \in {Misfit, {[name |-> "v", list |-> TRUE], [name |-> "w", list |-> FALSE]}}}
                  \cup {[PfTest(Absent) EXCEPT !.form = "number"]}}
    \cup {PfConfig}

ToolUse(name, args) == [name |-> name, args |-> args]
NoArgs == [x \in {} |-> 0]
OneArg(v) == [x \in {"k"} |-> v]
PlainOutput == [text |-> <<-1>>, json |-> NoJson, embedded |-> NoJson, calls |-> <<>>, cost |-> NoJson, latency |-> 2,
         tokens |-> NoJson, billable |-> NoJson]
AFewOutputs ==
    {[PlainOutput EXCEPT !.text = t] : t \in {<<>>} \cup SomeTexts \cup {<<1, -1, 2>>, <<2, 2>>}}
    \cup {[PlainOutput EXCEPT !.json = j, !.embedded = j] : j \in {"v"}} \cup {[PlainOutput EXCEPT !.embedded = "w"]}
    \cup {[PlainOutput EXCEPT !.cost = c, !.latency = Millisecond * c, !.tokens = c, !.billable = 3 - c] : c \in 0..3}
    \cup {[PlainOutput EXCEPT !.text = t, !.calls = <<ToolUse("f", x), ToolUse(n, y)>>] :
            t \in {<<>>, <<1>>}, n \in {"f", "g"}, x \in {NoArgs, OneArg(1)}, y \in {OneArg(1), OneArg(2)}}

ToolCall(args, schema) == [type |-> "tool-call", negate |-> FALSE, name |-> "f", args |-> args, schema |-> schema]
AFewOwnAsserts == {ToolCall(a, s) : a \in {NoJson, Broken, OneArg(1), OneArg(2)}, s \in {NoJson, Broken, {OneArg(1)}}}
       \cup {[type |-> "length", negate |-> FALSE, min |-> 1, max |-> 2], [type |-> "tokens", negate |-> FALSE, max |-> 1, billable |-> TRUE],
             [type |-> "jinja", negate |-> FALSE, value |-> Broken], [type |-> "jinja", negate |-> FALSE, value |-> {<<1>>}],
             [type |-> "contains", negate |-> FALSE, value |-> <<1>>]}

-----------------------------------------------------------------------------
AbortInit ==
    /\ part \in {"run", "chat", "exec", "import"}
    /\ part # "chat" => msgs = <<Message("user", <<>>, NoId)>>
    /\ part # "import" => source = PfConfig
    /\ Init /\ ChatInit /\ ExecInit /\ ImportInit

RunPart == part = "run" /\ Next /\ UNCHANGED <<wireVars, execVars, importVars, part>>
ChatPart == part = "chat" /\ ChatNext /\ UNCHANGED <<vars, execVars, importVars, part>>
ExecPart == part = "exec" /\ ExecNext /\ UNCHANGED <<vars, wireVars, importVars, part>>
ImportPart == part = "import" /\ ImportNext /\ UNCHANGED <<vars, wireVars, execVars, part>>

AbortSpec == AbortInit /\ [][RunPart \/ ChatPart \/ ExecPart \/ ImportPart]_abortVars
=============================================================================
