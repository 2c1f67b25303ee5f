------------------------------ MODULE MCCached ------------------------------
(***************************************************************************)
(* A small instance of Runner with a warmed store, and small instances of  *)
(* ProviderCalls and ProviderReplies, in one run.  They share no state: a  *)
(* behaviour is one of them, the one that part names, and the others keep  *)
(* one of their initial states.                                            *)
(***************************************************************************)
EXTENDS MCRunner, ProviderCalls

VARIABLE part

cachedVars == <<vars, callVars, replyVars, part>>

\* Calls that are in flight together differ in nothing but what they are for.
Interchangeable == Permutations(CallCells)

-----------------------------------------------------------------------------
(* Providers that differ in one thing each: an address and how to present  *)
(* the credential, a header, its value from the environment, a salt, a     *)
(* member of the body, a vendor, an expression, a variable of the child.   *)

Text(t) == [text |-> t, env |-> NoValue, var |-> NoValue]
FromEnv(n) == [text |-> "t", env |-> n, var |-> NoValue]
Prices(input, output, read, write) ==
    [input |-> input, output |-> output, read |-> read, write |-> write, long |-> Unreported]

Direct ==
    [kind |-> "anthropic", base |-> "vendor", model |-> "m", params |-> NoVars, auth |-> NoValue,
     keys |-> <<"J", "K">>, headers |-> NoVars, path |-> NoValue, query |-> NoVars, overlay |-> NoVars,
     pricing |-> NoRate, salt |-> NoValue, expr |-> Unreported]
Gateway == [Direct EXCEPT !.base = "gateway", !.auth = "bearer", !.headers = <<4, 2>> :> Text("1"),
                          !.pricing = Prices(7, Unreported, Unreported, Unreported)]
Tenant == [Direct EXCEPT !.headers = <<4, 1>> :> FromEnv("A"), !.salt = "s"]
Overlaid == [Direct EXCEPT !.overlay = <<"max_tokens">> :> FromEnv("A"), !.auth = "none"]
OtherVendor == [Direct EXCEPT !.kind = "openai", !.params = <<"model">> :> Literal("other"),
                              !.headers = <<1, 1>> :> Text("version"), !.path = Text("/v1/messages")]
Url == [kind |-> "http", url |-> [text |-> "u", env |-> "A", var |-> "x"], method |-> "GET",
        headers |-> <<4, 2>> :> Text("1"), overlay |-> NoVars, expr |-> Unreported, salt |-> NoValue]
Picked == [Url EXCEPT !.expr = "expr"]
Program == [kind |-> "exec", command |-> "c", env |-> NoVars, expr |-> Unreported, salt |-> NoValue]
ProgramWith == [Program EXCEPT !.env = "V" :> "1"]

AFewProviders ==
    {Direct, Gateway, Tenant, Overlaid, OtherVendor, Url, Picked, Program, ProgramWith}

OneRequest ==
    [prompt |-> [messages |-> "hi", system |-> NoValue], vars |-> "x" :> "1", tools |-> NoValue,
     test |-> "t1", salt |-> NoValue, repeat |-> 0]
TwoRequests == {OneRequest, [OneRequest EXCEPT !.test = "t2", !.salt = "s"]}

\* With and without a credential, and with another value of the other variable.
TwoEnvirons ==
    {[n \in {"K", "A"} |-> "1"], [n \in {"K", "A"} |-> IF n = "A" THEN "2" ELSE Unset]}
TwoGlobals == {NoVars, <<4, 1>> :> Text("1")}

-----------------------------------------------------------------------------
(* Answers.  A few for the calls; for the replies all that differ in what  *)
(* a parser looks at.                                                      *)

Rates == [m \in {"m", "n"} |-> IF m = "m" THEN [Prices(3, 5, 1, Unreported) EXCEPT !.long = 7] ELSE NoRate]
Overrides == {NoRate, Prices(4, Unreported, Unreported, 2), Prices(4, 6, Unreported, 2)}

Document(content, text, thinking, redacted, tools, stop, usage) ==
    [how |-> "ok", content |-> content, text |-> text, thinking |-> thinking, redacted |-> redacted,
     tools |-> tools, stop |-> stop, usage |-> usage]
AnthropicUse(i, o, r, w, l) == [input |-> i, output |-> o, read |-> r, write |-> w, long |-> l]
OpenaiUse(prompt, cached, completion) == [prompt |-> prompt, cached |-> cached, completion |-> completion]

SomeStatuses == {429, 503, 401, 404}
NoDocuments(kind) ==
    IF kind = "exec" THEN {[how |-> h] : h \in {"timeout", "spawn", "exit", "garbled"}}
    ELSE {[how |-> h] : h \in {"timeout", "connect", "garbled"}}
         \cup [how : {"status"}, status : SomeStatuses]

\* A message without content has nothing in it.
Documents(usages) ==
    {Document(TRUE, text, thinking, redacted, tools, stop, usage) :
        text \in {"", "said"}, thinking \in {"", "thought"}, redacted \in BOOLEAN, tools \in BOOLEAN,
        stop \in {"end_turn", "max_tokens", "refusal", "tool_use", Unreported}, usage \in usages}
    \cup {Document(FALSE, "", "", FALSE, FALSE, stop, usage) :
            stop \in {"safety", "end_turn"}, usage \in usages}

HttpAnswers == [how : {"ok"}, text : {"", "said"}, picked : {"", "{}", "said", "undefined"}]
ChildErrors == [class : {Unreported, "provider_auth", "checker_failed"}, retriable : BOOLEAN]
ExecAnswers ==
    [how : {"ok"}, text : {"", "said", "null"}, error : {Unreported} \cup ChildErrors,
     reason : {Unreported, "refusal"}, stop : {"length", "end_turn", Unreported},
     usage : {NoUsage}, tools : {FALSE}, cost : {Unreported, 1}]

AllAnswers ==
    [kind \in {"anthropic", "openai", "http", "exec"} |->
        NoDocuments(kind) \cup
        CASE kind = "anthropic" -> Documents({NoUsage} \cup {AnthropicUse(1, 2, r, w, l) : r \in {0, 9}, w \in {0, 4}, l \in {0, 3, 5}})
          [] kind = "openai" -> Documents({NoUsage} \cup {OpenaiUse(p, c, 3) : p \in {2, 11}, c \in {0, 4}})
          [] kind = "http" -> HttpAnswers
          [] kind = "exec" -> ExecAnswers]

\* What the calls are answered with.
SomeAnswers ==
    [kind \in {"anthropic", "openai", "http", "exec"} |->
     CASE kind = "anthropic" -> {Document(TRUE, "said", "", FALSE, FALSE, "end_turn", AnthropicUse(1, 2, 0, 0, 0)),
                                Document(TRUE, "", "thought", FALSE, FALSE, "end_turn", NoUsage)}
      [] kind = "openai" -> {[how |-> "timeout"],
                             Document(TRUE, "", "thought", FALSE, FALSE, "end_turn", OpenaiUse(2, 1, 1))}
      [] kind = "http" -> {[how |-> "ok", text |-> "said", picked |-> "{}"]}
      [] kind = "exec" -> {[how |-> "ok", text |-> "", error |-> Unreported, reason |-> Unreported,
                            stop |-> "length", usage |-> NoUsage, tools |-> FALSE, cost |-> Unreported]}]

-----------------------------------------------------------------------------
CachedInit ==
    /\ part \in {"run", "calls", "replies"}
    /\ Init /\ CallsInit /\ ReplyInit
    /\ part # "run" => cache = Under("canonical", "answer")
    /\ part # "calls" => environ = [env |-> [n \in {"K", "A"} |-> "1"], global |-> NoVars] /\ replyStore = NoVars
    /\ part # "replies" => asked.kind = "http" /\ asked.model = "m" /\ asked.expr = Unreported

RunPart == part = "run" /\ Next /\ UNCHANGED <<callVars, replyVars, part>>
CallsPart == part = "calls" /\ CallsNext /\ UNCHANGED <<vars, replyVars, part>>
RepliesPart == part = "replies" /\ ReadAnswer /\ UNCHANGED <<vars, callVars, part>>

CachedSpec == CachedInit /\ [][RunPart \/ CallsPart \/ RepliesPart]_cachedVars
=============================================================================
