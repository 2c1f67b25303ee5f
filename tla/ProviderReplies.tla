--------------------------- MODULE ProviderReplies ---------------------------
(***************************************************************************)
(* What a provider makes of an answer, from src/crates: in domarinn-core   *)
(* anthropic.rs, openai.rs, http_provider.rs, exec_provider.rs, net.rs,    *)
(* provider.rs and pricing.rs; in domarinn-types empty.rs.                 *)
(*                                                                         *)
(* An answer is what comes back over the wire: no response, a status, or a *)
(* document.  Of a document it is kept which parts it has and whether they *)
(* are blank.  Money is counted in millionths of a dollar, rates in        *)
(* millionths for MTok tokens.                                             *)
(***************************************************************************)
EXTENDS Integers, Sequences, FiniteSets, FiniteSetsExt

CONSTANTS MTok,           \* tokens a rate is quoted for
          RateTable,      \* model -> its built-in rate, or NoRate
          NoRate, NoUsage,
          AnswersOf,      \* provider kind -> answers that may come back
          RateOverrides,  \* what `pricing:` may say: a rate with gaps, or NoRate
          Unreported      \* a value that is absent

VARIABLES asked,          \* the provider that reads: its kind, model, prices, expression
          received,       \* what came back
          returned        \* what it made of it

replyVars == <<asked, received, returned>>

----------------------------------------------------------------------------
(* Why an output is empty (domarinn-types/src/empty.rs).                   *)

PRECEDENCE == <<"refusal", "content_filter", "truncated", "tool_use_only", "thinking_only",
                "no_content_blocks", "empty_body", "output_expr_empty", "blank">>

Rank(reason) == CHOOSE i \in DOMAIN PRECEDENCE : PRECEDENCE[i] = reason

\* Every candidate the vendors' parsers push is in the list.
most_specific(candidates) == PRECEDENCE[Min({Rank(r) : r \in candidates})]

from_stop_reason(stop) ==
    CASE stop \in {"max_tokens", "length", "content_length"} -> {"truncated"}
      [] stop = "refusal" -> {"refusal"}
      [] stop \in {"content_filter", "safety"} -> {"content_filter"}
      [] stop \in {"tool_use", "tool_calls", "function_call"} -> {"tool_use_only"}
      [] OTHER -> {}

Blank(output) == output \in {"", "null", "{}", "[]"}

classify_blank(output) == IF Blank(output) THEN "blank" ELSE Unreported

----------------------------------------------------------------------------
(* Prices (pricing.rs).                                                    *)

\* Rounded up, so that a price is never understated.
Ceil(tokens, rate) == (tokens * rate + MTok - 1) \div MTok
Floor(tokens, rate) == (tokens * rate) \div MTok
component(tokens, rate) == Ceil(tokens, rate)

\* The tokens of each class that is billed.  A part of what was written to the
\* vendor's cache may be billed for an hour.
Billed(usage) ==
    LET long == Min({usage.long, usage.write}) IN
    [input |-> usage.input, output |-> usage.output, read |-> usage.read,
     write |-> usage.write - long, long |-> long]

\* Input and output are always priced; of the other classes only what was used.
cost_of(usage, rate) ==
    IF usage = NoUsage \/ rate = NoRate THEN Unreported
    ELSE LET b == Billed(usage) IN
         IF \E class \in {"read", "write", "long"} : b[class] > 0 /\ rate[class] = Unreported
         THEN Unreported
         ELSE LET Priced(class) == IF b[class] = 0 THEN 0 ELSE component(b[class], rate[class])
              IN MapThenSumSet(Priced, DOMAIN b)

\* A configured price replaces the table's, class by class.
resolve_rate(model, override) ==
    LET base == RateTable[model]
        pick(class) == IF override # NoRate /\ override[class] # Unreported THEN override[class]
                       ELSE IF base # NoRate THEN base[class] ELSE Unreported
        merged == [class \in {"input", "output", "read", "write", "long"} |-> pick(class)]
    IN IF Unreported \in {merged.input, merged.output} THEN NoRate ELSE merged

----------------------------------------------------------------------------
(* Failures (net.rs, exec_provider.rs).                                    *)

Fails(class, retriable) == [ok |-> FALSE, class |-> class, retriable |-> retriable]

status_error(status) ==
    CASE status = 429 -> Fails("provider_rate_limit", TRUE)
      [] status \in 500..599 -> Fails("provider_unavailable", TRUE)
      [] status \in {401, 403} -> Fails("provider_auth", FALSE)
      [] OTHER -> Fails("provider_request", FALSE)

\* Not sent, not connected or not in time; or a response that cannot be read.
transport_error(how) ==
    IF how \in {"timeout", "connect"} THEN Fails("provider_timeout", TRUE)
    ELSE Fails("provider_protocol", FALSE)

\* Classes that say that the suite is at fault, which fail the run in another way.
SuiteFaults == {"grader_missing", "render_failed", "assert_failed", "checker_failed"}

\* A child names the class of its failure, and cannot blame the suite.
ClassAsSent(class) == IF class = Unreported THEN "exec_failed" ELSE class

ChildClass(class) ==
    IF class = Unreported \/ class \in SuiteFaults THEN "exec_failed" ELSE class

exec_error(error) == Fails(ChildClass(error.class), error.retriable)

run_error(how) ==
    CASE how = "timeout" -> Fails("provider_timeout", TRUE)
      [] how = "spawn" -> Fails("exec_failed", TRUE)
      [] OTHER -> Fails("exec_failed", FALSE)

----------------------------------------------------------------------------
(* Documents.                                                              *)

Reply(output, reason, usage, stop, tools, cost) ==
    [ok |-> TRUE, output |-> output, reason |-> reason, usage |-> usage, stop |-> stop,
     tools |-> tools, cost |-> cost]

\* Text, thinking and tool_use blocks; no content at all; a stop reason.
parse_messages_response(doc, rate) ==
    LET candidates ==
            from_stop_reason(doc.stop)
            \cup (IF ~doc.content THEN {"no_content_blocks"}
                  ELSE (IF doc.tools THEN {"tool_use_only"} ELSE {})
                       \cup (IF doc.thinking # "" \/ doc.redacted THEN {"thinking_only"} ELSE {}))
            \cup {"blank"}
    IN Reply(doc.text, IF Blank(doc.text) THEN most_specific(candidates) ELSE Unreported,
             doc.usage, doc.stop, doc.tools, cost_of(doc.usage, rate))

\* Prompt tokens count what was read from the vendor's cache as well.
openai_usage(usage) ==
    IF usage = NoUsage THEN NoUsage
    ELSE [input |-> Max({0, usage.prompt - usage.cached}), output |-> usage.completion,
          read |-> usage.cached, write |-> 0, long |-> 0]

\* A message without content is answered with its reasoning.
parse_completion_response(doc, rate) ==
    LET text == IF ~Blank(doc.text) THEN doc.text ELSE doc.thinking
        usage == openai_usage(doc.usage)
        candidates == from_stop_reason(doc.stop)
                      \cup (IF ~doc.content THEN {"no_content_blocks"} ELSE {}) \cup {"blank"}
    IN Reply(text, IF Blank(text) THEN most_specific(candidates) ELSE Unreported,
             usage, doc.stop, doc.tools, cost_of(usage, rate))

\* The body, or what the configured expression makes of it.
parse_http(doc, expr) ==
    IF expr = Unreported THEN Reply(doc.text, Unreported, NoUsage, Unreported, FALSE, Unreported)
    ELSE IF doc.picked = "undefined" THEN Fails("provider_protocol", FALSE)
    ELSE Reply(doc.picked, Unreported, NoUsage, Unreported, FALSE, Unreported)

\* The child may name the reason; a blank output takes it from the stop reason.
parse_response(doc) ==
    IF doc.error # Unreported THEN exec_error(doc.error)
    ELSE LET stated == IF doc.reason # Unreported THEN doc.reason
                       ELSE IF Blank(doc.text) /\ from_stop_reason(doc.stop) # {}
                       THEN CHOOSE r \in from_stop_reason(doc.stop) : TRUE
                       ELSE Unreported
         IN Reply(doc.text, stated, doc.usage, doc.stop, doc.tools, doc.cost)

\* What a provider of this kind returns for an answer.
Parsed(kind, rate, expr, answer) ==
    CASE answer.how \in {"timeout", "connect", "garbled", "spawn", "exit"} ->
            IF kind = "exec" THEN run_error(answer.how) ELSE transport_error(answer.how)
      [] answer.how = "status" -> status_error(answer.status)
      [] kind = "anthropic" -> parse_messages_response(answer, rate)
      [] kind = "openai" -> parse_completion_response(answer, rate)
      [] kind = "http" -> parse_http(answer, expr)
      [] kind = "exec" -> parse_response(answer)

\* Provider::classify_empty: a reason for every reply the cell goes on with.
classify_empty(reply) ==
    IF reply.reason # Unreported THEN reply.reason ELSE classify_blank(reply.output)

----------------------------------------------------------------------------
(* One answer, read by one provider.                                         *)

NoReply == [ok |-> FALSE, class |-> "none", retriable |-> FALSE]
NoAnswer == [how |-> "none"]

ReplyInit ==
    /\ asked \in [kind : DOMAIN AnswersOf, model : DOMAIN RateTable, pricing : RateOverrides,
                   expr : {Unreported, "expr"}]
    /\ asked.kind \in {"http", "exec"} => asked.pricing = NoRate
    /\ asked.kind # "http" => asked.expr = Unreported
    /\ received = NoAnswer /\ returned = NoReply

ReadAnswer ==
    /\ received = NoAnswer
    /\ received' \in AnswersOf[asked.kind]
    /\ returned' = Parsed(asked.kind, resolve_rate(asked.model, asked.pricing), asked.expr, received')
    /\ UNCHANGED asked

\* What the vendor will charge, in millionths of a dollar for MTok tokens.
\* The tokens of a class without a price are not counted.
Bill(usage, rate) ==
    LET Price(class) == IF rate[class] = Unreported THEN 0 ELSE rate[class]
        long == IF usage.long > usage.write THEN usage.write ELSE usage.long
    IN usage.input * Price("input") + usage.output * Price("output") + usage.read * Price("read")
       + (usage.write - long) * Price("write") + long * Price("long")

UnpricedUse(usage, rate) ==
    \/ usage.read > 0 /\ rate.read = Unreported
    \/ usage.write > usage.long /\ rate.write = Unreported
    \/ usage.write > 0 /\ usage.long > 0 /\ rate.long = Unreported

\* A reply is what its answer says, for every vendor.  A blank output has a
\* reason, no evidence in the answer is more specific than it, and a vendor's
\* text has none.  A price is given for all tokens used or not at all, never
\* less than they cost and less than one unit too much for each class of them.
\* A child cannot have its failure counted as a fault of the suite
\* (parse_messages_response, parse_completion_response, parse_response, cost_of).
RepliesAreRead ==
    received # NoAnswer =>
        /\ returned.ok /\ asked.kind \in {"anthropic", "openai"} =>
             /\ Blank(returned.output) <=> returned.reason # Unreported
             /\ Blank(returned.output) =>
                  \A r \in from_stop_reason(received.stop) : Rank(returned.reason) <= Rank(r)
             /\ Blank(returned.output) /\ returned.reason = "blank" => received.content
             /\ LET rate == resolve_rate(asked.model, asked.pricing) IN
                returned.usage # NoUsage /\ rate # NoRate =>
                  IF UnpricedUse(returned.usage, rate) THEN returned.cost = Unreported
                  ELSE /\ Bill(returned.usage, rate) <= returned.cost * MTok
                       /\ returned.cost * MTok < Bill(returned.usage, rate) + 5 * MTok
             /\ asked.kind = "openai" /\ returned.usage # NoUsage =>
                  returned.usage.input + returned.usage.read = Max({received.usage.prompt, received.usage.cached})
        /\ returned.ok /\ Blank(returned.output) => classify_empty(returned) # Unreported
        /\ ~returned.ok /\ asked.kind = "exec" => returned.class \notin SuiteFaults

=============================================================================
