---------------------------- MODULE ProviderCalls ----------------------------
(***************************************************************************)
(* What a provider call puts on the wire and under which key its reply is  *)
(* kept, from src/crates/domarinn-core/src: request_cfg.rs, anthropic.rs,  *)
(* openai.rs, http_provider.rs, exec_provider.rs, provider.rs,             *)
(* config_request.rs, cache_key.rs, net.rs, render.rs and the lookups of   *)
(* runner_cache.rs.                                                        *)
(*                                                                         *)
(* A template is a text with at most one variable of the environment and   *)
(* one of the test.  A JSON body maps the paths of its leaves to values.   *)
(* A header is named by a number and one of its spellings, in the order of *)
(* the program's maps.  Processes follow each other, each with an          *)
(* environment of its own, over one store; cells of a process run at once. *)
(***************************************************************************)
EXTENDS ProviderReplies, TLC

LOCAL INSTANCE SequencesExt

CONSTANTS ProviderCfgs,   \* providers, as configured
          CallRequests,   \* ProviderRequest: prompt, vars, tools, test, salt, repeat
          Environs,       \* environments: name -> value, or Unset
          GlobalHeaders,  \* DOMARINN_PROVIDER_HEADERS of the processes
          CallAnswers,    \* provider kind -> answers to a call
          CallCells,      \* calls in flight
          MaxCalls,       \* bound on the calls made
          NoValue, Unset

VARIABLES environ,        \* the environment of the process
          replyStore,     \* the response cache: key -> entry
          calling,        \* per cell: its provider, request, place and reply
          callsMade

callVars == <<environ, replyStore, calling, callsMade>>

----------------------------------------------------------------------------
(* Templates (render.rs).                                                  *)

env_object(env) == [n \in {m \in DOMAIN env : env[m] # Unset} |-> env[n]]

\* The same names, each with a value that says which name it is.
env_placeholder_object(env) == [n \in {m \in DOMAIN env : env[m] # Unset} |-> <<"env", n>>]

\* An undefined variable is an error.
Renders(t, env, vars) == {t.env} \subseteq DOMAIN env \cup {NoValue} /\ {t.var} \subseteq DOMAIN vars \cup {NoValue}

render_str(t, env, vars) ==
    <<t.text, IF t.env = NoValue THEN NoValue ELSE env[t.env],
      IF t.var = NoValue THEN NoValue ELSE vars[t.var]>>

\* A text that is written as it is.
Literal(text) == <<text, NoValue, NoValue>>

RenderAll(map, env, vars) == [k \in DOMAIN map |-> render_str(map[k], env, vars)]
AllRender(map, env, vars) == \A k \in DOMAIN map : Renders(map[k], env, vars)

NoVars == [x \in {} |-> NoValue]

----------------------------------------------------------------------------
(* Maps of headers, and bodies (request_cfg.rs).                           *)

SameName(a, b) == a[1] = b[1]
HeaderBefore(a, b) == a[1] < b[1] \/ (a[1] = b[1] /\ a[2] < b[2])
InOrder(map) == SetToSortSeq(DOMAIN map, HeaderBefore)

\* The first spelling of the name that is there gives way to the new one.
insert_ci(map, name, value) ==
    LET same == SelectSeq(InOrder(map), LAMBDA k : SameName(k, name))
        kept == DOMAIN map \ (IF same = <<>> THEN {} ELSE {same[1]})
    IN [k \in kept \cup {name} |-> IF k = name THEN value ELSE map[k]]

InsertAll(map, more) == FoldSeq(LAMBDA k, acc : insert_ci(acc, k, more[k]), map, Reverse(InOrder(more)))

\* A leaf of the overlay replaces what was there, a leaf above it and leaves
\* below it; everything else stays.
deep_merge(base, overlay) ==
    LET stays == {p \in DOMAIN base :
                    \A q \in DOMAIN overlay : ~IsPrefix(p, q) /\ ~IsPrefix(q, p)}
    IN [p \in stays \cup DOMAIN overlay |-> IF p \in DOMAIN overlay THEN overlay[p] ELSE base[p]]

\* A member of the top level, with all that it held before.
InsertMember(body, name, value) ==
    [p \in {q \in DOMAIN body : q[1] # name} \cup {<<name>>} |->
        IF p = <<name>> THEN value ELSE body[p]]

Digest(headers) == IF DOMAIN headers = {} THEN NoValue ELSE headers

----------------------------------------------------------------------------
(* The `request:` overlay of a vendor's provider.                          *)

RequestIsEmpty(cfg) ==
    /\ cfg.auth = NoValue /\ cfg.path = NoValue
    /\ \A part \in {cfg.query, cfg.headers, cfg.overlay} : DOMAIN part = {}

DefaultAuth(p) == IF p.kind = "anthropic" THEN "api_key" ELSE "bearer"
DefaultPath(p) == Literal(IF p.kind = "anthropic" THEN "/v1/messages" ELSE "/chat/completions")

\* RequestCfg::auth, or the vendor's.
AuthOf(p) == IF p.auth = NoValue THEN DefaultAuth(p) ELSE p.auth

\* The process's headers first, then the provider's own.
DeclaredHeaders(p, global) == InsertAll(global, p.headers)

\* The names come from the environment that is given, so that rendering for the
\* wire and for the key fail together.
RequestRenders(p, global, env) ==
    /\ AllRender(DeclaredHeaders(p, global), env, NoVars)
    /\ p.path # NoValue => Renders(p.path, env, NoVars)
    /\ AllRender(p.query, env, NoVars) /\ AllRender(p.overlay, env, NoVars)

vendor_default(p) == [headers |-> NoVars, path |-> DefaultPath(p), query |-> NoVars, body |-> NoVars]

RenderedRequest(p, global, env) ==
    IF RequestIsEmpty(p) /\ DOMAIN global = {} THEN vendor_default(p)
    ELSE [headers |-> RenderAll(DeclaredHeaders(p, global), env, NoVars),
          path |-> IF p.path = NoValue THEN DefaultPath(p) ELSE render_str(p.path, env, NoVars),
          query |-> RenderAll(p.query, env, NoVars),
          body |-> RenderAll(p.overlay, env, NoVars)]

AuthHeader(mode, credential) ==
    CASE mode = "api_key" -> {<<<<2, 2>>, <<"credential", credential>>>>}
      [] mode = "bearer" -> {<<<<3, 2>>, <<"credential", credential>>>>}
      [] OTHER -> {}

\* The vendor's own headers, the credential, and what was declared over both.
call_headers(p, rendered, credential) ==
    LET own == IF p.kind = "anthropic" THEN <<1, 2>> :> Literal("version") ELSE NoVars
        authed == IF AuthHeader(AuthOf(p), credential) = {} THEN own
                  ELSE LET h == CHOOSE x \in AuthHeader(AuthOf(p), credential) : TRUE
                       IN insert_ci(own, h[1], h[2])
    IN InsertAll(authed, rendered.headers)

\* api_key: the first of the names that is set.
HasCredential(p, env) == \E i \in DOMAIN p.keys : p.keys[i] \in DOMAIN env
Credential(p, env) == env[p.keys[Min({i \in DOMAIN p.keys : p.keys[i] \in DOMAIN env})]]

----------------------------------------------------------------------------
(* Bodies.                                                                 *)

\* Parameters first, so that none of them replaces the model or the messages.
openai_body(p, req) ==
    LET named == InsertMember(InsertMember(p.params, "model", Literal(p.model)), "messages",
                              Literal(req.prompt.messages))
    IN IF req.tools = NoValue THEN named ELSE InsertMember(named, "tools", Literal(req.tools))

\* The same, with the system text in a member of its own and a limit.
anthropic_body(p, req) ==
    LET named == openai_body(p, req)
        system == IF req.prompt.system = NoValue THEN named
                  ELSE InsertMember(named, "system", Literal(req.prompt.system))
    IN IF \E path \in DOMAIN system : path[1] = "max_tokens" THEN system
       ELSE InsertMember(system, "max_tokens", Literal("4096"))

build_body(p, req) == IF p.kind = "anthropic" THEN anthropic_body(p, req) ELSE openai_body(p, req)

\* The variables a template of the http provider sees.
render_context(req) ==
    LET prompt == "prompt" :> req.prompt @@ req.vars
    IN IF req.prompt = NoValue THEN req.vars
       ELSE IF "messages" \in DOMAIN req.vars THEN prompt
       ELSE "messages" :> req.prompt @@ prompt

\* Global headers and the provider's own, told apart by their spelling.
HttpHeaders(p, global) == p.headers @@ global

HttpRenders(p, global, req, env) ==
    /\ Renders(p.url, env, render_context(req))
    /\ AllRender(HttpHeaders(p, global), env, render_context(req))
    /\ AllRender(p.overlay, env, render_context(req))

build_request(p, global, req, env) ==
    [url |-> render_str(p.url, env, render_context(req)), method |-> p.method,
     headers |-> RenderAll(HttpHeaders(p, global), env, render_context(req)),
     body |-> RenderAll(p.overlay, env, render_context(req))]

\* The document a child reads, the test it is asked for among it.
protocol_request(req) ==
    [prompt |-> req.prompt, vars |-> req.vars, tools |-> req.tools, test |-> req.test]

Vendor(p) == p.kind \in {"anthropic", "openai"}

----------------------------------------------------------------------------
(* The wire: what a call sends, or nothing when it cannot be built.        *)

\* call, up to send: with the credential it found.
SentByVendor(p, global, req, env, credential) ==
    LET r == RenderedRequest(p, global, env)
    IN {[transport |-> "http", method |-> "POST", base |-> p.base, path |-> r.path,
         query |-> r.query, headers |-> call_headers(p, r, credential),
         body |-> deep_merge(build_body(p, req), r.body)]}

SentByHttp(p, global, req, env) ==
    IF ~HttpRenders(p, global, req, env) THEN {}
    ELSE LET b == build_request(p, global, req, env) IN
         {[transport |-> "http", method |-> b.method, base |-> NoValue, path |-> b.url,
           query |-> NoVars, headers |-> b.headers, body |-> b.body]}

SentByExec(p, req) ==
    {[transport |-> "exec", command |-> p.command, env |-> p.env, stdin |-> protocol_request(req)]}

SentBy(p, global, req, env, credential) ==
    CASE Vendor(p) -> SentByVendor(p, global, req, env, credential)
      [] p.kind = "http" -> SentByHttp(p, global, req, env)
      [] p.kind = "exec" -> SentByExec(p, req)

Wire(p, global, req, env) ==
    LET real == env_object(env) IN
    IF Vendor(p) /\ (req.prompt = NoValue \/ (AuthOf(p) # "none" /\ ~HasCredential(p, real))) THEN {}
    ELSE SentBy(p, global, req, real,
                IF Vendor(p) /\ AuthOf(p) # "none" THEN Credential(p, real) ELSE NoValue)

\* Why a call was not sent.
WireError(p, req) ==
    CASE Vendor(p) /\ req.prompt = NoValue -> Fails("provider_request", FALSE)
      [] Vendor(p) -> Fails("provider_auth", FALSE)
      [] OTHER -> Fails("render_failed", FALSE)

----------------------------------------------------------------------------
(* The key.                                                                *)

\* The body with the environment's names in the place of its values.
KeyedBody(p, req, keyed) == deep_merge(build_body(p, req), keyed.body)

WithoutDigest(headers) == NoValue
headers_digest(headers) == Digest(headers)

\* Rendered with the names of the environment, not with its values; where the
\* provider is and how it authenticates is left out.
vendor_canonical(p, global, req, env) ==
    IF req.prompt = NoValue THEN {}
    ELSE LET keyed == RenderedRequest(p, global, env_placeholder_object(env)) IN
         {[transport |-> "http", method |-> "POST", path |-> keyed.path, query |-> keyed.query,
           body |-> KeyedBody(p, req, keyed),
           headers |-> IF p.kind = "anthropic" THEN "version" ELSE NoValue,
           digest |-> headers_digest(keyed.headers)]}

http_canonical(p, global, req, env) ==
    LET named == env_placeholder_object(env) IN
    IF ~HttpRenders(p, global, req, named) THEN {}
    ELSE LET b == build_request(p, global, req, named) IN
         {[transport |-> "http", method |-> b.method, url |-> b.url, body |-> b.body,
           digest |-> headers_digest(b.headers), expr |-> p.expr]}

\* The test a child is asked for is left out.
exec_canonical(p, req) ==
    {[transport |-> "exec", command |-> p.command,
      stdin |-> [protocol_request(req) EXCEPT !.test = NoValue], env |-> Digest(p.env)]}

\* Provider::canonical_request, or nothing when the call is not to be cached.
canonical_request(p, global, req, env) ==
    CASE Vendor(p) -> vendor_canonical(p, global, req, env)
      [] p.kind = "http" -> http_canonical(p, global, req, env)
      [] p.kind = "exec" -> exec_canonical(p, req)

\* The shape of earlier versions: the whole address in the place of the path.
legacy_url_shape(p, canonical) ==
    {[transport |-> "http", method |-> c.method, url |-> <<p.base, c.path, c.query>>, body |-> c.body,
      headers |-> c.headers, digest |-> c.digest] : c \in canonical}

legacy_canonical_requests(p, global, req, env) ==
    IF Vendor(p) THEN legacy_url_shape(p, canonical_request(p, global, req, env)) ELSE {}

MergedSalts(canonical, p, req) ==
    [request |-> canonical, repeat |-> req.repeat, salts |-> {p.salt, req.salt}]

\* The two salts have members of their own.
request_cache_key(canonical, p, req) ==
    [request |-> canonical, repeat |-> req.repeat, provider_salt |-> p.salt, case_salt |-> req.salt]

KeysOf(canonical, p, req) == {request_cache_key(c, p, req) : c \in canonical}

----------------------------------------------------------------------------
(* A call.                                                                 *)

NoCall == [at |-> "idle", cfg |-> NoValue, req |-> NoValue, returned |-> NoReply, from |-> NoValue]

RateOf(p) == IF Vendor(p) THEN resolve_rate(p.model, p.pricing) ELSE NoRate

\* recost: a replay is priced at the rate of the provider that replays it.
entry_to_response(p, entry) ==
    LET own == cost_of(entry.reply.usage, RateOf(p)) IN
    [entry.reply EXCEPT !.cost = IF own = Unreported THEN @ ELSE own]

\* What is kept of a reply: its reason is the classified one, and it comes from
\* somewhere that is recorded and not keyed.
response_to_entry(r, from) == [reply |-> [r EXCEPT !.reason = classify_empty(r)], from |-> from]

ReturnReply(c, outcome, from) ==
    calling' = [calling EXCEPT ![c].at = "done", ![c].returned = outcome, ![c].from = from]

\* The provider of a cell was built at the start of the process, which ends
\* there when its request cannot be rendered (resolve_with_global).
BeginCall(c) ==
    /\ calling[c].at = "idle" /\ callsMade < MaxCalls
    /\ \E p \in ProviderCfgs, req \in CallRequests :
         /\ Vendor(p) => RequestRenders(p, environ.global, env_object(environ.env))
         /\ calling' = [calling EXCEPT ![c] = [NoCall EXCEPT !.at = "lookup", !.cfg = p, !.req = req]]
    /\ callsMade' = callsMade + 1
    /\ UNCHANGED <<environ, replyStore>>

\* The entry under today's key, or one under an older shape, which is filed
\* under today's as well (call_with_cache, adopt_legacy_canonical).
LookupReply(c) ==
    LET p == calling[c].cfg
        req == calling[c].req
        today == KeysOf(canonical_request(p, environ.global, req, environ.env), p, req)
        older == KeysOf(legacy_canonical_requests(p, environ.global, req, environ.env), p, req)
        Replay(k) == ReturnReply(c, entry_to_response(p, replyStore[k]), replyStore[k].from)
    IN /\ calling[c].at = "lookup"
       /\ \/ \E k \in today \cap DOMAIN replyStore : Replay(k) /\ UNCHANGED replyStore
          \/ /\ today \cap DOMAIN replyStore = {}
             /\ \E k \in older \cap DOMAIN replyStore, new \in today :
                  Replay(k) /\ replyStore' = new :> replyStore[k] @@ replyStore
          \/ /\ (today \cup older) \cap DOMAIN replyStore = {}
             /\ calling' = [calling EXCEPT ![c].at = "send"] /\ UNCHANGED replyStore
       /\ UNCHANGED <<environ, callsMade>>

\* Provider::call, up to the answer.
SendCall(c) ==
    LET wire == Wire(calling[c].cfg, environ.global, calling[c].req, environ.env) IN
    /\ calling[c].at = "send"
    /\ IF wire = {} THEN ReturnReply(c, WireError(calling[c].cfg, calling[c].req), NoValue)
       ELSE \E w \in wire :
              calling' = [calling EXCEPT ![c].at = "sent", ![c].from = [wire |-> w, environ |-> environ]]
    /\ UNCHANGED <<environ, replyStore, callsMade>>

\* The answer, and the entry kept for a reply.  The policy on empty replies may
\* keep one out of the store.
ReceiveAnswer(c) ==
    LET p == calling[c].cfg
        req == calling[c].req
    IN /\ calling[c].at = "sent"
       /\ \E a \in CallAnswers[p.kind] :
            LET r == Parsed(p.kind, RateOf(p), p.expr, a)
                from == [wire |-> calling[c].from.wire, environ |-> calling[c].from.environ, answer |-> a]
                keys == KeysOf(canonical_request(p, environ.global, req, environ.env), p, req)
            IN /\ ReturnReply(c, r, from)
               /\ \/ /\ r.ok
                     /\ replyStore' = replyStore @@ [k \in keys |-> response_to_entry(r, from)]
                  \/ /\ r.ok => classify_empty(r) # Unreported
                     /\ UNCHANGED replyStore
       /\ UNCHANGED <<environ, callsMade>>

\* The next process, in another environment.
NextProcess ==
    /\ callsMade < MaxCalls
    /\ \A c \in CallCells : calling[c].at \in {"idle", "done"}
    /\ \E c \in CallCells : calling[c].at = "done"
    /\ environ' \in [env : Environs, global : GlobalHeaders]
    /\ calling' = [c \in CallCells |-> NoCall]
    /\ UNCHANGED <<replyStore, callsMade>>

\* What an earlier version left behind.
OldEntries(p, req, env, global) ==
    {[k \in KeysOf(legacy_canonical_requests(p, global, req, env), p, req) |->
        [reply |-> Parsed(p.kind, RateOf(p), p.expr, a),
         from |-> [wire |-> w, environ |-> [env |-> env, global |-> global], answer |-> a]]] :
     w \in Wire(p, global, req, env),
     a \in {b \in CallAnswers[p.kind] : Parsed(p.kind, RateOf(p), p.expr, b).ok}}

CallsInit ==
    /\ environ \in [env : Environs, global : GlobalHeaders]
    /\ replyStore \in {NoVars} \cup UNION {OldEntries(p, req, environ.env, environ.global) :
                                             p \in {q \in ProviderCfgs : Vendor(q)}, req \in CallRequests}
    /\ calling = [c \in CallCells |-> NoCall]
    /\ callsMade = 0

CallsNext == NextProcess \/ \E c \in CallCells : BeginCall(c) \/ LookupReply(c) \/ SendCall(c) \/ ReceiveAnswer(c)

CallsSpec == CallsInit /\ [][CallsNext]_callVars

----------------------------------------------------------------------------
(* What a replay stands for.                                               *)

\* A request as a server or a child answers it: not where it is, not who asks,
\* and not for which test.
HeadersSeen(headers) == {<<k, headers[k]>> : k \in {n \in DOMAIN headers : headers[n][1] # "credential"}}

Essence(w) ==
    IF w.transport = "exec" THEN [w EXCEPT !.stdin.test = NoValue]
    ELSE [w EXCEPT !.base = NoValue, !.headers = HeadersSeen(w.headers)]

\* A call that returns a reply returns its own provider's reading of an answer
\* to a request that the call itself would have sent from where the answer was
\* received, also when another provider, in another process and another
\* environment, sent it; and a price it can work out is its own
\* (canonical_request, request_cache_key, entry_to_response).
ReplayIsOwn ==
    \A c \in CallCells :
      LET call == calling[c] IN
      call.at = "done" /\ call.returned.ok =>
        /\ {Essence(call.from.wire)} =
             {Essence(w) : w \in SentBy(call.cfg, environ.global, call.req,
                                        env_object(call.from.environ.env), NoValue)}
        /\ LET own == Parsed(call.cfg.kind, RateOf(call.cfg), call.cfg.expr, call.from.answer) IN
           /\ own.ok /\ own.output = call.returned.output /\ classify_empty(own) = classify_empty(call.returned)
           /\ own.cost # Unreported => call.returned.cost = own.cost

=============================================================================
