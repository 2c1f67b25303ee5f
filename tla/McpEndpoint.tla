---------------------------- MODULE McpEndpoint -----------------------------
(***************************************************************************)
(* The token buckets that pace sign-ins and tool calls, and the address a  *)
(* request is booked under, from src/crates/domarinn-server: ratelimit.rs  *)
(* and clientip.rs.                                                        *)
(*                                                                         *)
(* The map of buckets holds a bounded number of callers.  Room is made by  *)
(* dropping the buckets that are full again, then the fullest ones: a      *)
(* forgotten caller starts with a full bucket.  Levels are integers, so    *)
(* many units to a token; a tick of the clock refills one unit.            *)
(***************************************************************************)
EXTENDS Integers, Sequences, FiniteSets, FiniteSetsExt

CONSTANTS Callers,      \* keys of the map
          Capacity,     \* units of a full bucket: the burst
          TokenCost,    \* units of one token
          MaxTracked,   \* callers the map holds
          Trusted,      \* addresses of proxies whose header is believed
          NoBucket,     \* a caller that is not in the map
          LastTick      \* bound on the clock

ASSUME BucketsAssumption ==
    /\ TokenCost \in Nat \ {0} /\ Capacity \in Nat /\ Capacity >= TokenCost
    /\ MaxTracked \in Nat \ {0} /\ LastTick \in Nat

VARIABLES tick,     \* Instant::now
          buckets,  \* caller -> [tokens, last], or NoBucket
          ideal     \* history: what the calls that were let through have cost

bucketVars == <<tick, buckets, ideal>>

----------------------------------------------------------------------------
(* The address of a request: the peer's, or, behind trusted proxies, the   *)
(* nearest hop that is not one of them.                                    *)

ResolveClient(peer, hops) ==
    LET foreign == {i \in DOMAIN hops : hops[i] \notin Trusted} IN
    IF peer \notin Trusted \/ foreign = {} THEN peer
    ELSE IF hops[Max(foreign)] = "garbage" THEN peer ELSE hops[Max(foreign)]

----------------------------------------------------------------------------
Refilled(b) == Min({b.tokens + (tick - b.last), Capacity})

\* What a caller could spend now; one without a bucket would get a full one.
Level(map, c) == IF map[c] = NoBucket THEN Capacity ELSE Refilled(map[c])

Tracked(map) == {c \in Callers : map[c] # NoBucket}

EvictionBatch == Max({MaxTracked \div 10, 1})

\* An eviction that takes the emptiest.
FullestReversed(map, count) ==
    {out \in SUBSET Tracked(map) :
        /\ Cardinality(out) = count
        /\ \A c \in out, d \in Tracked(map) \ out : Level(map, c) <= Level(map, d)}

\* The sets of `count' callers such that nobody kept is fuller.
Fullest(map, count) ==
    {out \in SUBSET Tracked(map) :
        /\ Cardinality(out) = count
        /\ \A c \in out, d \in Tracked(map) \ out : Level(map, c) >= Level(map, d)}

Without(map, out) == [c \in Callers |-> IF c \in out THEN NoBucket ELSE map[c]]

\* The maps that making room for a newcomer may leave.
MadeRoom(map, newcomer) ==
    IF Cardinality(Tracked(map)) < MaxTracked \/ newcomer \in Tracked(map) THEN {map}
    ELSE LET used   == Without(map, {c \in Tracked(map) : Level(map, c) = Capacity})
             target == MaxTracked - EvictionBatch
             excess == Cardinality(Tracked(used)) - target
         IN IF excess <= 0 THEN {used}
            ELSE {Without(used, out) : out \in Fullest(used, excess)}

\* A token is taken when there is one; the bucket is refilled either way.
Grants(map, c) == Level(map, c) >= TokenCost

Charged(map, c) ==
    [map EXCEPT ![c] = [tokens |-> Level(map, c) - (IF Grants(map, c) THEN TokenCost ELSE 0),
                        last   |-> tick]]

\* History: the cost of a call that was let through, in a map without a bound.
Booked(map, c) ==
    [map EXCEPT ![c] = [tokens |-> Max({Level(map, c) - TokenCost, 0}), last |-> tick]]

\* TokenBuckets::take for one caller; `granted' is its answer.  The caller reads
\* `now' just before the lock: the model has no step between the two.
Take(c, granted) ==
    /\ \E map \in MadeRoom(buckets, c) :
          /\ granted = Grants(map, c)
          /\ buckets' = Charged(map, c)
    /\ UNCHANGED tick

BucketClock ==
    /\ tick < LastTick
    /\ tick' = tick + 1
    /\ UNCHANGED <<buckets, ideal>>

BucketsInit ==
    /\ tick = 0
    /\ buckets = [c \in Callers |-> NoBucket]
    /\ ideal = buckets

-----------------------------------------------------------------------------
(***************************************************************************)
(* The MCP endpoint: one JSON-RPC request per POST, checked in a fixed     *)
(* order, paced per caller, answered by read-only tools, from              *)
(* src/crates/domarinn-server/src/mcp: mod.rs, proto.rs, headers.rs,       *)
(* jsonrpc.rs, origin.rs, dispatch.rs, budget.rs, ratelimit.rs, tools/.    *)
(*                                                                         *)
(* A request is the record of what those checks look at.                   *)
(***************************************************************************)

CONSTANTS Asks      \* the requests that may arrive

VARIABLE reply      \* the last answer

mcpVars == <<tick, buckets, ideal, reply>>

Methods == {"initialize", "ping", "tools/list", "prompts/get", "tools/call", "other"}

\* `shape': what parses; `version': the header; `meta', `named': what a modern
\* request must repeat; `size': of the tool's result against the budget.
AskSet == [origin  : {"absent", "permitted", "foreign", "unparseable"},
           shape   : {"not json", "not a request", "request"},
           method  : Methods,
           id      : BOOLEAN,
           version : {"none", "modern", "legacy", "unknown"},
           meta    : BOOLEAN,
           named   : BOOLEAN,
           scope   : 0 .. 3,
           caller  : [user : {"none", "someone"}, peer : STRING, hops : Seq(STRING)],
           tool    : {"", "known", "unknown"},
           fails   : BOOLEAN,
           fits    : BOOLEAN]

----------------------------------------------------------------------------
\* A browser's Origin must be allowed; a client without one is not a browser.
OriginPermits(q) == q.origin \in {"absent", "permitted"}

\* The handshake is legacy by definition, and so is a request without version.
DetectEra(q) ==
    IF q.method = "initialize" \/ q.version \in {"none", "legacy"} THEN "legacy"
    ELSE IF q.version = "modern" THEN "modern" ELSE "unsupported"

ValidateMeta(q) == q.meta

NameRequired == {"tools/call", "prompts/get"}

ValidateHeaders(q) == q.method \in NameRequired => q.named

\* The bucket of a call: a user's own, or the address of an anonymous caller.
BucketKey(q) ==
    IF q.caller.user # "none" THEN q.caller.user
    ELSE ResolveClient(q.caller.peer, q.caller.hops)

Authorized(q) == q.scope >= 1

\* The checks before the dispatch, in their order; the first that fails answers.
Gates(q) == << [fails |-> ~OriginPermits(q),               as |-> "forbidden"],
               [fails |-> q.shape = "not json",            as |-> "parse error"],
               [fails |-> q.shape = "not a request",       as |-> "invalid request"],
               [fails |-> DetectEra(q) = "unsupported",    as |-> "unsupported version"],
               [fails |-> ~q.id,                           as |-> "accepted"],
               [fails |-> DetectEra(q) = "modern" /\ ~ValidateMeta(q),
                                                           as |-> "invalid params"],
               [fails |-> DetectEra(q) = "modern" /\ ~ValidateHeaders(q),
                                                           as |-> "header mismatch"],
               [fails |-> q.method = "other",              as |-> "method not found"],
               [fails |-> q.method # "tools/call",         as |-> "result"],
               [fails |-> ~Authorized(q),                  as |-> "unauthorized"] >>

Stopped(q) == {i \in DOMAIN Gates(q) : Gates(q)[i].fails}

\* An oversized result is replaced by an error that names the budget.
CallTool(q) ==
    IF q.tool = "" THEN "invalid params"
    ELSE IF q.tool = "unknown" THEN "method not found"
    ELSE IF q.fails THEN "tool error"
    ELSE IF q.fits THEN "result" ELSE "over budget"

Endpoint(q) ==
    IF Stopped(q) # {}
    THEN /\ reply' = Gates(q)[Min(Stopped(q))].as
         /\ UNCHANGED <<tick, buckets, ideal>>
    ELSE \E granted \in BOOLEAN :
         /\ Take(BucketKey(q), granted)
         /\ ideal' = IF Authorized(q) /\ granted THEN Booked(ideal, BucketKey(q)) ELSE ideal
         /\ reply' = IF granted THEN CallTool(q) ELSE "rate limited"

McpInit == BucketsInit /\ reply = "none"

McpClock == BucketClock /\ UNCHANGED reply

McpNext == McpClock \/ \E q \in Asks : Endpoint(q)

McpSpec == McpInit /\ [][McpNext]_mcpVars

----------------------------------------------------------------------------
(* Properties.                                                             *)

\* The map stays within its bound, no drained bucket is forgotten while a
\* fuller one is kept (flooding the map with callers does not refill one's
\* own), and nobody is charged for what they did not do: whatever was refused
\* before the limiter was asked or by it, a caller can spend at least what the
\* calls that were let through leave them.
RoomIsMadeFairly ==
    [][/\ Cardinality(Tracked(buckets')) <= MaxTracked
       /\ \A c \in Tracked(buckets) \ Tracked(buckets'),
             d \in Tracked(buckets) \cap Tracked(buckets') :
                Level(buckets, c) >= Level(buckets, d)
       /\ \A c \in Callers : Level(buckets, c)' >= Level(ideal, c)']_mcpVars
=============================================================================
