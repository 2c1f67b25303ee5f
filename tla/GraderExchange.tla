--------------------------- MODULE GraderExchange ---------------------------
(***************************************************************************)
(* The cached exchanges behind graded asserts (domarinn-core/src/          *)
(* request_cache.rs, grader.rs, grader_llm.rs, embeddings.rs): a judge's   *)
(* answer, an exec checker's reply or an embedding is looked up, adopted   *)
(* from an older key shape, or asked for live and stored.  Exchanges of    *)
(* one run are concurrent and share the store and the probe budget; runs   *)
(* follow each other over one store, each in a cache mode of its own.      *)
(*                                                                         *)
(* A payload is what its parser makes of it.  An action is the code        *)
(* between two awaits.                                                     *)
(***************************************************************************)
EXTENDS Integers, FiniteSets

CONSTANTS
    Exchanges,
    ExchangeKind,    \* exchange -> "judge", "exec" or "embedding"
    ExchangeRequest, \* exchange -> its canonical request; exchanges may share one
    GradedSuites,    \* the sets of exchanges that a suite's asserts may call for
    Paired,          \* pairs of exchanges that embed the two texts of one assert
    Unprepared,      \* exchanges of asserts without a usable grader
    OldVerdicts,     \* exchanges whose call supplies the key of an older verdict
    GraderStores,    \* what the store may hold before the first run
    GraderFaults,    \* store operations may fail
    GraderBudget,    \* PROBE_BUDGET
    MaxReasks,       \* MAX_REASKS
    MaxRuns          \* bound: runs over the store

NoValue == "no value"
Values == {"yes", "no"}
BadPayloads == {"malformed", "truncated"}
EntrySet == [verdict : Values \cup {NoValue}, raw : Values \cup BadPayloads \cup {NoValue}]
NoEntry == [verdict |-> NoValue, raw |-> NoValue]  \* nothing, or neither field
KeyShapes == {"today", "canonical", "verdict"}
GraderKeys == KeyShapes \X {ExchangeRequest[x] : x \in Exchanges}

ASSUME ExchangeAssumption ==
    /\ \A x \in Exchanges : ExchangeKind[x] \in {"judge", "exec", "embedding"}
    /\ \A x, y \in Exchanges : ExchangeRequest[x] = ExchangeRequest[y] =>
            /\ ExchangeKind[x] = ExchangeKind[y]
            /\ x \in OldVerdicts <=> y \in OldVerdicts
    /\ \A x \in OldVerdicts : ExchangeKind[x] # "embedding"
    /\ GradedSuites \subseteq SUBSET Exchanges
    /\ \A p \in Paired : p \subseteq {x \in Exchanges : ExchangeKind[x] = "embedding"}
    /\ GraderStores \subseteq [GraderKeys -> EntrySet]
    /\ GraderFaults \in BOOLEAN
    /\ GraderBudget \in Nat /\ MaxReasks \in Nat /\ MaxRuns \in Nat

VARIABLES
    gsuite,   \* the exchanges of the suite at hand, which does not change
    gstore,   \* the store of grader entries
    ghad,     \* history: what it held before the first run
    gmode,    \* the cache mode of the run at hand
    gcached,  \* cache.grader of that run
    gruns,    \* runs begun
    gprobes,  \* MigrationProbe.remaining
    gadopted, \* MigrationProbe.adopted_any
    ex        \* exchange -> where it is and what it got

gvars == <<gsuite, gstore, ghad, gmode, gcached, gruns, gprobes, gadopted, ex>>

\* pc; re-asks made; the entry or payload in hand; how it ended; history: live
\* calls made, today's entry when it began, whether the store failed it.
IdleExchange == [pc |-> "idle", reasks |-> 0, held |-> NoEntry, got |-> NoValue,
                 err |-> "none", cached |-> FALSE,
                 live |-> 0, began |-> NoEntry, failed |-> FALSE]

GraderInit ==
    /\ gsuite \in GradedSuites
    /\ gstore \in GraderStores
    /\ ghad = gstore
    /\ gmode = "disabled" /\ gcached = FALSE
    /\ gruns = 0
    /\ gprobes = 0 /\ gadopted = FALSE
    /\ ex = [x \in Exchanges |-> IdleExchange]

-----------------------------------------------------------------------------
\* Judge::parse with Verdict::from_json, grade_exec's parser and
\* EmbeddingsProvider::parse: a value, or the error it ends with.
ParseError(kind, payload) ==
    CASE payload \in Values -> "none"
      [] payload \notin Values /\ kind = "exec" -> "exec_failed"
      [] payload = "truncated" /\ kind = "judge" -> "truncated_verdict"
      [] OTHER -> "invalid_verdict"
Parsed(kind, payload) == IF payload \in Values THEN payload ELSE "yes"

\* GraderError::is_retryable
Retryable(err) == err \in {"invalid_verdict", "truncated_verdict"}

\* The re-asks each call site allows itself.
Reasks(kind) == IF kind = "judge" THEN MaxReasks ELSE 0

\* post_judge, run_exec_json and EmbeddingsProvider::post: what a live call
\* fails with.
LiveErrors(kind) ==
    CASE kind = "judge" -> {"transport", "auth_rejected", "misconfigured"}
      [] kind = "exec" -> {"exec_failed"}
      [] kind = "embedding" -> {"transport"}

\* serve: a verdict first, then a payload that parses; anything else is a miss.
Serves(kind, e) ==
    \/ e.verdict # NoValue
    \/ e.raw # NoValue /\ ParseError(kind, e.raw) = "none"
Served(kind, e) == IF e.verdict # NoValue THEN e.verdict ELSE Parsed(kind, e.raw)

-----------------------------------------------------------------------------
KeyOf(shape, x) == <<shape, ExchangeRequest[x]>>
Lookup(x, shape) == gstore[KeyOf(shape, x)]

\* What a get returns: the entry, or nothing when the store fails.
Reads(x, shape, e) == e = Lookup(x, shape) \/ (GraderFaults /\ e = NoEntry)

\* The store is immutable: a put over an entry, or one that fails, does nothing.
StoredOver(x, e) == [gstore EXCEPT ![KeyOf("today", x)] = e]  \* mutant: replaces
StoredFirst(x, e) ==
    [gstore EXCEPT ![KeyOf("today", x)] = IF @ = NoEntry THEN e ELSE @]
Puts(x, e) == gstore' = StoredFirst(x, e) \/ (GraderFaults /\ UNCHANGED gstore)

\* An exchange moves.  When it fails, try_join drops the other half of its pair.
Step(x, new) ==
    ex' = [y \in Exchanges |->
             IF y = x THEN new
             ELSE IF new.err # "none" /\ {x, y} \in Paired /\ ex[y].pc # "done"
             THEN [ex[y] EXCEPT !.pc = "done", !.err = "dropped"]
             ELSE ex[y]]
Answer(x, value, replayed) ==
    [ex[x] EXCEPT !.pc = "done", !.got = value, !.cached = replayed]
Fail(x, err) == [ex[x] EXCEPT !.pc = "done", !.err = err]

\* MigrationProbe::should_probe claims from the budget until something is adopted.
ProbeGranted == gadopted \/ gprobes > 0
ClaimProbe == gprobes' = IF gadopted \/ gprobes = 0 THEN gprobes ELSE gprobes - 1

\* Where a miss goes when there is nothing left to adopt.
LiveOrRefused(x) ==
    IF gmode = "read_only_strict" THEN Fail(x, "cache_miss")
    ELSE [ex[x] EXCEPT !.pc = "live"]

\* A run begins: its mode, cache.grader and a probe of its own.
BeginGradingRun(mode, on) ==
    /\ gruns < MaxRuns
    /\ \A x \in Exchanges : ex[x].pc \in {"idle", "done"}
    /\ gruns' = gruns + 1
    /\ gmode' = mode /\ gcached' = on
    /\ gprobes' = GraderBudget /\ gadopted' = FALSE
    /\ ex' = [x \in Exchanges |-> IdleExchange]
    /\ UNCHANGED <<gsuite, gstore, ghad>>

\* graded_verdict decides whether there is a cache; offline without one is
\* refused.  A grader that is missing or cannot work fails before any lookup.
HasCache == gcached /\ gmode # "disabled"
BeginExchange(x) ==
    /\ x \in gsuite /\ ex[x].pc = "idle" /\ gruns > 0
    /\ Step(x, CASE ~HasCache /\ gmode = "read_only_strict" -> Fail(x, "cache_miss")
                 [] x \in Unprepared /\ (HasCache \/ gmode # "read_only_strict") ->
                       Fail(x, "misconfigured")
                 [] x \notin Unprepared /\ HasCache ->
                       [ex[x] EXCEPT !.pc = "get", !.began = Lookup(x, "today")]
                 [] OTHER -> [ex[x] EXCEPT !.pc = "live"])
    /\ UNCHANGED <<gsuite, gstore, ghad, gmode, gcached, gruns, gprobes, gadopted>>

\* cached_exchange: the entry under today's key.
GetToday(x) ==
    /\ ex[x].pc = "get"
    /\ \E e \in {NoEntry, Lookup(x, "today")} :
          /\ Reads(x, "today", e)
          /\ Step(x, IF Serves(ExchangeKind[x], e)
                     THEN Answer(x, Served(ExchangeKind[x], e), TRUE)
                     ELSE [ex[x] EXCEPT !.pc = "canonical",
                                        !.failed = @ \/ e # Lookup(x, "today")])
    /\ UNCHANGED <<gsuite, gstore, ghad, gmode, gcached, gruns, gprobes, gadopted>>

\* adopt_legacy_canonical: an exec call never had another canonical request.  An
\* adoption is recorded even when the payload is then rejected.
ProbeCanonical(x) ==
    /\ ex[x].pc = "canonical"
    /\ \/ /\ ExchangeKind[x] = "exec"
          /\ Step(x, [ex[x] EXCEPT !.pc = "verdict"])
          /\ UNCHANGED <<gprobes, gadopted>>
       \/ /\ ExchangeKind[x] # "exec" /\ ~ProbeGranted
          /\ Step(x, [ex[x] EXCEPT !.pc = "verdict"])
          /\ UNCHANGED <<gprobes, gadopted>>
       \/ /\ ExchangeKind[x] # "exec" /\ ProbeGranted
          /\ ClaimProbe
          /\ \E e \in {NoEntry, Lookup(x, "canonical")} :
                /\ Reads(x, "canonical", e)
                /\ gadopted' = (gadopted \/ e # NoEntry)
                /\ Step(x, IF Serves(ExchangeKind[x], e)
                           THEN [ex[x] EXCEPT !.pc = "refile", !.held = e]
                           ELSE [ex[x] EXCEPT !.pc = "verdict"])
    /\ UNCHANGED <<gsuite, gstore, ghad, gmode, gcached, gruns>>

\* adopt_legacy: only an entry with a verdict counts, for a call that had one.
ProbeVerdict(x) ==
    /\ ex[x].pc = "verdict"
    /\ \/ /\ x \notin OldVerdicts \/ ~ProbeGranted
          /\ Step(x, LiveOrRefused(x))
          /\ UNCHANGED <<gprobes, gadopted>>
       \/ /\ x \in OldVerdicts /\ ProbeGranted
          /\ ClaimProbe
          /\ \E e \in {NoEntry, Lookup(x, "verdict")} :
                /\ Reads(x, "verdict", e)
                /\ gadopted' = (gadopted \/ e.verdict # NoValue)
                /\ Step(x, IF e.verdict # NoValue
                           THEN [ex[x] EXCEPT !.pc = "refile", !.held = e]
                           ELSE LiveOrRefused(x))
    /\ UNCHANGED <<gsuite, gstore, ghad, gmode, gcached, gruns>>

\* An adopted entry is filed under today's key, unless the run only reads.
Refile(x) ==
    /\ ex[x].pc = "refile"
    /\ IF gmode = "read_write" THEN Puts(x, ex[x].held) ELSE UNCHANGED gstore
    /\ Step(x, Answer(x, Served(ExchangeKind[x], ex[x].held), TRUE))
    /\ UNCHANGED <<gsuite, ghad, gmode, gcached, gruns, gprobes, gadopted>>

\* One round of ask_live: the call answers or fails, the answer is parsed, and a
\* failure that was sampled is asked again while the call site allows it.
AskAgain(x, err) ==
    IF ex[x].reasks < Reasks(ExchangeKind[x]) /\ Retryable(err)
    THEN [ex[x] EXCEPT !.reasks = @ + 1, !.live = @ + 1]
    ELSE [Fail(x, err) EXCEPT !.live = @ + 1]

AskLive(x) ==
    /\ ex[x].pc = "live"
    /\ \/ \E payload \in Values \cup BadPayloads :
             LET err == ParseError(ExchangeKind[x], payload)
             IN Step(x, IF err = "none"
                        THEN [ex[x] EXCEPT !.pc = "put", !.live = @ + 1,
                                           !.held = [NoEntry EXCEPT !.raw = payload]]
                        ELSE AskAgain(x, err))
       \/ \E err \in LiveErrors(ExchangeKind[x]) : Step(x, AskAgain(x, err))
    /\ UNCHANGED <<gsuite, gstore, ghad, gmode, gcached, gruns, gprobes, gadopted>>

\* fresh_entry is stored when there is a cache to store it in; the answer stands
\* whether or not that worked.
StoreFresh(x) ==
    /\ ex[x].pc = "put"
    /\ IF gcached /\ gmode = "read_write" THEN Puts(x, ex[x].held) ELSE UNCHANGED gstore
    /\ Step(x, Answer(x, Served(ExchangeKind[x], ex[x].held), FALSE))
    /\ UNCHANGED <<gsuite, ghad, gmode, gcached, gruns, gprobes, gadopted>>

ExchangeStep(x) ==
    \/ BeginExchange(x) \/ GetToday(x) \/ ProbeCanonical(x) \/ ProbeVerdict(x)
    \/ Refile(x) \/ AskLive(x) \/ StoreFresh(x)

GraderNext ==
    \/ \E x \in Exchanges : ExchangeStep(x)
    \/ \E mode \in {"read_write", "read_only_strict", "disabled"}, on \in BOOLEAN :
          BeginGradingRun(mode, on)

GraderSpec == GraderInit /\ [][GraderNext]_gvars

-----------------------------------------------------------------------------
ExchangeTypeOK ==
    /\ gstore \in [GraderKeys -> EntrySet] /\ ghad \in [GraderKeys -> EntrySet]
    /\ gmode \in {"read_write", "read_only_strict", "disabled"} /\ gcached \in BOOLEAN
    /\ gruns \in 0..MaxRuns /\ gprobes \in 0..GraderBudget /\ gadopted \in BOOLEAN
    /\ \A x \in Exchanges :
          /\ ex[x].pc \in {"idle", "get", "canonical", "verdict", "refile", "live", "put", "done"}
          /\ ex[x].reasks \in 0..MaxReasks /\ ex[x].held \in EntrySet

\* StoredVerdictsStand: once an entry that today's parser accepts is under a key,
\* every later exchange of that request, in any run that reads the store and is not
\* failed by it, ends with exactly that entry's value; a stored payload the parser
\* rejects never decides anything, and is never written over; and what the runs
\* added is a payload the parser accepts, or a verdict an older version had stored
\* (cached_exchange, serve, fresh_entry, and the immutability of the store).
StoredVerdictsStand ==
    /\ \A x \in Exchanges :
          (/\ ex[x].pc = "done" /\ ex[x].err # "dropped" /\ ~ex[x].failed
           /\ Serves(ExchangeKind[x], ex[x].began)) =>
              /\ ex[x].cached /\ ex[x].live = 0
              /\ ex[x].got = Served(ExchangeKind[x], ex[x].began)
    /\ \A k \in GraderKeys : ghad[k] # NoEntry => gstore[k] = ghad[k]
    /\ \A x \in Exchanges :
          LET e == Lookup(x, "today")
          IN e # ghad[KeyOf("today", x)] =>
                IF e.verdict = NoValue THEN e.raw \in Values
                ELSE \E s \in {"canonical", "verdict"} : ghad[KeyOf(s, x)].verdict = e.verdict
=============================================================================
