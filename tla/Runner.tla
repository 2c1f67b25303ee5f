------------------------------- MODULE Runner -------------------------------
(***************************************************************************)
(* One run of a suite: the cells of the matrix, evaluated concurrently     *)
(* (domarinn-core/src/runner.rs, runner_cell.rs, runner_fallback.rs,       *)
(* runner_cache.rs, runner_asserts.rs, empty_policy.rs, cache_adopt.rs).   *)
(*                                                                         *)
(* run_with_progress drives every cell through buffer_unordered on one     *)
(* task, so the code between two awaits is atomic: each action below is    *)
(* the code from one await point to the next.  What cells share is the     *)
(* response cache, the abort flag and the budget for probing old keys.     *)
(*                                                                         *)
(* Data is reduced to what the control flow tells apart: a response is its *)
(* reason for being empty, a failure is its error class.  Retries and the  *)
(* rate limiter, which no cell's control flow depends on, are in Pacing.   *)
(***************************************************************************)
EXTENDS Integers, Sequences, FiniteSets

CONSTANTS
    NCells,          \* cells of the matrix, started in this order
    Concurrency,     \* RunOptions.concurrency
    Mode,            \* RunOptions.cache_mode
    Providers,
    Chain,           \* cell -> the configured provider, then its fallback links
    FallbackEnabled, \* RunOptions.fallback
    Triggers,        \* FallbackPolicy.on_empty_reason
    Request,         \* cell -> the identity of its request; cells may share one
    Keyed,           \* providers that are cacheable and have a canonical request
    Shapes,          \* generation -> providers that kept entries under it
    InitialStores,   \* what the cache may hold when the run starts
    StoreFaults,     \* cache reads and writes may fail
    StorePolicy,     \* cache.store_empty_outputs
    ProbeBudget,     \* PROBE_BUDGET; 0 stands for --no-cache-migration
    Replies,         \* the responses a live call may produce
    CallErrors,      \* the error classes a live call may end with
    Unrenderable,    \* cells whose vars, history or prompt do not render
    Latency,         \* cells carrying a latency assert
    Graded,          \* cell -> the number of its graded asserts
    HasGrader,       \* a grader was given to the run
    GraderCache,     \* RunOptions.grader_cache
    ShortCircuit,    \* runner.short_circuit
    SkipReasons,     \* runner.skip_on_empty_reason
    ExpectFail       \* cells marked expect_fail

Cells == 1..NCells

\* Responses, by the reason recorded on them; "prose" is non-empty output that
\* only a refusal pattern recognises, so nothing is recorded.
AllReplies == {"answer", "prose", "refusal", "truncated"}

\* Error classes a provider call can end with.  The last two never leave a
\* live call: they stand for a refused and an unreadable cache lookup.
LiveErrors == {"provider_auth", "provider_unavailable", "provider_request"}
CacheErrors == {"cache_miss", "cache_unavailable"}

None == "none"

\* The key shapes a lookup may use: today's, and the two that are adopted from.
OldGenerations == {"canonical", "fingerprint"}
Keys == ({"today"} \cup OldGenerations) \X {Request[c] : c \in Cells} \X Providers

ASSUME RunnerAssumption ==
    /\ NCells \in Nat
    /\ Concurrency \in Nat \ {0}
    /\ Mode \in {"read_write", "disabled", "read_only_strict"}
    /\ \A c \in Cells : /\ Chain[c] \in Seq(Providers)
                        /\ Len(Chain[c]) > 0
                        /\ Graded[c] \in Nat
    /\ FallbackEnabled \in BOOLEAN
    /\ None \notin Triggers
    /\ Keyed \subseteq Providers
    /\ InitialStores \subseteq [Keys -> AllReplies \cup {None}]
    /\ StorePolicy \in {"always", "never", "reproducible"}
    /\ ProbeBudget \in Nat
    /\ Replies \subseteq AllReplies
    /\ CallErrors \subseteq LiveErrors
    /\ ShortCircuit \in BOOLEAN

VARIABLES
    pc,         \* where each cell is
    link,       \* the chain link it is calling
    out,        \* the outcome of that link
    primary,    \* call_chain's primary_attempt
    attempted,  \* the providers it handed off from
    report,     \* the outcome the chain settled on
    todo,       \* graded asserts still to run
    passed,     \* every assert scored so far passed
    erred,      \* some assert could not be evaluated or graded
    status,     \* CaseResult.status
    cache,      \* the response cache
    remaining,  \* MigrationProbe.remaining
    adopted,    \* MigrationProbe.adopted_any
    aborted,    \* AbortFlag
    calls,      \* history: live provider calls made by each cell
    late,       \* history: those begun after the run was aborted
    verdicts    \* history: graded asserts of each cell that got a verdict

cellVars == <<pc, link, out, primary, attempted, report>>
gradeVars == <<todo, passed, erred, status>>
sharedVars == <<cache, remaining, adopted, aborted>>
historyVars == <<calls, late, verdicts>>
vars == <<cellVars, gradeVars, sharedVars, historyVars>>

-----------------------------------------------------------------------------
\* Outcomes of call_with_cache: a response, replayed or live, or a failure.
Response(reply, cached, by) ==
    [reply |-> reply, err |-> None, cached |-> cached, by |-> by]
Failure(class, by) ==
    [reply |-> None, err |-> class, cached |-> FALSE, by |-> by]
Failed(o) == o.err # None

\* EmptyPolicy::effective_reason and the reason an entry recorded.
EffectiveReason(reply) ==
    CASE reply = "answer" -> None [] reply = "prose" -> "refusal" [] OTHER -> reply
RecordedReason(reply) == IF reply \in {"answer", "prose"} THEN None ELSE reply

\* EmptyPolicy::should_store.
ShouldStore(reason) ==
    \/ reason = None
    \/ StorePolicy = "always"
    \/ StorePolicy = "reproducible" /\ reason = "truncated"

\* EmptyPolicy::stored_entry_is_declined.
StoredEntryIsDeclined(reply) == ~ShouldStore(RecordedReason(reply))

\* An adopted entry is re-filed under today's key only where a fresh answer with
\* its reason would be stored.
Refiles(reply) == Mode = "read_write" /\ ~StoredEntryIsDeclined(reply)

\* FallbackPolicy::hand_off, over the classes of FALLBACK_ERROR_CLASSES.
HandOff(o) ==
    IF Failed(o) THEN o.err \in {"provider_auth", "provider_unavailable"}
                 ELSE EffectiveReason(o.reply) \in Triggers

\* call_chain's decision whether this cell walks its chain at all.
Walk(c) == FallbackEnabled /\ Mode # "read_only_strict" /\ c \notin Latency
Last(c) == IF Walk(c) THEN Len(Chain[c]) ELSE 1

Provider(c) == Chain[c][link[c]]
Key(c) == <<"today", Request[c], Provider(c)>>
OldKey(c, g) == <<g, Request[c], Provider(c)>>

\* The lookups of a cell: bypass_cache turns the mode into Disabled.
UsesCache(c) == Mode # "disabled" /\ c \notin Latency /\ Provider(c) \in Keyed

\* What holds a slot of buffer_unordered: a cell that began and has not ended.
InFlightInOrder ==                                     \* mutant: `buffered`
    {c \in Cells : /\ pc[c] # "queued"
                   /\ \E d \in 1..c : pc[d] \notin {"queued", "done"}}
InFlight == {c \in Cells : pc[c] \notin {"queued", "done"}}

\* MigrationProbe::should_probe: a claim is granted once anything was adopted,
\* or while the budget lasts.
ShouldProbe == adopted \/ remaining > 0

\* call_chain checks the flag before every link but the first.
StopBetweenLinksNever(c) == FALSE                      \* mutant: check dropped
StopBetweenLinks(c) == link[c] > 1 /\ aborted

\* call_chain: the chain settled on a link that is no better than the primary.
NeverImprovedAtLast(c) ==                              \* mutant: middle links forgotten
    link[c] > 1 /\ link[c] = Last(c) /\ (Failed(out[c]) \/ HandOff(out[c]))
NeverImproved(c) == link[c] > 1 /\ (Failed(out[c]) \/ HandOff(out[c]))

\* Where a cell goes when neither today's key nor an old one had an entry.
MissGoesLive(c) == "call"                              \* mutant: strictness dropped
MissGoesTo(c) == IF Mode = "read_only_strict" THEN "miss" ELSE "call"

\* A graded assert that gets an error instead of a grading call.
CannotGrade ==
    aborted \/ ~HasGrader \/ (Mode = "read_only_strict" /\ ~GraderCache)

\* The asserts left once one was dealt with, and whether an assert that was not
\* graded makes the case an error.
TodoLess(c) == todo[c] - 1
ErrorDropped(c) == erred[c]                            \* mutant: plain `continue`
ErrorRecorded(c) == TRUE

\* run_cell's final status; an error outranks a skip, a skip outranks a verdict.
CaseStatus(c) ==
    CASE erred[c] -> "error"
      [] ~erred[c] /\ EffectiveReason(report[c].reply) \in SkipReasons -> "skip"
      [] OTHER -> IF passed[c] THEN (IF c \in ExpectFail THEN "xpass" ELSE "pass")
                               ELSE (IF c \in ExpectFail THEN "xfail" ELSE "fail")

\* CacheBackend::put: the first write of a key wins.
PutReplacing(k, reply) == [cache EXCEPT ![k] = reply]  \* mutant: last write wins
Put(k, reply) == IF cache[k] = None THEN [cache EXCEPT ![k] = reply] ELSE cache

-----------------------------------------------------------------------------
Init ==
    /\ pc = [c \in Cells |-> "queued"]
    /\ link = [c \in Cells |-> 1]
    /\ out = [c \in Cells |-> Failure(None, Chain[c][1])]
    /\ primary = out
    /\ attempted = [c \in Cells |-> <<>>]
    /\ report = out
    /\ todo = [c \in Cells |-> 0]
    /\ passed = [c \in Cells |-> TRUE]
    /\ erred = [c \in Cells |-> FALSE]
    /\ status = [c \in Cells |-> None]
    /\ cache \in InitialStores
    /\ remaining = ProbeBudget
    /\ adopted = FALSE
    /\ aborted = FALSE
    /\ calls = [c \in Cells |-> 0]
    /\ late = [c \in Cells |-> 0]
    /\ verdicts = [c \in Cells |-> 0]

Goto(c, label) == pc' = [pc EXCEPT ![c] = label]

\* error_case: the cell ends without grading anything.
ErrorCase(c, o) ==
    /\ Goto(c, "done")
    /\ status' = [status EXCEPT ![c] = "error"]
    /\ report' = [report EXCEPT ![c] = o]

\* The next cell in order is polled for the first time: the abort check, the
\* rendering and the refusal of a latency assert offline, before any call.
StartCell(c) ==
    /\ pc[c] = "queued"
    /\ \A d \in Cells : d < c => pc[d] # "queued"
    /\ Cardinality(InFlight) < Concurrency
    /\ \/ /\ aborted
          /\ ErrorCase(c, Failure("provider_auth", Chain[c][1]))
       \/ /\ ~aborted /\ c \in Unrenderable
          /\ ErrorCase(c, Failure("render_failed", Chain[c][1]))
       \/ /\ ~aborted /\ c \notin Unrenderable
          /\ c \in Latency /\ Mode = "read_only_strict"
          /\ ErrorCase(c, Failure("cache_miss", Chain[c][1]))
       \/ /\ ~aborted /\ c \notin Unrenderable
          /\ ~(c \in Latency /\ Mode = "read_only_strict")
          /\ Goto(c, "enter")
          /\ UNCHANGED <<status, report>>
    /\ UNCHANGED <<link, out, primary, attempted, todo, passed, erred,
                   sharedVars, historyVars>>

\* The chain settles on an outcome: an error ends the cell, a response is graded.
Report(c, o) ==
    \/ Failed(o) /\ ErrorCase(c, o)
    \/ /\ ~Failed(o)
       /\ report' = [report EXCEPT ![c] = o]
       /\ Goto(c, "asserts")
       /\ UNCHANGED status

\* call_chain, the head of its loop.
EnterLink(c) ==
    /\ pc[c] = "enter"
    /\ \/ /\ StopBetweenLinks(c)
          /\ Report(c, primary[c])
          /\ attempted' = [attempted EXCEPT ![c] = <<>>]
       \/ /\ ~StopBetweenLinks(c)
          /\ Goto(c, IF UsesCache(c) THEN "lookup" ELSE "call")
          /\ UNCHANGED <<report, status, attempted>>
    /\ UNCHANGED <<link, out, primary, todo, passed, erred, sharedVars, historyVars>>

\* The lookup under today's key.
Lookup(c) ==
    /\ pc[c] = "lookup"
    /\ \/ /\ StoreFaults
          /\ out' = [out EXCEPT ![c] = Failure("cache_unavailable", Provider(c))]
          /\ Goto(c, "settle")
       \/ /\ cache[Key(c)] # None
          /\ out' = [out EXCEPT ![c] = Response(cache[Key(c)], TRUE, Provider(c))]
          /\ Goto(c, "settle")
       \/ /\ cache[Key(c)] = None
          /\ Goto(c, "claim_canonical")
          /\ UNCHANGED out
    /\ UNCHANGED <<link, primary, attempted, report, gradeVars, sharedVars, historyVars>>

Claim == [canonical |-> "claim_canonical", fingerprint |-> "claim_fingerprint"]
Read  == [canonical |-> "read_canonical", fingerprint |-> "read_fingerprint"]

\* The label after the old key of generation g had nothing.
AfterOld(c, g) == IF g = "canonical" THEN Claim["fingerprint"] ELSE MissGoesTo(c)

\* adopt_legacy_canonical and adopt_legacy, up to their first read: only the
\* primary probes, only under a shape its provider had, and only on budget.
ClaimProbe(c, g) ==
    /\ pc[c] = Claim[g]
    /\ LET eligible == link[c] = 1 /\ Provider(c) \in Shapes[g]
       IN  /\ Goto(c, IF eligible /\ ShouldProbe THEN Read[g] ELSE AfterOld(c, g))
           /\ remaining' = IF eligible /\ ~adopted /\ ProbeBudget > 0
                           THEN remaining - 1 ELSE remaining
    /\ UNCHANGED <<link, out, primary, attempted, report, gradeVars,
                   cache, adopted, aborted, historyVars>>

\* The read under an old key: an entry is adopted, and re-filed under today's
\* key unless the policy would not store it.
ReadOld(c, g) ==
    /\ pc[c] = Read[g]
    /\ \/ /\ cache[OldKey(c, g)] # None
          /\ adopted' = TRUE
          /\ out' = [out EXCEPT ![c] = Response(cache[OldKey(c, g)], TRUE, Provider(c))]
          /\ Goto(c, IF Refiles(cache[OldKey(c, g)]) THEN "store" ELSE "settle")
       \/ /\ cache[OldKey(c, g)] = None \/ StoreFaults
          /\ Goto(c, AfterOld(c, g))
          /\ UNCHANGED <<adopted, out>>
    /\ UNCHANGED <<link, primary, attempted, report, gradeVars,
                   cache, remaining, aborted, historyVars>>

\* Offline, a miss is a failure before any attempt.
RefuseMiss(c) ==
    /\ pc[c] = "miss"
    /\ out' = [out EXCEPT ![c] = Failure("cache_miss", Provider(c))]
    /\ Goto(c, "settle")
    /\ UNCHANGED <<link, primary, attempted, report, gradeVars, sharedVars, historyVars>>

\* The live call begins.
Call(c) ==
    /\ pc[c] = "call"
    /\ calls' = [calls EXCEPT ![c] = @ + 1]
    /\ late' = [late EXCEPT ![c] = IF aborted THEN @ + 1 ELSE @]
    /\ Goto(c, "live")
    /\ UNCHANGED <<link, out, primary, attempted, report, gradeVars, sharedVars,
                   verdicts>>

\* ... and answers, or fails for good after its retries.
Answer(c) ==
    /\ pc[c] = "live"
    /\ \/ \E r \in Replies :
            /\ out' = [out EXCEPT ![c] = Response(r, FALSE, Provider(c))]
            /\ Goto(c, IF /\ UsesCache(c) /\ Mode = "read_write"
                          /\ ShouldStore(EffectiveReason(r))
                       THEN "store" ELSE "settle")
       \/ \E e \in CallErrors :
            /\ out' = [out EXCEPT ![c] = Failure(e, Provider(c))]
            /\ Goto(c, "settle")
    /\ UNCHANGED <<link, primary, attempted, report, gradeVars, sharedVars, historyVars>>

\* cache.put of an answer or an adopted entry; a failed write is only logged.
Store(c) ==
    /\ pc[c] = "store"
    /\ \/ cache' = Put(Key(c), out[c].reply)
       \/ StoreFaults /\ UNCHANGED cache
    /\ Goto(c, "settle")
    /\ UNCHANGED <<link, out, primary, attempted, report, gradeVars,
                   remaining, adopted, aborted, historyVars>>

\* The tail of call_chain's loop: hand off, or settle on this link or, when the
\* chain never improved on it, on the primary.
Settle(c) ==
    /\ pc[c] = "settle"
    /\ \/ /\ link[c] < Last(c) /\ HandOff(out[c])
          /\ attempted' = [attempted EXCEPT ![c] = Append(@, Provider(c))]
          /\ primary' = IF link[c] = 1 THEN [primary EXCEPT ![c] = out[c]] ELSE primary
          /\ link' = [link EXCEPT ![c] = @ + 1]
          /\ Goto(c, "enter")
          /\ UNCHANGED <<report, status>>
       \/ /\ ~(link[c] < Last(c) /\ HandOff(out[c]))
          /\ Report(c, IF NeverImproved(c) THEN primary[c] ELSE out[c])
          /\ attempted' = IF NeverImproved(c) THEN [attempted EXCEPT ![c] = <<>>]
                                              ELSE attempted
          /\ UNCHANGED <<primary, link>>
    /\ UNCHANGED <<out, todo, passed, erred, sharedVars, historyVars>>

\* evaluate_asserts, the deterministic asserts and the decision whether the
\* graded ones can still change a case that passes when every assert passes.
LocalAsserts(c) ==
    /\ pc[c] = "asserts"
    /\ \E outcome \in {"pass", "fail", "unevaluable"} :
          /\ passed' = [passed EXCEPT ![c] = outcome = "pass"]
          /\ erred' = [erred EXCEPT ![c] = outcome = "unevaluable"]
          /\ todo' = [todo EXCEPT ![c] =
                        IF ShortCircuit /\ outcome # "pass" THEN 0 ELSE Graded[c]]
    /\ Goto(c, "grade")
    /\ UNCHANGED <<link, out, primary, attempted, report, status, sharedVars, historyVars>>

\* evaluate_asserts, the head of the loop over the graded asserts.
GradeNext(c) ==
    /\ pc[c] = "grade"
    /\ todo[c] > 0
    /\ \/ /\ CannotGrade
          /\ erred' = [erred EXCEPT ![c] = ErrorRecorded(c)]
          /\ todo' = [todo EXCEPT ![c] = TodoLess(c)]
          /\ UNCHANGED pc
       \/ /\ ~CannotGrade
          /\ Goto(c, "judging")
          /\ UNCHANGED <<erred, todo>>
    /\ UNCHANGED <<link, out, primary, attempted, report, passed, status, sharedVars,
                   calls, late, verdicts>>

\* The grader's result: a verdict, an error of the grader, or a rejected
\* credential, which poisons the run.  Offline nothing rejects a credential.
Judged(c) ==
    /\ pc[c] = "judging"
    /\ todo' = [todo EXCEPT ![c] = TodoLess(c)]
    /\ Goto(c, "grade")
    /\ \/ /\ \E ok \in BOOLEAN : passed' = [passed EXCEPT ![c] = @ /\ ok]
          /\ verdicts' = [verdicts EXCEPT ![c] = @ + 1]
          /\ UNCHANGED <<erred, aborted>>
       \/ /\ erred' = [erred EXCEPT ![c] = TRUE]
          /\ UNCHANGED <<passed, aborted, verdicts>>
       \/ /\ Mode # "read_only_strict"
          /\ erred' = [erred EXCEPT ![c] = TRUE]
          /\ aborted' = TRUE
          /\ UNCHANGED <<passed, verdicts>>
    /\ UNCHANGED <<link, out, primary, attempted, report, status,
                   cache, remaining, adopted, calls, late>>

\* run_cell returns its case.
Finish(c) ==
    /\ pc[c] = "grade"
    /\ todo[c] = 0
    /\ status' = [status EXCEPT ![c] = CaseStatus(c)]
    /\ Goto(c, "done")
    /\ UNCHANGED <<link, out, primary, attempted, report, todo, passed, erred,
                   sharedVars, historyVars>>

CellStep(c) ==
    \/ StartCell(c)
    \/ EnterLink(c)
    \/ Lookup(c)
    \/ \E g \in OldGenerations : ClaimProbe(c, g) \/ ReadOld(c, g)
    \/ RefuseMiss(c)
    \/ Call(c)
    \/ Answer(c)
    \/ Store(c)
    \/ Settle(c)
    \/ LocalAsserts(c)
    \/ GradeNext(c)
    \/ Judged(c)
    \/ Finish(c)

Next == \E c \in Cells : CellStep(c)

\* The cell waits for a store or for another process.
Awaiting(c) ==
    pc[c] \in {"lookup", "read_canonical", "read_fingerprint", "live", "store", "judging"}

\* The code between two awaits: of some cell, on the one task of the run.
Ready == \E c \in Cells : ~Awaiting(c) /\ CellStep(c)

\* The task goes on while some cell is ready.  Nothing is assumed of the awaits:
\* what a cell waits for need never end (the client of the remote cache has no
\* timeout, and the write to an exec child is outside the child's).
Spec == Init /\ [][Next]_vars /\ WF_vars(Ready)

-----------------------------------------------------------------------------
Labels == {"queued", "enter", "lookup", "claim_canonical", "read_canonical",
           "claim_fingerprint", "read_fingerprint", "miss", "call", "live",
           "store", "settle", "asserts", "grade", "judging", "done"}
Statuses == {None, "pass", "fail", "error", "skip", "xpass", "xfail"}
Outcomes == [reply : AllReplies \cup {None},
             err : LiveErrors \cup CacheErrors \cup {"render_failed", None},
             cached : BOOLEAN,
             by : Providers]

\* Every variable has its type, a link is one of its chain, and exactly the
\* finished cells have a status ("every cell filled").
TypeOK ==
    /\ pc \in [Cells -> Labels]
    /\ link \in [Cells -> Nat]
    /\ \A c \in Cells : link[c] \in 1..Len(Chain[c])
    /\ out \in [Cells -> Outcomes]
    /\ primary \in [Cells -> Outcomes]
    /\ attempted \in [Cells -> Seq(Providers)]
    /\ report \in [Cells -> Outcomes]
    /\ todo \in [Cells -> Nat]
    /\ passed \in [Cells -> BOOLEAN]
    /\ erred \in [Cells -> BOOLEAN]
    /\ status \in [Cells -> Statuses]
    /\ \A c \in Cells : pc[c] = "done" <=> status[c] # None
    /\ cache \in [Keys -> AllReplies \cup {None}]
    /\ remaining \in Int
    /\ adopted \in BOOLEAN
    /\ aborted \in BOOLEAN
    /\ calls \in [Cells -> Nat]
    /\ late \in [Cells -> Nat]
    /\ verdicts \in [Cells -> Nat]

\* Once a grader rejected the run's credential, fewer than Concurrency further
\* provider calls begin, at most one per cell, however long the fallback chains
\* are (AbortFlag: "the loss is bounded at roughly N in-flight calls").
BoundedLoss ==
    /\ \A c \in Cells : late[c] <= 1
    /\ Cardinality({c \in Cells : late[c] > 0}) < Concurrency


\* A fallback never makes a case worse or different than no fallback: the chain
\* reports the primary's own outcome, with nothing passed over, unless some link
\* answered with a response that is not itself a trigger, and then it lists the
\* links before that one.
NeverWorse ==
    \A c \in Cells :
        pc[c] \in {"asserts", "grade", "judging", "done"} /\ link[c] > 1 =>
            \/ report[c] = primary[c] /\ attempted[c] = <<>>
            \/ /\ ~Failed(report[c]) /\ ~HandOff(report[c])
               /\ report[c].by = Provider(c)
               /\ attempted[c] = SubSeq(Chain[c], 1, link[c] - 1)


\* `--cache-only` is offline: whatever is missing from the store, no provider is
\* called.
CacheOnlyIsOffline ==
    Mode = "read_only_strict" => \A c \in Cells : calls[c] = 0

\* A replayed answer is what the store still holds under a key of the cell that
\* reports it, whatever the other cells wrote since.
ReplayMatchesStore ==
    \A c \in Cells :
        report[c].cached =>
            \E g \in {"today"} \cup OldGenerations :
                cache[<<g, Request[c], report[c].by>>] = report[c].reply

\* A case passes only when every one of its graded asserts got a verdict: an
\* aborted run, a missing grader or a broken one never turns into a pass.
NoUngradedPass ==
    \A c \in Cells : status[c] \in {"pass", "xpass"} => verdicts[c] = Graded[c]

\* A call that never ends costs its slot and no more: also when every slot but
\* one is held by a cell that waits forever, every other cell, before or behind
\* those in the matrix, gets its result (buffer_unordered).
HungCellsCostTheirSlots ==
    \A hung \in {h \in SUBSET Cells : Cardinality(h) = Concurrency - 1} :
        (\A c \in Cells \ hung : []<>~Awaiting(c))
            => <>(\A c \in Cells \ hung : status[c] # None)

=============================================================================
