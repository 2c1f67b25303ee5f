----------------------------- MODULE MCOffline ------------------------------
(***************************************************************************)
(* A small instance of Runner in its cache-only mode, of CacheIndex        *)
(* and of GradedCalls, in parts chosen by the initial state: the run; the  *)
(* index's background task with requests beside it; a client that pages    *)
(* through the table with requests beside it; and gradings over a store.   *)
(***************************************************************************)
EXTENDS MCRunner, CacheIndex, GradedCalls

VARIABLE part

offlineVars == <<vars, indexVars, gradedVars, part>>

-----------------------------------------------------------------------------
Blob(parses, kind, reason, text, size) ==
    [parses |-> parses, kind |-> kind, reason |-> reason, text |-> text, size |-> size]
AnswerBlob == Blob(TRUE, 2, Unknown, "answer", 1)
RefusalBlob == Blob(TRUE, 2, "refusal", "sorry", 1)
GarbageBlob == Blob(FALSE, NoKind, Unknown, Unknown, 2)
AFewBlobs == {AnswerBlob, RefusalBlob}

OldRow(k, body, looked, columns, ok) ==
    [key |-> k, body |-> body, created |-> 0, access |-> 0, indexed |-> looked,
     reindexed |-> FALSE, ok |-> ok, columns |-> columns]

\* A blob that is no entry and a refusal, from the build before there was an
\* index, or from the build before there were empty reasons.
OlderTables ==
    {1 :> OldRow(1, GarbageBlob, TRUE, NoColumns, 0)
     @@ 2 :> OldRow(2, RefusalBlob, TRUE, Columns(2, Unknown, "sorry"), 1),
     1 :> OldRow(1, GarbageBlob, FALSE, NoColumns, 2)
     @@ 2 :> OldRow(2, RefusalBlob, FALSE, NoColumns, 2)}

\* The same entries after the background task.
DrainedTable ==
    [i \in {1, 2} |-> LET body == <<GarbageBlob, RefusalBlob>>[i]
                     IN [OldRow(i, body, TRUE, ColumnsOf(derive(body)), i - 1)
                            EXCEPT !.reindexed = TRUE]]

AFewTables == OlderTables \cup {DrainedTable}

Listing(tier, sort, descending, words) ==
    [tier |-> tier, sort |-> sort, descending |-> descending, state |-> "any", kinds |-> {},
     reasons |-> {}, words |-> words]
AFewListings ==
    {Listing("server", "kind", TRUE, {}), Listing("server", "access", FALSE, {"sorry"}),
     Listing("local", "created", FALSE, {})}

\* A prune that names nothing, and one that names reasons and lists none.
AFewPrunes ==
    {[older |-> {}, newer |-> {}, reasons |-> {}, kind |-> {}, target |-> {}, blank |-> b] :
        b \in BOOLEAN}

NoMembers == [x \in {} |-> <<>>]
Word(w) == <<"word", w>>
Rubric == [kind |-> "llm-rubric", vendor |-> "anthropic", model |-> "m", base |-> "b", path |-> "/p", params |-> NoMembers,
           assert_params |-> NoMembers, template |-> Nothing, include_calls |-> FALSE, rubric |-> <<Word("r"), OUTPUT>>,
           overlay |-> NoMembers, salt |-> Nothing, rate |-> 1, auth |-> TRUE]
Template(reads, text) == [reads |-> reads, text |-> text]
Similar == [Rubric EXCEPT !.kind = "similar", !.vendor = "openai", !.rubric = <<Word("a")>>]
Checker == [kind |-> "exec", command |-> "check", config |-> "c", salt |-> Nothing]
Param(x) == [p \in {x} |-> <<"text", "1">>]
AFewAsserts ==
    {{Rubric, [Rubric EXCEPT !.vendor = "openai", !.overlay = [x \in {"top"} |-> <<"env", "V">>]],
      [Rubric EXCEPT !.include_calls = TRUE, !.rate = Nothing],
      [Rubric EXCEPT !.assert_params = Param("temperature"), !.salt = "s", !.auth = FALSE],
      [Rubric EXCEPT !.template = Template(TRUE, <<OUTPUT, RUBRIC, OUTPUT>>)],
      [Rubric EXCEPT !.template = Template(TRUE, <<OUTPUT, TOOL_CALLS>>)],
      [Rubric EXCEPT !.template = Template(FALSE, <<>>)], [Rubric EXCEPT !.vendor = Nothing],
      [Rubric EXCEPT !.params = Param("thinking")], [Rubric EXCEPT !.rubric = Nothing],
      [Rubric EXCEPT !.overlay = [x \in {"top"} |-> <<"env", "W">>]],
      [Rubric EXCEPT !.overlay = [x \in {"system"} |-> <<"text", "mine">>], !.rate = Nothing],
      [Rubric EXCEPT !.vendor = "exec"]},
     {Similar, [Similar EXCEPT !.rate = Nothing, !.auth = FALSE]},
     {Checker, [Checker EXCEPT !.salt = "s", !.config = "d"]}}
AToolUse(id) == [id |-> id, name |-> "f", args |-> "1"]
PlainCase == [output |-> <<Word("a"), RUBRIC>>, calls |-> <<>>, vars |-> "v", test |-> "t", provider |-> "p"]
AFewGraded == {PlainCase, [PlainCase EXCEPT !.calls = <<AToolUse("1")>>, !.test = "u", !.output = <<Word("a")>>], [PlainCase EXCEPT !.vars = "w"]}
Environment(key, v) == [n \in {"KEY", "V", "W"} |-> CASE n = "KEY" -> key [] n = "V" -> v [] n = "W" -> Unset]
AFewEnvirons == {Environment("1", "1"), Environment(Unset, "2")}
Verdict(p, s) == [pass |-> p, score |-> s]
NoPayloads == {[how |-> "garbled"], [how |-> "status", status |-> 401], [how |-> "status", status |-> 404], [how |-> "unreachable"]}
Tool(n, i) == [name |-> n, input |-> i]
FromAnthropic == NoPayloads \cup {[how |-> "ok", truncated |-> FALSE, tools |-> t, usage |-> 2] :
     t \in {<<Tool("other", Verdict(TRUE, 5))>>, <<Tool("other", Verdict(TRUE, 1)), Tool("submit_verdict", Verdict(FALSE, -1))>>,
            <<Tool("submit_verdict", Verdict(Nothing, 1))>>}}
   \cup {[how |-> "ok", truncated |-> TRUE, tools |-> <<Tool("submit_verdict", Verdict(TRUE, 1))>>, usage |-> Nothing]}
FromOpenai == {[how |-> "ok", truncated |-> t, content |-> x, usage |-> Nothing] : t \in BOOLEAN, x \in {Nothing, Verdict(TRUE, Nothing), Verdict(TRUE, 1)}}
AFewJudges == [v \in {"anthropic", "openai"} |-> IF v = "anthropic" THEN FromAnthropic ELSE FromOpenai]
AFewCheckers == {[how |-> "failed"]} \cup {[how |-> "ok", pass |-> p, score |-> s] : p \in {TRUE, FALSE, Nothing}, s \in {Nothing, 3}}
AFewVectors == {[how |-> "unreachable"], [how |-> "ok", vector |-> <<Nothing>>, usage |-> 1], [how |-> "ok", vector |-> <<1, Nothing>>, usage |-> Nothing],
            [how |-> "ok", vector |-> <<1, -2>>, usage |-> 3], [how |-> "ok", vector |-> <<2, 1>>, usage |-> 4]}
AFewOrigins == {[g |-> Rubric, c |-> PlainCase, e |-> Environment("1", "1")], [g |-> Checker, c |-> PlainCase, e |-> Environment("1", "1")]}

RunPart == part = "run" /\ Next /\ UNCHANGED <<indexVars, gradedVars, part>>

TaskPart ==
    /\ part = "task" /\ IndexNext
    /\ pager' = NoPager /\ IdsOf(3)' = {} /\ files' = files
    /\ UNCHANGED <<vars, gradedVars, part>>

\* The listing's tier changes beside the pages, and the other one stands still; it is
\* over when the listing is.
PagerPart ==
    /\ part = "pager"
    /\ \/ PagerStep \/ IndexClock
       \/ TableStep /\ \E l \in pager.listing : l.tier = "server"
       \/ (LocalStep \/ SnapshotEnds) /\ \E l \in pager.listing : l.tier = "local"
    /\ ~pager.done
    /\ UNCHANGED <<vars, gradedVars, part>>

\* A suite whose grading failed is not graded on.
GradedPart ==
    /\ part = "graded" /\ (graded # Nothing => graded.how # "error") /\ GradedNext
    /\ UNCHANGED <<vars, indexVars, part>>

OfflineInit ==
    /\ part \in {"run", "task", "pager", "graded"}
    /\ IndexInit /\ GradedInit
    /\ part = "task" => rows # DrainedTable
    /\ part # "task" => rows = DrainedTable /\ dialect = "sqlite"
    /\ part # "graded" => asserts = (CHOOSE a \in GradingSuites : TRUE) /\ verdictStore = [k \in {} |-> Nothing]
    /\ Init
    /\ part # "run" => cache = Under("today", "answer")

OfflineSpec ==
    /\ OfflineInit
    /\ [][RunPart \/ TaskPart \/ PagerPart \/ GradedPart]_offlineVars
    /\ WF_offlineVars(part = "task" /\ TaskStep /\ UNCHANGED <<vars, gradedVars, part>>)
    /\ WF_offlineVars(part = "run" /\ Ready /\ UNCHANGED <<indexVars, gradedVars, part>>)

\* A lookup that never ends costs the run its slot, and no other cell its result
\* (run_with_progress, buffer_unordered).
HungCallsCostTheirSlots == part = "run" => HungCellsCostTheirSlots
=============================================================================
