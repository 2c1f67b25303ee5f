------------------------------ MODULE RunGate -------------------------------
(***************************************************************************)
(* What is computed from the cases of finished runs: the summary           *)
(* (runner_result.rs), who must act on an errored case (error_class.rs),   *)
(* the CLI's difference of two runs (diff.rs, stats.rs), the server's      *)
(* comparison of the same two runs (storage/compare.rs) with the cause it  *)
(* gives for each case (change.rs), and the merge of a branch's runs       *)
(* (composite.rs).  A case keeps its key, status, error class, output and  *)
(* digests and whether a fallback answered it; an option is a sequence of  *)
(* at most one element.                                                    *)
(***************************************************************************)
EXTENDS Integers, Sequences, SequencesExt, FiniteSets

Statuses == {"pass", "fail", "error", "skip", "xfail", "xpass"}

(* The classes that blame the suite, and an order among graders' faults.   *)
SuiteClasses == {"grader_missing", "render_failed", "assert_failed", "checker_failed"}
PRECEDENCE == <<"grader_missing", "grader_unavailable", "grader_failed", "checker_failed", "assert_failed">>

Where(cases, P(_)) == {i \in DOMAIN cases : P(cases[i])}
WithStatus(cases, s) == Where(cases, LAMBDA c : c.status = s)

(* summarize, without tokens, money and the counts of cache hits.          *)
summarize(cases) ==
    [total |-> Len(cases),
     pass |-> Cardinality(WithStatus(cases, "pass")), fail |-> Cardinality(WithStatus(cases, "fail")),
     error |-> Cardinality(WithStatus(cases, "error")), skip |-> Cardinality(WithStatus(cases, "skip")),
     xfail |-> Cardinality(WithStatus(cases, "xfail")), xpass |-> Cardinality(WithStatus(cases, "xpass")),
     fallback_cases |-> Cardinality(Where(cases, LAMBDA c : c.status # "skip" /\ c.fallback))]

graded_nothing(s) == s.total > 0 /\ s.skip = s.total

answered_entirely_of_total(s) == s.total > 0 /\ s.fallback_cases = s.total

answered_entirely_by_fallbacks(s) ==
    LET graded == s.total - s.skip IN graded > 0 /\ s.fallback_cases = graded

(* gate_fault: an unknown or absent class is the harness's.                *)
gate_fault(class) == IF class \in SuiteClasses THEN "suite" ELSE "harness"

FaultsOf(cases) ==
    {IF cases[i].class = <<>> THEN "harness" ELSE gate_fault(cases[i].class[1]) : i \in WithStatus(cases, "error")}

(* worst_gate_fault: the harness outranks the suite.                       *)
worst_gate_fault(cases) ==
    CASE FaultsOf(cases) = {} -> "none"
      [] "harness" \in FaultsOf(cases) -> "harness"
      [] OTHER -> "suite"

(* most_specific: of several classes in one case, one of the harness if    *)
(* there is one, the first in PRECEDENCE, else the first seen.             *)
most_specific(classes) ==
    LET harness == {i \in DOMAIN classes : gate_fault(classes[i]) = "harness"}
        pool == IF harness = {} THEN DOMAIN classes ELSE harness
        ranked == {p \in DOMAIN PRECEDENCE : \E i \in pool : classes[i] = PRECEDENCE[p]}
    IN IF pool = {} THEN <<>> ELSE <<IF ranked # {} THEN PRECEDENCE[Min(ranked)] ELSE classes[Min(pool)]>>

-----------------------------------------------------------------------------
(* The last case with a key is the one a map built from a list keeps.      *)
Keys(cases) == {cases[i].key : i \in DOMAIN cases}
CaseOf(cases, k) == cases[CHOOSE i \in DOMAIN cases : cases[i].key = k /\ \A j \in (i + 1)..Len(cases) : cases[j].key # k]

passed_gate(status) == status = "pass"
passed(status) == status \in {"pass", "xpass"}

(* diff_runs: every case of the head against the base's of the same key.   *)
DeltaOf(base, c) ==
    IF c.key \notin Keys(base) THEN "added"
    ELSE LET b == passed(CaseOf(base, c.key).status)
             h == passed(c.status)
         IN CASE b /\ ~ h -> "newly_failing"
              [] ~ b /\ h -> "newly_passing"
              [] ~ b /\ ~ h -> "still_failing"
              [] b /\ h -> "unchanged"

(* mcnemar: (|b-c|-1)^2/(b+c) > 3.841, multiplied out.                     *)
mcnemar(b, c) ==
    LET d == IF b >= c THEN b - c - 1 ELSE c - b - 1
        e == IF d < 0 THEN 0 ELSE d
    IN [regressions |-> b, fixes |-> c, significant |-> 1000 * e * e > 3841 * (b + c)]

diff_runs(base, head) ==
    LET with(d) == Where(head, LAMBDA c : DeltaOf(base, c) = d)
        count(d) == Cardinality(with(d))
    IN [summary |-> [newly_failing |-> count("newly_failing"), newly_passing |-> count("newly_passing"),
                     still_failing |-> count("still_failing"), unchanged |-> count("unchanged"), added |-> count("added"),
                     removed |-> Cardinality(Where(base, LAMBDA c : c.key \notin Keys(head)))],
        regressed |-> {head[i].key : i \in with("newly_failing")},
        fixed |-> {head[i].key : i \in with("newly_passing")},
        output_changed |-> Where(head, LAMBDA c : c.key \in Keys(base) /\ CaseOf(base, c.key).output # c.output),
        mcnemar |-> mcnemar(count("newly_failing"), count("newly_passing"))]

has_regression(d) == d.summary.newly_failing > 0

-----------------------------------------------------------------------------
(* classify_change: the first input that is known to have moved; unknown   *)
(* when one is not known on both sides; else what the output and the       *)
(* verdict say about the model and the grader.                             *)
moved(b, h) == b # <<>> /\ h # <<>> /\ b # h
unknown(b, h) == b = <<>> \/ h = <<>>

classify_change(b, h, base_grader, head_grader) ==
    LET inputs == << [what |-> "prompt_changed", base |-> b.prompt, head |-> h.prompt],
                     [what |-> "provider_changed", base |-> b.provider, head |-> h.provider],
                     [what |-> "asserts_changed", base |-> b.asserts, head |-> h.asserts],
                     [what |-> "grader_changed", base |-> base_grader, head |-> head_grader] >>
        changed == SelectSeq(inputs, LAMBDA x : moved(x.base, x.head))
    IN CASE changed # <<>> -> changed[1].what
         [] changed = <<>> /\ \E i \in DOMAIN inputs : unknown(inputs[i].base, inputs[i].head) -> "unknown"
         [] OTHER -> IF b.output # h.output
                     THEN IF b.status # h.status THEN "model_drift" ELSE "output_drift"
                     ELSE IF b.status # h.status THEN "unstable_grader" ELSE "stable"

(* compute_assert_flips: by position when the kinds agree, else the kinds  *)
(* that occur once on each side.                                           *)
compute_assert_flips(b, h) ==
    LET kinds(s) == [i \in DOMAIN s |-> s[i].kind]
        of(s, k) == {i \in DOMAIN s : s[i].kind = k}
    IN IF kinds(b) = kinds(h)
       THEN {b[i].kind : i \in {j \in DOMAIN b : b[j].passed # h[j].passed}}
       ELSE {b[i].kind : i \in {j \in DOMAIN b : /\ Cardinality(of(b, b[j].kind)) = 1
                                                 /\ Cardinality(of(h, b[j].kind)) = 1
                                                 /\ \A k \in of(h, b[j].kind) : h[k].passed # b[j].passed}}

is_failing(status) == status \in {"fail", "error"}
is_passing(status) == status \in {"pass", "xpass"}

(* classify: what is neither passing nor failing on a side did not move.   *)
classify(base, head, k) ==
    IF k \notin Keys(base) THEN "added"
    ELSE IF k \notin Keys(head) THEN "removed"
    ELSE LET b == CaseOf(base, k).status
             h == CaseOf(head, k).status
         IN CASE is_passing(b) /\ is_failing(h) -> "newly_failing"
              [] is_failing(b) /\ is_passing(h) -> "newly_passing"
              [] is_failing(b) /\ is_failing(h) -> "still_failing"
              [] is_passing(b) /\ is_passing(h) -> "still_passing"
              [] OTHER -> "unchanged"

(* compare_runs: one row per key of either run.                            *)
compare_runs(base, head, base_grader, head_grader) ==
    LET row(k) ==
          [key |-> k, delta |-> classify(base, head, k),
           change |-> IF k \in Keys(base) \cap Keys(head)
                      THEN classify_change(CaseOf(base, k), CaseOf(head, k), base_grader, head_grader)
                      ELSE "unknown"]
        rows == {row(k) : k \in Keys(base) \cup Keys(head)}
        count(d) == Cardinality({r \in rows : r.delta = d})
    IN [rows |-> rows, mcnemar |-> mcnemar(count("newly_failing"), count("newly_passing"))]

-----------------------------------------------------------------------------
(***************************************************************************)
(* `domarinn run` around the run itself, as several processes over one     *)
(* directory of runs: what is refused before the first call, how the       *)
(* result is stored (output.rs) and found again (loadrun.rs), how a        *)
(* baseline is resolved (baseline.rs) and compared, the upload (share.rs), *)
(* and the exit code (run.rs); then the commands that only read stored     *)
(* runs (cisummary.rs, diffcmd.rs).  A process may be killed between any   *)
(* two steps, and a file that is being written can be read half written.   *)
(* The results server is external: it may answer anything that fits.       *)
(***************************************************************************)

CONSTANTS Jobs,         \* processes running `domarinn run`; each makes the run of its name
          Earlier,      \* runs stored before: id -> run
          Args,         \* process -> what it may be started with
          Outcomes,     \* process -> the cases its run may end with
          ServerRuns    \* runs the server has from elsewhere: id -> run

VARIABLES job,          \* each process
          result,       \* the run a process has made
          file,         \* result.json of each run: "absent", "torn" or "whole"
          pointer,      \* the run id in the file `latest`
          clock,        \* orders finished_at
          published     \* runs uploaded

(* What a run is made of.  Two tests may have one id, and then their cases *)
(* have one key.                                                           *)
RunCase == [key : STRING, status : Statuses, class : Seq(STRING), fallback : BOOLEAN, output : STRING,
            prompt : Seq(STRING), provider : Seq(STRING), asserts : Seq(STRING)]
Run == [project : STRING, suite : STRING, branch : STRING, cases : Seq(RunCase), finished : Nat]
Reference == [at : {"none", "server", "local", "latest", "run"}, what : STRING]
RunArgs == [formats : Seq(STRING), out : STRING, loads : BOOLEAN, share : BOOLEAN, allow_share_failure : BOOLEAN,
            server : BOOLEAN, window : {"includes", "excludes", "unstated"}, against : Seq(Reference),
            suite_branch : Seq(STRING), allow_empty : BOOLEAN, project : STRING, branch : STRING]

ASSUME RunsAssumption ==
    /\ IsFiniteSet(Jobs) /\ IsFiniteSet(DOMAIN Earlier)
    /\ \A r \in DOMAIN Earlier : Earlier[r] \in Run
    /\ \A r \in DOMAIN ServerRuns : ServerRuns[r] \in Run
    /\ \A j \in Jobs : \A cases \in Outcomes[j] : cases \in Seq(RunCase)

(* The id of a run is new, and what a process is started with cannot name  *)
(* the run that it will make.                                              *)
ASSUME NewIdsAssumption ==
    /\ Jobs \cap (DOMAIN Earlier \cup DOMAIN ServerRuns) = {}
    /\ \A j \in Jobs : \A a \in Args[j] :
          a \in RunArgs /\ (a.against # <<>> /\ a.against[1].at = "run" => a.against[1].what # j)

gateVars == <<job, result, file, pointer, clock, published>>

RunIds == Jobs \cup DOMAIN Earlier
Nobody == "nobody"
OK == 0
ASSERT_FAIL == 1
USAGE == 2
INFRA == 3

NoRun == [project |-> "", suite |-> "", branch |-> "", cases |-> <<>>, finished |-> 0]

Stored(r) == file[r] = "whole"

-----------------------------------------------------------------------------
(* scan: the runs that can be read.  They are listed newest first, and the *)
(* order of two that finished at the same time is the directory's.         *)
scan == {r \in RunIds : Stored(r)}
Newest(runs) == {r \in runs : \A q \in runs : result[q].finished <= result[r].finished}
NewestFirst(runs) ==
    {rank \in [runs -> 1..Cardinality(runs)] :
        \A q, r \in runs : /\ q # r => rank[q] # rank[r]
                           /\ result[q].finished > result[r].finished => rank[q] < rank[r]}

(* resolve_latest: the pointer if a file is there, else the newest.        *)
resolve_latest == IF pointer # Nobody /\ file[pointer] # "absent" THEN {pointer} ELSE Newest(scan)

SameSuite(r, head) == result[r].project = head.project /\ result[r].suite = head.suite

latest_for_suite(id, head) == Newest({r \in scan : r # id /\ SameSuite(r, head)})

runs_on_branch(id, head, branch) ==
    {r \in scan : r # id /\ SameSuite(r, head) /\ result[r].branch = branch}

(* load_run, for an id.                                                    *)
load_run(r) == {r} \cap scan

(* merge_branch_runs: the newest of them run by run in the given order,    *)
(* and the first case seen of a key wins.  Nothing depends on the order of *)
(* what is kept.                                                           *)
BRANCH_LOOKBACK == 20

merge_branch_runs(runs, rank) ==
    LET newest == {r \in runs : rank[r] <= BRANCH_LOOKBACK}
        offered == UNION {{r} \X DOMAIN result[r].cases : r \in newest}
        case(x) == result[x[1]].cases[x[2]]
        before(x, y) == rank[x[1]] < rank[y[1]] \/ (x[1] = y[1] /\ x[2] < y[2])
        kept == {x \in offered : \A y \in offered : before(y, x) => case(y).key # case(x).key}
        listed == SetToSeq(kept)
    IN [ids |-> {x[1] : x \in kept}, cases |-> [n \in DOMAIN listed |-> case(listed[n])]]

-----------------------------------------------------------------------------
(* effective: the flag, unless it says none; else the suite's branch, from *)
(* the server if one is configured.                                        *)
effective(flag, suite_branch, server) ==
    IF flag # <<>> THEN IF flag[1].at = "none" THEN <<>> ELSE <<flag[1]>>
    ELSE [i \in DOMAIN suite_branch |-> [at |-> IF server THEN "server" ELSE "local", what |-> suite_branch[i]]]

Compared(ids, cases) == [is |-> "base", ids |-> ids, cases |-> cases]
Absent == [is |-> "absent", ids |-> {}, cases |-> <<>>]
Failed == [is |-> "failed", ids |-> {}, cases |-> <<>>]

OnServer == DOMAIN ServerRuns \cup published
RunOf(r) == IF r \in RunIds THEN result[r] ELSE ServerRuns[r]

(* fetch_legacy: a server without the export endpoint.                     *)
fetch_legacy(id, head) ==
    {Failed, Absent}
    \cup {IF r = id THEN Absent ELSE Compared({r}, RunOf(r).cases) :
              r \in {x \in OnServer : RunOf(x).project = head.project /\ RunOf(x).suite = head.suite}}

(* fetch_export: a 404 with a code it knows is an absence, one with        *)
(* another code a failure, one without a code an older server; a body is a *)
(* run, which must not be the head and must be of its suite.               *)
fetch_export(id, head, branch) ==
    {Failed, Absent}
    \cup (IF branch THEN {Failed} ELSE fetch_legacy(id, head))
    \cup {CASE r = id -> Absent
            [] r # id /\ (RunOf(r).project # head.project \/ RunOf(r).suite # head.suite) -> Failed
            [] OTHER -> Compared({r}, RunOf(r).cases) : r \in OnServer}

(* from_server: needs a server and both names of the suite.                *)
from_server(id, head, server, branch) ==
    IF ~ server \/ head.project = "" \/ head.suite = "" THEN {Failed}
    ELSE fetch_export(id, head, branch)

(* resolve: what a reference may lead to.                                  *)
resolve(ref, id, head, server) ==
    CASE ref.at = "server" /\ ref.what \in {"", "unknown"} -> {Failed}
      [] ref.at = "server" /\ ref.what \notin {"", "unknown"} -> from_server(id, head, server, ref.what # "baseline")
      [] ref.at = "local" /\ ref.what = "" -> {Failed}
      [] ref.at = "local" /\ ref.what # "" ->
           LET runs == runs_on_branch(id, head, ref.what)
               base(merged) == IF merged.ids = {} THEN Absent ELSE Compared(merged.ids, merged.cases)
           IN {base(merge_branch_runs(runs, rank)) : rank \in NewestFirst(runs)}
      [] ref.at = "latest" ->
           IF latest_for_suite(id, head) = {} THEN {Absent}
           ELSE {Compared({r}, result[r].cases) : r \in latest_for_suite(id, head)}
      [] ref.at = "run" ->
           IF load_run(ref.what) = {} THEN {Failed}
           ELSE {IF SameSuite(r, head) THEN Compared({r}, result[r].cases) ELSE Failed : r \in load_run(ref.what)}

-----------------------------------------------------------------------------
(* plan_emissions: two formats must not share a destination, and --out     *)
(* must have something to write.                                           *)
Destination(spec, out) == IF spec # "" THEN spec ELSE out
plan_emissions(specs, out) ==
    specs # <<>> =>
        /\ ~ (out # "" /\ \A i \in DOMAIN specs : specs[i] # "")
        /\ \A i, j \in DOMAIN specs : i < j => Destination(specs[i], out) # Destination(specs[j], out)

(* preflight_schema: refuse when there is no server, or it states a window *)
(* this version is outside of; what it does not say stops nothing.         *)
preflight_schema(a) == a.server /\ a.window # "excludes"

(* The exit code of a finished run.                                        *)
Ladder(j) ==
    LET summary == summarize(result[j].cases)
        fault == worst_gate_fault(result[j].cases)
    IN CASE job[j].share_failed \/ fault = "harness" -> INFRA
         [] ~ job[j].share_failed /\ fault = "suite" -> USAGE
         [] ~ job[j].share_failed /\ fault = "none"
            /\ (job[j].base.is = "failed" \/ graded_nothing(summary) \/ answered_entirely_by_fallbacks(summary)) -> USAGE
         [] OTHER -> IF summary.fail > 0 \/ summary.xpass > 0 \/ job[j].regressed THEN ASSERT_FAIL ELSE OK

Exits(j, code) == job' = [job EXCEPT ![j].pc = "ended", ![j].exit = code]
Goes(j, pc) == job' = [job EXCEPT ![j].pc = pc]

-----------------------------------------------------------------------------
GateInit ==
    /\ \E a \in [Jobs -> UNION {Args[j] : j \in Jobs}] :
          /\ \A j \in Jobs : a[j] \in Args[j]
          /\ job = [j \in Jobs |-> [pc |-> "start", args |-> a[j], base |-> Absent, regressed |-> FALSE,
                                   share_failed |-> FALSE, exit |-> -1]]
    /\ result = [r \in RunIds |-> IF r \in DOMAIN Earlier THEN Earlier[r] ELSE NoRun]
    /\ file = [r \in RunIds |-> IF r \in DOMAIN Earlier THEN "whole" ELSE "absent"]
    /\ pointer = IF DOMAIN Earlier = {} THEN Nobody
                 ELSE CHOOSE r \in DOMAIN Earlier : \A q \in DOMAIN Earlier : Earlier[q].finished <= Earlier[r].finished
    /\ clock = 10
    /\ published = {}

(* execute up to the run: formats, the suite, the upload, the environment. *)
Start(j) ==
    /\ job[j].pc = "start"
    /\ LET a == job[j].args
           may == /\ plan_emissions(a.formats, a.out) /\ a.loads
                  /\ a.share /\ ~ a.allow_share_failure => preflight_schema(a)
       IN \/ ~ may /\ Exits(j, USAGE)
          \/ may /\ Goes(j, "run")
    /\ UNCHANGED <<result, file, pointer, clock, published>>

(* The run itself: interrupted, refused (SuitePlan), broken, or finished;  *)
(* only --allow-empty lets it finish without a case.                       *)
RunSuite(j) ==
    /\ job[j].pc = "run"
    /\ \/ /\ \E code \in {130, USAGE, INFRA} : Exits(j, code)
          /\ UNCHANGED <<result, clock>>
       \/ /\ \E cases \in Outcomes[j] :
                /\ cases = <<>> => job[j].args.allow_empty
                /\ result' = [result EXCEPT ![j] =
                      [project |-> job[j].args.project, suite |-> "s", branch |-> job[j].args.branch, finished |-> clock,
                       cases |-> [i \in DOMAIN cases |-> [cases[i] EXCEPT !.class = most_specific(@)]]]]
          /\ clock' = clock + 1
          /\ Goes(j, "persist")
    /\ UNCHANGED <<file, pointer, published>>

(* persist, before the comparison and again after the upload: the file is  *)
(* truncated, written, and then the pointer is.  A failure is a warning.   *)
After(pc) == IF pc \in {"persist", "write", "point"} THEN "emit" ELSE "exit"

Truncate(j) ==
    /\ job[j].pc \in {"persist", "persist_again"}
    /\ \/ file' = [file EXCEPT ![j] = "torn"] /\ Goes(j, IF job[j].pc = "persist" THEN "write" ELSE "write_again")
       \/ UNCHANGED file /\ Goes(j, After(job[j].pc))
    /\ UNCHANGED <<result, pointer, clock, published>>

Write(j) ==
    /\ job[j].pc \in {"write", "write_again"}
    /\ \/ file' = [file EXCEPT ![j] = "whole"] /\ Goes(j, IF job[j].pc = "write" THEN "point" ELSE "point_again")
       \/ UNCHANGED file /\ Goes(j, After(job[j].pc))
    /\ UNCHANGED <<result, pointer, clock, published>>

Point(j) ==
    /\ job[j].pc \in {"point", "point_again"}
    /\ pointer' = j
    /\ Goes(j, After(job[j].pc))
    /\ UNCHANGED <<result, file, clock, published>>

Emit(j) ==
    /\ job[j].pc = "emit"
    /\ Exits(j, INFRA) \/ Goes(j, "compare")
    /\ UNCHANGED <<result, file, pointer, clock, published>>

(* The comparison, with whatever the reference leads to at this moment.    *)
Compare(j) ==
    /\ job[j].pc = "compare"
    /\ LET a == job[j].args
           ref == effective(a.against, a.suite_branch, a.server)
           next == IF a.share THEN "share" ELSE "exit"
       IN \/ ref = <<>> /\ Goes(j, next)
          \/ /\ ref # <<>>
             /\ \E base \in resolve(ref[1], j, result[j], a.server) :
                   job' = [job EXCEPT ![j].base = base, ![j].pc = next,
                              ![j].regressed = base.is = "base" /\ has_regression(diff_runs(base.cases, result[j].cases))]
    /\ UNCHANGED <<result, file, pointer, clock, published>>

(* upload_run: an answer without a URL is a failure of a run that arrived. *)
ShareRun(j) ==
    /\ job[j].pc = "share"
    /\ LET failed == job' = [job EXCEPT ![j].pc = "exit", ![j].share_failed = ~ job[j].args.allow_share_failure]
       IN \/ job[j].args.server /\ published' = published \cup {j} /\ Goes(j, "persist_again")
          \/ job[j].args.server /\ published' = published \cup {j} /\ failed
          \/ UNCHANGED published /\ failed
    /\ UNCHANGED <<result, file, pointer, clock>>

Exit(j) ==
    /\ job[j].pc = "exit"
    /\ Exits(j, Ladder(j))
    /\ UNCHANGED <<result, file, pointer, clock, published>>

Killed(j) ==
    /\ job[j].pc \notin {"start", "ended"}
    /\ Exits(j, -1)
    /\ UNCHANGED <<result, file, pointer, clock, published>>

(* ci-summary of a stored run: it changes nothing, and an unresolved       *)
(* baseline is left out of what it shows.                                  *)
CiSummary(reference, ref) ==
    LET found == IF reference = "latest" THEN resolve_latest ELSE load_run(reference)
        shown(r) == {[head |-> r, base |-> base] : base \in resolve(ref, r, result[r], TRUE)}
    IN UNION {shown(r) : r \in found \cap scan}

GateNext ==
    \E j \in Jobs : \/ Start(j) \/ RunSuite(j) \/ Truncate(j) \/ Write(j) \/ Point(j) \/ Emit(j)
                    \/ Compare(j) \/ ShareRun(j) \/ Exit(j) \/ Killed(j)

GateSpec == GateInit /\ [][GateNext]_gateVars

-----------------------------------------------------------------------------
BaselineIsAnother ==
    LET Sound(head, base) == \A r \in base.ids : /\ r # head
                                                 /\ RunOf(r).project = result[head].project
                                                 /\ RunOf(r).suite = result[head].suite
        Ended == {j \in Jobs : job[j].pc = "ended"}
        Ref(at) == [at |-> at, what |-> IF at = "server" THEN "baseline" ELSE "main"]
    IN /\ \A j \in Jobs : Sound(j, job[j].base)
       /\ \A j \in Ended, at \in {"server", "local", "latest"} :
             \A s \in CiSummary(j, Ref(at)) \cup CiSummary("latest", Ref(at)) : Sound(s.head, s.base)

Some(j, P(_)) == \E i \in DOMAIN result[j].cases : P(result[j].cases[i])
Answered(c) == c.status # "skip" /\ ~ c.fallback
Bad(c) == c.status \in {"fail", "error", "xpass"}
Errored(c) == c.status = "error"
HarnessBroke(c) == c.status = "error" /\ (c.class = <<>> \/ c.class[1] \notin SuiteClasses)
Broken(c) == c.status \in {"fail", "xpass"}

(* No later case has this one's key.                                       *)
IsLast(cases, i) == \A n \in DOMAIN cases : n > i => cases[n].key # cases[i].key

HonestExit(j) ==
    LET a == job[j].args
        base == job[j].base.cases
        PassedBefore(c) == \E i \in DOMAIN base :
                              base[i].key = c.key /\ IsLast(base, i) /\ passed(base[i].status) /\ ~ passed(c.status)
    IN /\ job[j].exit = OK =>
            /\ ~ Some(j, Bad) /\ ~ Some(j, PassedBefore)
            /\ Some(j, Answered) \/ (a.allow_empty /\ result[j].cases = <<>>)
            /\ a.share /\ ~ a.allow_share_failure => j \in published
       /\ job[j].exit \in {OK, ASSERT_FAIL} => job[j].base.is # "failed" /\ ~ job[j].share_failed
       /\ job[j].exit = USAGE => ~ Some(j, HarnessBroke)
       /\ job[j].exit = ASSERT_FAIL => ~ Some(j, Errored) /\ (Some(j, Broken) \/ Some(j, PassedBefore))

(* The exit code says what happened (docs/reference/cli.md, "Exit codes"). *)
(* A green run graded something that its own provider answered, without a  *)
(* failure, against the baseline it asked for, and was uploaded when that  *)
(* was demanded; an errored case or a lost upload never exits 1, a broken  *)
(* harness never 2; and 1 needs a case that failed, passed against its     *)
(* marker, or passed before.  And the baseline is another run of its suite *)
(* although the run is stored, and for ci-summary uploaded, before its     *)
(* baseline is looked for.                                                 *)
ExitIsHonest == BaselineIsAnother /\ \A j \in Jobs : HonestExit(j)

UniqueKeys(cases) == \A i, j \in DOMAIN cases : cases[i].key = cases[j].key => i = j

(* The rows the server shows and the cases the gate counts.               *)
GateAndServerAgree(base, head) ==
    LET rows == compare_runs(base, head, <<"g">>, <<"g">>).rows
        diff == diff_runs(base, head)
        shown(d) == {r.key : r \in {x \in rows : x.delta = d}}
        aside == {"skip", "xfail"}
    IN /\ shown("newly_failing") = {k \in diff.regressed : CaseOf(head, k).status \notin aside}
       /\ shown("newly_passing") = {k \in diff.fixed : CaseOf(base, k).status \notin aside}
       /\ diff.mcnemar.significant => diff.regressed \cup diff.fixed # {}

(* What the server's comparison shows as a regression or a fix is one for  *)
(* the gate; the gate counts more only where a side is skipped or expected *)
(* to fail, which the server calls unchanged.  And the gate calls nothing  *)
(* significant that has neither.  Of two cases with one key the server has *)
(* only one, so this is about runs that have none.                         *)
RegressionsAreShared ==
    \A j \in Jobs : job[j].base.is = "base" /\ UniqueKeys(job[j].base.cases) /\ UniqueKeys(result[j].cases) =>
        GateAndServerAgree(job[j].base.cases, result[j].cases)
=============================================================================
