------------------------------ MODULE MCPacing ------------------------------
(***************************************************************************)
(* Small instances of Pacing, RunAccess and ReadPages in one run.  They    *)
(* share no state: a behaviour is one of them, the one that part names,    *)
(* and the others keep one of their initial states.                        *)
(***************************************************************************)
EXTENDS Pacing, RunAccess, ReadPages

VARIABLE part

pacedVars == <<vars, accessVars, pageVars, part>>

-----------------------------------------------------------------------------
\* Two suites of one project, and rows for the project and for one of them.
TwoSuites == [r \in AccessRuns |-> IF r = "r1" THEN <<"p", "s">> ELSE <<"p", "t">>]
ProjectAndSuite == {<<"p", "-">>, <<"p", "s">>}
FirstIsNewest == [r \in AccessRuns |-> IF r = "r1" THEN {} ELSE {"r1"}]

-----------------------------------------------------------------------------
\* A run from the cache alone, one without counts, and two created together.
Row(created, hits, misses, failed, errors, xpassed) ==
    [created |-> created, hits |-> hits, misses |-> misses, failed |-> failed,
     errors |-> errors, xpassed |-> xpassed]
FourRuns == <<Row(1, {2}, {0}, 0, 0, {0}), Row(2, {}, {}, 1, 0, {}),
              Row(2, {0}, {1}, 0, 0, {1}), Row(0, {1}, {1}, 0, 1, {})>>

CaseRow(provider, test, repeat, status, class, cached, empty) ==
    [provider |-> provider, prompt |-> "x", test |-> test, repeat |-> repeat,
     status |-> status, class |-> class, cached |-> cached, empty |-> empty]
SixCases ==
    <<CaseRow("p", "t", 1, "pass", {}, {1}, {}), CaseRow("q", "t", 0, "error", {}, {}, {}),
      CaseRow("p", "t", 0, "error", {"timeout"}, {0}, {}), CaseRow("p", "", 0, "pass", {}, {}, {}),
      CaseRow("p", "u", 0, "pass", {}, {1}, {"refused"}), CaseRow("q", "v", 0, "error", {""}, {0}, {})>>

AFewListings ==
    [kind : {"runs"}, filter : [status : {"fail", "error", "pass", "any"},
                                cached : {"exclude", "only", "include"}]]
    \cup [kind : {"cases"}, filter : {"cached", "fresh", "unknown", "timeout", "refused", "any"}]
    \cup [kind : {"matrix", "entry"}, filter : {"any"}]
ThreeCases == {<<1, "a">>, <<1, "b">>, <<2, "a">>}

-----------------------------------------------------------------------------
PacedInit ==
    /\ part \in {"pacing", "access", "pages"}
    /\ Init /\ AccessInit /\ PagesInit
    /\ part # "access" => /\ restrictions = {}
                          /\ \A s \in AccessScopes, u \in AccessUsers : setGrants[s][u] = 0
    /\ part # "pages" => table = {} /\ listing.kind = "matrix"

PacingPart == part = "pacing" /\ Next /\ UNCHANGED <<accessVars, pageVars, part>>
AccessPart == part = "access" /\ AccessNext /\ UNCHANGED <<vars, pageVars, part>>
PagesPart == part = "pages" /\ PagesNext /\ UNCHANGED <<vars, accessVars, part>>

PacedSpec ==
    /\ PacedInit /\ [][PacingPart \/ AccessPart \/ PagesPart]_pacedVars
    /\ WF_pacedVars(PacingPart)

\* Every call returns: no mix of slots, retries and late timers starves one
\* (RateLimiter::acquire, call_with_retry).
EveryCallIsAnswered == part = "pacing" => EveryCallReturns
=============================================================================
