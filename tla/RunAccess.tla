----------------------------- MODULE RunAccess -----------------------------
(***************************************************************************)
(* Run sets and who sees their runs, from src/crates/domarinn-server:      *)
(* runsets.rs, sets.rs, routes.rs, baselines.rs, auth.rs, mcp/tools and,   *)
(* under storage/, runsets, sets, runs, cases, matrix, compare, search,    *)
(* projects, history and cachelink.rs.                                     *)
(*                                                                         *)
(* A run set is a project, or one suite of it.  A set may be restricted;   *)
(* a grant lets a user view, upload to or manage it.  A handler resolves   *)
(* who is asking once, and then executes its statements one by one outside *)
(* of any transaction: restrictions, grants, accounts and runs may change  *)
(* between any two of them.  A request is shown with the statements it has *)
(* left, the runs its answer has drawn on and the sets it has written to.  *)
(***************************************************************************)
EXTENDS Naturals, FiniteSets, FiniteSetsExt

CONSTANTS AccessUsers,    \* accounts that may exist
          AccessRuns,     \* runs that may be stored
          RunSetOf,       \* run -> <<project, suite>>, either of them NoName
          CachedRuns,     \* runs answered from the cache alone
          NewerThan,      \* run -> the runs listed before it
          AccessScopes,   \* <<project, suite>>, the suite NoName for the project
          AccessClients,  \* requests in flight
          AuthMode,       \* "open", "protect_writes" or "closed"
          PageLimit,      \* rows of a page of runs
          MaxChanges,     \* bound on the changes that are made or asked for
          NoName, NoRun, NoScope, NoUser

\* A set is named by a project and a suite.
ASSUME AccessAssumption ==
    \A s \in AccessScopes \cup {RunSetOf[r] : r \in AccessRuns} : s = <<s[1], s[2]>>

VARIABLES restrictions,   \* run_set_restrictions
          setGrants,      \* run_set_grants: scope -> user -> level, 0 for no row
          roles,          \* users: user -> role, "gone" when there is no account
          storedRuns,     \* runs and everything keyed by them
          pinned,         \* baselines: scope of a suite -> run, or NoRun
          request,        \* per client, the request being served
          held,           \* history: what the caller could do at some moment of it
          setChanges      \* changes made or asked for so far

accessVars == <<restrictions, setGrants, roles, storedRuns, pinned, request, held, setChanges>>

\* The suites there are runs of, or rows for.
SuiteScopes == {s \in AccessScopes \cup {RunSetOf[r] : r \in AccessRuns} : s[2] # NoName}

----------------------------------------------------------------------------
(* Levels, scopes and who is asking.                                       *)

View == 1
Upload == 2
Manage == 3

ReadScope == 1
WriteScope == 2
AdminScope == 3

for_role(role) == CASE role = "admin" -> AdminScope
                    [] role = "member" -> WriteScope
                    [] role = "viewer" -> ReadScope

\* Nobody, a static token of some scope, or a user by session or API key.
Anonymous == [source |-> "anonymous", user |-> NoUser, role |-> "none", scope |-> 0]

authenticate ==
    {Anonymous}
    \cup [source : {"static"}, user : {NoUser}, role : {"none"}, scope : 1..3]
    \cup UNION {{[source |-> "session", user |-> u, role |-> roles[u], scope |-> for_role(roles[u])]}
                \cup [source : {"api_key"}, user : {u}, role : {roles[u]},
                      scope : {Min({s, for_role(roles[u])}) : s \in 1..3}]
                  : u \in {v \in AccessUsers : roles[v] # "gone"}}

\* Identity::check: what the mode asks of a route.
check(identity, route) ==
    \/ AuthMode = "open"
    \/ AuthMode = "protect_writes" /\ route = ReadScope
    \/ identity.scope >= route

\* RunVisibility::of.
VisibilityOf(identity) ==
    CASE identity.role = "admin" -> "full"
      [] identity.source = "static" /\ identity.scope = AdminScope -> "full"
      [] OTHER -> IF identity.user # NoUser THEN identity.user ELSE "public"

----------------------------------------------------------------------------
(* The two tables.                                                         *)

\* A row for a project covers every suite of it.  No row covers a run without
\* a project, and a run without a suite is covered by its project's row alone.
Covers(scope, set) == scope[1] = set[1] /\ (scope[2] = NoName \/ scope[2] = set[2])

\* A row for any suite of the project counts.
CoversProject(scope, set) == scope[1] = set[1]

GrantCovers(scope, set) == Covers(scope, set)

restricted(set) == \E s \in restrictions : Covers(s, set)

covering_level(set, user) ==
    Max({0} \cup {setGrants[s][user] : s \in {t \in AccessScopes : GrantCovers(t, set)}})

visibility_predicate(vis, run) ==
    \/ vis = "full"
    \/ ~ restricted(RunSetOf[run])
    \/ /\ vis \in AccessUsers
       /\ \E s \in AccessScopes : GrantCovers(s, RunSetOf[run]) /\ setGrants[s][vis] # 0

set_access(vis, set, needed) ==
    \/ vis = "full"
    \/ needed <= Upload /\ ~ restricted(set)
    \/ vis \in AccessUsers /\ covering_level(set, vis) >= needed

VisibleRuns(vis) == {r \in storedRuns : visibility_predicate(vis, r)}

InScope(scope, run) == scope = NoScope \/ Covers(scope, RunSetOf[run])

----------------------------------------------------------------------------
(* A request: its operation and arguments, the statement it is at, what it *)
(* has drawn on so far.                                                    *)

Idle == [op |-> "none", step |-> 0, vis |-> "public", run |-> NoRun, other |-> NoRun,
         scope |-> NoScope, who |-> NoUser, level |-> 0, todo |-> {},
         shown |-> {}, uploaded |-> {}, managed |-> {}]

Answered == 9

Reading == {"get_run", "list_cases", "get_case", "export", "matrix", "compare"}
Listing == {"list_runs", "search", "projects", "suites", "sets", "set", "history", "entry_runs"}
Pinning == {"get_baseline", "export_baseline", "put_baseline", "delete_baseline"}
Managing == {"access", "grant", "ungrant"}

RouteScope(op) ==
    IF op \in {"put_baseline", "delete_baseline", "grant", "ungrant", "post_run"}
    THEN WriteScope ELSE ReadScope

BeginRequest(c) ==
    /\ request[c] = Idle
    /\ \E identity \in authenticate :
         LET fresh(op) == [Idle EXCEPT !.op = op, !.step = 1, !.vis = VisibilityOf(identity)] IN
         \/ \E op \in Reading \cup {"post_run"}, r \in AccessRuns :
              \E q \in (IF op = "compare" THEN AccessRuns \ {r} ELSE {NoRun}) :
                /\ check(identity, RouteScope(op))
                /\ request' = [request EXCEPT ![c] = [fresh(op) EXCEPT !.run = r, !.other = q]]
         \/ \E op \in Listing, s \in AccessScopes \cup {NoScope}, after \in AccessRuns \cup {NoRun} :
              /\ check(identity, RouteScope(op))
              /\ (op # "list_runs") => (after = NoRun)
              /\ (op \in {"projects", "sets", "search", "entry_runs"}) => (s = NoScope)
              /\ (op = "suites") => (s # NoScope /\ s[2] = NoName)
              /\ (op = "set") => (s # NoScope)
              /\ (op = "history") => (s \in SuiteScopes)
              /\ request' = [request EXCEPT ![c] = [fresh(op) EXCEPT !.scope = s, !.other = after]]
         \/ \E op \in Pinning, s \in SuiteScopes :
              \E r \in (IF op = "put_baseline" THEN AccessRuns \cup {NoRun} ELSE {NoRun}) :
                /\ check(identity, RouteScope(op))
                /\ request' = [request EXCEPT ![c] = [fresh(op) EXCEPT !.scope = s, !.run = r]]
         \/ \E op \in Managing, s \in AccessScopes :
              \E u \in (IF op = "access" THEN {NoUser} ELSE AccessUsers),
                 l \in (IF op = "grant" THEN {View, Manage} ELSE {0}) :
                /\ check(identity, RouteScope(op))
                /\ request' = [request EXCEPT ![c] = [fresh(op) EXCEPT !.scope = s, !.who = u,
                                                                      !.level = l]]
    /\ setChanges' = setChanges + (IF RouteScope(request'[c].op) = WriteScope THEN 1 ELSE 0)
    /\ setChanges' <= MaxChanges
    /\ UNCHANGED <<restrictions, setGrants, roles, storedRuns, pinned>>

At(c, op, k) == request[c].op = op /\ request[c].step = k

StepTo(c, k) == request' = [request EXCEPT ![c].step = k]

\* A statement that returns rows of these runs.
ShowThen(c, runs, k) == request' = [request EXCEPT ![c].shown = @ \cup runs, ![c].step = k]

\* "not found", or refused: nothing more is executed.
Refuse(c) == request' = [request EXCEPT ![c] = Idle]

Respond(c) ==
    /\ request[c].step = Answered
    /\ request' = [request EXCEPT ![c] = Idle]
    /\ UNCHANGED <<restrictions, setGrants, roles, storedRuns, pinned, setChanges>>

ReadsOnly == UNCHANGED <<restrictions, setGrants, roles, storedRuns, pinned, setChanges>>

SeesRun(c) == request[c].run \in VisibleRuns(request[c].vis)

----------------------------------------------------------------------------
(* One run.                                                                *)

\* get_run_detail: the row, and then its tags, labels and counts by id alone.
get_run(c) ==
    /\ \/ At(c, "get_run", 1) /\ IF SeesRun(c) THEN ShowThen(c, {request[c].run}, 2) ELSE Refuse(c)
       \/ At(c, "get_run", 2) /\ ShowThen(c, {request[c].run} \cap storedRuns, Answered)
    /\ ReadsOnly

run_exists(c, op) ==
    /\ At(c, op, 1)
    /\ IF SeesRun(c) THEN StepTo(c, 2) ELSE Refuse(c)
    /\ ReadsOnly

\* The page is filtered by visibility again: empty when it was lost meanwhile.
list_cases(c) ==
    \/ run_exists(c, "list_cases")
    \/ /\ At(c, "list_cases", 2)
       /\ ShowThen(c, {request[c].run} \cap VisibleRuns(request[c].vis), Answered)
       /\ ReadsOnly

run_matrix(c) ==
    \/ run_exists(c, "matrix")
    \/ /\ At(c, "matrix", 2)
       /\ ShowThen(c, {request[c].run} \cap VisibleRuns(request[c].vis), Answered)
       /\ ReadsOnly

get_case(c) ==
    /\ At(c, "get_case", 1)
    /\ IF SeesRun(c) THEN ShowThen(c, {request[c].run}, Answered) ELSE Refuse(c)
    /\ ReadsOnly

\* load_run_blob, for the exported document and for the configuration.
export_run(c) ==
    /\ At(c, "export", 1)
    /\ IF SeesRun(c) THEN ShowThen(c, {request[c].run}, Answered) ELSE Refuse(c)
    /\ ReadsOnly

\* Both rows by visibility, then the cases of both by id alone.
compare_runs(c) ==
    LET r == request[c] IN
    /\ \/ At(c, "compare", 1) /\ IF SeesRun(c) THEN ShowThen(c, {r.run}, 2) ELSE Refuse(c)
       \/ At(c, "compare", 2) /\ IF r.other \in VisibleRuns(r.vis)
                                 THEN ShowThen(c, {r.other}, 3) ELSE Refuse(c)
       \/ At(c, "compare", 3) /\ ShowThen(c, {r.run} \cap storedRuns, 4)
       \/ At(c, "compare", 4) /\ ShowThen(c, {r.other} \cap storedRuns, Answered)
    /\ ReadsOnly

----------------------------------------------------------------------------
(* Lists.                                                                  *)

\* The runs of a page: those that nothing shown after the cursor comes before.
PageOf(matching, after) ==
    LET left == {r \in matching : after = NoRun \/ after \in NewerThan[r]} IN
    {r \in left : Cardinality(NewerThan[r] \cap left) < PageLimit}

\* The count of the cached runs that the first page leaves out, and the page.
list_runs(c) ==
    LET r == request[c]
        matching == {q \in VisibleRuns(r.vis) : InScope(r.scope, q)} IN
    /\ \/ At(c, "list_runs", 1) /\ ShowThen(c, IF r.other = NoRun THEN matching \cap CachedRuns ELSE {}, 2)
       \/ At(c, "list_runs", 2) /\ ShowThen(c, PageOf(matching \ CachedRuns, r.other), Answered)
    /\ ReadsOnly

\* Hits in runs, then hits in their cases.
search(c) ==
    /\ \/ At(c, "search", 1) /\ ShowThen(c, VisibleRuns(request[c].vis), 2)
       \/ At(c, "search", 2) /\ ShowThen(c, VisibleRuns(request[c].vis), Answered)
    /\ ReadsOnly

list_projects(c) ==
    /\ At(c, "projects", 1)
    /\ ShowThen(c, {r \in VisibleRuns(request[c].vis) : RunSetOf[r][1] # NoName}, Answered)
    /\ ReadsOnly

\* The pin of a suite, when the caller may see the run it names.
read_baseline_pin(scope, vis) == {pinned[scope]} \cap VisibleRuns(vis)

SuitesOf(scope, vis) ==
    {RunSetOf[r] : r \in {q \in VisibleRuns(vis) : Covers(scope, RunSetOf[q]) /\ RunSetOf[q][2] # NoName}}

\* The suites, and for each of them its latest runs and its pin.
list_suites(c) ==
    LET r == request[c] IN
    /\ \/ /\ At(c, "suites", 1)
          /\ request' = [request EXCEPT ![c].todo = SuitesOf(r.scope, r.vis), ![c].step = 2]
       \/ /\ At(c, "suites", 2)
          /\ IF r.todo = {} THEN StepTo(c, Answered)
             ELSE \E s \in r.todo :
                    request' = [request EXCEPT
                      ![c].todo = @ \ {s},
                      ![c].shown = @ \cup {q \in VisibleRuns(r.vis) : RunSetOf[q] = s}
                                     \cup read_baseline_pin(s, r.vis)]
    /\ ReadsOnly

\* The totals of every project, then the rate of each suite's latest run.
list_run_sets(c) ==
    LET r == request[c] IN
    /\ \/ At(c, "sets", 1) /\ ShowThen(c, {q \in VisibleRuns(r.vis) : RunSetOf[q][1] # NoName}, 2)
       \/ At(c, "sets", 2) /\ ShowThen(c, {q \in VisibleRuns(r.vis) : NoName \notin {RunSetOf[q][1], RunSetOf[q][2]}},
                                       Answered)
    /\ ReadsOnly

\* run_set_project and run_set_suite: absent unless some run of the set can be
\* seen, then the totals, the sparklines and the pins.
run_set(c) ==
    LET r == request[c]
        mine == {q \in VisibleRuns(r.vis) : Covers(r.scope, RunSetOf[q])} IN
    /\ \/ At(c, "set", 1) /\ IF mine # {} THEN StepTo(c, 2) ELSE Refuse(c)
       \/ At(c, "set", 2) /\ ShowThen(c, mine, 3)
       \/ At(c, "set", 3) /\ ShowThen(c, mine, 4)
       \/ At(c, "set", 4) /\ ShowThen(c, UNION {read_baseline_pin(s, r.vis) : s \in {t \in SuiteScopes : Covers(r.scope, t)}},
                                      Answered)
    /\ ReadsOnly

\* The runs of the suite that have the case, then its pin.
case_history(c) ==
    LET r == request[c]
        points == {q \in VisibleRuns(r.vis) : RunSetOf[q] = r.scope} IN
    /\ \/ At(c, "history", 1) /\ IF points # {} THEN ShowThen(c, points, 2) ELSE Refuse(c)
       \/ At(c, "history", 2) /\ ShowThen(c, read_baseline_pin(r.scope, r.vis), Answered)
    /\ ReadsOnly

\* The runs whose cases a cache entry answered.
entry_runs(c) ==
    /\ At(c, "entry_runs", 1)
    /\ ShowThen(c, VisibleRuns(request[c].vis), Answered)
    /\ ReadsOnly

----------------------------------------------------------------------------
(* Baselines and uploads.                                                  *)

get_baseline(c) ==
    /\ At(c, "get_baseline", 1)
    /\ ShowThen(c, read_baseline_pin(request[c].scope, request[c].vis), Answered)
    /\ ReadsOnly

\* The pin, and then the document of the run it named.
export_baseline(c) ==
    LET r == request[c]
        pin == read_baseline_pin(r.scope, r.vis) IN
    /\ \/ /\ At(c, "export_baseline", 1)
          /\ IF pin = {} THEN Refuse(c)
             ELSE request' = [request EXCEPT ![c].run = pinned[r.scope], ![c].shown = pin, ![c].step = 2]
       \/ At(c, "export_baseline", 2) /\ IF SeesRun(c) THEN ShowThen(c, {r.run}, Answered) ELSE Refuse(c)
    /\ ReadsOnly

require_set_access(c, op, set, needed) ==
    /\ At(c, op, 1)
    /\ IF set_access(request[c].vis, set, needed) THEN StepTo(c, 2) ELSE Refuse(c)
    /\ ReadsOnly

\* set_baseline: the run must be of the suite and visible, in one transaction.
put_baseline(c) ==
    LET r == request[c] IN
    \/ require_set_access(c, "put_baseline", r.scope, Upload)
    \/ /\ At(c, "put_baseline", 2)
       /\ IF r.run = NoRun \/ (SeesRun(c) /\ RunSetOf[r.run] = r.scope)
          THEN /\ pinned' = [pinned EXCEPT ![r.scope] = r.run]
               /\ request' = [request EXCEPT ![c].uploaded = {r.scope},
                                             ![c].shown = {r.run} \ {NoRun}, ![c].step = Answered]
          ELSE Refuse(c) /\ UNCHANGED pinned
       /\ UNCHANGED <<restrictions, setGrants, roles, storedRuns, setChanges>>

delete_baseline(c) ==
    LET r == request[c] IN
    \/ require_set_access(c, "delete_baseline", r.scope, Upload)
    \/ /\ At(c, "delete_baseline", 2)
       /\ pinned' = [pinned EXCEPT ![r.scope] = NoRun]
       /\ request' = [request EXCEPT ![c].uploaded = {r.scope}, ![c].step = Answered]
       /\ UNCHANGED <<restrictions, setGrants, roles, storedRuns, setChanges>>

\* The set is checked before the run is stored.
post_run(c) ==
    LET r == request[c] IN
    \/ require_set_access(c, "post_run", RunSetOf[r.run], Upload)
    \/ /\ At(c, "post_run", 2)
       /\ storedRuns' = storedRuns \cup {r.run}
       /\ request' = [request EXCEPT ![c].uploaded = {RunSetOf[r.run]}, ![c].step = Answered]
       /\ UNCHANGED <<restrictions, setGrants, roles, pinned, setChanges>>

----------------------------------------------------------------------------
(* Managing a set.                                                         *)

\* require_manage, and then what is restricted and granted on exactly this set.
access(c) ==
    LET r == request[c] IN
    \/ require_set_access(c, "access", r.scope, Manage)
    \/ /\ At(c, "access", 2)
       /\ request' = [request EXCEPT ![c].managed = {r.scope}, ![c].step = Answered]
       /\ ReadsOnly

\* The account must exist, and a row for one that was deleted meanwhile is
\* refused by its foreign key.
grant(c) ==
    LET r == request[c] IN
    \/ require_set_access(c, "grant", r.scope, Manage)
    \/ /\ At(c, "grant", 2)
       /\ IF roles[r.who] = "gone" THEN Refuse(c) ELSE StepTo(c, 3)
       /\ ReadsOnly
    \/ /\ At(c, "grant", 3)
       /\ IF roles[r.who] = "gone" THEN Refuse(c) /\ UNCHANGED setGrants
          ELSE /\ setGrants' = [setGrants EXCEPT ![r.scope][r.who] = r.level]
               /\ request' = [request EXCEPT ![c].managed = {r.scope}, ![c].step = Answered]
       /\ UNCHANGED <<restrictions, roles, storedRuns, pinned, setChanges>>

ungrant(c) ==
    LET r == request[c] IN
    \/ require_set_access(c, "ungrant", r.scope, Manage)
    \/ /\ At(c, "ungrant", 2)
       /\ setGrants' = [setGrants EXCEPT ![r.scope][r.who] = 0]
       /\ request' = [request EXCEPT ![c].managed = {r.scope}, ![c].step = Answered]
       /\ UNCHANGED <<restrictions, roles, storedRuns, pinned, setChanges>>

----------------------------------------------------------------------------
(* What an administrator changes: each of these handlers is one statement, *)
(* or one transaction, for a caller whose visibility is full.              *)

AdminChange ==
    /\ setChanges < MaxChanges
    /\ setChanges' = setChanges + 1
    /\ UNCHANGED request

restrict(s) == AdminChange /\ s \notin restrictions /\ restrictions' = restrictions \cup {s}
               /\ UNCHANGED <<setGrants, roles, storedRuns, pinned>>

unrestrict(s) == AdminChange /\ s \in restrictions /\ restrictions' = restrictions \ {s}
                 /\ UNCHANGED <<setGrants, roles, storedRuns, pinned>>

admin_grant(s, u, level) ==
    /\ AdminChange /\ roles[u] # "gone" /\ setGrants[s][u] # level
    /\ setGrants' = [setGrants EXCEPT ![s][u] = level]
    /\ UNCHANGED <<restrictions, roles, storedRuns, pinned>>

delete_run(r) ==
    /\ AdminChange /\ r \in storedRuns
    /\ storedRuns' = storedRuns \ {r}
    /\ pinned' = [s \in SuiteScopes |-> IF pinned[s] = r THEN NoRun ELSE pinned[s]]
    /\ UNCHANGED <<restrictions, setGrants, roles>>

\* The grants of the account go with it.
delete_user(u) ==
    /\ AdminChange /\ roles[u] # "gone"
    /\ roles' = [roles EXCEPT ![u] = "gone"]
    /\ setGrants' = [s \in AccessScopes |-> [setGrants[s] EXCEPT ![u] = 0]]
    /\ UNCHANGED <<restrictions, storedRuns, pinned>>

set_role(u, role) ==
    /\ AdminChange /\ roles[u] \notin {"gone", role}
    /\ roles' = [roles EXCEPT ![u] = role]
    /\ UNCHANGED <<restrictions, setGrants, storedRuns, pinned>>

Administer ==
    \/ \E s \in AccessScopes : restrict(s) \/ unrestrict(s)
    \/ \E s \in AccessScopes, u \in AccessUsers, level \in {0, View, Upload} : admin_grant(s, u, level)
    \/ \E r \in AccessRuns : delete_run(r)
    \/ \E u \in AccessUsers : delete_user(u) \/ \E role \in {"admin", "viewer"} : set_role(u, role)

Handle(c) ==
    \/ get_run(c) \/ list_cases(c) \/ run_matrix(c) \/ get_case(c) \/ export_run(c) \/ compare_runs(c)
    \/ list_runs(c) \/ search(c) \/ list_projects(c) \/ list_suites(c) \/ list_run_sets(c)
    \/ run_set(c) \/ case_history(c) \/ entry_runs(c)
    \/ get_baseline(c) \/ export_baseline(c) \/ put_baseline(c) \/ delete_baseline(c) \/ post_run(c)
    \/ access(c) \/ grant(c) \/ ungrant(c)
    \/ Respond(c)

----------------------------------------------------------------------------
(* What a caller may do, in the words of the documentation: a set that is  *)
(* not restricted is open to view and to upload; otherwise the strongest   *)
(* grant on the set or on its project decides, and managing always takes   *)
(* one.                                                                    *)

Strongest(vis, set) ==
    IF vis \in AccessUsers
    THEN Max({0} \cup {setGrants[s][vis] : s \in {set, <<set[1], NoName>>} \cap AccessScopes})
    ELSE 0

IsOpen(set) == {set, <<set[1], NoName>>} \cap restrictions = {}

MayUse(vis, set, level) ==
    vis = "full" \/ (level < Manage /\ IsOpen(set)) \/ Strongest(vis, set) >= level

RunSetsAll == {RunSetOf[r] : r \in AccessRuns} \cup AccessScopes

HeldNow(vis) == [view   |-> {r \in AccessRuns : MayUse(vis, RunSetOf[r], View)},
                 upload |-> {s \in RunSetsAll : MayUse(vis, s, Upload)},
                 manage |-> {s \in AccessScopes : MayUse(vis, s, Manage)}]

NothingHeld == [view |-> {}, upload |-> {}, manage |-> {}]

HeldBy(c) == HeldNow(request[c].vis)

HeldAfter(c) ==
    IF request'[c] = Idle THEN NothingHeld
    ELSE LET now == HeldBy(c)' IN
         [view |-> held[c].view \cup now.view, upload |-> held[c].upload \cup now.upload,
          manage |-> held[c].manage \cup now.manage]

AccessInit ==
    /\ restrictions \in SUBSET AccessScopes
    /\ \E s \in AccessScopes, u \in AccessUsers, level \in 0..Manage :
         setGrants = [t \in AccessScopes |-> [v \in AccessUsers |-> IF t = s /\ v = u THEN level ELSE 0]]
    /\ roles = [u \in AccessUsers |-> "member"]
    /\ storedRuns = AccessRuns
    /\ pinned \in [SuiteScopes -> AccessRuns]
    /\ \A s \in SuiteScopes : RunSetOf[pinned[s]] = s
    /\ request = [c \in AccessClients |-> Idle]
    /\ held = [c \in AccessClients |-> NothingHeld]
    /\ setChanges = 0

AccessNext ==
    /\ Administer \/ \E c \in AccessClients : BeginRequest(c) \/ Handle(c)
    /\ held' = [c \in AccessClients |-> HeldAfter(c)]

AccessSpec == AccessInit /\ [][AccessNext]_accessVars

AccessTypeOK ==
    /\ restrictions \subseteq AccessScopes /\ storedRuns \subseteq AccessRuns
    /\ setGrants \in [AccessScopes -> [AccessUsers -> 0..Manage]]
    /\ \A c \in AccessClients : request[c].shown \subseteq AccessRuns
    /\ setChanges \in 0..MaxChanges

----------------------------------------------------------------------------
(* Whatever a request shows, stores, pins or grants, its caller was        *)
(* entitled to at some moment of that very request, although the check and *)
(* the statements after it are separate (routes.rs, sets.rs): a            *)
(* restriction or a withdrawn grant is final for every request that starts *)
(* after it.                                                               *)
AccessIsHeld ==
    \A c \in AccessClients :
        /\ request[c].shown \subseteq held[c].view
        /\ request[c].uploaded \subseteq held[c].upload
        /\ request[c].managed \subseteq held[c].manage

=============================================================================
