---------------------------- MODULE AccessProofs ----------------------------
(***************************************************************************)
(* A request shows and changes only what its caller could see or use at    *)
(* some moment of it, for any sets, runs, users, clients and changes.      *)
(***************************************************************************)
EXTENDS RunAccess, TLAPS

Sets == AccessScopes \cup {RunSetOf[r] : r \in AccessRuns}
Ops == Reading \cup Listing \cup Pinning \cup Managing \cup {"post_run"}

Asked ==
    [op : Ops, step : 1..9, vis : AccessUsers \cup {"full", "public"},
     run : AccessRuns \cup {NoRun}, other : AccessRuns \cup {NoRun},
     scope : Sets \cup {NoScope}, who : AccessUsers \cup {NoUser}, level : 0..3,
     todo : SUBSET Sets, shown : SUBSET AccessRuns, uploaded : SUBSET RunSetsAll,
     managed : SUBSET AccessScopes]

\* What a request has drawn on was the caller's.
Entitled(r, h) ==
    r.shown \subseteq h.view /\ r.uploaded \subseteq h.upload /\ r.managed \subseteq h.manage

\* What a statement that checks nothing relies on: rows read by id were shown
\* before, and the set written to was checked.
Relies(r, h) ==
    /\ r.op \in {"get_run", "compare"} =>
          /\ r.run \in AccessRuns
          /\ r.step \in 2..4 => r.run \in r.shown
          /\ r.op = "compare" /\ r.step \in 3..4 => r.other \in r.shown
    /\ r.op \in Pinning => r.scope \in SuiteScopes
    /\ r.op \in {"put_baseline", "delete_baseline"} /\ r.step = 2 => r.scope \in h.upload
    /\ r.op = "post_run" =>
          r.run \in AccessRuns /\ (r.step = 2 => RunSetOf[r.run] \in h.upload)
    /\ r.op \in Managing =>
          r.scope \in AccessScopes /\ (r.step \in 2..3 => r.scope \in h.manage)
    /\ r.op \in {"grant", "ungrant"} => r.who \in AccessUsers

RequestOK(r, h) == r \in Asked /\ Entitled(r, h) /\ Relies(r, h)

HeldSet == [view : SUBSET AccessRuns, upload : SUBSET RunSetsAll, manage : SUBSET AccessScopes]
Has(h, now) ==
    now.view \subseteq h.view /\ now.upload \subseteq h.upload /\ now.manage \subseteq h.manage

TablesOK ==
    /\ restrictions \subseteq AccessScopes /\ storedRuns \subseteq AccessRuns
    /\ setGrants \in [AccessScopes -> [AccessUsers -> 0..3]]
    /\ pinned \in [SuiteScopes -> AccessRuns \cup {NoRun}]

\* While a request is served, what its caller may do now is held.
ClientOK(c) ==
    /\ request[c] # Idle => RequestOK(request[c], held[c])
    /\ request[c] # Idle => Has(held[c], HeldNow(request[c].vis))

AccessInv ==
    /\ TablesOK
    /\ request \in [AccessClients -> Asked \cup {Idle}]
    /\ held \in [AccessClients -> HeldSet]
    /\ \A c \in AccessClients : ClientOK(c)

-----------------------------------------------------------------------------
(* What the predicates of the code say of a caller.                        *)

LEMMA LargestOf ==
    ASSUME NEW S, S \subseteq 0..3, 0 \in S
    PROVE  Max(S) \in S /\ \A y \in S : Max(S) >= y
<1>1. \E x \in S : \A y \in S : x >= y
  <2>1. CASE 3 \in S
    BY <2>1
  <2>2. CASE 3 \notin S /\ 2 \in S
    BY <2>2
  <2>3. CASE 3 \notin S /\ 2 \notin S /\ 1 \in S
    BY <2>3
  <2>4. CASE 3 \notin S /\ 2 \notin S /\ 1 \notin S
    BY <2>4
  <2> QED
    BY <2>1, <2>2, <2>3, <2>4
<1> QED
  BY <1>1 DEF Max

\* A row covers a set when it is for the set or for its project.
LEMMA CoversWhat ==
    ASSUME NEW s \in AccessScopes, NEW set \in Sets
    PROVE  Covers(s, set) <=> s \in {set, <<set[1], NoName>>}
<1>1. s = <<s[1], s[2]>> /\ set = <<set[1], set[2]>>
  BY AccessAssumption DEF Sets
<1>2. ASSUME Covers(s, set) PROVE s \in {set, <<set[1], NoName>>}
  BY <1>1, <1>2 DEF Covers
<1>3. ASSUME s \in {set, <<set[1], NoName>>} PROVE Covers(s, set)
  BY <1>1, <1>3 DEF Covers
<1> QED
  BY <1>2, <1>3

LEMMA OpenWhat ==
    ASSUME TablesOK, NEW set \in Sets, ~restricted(set)
    PROVE  IsOpen(set)
BY CoversWhat DEF restricted, IsOpen, TablesOK

LEMMA LevelWhat ==
    ASSUME TablesOK, NEW set \in Sets, NEW u \in AccessUsers
    PROVE  /\ Strongest(u, set) \in 0..3
           /\ covering_level(set, u) = Strongest(u, set)
           /\ \A s \in AccessScopes : Covers(s, set) => Strongest(u, set) >= setGrants[s][u]
<1> DEFINE rows == {s \in AccessScopes : Covers(s, set)}
           levels == {0} \cup {setGrants[s][u] : s \in rows}
<1>1. rows = {set, <<set[1], NoName>>} \cap AccessScopes
  BY CoversWhat
<1>2. Strongest(u, set) = Max(levels)
  BY <1>1 DEF Strongest
<1>3. covering_level(set, u) = Max(levels)
  BY DEF covering_level, GrantCovers
<1>4. levels \subseteq 0..3 /\ 0 \in levels
  BY DEF TablesOK
<1>5. Max(levels) \in levels /\ \A y \in levels : Max(levels) >= y
  <2> HIDE DEF levels
  <2> QED
    BY <1>4, LargestOf
<1> QED
  BY <1>2, <1>3, <1>4, <1>5

LEMMA SeenIsHeld ==
    ASSUME TablesOK, NEW vis
    PROVE  VisibleRuns(vis) \subseteq HeldNow(vis).view
<1> SUFFICES ASSUME NEW r \in storedRuns, visibility_predicate(vis, r)
             PROVE  MayUse(vis, RunSetOf[r], View) /\ r \in AccessRuns
  BY DEF VisibleRuns, HeldNow
<1>1. r \in AccessRuns /\ RunSetOf[r] \in Sets
  BY DEF TablesOK, Sets
<1>2. CASE vis = "full"
  BY <1>1, <1>2 DEF MayUse
<1>3. CASE ~restricted(RunSetOf[r])
  BY <1>1, <1>3, OpenWhat DEF MayUse, View, Manage
<1>4. CASE /\ vis \in AccessUsers
           /\ \E s \in AccessScopes : GrantCovers(s, RunSetOf[r]) /\ setGrants[s][vis] # 0
  <2>1. PICK s \in AccessScopes : Covers(s, RunSetOf[r]) /\ setGrants[s][vis] # 0
    BY <1>4 DEF GrantCovers
  <2>2. setGrants[s][vis] \in 0..3
    BY <1>4 DEF TablesOK
  <2>3. /\ Strongest(vis, RunSetOf[r]) \in 0..3
        /\ Strongest(vis, RunSetOf[r]) >= setGrants[s][vis]
    BY <1>1, <1>4, <2>1, LevelWhat
  <2>4. Strongest(vis, RunSetOf[r]) >= 1
    BY <2>1, <2>2, <2>3
  <2> QED
    BY <1>1, <2>4 DEF MayUse, View
<1> QED
  BY <1>2, <1>3, <1>4 DEF visibility_predicate

LEMMA CheckedIsHeld ==
    ASSUME TablesOK, NEW vis, NEW set \in Sets
    PROVE  /\ set_access(vis, set, Upload) => set \in HeldNow(vis).upload
           /\ set_access(vis, set, Manage) /\ set \in AccessScopes => set \in HeldNow(vis).manage
<1>1. ASSUME NEW needed \in {Upload, Manage}, set_access(vis, set, needed)
      PROVE  MayUse(vis, set, needed)
  BY <1>1, OpenWhat, LevelWhat DEF set_access, MayUse, Upload, Manage
<1>2. set \in RunSetsAll
  BY DEF Sets, RunSetsAll
<1> QED
  BY <1>1, <1>2 DEF HeldNow

-----------------------------------------------------------------------------
(* A step of one client.                                                   *)

\* What is held at the end of a step: what was, and what may be done then.
LEMMA HeldGrows ==
    ASSUME AccessInv, NEW c \in AccessClients, held' = [d \in AccessClients |-> HeldAfter(d)]
    PROVE  /\ held'[c] \in HeldSet
           /\ request'[c] # Idle =>
                 Has(held'[c], held[c]) /\ Has(held'[c], HeldNow(request[c].vis)')
<1>1. held[c] \in HeldSet
  BY DEF AccessInv
<1>2. HeldNow(request[c].vis)' \in HeldSet
  BY DEF HeldNow, HeldSet
<1>3. held'[c] = HeldAfter(c)
  OBVIOUS
<1>4. CASE request'[c] = Idle
  BY <1>3, <1>4 DEF HeldAfter, NothingHeld, HeldSet
<1>5. CASE request'[c] # Idle
  <2> DEFINE now == HeldNow(request[c].vis)'
  <2>1. held'[c] = [view |-> held[c].view \cup now.view, upload |-> held[c].upload \cup now.upload,
                    manage |-> held[c].manage \cup now.manage]
    BY <1>3, <1>5 DEF HeldAfter, HeldBy
  <2> HIDE DEF now
  <2>2. now \in HeldSet
    BY <1>2 DEF now
  <2>3. held'[c] \in HeldSet /\ Has(held'[c], held[c]) /\ Has(held'[c], now)
    BY <1>1, <2>1, <2>2 DEF HeldSet, Has
  <2> QED
    BY <2>3 DEF now
<1> QED
  BY <1>4, <1>5

\* More held is as good.
LEMMA HeldMore ==
    ASSUME NEW r, NEW g, NEW h, RequestOK(r, g), Has(h, g)
    PROVE  RequestOK(r, h)
BY DEF RequestOK, Entitled, Relies, Has

\* A step that leaves the tables and every request in order keeps the invariant.
LEMMA StepKeeps ==
    ASSUME AccessInv, held' = [d \in AccessClients |-> HeldAfter(d)], TablesOK',
           request' \in [AccessClients -> Asked \cup {Idle}],
           \A d \in AccessClients : request'[d] # Idle => RequestOK(request'[d], held[d])
    PROVE  AccessInv'
<1>1. ASSUME NEW d \in AccessClients
      PROVE  held'[d] \in HeldSet /\ ClientOK(d)'
  <2>1. /\ held'[d] \in HeldSet
        /\ request'[d] # Idle =>
              Has(held'[d], held[d]) /\ Has(held'[d], HeldNow(request[d].vis)')
    BY HeldGrows
  <2>2. request'[d] # Idle => RequestOK(request'[d], held'[d])
    BY <2>1, HeldMore
  <2> QED
    BY <2>1, <2>2 DEF ClientOK
<1>2. held' \in [AccessClients -> HeldSet]
  BY <1>1
<1> QED
  BY <1>1, <1>2 DEF AccessInv

\* What is known of a client whose request is being served.
LEMMA Served ==
    ASSUME AccessInv, NEW c \in AccessClients, request[c] # Idle
    PROVE  /\ RequestOK(request[c], held[c]) /\ TablesOK
           /\ VisibleRuns(request[c].vis) \subseteq held[c].view
           /\ VisibleRuns(request[c].vis) \subseteq storedRuns /\ storedRuns \subseteq AccessRuns
<1>1. ClientOK(c) /\ TablesOK
  BY DEF AccessInv
<1>2. VisibleRuns(request[c].vis) \subseteq HeldNow(request[c].vis).view
  BY <1>1, SeenIsHeld
<1> QED
  BY <1>1, <1>2 DEF ClientOK, Has, VisibleRuns, TablesOK

\* Every handler ends or moves on to a request that is in order.
Moves(c) ==
    \E new : (new = Idle \/ RequestOK(new, held[c])) /\ request' = [request EXCEPT ![c] = new]

LEMMA Refused ==
    ASSUME NEW c \in AccessClients, Refuse(c)
    PROVE  Moves(c)
BY DEF Refuse, Moves

LEMMA ShowMoves ==
    ASSUME AccessInv, NEW c \in AccessClients, request[c] # Idle, NEW runs, NEW k \in 1..9,
           runs \subseteq held[c].view, ShowThen(c, runs, k),
           Relies([request[c] EXCEPT !.shown = @ \cup runs, !.step = k], held[c])
    PROVE  Moves(c)
<1> DEFINE r == request[c]
           new == [r EXCEPT !.shown = r.shown \cup runs, !.step = k]
<1>1. r \in Asked /\ Entitled(r, held[c])
  BY Served DEF RequestOK
<1>2. held[c] \in HeldSet /\ request \in [AccessClients -> Asked \cup {Idle}]
  BY DEF AccessInv
<1>3. /\ new \in Asked /\ new.shown = r.shown \cup runs /\ new.uploaded = r.uploaded
      /\ new.managed = r.managed
  BY <1>1, <1>2 DEF Asked, HeldSet
<1>4. Relies(new, held[c])
  OBVIOUS
<1>5. request' = [request EXCEPT ![c] = new]
  BY <1>1, <1>2 DEF ShowThen
<1> HIDE DEF new
<1>6. Entitled(new, held[c])
  BY <1>1, <1>3 DEF Entitled
<1> QED
  BY <1>3, <1>4, <1>5, <1>6 DEF Moves, RequestOK

LEMMA StepMoves ==
    ASSUME AccessInv, NEW c \in AccessClients, request[c] # Idle, NEW k \in 1..9,
           StepTo(c, k), Relies([request[c] EXCEPT !.step = k], held[c])
    PROVE  Moves(c)
<1> DEFINE r == request[c]
           new == [r EXCEPT !.step = k]
<1>1. r \in Asked /\ Entitled(r, held[c])
  BY Served DEF RequestOK
<1>2. request \in [AccessClients -> Asked \cup {Idle}]
  BY DEF AccessInv
<1>3. /\ new \in Asked /\ new.shown = r.shown /\ new.uploaded = r.uploaded
      /\ new.managed = r.managed
  BY <1>1 DEF Asked
<1>4. Relies(new, held[c])
  OBVIOUS
<1>5. request' = [request EXCEPT ![c] = new]
  BY <1>1, <1>2 DEF StepTo
<1> HIDE DEF new
<1>6. Entitled(new, held[c])
  BY <1>1, <1>3 DEF Entitled
<1> QED
  BY <1>3, <1>4, <1>5, <1>6 DEF Moves, RequestOK

\* Where nothing is read by id or written, nothing is relied upon.
Plain == {"list_cases", "get_case", "export", "matrix"} \cup Listing

LEMMA PlainRelies ==
    ASSUME NEW r, NEW h, r.op \in Plain
    PROVE  Relies(r, h)
BY DEF Relies, Plain, Listing, Pinning, Managing

LEMMA PlainShows ==
    ASSUME AccessInv, NEW c \in AccessClients, request[c].op \in Plain, NEW k \in 1..9,
           \/ \E runs : runs \subseteq VisibleRuns(request[c].vis) /\ ShowThen(c, runs, k)
           \/ StepTo(c, k)
           \/ Refuse(c)
    PROVE  Moves(c)
<1>1. request[c] # Idle
  <2>1. request[c].op # "none"
    BY DEF Plain, Listing
  <2> QED
    BY <2>1 DEF Idle
<1>2. request[c] \in Asked /\ VisibleRuns(request[c].vis) \subseteq held[c].view
  BY <1>1, Served DEF RequestOK
<1>3. ASSUME NEW runs
      PROVE  /\ Relies([request[c] EXCEPT !.shown = @ \cup runs, !.step = k], held[c])
             /\ Relies([request[c] EXCEPT !.step = k], held[c])
  <2>1. /\ [request[c] EXCEPT !.shown = @ \cup runs, !.step = k].op = request[c].op
        /\ [request[c] EXCEPT !.step = k].op = request[c].op
    BY <1>2 DEF Asked
  <2> QED
    BY <2>1, PlainRelies
<1> QED
  BY <1>1, <1>2, <1>3, Refused, ShowMoves, StepMoves

-----------------------------------------------------------------------------
(* The handlers.                                                           *)

LEMMA PlainHandlers ==
    ASSUME AccessInv, NEW c \in AccessClients,
           \/ list_cases(c) \/ run_matrix(c) \/ get_case(c) \/ export_run(c)
           \/ list_runs(c) \/ search(c) \/ list_projects(c) \/ list_run_sets(c)
           \/ run_set(c) \/ case_history(c) \/ entry_runs(c)
    PROVE  Moves(c)
<1> DEFINE r == request[c]
           seen == VisibleRuns(r.vis)
<1> USE DEF At, ReadsOnly, SeesRun, Answered
<1>1. CASE list_cases(c) \/ run_matrix(c)
  <2>1. r.op \in Plain
    BY <1>1 DEF list_cases, run_matrix, run_exists, Plain
  <2>2. \/ StepTo(c, 2) \/ Refuse(c) \/ ShowThen(c, {r.run} \cap seen, 9)
    BY <1>1 DEF list_cases, run_matrix, run_exists
  <2> QED
    BY <2>1, <2>2, PlainShows
<1>2. CASE get_case(c) \/ export_run(c)
  <2>1. r.op \in Plain
    BY <1>2 DEF get_case, export_run, Plain
  <2>2. Refuse(c) \/ (ShowThen(c, {r.run}, 9) /\ {r.run} \subseteq seen)
    BY <1>2 DEF get_case, export_run
  <2> QED
    BY <2>1, <2>2, PlainShows
<1>3. CASE list_runs(c)
  <2>1. r.op \in Plain
    BY <1>3 DEF list_runs, Plain, Listing
  <2> DEFINE matching == {q \in seen : InScope(r.scope, q)}
  <2>2. /\ PageOf(matching \ CachedRuns, r.other) \subseteq seen
        /\ (IF r.other = NoRun THEN matching \cap CachedRuns ELSE {}) \subseteq seen
    BY DEF PageOf
  <2>3. \/ ShowThen(c, IF r.other = NoRun THEN matching \cap CachedRuns ELSE {}, 2)
        \/ ShowThen(c, PageOf(matching \ CachedRuns, r.other), 9)
    BY <1>3 DEF list_runs
  <2> QED
    BY <2>1, <2>2, <2>3, PlainShows
<1>4. CASE search(c) \/ entry_runs(c)
  <2>1. r.op \in Plain
    BY <1>4 DEF search, entry_runs, Plain, Listing
  <2>2. ShowThen(c, seen, 2) \/ ShowThen(c, seen, 9)
    BY <1>4 DEF search, entry_runs
  <2> QED
    BY <2>1, <2>2, PlainShows
<1>5. CASE list_projects(c) \/ list_run_sets(c)
  <2>1. r.op \in Plain
    BY <1>5 DEF list_projects, list_run_sets, Plain, Listing
  <2> DEFINE named == {q \in seen : RunSetOf[q][1] # NoName}
             whole == {q \in seen : NoName \notin {RunSetOf[q][1], RunSetOf[q][2]}}
  <2>2. ShowThen(c, named, 9) \/ ShowThen(c, named, 2) \/ ShowThen(c, whole, 9)
    BY <1>5 DEF list_projects, list_run_sets
  <2>3. named \subseteq seen /\ whole \subseteq seen
    OBVIOUS
  <2> QED
    BY <2>1, <2>2, <2>3, PlainShows
<1>6. CASE run_set(c)
  <2>1. r.op \in Plain
    BY <1>6 DEF run_set, Plain, Listing
  <2> DEFINE mine == {q \in seen : Covers(r.scope, RunSetOf[q])}
             pins == UNION {read_baseline_pin(s, r.vis) : s \in {t \in SuiteScopes : Covers(r.scope, t)}}
  <2>2. mine \subseteq seen /\ pins \subseteq seen
    BY DEF read_baseline_pin
  <2>3. \/ StepTo(c, 2) \/ Refuse(c) \/ ShowThen(c, mine, 3) \/ ShowThen(c, mine, 4)
        \/ ShowThen(c, pins, 9)
    BY <1>6 DEF run_set
  <2> QED
    BY <2>1, <2>2, <2>3, PlainShows
<1>7. CASE case_history(c)
  <2>1. r.op \in Plain
    BY <1>7 DEF case_history, Plain, Listing
  <2> DEFINE points == {q \in seen : RunSetOf[q] = r.scope}
  <2>2. points \subseteq seen /\ read_baseline_pin(r.scope, r.vis) \subseteq seen
    BY DEF read_baseline_pin
  <2>3. \/ Refuse(c) \/ ShowThen(c, points, 2)
        \/ ShowThen(c, read_baseline_pin(r.scope, r.vis), 9)
    BY <1>7 DEF case_history
  <2> QED
    BY <2>1, <2>2, <2>3, PlainShows
<1> QED
  BY <1>1, <1>2, <1>3, <1>4, <1>5, <1>6, <1>7

\* The suites it lists were visible when it read their names; what it shows of
\* them is read again.
LEMMA ListSuitesMoves ==
    ASSUME AccessInv, NEW c \in AccessClients, list_suites(c)
    PROVE  Moves(c)
<1> DEFINE r == request[c]
           seen == VisibleRuns(r.vis)
<1>1. r.op = "suites" /\ r # Idle
  <2>1. r.op = "suites"
    BY DEF list_suites, At
  <2> QED
    BY <2>1 DEF Idle
<1>2. /\ r \in Asked /\ Entitled(r, held[c]) /\ seen \subseteq held[c].view
      /\ seen \subseteq AccessRuns
  BY <1>1, Served DEF RequestOK
<1>3. request \in [AccessClients -> Asked \cup {Idle}]
  BY DEF AccessInv
<1>4. CASE request' = [request EXCEPT ![c].todo = SuitesOf(r.scope, r.vis), ![c].step = 2]
  <2> DEFINE todo == SuitesOf(r.scope, r.vis)
             new == [r EXCEPT !.todo = todo, !.step = 2]
  <2>1. todo \subseteq Sets
    BY <1>2 DEF SuitesOf, Sets
  <2>2. /\ new \in Asked /\ new.op = "suites" /\ new.shown = r.shown
        /\ new.uploaded = r.uploaded /\ new.managed = r.managed
    <3> HIDE DEF todo
    <3>1. todo \in SUBSET Sets /\ 2 \in 1..9
      BY <2>1
    <3>2. new \in Asked
      BY <1>2, <3>1 DEF Asked
    <3> QED
      BY <1>1, <1>2, <3>2 DEF Asked
  <2>3. request' = [request EXCEPT ![c] = new]
    BY <1>2, <1>3, <1>4
  <2> HIDE DEF new
  <2>4. Entitled(new, held[c]) /\ Relies(new, held[c])
    BY <1>2, <2>2, PlainRelies DEF Entitled, Plain, Listing
  <2> QED
    BY <2>2, <2>3, <2>4 DEF Moves, RequestOK
<1>5. CASE StepTo(c, Answered)
  <2>1. r.op \in Plain
    BY <1>1 DEF Plain, Listing
  <2>2. StepTo(c, 9)
    BY <1>5 DEF Answered
  <2> QED
    BY <2>1, <2>2, PlainShows
<1>6. ASSUME NEW s \in r.todo,
             request' = [request EXCEPT
                           ![c].todo = @ \ {s},
                           ![c].shown = @ \cup {q \in seen : RunSetOf[q] = s}
                                          \cup read_baseline_pin(s, r.vis)]
      PROVE  Moves(c)
  <2> DEFINE runs == {q \in seen : RunSetOf[q] = s} \cup read_baseline_pin(s, r.vis)
             new == [r EXCEPT !.todo = r.todo \ {s}, !.shown = r.shown \cup runs]
  <2>1. runs \subseteq seen
    BY DEF read_baseline_pin
  <2>2. request' = [request EXCEPT ![c] = new]
    BY <1>2, <1>3, <1>6
  <2> HIDE DEF runs
  <2>3. /\ new \in Asked /\ new.op = "suites" /\ new.shown = r.shown \cup runs
        /\ new.uploaded = r.uploaded /\ new.managed = r.managed
    BY <1>1, <1>2, <2>1 DEF Asked
  <2> HIDE DEF new
  <2>4. Entitled(new, held[c]) /\ Relies(new, held[c])
    BY <1>2, <2>1, <2>3, PlainRelies DEF Entitled, Plain, Listing
  <2> QED
    BY <2>2, <2>3, <2>4 DEF Moves, RequestOK
<1> QED
  BY <1>4, <1>5, <1>6 DEF list_suites

\* Rows read by id were shown before.
LEMMA ByIdShows ==
    ASSUME AccessInv, NEW c \in AccessClients, request[c].op \in {"get_run", "compare"},
           NEW runs, NEW k \in 1..9, ShowThen(c, runs, k), runs \subseteq held[c].view,
           k \in 2..4 => request[c].run \in request[c].shown \cup runs,
           k \in 3..4 => \/ request[c].op = "get_run"
                         \/ request[c].other \in request[c].shown \cup runs
    PROVE  Moves(c)
<1> DEFINE r == request[c]
           new == [r EXCEPT !.shown = r.shown \cup runs, !.step = k]
<1>1. r # Idle
  <2>1. r.op # "none"
    OBVIOUS
  <2> QED
    BY <2>1 DEF Idle
<1>2. r \in Asked /\ r.run \in AccessRuns
  BY <1>1, Served DEF RequestOK, Relies
<1>3. /\ new.op = r.op /\ new.run = r.run /\ new.other = r.other /\ new.step = k
      /\ new.shown = r.shown \cup runs
  BY <1>2 DEF Asked
<1>4. Relies(new, held[c])
  <2> HIDE DEF new
  <2>1. new.op \notin Pinning \cup Managing \cup {"post_run", "put_baseline", "delete_baseline"}
    BY <1>3 DEF Pinning, Managing
  <2>2. new.op \notin {"grant", "ungrant"}
    BY <1>3
  <2> QED
    BY <1>2, <1>3, <2>1, <2>2 DEF Relies
<1> QED
  BY <1>1, <1>4, ShowMoves

LEMMA GetRunMoves ==
    ASSUME AccessInv, NEW c \in AccessClients, get_run(c)
    PROVE  Moves(c)
<1> DEFINE r == request[c]
<1>1. r.op = "get_run" /\ r.op \in {"get_run", "compare"} /\ r # Idle
  <2>1. r.op = "get_run"
    BY DEF get_run, At
  <2> QED
    BY <2>1 DEF Idle
<1>2. /\ Entitled(r, held[c]) /\ Relies(r, held[c])
      /\ VisibleRuns(r.vis) \subseteq held[c].view
  BY <1>1, Served DEF RequestOK
<1>3. CASE SeesRun(c) /\ ShowThen(c, {r.run}, 2)
  <2>1. {r.run} \subseteq held[c].view
    BY <1>2, <1>3 DEF SeesRun
  <2> QED
    BY <1>1, <1>3, <2>1, ByIdShows
<1>4. CASE Refuse(c)
  BY <1>4, Refused
<1>5. CASE r.step = 2 /\ ShowThen(c, {r.run} \cap storedRuns, 9)
  <2>1. {r.run} \cap storedRuns \subseteq held[c].view
    BY <1>1, <1>2, <1>5 DEF Relies, Entitled
  <2> QED
    BY <1>1, <1>5, <2>1, ByIdShows
<1> QED
  BY <1>3, <1>4, <1>5 DEF get_run, At, Answered

LEMMA CompareMoves ==
    ASSUME AccessInv, NEW c \in AccessClients, compare_runs(c)
    PROVE  Moves(c)
<1> DEFINE r == request[c]
<1>1. r.op = "compare" /\ r.op \in {"get_run", "compare"} /\ r # Idle
  <2>1. r.op = "compare"
    BY DEF compare_runs, At
  <2> QED
    BY <2>1 DEF Idle
<1>2. /\ Entitled(r, held[c]) /\ Relies(r, held[c])
      /\ VisibleRuns(r.vis) \subseteq held[c].view
  BY <1>1, Served DEF RequestOK
<1>3. CASE SeesRun(c) /\ ShowThen(c, {r.run}, 2)
  <2>1. {r.run} \subseteq held[c].view
    BY <1>2, <1>3 DEF SeesRun
  <2> QED
    BY <1>1, <1>3, <2>1, ByIdShows
<1>4. CASE Refuse(c)
  BY <1>4, Refused
<1>5. CASE r.step = 2 /\ r.other \in VisibleRuns(r.vis) /\ ShowThen(c, {r.other}, 3)
  <2>1. {r.other} \subseteq held[c].view /\ r.run \in r.shown
    BY <1>1, <1>2, <1>5 DEF Relies
  <2> QED
    BY <1>1, <1>5, <2>1, ByIdShows
<1>6. CASE r.step = 3 /\ ShowThen(c, {r.run} \cap storedRuns, 4)
  <2>1. {r.run} \cap storedRuns \subseteq held[c].view /\ r.run \in r.shown /\ r.other \in r.shown
    BY <1>1, <1>2, <1>6 DEF Relies, Entitled
  <2> QED
    BY <1>1, <1>6, <2>1, ByIdShows
<1>7. CASE r.step = 4 /\ ShowThen(c, {r.other} \cap storedRuns, 9)
  <2>1. {r.other} \cap storedRuns \subseteq held[c].view
    BY <1>1, <1>2, <1>7 DEF Relies, Entitled
  <2> QED
    BY <1>1, <1>7, <2>1, ByIdShows
<1> QED
  BY <1>3, <1>4, <1>5, <1>6, <1>7 DEF compare_runs, At, Answered

\* Uploading and managing: the set is checked, and then written to.
Writing == {"put_baseline", "delete_baseline", "post_run"} \cup Managing

LEMMA CheckMoves ==
    ASSUME AccessInv, NEW c \in AccessClients, NEW op \in Writing, NEW set, NEW needed,
           require_set_access(c, op, set, needed),
           \/ op \in {"put_baseline", "delete_baseline"} /\ set = request[c].scope /\ needed = Upload
           \/ op = "post_run" /\ set = RunSetOf[request[c].run] /\ needed = Upload
           \/ op \in Managing /\ set = request[c].scope /\ needed = Manage
    PROVE  Moves(c)
<1> DEFINE r == request[c]
           new == [r EXCEPT !.step = 2]
<1>1. r.op = op /\ r # Idle
  <2>1. r.op = op
    BY DEF require_set_access, At
  <2> QED
    BY <2>1 DEF Idle, Writing, Managing
<1>2. RequestOK(r, held[c]) /\ r \in Asked /\ Relies(r, held[c]) /\ TablesOK
  BY <1>1, Served DEF RequestOK
<1>3. Has(held[c], HeldNow(r.vis))
  BY <1>1 DEF AccessInv, ClientOK
<1>4. CASE Refuse(c)
  BY <1>4, Refused
<1>5. CASE set_access(r.vis, set, needed) /\ StepTo(c, 2)
  <2>1. /\ new.op = op /\ new.step = 2 /\ new.run = r.run /\ new.scope = r.scope
        /\ new.who = r.who
    BY <1>1, <1>2 DEF Asked
  <2> HIDE DEF new
  <2>2. Relies(new, held[c])
    <3>1. CASE op \in {"put_baseline", "delete_baseline"}
      <4>1. set = r.scope /\ needed = Upload /\ r.scope \in SuiteScopes /\ op \in Pinning
        BY <1>1, <1>2, <3>1 DEF Relies, Pinning, Managing
      <4>2. r.scope \in Sets
        BY <4>1 DEF SuiteScopes, Sets
      <4>3. r.scope \in held[c].upload
        BY <1>2, <1>3, <1>5, <4>1, <4>2, CheckedIsHeld DEF Has
      <4> QED
        BY <2>1, <3>1, <4>1, <4>3 DEF Relies, Managing
    <3>2. CASE op = "post_run"
      <4>1. set = RunSetOf[r.run] /\ needed = Upload /\ r.run \in AccessRuns
        BY <1>1, <1>2, <3>2 DEF Relies, Managing
      <4>2. set \in Sets
        BY <4>1 DEF Sets
      <4>3. set \in held[c].upload
        BY <1>2, <1>3, <1>5, <4>1, <4>2, CheckedIsHeld DEF Has
      <4> QED
        BY <2>1, <3>2, <4>1, <4>3 DEF Relies, Managing, Pinning
    <3>3. CASE op \in Managing
      <4>1. /\ set = r.scope /\ needed = Manage /\ r.scope \in AccessScopes
            /\ op \in {"grant", "ungrant"} => r.who \in AccessUsers
        BY <1>1, <1>2, <3>3 DEF Relies, Managing
      <4>2. r.scope \in Sets
        BY <4>1 DEF Sets
      <4>3. r.scope \in held[c].manage
        BY <1>2, <1>3, <1>5, <4>1, <4>2, CheckedIsHeld DEF Has
      <4> QED
        BY <2>1, <3>3, <4>1, <4>3 DEF Relies, Managing, Pinning
    <3> QED
      BY <3>1, <3>2, <3>3 DEF Writing
  <2>3. 2 \in 1..9 /\ Relies([request[c] EXCEPT !.step = 2], held[c])
    BY <2>2 DEF new
  <2> QED
    BY <1>1, <1>5, <2>3, StepMoves
<1> QED
  BY <1>4, <1>5 DEF require_set_access

\* A statement that writes to a set that is held, and shows runs that are.
LEMMA WriteMoves ==
    ASSUME AccessInv, NEW c \in AccessClients, request[c] # Idle, request[c].op \in Writing,
           NEW up \in SUBSET (held[c].upload), NEW man \in SUBSET (held[c].manage),
           NEW runs \in SUBSET (held[c].view),
           request' = [request EXCEPT ![c] =
              [request[c] EXCEPT !.uploaded = up, !.managed = man, !.shown = runs, !.step = 9]]
    PROVE  Moves(c)
<1> DEFINE r == request[c]
           new == [r EXCEPT !.uploaded = up, !.managed = man, !.shown = runs, !.step = 9]
<1>1. r \in Asked /\ Relies(r, held[c])
  BY Served DEF RequestOK
<1>2. held[c] \in HeldSet
  BY DEF AccessInv
<1>3. /\ up \in SUBSET RunSetsAll /\ man \in SUBSET AccessScopes /\ runs \in SUBSET AccessRuns
      /\ 9 \in 1..9
  BY <1>2 DEF HeldSet
<1>4. /\ new \in Asked /\ new.op = r.op /\ new.step = 9 /\ new.run = r.run
      /\ new.scope = r.scope /\ new.who = r.who
      /\ new.uploaded = up /\ new.managed = man /\ new.shown = runs
  BY <1>1, <1>3 DEF Asked
<1> HIDE DEF new
<1>5. Entitled(new, held[c])
  BY <1>4 DEF Entitled
<1>6. Relies(new, held[c])
  BY <1>1, <1>4 DEF Relies, Writing, Managing
<1>7. request' = [request EXCEPT ![c] = new]
  BY DEF new
<1> QED
  BY <1>4, <1>5, <1>6, <1>7 DEF Moves, RequestOK

\* Every request under way is of the type that its EXCEPTs need.
LEMMA Typed ==
    ASSUME AccessInv, NEW c \in AccessClients, request[c].op \in Ops
    PROVE  /\ request[c] # Idle /\ request[c] \in Asked
           /\ request \in [AccessClients -> Asked \cup {Idle}] /\ TablesOK
           /\ Entitled(request[c], held[c]) /\ Relies(request[c], held[c])
           /\ VisibleRuns(request[c].vis) \subseteq held[c].view
           /\ request[c].uploaded \in SUBSET (held[c].upload)
           /\ request[c].managed \in SUBSET (held[c].manage)
           /\ request[c].shown \in SUBSET (held[c].view)
<1>1. request[c] # Idle
  BY DEF Idle, Ops, Reading, Listing, Pinning, Managing
<1> QED
  BY <1>1, Served DEF AccessInv, RequestOK, Entitled

LEMMA GetBaselineMoves ==
    ASSUME AccessInv, NEW c \in AccessClients, get_baseline(c)
    PROVE  Moves(c)
<1> DEFINE r == request[c]
           pin == read_baseline_pin(r.scope, r.vis)
           new == [r EXCEPT !.shown = r.shown \cup pin, !.step = 9]
<1>1. r.op = "get_baseline" /\ r.op \in Ops /\ ShowThen(c, pin, 9)
  BY DEF get_baseline, At, Answered, Ops, Pinning
<1>2. r \in Asked /\ r # Idle /\ Relies(r, held[c])
  BY <1>1, Typed
<1>3. pin \subseteq held[c].view
  BY <1>1, Typed DEF read_baseline_pin
<1>4. new.op = r.op /\ new.scope = r.scope
  BY <1>2 DEF Asked
<1>5. Relies(new, held[c])
  <2> HIDE DEF new
  <2> QED
    BY <1>1, <1>2, <1>4 DEF Relies, Pinning, Managing
<1>6. 9 \in 1..9
  OBVIOUS
<1> QED
  BY <1>1, <1>2, <1>3, <1>5, <1>6, ShowMoves

LEMMA ExportBaselineMoves ==
    ASSUME AccessInv, NEW c \in AccessClients, export_baseline(c)
    PROVE  Moves(c)
<1> DEFINE r == request[c]
           pin == read_baseline_pin(r.scope, r.vis)
<1>1. r.op = "export_baseline" /\ r.op \in Ops
  BY DEF export_baseline, At, Ops, Pinning
<1>2. /\ r \in Asked /\ r # Idle /\ Relies(r, held[c]) /\ Entitled(r, held[c]) /\ TablesOK
      /\ request \in [AccessClients -> Asked \cup {Idle}]
      /\ VisibleRuns(r.vis) \subseteq held[c].view
  BY <1>1, Typed
<1>3. r.scope \in SuiteScopes /\ 2 \in 1..9 /\ 9 \in 1..9
  BY <1>1, <1>2 DEF Relies, Pinning
<1>4. CASE Refuse(c)
  BY <1>4, Refused
<1>5. CASE request' = [request EXCEPT ![c].run = pinned[r.scope], ![c].shown = pin, ![c].step = 2]
  <2> DEFINE run == pinned[r.scope]
             new == [r EXCEPT !.run = run, !.shown = pin, !.step = 2]
  <2>1. request' = [request EXCEPT ![c] = new]
    BY <1>2, <1>5
  <2>2. run \in AccessRuns \cup {NoRun} /\ pin \in SUBSET (held[c].view) /\ pin \in SUBSET AccessRuns
    BY <1>2, <1>3 DEF TablesOK, read_baseline_pin, VisibleRuns
  <2> HIDE DEF run, pin
  <2>3. new \in Asked
    BY <1>2, <1>3, <2>2 DEF Asked
  <2>4. /\ new.op = r.op /\ new.scope = r.scope /\ new.shown = pin
        /\ new.uploaded = r.uploaded /\ new.managed = r.managed
    BY <1>2 DEF Asked
  <2> HIDE DEF new
  <2>5. Entitled(new, held[c])
    BY <1>2, <2>2, <2>4 DEF Entitled
  <2>6. Relies(new, held[c])
    BY <1>1, <1>3, <2>4 DEF Relies, Pinning, Managing
  <2> QED
    BY <2>1, <2>3, <2>5, <2>6 DEF Moves, RequestOK
<1>6. CASE SeesRun(c) /\ ShowThen(c, {r.run}, 9)
  <2> DEFINE new == [r EXCEPT !.shown = r.shown \cup {r.run}, !.step = 9]
  <2>1. {r.run} \subseteq held[c].view
    BY <1>2, <1>6 DEF SeesRun
  <2>2. new.op = r.op /\ new.scope = r.scope
    BY <1>2 DEF Asked
  <2>3. Relies(new, held[c])
    <3> HIDE DEF new
    <3> QED
      BY <1>1, <1>3, <2>2 DEF Relies, Pinning, Managing
  <2>4. Relies([request[c] EXCEPT !.shown = @ \cup {r.run}, !.step = 9], held[c])
    BY <2>3
  <2> DEFINE runs == {r.run}
  <2> HIDE DEF runs
  <2>5. /\ ShowThen(c, runs, 9) /\ runs \subseteq held[c].view
        /\ Relies([request[c] EXCEPT !.shown = @ \cup runs, !.step = 9], held[c])
    BY <1>6, <2>1, <2>4 DEF runs
  <2> QED
    BY <1>2, <1>3, <2>5, ShowMoves
<1> QED
  BY <1>4, <1>5, <1>6 DEF export_baseline, Answered

LEMMA PutBaselineMoves ==
    ASSUME AccessInv, NEW c \in AccessClients, put_baseline(c)
    PROVE  Moves(c) /\ TablesOK'
<1> DEFINE r == request[c]
<1>1. r.op = "put_baseline" /\ r.op \in Ops /\ r.op \in Writing
  BY DEF put_baseline, require_set_access, At, Ops, Pinning, Writing
<1>2. /\ r \in Asked /\ r # Idle /\ Relies(r, held[c]) /\ TablesOK
      /\ request \in [AccessClients -> Asked \cup {Idle}]
      /\ VisibleRuns(r.vis) \subseteq held[c].view
      /\ r.managed \in SUBSET (held[c].manage)
  BY <1>1, Typed
<1>3. CASE require_set_access(c, "put_baseline", r.scope, Upload)
  <2>1. Moves(c)
    BY <1>3, CheckMoves DEF Writing
  <2>2. TablesOK'
    BY <1>2, <1>3 DEF require_set_access, ReadsOnly, TablesOK
  <2> QED
    BY <2>1, <2>2
<1>4. CASE Refuse(c) /\ UNCHANGED <<restrictions, setGrants, storedRuns, pinned>>
  BY <1>2, <1>4, Refused DEF TablesOK
<1>5. CASE /\ r.step = 2
           /\ r.run = NoRun \/ (SeesRun(c) /\ RunSetOf[r.run] = r.scope)
           /\ pinned' = [pinned EXCEPT ![r.scope] = r.run]
           /\ request' = [request EXCEPT ![c].uploaded = {r.scope},
                                         ![c].shown = {r.run} \ {NoRun}, ![c].step = Answered]
           /\ UNCHANGED <<restrictions, setGrants, storedRuns>>
  <2> DEFINE up == {r.scope}
             runs == {r.run} \ {NoRun}
             new == [r EXCEPT !.uploaded = up, !.managed = r.managed, !.shown = runs, !.step = 9]
  <2>1. up \in SUBSET (held[c].upload)
    BY <1>1, <1>2, <1>5 DEF Relies
  <2>2. runs \in SUBSET (held[c].view)
    BY <1>2, <1>5 DEF SeesRun
  <2>3. request' = [request EXCEPT ![c] = new]
    BY <1>2, <1>5 DEF Asked, Answered
  <2>4. TablesOK'
    BY <1>2, <1>5 DEF TablesOK, Asked
  <2> HIDE DEF up, runs
  <2>5. Moves(c)
    BY <1>1, <1>2, <2>1, <2>2, <2>3, WriteMoves
  <2> QED
    BY <2>4, <2>5
<1> QED
  BY <1>3, <1>4, <1>5 DEF put_baseline, At

LEMMA DeleteBaselineMoves ==
    ASSUME AccessInv, NEW c \in AccessClients, delete_baseline(c)
    PROVE  Moves(c) /\ TablesOK'
<1> DEFINE r == request[c]
<1>1. r.op = "delete_baseline" /\ r.op \in Ops /\ r.op \in Writing
  BY DEF delete_baseline, require_set_access, At, Ops, Pinning, Writing
<1>2. /\ r \in Asked /\ r # Idle /\ Relies(r, held[c]) /\ TablesOK
      /\ request \in [AccessClients -> Asked \cup {Idle}]
      /\ r.managed \in SUBSET (held[c].manage) /\ r.shown \in SUBSET (held[c].view)
  BY <1>1, Typed
<1>3. CASE require_set_access(c, "delete_baseline", r.scope, Upload)
  <2>1. Moves(c)
    BY <1>3, CheckMoves DEF Writing
  <2>2. TablesOK'
    BY <1>2, <1>3 DEF require_set_access, ReadsOnly, TablesOK
  <2> QED
    BY <2>1, <2>2
<1>4. CASE ~require_set_access(c, "delete_baseline", r.scope, Upload)
  <2> DEFINE up == {r.scope}
             new == [r EXCEPT !.uploaded = up, !.managed = r.managed, !.shown = r.shown, !.step = 9]
  <2>1. /\ r.step = 2 /\ pinned' = [pinned EXCEPT ![r.scope] = NoRun]
        /\ request' = [request EXCEPT ![c].uploaded = {r.scope}, ![c].step = Answered]
        /\ UNCHANGED <<restrictions, setGrants, storedRuns>>
    BY <1>4 DEF delete_baseline, At
  <2>2. up \in SUBSET (held[c].upload)
    BY <1>1, <1>2, <2>1 DEF Relies
  <2>3. request' = [request EXCEPT ![c] = new]
    BY <1>2, <2>1 DEF Asked, Answered
  <2>4. TablesOK'
    BY <1>2, <2>1 DEF TablesOK
  <2> HIDE DEF up
  <2>5. Moves(c)
    BY <1>1, <1>2, <2>2, <2>3, WriteMoves
  <2> QED
    BY <2>4, <2>5
<1> QED
  BY <1>3, <1>4

LEMMA PostRunMoves ==
    ASSUME AccessInv, NEW c \in AccessClients, post_run(c)
    PROVE  Moves(c) /\ TablesOK'
<1> DEFINE r == request[c]
           set == RunSetOf[r.run]
<1>1. r.op = "post_run" /\ r.op \in Ops /\ r.op \in Writing
  BY DEF post_run, require_set_access, At, Ops, Writing
<1>2. /\ r \in Asked /\ r # Idle /\ Relies(r, held[c]) /\ TablesOK
      /\ request \in [AccessClients -> Asked \cup {Idle}]
      /\ r.managed \in SUBSET (held[c].manage) /\ r.shown \in SUBSET (held[c].view)
  BY <1>1, Typed
<1>3. CASE require_set_access(c, "post_run", set, Upload)
  <2>1. Moves(c)
    BY <1>3, CheckMoves DEF Writing
  <2>2. TablesOK'
    BY <1>2, <1>3 DEF require_set_access, ReadsOnly, TablesOK
  <2> QED
    BY <2>1, <2>2
<1>4. CASE ~require_set_access(c, "post_run", set, Upload)
  <2> DEFINE up == {set}
             new == [r EXCEPT !.uploaded = up, !.managed = r.managed, !.shown = r.shown, !.step = 9]
  <2>1. /\ r.step = 2 /\ storedRuns' = storedRuns \cup {r.run}
        /\ request' = [request EXCEPT ![c].uploaded = {set}, ![c].step = Answered]
        /\ UNCHANGED <<restrictions, setGrants, pinned>>
    BY <1>4 DEF post_run, At
  <2>2. up \in SUBSET (held[c].upload) /\ r.run \in AccessRuns
    BY <1>1, <1>2, <2>1 DEF Relies
  <2>3. request' = [request EXCEPT ![c] = new]
    BY <1>2, <2>1 DEF Asked, Answered
  <2>4. TablesOK'
    BY <1>2, <2>1, <2>2 DEF TablesOK
  <2> HIDE DEF up
  <2>5. Moves(c)
    BY <1>1, <1>2, <2>2, <2>3, WriteMoves
  <2> QED
    BY <2>4, <2>5
<1> QED
  BY <1>3, <1>4

LEMMA AccessMoves ==
    ASSUME AccessInv, NEW c \in AccessClients, access(c) \/ ungrant(c) \/ grant(c)
    PROVE  Moves(c) /\ TablesOK'
<1> DEFINE r == request[c]
           new == [r EXCEPT !.uploaded = r.uploaded, !.managed = {r.scope}, !.shown = r.shown,
                            !.step = 9]
<1>1. r.op \in Managing /\ r.op \in Ops /\ r.op \in Writing
  BY DEF access, grant, ungrant, require_set_access, At, Ops, Managing, Writing
<1>2. /\ r \in Asked /\ r # Idle /\ Relies(r, held[c]) /\ TablesOK
      /\ request \in [AccessClients -> Asked \cup {Idle}]
      /\ r.uploaded \in SUBSET (held[c].upload) /\ r.shown \in SUBSET (held[c].view)
  BY <1>1, Typed
<1>3. ASSUME NEW op \in Managing, require_set_access(c, op, r.scope, Manage)
      PROVE  Moves(c) /\ TablesOK'
  <2>1. Moves(c)
    BY <1>3, CheckMoves DEF Writing
  <2>2. TablesOK'
    BY <1>2, <1>3 DEF require_set_access, ReadsOnly, TablesOK
  <2> QED
    BY <2>1, <2>2
<1>4. ASSUME r.step \in 2..3,
             request' = [request EXCEPT ![c].managed = {r.scope}, ![c].step = Answered]
      PROVE  Moves(c)
  <2> DEFINE man == {r.scope}
  <2>1. man \in SUBSET (held[c].manage)
    BY <1>1, <1>2, <1>4 DEF Relies
  <2>2. request' = [request EXCEPT ![c] = new]
    BY <1>2, <1>4 DEF Asked, Answered
  <2> HIDE DEF man
  <2>3. request' = [request EXCEPT ![c] =
            [r EXCEPT !.uploaded = r.uploaded, !.managed = man, !.shown = r.shown, !.step = 9]]
    BY <2>2 DEF man
  <2> QED
    BY <1>1, <1>2, <2>1, <2>3, WriteMoves
<1>5. CASE access(c)
  <2>1. CASE require_set_access(c, "access", r.scope, Manage)
    BY <1>3, <2>1 DEF Managing
  <2>2. CASE ~require_set_access(c, "access", r.scope, Manage)
    <3>1. /\ r.step = 2 /\ ReadsOnly
          /\ request' = [request EXCEPT ![c].managed = {r.scope}, ![c].step = Answered]
      BY <1>5, <2>2 DEF access, At
    <3>2. TablesOK'
      BY <1>2, <3>1 DEF ReadsOnly, TablesOK
    <3> QED
      BY <1>4, <3>1, <3>2
  <2> QED
    BY <2>1, <2>2
<1>6. CASE ungrant(c)
  <2>1. CASE require_set_access(c, "ungrant", r.scope, Manage)
    BY <1>3, <2>1 DEF Managing
  <2>2. CASE ~require_set_access(c, "ungrant", r.scope, Manage)
    <3>1. /\ r.step = 2 /\ r.op = "ungrant" /\ setGrants' = [setGrants EXCEPT ![r.scope][r.who] = 0]
          /\ request' = [request EXCEPT ![c].managed = {r.scope}, ![c].step = Answered]
          /\ UNCHANGED <<restrictions, storedRuns, pinned>>
      BY <1>6, <2>2 DEF ungrant, At
    <3>2. r.scope \in AccessScopes /\ r.who \in AccessUsers
      BY <1>1, <1>2, <3>1 DEF Relies
    <3>3. TablesOK'
      BY <1>2, <3>1, <3>2 DEF TablesOK
    <3> QED
      BY <1>4, <3>1, <3>3
  <2> QED
    BY <2>1, <2>2
<1>7. CASE grant(c)
  <2>1. CASE require_set_access(c, "grant", r.scope, Manage)
    BY <1>3, <2>1 DEF Managing
  <2>2. CASE Refuse(c) /\ UNCHANGED <<restrictions, setGrants, storedRuns, pinned>>
    BY <1>2, <2>2, Refused DEF TablesOK
  <2>3. CASE r.op = "grant" /\ r.step = 2 /\ StepTo(c, 3) /\ ReadsOnly
    <3> DEFINE next == [r EXCEPT !.step = 3]
    <3>1. next.op = r.op /\ next.scope = r.scope /\ next.who = r.who /\ next.step = 3
      BY <1>2 DEF Asked
    <3>2. r.scope \in AccessScopes /\ r.scope \in held[c].manage /\ r.who \in AccessUsers
      BY <1>1, <1>2, <2>3 DEF Relies
    <3>3. Relies(next, held[c])
      <4> HIDE DEF next
      <4> QED
        BY <2>3, <3>1, <3>2 DEF Relies, Pinning, Managing
    <3>4. 3 \in 1..9 /\ Relies([request[c] EXCEPT !.step = 3], held[c])
      BY <3>3
    <3>5. Moves(c)
      BY <1>2, <2>3, <3>4, StepMoves
    <3> QED
      BY <1>2, <2>3, <3>5 DEF ReadsOnly, TablesOK
  <2>4. CASE /\ r.op = "grant" /\ r.step = 3
             /\ setGrants' = [setGrants EXCEPT ![r.scope][r.who] = r.level]
             /\ request' = [request EXCEPT ![c].managed = {r.scope}, ![c].step = Answered]
             /\ UNCHANGED <<restrictions, storedRuns, pinned>>
    <3>1. r.scope \in AccessScopes /\ r.who \in AccessUsers /\ r.level \in 0..3
      BY <1>1, <1>2, <2>4 DEF Relies, Asked
    <3>2. TablesOK'
      BY <1>2, <2>4, <3>1 DEF TablesOK
    <3> QED
      BY <1>4, <2>4, <3>2
  <2> QED
    BY <1>7, <2>1, <2>2, <2>3, <2>4 DEF grant, At, ReadsOnly
<1> QED
  BY <1>5, <1>6, <1>7

LEMMA HandleMoves ==
    ASSUME AccessInv, NEW c \in AccessClients, Handle(c)
    PROVE  Moves(c) /\ TablesOK'
<1> DEFINE plain == \/ list_cases(c) \/ run_matrix(c) \/ get_case(c) \/ export_run(c)
                    \/ list_runs(c) \/ search(c) \/ list_projects(c) \/ list_run_sets(c)
                    \/ run_set(c) \/ case_history(c) \/ entry_runs(c)
           other == \/ list_suites(c) \/ get_run(c) \/ compare_runs(c) \/ get_baseline(c)
                    \/ export_baseline(c)
<1>1. TablesOK
  BY DEF AccessInv
<1>2. ASSUME ReadsOnly PROVE TablesOK'
  BY <1>1, <1>2 DEF ReadsOnly, TablesOK
<1>3. CASE plain
  <2>1. ReadsOnly
    BY <1>3 DEF list_cases, run_matrix, run_exists, get_case, export_run, list_runs, search,
                list_projects, list_run_sets, run_set, case_history, entry_runs
  <2> QED
    BY <1>2, <1>3, <2>1, PlainHandlers
<1>4. CASE other
  <2>1. ReadsOnly
    BY <1>4 DEF list_suites, get_run, compare_runs, get_baseline, export_baseline
  <2> QED
    BY <1>2, <1>4, <2>1, ListSuitesMoves, GetRunMoves, CompareMoves, GetBaselineMoves,
       ExportBaselineMoves
<1>5. CASE put_baseline(c) \/ delete_baseline(c) \/ post_run(c) \/ access(c) \/ grant(c) \/ ungrant(c)
  BY <1>5, PutBaselineMoves, DeleteBaselineMoves, PostRunMoves, AccessMoves
<1>6. CASE Respond(c)
  BY <1>1, <1>6 DEF Respond, Moves, TablesOK
<1> QED
  BY <1>3, <1>4, <1>5, <1>6 DEF Handle

-----------------------------------------------------------------------------
(* Requests that begin, and what an administrator changes.                 *)

LEMMA VisibilityType ==
    ASSUME NEW identity \in authenticate
    PROVE  VisibilityOf(identity) \in AccessUsers \cup {"full", "public"}
<1>1. identity.user \in AccessUsers \cup {NoUser}
  <2>1. CASE identity = Anonymous
    BY <2>1 DEF Anonymous
  <2>2. CASE identity \in [source : {"static"}, user : {NoUser}, role : {"none"}, scope : 1..3]
    BY <2>2
  <2>3. CASE ~(\/ identity = Anonymous
               \/ identity \in [source : {"static"}, user : {NoUser}, role : {"none"}, scope : 1..3])
    <3>1. PICK u \in AccessUsers :
             \/ identity = [source |-> "session", user |-> u, role |-> roles[u],
                            scope |-> for_role(roles[u])]
             \/ identity \in [source : {"api_key"}, user : {u}, role : {roles[u]},
                              scope : {Min({s, for_role(roles[u])}) : s \in 1..3}]
      BY <2>3, Zenon DEF authenticate
    <3> QED
      BY <3>1
  <2> QED
    BY <2>1, <2>2, <2>3
<1> QED
  BY <1>1 DEF VisibilityOf

\* A request that has executed nothing is in order, whatever is held.
LEMMA FreshOK ==
    ASSUME NEW h, NEW new \in Asked, new.step = 1,
           new.shown = {} /\ new.uploaded = {} /\ new.managed = {},
           new.op \in {"get_run", "compare", "post_run"} => new.run \in AccessRuns,
           new.op \in Pinning => new.scope \in SuiteScopes,
           new.op \in Managing => new.scope \in AccessScopes,
           new.op \in {"grant", "ungrant"} => new.who \in AccessUsers
    PROVE  RequestOK(new, h)
BY DEF RequestOK, Entitled, Relies

\* A request whose handler has yet to do anything.
Fresh(f, op) ==
    f.op = op /\ f.step = 1 /\ f.shown = {} /\ f.uploaded = {} /\ f.managed = {}

\* A request of any operation, before its arguments.
LEMMA FreshType ==
    ASSUME NEW op \in Ops, NEW vis \in AccessUsers \cup {"full", "public"}
    PROVE  LET f == [Idle EXCEPT !.op = op, !.step = 1, !.vis = vis] IN f \in Asked /\ Fresh(f, op)
<1> DEFINE f == [Idle EXCEPT !.op = op, !.step = 1, !.vis = vis]
<1>1. Fresh(f, op)
  BY DEF Idle, Fresh
<1>2. Idle \in [op : Ops \cup {"none"}, step : 0..9, vis : AccessUsers \cup {"full", "public"},
                run : AccessRuns \cup {NoRun}, other : AccessRuns \cup {NoRun},
                scope : Sets \cup {NoScope}, who : AccessUsers \cup {NoUser}, level : 0..3,
                todo : SUBSET Sets, shown : SUBSET AccessRuns, uploaded : SUBSET RunSetsAll,
                managed : SUBSET AccessScopes]
  BY DEF Idle
<1>3. 1 \in 1..9
  OBVIOUS
<1>4. f \in Asked
  BY <1>2, <1>3 DEF Asked
<1> QED
  BY <1>1, <1>4

\* The request new is the request f with its arguments.
Given(new, f, run, scope, who) ==
    /\ new \in Asked /\ new.run = run /\ new.scope = scope /\ new.who = who
    /\ new.op = f.op /\ new.step = f.step /\ new.shown = f.shown
    /\ new.uploaded = f.uploaded /\ new.managed = f.managed

LEMMA AskRuns ==
    ASSUME NEW f \in Asked, NEW r \in AccessRuns \cup {NoRun}, NEW q \in AccessRuns \cup {NoRun}
    PROVE  Given([f EXCEPT !.run = r, !.other = q], f, r, f.scope, f.who)
BY DEF Asked, Given

LEMMA AskList ==
    ASSUME NEW f \in Asked, NEW s \in Sets \cup {NoScope}, NEW q \in AccessRuns \cup {NoRun}
    PROVE  Given([f EXCEPT !.scope = s, !.other = q], f, f.run, s, f.who)
BY DEF Asked, Given

LEMMA AskPin ==
    ASSUME NEW f \in Asked, NEW s \in Sets \cup {NoScope}, NEW r \in AccessRuns \cup {NoRun}
    PROVE  Given([f EXCEPT !.scope = s, !.run = r], f, r, s, f.who)
BY DEF Asked, Given

LEMMA AskManage ==
    ASSUME NEW f \in Asked, NEW s \in Sets \cup {NoScope}, NEW u \in AccessUsers \cup {NoUser}, NEW l \in 0..3
    PROVE  Given([f EXCEPT !.scope = s, !.who = u, !.level = l], f, f.run, s, u)
BY DEF Asked, Given

LEMMA OpsAll == /\ Reading \cup {"post_run"} \subseteq Ops /\ Listing \subseteq Ops
                /\ Pinning \subseteq Ops /\ Managing \subseteq Ops
BY DEF Ops

LEMMA BeginMoves ==
    ASSUME AccessInv, NEW c \in AccessClients, BeginRequest(c)
    PROVE  Moves(c) /\ TablesOK'
<1>1. TablesOK'
  BY DEF AccessInv, TablesOK, BeginRequest
<1>2. PICK identity \in authenticate :
         LET fresh(op) == [Idle EXCEPT !.op = op, !.step = 1, !.vis = VisibilityOf(identity)] IN
         \/ \E op \in Reading \cup {"post_run"}, r \in AccessRuns :
              \E q \in (IF op = "compare" THEN AccessRuns \ {r} ELSE {NoRun}) :
                /\ check(identity, RouteScope(op))
                /\ request' = [request EXCEPT ![c] = [fresh(op) EXCEPT !.run = r, !.other = q]]
         \/ \E op \in Listing, s \in AccessScopes \cup {NoScope}, after \in AccessRuns \cup {NoRun} :
              /\ check(identity, RouteScope(op))
              /\ (op # "list_runs") => (after = NoRun)
              /\ (op \in {"projects", "sets", "search", "entry_runs"}) => (s = NoScope)
              /\ (op = "suites") => (s # NoScope /\ s[2] = NoName)
              /\ (op = "set") => (s # NoScope)
              /\ (op = "history") => (s \in SuiteScopes)
              /\ request' = [request EXCEPT ![c] = [fresh(op) EXCEPT !.scope = s, !.other = after]]
         \/ \E op \in Pinning, s \in SuiteScopes :
              \E r \in (IF op = "put_baseline" THEN AccessRuns \cup {NoRun} ELSE {NoRun}) :
                /\ check(identity, RouteScope(op))
                /\ request' = [request EXCEPT ![c] = [fresh(op) EXCEPT !.scope = s, !.run = r]]
         \/ \E op \in Managing, s \in AccessScopes :
              \E u \in (IF op = "access" THEN {NoUser} ELSE AccessUsers),
                 l \in (IF op = "grant" THEN {View, Manage} ELSE {0}) :
                /\ check(identity, RouteScope(op))
                /\ request' = [request EXCEPT ![c] = [fresh(op) EXCEPT !.scope = s, !.who = u,
                                                                      !.level = l]]
  BY DEF BeginRequest
<1> DEFINE vis == VisibilityOf(identity)
           fresh(op) == [Idle EXCEPT !.op = op, !.step = 1, !.vis = vis]
<1>3. vis \in AccessUsers \cup {"full", "public"}
  BY VisibilityType
<1> HIDE DEF vis
<1>4. SuiteScopes \subseteq Sets /\ AccessScopes \subseteq Sets
  BY DEF SuiteScopes, Sets
<1>5. ASSUME NEW op \in Ops PROVE fresh(op) \in Asked /\ Fresh(fresh(op), op)
  BY <1>3, FreshType
<1> HIDE DEF fresh
<1>6. ASSUME NEW op \in Reading \cup {"post_run"}, NEW f \in Asked, Fresh(f, op),
             NEW r \in AccessRuns,
             NEW q \in (IF op = "compare" THEN AccessRuns \ {r} ELSE {NoRun}),
             request' = [request EXCEPT ![c] = [f EXCEPT !.run = r, !.other = q]]
      PROVE  Moves(c)
  <2> DEFINE new == [f EXCEPT !.run = r, !.other = q]
  <2>1. op \in Ops /\ op \notin Pinning /\ op \notin Managing /\ q \in AccessRuns \cup {NoRun}
    BY <1>6 DEF Ops, Reading, Pinning, Managing
  <2>4. /\ f.op = op /\ f.step = 1 /\ f.shown = {} /\ f.uploaded = {} /\ f.managed = {}
    BY <1>6 DEF Fresh
  <2>7. r \in AccessRuns \cup {NoRun}
    OBVIOUS
  <2>8. Given(new, f, r, f.scope, f.who)
    BY <2>1, <2>7, AskRuns
  <2> HIDE DEF new
  <2>2. /\ new \in Asked /\ new.op = op /\ new.step = 1 /\ new.run = r
        /\ new.shown = {} /\ new.uploaded = {} /\ new.managed = {}
    BY <2>4, <2>8 DEF Given
  <2>3. RequestOK(new, held[c])
    BY <2>1, <2>2, FreshOK DEF Managing
  <2> QED
    BY <1>6, <2>3 DEF Moves, new
<1>7. ASSUME NEW op \in Listing, NEW f \in Asked, Fresh(f, op),
             NEW s \in AccessScopes \cup {NoScope},
             NEW after \in AccessRuns \cup {NoRun},
             request' = [request EXCEPT ![c] = [f EXCEPT !.scope = s, !.other = after]]
      PROVE  Moves(c)
  <2> DEFINE new == [f EXCEPT !.scope = s, !.other = after]
  <2>1. /\ op \in Ops /\ op \notin Pinning /\ op \notin Managing
        /\ op \notin {"get_run", "compare", "post_run"} /\ s \in Sets \cup {NoScope}
    BY <1>4, <1>7 DEF Ops, Listing, Pinning, Managing
  <2>4. /\ f.op = op /\ f.step = 1 /\ f.shown = {} /\ f.uploaded = {} /\ f.managed = {}
    BY <1>7 DEF Fresh
  <2>7. after \in AccessRuns \cup {NoRun}
    OBVIOUS
  <2>8. Given(new, f, f.run, s, f.who)
    BY <2>1, <2>7, AskList
  <2> HIDE DEF new
  <2>2. /\ new \in Asked /\ new.op = op /\ new.step = 1
        /\ new.shown = {} /\ new.uploaded = {} /\ new.managed = {}
    BY <2>4, <2>8 DEF Given
  <2>3. RequestOK(new, held[c])
    BY <2>1, <2>2, FreshOK DEF Managing
  <2> QED
    BY <1>7, <2>3 DEF Moves, new
<1>8. ASSUME NEW op \in Pinning, NEW f \in Asked, Fresh(f, op),
             NEW s \in SuiteScopes,
             NEW r \in (IF op = "put_baseline" THEN AccessRuns \cup {NoRun} ELSE {NoRun}),
             request' = [request EXCEPT ![c] = [f EXCEPT !.scope = s, !.run = r]]
      PROVE  Moves(c)
  <2> DEFINE new == [f EXCEPT !.scope = s, !.run = r]
  <2>1. /\ op \in Ops /\ op \notin Managing /\ r \in AccessRuns \cup {NoRun}
        /\ op \notin {"get_run", "compare", "post_run"} /\ s \in Sets \cup {NoScope}
    BY <1>4, <1>8 DEF Ops, Pinning, Managing
  <2>4. /\ f.op = op /\ f.step = 1 /\ f.shown = {} /\ f.uploaded = {} /\ f.managed = {}
    BY <1>8 DEF Fresh
  <2>8. Given(new, f, r, s, f.who)
    BY <2>1, AskPin
  <2> HIDE DEF new
  <2>2. /\ new \in Asked /\ new.op = op /\ new.step = 1 /\ new.scope = s
        /\ new.shown = {} /\ new.uploaded = {} /\ new.managed = {}
    BY <2>4, <2>8 DEF Given
  <2>3. RequestOK(new, held[c])
    BY <2>1, <2>2, FreshOK DEF Managing
  <2> QED
    BY <1>8, <2>3 DEF Moves, new
<1>9. ASSUME NEW op \in Managing, NEW f \in Asked, Fresh(f, op),
             NEW s \in AccessScopes,
             NEW u \in (IF op = "access" THEN {NoUser} ELSE AccessUsers),
             NEW l \in (IF op = "grant" THEN {View, Manage} ELSE {0}),
             request' = [request EXCEPT ![c] = [f EXCEPT !.scope = s, !.who = u, !.level = l]]
      PROVE  Moves(c)
  <2> DEFINE new == [f EXCEPT !.scope = s, !.who = u, !.level = l]
  <2>1. /\ op \in Ops /\ op \notin Pinning /\ u \in AccessUsers \cup {NoUser}
        /\ op \notin {"get_run", "compare", "post_run"} /\ s \in Sets \cup {NoScope}
        /\ op \in {"grant", "ungrant"} => u \in AccessUsers
    BY <1>4, <1>9 DEF Ops, Pinning, Managing
  <2>2. l \in 0..3
    BY <1>9 DEF View, Manage
  <2>5. /\ f.op = op /\ f.step = 1 /\ f.shown = {} /\ f.uploaded = {} /\ f.managed = {}
    BY <1>9 DEF Fresh
  <2>8. Given(new, f, f.run, s, u)
    BY <2>1, <2>2, AskManage
  <2> HIDE DEF new
  <2>3. /\ new \in Asked /\ new.op = op /\ new.step = 1 /\ new.scope = s /\ new.who = u
        /\ new.shown = {} /\ new.uploaded = {} /\ new.managed = {}
    BY <2>5, <2>8 DEF Given
  <2>4. RequestOK(new, held[c])
    BY <2>1, <2>3, FreshOK
  <2> QED
    BY <1>9, <2>4 DEF Moves, new
<1>10. Moves(c)
  BY <1>2, <1>5, <1>6, <1>7, <1>8, <1>9, OpsAll, ZenonT(60) DEF vis, fresh
<1> QED
  BY <1>1, <1>10

LEMMA AdministerKeeps ==
    ASSUME TablesOK, Administer
    PROVE  TablesOK' /\ request' = request
<1>1. request' = request
  BY DEF Administer, AdminChange, restrict, unrestrict, admin_grant, delete_run, delete_user, set_role
<1>2. ASSUME NEW s \in AccessScopes, restrict(s) \/ unrestrict(s) PROVE TablesOK'
  BY <1>2 DEF restrict, unrestrict, TablesOK
<1>3. ASSUME NEW s \in AccessScopes, NEW u \in AccessUsers, NEW level \in {0, View, Upload},
             admin_grant(s, u, level)
      PROVE  TablesOK'
  <2>1. level \in 0..3
    BY DEF View, Upload
  <2> QED
    BY <1>3, <2>1 DEF admin_grant, TablesOK
<1>4. ASSUME NEW r \in AccessRuns, delete_run(r) PROVE TablesOK'
  BY <1>4 DEF delete_run, TablesOK
<1>5. ASSUME NEW u \in AccessUsers, delete_user(u) \/ \E role \in {"admin", "viewer"} : set_role(u, role)
      PROVE  TablesOK'
  BY <1>5 DEF delete_user, set_role, TablesOK
<1>6. TablesOK'
  BY <1>2, <1>3, <1>4, <1>5 DEF Administer
<1> QED
  BY <1>1, <1>6

-----------------------------------------------------------------------------
\* AccessIsHeld, for any runs, sets, users, clients and changes: whatever a request
\* shows, stores, pins or grants, its caller was entitled to at some moment of that
\* request, although grants, restrictions and accounts change between its
\* statements (require_set_access, VISIBLE, and the reads by id in get_run_detail
\* and compare_runs).
THEOREM AccessIsHeldCorrect == AccessSpec => []AccessIsHeld
<1>1. AccessInit => AccessInv
  <2> SUFFICES ASSUME AccessInit
               PROVE  AccessInv
    OBVIOUS
  <2>1. setGrants \in [AccessScopes -> [AccessUsers -> 0..3]]
    BY DEF AccessInit, Manage
  <2>2. TablesOK
    BY <2>1 DEF AccessInit, TablesOK
  <2>3. held \in [AccessClients -> HeldSet]
    BY DEF AccessInit, NothingHeld, HeldSet
  <2>4. request = [c \in AccessClients |-> Idle]
    BY DEF AccessInit
  <2> QED
    BY <2>2, <2>3, <2>4 DEF AccessInv, ClientOK
<1>2. AccessInv /\ [AccessNext]_accessVars => AccessInv'
  <2> SUFFICES ASSUME AccessInv, [AccessNext]_accessVars
               PROVE  AccessInv'
    OBVIOUS
  <2>1. request \in [AccessClients -> Asked \cup {Idle}] /\ TablesOK
    BY DEF AccessInv
  <2>2. \A d \in AccessClients : request[d] # Idle => RequestOK(request[d], held[d])
    BY DEF AccessInv, ClientOK
  <2>3. ASSUME AccessNext, Administer
        PROVE  AccessInv'
    <3>1. TablesOK' /\ request' = request /\ held' = [d \in AccessClients |-> HeldAfter(d)]
      BY <2>1, <2>3, AdministerKeeps DEF AccessNext
    <3> QED
      BY <2>1, <2>2, <3>1, StepKeeps
  <2>4. ASSUME AccessNext, NEW c \in AccessClients, BeginRequest(c) \/ Handle(c)
        PROVE  AccessInv'
    <3>1. Moves(c) /\ TablesOK' /\ held' = [d \in AccessClients |-> HeldAfter(d)]
      BY <2>4, BeginMoves, HandleMoves DEF AccessNext
    <3>2. PICK new : /\ new = Idle \/ RequestOK(new, held[c])
                     /\ request' = [request EXCEPT ![c] = new]
      BY <3>1 DEF Moves
    <3>3. new \in Asked \cup {Idle}
      BY <3>2 DEF RequestOK
    <3>4. /\ request' \in [AccessClients -> Asked \cup {Idle}]
          /\ \A d \in AccessClients : request'[d] # Idle => RequestOK(request'[d], held[d])
      BY <2>1, <2>2, <3>2, <3>3
    <3> QED
      BY <3>1, <3>4, StepKeeps
  <2>5. CASE UNCHANGED accessVars
    <3>1. UNCHANGED <<restrictions, setGrants, storedRuns, pinned, request, held>>
      BY <2>5 DEF accessVars
    <3>2. TablesOK'
      BY <2>1, <3>1 DEF TablesOK
    <3>3. ASSUME NEW c \in AccessClients
          PROVE  ClientOK(c)'
      <4>1. ClientOK(c)
        BY DEF AccessInv
      <4>2. HeldNow(request[c].vis)' = HeldNow(request[c].vis)
        BY <3>1 DEF HeldNow, MayUse, IsOpen, Strongest
      <4> QED
        BY <3>1, <4>1, <4>2 DEF ClientOK
    <3> QED
      BY <2>1, <3>1, <3>2, <3>3 DEF AccessInv
  <2> QED
    BY <2>3, <2>4, <2>5 DEF AccessNext
<1>3. AccessInv => AccessIsHeld
  <2> SUFFICES ASSUME AccessInv, NEW c \in AccessClients
               PROVE  Entitled(request[c], held[c])
    BY DEF AccessIsHeld, Entitled
  <2>1. CASE request[c] = Idle
    BY <2>1 DEF Idle, Entitled
  <2>2. CASE request[c] # Idle
    BY <2>2 DEF AccessInv, ClientOK, RequestOK
  <2> QED
    BY <2>1, <2>2
<1> QED
  BY <1>1, <1>2, <1>3, PTL DEF AccessSpec
=============================================================================
