---------------------------- MODULE RunnerProofs ----------------------------
(***************************************************************************)
(* Safety of Runner for every matrix, chain, concurrency, cache mode,      *)
(* policy and store.                                                       *)
(***************************************************************************)
EXTENDS Runner, FiniteSetTheorems, SequenceTheorems, TLAPS

-----------------------------------------------------------------------------
(* Typing of the operators the actions are built from.                     *)

\* The provider of a cell's current link is a provider, and its keys are keys.
LEMMA ProviderType ==
    ASSUME TypeOK, NEW c \in Cells
    PROVE  /\ Provider(c) \in Providers
           /\ Chain[c][1] \in Providers
           /\ Key(c) \in Keys
           /\ \A g \in OldGenerations : OldKey(c, g) \in Keys
<1>1. Chain[c] \in Seq(Providers) /\ Len(Chain[c]) \in Nat /\ Len(Chain[c]) > 0
  BY RunnerAssumption
<1>2. Provider(c) \in Providers /\ Chain[c][1] \in Providers
  BY <1>1 DEF TypeOK, Provider
<1> QED
  BY <1>2 DEF Key, OldKey, Keys

\* A chain's last link is one of its links.
LEMMA LastType ==
    ASSUME NEW c \in Cells
    PROVE  Last(c) \in Nat /\ 1 <= Last(c) /\ Last(c) <= Len(Chain[c])
BY RunnerAssumption DEF Last

\* The outcomes of call_with_cache are outcomes.
LEMMA OutcomeType ==
    ASSUME NEW p \in Providers
    PROVE  /\ \A r \in AllReplies, b \in BOOLEAN : Response(r, b, p) \in Outcomes
           /\ \A e \in LiveErrors \cup CacheErrors \cup {"render_failed", None} :
                 Failure(e, p) \in Outcomes
BY DEF Response, Failure, Outcomes

\* A finished case has a status.
LEMMA StatusType ==
    ASSUME TypeOK, NEW c \in Cells
    PROVE  CaseStatus(c) \in Statuses \ {None}
BY DEF TypeOK, CaseStatus, Statuses, None

\* Writing an entry keeps the store a store.
LEMMA PutType ==
    ASSUME TypeOK, NEW k \in Keys, NEW r \in AllReplies \cup {None}
    PROVE  Put(k, r) \in [Keys -> AllReplies \cup {None}]
BY DEF TypeOK, Put

-----------------------------------------------------------------------------
LEMMA TypeInit == Init => TypeOK
<1> SUFFICES ASSUME Init PROVE TypeOK
  OBVIOUS
<1>1. \A c \in Cells : Chain[c][1] \in Providers /\ Len(Chain[c]) \in Nat /\ Len(Chain[c]) > 0
  BY RunnerAssumption
<1>2. \A c \in Cells : Failure(None, Chain[c][1]) \in Outcomes
  BY <1>1, OutcomeType
<1>3. out \in [Cells -> Outcomes] /\ primary \in [Cells -> Outcomes]
      /\ report \in [Cells -> Outcomes]
  BY <1>2 DEF Init
<1>4. attempted \in [Cells -> Seq(Providers)]
  BY DEF Init
<1>5. /\ pc \in [Cells -> Labels] /\ status \in [Cells -> Statuses]
      /\ \A c \in Cells : pc[c] = "done" <=> status[c] # None
  BY DEF Init, Labels, Statuses, None
<1>6. \A c \in Cells : link[c] \in 1..Len(Chain[c])
  BY <1>1 DEF Init
<1>7. cache \in [Keys -> AllReplies \cup {None}] /\ remaining \in Int
  BY RunnerAssumption DEF Init
<1> QED
  BY <1>3, <1>4, <1>5, <1>6, <1>7 DEF Init, TypeOK

\* Ending a cell in an error, and reporting an outcome, keep the types.
LEMMA ErrorCaseType ==
    ASSUME TypeOK, NEW c \in Cells, NEW o \in Outcomes, ErrorCase(c, o)
    PROVE  /\ pc' \in [Cells -> Labels]
           /\ report' \in [Cells -> Outcomes]
           /\ status' \in [Cells -> Statuses]
           /\ \A d \in Cells : pc'[d] = "done" <=> status'[d] # None
BY DEF TypeOK, ErrorCase, Goto, Labels, Statuses, None

LEMMA ReportType ==
    ASSUME TypeOK, NEW c \in Cells, pc[c] # "done", NEW o \in Outcomes, Report(c, o)
    PROVE  /\ pc' \in [Cells -> Labels]
           /\ report' \in [Cells -> Outcomes]
           /\ status' \in [Cells -> Statuses]
           /\ \A d \in Cells : pc'[d] = "done" <=> status'[d] # None
<1>1. CASE ErrorCase(c, o)
  BY <1>1, ErrorCaseType
<1>2. CASE ~ErrorCase(c, o)
  BY <1>2, ZenonT(60) DEF TypeOK, Report, Goto, Labels
<1> QED
  BY <1>1, <1>2

\* A move between two labels, neither of them "done".
LEMMA GotoType ==
    ASSUME TypeOK, NEW c \in Cells, pc[c] # "done",
           NEW l \in Labels \ {"done"}, Goto(c, l)
    PROVE  /\ pc' \in [Cells -> Labels]
           /\ \A d \in Cells : pc'[d] = "done" <=> status[d] # None
BY DEF TypeOK, Goto


\* A cell whose grader is working has an assert to grade.
Pending == \A c \in Cells : pc[c] = "judging" => todo[c] > 0

LEMMA TypeStep ==
    ASSUME TypeOK, Pending, [Next]_vars
    PROVE  TypeOK'
<1> USE DEF sharedVars, historyVars, gradeVars, cellVars
<1>1. ASSUME NEW c \in Cells, StartCell(c) PROVE TypeOK'
  <2>1. Chain[c][1] \in Providers
    BY ProviderType
  <2>2. \A e \in {"provider_auth", "render_failed", "cache_miss"} :
            Failure(e, Chain[c][1]) \in Outcomes
    BY <2>1, OutcomeType DEF LiveErrors, CacheErrors
  <2>3. /\ pc' \in [Cells -> Labels]
        /\ report' \in [Cells -> Outcomes]
        /\ status' \in [Cells -> Statuses]
        /\ \A d \in Cells : pc'[d] = "done" <=> status'[d] # None
    <3>1. CASE \E e \in {"provider_auth", "render_failed", "cache_miss"} :
                 ErrorCase(c, Failure(e, Chain[c][1]))
      BY <3>1, <2>2, ErrorCaseType
    <3>2. CASE Goto(c, "enter") /\ UNCHANGED <<status, report>>
      BY <1>1, <3>2, GotoType DEF StartCell, TypeOK, Labels
    <3> QED
      BY <1>1, <3>1, <3>2 DEF StartCell
  <2> QED
    BY <1>1, <2>3 DEF StartCell, TypeOK
<1>2. ASSUME NEW c \in Cells, EnterLink(c) PROVE TypeOK'
  <2>1. CASE Report(c, primary[c]) /\ attempted' = [attempted EXCEPT ![c] = <<>>]
    <3>1. /\ pc' \in [Cells -> Labels]
          /\ report' \in [Cells -> Outcomes]
          /\ status' \in [Cells -> Statuses]
          /\ \A d \in Cells : pc'[d] = "done" <=> status'[d] # None
      BY <1>2, <2>1, ReportType DEF EnterLink, TypeOK
    <3>2. attempted' \in [Cells -> Seq(Providers)]
      BY <2>1 DEF TypeOK
    <3> QED
      BY <1>2, <3>1, <3>2 DEF EnterLink, TypeOK
  <2>2. CASE Goto(c, IF UsesCache(c) THEN "lookup" ELSE "call")
             /\ UNCHANGED <<report, status, attempted>>
    <3>1. /\ pc' \in [Cells -> Labels]
          /\ \A d \in Cells : pc'[d] = "done" <=> status[d] # None
      BY <1>2, <2>2, GotoType DEF EnterLink, Labels
    <3> QED
      BY <1>2, <2>2, <3>1 DEF EnterLink, TypeOK
  <2> QED
    BY <1>2, <2>1, <2>2 DEF EnterLink
<1>3. ASSUME NEW c \in Cells, Lookup(c) PROVE TypeOK'
  <2>1. Provider(c) \in Providers /\ Key(c) \in Keys
    BY ProviderType
  <2>2. Failure("cache_unavailable", Provider(c)) \in Outcomes
    BY <2>1, OutcomeType DEF CacheErrors
  <2>3. cache[Key(c)] # None => Response(cache[Key(c)], TRUE, Provider(c)) \in Outcomes
    BY <2>1, OutcomeType DEF TypeOK
  <2>4. out' \in [Cells -> Outcomes]
    BY <1>3, <2>2, <2>3 DEF Lookup, TypeOK
  <2>5. \E l \in {"settle", "claim_canonical"} : Goto(c, l)
    BY <1>3 DEF Lookup
  <2>6. /\ pc' \in [Cells -> Labels]
        /\ \A d \in Cells : pc'[d] = "done" <=> status[d] # None
    BY <1>3, <2>5, GotoType DEF Lookup, Labels
  <2> QED
    BY <1>3, <2>4, <2>6 DEF Lookup, TypeOK
<1>4. ASSUME NEW c \in Cells, NEW g \in OldGenerations, ClaimProbe(c, g) PROVE TypeOK'
  <2>1. pc[c] # "done"
    BY <1>4 DEF ClaimProbe, Claim, OldGenerations
  <2>2. Read[g] \in Labels \ {"done"} /\ AfterOld(c, g) \in Labels \ {"done"}
    BY DEF Read, AfterOld, Claim, MissGoesTo, OldGenerations, Labels
  <2>3. \E l \in Labels \ {"done"} : Goto(c, l)
    BY <1>4, <2>2 DEF ClaimProbe
  <2>4. /\ pc' \in [Cells -> Labels]
        /\ \A d \in Cells : pc'[d] = "done" <=> status[d] # None
    BY <2>1, <2>3, GotoType
  <2>5. remaining' \in Int
    BY <1>4 DEF ClaimProbe, TypeOK
  <2> QED
    BY <1>4, <2>4, <2>5 DEF ClaimProbe, TypeOK
<1>5. ASSUME NEW c \in Cells, NEW g \in OldGenerations, ReadOld(c, g) PROVE TypeOK'
  <2>1. pc[c] # "done"
    BY <1>5 DEF ReadOld, Read, OldGenerations
  <2>2. Provider(c) \in Providers /\ OldKey(c, g) \in Keys
    BY ProviderType
  <2>3. cache[OldKey(c, g)] # None =>
            Response(cache[OldKey(c, g)], TRUE, Provider(c)) \in Outcomes
    BY <2>2, OutcomeType DEF TypeOK
  <2>4. out' \in [Cells -> Outcomes] /\ adopted' \in BOOLEAN
    BY <1>5, <2>3 DEF ReadOld, TypeOK
  <2>5. {"store", "settle", AfterOld(c, g)} \subseteq Labels \ {"done"}
    BY DEF AfterOld, Claim, MissGoesTo, OldGenerations, Labels
  <2>6. \E l \in Labels \ {"done"} : Goto(c, l)
    BY <1>5, <2>5 DEF ReadOld
  <2>7. /\ pc' \in [Cells -> Labels]
        /\ \A d \in Cells : pc'[d] = "done" <=> status[d] # None
    BY <2>1, <2>6, GotoType
  <2> QED
    BY <1>5, <2>4, <2>7 DEF ReadOld, TypeOK
<1>6. ASSUME NEW c \in Cells, RefuseMiss(c) PROVE TypeOK'
  <2>1. Failure("cache_miss", Provider(c)) \in Outcomes
    BY ProviderType, OutcomeType DEF CacheErrors
  <2>2. /\ pc' \in [Cells -> Labels]
        /\ \A d \in Cells : pc'[d] = "done" <=> status[d] # None
    BY <1>6, GotoType DEF RefuseMiss, Labels
  <2> QED
    BY <1>6, <2>1, <2>2 DEF RefuseMiss, TypeOK
<1>7. ASSUME NEW c \in Cells, Call(c) PROVE TypeOK'
  <2>1. /\ pc' \in [Cells -> Labels]
        /\ \A d \in Cells : pc'[d] = "done" <=> status[d] # None
    BY <1>7, GotoType DEF Call, Labels
  <2>2. calls' \in [Cells -> Nat]
    BY <1>7 DEF Call, TypeOK
  <2>3. late' \in [Cells -> Nat]
    <3>1. (IF aborted THEN late[c] + 1 ELSE late[c]) \in Nat
      BY DEF TypeOK
    <3> QED
      BY <1>7, <3>1 DEF Call, TypeOK
  <2> QED
    BY <1>7, <2>1, <2>2, <2>3 DEF Call, TypeOK
<1>8. ASSUME NEW c \in Cells, Answer(c) PROVE TypeOK'
  <2>1. /\ \A r \in Replies : Response(r, FALSE, Provider(c)) \in Outcomes
        /\ \A e \in CallErrors : Failure(e, Provider(c)) \in Outcomes
    BY ProviderType, OutcomeType, RunnerAssumption
  <2>2. out' \in [Cells -> Outcomes]
    BY <1>8, <2>1 DEF Answer, TypeOK
  <2>3. \E l \in {"store", "settle"} : Goto(c, l)
    BY <1>8 DEF Answer
  <2>4. /\ pc' \in [Cells -> Labels]
        /\ \A d \in Cells : pc'[d] = "done" <=> status[d] # None
    BY <1>8, <2>3, GotoType DEF Answer, Labels
  <2> QED
    BY <1>8, <2>2, <2>4 DEF Answer, TypeOK
<1>9. ASSUME NEW c \in Cells, Store(c) PROVE TypeOK'
  <2>1. out[c].reply \in AllReplies \cup {None}
    BY DEF TypeOK, Outcomes
  <2>2. cache' \in [Keys -> AllReplies \cup {None}]
    <3>1. Put(Key(c), out[c].reply) \in [Keys -> AllReplies \cup {None}]
      BY <2>1, ProviderType, PutType
    <3> QED
      BY <1>9, <3>1 DEF Store, TypeOK
  <2>3. /\ pc' \in [Cells -> Labels]
        /\ \A d \in Cells : pc'[d] = "done" <=> status[d] # None
    BY <1>9, GotoType DEF Store, Labels
  <2> QED
    BY <1>9, <2>2, <2>3 DEF Store, TypeOK
<1>10. ASSUME NEW c \in Cells, Settle(c) PROVE TypeOK'
  <2>1. Provider(c) \in Providers /\ Last(c) \in Nat /\ Last(c) <= Len(Chain[c])
    BY ProviderType, LastType
  <2>2. CASE link[c] < Last(c) /\ HandOff(out[c])
    <3>1. attempted' \in [Cells -> Seq(Providers)]
      <4>1. attempted[c] \in Seq(Providers)
        BY DEF TypeOK
      <4>2. Append(attempted[c], Provider(c)) \in Seq(Providers)
        BY <2>1, <4>1
      <4>3. attempted' = [attempted EXCEPT ![c] = Append(attempted[c], Provider(c))]
        BY <1>10, <2>2 DEF Settle
      <4> QED
        BY <4>2, <4>3 DEF TypeOK
    <3>2. primary' \in [Cells -> Outcomes]
      BY <1>10, <2>2 DEF Settle, TypeOK
    <3>3. link' \in [Cells -> Nat] /\ \A d \in Cells : link'[d] \in 1..Len(Chain[d])
      <4>1. link' = [link EXCEPT ![c] = link[c] + 1]
        BY <1>10, <2>2 DEF Settle
      <4>2. link[c] + 1 \in 1..Len(Chain[c]) /\ link[c] + 1 \in Nat
        <5>1. Len(Chain[c]) \in Nat
          BY RunnerAssumption
        <5>2. link[c] \in 1..Len(Chain[c]) /\ link[c] \in Nat
          BY DEF TypeOK
        <5> QED
          BY <2>1, <2>2, <5>1, <5>2
      <4> QED
        BY <4>1, <4>2 DEF TypeOK
    <3>4. /\ pc' \in [Cells -> Labels]
          /\ \A d \in Cells : pc'[d] = "done" <=> status[d] # None
      BY <1>10, <2>2, GotoType DEF Settle, Labels
    <3> QED
      BY <1>10, <2>2, <3>1, <3>2, <3>3, <3>4 DEF Settle, TypeOK
  <2>3. CASE ~(link[c] < Last(c) /\ HandOff(out[c]))
    <3>1. (IF NeverImproved(c) THEN primary[c] ELSE out[c]) \in Outcomes
      BY DEF TypeOK
    <3>2. /\ pc' \in [Cells -> Labels]
          /\ report' \in [Cells -> Outcomes]
          /\ status' \in [Cells -> Statuses]
          /\ \A d \in Cells : pc'[d] = "done" <=> status'[d] # None
      BY <1>10, <2>3, <3>1, ReportType DEF Settle
    <3>3. attempted' \in [Cells -> Seq(Providers)]
      <4>1. attempted' \in {attempted, [attempted EXCEPT ![c] = <<>>]}
        BY <1>10, <2>3 DEF Settle
      <4>2. <<>> \in Seq(Providers)
        OBVIOUS
      <4> QED
        BY <4>1, <4>2 DEF TypeOK
    <3> QED
      BY <1>10, <2>3, <3>2, <3>3 DEF Settle, TypeOK
  <2> QED
    BY <2>2, <2>3
<1>11. ASSUME NEW c \in Cells, LocalAsserts(c) PROVE TypeOK'
  <2>1. /\ pc' \in [Cells -> Labels]
        /\ \A d \in Cells : pc'[d] = "done" <=> status[d] # None
    BY <1>11, GotoType DEF LocalAsserts, Labels
  <2>2. /\ todo' \in [Cells -> Nat] /\ passed' \in [Cells -> BOOLEAN]
        /\ erred' \in [Cells -> BOOLEAN]
    BY <1>11, RunnerAssumption DEF LocalAsserts, TypeOK
  <2> QED
    BY <1>11, <2>1, <2>2 DEF LocalAsserts, TypeOK
<1>12. ASSUME NEW c \in Cells, GradeNext(c) PROVE TypeOK'
  <2>1. CASE CannotGrade
    <3>1. UNCHANGED pc /\ todo' = [todo EXCEPT ![c] = todo[c] - 1]
          /\ erred' = [erred EXCEPT ![c] = TRUE]
      BY <1>12, <2>1 DEF GradeNext, TodoLess, ErrorRecorded
    <3>2. todo[c] - 1 \in Nat
      BY <1>12 DEF GradeNext, TypeOK
    <3>3. todo' \in [Cells -> Nat] /\ erred' \in [Cells -> BOOLEAN]
      BY <3>1, <3>2 DEF TypeOK
    <3> QED
      BY <1>12, <3>1, <3>3 DEF GradeNext, TypeOK
  <2>2. CASE ~CannotGrade
    <3>1. Goto(c, "judging") /\ UNCHANGED <<erred, todo>>
      BY <1>12, <2>2 DEF GradeNext
    <3>2. /\ pc' \in [Cells -> Labels]
          /\ \A d \in Cells : pc'[d] = "done" <=> status[d] # None
      BY <1>12, <3>1, GotoType DEF GradeNext, Labels
    <3>3. UNCHANGED <<link, out, primary, attempted, report, passed, status, cache,
                      remaining, adopted, aborted, calls, late, verdicts>>
      BY <1>12 DEF GradeNext
    <3> QED
      BY <3>1, <3>2, <3>3 DEF TypeOK
  <2> QED
    BY <2>1, <2>2
<1>13. ASSUME NEW c \in Cells, Judged(c), todo[c] > 0 PROVE TypeOK'
  <2>1. todo' \in [Cells -> Nat]
    <3>1. todo[c] - 1 \in Nat
      BY <1>13 DEF TypeOK
    <3> QED
      BY <1>13, <3>1 DEF Judged, TodoLess, TypeOK
  <2>2. passed' \in [Cells -> BOOLEAN]
    <3>1. \A ok \in BOOLEAN : (passed[c] /\ ok) \in BOOLEAN
      OBVIOUS
    <3>2. \/ UNCHANGED passed
          \/ \E b \in BOOLEAN : passed' = [passed EXCEPT ![c] = b]
      BY <1>13, <3>1, Zenon DEF Judged
    <3> QED
      BY <3>2 DEF TypeOK
  <2>3. erred' \in [Cells -> BOOLEAN]
    <3>1. \/ UNCHANGED erred
          \/ erred' = [erred EXCEPT ![c] = TRUE]
      BY <1>13 DEF Judged
    <3> QED
      BY <3>1 DEF TypeOK
  <2>4. aborted' \in BOOLEAN
    BY <1>13 DEF Judged, TypeOK
  <2>5. verdicts' \in [Cells -> Nat]
    <3>1. CASE UNCHANGED verdicts
      BY <3>1 DEF TypeOK
    <3>2. CASE verdicts' = [verdicts EXCEPT ![c] = verdicts[c] + 1]
      <4>1. verdicts[c] + 1 \in Nat
        BY DEF TypeOK
      <4> QED
        BY <3>2, <4>1 DEF TypeOK
    <3> QED
      BY <1>13, <3>1, <3>2 DEF Judged
  <2>6. /\ pc' \in [Cells -> Labels]
        /\ \A d \in Cells : pc'[d] = "done" <=> status[d] # None
    BY <1>13, GotoType DEF Judged, Labels
  <2> QED
    BY <1>13, <2>1, <2>2, <2>3, <2>4, <2>5, <2>6 DEF Judged, TypeOK
<1>14. ASSUME NEW c \in Cells, Finish(c) PROVE TypeOK'
  <2>1. CaseStatus(c) \in Statuses \ {None}
    BY StatusType
  <2>2. /\ pc' \in [Cells -> Labels]
        /\ status' \in [Cells -> Statuses]
        /\ \A d \in Cells : pc'[d] = "done" <=> status'[d] # None
    BY <1>14, <2>1 DEF Finish, Goto, TypeOK, Labels
  <2> QED
    BY <1>14, <2>2 DEF Finish, TypeOK
<1>15. ASSUME UNCHANGED vars PROVE TypeOK'
  BY <1>15 DEF vars, TypeOK
<1>16. \A c \in Cells : Judged(c) => todo[c] > 0
  BY DEF Pending, Judged
<1> QED
  BY <1>1, <1>2, <1>3, <1>4, <1>5, <1>6, <1>7, <1>8, <1>9, <1>10, <1>11, <1>12,
     <1>13, <1>14, <1>15, <1>16 DEF Next, CellStep

-----------------------------------------------------------------------------
(* The loss of an aborted run is bounded.                                  *)

\* A cell that the abort flag no longer stops before its next live call: it is
\* between the loop head of call_chain and the call, or at the head with the
\* first link, which is entered without looking at the flag.
Asking == {"lookup", "claim_canonical", "read_canonical", "claim_fingerprint",
           "read_fingerprint", "miss", "call"}
MayCall(c) == pc[c] \in Asking \/ (pc[c] = "enter" /\ link[c] = 1)

\* The cells that did or still may begin a call after the abort.
Losses == {c \in Cells : late[c] > 0 \/ MayCall(c)}

\* The inductive invariant: one slot of the buffer belongs to the cell whose
\* grader was rejected, and no cell enters or re-enters Losses after that.
LossInv ==
    /\ TypeOK
    /\ Pending
    /\ Cardinality(InFlight) <= Concurrency
    /\ \A c \in Cells : late[c] > 0 => aborted /\ ~MayCall(c) /\ late[c] = 1
    /\ aborted => Cardinality(Losses) < Concurrency

\* What a step of one cell may do to the state LossInv is about.
StepOf(c) ==
    /\ \A d \in Cells \ {c} : /\ pc'[d] = pc[d]
                              /\ link'[d] = link[d]
                              /\ late'[d] = late[d]
                              /\ todo'[d] = todo[d]
    /\ pc[c] # "done"
    /\ pc[c] = "queued" => Cardinality(InFlight) < Concurrency
    /\ pc'[c] = "judging" => todo'[c] > 0
    /\ aborted => aborted' /\ (MayCall(c)' => MayCall(c))
    /\ \/ late'[c] = late[c]
       \/ aborted /\ aborted' /\ MayCall(c) /\ ~MayCall(c)' /\ late'[c] = late[c] + 1
    /\ aborted' /\ ~aborted => pc[c] = "judging" /\ ~MayCall(c)'

LEMMA CellStepShape ==
    ASSUME TypeOK, Pending, NEW c \in Cells, CellStep(c)
    PROVE  StepOf(c)
<1> USE DEF sharedVars, historyVars, gradeVars, cellVars, StepOf, MayCall, Asking
<1>1. CASE StartCell(c)
  BY <1>1 DEF StartCell, ErrorCase, Goto, TypeOK
<1>2. CASE EnterLink(c)
  <2>1. CASE StopBetweenLinks(c)
    BY <1>2, <2>1 DEF EnterLink, Report, ErrorCase, Goto, TypeOK
  <2>2. CASE ~StopBetweenLinks(c)
    <3>1. link[c] = 1 \/ ~aborted
      BY <2>2 DEF StopBetweenLinks, TypeOK
    <3> QED
      BY <1>2, <2>2, <3>1 DEF EnterLink, Goto, TypeOK
  <2> QED
    BY <2>1, <2>2
<1>3. CASE Lookup(c)
  BY <1>3 DEF Lookup, Goto, TypeOK
<1>4. ASSUME NEW g \in OldGenerations, ClaimProbe(c, g) PROVE StepOf(c)
  <2>1. Claim[g] \in Asking /\ Read[g] \in Asking /\ AfterOld(c, g) \in Asking
    BY DEF Claim, Read, AfterOld, MissGoesTo, OldGenerations
  <2> QED
    BY <1>4, <2>1 DEF ClaimProbe, Goto, TypeOK
<1>5. ASSUME NEW g \in OldGenerations, ReadOld(c, g) PROVE StepOf(c)
  <2>1. Read[g] \in Asking /\ AfterOld(c, g) \in Asking
    BY DEF Claim, Read, AfterOld, MissGoesTo, OldGenerations
  <2>2. \E l \in {"store", "settle", AfterOld(c, g)} : Goto(c, l)
    <3> DEFINE l1 == IF Refiles(cache[OldKey(c, g)]) THEN "store" ELSE "settle"
               l2 == AfterOld(c, g)
    <3>1. Goto(c, l1) \/ Goto(c, l2)
      BY <1>5 DEF ReadOld
    <3>2. l1 \in {"store", "settle", l2} /\ l2 \in {"store", "settle", l2}
      OBVIOUS
    <3> HIDE DEF l1, l2
    <3>3. QED
      BY <3>1, <3>2 DEF l2
  <2> QED
    BY <1>5, <2>1, <2>2 DEF ReadOld, Goto, TypeOK
<1>6. CASE RefuseMiss(c)
  BY <1>6 DEF RefuseMiss, Goto, TypeOK
<1>7. CASE Call(c)
  BY <1>7 DEF Call, Goto, TypeOK
<1>8. CASE Answer(c)
  <2>1. \E l \in {"store", "settle"} : Goto(c, l)
    BY <1>8 DEF Answer
  <2> QED
    BY <1>8, <2>1 DEF Answer, Goto, TypeOK
<1>9. CASE Store(c)
  BY <1>9 DEF Store, Goto, TypeOK
<1>10. CASE Settle(c)
  <2>1. CASE link[c] < Last(c) /\ HandOff(out[c])
    <3>1. link' = [link EXCEPT ![c] = link[c] + 1] /\ Goto(c, "enter")
      BY <1>10, <2>1 DEF Settle
    <3>2. link[c] + 1 # 1
      BY DEF TypeOK
    <3> QED
      BY <1>10, <3>1, <3>2 DEF Settle, Goto, TypeOK
  <2>2. CASE ~(link[c] < Last(c) /\ HandOff(out[c]))
    <3>1. \E l \in {"done", "asserts"} : Goto(c, l)
      BY <1>10, <2>2 DEF Settle, Report, ErrorCase
    <3>2. UNCHANGED link
      BY <1>10, <2>2 DEF Settle
    <3> QED
      BY <1>10, <3>1, <3>2 DEF Settle, Goto, TypeOK
  <2> QED
    BY <2>1, <2>2
<1>11. CASE LocalAsserts(c)
  <2>1. \E n : todo' = [todo EXCEPT ![c] = n]
    BY <1>11 DEF LocalAsserts
  <2> QED
    BY <1>11, <2>1 DEF LocalAsserts, Goto, TypeOK
<1>12. CASE GradeNext(c)
  <2>1. CASE CannotGrade
    BY <1>12, <2>1 DEF GradeNext, TypeOK
  <2>2. CASE ~CannotGrade
    BY <1>12, <2>2 DEF GradeNext, Goto, TypeOK
  <2> QED
    BY <2>1, <2>2
<1>13. CASE Judged(c)
  <2>1. aborted => aborted'
    BY <1>13 DEF Judged
  <2> QED
    BY <1>13, <2>1 DEF Judged, Goto, TypeOK
<1>14. CASE Finish(c)
  BY <1>14 DEF Finish, Goto, TypeOK
<1> QED
  BY <1>1, <1>2, <1>3, <1>4, <1>5, <1>6, <1>7, <1>8, <1>9, <1>10, <1>11, <1>12,
     <1>13, <1>14 DEF CellStep

\* Sets of cells are finite.
LEMMA CellsFinite ==
    ASSUME NEW S \in SUBSET Cells
    PROVE  IsFiniteSet(S) /\ Cardinality(S) \in Nat
<1>0. NCells \in Int
  BY RunnerAssumption
<1>1. IsFiniteSet(1..NCells)
  BY <1>0, FS_Interval
<1>2. IsFiniteSet(S)
  BY <1>1, FS_Subset DEF Cells
<1> QED
  BY <1>2, FS_CardinalityType

LEMMA LossInit == Init => LossInv
<1> SUFFICES ASSUME Init PROVE LossInv
  OBVIOUS
<1>1. InFlight = {}
  BY DEF Init, InFlight
<1>2. Cardinality(InFlight) <= Concurrency
  BY <1>1, FS_EmptySet, RunnerAssumption
<1> QED
  BY <1>2, TypeInit DEF Init, LossInv, Pending

LEMMA LossStep ==
    ASSUME LossInv, [Next]_vars
    PROVE  LossInv'
<1>1. TypeOK'
  BY TypeStep DEF LossInv
<1>2. CASE UNCHANGED vars
  BY <1>1, <1>2 DEF LossInv, vars, cellVars, gradeVars, sharedVars, historyVars,
     Pending, InFlight, Losses, MayCall
<1>3. ASSUME NEW c \in Cells, CellStep(c) PROVE LossInv'
  <2>1. StepOf(c)
    BY <1>3, CellStepShape DEF LossInv
  <2>2. Pending'
    BY <2>1 DEF StepOf, LossInv, Pending
  <2>3. Cardinality(InFlight)' <= Concurrency
    <3>1. InFlight \subseteq Cells /\ InFlight' \subseteq Cells
      BY DEF InFlight
    <3>2. CASE pc[c] = "queued"
      <4>1. InFlight' \subseteq InFlight \cup {c} /\ InFlight \cup {c} \subseteq Cells
        BY <2>1, <3>1 DEF StepOf, InFlight
      <4>2. Cardinality(InFlight \cup {c}) <= Cardinality(InFlight) + 1
        BY <3>1, CellsFinite, FS_AddElement
      <4>3. Cardinality(InFlight') <= Cardinality(InFlight \cup {c})
        BY <4>1, CellsFinite, FS_Subset
      <4>4. Cardinality(InFlight) < Concurrency
        BY <2>1, <3>2 DEF StepOf
      <4> QED
        BY <3>1, <4>1, <4>2, <4>3, <4>4, CellsFinite, RunnerAssumption
    <3>3. CASE pc[c] # "queued"
      <4>1. InFlight' \subseteq InFlight
        BY <2>1, <3>3 DEF StepOf, InFlight
      <4>2. Cardinality(InFlight') <= Cardinality(InFlight)
        BY <3>1, <4>1, CellsFinite, FS_Subset
      <4> QED
        BY <3>1, <4>2, CellsFinite, RunnerAssumption DEF LossInv
    <3> QED
      BY <3>2, <3>3
  <2>4. \A d \in Cells : late'[d] > 0 => aborted' /\ ~MayCall(d)' /\ late'[d] = 1
    <3>1. ASSUME NEW d \in Cells, d # c, late'[d] > 0
          PROVE  aborted' /\ ~MayCall(d)' /\ late'[d] = 1
      <4>1. late[d] > 0 /\ late[d] = 1 /\ aborted /\ ~MayCall(d)
        BY <2>1, <3>1 DEF StepOf, LossInv
      <4> QED
        BY <2>1, <3>1, <4>1 DEF StepOf, MayCall
    <3>2. ASSUME late'[c] > 0
          PROVE  aborted' /\ ~MayCall(c)' /\ late'[c] = 1
      <4>1. CASE late'[c] = late[c]
        BY <2>1, <3>2, <4>1 DEF StepOf, LossInv
      <4>2. CASE late'[c] # late[c]
        <5>1. late[c] \in Nat /\ late'[c] = late[c] + 1 /\ MayCall(c) /\ ~MayCall(c)' /\ aborted'
          BY <2>1, <4>2 DEF StepOf, LossInv, TypeOK
        <5>2. late[c] = 0
          BY <5>1 DEF LossInv
        <5> QED
          BY <5>1, <5>2
      <4> QED
        BY <4>1, <4>2
    <3> QED
      BY <3>1, <3>2
  <2>5. ASSUME aborted' PROVE Cardinality(Losses)' < Concurrency
    <3>1. Losses \subseteq Cells /\ Losses' \subseteq Cells /\ InFlight \subseteq Cells
      BY DEF Losses, InFlight
    <3>2. CASE aborted
      <4>1. ASSUME NEW d \in Cells, d \in Losses' PROVE d \in Losses
        <5>1. CASE d # c
          BY <2>1, <4>1, <5>1 DEF StepOf, Losses, MayCall
        <5>2. CASE d = c
          BY <2>1, <3>2, <4>1, <5>2 DEF StepOf, Losses
        <5> QED
          BY <5>1, <5>2
      <4>2. Cardinality(Losses') <= Cardinality(Losses)
        BY <3>1, <4>1, CellsFinite, FS_Subset
      <4> QED
        BY <3>1, <3>2, <4>2, CellsFinite, RunnerAssumption DEF LossInv
    <3>3. CASE ~aborted
      <4>1. pc[c] = "judging" /\ ~MayCall(c)'
        BY <2>1, <2>5, <3>3 DEF StepOf
      <4>2. c \in InFlight
        BY <4>1 DEF InFlight
      <4>3. \A d \in Cells : late[d] = 0
        BY <3>3 DEF LossInv, TypeOK
      <4>4. late'[c] = 0
        BY <2>1, <3>3, <4>3 DEF StepOf
      <4>5. ASSUME NEW d \in Cells, d \in Losses' PROVE d \in InFlight \ {c}
        <5>1. d # c
          BY <4>1, <4>4, <4>5 DEF Losses
        <5>2. late'[d] = 0 /\ pc'[d] = pc[d]
          BY <2>1, <4>3, <5>1 DEF StepOf
        <5>3. pc[d] \notin {"queued", "done"}
          BY <4>5, <5>2 DEF Losses, MayCall, Asking
        <5> QED
          BY <5>1, <5>3 DEF InFlight
      <4>6. Cardinality(InFlight \ {c}) = Cardinality(InFlight) - 1
        BY <3>1, <4>2, CellsFinite, FS_RemoveElement
      <4>7. Cardinality(Losses') <= Cardinality(InFlight \ {c})
        BY <3>1, <4>5, CellsFinite, FS_Subset
      <4>8. Cardinality(InFlight) \in Nat /\ Cardinality(Losses') \in Nat
        BY <3>1, CellsFinite
      <4> QED
        BY <4>6, <4>7, <4>8, RunnerAssumption DEF LossInv
    <3> QED
      BY <3>2, <3>3
  <2> QED
    BY <1>1, <2>2, <2>3, <2>4, <2>5 DEF LossInv
<1> QED
  BY <1>2, <1>3 DEF Next

LEMMA LossImplies == LossInv => TypeOK /\ BoundedLoss
<1> SUFFICES ASSUME LossInv PROVE BoundedLoss
  BY DEF LossInv
<1> DEFINE Late == {c \in Cells : late[c] > 0}
<1>1. \A c \in Cells : late[c] <= 1
  BY DEF LossInv, TypeOK
<1>2. Late \subseteq Cells /\ Losses \subseteq Cells /\ Late \subseteq Losses
  BY DEF Losses
<1>3. Cardinality(Late) <= Cardinality(Losses)
  BY <1>2, CellsFinite, FS_Subset
<1>4. Cardinality(Late) < Concurrency
  <2>1. CASE aborted
    BY <2>1, <1>2, <1>3, CellsFinite, RunnerAssumption DEF LossInv
  <2>2. CASE ~aborted
    <3>1. Late = {}
      BY <2>2 DEF LossInv
    <3>2. Cardinality(Late) = 0
      BY <3>1, FS_EmptySet
    <3>3. Concurrency \in Nat /\ Concurrency # 0
      BY RunnerAssumption
    <3> QED
      BY <3>2, <3>3
  <2> QED
    BY <2>1, <2>2
<1> QED
  BY <1>1, <1>4 DEF BoundedLoss

\* Every reachable state is well typed, and exactly the finished cells have a
\* status, whatever the suite, the store and the answers are.
THEOREM TypeCorrect == Spec => []TypeOK
BY LossInit, LossStep, LossImplies, PTL DEF Spec

\* However many cells and fallback links there are, fewer than Concurrency calls
\* are begun after a grader's credential was rejected, at most one per cell.
THEOREM BoundedLossCorrect == Spec => []BoundedLoss
BY LossInit, LossStep, LossImplies, PTL DEF Spec

-----------------------------------------------------------------------------
(* Grading.                                                                *)

\* What NoUngradedPass needs of every cell: no verdict before the grading, and
\* while the case may still pass, each graded assert has its verdict or is
\* still to come.
GradedSoFar ==
    \A c \in Cells :
        /\ pc[c] \notin {"grade", "judging", "done"} => verdicts[c] = 0
        /\ pc[c] \in {"grade", "judging"} /\ passed[c] /\ ~erred[c] =>
              verdicts[c] + todo[c] = Graded[c]
        /\ status[c] \in {"pass", "xpass"} => verdicts[c] = Graded[c]

\* The steps before the grading leave what it counts alone.
LEMMA GradedQuiet ==
    ASSUME TypeOK, GradedSoFar, NEW c \in Cells,
           pc[c] \notin {"grade", "judging", "done"},
           UNCHANGED <<todo, passed, erred, verdicts>>,
           \A d \in Cells \ {c} : pc'[d] = pc[d] /\ status'[d] = status[d],
           pc'[c] \notin {"grade", "judging"},
           pc'[c] = "done" => status'[c] = "error",
           pc'[c] # "done" => status'[c] = status[c]
    PROVE  GradedSoFar'
<1> SUFFICES ASSUME NEW d \in Cells
             PROVE  /\ pc'[d] \notin {"grade", "judging", "done"} => verdicts'[d] = 0
                    /\ pc'[d] \in {"grade", "judging"} /\ passed'[d] /\ ~erred'[d] =>
                          verdicts'[d] + todo'[d] = Graded[d]
                    /\ status'[d] \in {"pass", "xpass"} => verdicts'[d] = Graded[d]
  BY DEF GradedSoFar
<1>1. CASE d # c
  BY <1>1 DEF GradedSoFar
<1>2. CASE d = c
  BY <1>2 DEF GradedSoFar
<1> QED
  BY <1>1, <1>2

\* Before the grading a cell's status is set only when it ends in an error.
LEMMA AskingShape ==
    ASSUME TypeOK, NEW c \in Cells,
           \/ StartCell(c) \/ EnterLink(c) \/ Lookup(c)
           \/ \E g \in OldGenerations : ClaimProbe(c, g) \/ ReadOld(c, g)
           \/ RefuseMiss(c) \/ Call(c) \/ Answer(c) \/ Store(c) \/ Settle(c)
    PROVE  /\ pc[c] \notin {"grade", "judging", "done", "asserts"}
           /\ UNCHANGED <<todo, passed, erred, verdicts>>
           /\ \A d \in Cells \ {c} : pc'[d] = pc[d] /\ status'[d] = status[d]
           /\ pc'[c] \notin {"grade", "judging"}
           /\ pc'[c] = "done" => status'[c] = "error"
           /\ pc'[c] # "done" => status'[c] = status[c]
<1> DEFINE Shape ==
           /\ pc[c] \notin {"grade", "judging", "done", "asserts"}
           /\ UNCHANGED <<todo, passed, erred, verdicts>>
           /\ \A d \in Cells \ {c} : pc'[d] = pc[d] /\ status'[d] = status[d]
           /\ pc'[c] \notin {"grade", "judging"}
           /\ pc'[c] = "done" => status'[c] = "error"
           /\ pc'[c] # "done" => status'[c] = status[c]
<1> USE DEF sharedVars, historyVars, gradeVars, cellVars
<1>1. CASE StartCell(c)
  BY <1>1 DEF StartCell, ErrorCase, Goto, TypeOK
<1>2. CASE EnterLink(c)
  <2>1. \/ ErrorCase(c, primary[c])
        \/ /\ \E l \in {"asserts", "lookup", "call"} : Goto(c, l)
           /\ UNCHANGED status
    BY <1>2 DEF EnterLink, Report
  <2> QED
    BY <1>2, <2>1 DEF EnterLink, ErrorCase, Goto, TypeOK
<1>3. CASE Lookup(c)
  BY <1>3 DEF Lookup, Goto, TypeOK
<1>4. ASSUME NEW g \in OldGenerations, ClaimProbe(c, g) PROVE Shape
  <2>1. \E l \in {"read_canonical", "read_fingerprint", "claim_fingerprint", "miss", "call"} : Goto(c, l)
    BY <1>4 DEF ClaimProbe, Read, Claim, AfterOld, MissGoesTo, OldGenerations
  <2>2. pc[c] \in {"claim_canonical", "claim_fingerprint"}
    BY <1>4 DEF ClaimProbe, Claim, OldGenerations
  <2> QED
    BY <1>4, <2>1, <2>2 DEF ClaimProbe, Goto, TypeOK
<1>5. ASSUME NEW g \in OldGenerations, ReadOld(c, g) PROVE Shape
  <2>1. AfterOld(c, g) \in {"claim_fingerprint", "miss", "call"}
    BY DEF Claim, AfterOld, MissGoesTo
  <2>2. \E l \in {"store", "settle", "claim_fingerprint", "miss", "call"} : Goto(c, l)
    <3> DEFINE l1 == IF Refiles(cache[OldKey(c, g)]) THEN "store" ELSE "settle"
               l2 == AfterOld(c, g)
    <3>1. Goto(c, l1) \/ Goto(c, l2)
      BY <1>5 DEF ReadOld
    <3>2. l1 \in {"store", "settle"} /\ l2 \in {"claim_fingerprint", "miss", "call"}
      BY <2>1
    <3> HIDE DEF l1, l2
    <3> QED
      BY <3>1, <3>2
  <2>3. pc[c] \in {"read_canonical", "read_fingerprint"}
    BY <1>5 DEF ReadOld, Read, OldGenerations
  <2> QED
    BY <1>5, <2>2, <2>3 DEF ReadOld, Goto, TypeOK
<1>6. CASE RefuseMiss(c)
  BY <1>6 DEF RefuseMiss, Goto, TypeOK
<1>7. CASE Call(c)
  BY <1>7 DEF Call, Goto, TypeOK
<1>8. CASE Answer(c)
  <2>1. \E l \in {"store", "settle"} : Goto(c, l)
    BY <1>8 DEF Answer
  <2> QED
    BY <1>8, <2>1 DEF Answer, Goto, TypeOK
<1>9. CASE Store(c)
  BY <1>9 DEF Store, Goto, TypeOK
<1>10. CASE Settle(c)
  <2>1. \/ \E o : ErrorCase(c, o)
        \/ /\ \E l \in {"asserts", "enter"} : Goto(c, l)
           /\ UNCHANGED status
    BY <1>10 DEF Settle, Report
  <2> QED
    BY <1>10, <2>1 DEF Settle, ErrorCase, Goto, TypeOK
<1> QED
  BY <1>1, <1>2, <1>3, <1>4, <1>5, <1>6, <1>7, <1>8, <1>9, <1>10

LEMMA GradedStep ==
    ASSUME TypeOK, GradedSoFar, [Next]_vars
    PROVE  GradedSoFar'
<1> USE DEF sharedVars, historyVars, gradeVars, cellVars
<1>1. CASE UNCHANGED vars
  BY <1>1 DEF vars, GradedSoFar
<1>2. ASSUME NEW c \in Cells, CellStep(c) PROVE GradedSoFar'
  <2>1. CASE \/ StartCell(c) \/ EnterLink(c) \/ Lookup(c)
             \/ \E g \in OldGenerations : ClaimProbe(c, g) \/ ReadOld(c, g)
             \/ RefuseMiss(c) \/ Call(c) \/ Answer(c) \/ Store(c) \/ Settle(c)
    BY <2>1, AskingShape, GradedQuiet
  <2>2. CASE LocalAsserts(c)
    <3>1. PICK outcome \in {"pass", "fail", "unevaluable"} :
            /\ passed' = [passed EXCEPT ![c] = outcome = "pass"]
            /\ erred' = [erred EXCEPT ![c] = outcome = "unevaluable"]
            /\ todo' = [todo EXCEPT ![c] = IF ShortCircuit /\ outcome # "pass" THEN 0 ELSE Graded[c]]
      BY <2>2 DEF LocalAsserts
    <3>2. /\ pc[c] = "asserts" /\ pc' = [pc EXCEPT ![c] = "grade"]
          /\ UNCHANGED <<status, verdicts>>
      BY <2>2 DEF LocalAsserts, Goto
    <3>3. Graded[c] \in Nat /\ verdicts[c] = 0 /\ status[c] = None
      BY <3>2, RunnerAssumption DEF GradedSoFar, TypeOK
    <3>4. passed'[c] => todo'[c] = Graded[c]
      BY <3>1 DEF TypeOK
    <3>5. \A d \in Cells \ {c} : passed'[d] = passed[d] /\ erred'[d] = erred[d] /\ todo'[d] = todo[d]
      BY <3>1 DEF TypeOK
    <3> QED
      BY <3>2, <3>3, <3>4, <3>5, SMTT(30) DEF GradedSoFar, TypeOK, None
  <2>3. CASE GradeNext(c)
    BY <2>3 DEF GradeNext, Goto, GradedSoFar, TypeOK, ErrorRecorded, TodoLess
  <2>4. CASE Judged(c)
    <3>1. /\ pc[c] = "judging" /\ pc' = [pc EXCEPT ![c] = "grade"]
          /\ todo' = [todo EXCEPT ![c] = todo[c] - 1]
          /\ UNCHANGED status
      BY <2>4 DEF Judged, Goto, TodoLess
    <3>2. CASE verdicts' = [verdicts EXCEPT ![c] = @ + 1] /\ UNCHANGED erred
               /\ \E ok \in BOOLEAN : passed' = [passed EXCEPT ![c] = @ /\ ok]
      <4>1. PICK ok \in BOOLEAN : passed' = [passed EXCEPT ![c] = passed[c] /\ ok]
        BY <3>2
      <4>2. passed \in [Cells -> BOOLEAN]
        BY DEF TypeOK
      <4>3. passed'[c] = (passed[c] /\ ok)
        BY <4>1, <4>2
      <4>4. passed'[c] => passed[c]
        BY <4>3
      <4>5. \A d \in Cells \ {c} : passed'[d] = passed[d]
        BY <4>1, <4>2
      <4>6. /\ verdicts'[c] + todo'[c] = verdicts[c] + todo[c]
            /\ erred' = erred /\ pc'[c] = "grade" /\ status[c] = None /\ status' = status
        <5>1. verdicts[c] \in Nat /\ todo[c] \in Nat /\ status[c] = None
          BY <3>1 DEF TypeOK
        <5>2. verdicts'[c] = verdicts[c] + 1 /\ todo'[c] = todo[c] - 1 /\ pc'[c] = "grade"
          BY <3>1, <3>2 DEF TypeOK
        <5> QED
          BY <3>1, <3>2, <5>1, <5>2
      <4>7. \A d \in Cells \ {c} : verdicts'[d] = verdicts[d] /\ todo'[d] = todo[d] /\ pc'[d] = pc[d]
        BY <3>1, <3>2 DEF TypeOK
      <4>8. passed'[c] /\ ~erred'[c] => verdicts'[c] + todo'[c] = Graded[c]
        BY <3>1, <4>4, <4>6 DEF GradedSoFar
      <4> QED
        BY <4>5, <4>6, <4>7, <4>8 DEF GradedSoFar, None
    <3>3. CASE erred' = [erred EXCEPT ![c] = TRUE] /\ UNCHANGED <<passed, verdicts>>
      BY <3>1, <3>3 DEF GradedSoFar, TypeOK, None
    <3> QED
      BY <2>4, <3>2, <3>3 DEF Judged
  <2>5. CASE Finish(c)
    <3>1. /\ pc[c] = "grade" /\ todo[c] = 0 /\ pc' = [pc EXCEPT ![c] = "done"]
          /\ status' = [status EXCEPT ![c] = CaseStatus(c)]
          /\ UNCHANGED <<todo, passed, erred, verdicts>>
      BY <2>5 DEF Finish, Goto
    <3>2. CaseStatus(c) \in {"pass", "xpass"} => passed[c] /\ ~erred[c]
      BY DEF CaseStatus
    <3>3. verdicts[c] \in Nat
      BY DEF TypeOK
    <3> QED
      BY <3>1, <3>2, <3>3 DEF GradedSoFar, TypeOK
  <2> QED
    BY <1>2, <2>1, <2>2, <2>3, <2>4, <2>5 DEF CellStep
<1> QED
  BY <1>1, <1>2 DEF Next

\* A case passes only when every graded assert of it got a verdict, whatever
\* happens to the run, the grader and the other cells.
THEOREM NoUngradedPassCorrect == Spec => []NoUngradedPass
<1>1. Init => GradedSoFar
  BY DEF Init, GradedSoFar, None
<1>2. TypeOK /\ GradedSoFar /\ [Next]_vars => GradedSoFar'
  BY GradedStep
<1>3. GradedSoFar => NoUngradedPass
  BY DEF GradedSoFar, NoUngradedPass
<1> QED
  BY <1>1, <1>2, <1>3, TypeCorrect, PTL DEF Spec

-----------------------------------------------------------------------------
(* Fallback chains.                                                        *)

\* The links before the next one are those before this one, and this one.
LEMMA LinksBeforeNext ==
    ASSUME NEW S, NEW s \in Seq(S), NEW n \in 1..Len(s)
    PROVE  Append(SubSeq(s, 1, n - 1), s[n]) = SubSeq(s, 1, n)
<1>1. /\ SubSeq(s, 1, n - 1) \in Seq(S) /\ SubSeq(s, 1, n) \in Seq(S)
      /\ Len(SubSeq(s, 1, n - 1)) = n - 1 /\ Len(SubSeq(s, 1, n)) = n
      /\ \A i \in 1..(n - 1) : SubSeq(s, 1, n - 1)[i] = s[i]
      /\ \A i \in 1..n : SubSeq(s, 1, n)[i] = s[i]
  OBVIOUS
<1>2. s[n] \in S
  OBVIOUS
<1>3. \A i \in 1..n : Append(SubSeq(s, 1, n - 1), s[n])[i] = s[i]
  BY <1>1, <1>2
<1>4. Append(SubSeq(s, 1, n - 1), s[n]) \in Seq(S) /\ Len(Append(SubSeq(s, 1, n - 1), s[n])) = n
  BY <1>1, <1>2
<1> QED
  BY <1>1, <1>3, <1>4, SeqEqual

LEMMA NoLinksBeforeFirst ==
    ASSUME NEW S, NEW s \in Seq(S)
    PROVE  SubSeq(s, 1, 0) = <<>>
OBVIOUS

-----------------------------------------------------------------------------
(* The chain of fallbacks.                                                 *)

Settled == {"asserts", "grade", "judging", "done"}

\* What NeverWorse needs of every cell: while it walks its chain it lists the
\* links before the one it is at, and what it is about to settle on came from
\* that link.
Walked ==
    \A c \in Cells :
        /\ pc[c] = "queued" => link[c] = 1
        /\ pc[c] \notin Settled => attempted[c] = SubSeq(Chain[c], 1, link[c] - 1)
        /\ pc[c] \in {"store", "settle"} => out[c].by = Provider(c)
        /\ pc[c] \in Settled /\ link[c] > 1 =>
              \/ report[c] = primary[c] /\ attempted[c] = <<>>
              \/ /\ ~Failed(report[c]) /\ ~HandOff(report[c])
                 /\ report[c].by = Provider(c)
                 /\ attempted[c] = SubSeq(Chain[c], 1, link[c] - 1)

\* A step that stays on its link: it may set the outcome of the link.
LEMMA WalkedStays ==
    ASSUME TypeOK, Walked, NEW c \in Cells, NEW l \in Labels \ {"queued"},
           pc[c] \notin Settled, l \notin Settled, Goto(c, l),
           l \in {"store", "settle"} => out'[c].by = Provider(c),
           \A d \in Cells \ {c} : out'[d] = out[d],
           UNCHANGED <<link, primary, attempted, report>>
    PROVE  Walked'
<1>1. pc'[c] = l /\ \A d \in Cells \ {c} : pc'[d] = pc[d]
  BY DEF TypeOK, Goto
<1> QED
  BY <1>1 DEF Walked, Provider, Settled, Failed, HandOff

\* A step of a cell that has settled.
LEMMA WalkedSettled ==
    ASSUME TypeOK, Walked, NEW c \in Cells, pc[c] \in Settled, pc'[c] \in Settled,
           \A d \in Cells \ {c} : pc'[d] = pc[d],
           UNCHANGED <<link, out, primary, attempted, report>>
    PROVE  Walked'
BY DEF Walked, Provider, Settled, Failed, HandOff

\* The chain settles: on the primary, or on this link.
LEMMA WalkedReports ==
    ASSUME TypeOK, Walked, NEW c \in Cells, pc[c] \notin Settled, NEW o \in Outcomes, Report(c, o),
           UNCHANGED <<link, out, primary>>,
           \A d \in Cells \ {c} : attempted'[d] = attempted[d],
           link[c] > 1 =>
              \/ o = primary[c] /\ attempted'[c] = <<>>
              \/ /\ ~Failed(o) /\ ~HandOff(o) /\ o.by = Provider(c)
                 /\ attempted'[c] = SubSeq(Chain[c], 1, link[c] - 1)
    PROVE  Walked'
<1>1. /\ pc'[c] \in Settled /\ report'[c] = o
      /\ \A d \in Cells \ {c} : pc'[d] = pc[d] /\ report'[d] = report[d]
  BY DEF Report, ErrorCase, Goto, TypeOK, Settled
<1> QED
  BY <1>1 DEF Walked, Provider, Settled, Failed, HandOff

LEMMA WalkedStep ==
    ASSUME TypeOK, Walked, [Next]_vars
    PROVE  Walked'
<1> USE DEF sharedVars, historyVars, gradeVars, cellVars
<1>1. CASE UNCHANGED vars
  BY <1>1 DEF vars, Walked, Provider, Failed, HandOff
<1>2. ASSUME NEW c \in Cells, CellStep(c) PROVE Walked'
  <2>0. Provider(c) \in Providers /\ Chain[c] \in Seq(Providers) /\ link[c] \in 1..Len(Chain[c])
        /\ out[c] \in Outcomes /\ primary[c] \in Outcomes
    BY ProviderType, RunnerAssumption DEF TypeOK
  <2>1. CASE StartCell(c)
    <3>1. CASE pc' = [pc EXCEPT ![c] = "enter"] /\ UNCHANGED report
      BY <2>1, <3>1 DEF StartCell, Walked, Provider, Settled, Failed, HandOff, TypeOK
    <3>2. CASE \E o : ErrorCase(c, o)
      <4>1. /\ pc'[c] = "done" /\ link[c] = 1
            /\ \A d \in Cells \ {c} : pc'[d] = pc[d] /\ report'[d] = report[d]
            /\ UNCHANGED <<link, out, primary, attempted>>
        BY <2>1, <3>2 DEF StartCell, ErrorCase, Goto, TypeOK, Walked
      <4> QED
        BY <4>1 DEF Walked, Provider, Settled, Failed, HandOff
    <3> QED
      BY <2>1, <3>1, <3>2 DEF StartCell, Goto
  <2>2. CASE EnterLink(c)
    <3>1. CASE StopBetweenLinks(c)
      <4>1. attempted'[c] = <<>> /\ \A d \in Cells \ {c} : attempted'[d] = attempted[d]
        BY <2>2, <3>1 DEF EnterLink, TypeOK
      <4>2. Report(c, primary[c]) /\ pc[c] \notin Settled /\ UNCHANGED <<link, out, primary>>
        BY <2>2, <3>1 DEF EnterLink, Settled
      <4> QED
        BY <2>0, <4>1, <4>2, WalkedReports
    <3>2. CASE ~StopBetweenLinks(c)
      <4>1. \E l \in {"lookup", "call"} : Goto(c, l)
        BY <2>2, <3>2 DEF EnterLink
      <4>2. pc[c] \notin Settled /\ UNCHANGED <<link, out, primary, attempted, report>>
        BY <2>2, <3>2 DEF EnterLink, Settled
      <4> QED
        BY <4>1, <4>2, WalkedStays DEF Labels, Settled
    <3> QED
      BY <3>1, <3>2
  <2>3. CASE Lookup(c)
    <3>1. \/ Goto(c, "settle") /\ out'[c].by = Provider(c)
          \/ Goto(c, "claim_canonical")
      BY <2>3 DEF Lookup, Response, Failure, TypeOK
    <3>2. \A d \in Cells \ {c} : out'[d] = out[d]
      BY <2>3 DEF Lookup, TypeOK
    <3>3. pc[c] \notin Settled /\ UNCHANGED <<link, primary, attempted, report>>
      BY <2>3 DEF Lookup, Settled
    <3> QED
      BY <3>1, <3>2, <3>3, WalkedStays DEF Labels, Settled
  <2>4. ASSUME NEW g \in OldGenerations, ClaimProbe(c, g) PROVE Walked'
    <3>1. \E l \in {"read_canonical", "read_fingerprint", "claim_fingerprint", "miss", "call"} : Goto(c, l)
      BY <2>4 DEF ClaimProbe, Read, Claim, AfterOld, MissGoesTo, OldGenerations
    <3>2. pc[c] \notin Settled /\ UNCHANGED <<link, out, primary, attempted, report>>
      BY <2>4 DEF ClaimProbe, Claim, OldGenerations, Settled
    <3> QED
      BY <3>1, <3>2, WalkedStays DEF Labels, Settled
  <2>5. ASSUME NEW g \in OldGenerations, ReadOld(c, g) PROVE Walked'
    <3>1. /\ pc[c] \notin Settled /\ UNCHANGED <<link, primary, attempted, report>>
          /\ AfterOld(c, g) \in {"claim_fingerprint", "miss", "call"}
      BY <2>5 DEF ReadOld, Read, OldGenerations, Settled, AfterOld, Claim, MissGoesTo
    <3>2. CASE out' = [out EXCEPT ![c] = Response(cache[OldKey(c, g)], TRUE, Provider(c))]
               /\ Goto(c, IF Refiles(cache[OldKey(c, g)]) THEN "store" ELSE "settle")
      <4>1. out'[c].by = Provider(c) /\ \A d \in Cells \ {c} : out'[d] = out[d]
        BY <3>2 DEF Response, TypeOK
      <4>2. \E l \in {"store", "settle"} : Goto(c, l)
        BY <3>2
      <4> QED
        BY <3>1, <4>1, <4>2, WalkedStays DEF Labels, Settled
    <3>3. CASE Goto(c, AfterOld(c, g)) /\ UNCHANGED out
      BY <3>1, <3>3, WalkedStays DEF Labels, Settled
    <3> QED
      BY <2>5, <3>2, <3>3 DEF ReadOld
  <2>6. CASE RefuseMiss(c)
    <3>1. /\ Goto(c, "settle") /\ out'[c].by = Provider(c)
          /\ \A d \in Cells \ {c} : out'[d] = out[d]
          /\ pc[c] \notin Settled /\ UNCHANGED <<link, primary, attempted, report>>
      BY <2>6 DEF RefuseMiss, Failure, TypeOK, Settled
    <3> QED
      BY <3>1, WalkedStays DEF Labels, Settled
  <2>7. CASE Call(c)
    <3>1. /\ Goto(c, "live") /\ pc[c] \notin Settled
          /\ UNCHANGED <<link, out, primary, attempted, report>>
      BY <2>7 DEF Call, Settled
    <3> QED
      BY <3>1, WalkedStays DEF Labels, Settled
  <2>8. CASE Answer(c)
    <3>1. \E l \in {"store", "settle"} : Goto(c, l)
      BY <2>8 DEF Answer
    <3>2. out'[c].by = Provider(c) /\ \A d \in Cells \ {c} : out'[d] = out[d]
      BY <2>8 DEF Answer, Response, Failure, TypeOK
    <3>3. pc[c] \notin Settled /\ UNCHANGED <<link, primary, attempted, report>>
      BY <2>8 DEF Answer, Settled
    <3> QED
      BY <3>1, <3>2, <3>3, WalkedStays DEF Labels, Settled
  <2>9. CASE Store(c)
    <3>1. /\ Goto(c, "settle") /\ out[c].by = Provider(c) /\ pc[c] \notin Settled
          /\ UNCHANGED <<link, out, primary, attempted, report>>
      BY <2>9 DEF Store, Walked, Settled
    <3> QED
      BY <3>1, WalkedStays DEF Labels, Settled
  <2>10. CASE Settle(c)
    <3>0. /\ pc[c] = "settle" /\ out[c].by = Provider(c) /\ UNCHANGED out
          /\ attempted[c] = SubSeq(Chain[c], 1, link[c] - 1)
      BY <2>10 DEF Settle, Walked, Settled
    <3>1. CASE link[c] < Last(c) /\ HandOff(out[c])
      <4>1. /\ attempted' = [attempted EXCEPT ![c] = Append(attempted[c], Provider(c))]
            /\ link' = [link EXCEPT ![c] = link[c] + 1]
            /\ primary' = IF link[c] = 1 THEN [primary EXCEPT ![c] = out[c]] ELSE primary
            /\ pc' = [pc EXCEPT ![c] = "enter"] /\ UNCHANGED report
        BY <2>10, <3>1 DEF Settle, Goto
      <4>2. Append(attempted[c], Provider(c)) = SubSeq(Chain[c], 1, link[c])
        BY <2>0, <3>0, LinksBeforeNext DEF Provider
      <4>3. /\ attempted'[c] = SubSeq(Chain[c], 1, link'[c] - 1) /\ pc'[c] = "enter"
            /\ \A d \in Cells \ {c} : /\ attempted'[d] = attempted[d] /\ link'[d] = link[d]
                                      /\ primary'[d] = primary[d] /\ pc'[d] = pc[d]
        <5>1. link'[c] - 1 = link[c] /\ attempted'[c] = Append(attempted[c], Provider(c)) /\ pc'[c] = "enter"
          BY <2>0, <4>1 DEF TypeOK
        <5>2. \A d \in Cells \ {c} : /\ attempted'[d] = attempted[d] /\ link'[d] = link[d]
                                      /\ primary'[d] = primary[d] /\ pc'[d] = pc[d]
          BY <4>1 DEF TypeOK
        <5> QED
          BY <4>2, <5>1, <5>2
      <4>4. report' = report /\ out' = out
        BY <3>0, <4>1
      <4> QED
        BY <4>3, <4>4 DEF Walked, Provider, Settled, Failed, HandOff
    <3>2. CASE ~(link[c] < Last(c) /\ HandOff(out[c]))
      <4> DEFINE o == IF NeverImproved(c) THEN primary[c] ELSE out[c]
      <4>1. Report(c, o) /\ o \in Outcomes /\ UNCHANGED <<link, primary>>
        BY <2>0, <2>10, <3>2 DEF Settle
      <4>2. /\ \A d \in Cells \ {c} : attempted'[d] = attempted[d]
            /\ link[c] > 1 => \/ o = primary[c] /\ attempted'[c] = <<>>
                              \/ /\ ~Failed(o) /\ ~HandOff(o) /\ o.by = Provider(c)
                                 /\ attempted'[c] = SubSeq(Chain[c], 1, link[c] - 1)
        BY <2>10, <3>0, <3>2 DEF Settle, NeverImproved, TypeOK
      <4> HIDE DEF o
      <4> QED
        BY <3>0, <4>1, <4>2, WalkedReports DEF Settled
    <3> QED
      BY <3>1, <3>2
  <2>11. CASE LocalAsserts(c) \/ GradeNext(c) \/ Judged(c) \/ Finish(c)
    <3>1. /\ pc[c] \in Settled /\ pc'[c] \in Settled
          /\ \A d \in Cells \ {c} : pc'[d] = pc[d]
      BY <2>11 DEF LocalAsserts, GradeNext, Judged, Finish, Goto, TypeOK, Settled
    <3>2. UNCHANGED <<link, out, primary, attempted, report>>
      BY <2>11 DEF LocalAsserts, GradeNext, Judged, Finish
    <3> QED
      BY <3>1, <3>2, WalkedSettled
  <2> QED
    BY <1>2, <2>1, <2>2, <2>3, <2>4, <2>5, <2>6, <2>7, <2>8, <2>9, <2>10, <2>11 DEF CellStep
<1> QED
  BY <1>1, <1>2 DEF Next

\* A fallback chain of any length reports the primary's own outcome unless a
\* link answered, and lists exactly the links before the one that did.
THEOREM NeverWorseCorrect == Spec => []NeverWorse
<1>1. Init => Walked
  <2> SUFFICES ASSUME Init PROVE Walked
    OBVIOUS
  <2>1. \A c \in Cells : SubSeq(Chain[c], 1, 0) = <<>>
    BY RunnerAssumption, NoLinksBeforeFirst
  <2> QED
    BY <2>1 DEF Init, Walked, Settled
<1>2. TypeOK /\ Walked /\ [Next]_vars => Walked'
  BY WalkedStep
<1>3. Walked => NeverWorse
  BY DEF Walked, NeverWorse, Settled
<1> QED
  BY <1>1, <1>2, <1>3, TypeCorrect, PTL DEF Spec

-----------------------------------------------------------------------------
(* Replays.                                                                *)

\* A store holds what a replayed outcome of the cell says.
HeldIn(store, c, o) ==
    o.cached => /\ o.reply # None
                /\ \E g \in {"today"} \cup OldGenerations :
                      store[<<g, Request[c], o.by>>] = o.reply

\* What ReplayMatchesStore needs: the outcomes a cell may come to report.
Replayed ==
    \A c \in Cells :
        \A o \in {out[c], primary[c], report[c]} : HeldIn(cache, c, o)

\* An entry that is there stays as it is.
Grows == \A k \in Keys : cache[k] # None => cache'[k] = cache[k]

LEMMA OutcomeKeys ==
    ASSUME NEW c \in Cells, NEW o \in Outcomes, NEW g \in {"today"} \cup OldGenerations
    PROVE  <<g, Request[c], o.by>> \in Keys
BY DEF Keys, Outcomes

LEMMA HeldStays ==
    ASSUME Grows, NEW c \in Cells, NEW o \in Outcomes, HeldIn(cache, c, o)
    PROVE  HeldIn(cache', c, o)
<1> SUFFICES ASSUME o.cached
             PROVE  /\ o.reply # None
                    /\ \E g \in {"today"} \cup OldGenerations :
                          cache'[<<g, Request[c], o.by>>] = o.reply
  BY DEF HeldIn
<1>1. PICK g \in {"today"} \cup OldGenerations : cache[<<g, Request[c], o.by>>] = o.reply
  BY DEF HeldIn
<1>2. o.reply # None /\ <<g, Request[c], o.by>> \in Keys
  BY OutcomeKeys DEF HeldIn
<1> QED
  BY <1>1, <1>2 DEF Grows

\* Outcomes are set from held ones, or from what is not a replay.
LEMMA ReplayedFrom ==
    ASSUME TypeOK, Replayed, Grows,
           \A c \in Cells :
              /\ out'[c] = out[c] \/ ~out'[c].cached \/ HeldIn(cache', c, out'[c])
              /\ primary'[c] \in {primary[c], out[c]}
              /\ report'[c] \in {report[c], primary[c], out[c]} \/ ~report'[c].cached
    PROVE  Replayed'
<1> SUFFICES ASSUME NEW c \in Cells
             PROVE  /\ HeldIn(cache', c, out'[c])
                    /\ HeldIn(cache', c, primary'[c])
                    /\ HeldIn(cache', c, report'[c])
  BY DEF Replayed
<1>1. out[c] \in Outcomes /\ primary[c] \in Outcomes /\ report[c] \in Outcomes
  BY DEF TypeOK
<1>2. \A o \in {out[c], primary[c], report[c]} : HeldIn(cache', c, o)
  BY <1>1, HeldStays DEF Replayed
<1>3. \A o : ~o.cached => HeldIn(cache', c, o)
  BY DEF HeldIn
<1> QED
  BY <1>2, <1>3

LEMMA ReplayedStep ==
    ASSUME TypeOK, Replayed, [Next]_vars
    PROVE  Replayed'
<1> USE DEF sharedVars, historyVars, gradeVars, cellVars
<1>1. CASE UNCHANGED vars
  BY <1>1 DEF vars, Replayed, HeldIn
<1>2. ASSUME NEW c \in Cells, CellStep(c) PROVE Replayed'
  <2>0. Provider(c) \in Providers /\ Key(c) \in Keys
        /\ \A g \in OldGenerations : OldKey(c, g) \in Keys
    BY ProviderType
  <2>1. CASE StartCell(c)
    <3>1. UNCHANGED <<out, primary, cache>>
      BY <2>1 DEF StartCell
    <3>2. \A d \in Cells : report'[d] = report[d] \/ ~report'[d].cached
      BY <2>1 DEF StartCell, ErrorCase, Failure, TypeOK
    <3> QED
      BY <3>1, <3>2, ReplayedFrom DEF Grows
  <2>2. CASE EnterLink(c)
    <3>1. UNCHANGED <<out, primary, cache>>
      BY <2>2 DEF EnterLink
    <3>2. \A d \in Cells : report'[d] \in {report[d], primary[d]}
      BY <2>2 DEF EnterLink, Report, ErrorCase, TypeOK
    <3> QED
      BY <3>1, <3>2, ReplayedFrom DEF Grows
  <2>3. CASE Lookup(c)
    <3>1. UNCHANGED <<primary, report, cache>>
      BY <2>3 DEF Lookup
    <3>2. ASSUME NEW d \in Cells PROVE out'[d] = out[d] \/ ~out'[d].cached \/ HeldIn(cache', d, out'[d])
      <4>1. \/ out'[d] = out[d]
            \/ d = c /\ out'[d] = Failure("cache_unavailable", Provider(c))
            \/ /\ d = c /\ cache[Key(c)] # None
               /\ out'[d] = Response(cache[Key(c)], TRUE, Provider(c))
        BY <2>3 DEF Lookup, TypeOK
      <4> QED
        BY <3>1, <4>1 DEF HeldIn, Failure, Response, Key
    <3> QED
      BY <3>1, <3>2, ReplayedFrom DEF Grows
  <2>4. ASSUME NEW g \in OldGenerations, ClaimProbe(c, g) PROVE Replayed'
    BY <2>4, ReplayedFrom DEF ClaimProbe, Grows
  <2>5. ASSUME NEW g \in OldGenerations, ReadOld(c, g) PROVE Replayed'
    <3>1. UNCHANGED <<primary, report, cache>>
      BY <2>5 DEF ReadOld
    <3>2. ASSUME NEW d \in Cells PROVE out'[d] = out[d] \/ ~out'[d].cached \/ HeldIn(cache', d, out'[d])
      <4>1. \/ out'[d] = out[d]
            \/ /\ d = c /\ cache[OldKey(c, g)] # None
               /\ out'[d] = Response(cache[OldKey(c, g)], TRUE, Provider(c))
        BY <2>5 DEF ReadOld, TypeOK
      <4>2. ASSUME d = c, cache[OldKey(c, g)] # None,
                   out'[d] = Response(cache[OldKey(c, g)], TRUE, Provider(c))
            PROVE  HeldIn(cache', d, out'[d])
        <5>1. /\ out'[d].reply = cache[OldKey(c, g)]
              /\ out'[d].by = Provider(c)
          BY <4>2 DEF Response
        <5>2. cache'[<<g, Request[d], out'[d].by>>] = out'[d].reply
          BY <3>1, <4>2, <5>1 DEF OldKey
        <5> QED
          BY <4>2, <5>1, <5>2 DEF HeldIn
      <4> QED
        BY <4>1, <4>2
    <3> QED
      BY <3>1, <3>2, ReplayedFrom DEF Grows
  <2>6. CASE RefuseMiss(c)
    <3>1. \A d \in Cells : out'[d] = out[d] \/ ~out'[d].cached
      BY <2>6 DEF RefuseMiss, Failure, TypeOK
    <3> QED
      BY <2>6, <3>1, ReplayedFrom DEF RefuseMiss, Grows
  <2>7. CASE Call(c)
    BY <2>7, ReplayedFrom DEF Call, Grows
  <2>8. CASE Answer(c)
    <3>1. \A d \in Cells : out'[d] = out[d] \/ ~out'[d].cached
      BY <2>8 DEF Answer, Failure, Response, TypeOK
    <3>2. UNCHANGED <<primary, report, cache>>
      BY <2>8 DEF Answer
    <3> QED
      BY <3>1, <3>2, ReplayedFrom DEF Grows
  <2>9. CASE Store(c)
    <3>1. Grows
      BY <2>0, <2>9 DEF Store, Put, Grows, TypeOK
    <3>2. UNCHANGED <<out, primary, report>>
      BY <2>9 DEF Store
    <3> QED
      BY <3>1, <3>2, ReplayedFrom
  <2>10. CASE Settle(c)
    <3>1. UNCHANGED <<out, cache>>
      BY <2>10 DEF Settle
    <3>2. \A d \in Cells : primary'[d] \in {primary[d], out[d]}
      BY <2>10 DEF Settle, TypeOK
    <3>3. \A d \in Cells : report'[d] \in {report[d], primary[d], out[d]}
      BY <2>10 DEF Settle, Report, ErrorCase, TypeOK
    <3> QED
      BY <3>1, <3>2, <3>3, ReplayedFrom DEF Grows
  <2>11. CASE LocalAsserts(c) \/ GradeNext(c) \/ Judged(c) \/ Finish(c)
    <3>1. UNCHANGED <<out, primary, report, cache>>
      BY <2>11 DEF LocalAsserts, GradeNext, Judged, Finish
    <3> QED
      BY <3>1, ReplayedFrom DEF Grows
  <2> QED
    BY <1>2, <2>1, <2>2, <2>3, <2>4, <2>5, <2>6, <2>7, <2>8, <2>9, <2>10, <2>11 DEF CellStep
<1> QED
  BY <1>1, <1>2 DEF Next

\* A replayed answer is what the store still holds under a key of the cell that
\* reports it, for every store the run begins with and whatever the cells write.
THEOREM ReplayMatchesStoreCorrect == Spec => []ReplayMatchesStore
<1>1. Init => Replayed
  BY DEF Init, Replayed, HeldIn, Failure
<1>2. TypeOK /\ Replayed /\ [Next]_vars => Replayed'
  BY ReplayedStep
<1>3. Replayed => ReplayMatchesStore
  BY DEF Replayed, HeldIn, ReplayMatchesStore
<1> QED
  BY <1>1, <1>2, <1>3, TypeCorrect, PTL DEF Spec

-----------------------------------------------------------------------------
(* Offline runs.                                                           *)

\* What CacheOnlyIsOffline needs: a strict run never gets as far as a call.
Offline ==
    Mode = "read_only_strict" =>
        \A c \in Cells : /\ calls[c] = 0
                         /\ pc[c] \notin {"call", "live"}
                         /\ pc[c] \notin {"queued", "done"} => c \notin Latency

LEMMA OfflineStep ==
    ASSUME Providers \subseteq Keyed, TypeOK, Offline, [Next]_vars
    PROVE  Offline'
<1> USE DEF sharedVars, historyVars, gradeVars, cellVars
<1>1. CASE UNCHANGED vars
  BY <1>1 DEF vars, Offline
<1>2. ASSUME NEW c \in Cells, CellStep(c), Mode = "read_only_strict"
      PROVE  /\ calls' = calls
             /\ \A d \in Cells \ {c} : pc'[d] = pc[d]
             /\ pc'[c] \notin {"call", "live"}
             /\ pc[c] = "queued" /\ pc'[c] # "done" => c \notin Latency
             /\ pc[c] # "done" /\ pc'[c] # "queued"
  <2> DEFINE Goal == /\ calls' = calls
                     /\ \A d \in Cells \ {c} : pc'[d] = pc[d]
                     /\ pc'[c] \notin {"call", "live"}
                     /\ pc[c] = "queued" /\ pc'[c] # "done" => c \notin Latency
                     /\ pc[c] # "done" /\ pc'[c] # "queued"
  <2>1. CASE StartCell(c)
    BY <1>2, <2>1 DEF StartCell, ErrorCase, Goto, TypeOK
  <2>2. CASE EnterLink(c)
    <3>1. UsesCache(c)
      BY <1>2, <2>2, ProviderType DEF EnterLink, UsesCache, Offline
    <3>2. \E l \in {"done", "asserts", "lookup"} : Goto(c, l)
      BY <2>2, <3>1 DEF EnterLink, Report, ErrorCase
    <3> QED
      BY <2>2, <3>2 DEF EnterLink, Goto, TypeOK
  <2>3. CASE Lookup(c)
    BY <2>3 DEF Lookup, Goto, TypeOK
  <2>4. ASSUME NEW g \in OldGenerations, ClaimProbe(c, g) PROVE Goal
    <3>1. \E l \in {"read_canonical", "read_fingerprint", "claim_fingerprint", "miss"} : Goto(c, l)
      BY <1>2, <2>4 DEF ClaimProbe, Read, Claim, AfterOld, MissGoesTo, OldGenerations
    <3>2. pc[c] \in {"claim_canonical", "claim_fingerprint"}
      BY <2>4 DEF ClaimProbe, Claim, OldGenerations
    <3> QED
      BY <2>4, <3>1, <3>2 DEF ClaimProbe, Goto, TypeOK
  <2>5. ASSUME NEW g \in OldGenerations, ReadOld(c, g) PROVE Goal
    <3>1. AfterOld(c, g) \in {"claim_fingerprint", "miss"} /\ pc[c] \in {"read_canonical", "read_fingerprint"}
      BY <1>2, <2>5 DEF ReadOld, Read, Claim, AfterOld, MissGoesTo, OldGenerations
    <3>2. ~Refiles(cache[OldKey(c, g)])
      BY <1>2 DEF Refiles
    <3>3. Goto(c, "settle") \/ Goto(c, AfterOld(c, g))
      BY <2>5, <3>2 DEF ReadOld
    <3> QED
      BY <2>5, <3>1, <3>3 DEF ReadOld, Goto, TypeOK
  <2>6. CASE RefuseMiss(c)
    BY <2>6 DEF RefuseMiss, Goto, TypeOK
  <2>7. CASE Call(c) \/ Answer(c)
    BY <1>2, <2>7 DEF Call, Answer, Offline
  <2>8. CASE Store(c)
    BY <2>8 DEF Store, Goto, TypeOK
  <2>9. CASE Settle(c)
    <3>1. \E l \in {"enter", "done", "asserts"} : Goto(c, l)
      BY <2>9 DEF Settle, Report, ErrorCase
    <3> QED
      BY <2>9, <3>1 DEF Settle, Goto, TypeOK
  <2>10. CASE LocalAsserts(c) \/ GradeNext(c) \/ Judged(c) \/ Finish(c)
    BY <2>10 DEF LocalAsserts, GradeNext, Judged, Finish, Goto, TypeOK
  <2> QED
    BY <1>2, <2>1, <2>2, <2>3, <2>4, <2>5, <2>6, <2>7, <2>8, <2>9, <2>10 DEF CellStep
<1> QED
  BY <1>1, <1>2 DEF Next, Offline

\* A run with --cache-only calls no provider, whatever its store lacks, if every
\* provider's requests have a key.
THEOREM CacheOnlyCorrect ==
    ASSUME Providers \subseteq Keyed
    PROVE  Spec => []CacheOnlyIsOffline
<1>1. Init => Offline
  BY DEF Init, Offline
<1>2. TypeOK /\ Offline /\ [Next]_vars => Offline'
  BY OfflineStep
<1>3. Offline => CacheOnlyIsOffline
  BY DEF Offline, CacheOnlyIsOffline
<1> QED
  BY <1>1, <1>2, <1>3, TypeCorrect, PTL DEF Spec
=============================================================================
