---------------------------- MODULE ScoringProofs ----------------------------
(***************************************************************************)
(* Grading.  Short-circuiting is sound for every number of asserts, every  *)
(* positive weights, every threshold and every score; and a stored verdict *)
(* stands, whatever exchanges share its key, in every run over the store.  *)
(***************************************************************************)
EXTENDS Scoring, GraderExchange, TLAPS

-----------------------------------------------------------------------------
(* Arithmetic.                                                             *)

\* A product grows with its factor.
LEMMA ProductMonotone ==
    ASSUME NEW a \in Nat, NEW b \in Nat, NEW w \in Nat, a <= b
    PROVE  w * a \in Nat /\ w * b \in Nat /\ w * a <= w * b /\ w * b = b * w
<1>1. w * a \in Nat /\ w * b \in Nat
  OBVIOUS
<1>2. w * (b - a) >= 0
  OBVIOUS
<1>3. w * (b - a) = w * b - w * a
  OBVIOUS
<1> QED
  BY <1>1, <1>2, <1>3

\* Products distribute over the sums of weights.
LEMMA ProductOfSum ==
    ASSUME NEW t \in Nat, NEW a \in Nat, NEW b \in Nat
    PROVE  t * a \in Nat /\ t * b \in Nat /\ t * (a + b) = t * a + t * b
OBVIOUS

-----------------------------------------------------------------------------
(* Outcomes and sums.                                                      *)

GoodOutcome(o) == o.score \in 0..Top /\ o.passed \in BOOLEAN

\* Negation and the vacuous-pass guard keep scores in range.
LEMMA GuardedOutcome ==
    ASSUME NEW raw \in LocalOutcomes \cup GradedOutcomes,
           NEW negate \in BOOLEAN, NEW exempt \in BOOLEAN
    PROVE  GoodOutcome(NegateAndGuard(raw, negate, exempt))
<1>1. GoodOutcome(raw) /\ raw.broken \in BOOLEAN
  <2>1. CASE raw \in LocalOutcomes
    <3>1. CASE raw = Outcome(Top, TRUE, FALSE)
      BY <3>1, ScoringAssumption DEF GoodOutcome, Outcome
    <3>2. CASE raw = Outcome(0, FALSE, FALSE)
      BY <3>2, ScoringAssumption DEF GoodOutcome, Outcome
    <3>3. CASE raw = Outcome(0, FALSE, TRUE)
      BY <3>3, ScoringAssumption DEF GoodOutcome, Outcome
    <3> QED
      BY <2>1, <3>1, <3>2, <3>3, Zenon DEF LocalOutcomes
  <2>2. CASE raw \in GradedOutcomes
    BY <2>2 DEF GoodOutcome, GradedOutcomes
  <2> QED
    BY <2>1, <2>2
<1>2. GoodOutcome(NegatedOutcome(raw, negate))
  BY <1>1, ScoringAssumption DEF GoodOutcome, NegatedOutcome, Outcome
<1>3. GoodOutcome(Outcome(0, FALSE, FALSE))
  BY ScoringAssumption DEF GoodOutcome, Outcome
<1>4. NegateAndGuard(raw, negate, exempt)
        \in {Outcome(0, FALSE, FALSE), NegatedOutcome(raw, negate)}
  BY Zenon DEF NegateAndGuard, DenyVacuous
<1> QED
  BY <1>2, <1>3, <1>4

\* A verdict is a verdict.
LEMMA VerdictType ==
    ASSUME NEW s \in Sums, NEW t \in Int
    PROVE  CaseVerdict(s, t) \in BOOLEAN
<1>1. MeanReaches(s, t) \in BOOLEAN
  <2>1. (Top >= t) \in BOOLEAN /\ (s.sum >= t * s.weight) \in BOOLEAN
    BY ScoringAssumption DEF Sums
  <2> QED
    BY <2>1, Zenon DEF MeanReaches
<1>2. s.allPassed \in BOOLEAN
  BY DEF Sums
<1> QED
  BY <1>1, <1>2, Zenon DEF CaseVerdict

\* One more scored assert: what its sums are, and that no mean exceeds Top.
LEMMA ScoredSums ==
    ASSUME NEW s \in Sums, s.sum <= Top * s.weight, NEW w \in Nat, NEW o, GoodOutcome(o)
    PROVE  /\ Scored(s, w, o) \in Sums
           /\ Scored(s, w, o).weight = s.weight + w
           /\ s.sum <= Scored(s, w, o).sum
           /\ Scored(s, w, o).sum <= s.sum + Top * w
           /\ Scored(s, w, o).sum <= Top * Scored(s, w, o).weight
           /\ Scored(s, w, o).allPassed => s.allPassed
<1>1. o.score \in Nat /\ o.score <= Top /\ Top \in Nat
  BY ScoringAssumption DEF GoodOutcome
<1>2. w * o.score \in Nat /\ w * o.score <= Top * w
  BY <1>1, ProductMonotone
<1>3. s.weight \in Nat /\ s.sum \in Nat /\ s.allPassed \in BOOLEAN
  BY DEF Sums
<1>4. Top * (s.weight + w) = Top * s.weight + Top * w /\ Top * s.weight \in Nat /\ Top * w \in Nat
  BY <1>1, <1>3, ProductOfSum
<1>5. /\ Scored(s, w, o).weight = s.weight + w
      /\ Scored(s, w, o).sum = s.sum + w * o.score
      /\ Scored(s, w, o).allPassed = (s.allPassed /\ o.passed)
  BY DEF Scored
<1>6. Scored(s, w, o) \in Sums
  BY <1>1, <1>2, <1>3 DEF Scored, Sums, GoodOutcome
<1> QED
  BY <1>2, <1>3, <1>4, <1>5, <1>6

-----------------------------------------------------------------------------
(* The inductive invariant: once the graded asserts are skipped, the sums  *)
(* they could still reach all give the verdict that was announced.         *)

Settled ==
    \/ /\ pending = 0 /\ remaining = 0
       /\ verdict <=> CaseVerdict(full, threshold)
    \/ /\ threshold = NoThreshold
       /\ ~full.allPassed /\ ~verdict
    \/ /\ threshold # NoThreshold
       /\ full.weight + remaining > 0
       /\ ~verdict
       /\ full.sum + Top * remaining < threshold * (full.weight + remaining)
    \/ /\ threshold # NoThreshold
       /\ full.weight + remaining > 0
       /\ verdict
       /\ full.sum >= threshold * (full.weight + remaining)

ScoringInv ==
    /\ TypeOK
    /\ pending = 0 => remaining = 0
    /\ phase = "local" /\ remaining = 0 => pending = 0
    /\ phase \in {"local", "graded"} => full = tally
    /\ phase = "skipped" => Settled
    /\ phase = "done" => (verdict <=> CaseVerdict(full, threshold))

LEMMA ScoringInit == Init => ScoringInv
<1> SUFFICES ASSUME Init PROVE ScoringInv
  OBVIOUS
<1>1. NoneScored \in Sums /\ NoneScored.sum <= Top * NoneScored.weight
  BY ScoringAssumption DEF NoneScored, Sums
<1> QED
  BY <1>1 DEF Init, ScoringInv, TypeOK

\* The announcement: a decision that nothing left matters settles the verdict.
LEMMA DecisionSettles ==
    ASSUME ScoringInv, phase = "local", ~Matters,
           verdict' = CaseVerdict(tally, threshold),
           UNCHANGED <<threshold, pending, remaining, full>>
    PROVE  Settled' /\ verdict' \in BOOLEAN
<1>1. /\ full = tally /\ tally.weight \in Nat /\ tally.sum \in Nat /\ remaining \in Nat
      /\ tally.allPassed \in BOOLEAN /\ Top \in Nat /\ Top > 0
      /\ tally.sum <= Top * tally.weight
  BY ScoringAssumption DEF ScoringInv, TypeOK, Sums
<1>2. verdict' \in BOOLEAN
  BY VerdictType, ScoringAssumption DEF TypeOK, ScoringInv, NoThreshold
<1>3. ~RemainingCanChangeOutcome(tally, remaining, threshold)
  BY DEF Matters
<1>4. CASE remaining = 0
  <2>1. pending = 0
    BY <1>4 DEF ScoringInv
  <2>2. verdict' <=> CaseVerdict(full', threshold')
    BY <1>1, <1>2
  <2> QED
    BY <1>2, <1>4, <2>1, <2>2 DEF Settled
<1>5. CASE remaining > 0 /\ threshold = NoThreshold
  <2>1. ~tally.allPassed
    BY <1>3, <1>5 DEF RemainingCanChangeOutcome
  <2>2. ~verdict'
    BY <2>1, <1>5 DEF CaseVerdict
  <2> QED
    BY <1>1, <1>2, <1>5, <2>1, <2>2 DEF Settled
<1>6. CASE remaining > 0 /\ threshold # NoThreshold
  <2> DEFINE T == tally.weight + remaining
             t == threshold
  <2>1. t \in Nat /\ T \in Nat /\ T > 0
    BY <1>1, <1>6, ScoringAssumption DEF ScoringInv, TypeOK
  <2>2. tally.sum + Top * remaining < t * T \/ tally.sum >= t * T
    <3>1. t * T \in Nat /\ Top * remaining \in Nat
      BY <1>1, <2>1
    <3> QED
      BY <1>1, <1>3, <1>6, <3>1 DEF RemainingCanChangeOutcome
  <2>3. /\ t * T = t * tally.weight + t * remaining
        /\ t * tally.weight \in Nat /\ t * remaining \in Nat
        /\ Top * remaining \in Nat /\ Top * tally.weight \in Nat
    BY <1>1, <2>1, ProductOfSum
  <2>4. CASE tally.sum + Top * remaining < t * T
    <3>1. ~MeanReaches(tally, t)
      <4>1. CASE t <= Top
        <5>1. t * remaining <= Top * remaining
          BY <1>1, <2>1, <4>1, ProductMonotone
        <5>2. tally.sum < t * tally.weight
          BY <1>1, <2>3, <2>4, <5>1
        <5>3. tally.weight # 0
          <6>1. t * 0 = 0
            BY <2>1
          <6> QED
            BY <1>1, <5>2, <6>1
        <5> QED
          BY <1>1, <2>3, <5>2, <5>3 DEF MeanReaches
      <4>2. CASE t > Top
        <5>1. CASE tally.weight = 0
          BY <1>1, <2>1, <4>2, <5>1 DEF MeanReaches
        <5>2. CASE tally.weight # 0
          <6>1. tally.weight * (Top + 1) <= tally.weight * t
            BY <1>1, <2>1, <4>2, ProductMonotone
          <6>2. tally.weight * (Top + 1) = Top * tally.weight + tally.weight
            <7>1. tally.weight * (Top + 1) = tally.weight * Top + tally.weight * 1
              BY <1>1, ProductOfSum
            <7>2. tally.weight * Top = Top * tally.weight /\ tally.weight * 1 = tally.weight
              BY <1>1
            <7> QED
              BY <7>1, <7>2
          <6>3. tally.weight * t = t * tally.weight
            BY <1>1, <2>1
          <6>4. tally.sum < t * tally.weight
            BY <1>1, <2>3, <5>2, <6>1, <6>2, <6>3
          <6> QED
            BY <1>1, <2>3, <5>2, <6>4 DEF MeanReaches
        <5> QED
          BY <5>1, <5>2
      <4> QED
        BY <1>1, <2>1, <4>1, <4>2
    <3>2. ~verdict'
      BY <1>6, <3>1 DEF CaseVerdict
    <3> QED
      BY <1>1, <1>2, <1>6, <2>1, <2>4, <3>2 DEF Settled
  <2>5. CASE tally.sum >= t * T
    <3>1. MeanReaches(tally, t)
      <4>1. CASE tally.weight = 0
        <5>1. tally.sum = 0
          BY <1>1, <4>1
        <5>2. t * remaining <= 0
          BY <1>1, <2>3, <2>5, <4>1, <5>1
        <5>3. t = 0
          <6>1. remaining * 1 <= remaining * t \/ t = 0
            BY <1>1, <2>1, ProductMonotone
          <6> QED
            BY <1>1, <1>6, <2>1, <5>2, <6>1
        <5> QED
          BY <1>1, <4>1, <5>3 DEF MeanReaches
      <4>2. CASE tally.weight # 0
        BY <1>1, <2>3, <2>5, <4>2 DEF MeanReaches
      <4> QED
        BY <4>1, <4>2
    <3>2. verdict'
      BY <1>2, <1>6, <3>1 DEF CaseVerdict
    <3> QED
      BY <1>1, <1>2, <1>6, <2>1, <2>5, <3>2 DEF Settled
  <2> QED
    BY <2>2, <2>4, <2>5
<1> QED
  BY <1>1, <1>2, <1>4, <1>5, <1>6

\* Whatever a skipped assert would have scored, the verdict stays settled.
LEMMA SkippedStaysSettled ==
    ASSUME ScoringInv, Settled, NEW w \in Nat, NEW o, GoodOutcome(o), NextGraded(w),
           full' = Scored(full, w, o), UNCHANGED <<threshold, verdict>>
    PROVE  Settled'
<1>1. /\ full \in Sums /\ full.weight \in Nat /\ full.sum \in Nat /\ remaining \in Nat
      /\ full.sum <= Top * full.weight /\ full.allPassed \in BOOLEAN /\ Top \in Nat
  BY ScoringAssumption DEF ScoringInv, TypeOK, Sums
<1>2. /\ full'.weight = full.weight + w
      /\ full.sum <= full'.sum
      /\ full'.sum <= full.sum + Top * w
      /\ full'.allPassed => full.allPassed
      /\ full' \in Sums
  BY <1>1, ScoredSums
<1>3. remaining' = remaining - w /\ remaining' \in Nat /\ pending > 0 /\ w <= remaining
  BY <1>1 DEF NextGraded
<1>4. full'.weight + remaining' = full.weight + remaining
  BY <1>1, <1>2, <1>3
<1>5. full'.sum \in Nat /\ Top * remaining = Top * remaining' + Top * w
      /\ Top * remaining' \in Nat /\ Top * w \in Nat
  <2>1. remaining = remaining' + w
    BY <1>1, <1>3
  <2>2. Top * (remaining' + w) = Top * remaining' + Top * w
        /\ Top * remaining' \in Nat /\ Top * w \in Nat
    BY <1>1, <1>3, ProductOfSum
  <2> QED
    BY <1>2, <2>1, <2>2 DEF Sums
<1>6. CASE threshold = NoThreshold
  BY <1>2, <1>3, <1>6 DEF Settled
<1>7. CASE threshold # NoThreshold
  <2>1. threshold \in Nat /\ threshold * (full.weight + remaining) \in Nat
    BY <1>1, <1>7, ScoringAssumption DEF ScoringInv, TypeOK
  <2> QED
    BY <1>1, <1>2, <1>3, <1>4, <1>5, <1>7, <2>1 DEF Settled
<1> QED
  BY <1>6, <1>7

LEMMA ScoringStep ==
    ASSUME 0 \notin Weights, ScoringInv, [Next]_vars
    PROVE  ScoringInv'
<1>0. Weights \subseteq Nat
  BY ScoringAssumption
<1>1. ASSUME NEW w \in Weights, NEW raw \in LocalOutcomes, NEW negate \in BOOLEAN,
             NEW metric \in BOOLEAN, ScoreLocal(w, raw, negate, metric)
      PROVE  ScoringInv'
  <2>1. GoodOutcome(NegateAndGuard(raw, negate, metric))
    BY GuardedOutcome
  <2>2. /\ tally' \in Sums /\ tally'.sum <= Top * tally'.weight
        /\ full' \in Sums /\ full'.sum <= Top * full'.weight
    BY <1>0, <1>1, <2>1, ScoredSums DEF ScoreLocal, ScoringInv, TypeOK
  <2>3. locals' \in Nat /\ negated' \in BOOLEAN
    BY <1>1 DEF ScoreLocal, ScoringInv, TypeOK
  <2> QED
    BY <1>1, <2>2, <2>3 DEF ScoreLocal, ScoringInv, TypeOK
<1>2. ASSUME NEW w \in Weights, Defer(w) PROVE ScoringInv'
  <2>1. w \in Nat /\ w > 0 /\ remaining \in Nat /\ pending \in Nat
    BY <1>0 DEF ScoringInv, TypeOK
  <2>2. pending' \in Nat /\ pending' > 0 /\ remaining' \in Nat /\ remaining' > 0
    BY <1>2, <2>1 DEF Defer
  <2> QED
    BY <1>2, <2>2 DEF Defer, ScoringInv, TypeOK
<1>3. ASSUME Decide PROVE ScoringInv'
  <2>1. CASE Matters
    BY <1>3, <2>1 DEF Decide, ScoringInv, TypeOK
  <2>2. CASE ~Matters
    <3>1. Settled' /\ verdict' \in BOOLEAN
      BY <1>3, <2>2, DecisionSettles DEF Decide
    <3> QED
      BY <1>3, <2>2, <3>1 DEF Decide, ScoringInv, TypeOK
  <2> QED
    BY <2>1, <2>2
<1>4. ASSUME NEW w \in Weights, NEW raw \in GradedOutcomes, NEW negate \in BOOLEAN,
             Grade(w, raw, negate)
      PROVE  ScoringInv'
  <2> DEFINE o == NegateAndGuard(raw, negate, FALSE)
  <2>1. GoodOutcome(o)
    BY GuardedOutcome
  <2>2. /\ tally' \in Sums /\ tally'.sum <= Top * tally'.weight
        /\ full' \in Sums /\ full'.sum <= Top * full'.weight
    BY <1>0, <1>4, <2>1, ScoredSums DEF Grade, ScoringInv, TypeOK
  <2>3. pending' \in Nat /\ remaining' \in Nat /\ (pending' = 0 => remaining' = 0)
    BY <1>0, <1>4 DEF Grade, NextGraded, ScoringInv, TypeOK
  <2>4. phase = "skipped" => Settled'
    <3> HIDE DEF o
    <3>1. NextGraded(w) /\ full' = Scored(full, w, o) /\ UNCHANGED <<threshold, verdict>>
      BY <1>4 DEF Grade, o
    <3> QED
      BY <1>0, <2>1, <3>1, SkippedStaysSettled DEF ScoringInv
  <2>5. negated' \in BOOLEAN
    BY <1>4 DEF Grade, ScoringInv, TypeOK
  <2> QED
    BY <1>4, <2>2, <2>3, <2>4, <2>5 DEF Grade, ScoringInv, TypeOK
<1>5. ASSUME NEW w \in Weights, GraderFails(w) PROVE ScoringInv'
  <2>1. pending' \in Nat /\ remaining' \in Nat /\ (pending' = 0 => remaining' = 0)
    BY <1>0, <1>5 DEF GraderFails, NextGraded, ScoringInv, TypeOK
  <2> QED
    BY <1>5, <2>1 DEF GraderFails, ScoringInv, TypeOK
<1>6. ASSUME Finish PROVE ScoringInv'
  <2>1. verdict' \in BOOLEAN /\ (verdict' <=> CaseVerdict(full', threshold'))
    <3>1. CASE phase = "graded"
      <4>1. CaseVerdict(tally, threshold) \in BOOLEAN
        BY VerdictType, ScoringAssumption DEF ScoringInv, TypeOK, NoThreshold
      <4> QED
        BY <1>6, <3>1, <4>1 DEF Finish, ScoringInv
    <3>2. CASE phase = "skipped"
      <4>1. verdict' = verdict /\ full' = full /\ threshold' = threshold /\ pending = 0
        BY <1>6, <3>2 DEF Finish
      <4>2. Settled /\ remaining = 0 /\ verdict \in BOOLEAN /\ full.weight \in Nat
            /\ full.sum \in Nat /\ Top \in Nat
        BY <3>2, <4>1, ScoringAssumption DEF ScoringInv, TypeOK, Sums
      <4>3. Top * remaining = 0 /\ full.weight + remaining = full.weight
        BY <4>2
      <4>4. verdict <=> CaseVerdict(full, threshold)
        <5>1. CASE threshold = NoThreshold
          BY <4>1, <4>2, <5>1 DEF Settled, CaseVerdict
        <5>2. CASE threshold # NoThreshold
          <6>1. threshold \in Nat /\ threshold * full.weight \in Nat
            BY <4>2, <5>2, ScoringAssumption DEF ScoringInv, TypeOK
          <6> QED
            BY <4>1, <4>2, <4>3, <5>2, <6>1 DEF Settled, CaseVerdict, MeanReaches
        <5> QED
          BY <5>1, <5>2
      <4> QED
        BY <4>1, <4>2, <4>4
    <3> QED
      BY <1>6, <3>1, <3>2 DEF Finish
  <2> QED
    BY <1>6, <2>1 DEF Finish, ScoringInv, TypeOK
<1>7. ASSUME UNCHANGED vars PROVE ScoringInv'
  BY <1>7 DEF vars, ScoringInv, TypeOK, Settled, CaseVerdict, MeanReaches
<1> QED
  BY <1>1, <1>2, <1>3, <1>4, <1>5, <1>6, <1>7 DEF Next

\* With positive weights, skipping the graded asserts of a decided case never
\* changes its verdict, whatever the skipped graders would have said.
THEOREM ShortCircuitSound ==
    ASSUME 0 \notin Weights
    PROVE  Spec => []ShortCircuitIsInvisible
<1>1. ScoringInv => ShortCircuitIsInvisible
  BY DEF ScoringInv, TypeOK, ShortCircuitIsInvisible, CaseVerdict, MeanReaches, Sums
<1> QED
  BY <1>1, ScoringInit, ScoringStep, PTL DEF Spec

-----------------------------------------------------------------------------
(* Exchanges with graders and their store.                                 *)

\* What an exchange may be.
Errors == {"none", "invalid_verdict", "truncated_verdict", "exec_failed", "transport",
           "auth_rejected", "misconfigured", "cache_miss", "dropped"}
ExchangeRecord ==
    [pc : {"idle", "get", "canonical", "verdict", "refile", "live", "put", "done"},
     reasks : Nat, held : EntrySet, got : Values \cup {NoValue}, err : Errors,
     cached : BOOLEAN, live : Nat, began : EntrySet, failed : BOOLEAN]

\* An older version had stored this verdict for the exchange.
FromOld(x, v) ==
    \E s \in {"canonical", "verdict"} : ghad[KeyOf(s, x)].verdict = v

\* What may be filed under today's key of the exchange.
MayFile(x, e) == IF e.verdict = NoValue THEN e.raw \in Values ELSE FromOld(x, e.verdict)

\* What an exchange has in hand fits where it is; and one that began with an entry
\* that serves finds it there still, and has done nothing but read it.
Sound(x, r, store) ==
    LET kind == ExchangeKind[x] IN
    /\ r.pc = "idle" => r = IdleExchange
    /\ r.pc \in {"refile", "put"} => MayFile(x, r.held)
    /\ Serves(kind, r.began) =>
          /\ store[KeyOf("today", x)] = r.began
          /\ ~r.failed => /\ r.pc \in {"get", "done"} /\ r.live = 0
                          /\ r.pc = "done" /\ r.err # "dropped" =>
                                r.cached /\ r.got = Served(kind, r.began)

StoreType == gstore \in [GraderKeys -> EntrySet] /\ ghad \in [GraderKeys -> EntrySet]

\* Older keys are only read, and what there was before the runs stands.
StoreStands ==
    /\ \A k \in GraderKeys : k[1] # "today" \/ ghad[k] # NoEntry => gstore[k] = ghad[k]
    /\ \A x \in Exchanges :
          LET e == gstore[KeyOf("today", x)]
          IN e # ghad[KeyOf("today", x)] => MayFile(x, e)

GraderInv ==
    /\ StoreType /\ StoreStands
    /\ ex \in [Exchanges -> ExchangeRecord]
    /\ \A x \in Exchanges : Sound(x, ex[x], gstore)

LEMMA KeysOf ==
    ASSUME NEW x \in Exchanges, NEW s \in KeyShapes
    PROVE  KeyOf(s, x) \in GraderKeys /\ KeyOf(s, x)[1] = s
BY DEF KeyOf, GraderKeys

LEMMA ParsesWhat ==
    ASSUME NEW kind, NEW p \in Values \cup BadPayloads
    PROVE  /\ ParseError(kind, p) = "none" <=> p \in Values
           /\ ParseError(kind, p) \in Errors
<1>1. CASE p \in Values
  BY <1>1 DEF ParseError, Values, Errors
<1>2. CASE p \notin Values /\ kind = "exec"
  BY <1>2 DEF ParseError, Values, Errors
<1>3. CASE p \notin Values /\ kind # "exec"
  BY <1>3 DEF ParseError, Values, Errors
<1> QED
  BY <1>1, <1>2, <1>3

LEMMA ServesWhat ==
    ASSUME NEW x \in Exchanges, NEW e \in EntrySet
    PROVE  /\ Serves(ExchangeKind[x], e) <=> e.verdict # NoValue \/ e.raw \in Values
           /\ Served(ExchangeKind[x], e) \in Values
           /\ Serves(ExchangeKind[x], e) => e # NoEntry
<1>1. \A p \in Values \cup BadPayloads :
         ParseError(ExchangeKind[x], p) = "none" <=> p \in Values
  BY ParsesWhat
<1>2. e.verdict \in Values \cup {NoValue} /\ e.raw \in Values \cup BadPayloads \cup {NoValue}
  BY DEF EntrySet
<1>3. NoValue \notin Values
  BY DEF NoValue, Values
<1>4. Serves(ExchangeKind[x], e) <=> e.verdict # NoValue \/ e.raw \in Values
  BY <1>1, <1>2, <1>3 DEF Serves
<1>5. Served(ExchangeKind[x], e) \in Values
  BY <1>2 DEF Served, Parsed, Values
<1>6. e = NoEntry => e.verdict = NoValue /\ e.raw = NoValue
  BY DEF NoEntry
<1> QED
  BY <1>3, <1>4, <1>5, <1>6

\* How a step may change the store: not at all, or by filing an entry of its own
\* under a key of today that has none.
Files(x, e) == e \in EntrySet /\ MayFile(x, e) /\ gstore' = StoredFirst(x, e)

LEMMA StoreKeeps ==
    ASSUME GraderInv, NEW x \in Exchanges, NEW e, ghad' = ghad,
           gstore' = gstore \/ Files(x, e)
    PROVE  /\ StoreType' /\ StoreStands'
           /\ \A k \in GraderKeys : gstore[k] # NoEntry => gstore'[k] = gstore[k]
<1> DEFINE key == KeyOf("today", x)
<1>1. key \in GraderKeys /\ key[1] = "today"
  BY KeysOf DEF KeyShapes
<1>2. StoreType /\ StoreStands
  BY DEF GraderInv
<1>3. CASE gstore' = gstore
  BY <1>2, <1>3 DEF StoreType, StoreStands, MayFile, FromOld
<1>4. CASE Files(x, e)
  <2>1. gstore' = [gstore EXCEPT ![key] = IF gstore[key] = NoEntry THEN e ELSE gstore[key]]
    BY <1>4 DEF Files, StoredFirst
  <2>2. StoreType'
    BY <1>1, <1>2, <1>4, <2>1 DEF StoreType, Files
  <2>3. \A k \in GraderKeys :
           gstore'[k] = IF k = key /\ gstore[key] = NoEntry THEN e ELSE gstore[k]
    BY <1>1, <1>2, <2>1 DEF StoreType
  <2>4. \A k \in GraderKeys : gstore[k] # NoEntry => gstore'[k] = gstore[k]
    BY <2>3
  <2>5. ASSUME NEW k \in GraderKeys, k[1] # "today" \/ ghad[k] # NoEntry
        PROVE  gstore'[k] = ghad[k]
    <3>1. gstore[k] = ghad[k]
      BY <1>2, <2>5 DEF StoreStands
    <3> QED
      BY <1>1, <2>3, <2>5, <3>1
  <2>6. ASSUME NEW y \in Exchanges, gstore'[KeyOf("today", y)] # ghad[KeyOf("today", y)]
        PROVE  MayFile(y, gstore'[KeyOf("today", y)])
    <3>1. KeyOf("today", y) \in GraderKeys
      BY KeysOf DEF KeyShapes
    <3>2. CASE KeyOf("today", y) = key /\ gstore[key] = NoEntry
      <4>1. ExchangeRequest[y] = ExchangeRequest[x]
        BY <3>2 DEF KeyOf
      <4>2. MayFile(x, e) /\ gstore'[KeyOf("today", y)] = e
        BY <1>4, <2>3, <3>1, <3>2 DEF Files
      <4> QED
        BY <4>1, <4>2 DEF MayFile, FromOld, KeyOf
    <3>3. CASE ~(KeyOf("today", y) = key /\ gstore[key] = NoEntry)
      <4>1. gstore'[KeyOf("today", y)] = gstore[KeyOf("today", y)]
        BY <2>3, <3>1, <3>3
      <4> QED
        BY <1>2, <2>6, <4>1 DEF StoreStands
    <3> QED
      BY <3>2, <3>3
  <2>7. StoreStands'
    BY <2>5, <2>6 DEF StoreStands, MayFile, FromOld
  <2> QED
    BY <2>2, <2>4, <2>7
<1> QED
  BY <1>3, <1>4

\* A step that moves one exchange soundly keeps the invariant: the others are as
\* they were, or dropped with their pair.
LEMMA StepKeeps ==
    ASSUME GraderInv, NEW x \in Exchanges, NEW e, NEW new \in ExchangeRecord, ghad' = ghad,
           gstore' = gstore \/ Files(x, e), Step(x, new), Sound(x, new, gstore')
    PROVE  GraderInv'
<1>1. /\ StoreType' /\ StoreStands' /\ ex \in [Exchanges -> ExchangeRecord]
      /\ \A k \in GraderKeys : gstore[k] # NoEntry => gstore'[k] = gstore[k]
  BY StoreKeeps DEF GraderInv
<1>2. ASSUME NEW y \in Exchanges
      PROVE  ex'[y] \in ExchangeRecord /\ Sound(y, ex'[y], gstore')
  <2>1. CASE y = x
    BY <2>1 DEF Step
  <2>2. CASE y # x
    <3>1. \/ ex'[y] = ex[y]
          \/ ex'[y] = [ex[y] EXCEPT !.pc = "done", !.err = "dropped"] /\ ex[y].pc # "done"
      BY <2>2 DEF Step
    <3>2. Sound(y, ex[y], gstore) /\ ex[y] \in ExchangeRecord /\ ex[y].began \in EntrySet
      BY <1>1 DEF GraderInv, ExchangeRecord
    <3>3. KeyOf("today", y) \in GraderKeys
      BY KeysOf DEF KeyShapes
    <3>4. Sound(y, ex[y], gstore')
      BY <1>1, <3>2, <3>3, ServesWhat DEF Sound
    <3>5. CASE ex'[y] = ex[y]
      BY <3>2, <3>4, <3>5
    <3>6. CASE ex'[y] = [ex[y] EXCEPT !.pc = "done", !.err = "dropped"]
      <4>1. /\ ex'[y] \in ExchangeRecord /\ ex'[y].pc = "done" /\ ex'[y].err = "dropped"
            /\ ex'[y].began = ex[y].began /\ ex'[y].failed = ex[y].failed
            /\ ex'[y].live = ex[y].live
        BY <3>2, <3>6 DEF ExchangeRecord, Errors
      <4> DEFINE r == ex'[y]
      <4>2. /\ r.pc # "idle" /\ r.pc \notin {"refile", "put"} /\ r.pc \in {"get", "done"}
            /\ ~(r.pc = "done" /\ r.err # "dropped")
        BY <4>1
      <4>3. Serves(ExchangeKind[y], r.began) =>
               /\ gstore'[KeyOf("today", y)] = r.began
               /\ ~r.failed => r.live = 0
        BY <3>4, <4>1 DEF Sound
      <4> HIDE DEF r
      <4>4. Sound(y, r, gstore')
        BY <4>2, <4>3 DEF Sound
      <4> QED
        BY <4>1, <4>4 DEF r
    <3> QED
      BY <3>1, <3>5, <3>6
  <2> QED
    BY <2>1, <2>2
<1>3. ex' \in [Exchanges -> ExchangeRecord]
  BY <1>2 DEF Step
<1> QED
  BY <1>1, <1>2, <1>3 DEF GraderInv, Sound, MayFile, FromOld

-----------------------------------------------------------------------------
\* An exchange that the store has no serving entry for, or failed, may do anything.
Free(x, r) == ~Serves(ExchangeKind[x], r.began) \/ r.failed

\* When it moves on: to a place where it holds nothing.
LEMMA FreeMoves ==
    ASSUME NEW x \in Exchanges, NEW r \in ExchangeRecord, NEW new \in ExchangeRecord, NEW store,
           Sound(x, r, store), Free(x, new), new.began = r.began,
           new.pc \in {"canonical", "verdict", "live", "done"} \/ MayFile(x, new.held),
           new.pc # "idle"
    PROVE  Sound(x, new, store)
BY DEF Sound, Free

LEMMA BeginExchangeKeeps ==
    ASSUME GraderInv, NEW x \in Exchanges, BeginExchange(x)
    PROVE  GraderInv'
<1> DEFINE r == ex[x]
<1>1. r \in ExchangeRecord /\ r = IdleExchange /\ Sound(x, r, gstore) /\ r.began = NoEntry
  BY DEF GraderInv, BeginExchange, Sound, IdleExchange
<1>2. ~Serves(ExchangeKind[x], NoEntry)
  BY ServesWhat DEF NoEntry, EntrySet
<1>3. Lookup(x, "today") \in EntrySet
  BY KeysOf DEF GraderInv, StoreType, Lookup, KeyShapes
<1>4. PICK new : /\ Step(x, new)
                 /\ \/ new \in {Fail(x, "cache_miss"), Fail(x, "misconfigured")}
                    \/ new = [r EXCEPT !.pc = "get", !.began = Lookup(x, "today")]
                    \/ new = [r EXCEPT !.pc = "live"]
  BY DEF BeginExchange
<1>5. UNCHANGED <<gstore, ghad>>
  BY DEF BeginExchange
<1>6. new \in ExchangeRecord
  BY <1>1, <1>3, <1>4, ZenonT(60) DEF Fail, ExchangeRecord, Errors
<1>7. Sound(x, new, gstore)
  <2>1. CASE new = [r EXCEPT !.pc = "get", !.began = Lookup(x, "today")]
    <3>1. new.pc = "get" /\ new.began = Lookup(x, "today") /\ new.live = 0
      BY <1>1, <2>1 DEF ExchangeRecord, IdleExchange
    <3> QED
      BY <3>1 DEF Sound, Lookup
  <2>2. CASE new \in {Fail(x, "cache_miss"), Fail(x, "misconfigured")} \/ new = [r EXCEPT !.pc = "live"]
    <3>1. new.pc \in {"done", "live"} /\ new.began = r.began
      BY <1>1, <2>2 DEF Fail, ExchangeRecord
    <3> QED
      BY <1>1, <1>2, <1>6, <3>1, FreeMoves DEF Free
  <2> QED
    BY <1>4, <2>1, <2>2
<1> QED
  BY <1>4, <1>5, <1>6, <1>7, StepKeeps

\* What an exchange is before it looks at an older key or goes live: free.
LEMMA PastToday ==
    ASSUME GraderInv, NEW x \in Exchanges, ex[x].pc \notin {"idle", "get", "done"}
    PROVE  Free(x, ex[x]) /\ ex[x] \in ExchangeRecord /\ Sound(x, ex[x], gstore)
BY DEF GraderInv, Sound, Free

LEMMA GetTodayKeeps ==
    ASSUME GraderInv, NEW x \in Exchanges, GetToday(x)
    PROVE  GraderInv'
<1> DEFINE r == ex[x]
           kind == ExchangeKind[x]
           today == Lookup(x, "today")
<1>1. r \in ExchangeRecord /\ r.pc = "get" /\ Sound(x, r, gstore) /\ r.began \in EntrySet
  BY DEF GraderInv, GetToday, ExchangeRecord
<1>2. today \in EntrySet /\ today = gstore[KeyOf("today", x)]
  BY KeysOf DEF GraderInv, StoreType, Lookup, KeyShapes
<1>3. PICK e \in {NoEntry, today} :
         Step(x, IF Serves(kind, e) THEN Answer(x, Served(kind, e), TRUE)
                 ELSE [r EXCEPT !.pc = "canonical", !.failed = @ \/ e # today])
  BY DEF GetToday
<1>4. UNCHANGED <<gstore, ghad>>
  BY DEF GetToday
<1>5. ~Serves(kind, NoEntry) /\ NoEntry \in EntrySet
  BY ServesWhat DEF NoEntry, EntrySet
<1>6. CASE Serves(kind, e)
  <2> DEFINE new == [r EXCEPT !.pc = "done", !.got = Served(kind, e), !.cached = TRUE]
  <2>1. e = today /\ Served(kind, e) \in Values
    BY <1>2, <1>3, <1>5, <1>6, ServesWhat
  <2>2. /\ new \in ExchangeRecord /\ new.pc = "done" /\ new.got = Served(kind, today)
        /\ new.cached /\ new.began = r.began /\ new.live = r.live /\ new.failed = r.failed
    BY <1>1, <2>1 DEF ExchangeRecord
  <2>3. Step(x, new)
    BY <1>3, <1>6 DEF Answer
  <2> HIDE DEF new
  <2>4. Sound(x, new, gstore)
    BY <1>1, <1>2, <2>2 DEF Sound
  <2> QED
    BY <1>4, <2>2, <2>3, <2>4, StepKeeps
<1>7. CASE ~Serves(kind, e)
  <2> DEFINE new == [r EXCEPT !.pc = "canonical", !.failed = r.failed \/ e # today]
  <2>1. /\ new \in ExchangeRecord /\ new.pc = "canonical" /\ new.began = r.began
        /\ new.failed = (r.failed \/ e # today)
    BY <1>1 DEF ExchangeRecord
  <2>2. Step(x, new)
    BY <1>3, <1>7
  <2> HIDE DEF new
  <2>3. Serves(kind, r.began) => r.began = today
    BY <1>1, <1>2 DEF Sound
  <2>4. Free(x, new)
    BY <1>7, <2>1, <2>3 DEF Free
  <2>5. Sound(x, new, gstore)
    BY <1>1, <2>1, <2>4, FreeMoves
  <2> QED
    BY <1>4, <2>1, <2>2, <2>5, StepKeeps
<1> QED
  BY <1>6, <1>7

\* An older entry that serves may be filed under today's key.
LEMMA OldMayBeFiled ==
    ASSUME GraderInv, NEW x \in Exchanges, NEW s \in {"canonical", "verdict"},
           NEW e \in {NoEntry, Lookup(x, s)}
    PROVE  e \in EntrySet /\ (Serves(ExchangeKind[x], e) => MayFile(x, e))
<1>1. KeyOf(s, x) \in GraderKeys /\ KeyOf(s, x)[1] = s
  BY KeysOf DEF KeyShapes
<1>2. Lookup(x, s) = ghad[KeyOf(s, x)] /\ Lookup(x, s) \in EntrySet /\ NoEntry \in EntrySet
  BY <1>1 DEF GraderInv, StoreType, StoreStands, Lookup, NoEntry, EntrySet
<1>3. ~Serves(ExchangeKind[x], NoEntry)
  BY <1>2, ServesWhat
<1> QED
  BY <1>2, <1>3, ServesWhat DEF MayFile, FromOld

LEMMA ProbeCanonicalKeeps ==
    ASSUME GraderInv, NEW x \in Exchanges, ProbeCanonical(x)
    PROVE  GraderInv'
<1> DEFINE r == ex[x]
<1>1. r.pc = "canonical" /\ UNCHANGED <<gstore, ghad>>
  BY DEF ProbeCanonical
<1>2. Free(x, r) /\ r \in ExchangeRecord /\ Sound(x, r, gstore)
  BY <1>1, PastToday
<1>3. PICK new : /\ Step(x, new)
                 /\ \/ new = [r EXCEPT !.pc = "verdict"]
                    \/ \E e \in {NoEntry, Lookup(x, "canonical")} :
                          /\ Serves(ExchangeKind[x], e)
                          /\ new = [r EXCEPT !.pc = "refile", !.held = e]
  BY DEF ProbeCanonical
<1>4. /\ new \in ExchangeRecord /\ new.began = r.began /\ new.failed = r.failed
      /\ new.pc = "verdict" \/ (new.pc = "refile" /\ MayFile(x, new.held))
  <2>1. CASE new = [r EXCEPT !.pc = "verdict"]
    BY <1>2, <2>1 DEF ExchangeRecord
  <2>2. CASE new # [r EXCEPT !.pc = "verdict"]
    <3>1. PICK e \in {NoEntry, Lookup(x, "canonical")} :
             Serves(ExchangeKind[x], e) /\ new = [r EXCEPT !.pc = "refile", !.held = e]
      BY <1>3, <2>2
    <3>2. e \in EntrySet /\ MayFile(x, e)
      BY <3>1, OldMayBeFiled
    <3>3. MayFile(x, new.held) <=> MayFile(x, e)
      BY <1>2, <3>1 DEF ExchangeRecord
    <3> QED
      BY <1>2, <3>1, <3>2, <3>3 DEF ExchangeRecord
  <2> QED
    BY <2>1, <2>2
<1>5. Sound(x, new, gstore)
  BY <1>2, <1>4, FreeMoves DEF Free
<1> QED
  BY <1>1, <1>3, <1>4, <1>5, StepKeeps

LEMMA ProbeVerdictKeeps ==
    ASSUME GraderInv, NEW x \in Exchanges, ProbeVerdict(x)
    PROVE  GraderInv'
<1> DEFINE r == ex[x]
<1>1. r.pc = "verdict" /\ UNCHANGED <<gstore, ghad>>
  BY DEF ProbeVerdict
<1>2. Free(x, r) /\ r \in ExchangeRecord /\ Sound(x, r, gstore)
  BY <1>1, PastToday
<1>3. PICK new : /\ Step(x, new)
                 /\ \/ new = [r EXCEPT !.pc = "live"] \/ new = Fail(x, "cache_miss")
                    \/ \E e \in {NoEntry, Lookup(x, "verdict")} :
                          /\ e.verdict # NoValue
                          /\ new = [r EXCEPT !.pc = "refile", !.held = e]
  BY DEF ProbeVerdict, LiveOrRefused
<1>4. /\ new \in ExchangeRecord /\ new.began = r.began /\ new.failed = r.failed
      /\ new.pc \in {"live", "done"} \/ (new.pc = "refile" /\ MayFile(x, new.held))
  <2>1. CASE new = [r EXCEPT !.pc = "live"] \/ new = Fail(x, "cache_miss")
    BY <1>2, <2>1 DEF Fail, ExchangeRecord, Errors
  <2>2. CASE ~(new = [r EXCEPT !.pc = "live"] \/ new = Fail(x, "cache_miss"))
    <3>1. PICK e \in {NoEntry, Lookup(x, "verdict")} :
             e.verdict # NoValue /\ new = [r EXCEPT !.pc = "refile", !.held = e]
      BY <1>3, <2>2
    <3>2. e \in EntrySet /\ MayFile(x, e)
      BY <3>1, OldMayBeFiled DEF Serves
    <3>3. MayFile(x, new.held) <=> MayFile(x, e)
      BY <1>2, <3>1 DEF ExchangeRecord
    <3> QED
      BY <1>2, <3>1, <3>2, <3>3 DEF ExchangeRecord
  <2> QED
    BY <2>1, <2>2
<1>5. Sound(x, new, gstore)
  BY <1>2, <1>4, FreeMoves DEF Free
<1> QED
  BY <1>1, <1>3, <1>4, <1>5, StepKeeps

\* A put files the entry in hand, or leaves the store as it was; then the exchange
\* has its answer.
LEMMA AnswerKeeps ==
    ASSUME GraderInv, NEW x \in Exchanges, NEW value \in Values, NEW replayed \in BOOLEAN,
           ex[x].pc \in {"refile", "put"}, ghad' = ghad,
           Puts(x, ex[x].held) \/ UNCHANGED gstore, Step(x, Answer(x, value, replayed))
    PROVE  GraderInv'
<1> DEFINE r == ex[x]
           new == Answer(x, value, replayed)
<1>1. Free(x, r) /\ r \in ExchangeRecord /\ Sound(x, r, gstore)
  BY PastToday
<1>2. MayFile(x, r.held) /\ r.held \in EntrySet /\ r.began \in EntrySet
  BY <1>1 DEF Sound, ExchangeRecord
<1>3. gstore' = gstore \/ Files(x, r.held)
  BY <1>2 DEF Puts, Files
<1>4. \A k \in GraderKeys : gstore[k] # NoEntry => gstore'[k] = gstore[k]
  BY <1>3, StoreKeeps
<1>5. KeyOf("today", x) \in GraderKeys
  BY KeysOf DEF KeyShapes
<1>6. Sound(x, r, gstore')
  BY <1>1, <1>2, <1>4, <1>5, ServesWhat DEF Sound
<1>7. /\ new \in ExchangeRecord /\ new.pc = "done" /\ new.began = r.began
      /\ new.failed = r.failed
  BY <1>1 DEF Answer, ExchangeRecord
<1> HIDE DEF new
<1>8. Sound(x, new, gstore')
  BY <1>1, <1>6, <1>7, FreeMoves DEF Free
<1>9. Step(x, new)
  BY DEF new
<1> QED
  BY <1>3, <1>7, <1>8, <1>9, StepKeeps

LEMMA RefileKeeps ==
    ASSUME GraderInv, NEW x \in Exchanges, Refile(x)
    PROVE  GraderInv'
<1>1. ex[x].pc = "refile" /\ ex[x].held \in EntrySet
  BY DEF Refile, GraderInv, ExchangeRecord
<1>2. Served(ExchangeKind[x], ex[x].held) \in Values
  BY <1>1, ServesWhat
<1> QED
  BY <1>1, <1>2, AnswerKeeps DEF Refile

LEMMA StoreFreshKeeps ==
    ASSUME GraderInv, NEW x \in Exchanges, StoreFresh(x)
    PROVE  GraderInv'
<1>1. ex[x].pc = "put" /\ ex[x].held \in EntrySet
  BY DEF StoreFresh, GraderInv, ExchangeRecord
<1>2. Served(ExchangeKind[x], ex[x].held) \in Values
  BY <1>1, ServesWhat
<1> QED
  BY <1>1, <1>2, AnswerKeeps DEF StoreFresh

LEMMA AskLiveKeeps ==
    ASSUME GraderInv, NEW x \in Exchanges, AskLive(x)
    PROVE  GraderInv'
<1> DEFINE r == ex[x]
<1>1. r.pc = "live" /\ UNCHANGED <<gstore, ghad>>
  BY DEF AskLive
<1>2. Free(x, r) /\ r \in ExchangeRecord /\ Sound(x, r, gstore)
  BY <1>1, PastToday
<1>3. ASSUME NEW err \in LiveErrors(ExchangeKind[x])
      PROVE  err \in Errors
  BY <1>3, ExchangeAssumption DEF LiveErrors, Errors
<1>4. PICK new : /\ Step(x, new)
                 /\ \/ \E p \in Values :
                          new = [r EXCEPT !.pc = "put", !.live = @ + 1,
                                          !.held = [NoEntry EXCEPT !.raw = p]]
                    \/ \E err \in Errors : new = AskAgain(x, err)
  <2>1. CASE \E err \in LiveErrors(ExchangeKind[x]) : Step(x, AskAgain(x, err))
    BY <1>3, <2>1
  <2>2. CASE ~\E err \in LiveErrors(ExchangeKind[x]) : Step(x, AskAgain(x, err))
    <3> DEFINE error(p) == ParseError(ExchangeKind[x], p)
    <3>1. PICK p \in Values \cup BadPayloads :
             Step(x, IF error(p) = "none"
                     THEN [r EXCEPT !.pc = "put", !.live = @ + 1,
                                    !.held = [NoEntry EXCEPT !.raw = p]]
                     ELSE AskAgain(x, error(p)))
      BY <2>2 DEF AskLive
    <3>2. (error(p) = "none" <=> p \in Values) /\ error(p) \in Errors
      BY ParsesWhat
    <3> HIDE DEF error
    <3> QED
      BY <3>1, <3>2
  <2> QED
    BY <2>1, <2>2
<1> DEFINE calls == r.live + 1
           reasks == r.reasks + 1
<1>5. calls \in Nat /\ reasks \in Nat
  BY <1>2 DEF ExchangeRecord
<1>6. /\ new \in ExchangeRecord /\ new.began = r.began /\ new.failed = r.failed
      /\ new.pc \in {"live", "done"} \/ (new.pc = "put" /\ MayFile(x, new.held))
  <2>1. CASE \E err \in Errors : new = AskAgain(x, err)
    <3>1. PICK err \in Errors :
             \/ new = [r EXCEPT !.reasks = reasks, !.live = calls]
             \/ new = [r EXCEPT !.pc = "done", !.err = err, !.live = calls]
      BY <1>2, <2>1 DEF AskAgain, Fail, ExchangeRecord
    <3> HIDE DEF calls, reasks
    <3> QED
      BY <1>1, <1>2, <1>5, <3>1 DEF ExchangeRecord
  <2>2. CASE ~\E err \in Errors : new = AskAgain(x, err)
    <3>1. PICK p \in Values : new = [r EXCEPT !.pc = "put", !.live = calls,
                                               !.held = [NoEntry EXCEPT !.raw = p]]
      BY <1>4, <2>2
    <3> DEFINE held == [NoEntry EXCEPT !.raw = p]
    <3>2. held \in EntrySet /\ held.verdict = NoValue /\ held.raw \in Values
      BY DEF NoEntry, EntrySet
    <3> HIDE DEF held, calls
    <3>3. MayFile(x, held)
      BY <3>2 DEF MayFile
    <3>4. new = [r EXCEPT !.pc = "put", !.live = calls, !.held = held]
      BY <3>1 DEF held
    <3>5. /\ new \in ExchangeRecord /\ new.began = r.began /\ new.failed = r.failed
          /\ new.pc = "put" /\ new.held = held
      BY <1>2, <1>5, <3>2, <3>4 DEF ExchangeRecord
    <3> QED
      BY <3>3, <3>5
  <2> QED
    BY <2>1, <2>2
<1>7. Sound(x, new, gstore)
  BY <1>2, <1>6, FreeMoves DEF Free
<1> QED
  BY <1>1, <1>4, <1>6, <1>7, StepKeeps

\* An exchange that has not begun is sound, whatever the store holds.
LEMMA IdleIsSound ==
    ASSUME NEW x \in Exchanges, NEW store
    PROVE  IdleExchange \in ExchangeRecord /\ Sound(x, IdleExchange, store)
<1>1. NoEntry \in EntrySet /\ IdleExchange.began = NoEntry /\ IdleExchange.pc = "idle"
  BY DEF NoEntry, EntrySet, IdleExchange
<1>2. ~Serves(ExchangeKind[x], NoEntry)
  BY <1>1, ServesWhat DEF NoEntry
<1>3. IdleExchange \in ExchangeRecord
  BY <1>1 DEF IdleExchange, ExchangeRecord, Errors
<1> QED
  BY <1>1, <1>2, <1>3 DEF Sound

LEMMA BeginGradingRunKeeps ==
    ASSUME GraderInv, NEW mode, NEW on, BeginGradingRun(mode, on)
    PROVE  GraderInv'
<1>1. UNCHANGED <<gstore, ghad>> /\ ex' = [x \in Exchanges |-> IdleExchange]
  BY DEF BeginGradingRun
<1>2. StoreType' /\ StoreStands'
  BY <1>1 DEF GraderInv, StoreType, StoreStands, MayFile, FromOld
<1>3. ex' \in [Exchanges -> ExchangeRecord]
  BY <1>1, IdleIsSound
<1>4. ASSUME NEW x \in Exchanges
      PROVE  Sound(x, ex[x], gstore)'
  <2>1. Sound(x, IdleExchange, gstore')
    BY IdleIsSound
  <2>2. ex'[x] = IdleExchange /\ ghad' = ghad
    BY <1>1
  <2> QED
    BY <2>1, <2>2 DEF Sound, MayFile, FromOld
<1> QED
  BY <1>2, <1>3, <1>4 DEF GraderInv

\* What the invariant says of the property.
LEMMA GraderInvStands ==
    GraderInv => StoredVerdictsStand
BY DEF GraderInv, StoreStands, Sound, MayFile, FromOld, Lookup, StoredVerdictsStand

\* StoredVerdictsStand, for any exchanges, requests, stores and number of runs: an
\* entry that today's parser accepts decides every later exchange of its request
\* that the store does not fail, nothing stored is written over, and only accepted
\* payloads and older verdicts are filed (cached_exchange, adopt_legacy, fresh_entry).
THEOREM StoredVerdictsStandCorrect == GraderSpec => []StoredVerdictsStand
<1>1. GraderInit => GraderInv
  <2> SUFFICES ASSUME GraderInit
               PROVE  GraderInv
    OBVIOUS
  <2>1. gstore \in [GraderKeys -> EntrySet] /\ ghad = gstore
    BY ExchangeAssumption DEF GraderInit
  <2>2. StoreType /\ StoreStands
    BY <2>1 DEF StoreType, StoreStands
  <2>3. ex = [x \in Exchanges |-> IdleExchange]
    BY DEF GraderInit
  <2> QED
    BY <2>2, <2>3, IdleIsSound DEF GraderInv
<1>2. GraderInv /\ [GraderNext]_gvars => GraderInv'
  <2> SUFFICES ASSUME GraderInv, [GraderNext]_gvars
               PROVE  GraderInv'
    OBVIOUS
  <2>1. ASSUME NEW x \in Exchanges, ExchangeStep(x)
        PROVE  GraderInv'
    BY <2>1, BeginExchangeKeeps, GetTodayKeeps, ProbeCanonicalKeeps, ProbeVerdictKeeps,
       RefileKeeps, AskLiveKeeps, StoreFreshKeeps DEF ExchangeStep
  <2>2. ASSUME NEW mode, NEW on, BeginGradingRun(mode, on)
        PROVE  GraderInv'
    BY <2>2, BeginGradingRunKeeps
  <2>3. CASE UNCHANGED gvars
    BY <2>3 DEF gvars, GraderInv, StoreType, StoreStands, Sound, MayFile, FromOld
  <2> QED
    BY <2>1, <2>2, <2>3 DEF GraderNext
<1> QED
  BY <1>1, <1>2, GraderInvStands, PTL DEF GraderSpec
=============================================================================
