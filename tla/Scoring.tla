------------------------------- MODULE Scoring -------------------------------
(***************************************************************************)
(* The verdict of one case (domarinn-core/src/scoring.rs, asserts.rs,      *)
(* assertion.rs and the order of evaluation in runner_asserts.rs): local   *)
(* asserts are scored first, then the graded ones are either all graded or *)
(* all skipped, when they can no longer change the outcome.                *)
(*                                                                         *)
(* A slice of Scored values only ever reaches a verdict through its sums,  *)
(* so it is kept as those sums.  Scores are integers 0..Top instead of     *)
(* floats in [0, 1]; thresholds are in the same unit.                      *)
(***************************************************************************)
EXTENDS Integers

CONSTANTS
    Top,          \* the score of a full pass
    Weights,      \* weights an assert may carry
    Thresholds,   \* thresholds a test may set
    ShortCircuit, \* runner.short_circuit
    MaxLocal,     \* bound: local asserts of the case
    MaxGraded     \* bound: graded asserts of the case

NoThreshold == -1

ASSUME ScoringAssumption ==
    /\ Top \in Nat \ {0}
    /\ Weights \subseteq Nat
    /\ Thresholds \subseteq Nat
    /\ ShortCircuit \in BOOLEAN
    /\ MaxLocal \in Nat
    /\ MaxGraded \in Nat

VARIABLES
    phase,      \* "local", then "graded" or "skipped", then "done"
    threshold,  \* the test's threshold
    blank,      \* the output is empty, with a reason and without tool calls
    locals,     \* local asserts scored
    pending,    \* graded asserts not reached yet ...
    remaining,  \* ... and the sum of their weights
    tally,      \* the sums of the asserts scored
    erred,      \* a grader failed
    verdict,    \* CaseVerdict.passed, once phase is "skipped" or "done"
    full,       \* history: the sums had nothing been skipped
    negated     \* history: a negated assert on the output was evaluated

vars == <<phase, threshold, blank, locals, pending, remaining, tally, erred, verdict,
          full, negated>>

-----------------------------------------------------------------------------
\* AssertOutcome: a pass or a fail, broken when it could not be evaluated.
Outcome(score, passed, broken) == [score |-> score, passed |-> passed, broken |-> broken]
LocalOutcomes == {Outcome(Top, TRUE, FALSE), Outcome(0, FALSE, FALSE), Outcome(0, FALSE, TRUE)}
GradedOutcomes == [score : 0..Top, passed : BOOLEAN, broken : {FALSE}]

\* AssertOutcome::negated.
NegatedOutcome(o, negate) ==
    IF negate /\ ~o.broken THEN Outcome(Top - o.score, ~o.passed, FALSE) ELSE o

\* AssertOutcome::deny_vacuous_negated_pass where guard_applies.
DenyVacuous(o, negate, exempt) ==
    IF blank /\ ~exempt /\ negate /\ o.passed THEN Outcome(0, FALSE, FALSE) ELSE o

\* negate_and_guard.
NegateAndGuard(o, negate, exempt) == DenyVacuous(NegatedOutcome(o, negate), negate, exempt)

\* The sums over a slice of Scored, and the slice with one more element.
NoneScored == [weight |-> 0, sum |-> 0, allPassed |-> TRUE]
Scored(s, w, o) == [weight    |-> s.weight + w,
                    sum       |-> s.sum + w * o.score,
                    allPassed |-> s.allPassed /\ o.passed]

\* case_verdict with weighted_mean: nothing weighed scores a full pass.
MeanReaches(s, t) == IF s.weight = 0 THEN Top >= t ELSE s.sum >= t * s.weight
CaseVerdict(s, t) == IF t = NoThreshold THEN s.allPassed ELSE MeanReaches(s, t)

\* remaining_can_change_outcome.
CanChangeOverDone(s, r, t) ==           \* mutant: bounds over the weight done so far
    /\ r > 0
    /\ IF t = NoThreshold THEN s.allPassed
       ELSE s.sum + Top * r >= t * s.weight /\ s.sum < t * s.weight
RemainingCanChangeOutcome(s, r, t) ==
    /\ r > 0
    /\ IF t = NoThreshold
       THEN s.allPassed
       ELSE /\ s.sum + Top * r >= t * (s.weight + r)
            /\ s.sum < t * (s.weight + r)

Matters == ~ShortCircuit \/ RemainingCanChangeOutcome(tally, remaining, threshold)

-----------------------------------------------------------------------------
Init ==
    /\ phase = "local"
    /\ threshold \in Thresholds \cup {NoThreshold}
    /\ blank \in BOOLEAN
    /\ locals = 0
    /\ pending = 0
    /\ remaining = 0
    /\ tally = NoneScored
    /\ erred = FALSE
    /\ verdict = FALSE
    /\ full = NoneScored
    /\ negated = FALSE

\* A local assert is evaluated; a metric one never reads the output.
ScoreLocal(w, raw, negate, metric) ==
    /\ phase = "local"
    /\ locals < MaxLocal
    /\ LET o == NegateAndGuard(raw, negate, metric)
       IN  /\ tally' = Scored(tally, w, o)
           /\ full' = Scored(full, w, o)
    /\ negated' = (negated \/ (negate /\ ~metric))
    /\ locals' = locals + 1
    /\ UNCHANGED <<phase, threshold, blank, pending, remaining, erred, verdict>>

\* A graded assert is put off until the local ones are scored.
Defer(w) ==
    /\ phase = "local"
    /\ pending < MaxGraded
    /\ pending' = pending + 1
    /\ remaining' = remaining + w
    /\ UNCHANGED <<phase, threshold, blank, locals, tally, erred, verdict, full, negated>>

\* The one decision whether the graded asserts still matter.
Decide ==
    /\ phase = "local"
    /\ \/ /\ Matters
          /\ phase' = "graded"
          /\ UNCHANGED verdict
       \/ /\ ~Matters
          /\ phase' = "skipped"
          /\ verdict' = CaseVerdict(tally, threshold)
    /\ UNCHANGED <<threshold, blank, locals, pending, remaining, tally, erred, full, negated>>

\* The next graded assert, whose weight is part of the remaining sum.  Where the
\* case skipped it, this is the verdict that its grader would have given.
NextGraded(w) ==
    /\ pending > 0
    /\ w <= remaining
    /\ pending = 1 => w = remaining
    /\ pending' = pending - 1
    /\ remaining' = remaining - w

Grade(w, raw, negate) ==
    /\ phase \in {"graded", "skipped"}
    /\ NextGraded(w)
    /\ LET o == NegateAndGuard(raw, negate, FALSE)
       IN  /\ tally' = IF phase = "graded" THEN Scored(tally, w, o) ELSE tally
           /\ full' = Scored(full, w, o)
    /\ negated' = (negated \/ negate)
    /\ UNCHANGED <<phase, threshold, blank, locals, erred, verdict>>

\* A grader that cannot answer makes the case an error, and scores nothing.
GraderFails(w) ==
    /\ phase = "graded"
    /\ NextGraded(w)
    /\ erred' = TRUE
    /\ UNCHANGED <<phase, threshold, blank, locals, tally, verdict, full, negated>>

\* case_verdict, once every assert was dealt with.
Finish ==
    /\ phase \in {"graded", "skipped"}
    /\ pending = 0
    /\ phase' = "done"
    /\ verdict' = IF phase = "graded" THEN CaseVerdict(tally, threshold) ELSE verdict
    /\ UNCHANGED <<threshold, blank, locals, pending, remaining, tally, erred, full, negated>>

Next ==
    \/ \E w \in Weights, raw \in LocalOutcomes, negate, metric \in BOOLEAN :
          ScoreLocal(w, raw, negate, metric)
    \/ \E w \in Weights : Defer(w) \/ GraderFails(w)
    \/ Decide
    \/ \E w \in Weights, raw \in GradedOutcomes, negate \in BOOLEAN : Grade(w, raw, negate)
    \/ Finish

Spec == Init /\ [][Next]_vars

-----------------------------------------------------------------------------
Sums == [weight : Nat, sum : Nat, allPassed : BOOLEAN]

\* Every variable has its type, and no mean exceeds a full pass.
TypeOK ==
    /\ phase \in {"local", "graded", "skipped", "done"}
    /\ threshold \in Thresholds \cup {NoThreshold}
    /\ blank \in BOOLEAN
    /\ locals \in Nat
    /\ pending \in Nat
    /\ remaining \in Nat
    /\ tally \in Sums /\ tally.sum <= Top * tally.weight
    /\ erred \in BOOLEAN
    /\ verdict \in BOOLEAN
    /\ full \in Sums /\ full.sum <= Top * full.weight
    /\ negated \in BOOLEAN

\* Short-circuiting never changes a case's verdict: had the skipped asserts been
\* graded, whatever their graders said, the case would have ended the same.
ShortCircuitIsInvisible ==
    phase = "done" /\ ~erred => verdict = CaseVerdict(full, threshold)

==============================================================================
