----------------------------- MODULE GateProofs -----------------------------
(***************************************************************************)
(* The exit code of `domarinn run` says what happened, and the gate and    *)
(* the server agree on what regressed, for any processes, runs and         *)
(* arguments.                                                              *)
(***************************************************************************)
EXTENDS RunGate, FiniteSetTheorems, WellFoundedInduction, TLAPS

(* The strings there are; the provers do not know that a literal is one.   *)
Texts == STRING \cup {"", "s"} \cup {PRECEDENCE[p] : p \in DOMAIN PRECEDENCE}

CaseType == [key : STRING, status : Statuses, class : Seq(Texts), fallback : BOOLEAN, output : STRING,
             prompt : Seq(STRING), provider : Seq(STRING), asserts : Seq(STRING)]
RunType == [project : Texts, suite : Texts, branch : Texts, cases : Seq(CaseType), finished : Nat]

-----------------------------------------------------------------------------
(* Counting.                                                               *)

(***************************************************************************)
(* What a count of the cases of a run says about them.                     *)
(***************************************************************************)
LEMMA Counts ==
  ASSUME NEW S, NEW s \in Seq(S), NEW T \in SUBSET DOMAIN s
  PROVE  /\ IsFiniteSet(T) /\ Cardinality(T) \in Nat
         /\ Cardinality(T) > 0 <=> T # {}
         /\ Cardinality(DOMAIN s \ T) = Len(s) - Cardinality(T)
<1>1. Len(s) \in Nat /\ DOMAIN s = 1..Len(s)
  OBVIOUS
<1>2. IsFiniteSet(DOMAIN s) /\ Cardinality(DOMAIN s) = Len(s)
  <2> DEFINE n == Len(s)
  <2>1. n \in Nat /\ DOMAIN s = 1..n
    BY <1>1
  <2> HIDE DEF n
  <2>2. IsFiniteSet(1..n) /\ Cardinality(1..n) = IF 1 > n THEN 0 ELSE n - 1 + 1
    BY <2>1, FS_Interval
  <2>3. IsFiniteSet(1..n) /\ Cardinality(1..n) = n
    BY <2>1, <2>2
  <2> QED BY <2>1, <2>3 DEF n
<1>3. IsFiniteSet(T)
  BY <1>2, FS_Subset
<1>4. Cardinality(T) \in Nat
  BY <1>3, FS_CardinalityType
<1>5. Cardinality(T) = 0 <=> T = {}
  BY <1>3, FS_EmptySet
<1>6. DOMAIN s \cap T = T
  OBVIOUS
<1>7. Cardinality(DOMAIN s \ T) = Cardinality(DOMAIN s) - Cardinality(T)
  <2> DEFINE D == DOMAIN s
  <2>1. IsFiniteSet(D) /\ D \cap T = T
    BY <1>2, <1>6
  <2> HIDE DEF D
  <2>2. Cardinality(D \ T) = Cardinality(D) - Cardinality(D \cap T)
    BY <2>1, FS_Difference
  <2> QED BY <2>1, <2>2 DEF D
<1> QED BY <1>2, <1>3, <1>4, <1>5, <1>7

(***************************************************************************)
(* A set of positions has a first one.                                     *)
(***************************************************************************)
LEMMA MinIsIn ==
  ASSUME NEW T \in SUBSET Nat, T # {}
  PROVE  Min(T) \in T /\ \A n \in T : Min(T) <= n
<1> DEFINE Less == OpToRel(<, Nat)
<1>1. \A x, y \in Nat : x < y => <<x, y>> \in Less
  BY DEF OpToRel
<1>2. IsWellFoundedOn(Less, Nat)
  BY NatLessThanWellFounded
<1> HIDE DEF Less
<1>3. \E x \in T : \A y \in T : ~(<<y, x>> \in Less)
  BY <1>2, WFMin
<1>4. PICK x \in T : \A y \in T : ~(<<y, x>> \in Less)
  BY <1>3
<1>5. \A y \in T : ~(y < x)
  BY <1>1, <1>4
<1>6. \A y \in T : x =< y
  BY <1>5
<1> QED BY <1>6 DEF Min

(***************************************************************************)
(* most_specific gives at most one class.                                  *)
(***************************************************************************)
LEMMA MostSpecificType ==
  ASSUME NEW S, NEW classes \in Seq(S), PRECEDENCE \in Seq(S)
  PROVE  most_specific(classes) \in Seq(S)
<1> DEFINE harness == {i \in DOMAIN classes : gate_fault(classes[i]) = "harness"}
           pool == IF harness = {} THEN DOMAIN classes ELSE harness
           ranked == {p \in DOMAIN PRECEDENCE : \E i \in pool : classes[i] = PRECEDENCE[p]}
<1>1. pool \in SUBSET Nat /\ pool \subseteq DOMAIN classes
  <2>1. DOMAIN classes \in SUBSET Nat
    OBVIOUS
  <2>2. pool \subseteq DOMAIN classes
    OBVIOUS
  <2> QED BY <2>1, <2>2
<1>3. ranked \in SUBSET Nat /\ ranked \subseteq DOMAIN PRECEDENCE
  OBVIOUS
<1>4. most_specific(classes) = IF pool = {} THEN <<>>
           ELSE <<IF ranked # {} THEN PRECEDENCE[Min(ranked)] ELSE classes[Min(pool)]>>
  BY DEF most_specific
<1> HIDE DEF pool, ranked, harness
<1>5. ASSUME pool # {} PROVE classes[Min(pool)] \in S
  <2>1. Min(pool) \in pool
    BY <1>1, <1>5, MinIsIn
  <2>2. \A i \in pool : classes[i] \in S
    BY <1>1
  <2> QED BY <2>1, <2>2
<1>6. ASSUME ranked # {} PROVE PRECEDENCE[Min(ranked)] \in S
  <2>1. Min(ranked) \in ranked
    BY <1>3, <1>6, MinIsIn
  <2>2. \A i \in ranked : PRECEDENCE[i] \in S
    BY <1>3
  <2> QED BY <2>1, <2>2
<1> QED BY <1>4, <1>5, <1>6

(***************************************************************************)
(* A key names the last of its cases, and there is one.                    *)
(***************************************************************************)
LEMMA LastOfKey ==
  ASSUME NEW s \in Seq(CaseType), NEW k \in Keys(s)
  PROVE  \E i \in DOMAIN s : s[i].key = k /\ IsLast(s, i)
<1> DEFINE FromEnd == {Len(s) - i : i \in {n \in DOMAIN s : s[n].key = k}}
<1>1. FromEnd \in SUBSET Nat /\ FromEnd # {}
  BY DEF Keys
<1>2. PICK m \in FromEnd : \A n \in FromEnd : m <= n
  <2> HIDE DEF FromEnd
  <2>1. Min(FromEnd) \in FromEnd /\ \A n \in FromEnd : Min(FromEnd) <= n
    BY <1>1, MinIsIn
  <2> QED BY <2>1
<1>3. PICK i \in DOMAIN s : s[i].key = k /\ m = Len(s) - i
  OBVIOUS
<1>4. \A n \in DOMAIN s : s[n].key = k => m <= Len(s) - n
  BY <1>2
<1>5. Len(s) \in Nat /\ \A n \in DOMAIN s : n \in Nat
  OBVIOUS
<1>6. IsLast(s, i)
  BY <1>3, <1>4, <1>5 DEF IsLast
<1> QED BY <1>3, <1>6

LEMMA CaseOfLast ==
  ASSUME NEW s \in Seq(CaseType), NEW i \in DOMAIN s, IsLast(s, i)
  PROVE  CaseOf(s, s[i].key) = s[i]
<1> DEFINE Is(n) == s[n].key = s[i].key /\ \A j \in (n + 1)..Len(s) : s[j].key # s[i].key
<1>1. Is(i)
  BY DEF IsLast
<1>2. \A n \in DOMAIN s : Is(n) => n = i
  BY DEF IsLast
<1>3. (CHOOSE n \in DOMAIN s : Is(n)) = i
  <2> HIDE DEF Is
  <2> QED BY <1>1, <1>2
<1> QED BY <1>3 DEF CaseOf

LEMMA CaseOfKey ==
  ASSUME NEW s \in Seq(CaseType), UniqueKeys(s), NEW i \in DOMAIN s
  PROVE  IsLast(s, i) /\ CaseOf(s, s[i].key) = s[i]
<1>1. IsLast(s, i)
  BY DEF UniqueKeys, IsLast
<1> QED BY <1>1, CaseOfLast

(***************************************************************************)
(* The types of the model's constants are included in the ones above.      *)
(***************************************************************************)
LEMMA SeqGrows ==
  ASSUME NEW S, NEW T, S \subseteq T, NEW s \in Seq(S)
  PROVE  s \in Seq(T)
OBVIOUS

LEMMA CasesAreTyped ==
  ASSUME NEW s \in Seq(RunCase)
  PROVE  s \in Seq(CaseType)
<1>1. ASSUME NEW c \in RunCase PROVE c \in CaseType
  <2>1. c.class \in Seq(Texts)
    <3>1. c.class \in Seq(STRING)
      BY DEF RunCase
    <3>2. STRING \subseteq Texts
      BY DEF Texts
    <3> QED BY <3>1, <3>2, SeqGrows
  <2> QED BY <2>1 DEF RunCase, CaseType
<1> QED BY <1>1, SeqGrows

LEMMA RunsAreTyped ==
  ASSUME NEW r \in Run
  PROVE  r \in RunType
<1>1. r.cases \in Seq(RunCase)
  BY DEF Run
<1>2. r.cases \in Seq(CaseType)
  BY <1>1, CasesAreTyped
<1> QED BY <1>2 DEF Run, RunType, Texts

LEMMA NoRunIsTyped == NoRun \in RunType
<1>1. <<>> \in Seq(CaseType) /\ "" \in Texts
  BY DEF Texts
<1> QED BY <1>1 DEF NoRun, RunType

LEMMA NoRunIsEmpty == DOMAIN NoRun.cases = {}
<1>1. NoRun.cases = <<>>
  BY DEF NoRun
<1> QED BY <1>1

LEMMA MadeCasesAreTyped ==
  ASSUME NEW s \in Seq(RunCase)
  PROVE  [i \in DOMAIN s |-> [s[i] EXCEPT !.class = most_specific(@)]] \in Seq(CaseType)
<1>1. s \in Seq(CaseType)
  BY CasesAreTyped
<1>2. PRECEDENCE \in Seq(Texts)
  <2>0. DOMAIN PRECEDENCE = 1..5
    BY DEF PRECEDENCE
  <2>1. \A p \in 1..5 : PRECEDENCE[p] \in Texts
    BY <2>0 DEF Texts
  <2>2. PRECEDENCE = [p \in 1..5 |-> PRECEDENCE[p]]
    BY DEF PRECEDENCE
  <2> HIDE DEF PRECEDENCE
  <2> QED BY <2>1, <2>2
<1>3. ASSUME NEW i \in DOMAIN s PROVE [s[i] EXCEPT !.class = most_specific(@)] \in CaseType
  <2>1. s[i] \in CaseType
    BY <1>1
  <2>2. s[i].class \in Seq(Texts)
    BY <2>1 DEF CaseType
  <2>3. most_specific(s[i].class) \in Seq(Texts)
    BY <1>2, <2>2, MostSpecificType
  <2> QED BY <2>1, <2>3 DEF CaseType
<1> DEFINE made(i) == [s[i] EXCEPT !.class = most_specific(@)]
<1>4. \A i \in DOMAIN s : made(i) \in CaseType
  BY <1>3
<1>5. Len(s) \in Nat /\ DOMAIN s = 1..Len(s)
  OBVIOUS
<1> HIDE DEF made
<1>6. [i \in DOMAIN s |-> made(i)] \in Seq(CaseType)
  BY <1>4, <1>5
<1> QED BY <1>6 DEF made

-----------------------------------------------------------------------------
(* The exit code, as a function of the cases.                              *)

(***************************************************************************)
(* The counts of a summary that the exit code looks at.                    *)
(***************************************************************************)
LEMMA SummaryCounts ==
  ASSUME NEW s \in Seq(CaseType)
  PROVE  /\ summarize(s).fail > 0 <=> \E i \in DOMAIN s : s[i].status = "fail"
         /\ summarize(s).xpass > 0 <=> \E i \in DOMAIN s : s[i].status = "xpass"
<1>1. WithStatus(s, "fail") = {i \in DOMAIN s : s[i].status = "fail"} /\ WithStatus(s, "xpass") = {i \in DOMAIN s : s[i].status = "xpass"}
  BY DEF WithStatus, Where
<1>2. Cardinality({i \in DOMAIN s : s[i].status = "fail"}) > 0 <=> \E i \in DOMAIN s : s[i].status = "fail"
  <2> DEFINE T == {i \in DOMAIN s : s[i].status = "fail"}
  <2>1. T \in SUBSET DOMAIN s
    OBVIOUS
  <2>2. Cardinality(T) > 0 <=> T # {}
    <3> HIDE DEF T
    <3> QED BY <2>1, Counts
  <2> QED BY <2>2
<1>3. Cardinality({i \in DOMAIN s : s[i].status = "xpass"}) > 0 <=> \E i \in DOMAIN s : s[i].status = "xpass"
  <2> DEFINE T == {i \in DOMAIN s : s[i].status = "xpass"}
  <2>1. T \in SUBSET DOMAIN s
    OBVIOUS
  <2>2. Cardinality(T) > 0 <=> T # {}
    <3> HIDE DEF T
    <3> QED BY <2>1, Counts
  <2> QED BY <2>2
<1>4. summarize(s).fail = Cardinality(WithStatus(s, "fail")) /\ summarize(s).xpass = Cardinality(WithStatus(s, "xpass"))
  BY DEF summarize
<1> QED BY <1>1, <1>2, <1>3, <1>4

(***************************************************************************)
(* A run with cases in which nothing was answered by its own provider      *)
(* graded nothing or was answered by fallbacks alone.                      *)
(***************************************************************************)
LEMMA NothingAnswered ==
  ASSUME NEW s \in Seq(CaseType), s # <<>>, ~ \E i \in DOMAIN s : Answered(s[i])
  PROVE  graded_nothing(summarize(s)) \/ answered_entirely_by_fallbacks(summarize(s))
<1> DEFINE skipped == {i \in DOMAIN s : s[i].status = "skip"}
           fell == {i \in DOMAIN s : s[i].status # "skip" /\ s[i].fallback}
<1>1. summarize(s).total = Len(s) /\ summarize(s).skip = Cardinality(skipped)
      /\ summarize(s).fallback_cases = Cardinality(fell)
  BY DEF summarize, WithStatus, Where
<1>2. fell = DOMAIN s \ skipped
  BY DEF Answered
<1>3. skipped \in SUBSET DOMAIN s
  OBVIOUS
<1>4. Len(s) \in Nat /\ Len(s) > 0
  OBVIOUS
<1> HIDE DEF skipped, fell
<1>5. Cardinality(fell) = Len(s) - Cardinality(skipped) /\ Cardinality(skipped) \in Nat
  BY <1>2, <1>3, Counts
<1>6. fell \in SUBSET DOMAIN s
  BY <1>2
<1>7. Cardinality(fell) \in Nat
  BY <1>6, Counts
<1>8. CASE Cardinality(skipped) = Len(s)
  BY <1>1, <1>4, <1>8 DEF graded_nothing
<1>9. CASE Cardinality(skipped) # Len(s)
  BY <1>1, <1>4, <1>5, <1>7, <1>9 DEF answered_entirely_by_fallbacks
<1> QED BY <1>8, <1>9

(***************************************************************************)
(* worst_gate_fault by the errored cases.                                  *)
(***************************************************************************)
LEMMA Faults ==
  ASSUME NEW s \in Seq(CaseType)
  PROVE  /\ worst_gate_fault(s) \in {"none", "harness", "suite"}
         /\ worst_gate_fault(s) = "none" <=> ~ \E i \in DOMAIN s : Errored(s[i])
         /\ worst_gate_fault(s) = "harness" <=> \E i \in DOMAIN s : HarnessBroke(s[i])
<1> DEFINE fault(i) == IF s[i].class = <<>> THEN "harness" ELSE gate_fault(s[i].class[1])
<1>1. FaultsOf(s) = {fault(i) : i \in {n \in DOMAIN s : s[n].status = "error"}}
  BY DEF FaultsOf, WithStatus, Where
<1>2. \A i \in DOMAIN s : HarnessBroke(s[i]) <=> (s[i].status = "error" /\ fault(i) = "harness")
  BY DEF HarnessBroke, gate_fault
<1> HIDE DEF fault
<1>3. FaultsOf(s) = {} <=> ~ \E i \in DOMAIN s : Errored(s[i])
  BY <1>1 DEF Errored
<1>4. "harness" \in FaultsOf(s) <=> \E i \in DOMAIN s : HarnessBroke(s[i])
  BY <1>1, <1>2
<1>5. /\ FaultsOf(s) = {} => worst_gate_fault(s) = "none"
      /\ "harness" \in FaultsOf(s) => worst_gate_fault(s) = "harness"
      /\ FaultsOf(s) # {} /\ "harness" \notin FaultsOf(s) => worst_gate_fault(s) = "suite"
  BY DEF worst_gate_fault
<1> QED BY <1>3, <1>4, <1>5

-----------------------------------------------------------------------------
(* The comparison.                                                         *)

(***************************************************************************)
(* A case of the head regressed when the base's case of its key passed.    *)
(***************************************************************************)
LEMMA Deltas ==
  ASSUME NEW base \in Seq(CaseType), NEW c \in CaseType
  PROVE  /\ DeltaOf(base, c) = "newly_failing" <=>
               \E i \in DOMAIN base : base[i].key = c.key /\ IsLast(base, i) /\ passed(base[i].status) /\ ~ passed(c.status)
         /\ DeltaOf(base, c) = "newly_passing" <=>
               \E i \in DOMAIN base : base[i].key = c.key /\ IsLast(base, i) /\ ~ passed(base[i].status) /\ passed(c.status)
<1>1. CASE c.key \notin Keys(base)
  <2>1. ~ \E i \in DOMAIN base : base[i].key = c.key
    BY <1>1 DEF Keys
  <2>2. DeltaOf(base, c) = "added"
    BY <1>1 DEF DeltaOf
  <2> QED BY <2>1, <2>2
<1>2. CASE c.key \in Keys(base)
  <2>1. PICK n \in DOMAIN base : base[n].key = c.key /\ IsLast(base, n)
    BY <1>2, LastOfKey
  <2>2. CaseOf(base, c.key) = base[n]
    BY <2>1, CaseOfLast
  <2>3. \A i \in DOMAIN base : base[i].key = c.key /\ IsLast(base, i) => i = n
    BY <2>1 DEF IsLast
  <2> DEFINE b == passed(base[n].status)
             h == passed(c.status)
  <2>4. b \in BOOLEAN /\ h \in BOOLEAN
    BY DEF passed
  <2>5. DeltaOf(base, c) = CASE b /\ ~ h -> "newly_failing" [] ~ b /\ h -> "newly_passing"
                              [] ~ b /\ ~ h -> "still_failing" [] b /\ h -> "unchanged"
    BY <1>2, <2>2 DEF DeltaOf
  <2> HIDE DEF b, h
  <2>6. (DeltaOf(base, c) = "newly_failing" <=> b /\ ~ h) /\ (DeltaOf(base, c) = "newly_passing" <=> ~ b /\ h)
    BY <2>4, <2>5
  <2> QED BY <2>1, <2>3, <2>6 DEF b, h
<1> QED BY <1>1, <1>2

(***************************************************************************)
(* What the gate counts as a regression.                                   *)
(***************************************************************************)
LEMMA Regressions ==
  ASSUME NEW base \in Seq(CaseType), NEW head \in Seq(CaseType)
  PROVE  has_regression(diff_runs(base, head)) <=>
            \E n \in DOMAIN head : \E i \in DOMAIN base :
               base[i].key = head[n].key /\ IsLast(base, i) /\ passed(base[i].status) /\ ~ passed(head[n].status)
<1> DEFINE T == {n \in DOMAIN head : DeltaOf(base, head[n]) = "newly_failing"}
<1>1. diff_runs(base, head).summary.newly_failing = Cardinality(T)
  BY DEF diff_runs, Where
<1>2. T \in SUBSET DOMAIN head
  OBVIOUS
<1>3. Cardinality(T) > 0 <=> T # {}
  <2> HIDE DEF T
  <2> QED BY <1>2, Counts
<1>4. T # {} <=> \E n \in DOMAIN head : DeltaOf(base, head[n]) = "newly_failing"
  OBVIOUS
<1>5. \A n \in DOMAIN head : DeltaOf(base, head[n]) = "newly_failing" <=>
         \E i \in DOMAIN base : base[i].key = head[n].key /\ IsLast(base, i) /\ passed(base[i].status) /\ ~ passed(head[n].status)
  BY Deltas
<1> QED BY <1>1, <1>3, <1>4, <1>5 DEF has_regression

(***************************************************************************)
(* What the server shows as moved.                                         *)
(***************************************************************************)
LEMMA Classified ==
  ASSUME NEW base \in Seq(CaseType), UniqueKeys(base), NEW head \in Seq(CaseType), UniqueKeys(head), NEW k
  PROVE  /\ classify(base, head, k) = "newly_failing" <=>
               /\ k \in Keys(base) /\ k \in Keys(head)
               /\ is_passing(CaseOf(base, k).status) /\ is_failing(CaseOf(head, k).status)
         /\ classify(base, head, k) = "newly_passing" <=>
               /\ k \in Keys(base) /\ k \in Keys(head)
               /\ is_failing(CaseOf(base, k).status) /\ is_passing(CaseOf(head, k).status)
<1> DEFINE b == CaseOf(base, k).status
           h == CaseOf(head, k).status
<1>1. CASE k \notin Keys(base)
  BY <1>1 DEF classify
<1>2. CASE k \in Keys(base) /\ k \notin Keys(head)
  BY <1>2 DEF classify
<1>3. CASE k \in Keys(base) /\ k \in Keys(head)
  <2>1. classify(base, head, k) =
           CASE is_passing(b) /\ is_failing(h) -> "newly_failing"
             [] is_failing(b) /\ is_passing(h) -> "newly_passing"
             [] is_failing(b) /\ is_failing(h) -> "still_failing"
             [] is_passing(b) /\ is_passing(h) -> "still_passing"
             [] OTHER -> "unchanged"
    BY <1>3 DEF classify
  <2> HIDE DEF b, h
  <2>2. ~ (is_passing(b) /\ is_failing(b)) /\ ~ (is_passing(h) /\ is_failing(h))
    BY DEF is_passing, is_failing
  <2>3. is_passing(b) \in BOOLEAN /\ is_failing(b) \in BOOLEAN /\ is_passing(h) \in BOOLEAN /\ is_failing(h) \in BOOLEAN
    BY DEF is_passing, is_failing
  <2>4. (classify(base, head, k) = "newly_failing" <=> is_passing(b) /\ is_failing(h))
        /\ (classify(base, head, k) = "newly_passing" <=> is_failing(b) /\ is_passing(h))
    BY <2>1, <2>2, <2>3
  <2> QED BY <1>3, <2>4 DEF b, h
<1> QED BY <1>1, <1>2, <1>3

(***************************************************************************)
(* The keys with a delta of the gate.                                      *)
(***************************************************************************)
LEMMA Moved ==
  ASSUME NEW base \in Seq(CaseType), UniqueKeys(base), NEW head \in Seq(CaseType), UniqueKeys(head), NEW k
  PROVE  /\ k \in diff_runs(base, head).regressed <=>
               /\ k \in Keys(base) /\ k \in Keys(head)
               /\ passed(CaseOf(base, k).status) /\ ~ passed(CaseOf(head, k).status)
         /\ k \in diff_runs(base, head).fixed <=>
               /\ k \in Keys(base) /\ k \in Keys(head)
               /\ ~ passed(CaseOf(base, k).status) /\ passed(CaseOf(head, k).status)
<1>1. diff_runs(base, head).regressed = {head[n].key : n \in {m \in DOMAIN head : DeltaOf(base, head[m]) = "newly_failing"}}
  BY DEF diff_runs, Where
<1>2. diff_runs(base, head).fixed = {head[n].key : n \in {m \in DOMAIN head : DeltaOf(base, head[m]) = "newly_passing"}}
  BY DEF diff_runs, Where
<1>3. \A n \in DOMAIN head : CaseOf(head, head[n].key) = head[n]
  BY CaseOfKey
<1>4. \A i \in DOMAIN base : CaseOf(base, base[i].key) = base[i]
  BY CaseOfKey
<1>5. \A n \in DOMAIN head :
         /\ DeltaOf(base, head[n]) = "newly_failing" <=>
              \E i \in DOMAIN base : base[i].key = head[n].key /\ passed(base[i].status) /\ ~ passed(head[n].status)
         /\ DeltaOf(base, head[n]) = "newly_passing" <=>
              \E i \in DOMAIN base : base[i].key = head[n].key /\ ~ passed(base[i].status) /\ passed(head[n].status)
  <2>1. \A i \in DOMAIN base : IsLast(base, i)
    BY CaseOfKey
  <2> QED BY <2>1, Deltas
<1>6. (k \in Keys(base) <=> \E i \in DOMAIN base : base[i].key = k) /\ (k \in Keys(head) <=> \E n \in DOMAIN head : head[n].key = k)
  BY DEF Keys
<1>7. k \in diff_runs(base, head).regressed <=>
         \E n \in DOMAIN head : head[n].key = k /\ DeltaOf(base, head[n]) = "newly_failing"
  BY <1>1
<1>8. k \in diff_runs(base, head).fixed <=>
         \E n \in DOMAIN head : head[n].key = k /\ DeltaOf(base, head[n]) = "newly_passing"
  BY <1>2
<1>9. ASSUME k \notin Keys(base) \/ k \notin Keys(head)
      PROVE  k \notin diff_runs(base, head).regressed /\ k \notin diff_runs(base, head).fixed
  BY <1>5, <1>6, <1>7, <1>8, <1>9
<1>10. ASSUME NEW i \in DOMAIN base, NEW n \in DOMAIN head, base[i].key = k, head[n].key = k
       PROVE  /\ k \in diff_runs(base, head).regressed <=> passed(base[i].status) /\ ~ passed(head[n].status)
              /\ k \in diff_runs(base, head).fixed <=> ~ passed(base[i].status) /\ passed(head[n].status)
  <2>1. \A m \in DOMAIN head : head[m].key = k => m = n
    BY <1>10 DEF UniqueKeys
  <2>2. \A m \in DOMAIN base : base[m].key = k => m = i
    BY <1>10 DEF UniqueKeys
  <2> QED BY <1>5, <1>7, <1>8, <1>10, <2>1, <2>2
<1>11. CASE k \in Keys(base) /\ k \in Keys(head)
  <2>1. PICK i \in DOMAIN base : base[i].key = k
    BY <1>6, <1>11
  <2>2. PICK n \in DOMAIN head : head[n].key = k
    BY <1>6, <1>11
  <2>3. CaseOf(base, k) = base[i] /\ CaseOf(head, k) = head[n]
    BY <1>3, <1>4, <2>1, <2>2
  <2> QED BY <1>10, <1>11, <2>1, <2>2, <2>3
<1> QED BY <1>9, <1>11

(***************************************************************************)
(* The status of a case that a key names.                                  *)
(***************************************************************************)
LEMMA StatusOfKey ==
  ASSUME NEW s \in Seq(CaseType), UniqueKeys(s), NEW k \in Keys(s)
  PROVE  CaseOf(s, k).status \in Statuses
<1>1. PICK i \in DOMAIN s : s[i].key = k
  BY DEF Keys
<1>2. CaseOf(s, k) = s[i]
  BY <1>1, CaseOfKey
<1>3. s[i] \in CaseType
  OBVIOUS
<1> QED BY <1>2, <1>3 DEF CaseType

LEMMA NothingIsSignificant ==
  ASSUME NEW base \in Seq(CaseType), NEW head \in Seq(CaseType),
         diff_runs(base, head).regressed = {}, diff_runs(base, head).fixed = {}
  PROVE  ~ diff_runs(base, head).mcnemar.significant
<1> DEFINE F == {m \in DOMAIN head : DeltaOf(base, head[m]) = "newly_failing"}
           P == {m \in DOMAIN head : DeltaOf(base, head[m]) = "newly_passing"}
<1>1. /\ diff_runs(base, head).regressed = {head[n].key : n \in F}
      /\ diff_runs(base, head).fixed = {head[n].key : n \in P}
      /\ diff_runs(base, head).mcnemar = mcnemar(Cardinality(F), Cardinality(P))
  BY DEF diff_runs, Where
<1> HIDE DEF F, P
<1>2. F = {} /\ P = {}
  BY <1>1
<1>3. Cardinality(F) = 0 /\ Cardinality(P) = 0
  BY <1>2, FS_EmptySet
<1>4. ~ mcnemar(0, 0).significant
  <2> DEFINE X == 1000 * 0 * 0 > 3841 * (0 + 0)
  <2>1. mcnemar(0, 0) = [regressions |-> 0, fixes |-> 0, significant |-> X]
    <3>1. (0 >= 0) = TRUE /\ 0 - 0 - 1 = -1 /\ (-1 < 0) = TRUE
      OBVIOUS
    <3> QED BY <3>1 DEF mcnemar
  <2>2. X = FALSE
    OBVIOUS
  <2> HIDE DEF X
  <2>3. mcnemar(0, 0).significant = X
    BY <2>1
  <2> QED BY <2>2, <2>3
<1> QED BY <1>1, <1>3, <1>4

LEMMA Agreement ==
  ASSUME NEW base \in Seq(CaseType), UniqueKeys(base), NEW head \in Seq(CaseType), UniqueKeys(head)
  PROVE  GateAndServerAgree(base, head)
<1> DEFINE rows == compare_runs(base, head, <<"g">>, <<"g">>).rows
           diff == diff_runs(base, head)
           all == Keys(base) \cup Keys(head)
           shown(d) == {r.key : r \in {x \in rows : x.delta = d}}
           aside == {"skip", "xfail"}
           change(k) == IF k \in Keys(base) \cap Keys(head)
                        THEN classify_change(CaseOf(base, k), CaseOf(head, k), <<"g">>, <<"g">>)
                        ELSE "unknown"
           row(k) == [key |-> k, delta |-> classify(base, head, k), change |-> change(k)]
<1>1. ASSUME NEW d PROVE \A k : k \in shown(d) <=> k \in all /\ classify(base, head, k) = d
  <2>1. rows = {row(k) : k \in all}
    BY DEF compare_runs
  <2>2. \A k : row(k).key = k /\ row(k).delta = classify(base, head, k)
    BY Zenon
  <2> HIDE DEF rows, row, all
  <2> QED BY <2>1, <2>2
<1>2. \A k \in Keys(base) : CaseOf(base, k).status \in Statuses
  BY StatusOfKey
<1>3. \A k \in Keys(head) : CaseOf(head, k).status \in Statuses
  BY StatusOfKey
<1>4. \A st \in Statuses : (is_passing(st) <=> passed(st)) /\ (is_failing(st) <=> ~ passed(st) /\ st \notin aside)
  BY DEF Statuses, is_passing, is_failing, passed
<1>5. \A k : /\ k \in diff.regressed <=>
                  /\ k \in Keys(base) /\ k \in Keys(head)
                  /\ passed(CaseOf(base, k).status) /\ ~ passed(CaseOf(head, k).status)
             /\ k \in diff.fixed <=>
                  /\ k \in Keys(base) /\ k \in Keys(head)
                  /\ ~ passed(CaseOf(base, k).status) /\ passed(CaseOf(head, k).status)
  BY Moved
<1>6. \A k : /\ classify(base, head, k) = "newly_failing" <=>
                  /\ k \in Keys(base) /\ k \in Keys(head)
                  /\ is_passing(CaseOf(base, k).status) /\ is_failing(CaseOf(head, k).status)
             /\ classify(base, head, k) = "newly_passing" <=>
                  /\ k \in Keys(base) /\ k \in Keys(head)
                  /\ is_failing(CaseOf(base, k).status) /\ is_passing(CaseOf(head, k).status)
  BY Classified
<1>7. diff.mcnemar.significant => diff.regressed \cup diff.fixed # {}
  BY NothingIsSignificant
<1> HIDE DEF diff, rows, shown
<1>8. shown("newly_failing") = {k \in diff.regressed : CaseOf(head, k).status \notin aside}
  <2>1. \A k : k \in shown("newly_failing") <=> k \in all /\ classify(base, head, k) = "newly_failing"
    BY <1>1, Zenon
  <2> HIDE DEF shown, aside
  <2> QED BY <2>1, <1>2, <1>3, <1>4, <1>5, <1>6
<1>9. shown("newly_passing") = {k \in diff.fixed : CaseOf(base, k).status \notin aside}
  <2>1. \A k : k \in shown("newly_passing") <=> k \in all /\ classify(base, head, k) = "newly_passing"
    BY <1>1, Zenon
  <2> HIDE DEF shown, aside
  <2> QED BY <2>1, <1>2, <1>3, <1>4, <1>5, <1>6
<1> QED BY <1>7, <1>8, <1>9 DEF GateAndServerAgree, diff, rows, shown

-----------------------------------------------------------------------------
(* The inductive invariant.                                                *)

Pcs == {"start", "run", "persist", "write", "point", "emit", "compare", "share",
        "persist_again", "write_again", "point_again", "exit", "ended"}
AllRunIds == RunIds \cup DOMAIN ServerRuns
BaseType == [is : {"base", "absent", "failed"}, ids : SUBSET AllRunIds, cases : Seq(CaseType)]
JobType == [pc : Pcs, args : RunArgs, base : BaseType, regressed : BOOLEAN, share_failed : BOOLEAN,
            exit : {-1, 0, 1, 2, 3, 130}]

GateTypeOK ==
    /\ job \in [Jobs -> JobType]
    /\ result \in [RunIds -> RunType]
    /\ file \in [RunIds -> {"absent", "torn", "whole"}]
    /\ clock \in Nat
    /\ published \subseteq Jobs

(* A process before its run ends has made nothing, and nobody has seen it; *)
(* after that its run does not change.                                     *)
Settled(r) == r \in Jobs => job[r].pc \notin {"start", "run"}
OnlySettledAreSeen ==
    /\ \A r \in RunIds : file[r] # "absent" => Settled(r)
    /\ \A r \in published : Settled(r)
    /\ \A j \in Jobs : ~ Settled(j) => result[j] = NoRun /\ job[j].base = Absent /\ job[j].exit = -1

(* A base that a run with this id and this suite may be compared with.     *)
GoodBase(base, id, head) ==
    /\ base \in BaseType
    /\ base.is # "base" => base.cases = <<>>
    /\ \A r \in base.ids : /\ r # id /\ Settled(r)
                            /\ RunOf(r).project = head.project /\ RunOf(r).suite = head.suite

Compares(j) ==
    /\ GoodBase(job[j].base, j, result[j])
    /\ job[j].regressed <=> (job[j].base.is = "base" /\ has_regression(diff_runs(job[j].base.cases, result[j].cases)))

(* What a process knows on its way to the exit code.                       *)
Knows(j) ==
    LET a == job[j].args
    IN /\ a.against # <<>> /\ a.against[1].at = "run" => a.against[1].what # j
       /\ job[j].pc \notin {"start", "run", "ended"} /\ result[j].cases = <<>> => a.allow_empty
       /\ job[j].pc \in {"persist_again", "write_again", "point_again"} => j \in published
       /\ job[j].pc = "exit" /\ a.share /\ ~ a.allow_share_failure /\ ~ job[j].share_failed => j \in published
       /\ job[j].pc # "ended" => job[j].exit = -1

GateInv ==
    /\ GateTypeOK /\ OnlySettledAreSeen
    /\ \A j \in Jobs : Compares(j) /\ Knows(j) /\ HonestExit(j)

-----------------------------------------------------------------------------
(* References.                                                             *)

(***************************************************************************)
(* What is listed of a finite set has no element twice.                    *)
(***************************************************************************)
LEMMA Listing ==
  ASSUME NEW S, IsFiniteSet(S)
  PROVE  /\ SetToSeq(S) \in Seq(S)
         /\ \A m, n \in DOMAIN SetToSeq(S) : SetToSeq(S)[m] = SetToSeq(S)[n] => m = n
<1>1. Cardinality(S) \in Nat /\ ExistsBijection(1..Cardinality(S), S)
  BY FS_CardinalityType
<1>2. \E f \in [1..Cardinality(S) -> S] : IsInjective(f)
  BY <1>1 DEF ExistsBijection, Bijection, Injection
<1>3. SetToSeq(S) \in [1..Cardinality(S) -> S] /\ IsInjective(SetToSeq(S))
  BY <1>2 DEF SetToSeq
<1> QED BY <1>1, <1>3 DEF IsInjective

(***************************************************************************)
(* merge_branch_runs keeps one case of a key, from the runs it was given.  *)
(***************************************************************************)
LEMMA Merging ==
  ASSUME GateTypeOK, NEW runs, runs \subseteq RunIds, NEW rank \in NewestFirst(runs)
  PROVE  LET merged == merge_branch_runs(runs, rank)
         IN merged.ids \subseteq runs /\ merged.cases \in Seq(CaseType) /\ UniqueKeys(merged.cases)
<1> DEFINE rows(r) == {r} \X DOMAIN result[r].cases
           newest == {r \in runs : rank[r] <= BRANCH_LOOKBACK}
           offered == UNION {rows(r) : r \in newest}
           case(x) == result[x[1]].cases[x[2]]
           before(x, y) == rank[x[1]] < rank[y[1]] \/ (x[1] = y[1] /\ x[2] < y[2])
           kept == {x \in offered : \A y \in offered : before(y, x) => case(y).key # case(x).key}
           listed == SetToSeq(kept)
           merged == merge_branch_runs(runs, rank)
<1>1. merged = [ids |-> {x[1] : x \in kept}, cases |-> [n \in DOMAIN listed |-> case(listed[n])]]
  BY DEF merge_branch_runs
<1>2. ASSUME NEW r \in runs PROVE result[r].cases \in Seq(CaseType)
  BY <1>2 DEF GateTypeOK, RunType
<1>3. ASSUME NEW x \in offered PROVE x[1] \in runs /\ x[2] \in Nat /\ x[2] \in DOMAIN result[x[1]].cases /\ x = <<x[1], x[2]>>
  <2>1. PICK r \in newest : x \in rows(r)
    OBVIOUS
  <2>2. result[r].cases \in Seq(CaseType)
    BY <1>2
  <2>3. x[1] = r /\ x[2] \in DOMAIN result[r].cases /\ x = <<x[1], x[2]>>
    BY <2>1
  <2> QED BY <2>2, <2>3
<1>4. ASSUME NEW x \in offered PROVE case(x) \in CaseType
  BY <1>2, <1>3
<1>5. \A x, y \in offered : x = y \/ before(x, y) \/ before(y, x)
  <2> SUFFICES ASSUME NEW x \in offered, NEW y \in offered PROVE x = y \/ before(x, y) \/ before(y, x)
    OBVIOUS
  <2> HIDE DEF offered
  <2>1. x[1] \in runs /\ y[1] \in runs /\ x[2] \in Nat /\ y[2] \in Nat /\ x = <<x[1], x[2]>> /\ y = <<y[1], y[2]>>
    BY <1>3
  <2>2. rank \in [runs -> 1..Cardinality(runs)] /\ \A q, r \in runs : q # r => rank[q] # rank[r]
    BY DEF NewestFirst
  <2>3. \A r \in runs : rank[r] \in Int
    BY <2>2
  <2>4. CASE x[1] = y[1]
    BY <2>1, <2>4
  <2>5. CASE x[1] # y[1]
    BY <2>1, <2>2, <2>3, <2>5
  <2> QED BY <2>4, <2>5
<1>6. IsFiniteSet(offered)
  <2> DEFINE all == {rows(r) : r \in newest}
             f == [r \in newest |-> rows(r)]
  <2>1. IsFiniteSet(newest)
    <3>1. IsFiniteSet(RunIds)
      BY RunsAssumption, FS_Union DEF RunIds
    <3>2. newest \in SUBSET RunIds
      OBVIOUS
    <3> HIDE DEF newest
    <3> QED BY <3>1, <3>2, FS_Subset
  <2>2. IsFiniteSet(all)
    <3>1. f \in Surjection(newest, all)
      BY DEF Surjection
    <3> HIDE DEF f, all
    <3> QED BY <2>1, <3>1, FS_Surjection
  <2>3. ASSUME NEW T \in all PROVE IsFiniteSet(T)
    <3>1. PICK r \in newest : T = rows(r)
      OBVIOUS
    <3> DEFINE d == DOMAIN result[r].cases
    <3>2. IsFiniteSet(d)
      <4>1. d \in SUBSET DOMAIN result[r].cases
        OBVIOUS
      <4> QED BY <1>2, <4>1, Counts
    <3>3. IsFiniteSet({r})
      BY FS_Singleton
    <3> HIDE DEF d
    <3>4. IsFiniteSet({r} \X d)
      BY <3>2, <3>3, FS_Product
    <3> QED BY <3>1, <3>4 DEF d
  <2> HIDE DEF all
  <2>4. IsFiniteSet(UNION all)
    BY <2>2, <2>3, FS_UNION
  <2> QED BY <2>4 DEF all
<1> HIDE DEF offered
<1>7. IsFiniteSet(kept) /\ kept \subseteq offered
  <2>1. kept \subseteq offered
    OBVIOUS
  <2> HIDE DEF kept
  <2> QED BY <2>1, <1>6, FS_Subset
<1>8. \A x, y \in kept : case(x).key = case(y).key => x = y
  <2> HIDE DEF before, case
  <2> QED BY <1>5
<1> HIDE DEF kept
<1>9. listed \in Seq(kept) /\ \A m, n \in DOMAIN listed : listed[m] = listed[n] => m = n
  BY <1>7, Listing
<1> HIDE DEF listed, merged, before, rows
<1>10. merged.ids \subseteq runs
  BY <1>1, <1>3, <1>7
<1>11. merged.cases = [n \in DOMAIN listed |-> case(listed[n])]
  BY <1>1
<1>12. \A n \in DOMAIN listed : listed[n] \in kept /\ case(listed[n]) \in CaseType
  BY <1>4, <1>7, <1>9
<1>13. merged.cases \in Seq(CaseType)
  <2> HIDE DEF case
  <2> QED BY <1>9, <1>11, <1>12
<1>14. UniqueKeys(merged.cases)
  <2> HIDE DEF case
  <2> QED BY <1>8, <1>9, <1>11, <1>12 DEF UniqueKeys
<1> QED BY <1>10, <1>13, <1>14 DEF merged

LEMMA NoBase ==
  ASSUME NEW id, NEW head
  PROVE  GoodBase(Absent, id, head) /\ GoodBase(Failed, id, head)
<1>1. <<>> \in Seq(CaseType)
  OBVIOUS
<1>2. Absent \in BaseType /\ Failed \in BaseType
  BY <1>1 DEF Absent, Failed, BaseType
<1> QED BY <1>2 DEF GoodBase, Absent, Failed

(***************************************************************************)
(* Every run there is to compare with is one.                              *)
(***************************************************************************)
LEMMA RunsOfAll ==
  ASSUME GateTypeOK, OnlySettledAreSeen, NEW r \in AllRunIds
  PROVE  RunOf(r) \in RunType /\ RunOf(r).cases \in Seq(CaseType)
<1>1. CASE r \in RunIds
  BY <1>1 DEF RunOf, GateTypeOK, OnlySettledAreSeen, RunType
<1>2. CASE r \notin RunIds
  <2>1. r \in DOMAIN ServerRuns /\ RunOf(r) = ServerRuns[r]
    BY <1>2 DEF AllRunIds, RunOf
  <2>2. ServerRuns[r] \in Run
    BY <2>1, RunsAssumption
  <2>3. ServerRuns[r] \in RunType
    BY <2>2, RunsAreTyped
  <2> QED BY <2>1, <2>2, <2>3 DEF RunType
<1> QED BY <1>1, <1>2

LEMMA OneRun ==
  ASSUME GateTypeOK, OnlySettledAreSeen, NEW id, NEW head, NEW r \in AllRunIds, r # id, Settled(r),
         RunOf(r).project = head.project, RunOf(r).suite = head.suite
  PROVE  GoodBase(Compared({r}, RunOf(r).cases), id, head)
<1>1. RunOf(r).cases \in Seq(CaseType)
  BY RunsOfAll
<1> DEFINE cs == RunOf(r).cases
           base == Compared({r}, cs)
<1>2. cs \in Seq(CaseType)
  BY <1>1
<1> HIDE DEF cs
<1>3. base = [is |-> "base", ids |-> {r}, cases |-> cs]
  BY DEF Compared
<1> HIDE DEF base
<1>4. base \in BaseType
  BY <1>2, <1>3 DEF BaseType
<1>5. GoodBase(base, id, head)
  BY <1>2, <1>3, <1>4 DEF GoodBase
<1> QED BY <1>5 DEF base, cs

(***************************************************************************)
(* A run in the directory is made, and so is one on the server.            *)
(***************************************************************************)
LEMMA Scanned ==
  ASSUME GateTypeOK, OnlySettledAreSeen, NEW r \in scan
  PROVE  r \in RunIds /\ r \in AllRunIds /\ Settled(r) /\ RunOf(r) = result[r]
BY DEF scan, Stored, OnlySettledAreSeen, AllRunIds, RunOf

LEMMA Served ==
  ASSUME GateTypeOK, OnlySettledAreSeen, NEW r \in OnServer
  PROVE  r \in AllRunIds /\ Settled(r)
<1>1. CASE r \in published
  BY <1>1 DEF GateTypeOK, OnlySettledAreSeen, AllRunIds, RunIds
<1>2. CASE r \in DOMAIN ServerRuns
  BY <1>2, NewIdsAssumption DEF AllRunIds, Settled
<1> QED BY <1>1, <1>2 DEF OnServer

LEMMA Fetched ==
  ASSUME GateTypeOK, OnlySettledAreSeen, NEW id, NEW head, NEW server, NEW branch,
         NEW base \in from_server(id, head, server, branch)
  PROVE  GoodBase(base, id, head)
<1> DEFINE Fits(r) == RunOf(r).project = head.project /\ RunOf(r).suite = head.suite
           One(r) == Compared({r}, RunOf(r).cases)
<1>1. ASSUME NEW r \in OnServer, r # id, Fits(r) PROVE GoodBase(One(r), id, head)
  BY <1>1, Served, OneRun
<1>2. \A b \in fetch_legacy(id, head) : b = Failed \/ b = Absent \/ \E r \in OnServer : r # id /\ Fits(r) /\ b = One(r)
  BY DEF fetch_legacy
<1> HIDE DEF One
<1>3. \A b \in fetch_export(id, head, branch) :
         b = Failed \/ b = Absent \/ \E r \in OnServer : r # id /\ Fits(r) /\ b = One(r)
  <2> SUFFICES ASSUME NEW b \in fetch_export(id, head, branch), b # Failed, b # Absent, b \notin fetch_legacy(id, head)
               PROVE  \E r \in OnServer : r # id /\ Fits(r) /\ b = One(r)
    BY <1>2
  <2>1. PICK r \in OnServer : b = CASE r = id -> Absent
            [] r # id /\ (RunOf(r).project # head.project \/ RunOf(r).suite # head.suite) -> Failed
            [] OTHER -> One(r)
    BY DEF fetch_export, One
  <2>2. r # id
    BY <2>1
  <2>3. Fits(r)
    BY <2>1, <2>2
  <2>4. b = One(r)
    BY <2>1, <2>2, <2>3
  <2> QED BY <2>2, <2>3, <2>4
<1>4. base \in fetch_export(id, head, branch) \/ base = Failed
  BY DEF from_server
<1> HIDE DEF Fits
<1> QED BY <1>1, <1>3, <1>4, NoBase

(***************************************************************************)
(* Whatever a reference leads to is another run of the suite, or none.     *)
(***************************************************************************)
LEMMA Resolved ==
  ASSUME GateTypeOK, OnlySettledAreSeen, NEW ref, NEW id, NEW head, NEW server,
         ref.at \in {"server", "local", "latest", "run"}, ref.at = "run" => ref.what # id,
         NEW base \in resolve(ref, id, head, server)
  PROVE  GoodBase(base, id, head)
<1>1. CASE ref.at = "server"
  <2>1. base = Failed \/ base \in from_server(id, head, server, ref.what # "baseline")
    BY <1>1 DEF resolve
  <2> QED BY <2>1, Fetched, NoBase
<1>2. CASE ref.at = "local"
  <2>1. CASE ref.what = ""
    <3>1. base = Failed
      BY <1>2, <2>1 DEF resolve
    <3> QED BY <3>1, NoBase
  <2>2. CASE ref.what # ""
    <3> DEFINE runs == runs_on_branch(id, head, ref.what)
    <3>1. PICK rank \in NewestFirst(runs) :
             base = IF merge_branch_runs(runs, rank).ids = {} THEN Absent
                    ELSE Compared(merge_branch_runs(runs, rank).ids, merge_branch_runs(runs, rank).cases)
      BY <1>2, <2>2 DEF resolve
    <3>2. \A r \in runs : r \in scan /\ r # id /\ SameSuite(r, head)
      BY DEF runs_on_branch
    <3> HIDE DEF runs
    <3>3. \A r \in runs : r \in RunIds /\ r \in AllRunIds /\ Settled(r) /\ r # id
                           /\ RunOf(r).project = head.project /\ RunOf(r).suite = head.suite
      BY <3>2, Scanned DEF SameSuite
    <3> DEFINE merged == merge_branch_runs(runs, rank)
    <3>4. merged.ids \subseteq runs /\ merged.cases \in Seq(CaseType) /\ UniqueKeys(merged.cases)
      <4>1. runs \subseteq RunIds
        BY <3>3
      <4> QED BY <4>1, Merging
    <3>5. base = Absent \/ base = Compared(merged.ids, merged.cases)
      BY <3>1
    <3> HIDE DEF merged
    <3>6. ASSUME base = Compared(merged.ids, merged.cases) PROVE GoodBase(base, id, head)
      <4>1. base = [is |-> "base", ids |-> merged.ids, cases |-> merged.cases]
        BY <3>6 DEF Compared
      <4>2. merged.ids \subseteq AllRunIds
        BY <3>3, <3>4
      <4>3. base \in BaseType
        BY <3>4, <4>1, <4>2 DEF BaseType
      <4> QED BY <3>3, <3>4, <4>1, <4>3 DEF GoodBase
    <3> QED BY <3>5, <3>6, NoBase
  <2> QED BY <2>1, <2>2
<1>3. CASE ref.at = "latest"
  <2>1. base = Absent \/ \E r \in latest_for_suite(id, head) : base = Compared({r}, result[r].cases)
    BY <1>3 DEF resolve
  <2>2. ASSUME NEW r \in latest_for_suite(id, head), base = Compared({r}, result[r].cases) PROVE GoodBase(base, id, head)
    <3>1. r \in scan /\ r # id /\ SameSuite(r, head)
      BY <2>2 DEF latest_for_suite, Newest
    <3>2. r \in AllRunIds /\ Settled(r) /\ RunOf(r) = result[r]
      BY <3>1, Scanned
    <3>3. RunOf(r).project = head.project /\ RunOf(r).suite = head.suite
      BY <3>1, <3>2 DEF SameSuite
    <3> QED BY <2>2, <3>1, <3>2, <3>3, OneRun
  <2> QED BY <2>1, <2>2, NoBase
<1>4. CASE ref.at = "run"
  <2>1. base = Failed \/ \E r \in load_run(ref.what) : SameSuite(r, head) /\ base = Compared({r}, result[r].cases)
    BY <1>4 DEF resolve
  <2>2. ASSUME NEW r \in load_run(ref.what), SameSuite(r, head), base = Compared({r}, result[r].cases)
        PROVE  GoodBase(base, id, head)
    <3>1. r \in scan /\ r # id
      BY <1>4, <2>2 DEF load_run
    <3>2. r \in AllRunIds /\ Settled(r) /\ RunOf(r) = result[r]
      BY <3>1, Scanned
    <3>3. RunOf(r).project = head.project /\ RunOf(r).suite = head.suite
      BY <2>2, <3>2 DEF SameSuite
    <3> QED BY <2>2, <3>1, <3>2, <3>3, OneRun
  <2> QED BY <2>1, <2>2, NoBase
<1> QED BY <1>1, <1>2, <1>3, <1>4

-----------------------------------------------------------------------------
(* The other exit codes say nothing. *)
LEMMA NoVerdict ==
  ASSUME NEW j, job[j].exit \in {-1, 3, 130}
  PROVE  HonestExit(j)
<1>1. job[j].exit # OK /\ job[j].exit # ASSERT_FAIL /\ job[j].exit # USAGE
  BY DEF OK, ASSERT_FAIL, USAGE
<1> QED BY <1>1 DEF HonestExit, Some

-----------------------------------------------------------------------------
(* Initial states.                                                         *)

LEMMA GateInvInit == GateInit => GateInv
<1> SUFFICES ASSUME GateInit PROVE GateInv
  OBVIOUS
<1>1. PICK a \in [Jobs -> UNION {Args[j] : j \in Jobs}] :
         /\ \A j \in Jobs : a[j] \in Args[j]
         /\ job = [j \in Jobs |-> [pc |-> "start", args |-> a[j], base |-> Absent, regressed |-> FALSE,
                                   share_failed |-> FALSE, exit |-> -1]]
  BY DEF GateInit
<1>2. \A j \in Jobs : a[j] \in RunArgs /\ (a[j].against # <<>> /\ a[j].against[1].at = "run" => a[j].against[1].what # j)
  BY <1>1, NewIdsAssumption
<1>3. Absent \in BaseType /\ \A j \in Jobs : GoodBase(Absent, j, result[j])
  BY NoBase DEF GoodBase
<1>4. ASSUME NEW j \in Jobs
      PROVE  /\ job[j].pc = "start" /\ job[j].args = a[j] /\ job[j].base = Absent /\ job[j].regressed = FALSE
             /\ job[j].share_failed = FALSE /\ job[j].exit = -1
  BY <1>1
<1>5. GateTypeOK
  <2>1. job \in [Jobs -> JobType]
    <3>1. ASSUME NEW j \in Jobs
          PROVE  [pc |-> "start", args |-> a[j], base |-> Absent, regressed |-> FALSE,
                  share_failed |-> FALSE, exit |-> -1] \in JobType
      BY <1>2, <1>3 DEF JobType, Pcs
    <3> QED BY <1>1, <3>1
  <2>2. result \in [RunIds -> RunType]
    <3>1. \A r \in DOMAIN Earlier : Earlier[r] \in RunType
      BY RunsAssumption, RunsAreTyped
    <3> QED BY <3>1, NoRunIsTyped DEF GateInit
  <2> QED BY <2>1, <2>2 DEF GateInit, GateTypeOK
<1>6. OnlySettledAreSeen
  <2>1. \A j \in Jobs : j \notin DOMAIN Earlier
    BY NewIdsAssumption
  <2>2. \A r \in RunIds : file[r] # "absent" => Settled(r)
    BY <2>1 DEF GateInit, Settled
  <2>3. \A j \in Jobs : result[j] = NoRun /\ job[j].base = Absent /\ job[j].exit = -1
    BY <1>4, <2>1 DEF GateInit, RunIds
  <2>4. published = {}
    BY DEF GateInit
  <2> QED BY <2>2, <2>3, <2>4 DEF OnlySettledAreSeen
<1>7. ASSUME NEW j \in Jobs PROVE Compares(j) /\ Knows(j) /\ HonestExit(j)
  <2>1. Compares(j)
    <3>1. job[j].base.is # "base" /\ ~ job[j].regressed
      <4>1. job[j].base = Absent /\ job[j].regressed = FALSE
        BY <1>4
      <4>2. Absent.is # "base"
        BY DEF Absent
      <4> QED BY <4>1, <4>2
    <3>2. GoodBase(job[j].base, j, result[j])
      BY <1>3, <1>4
    <3> QED BY <3>1, <3>2 DEF Compares
  <2>2. Knows(j)
    BY <1>2, <1>4 DEF Knows
  <2>3. HonestExit(j)
    <3>1. job[j].exit \in {-1, 3, 130}
      BY <1>4
    <3> QED BY <3>1, NoVerdict
  <2> QED BY <2>1, <2>2, <2>3
<1> QED BY <1>5, <1>6, <1>7 DEF GateInv

-----------------------------------------------------------------------------
(* Steps.                                                                  *)

(* What a step of one process leaves alone, and in which order it moves.   *)
StepOf(j) ==
    /\ GateTypeOK'
    /\ \A k \in Jobs : k # j => job'[k] = job[k]
    /\ \A r \in RunIds : r # j => result'[r] = result[r] /\ file'[r] = file[r]
    /\ published \subseteq published' /\ published' \subseteq published \cup {j}
    /\ job'[j].args = job[j].args
    /\ job[j].pc # "ended" /\ job'[j].pc # "start" /\ (job'[j].pc = "run" => job[j].pc = "start" /\ job'[j].exit = job[j].exit)
    /\ result'[j] # result[j] => job[j].pc = "run" /\ job'[j].pc = "persist"
    /\ file'[j] # file[j] \/ published' # published => job[j].pc \notin {"start", "run"}
    /\ job[j].pc # "compare" => job'[j].base = job[j].base /\ job'[j].regressed = job[j].regressed

(***************************************************************************)
(* A step that only moves one process on, without an exit code or with it. *)
(***************************************************************************)
LEMMA Going ==
  ASSUME GateInv, NEW j \in Jobs, NEW pc \in Pcs, Goes(j, pc)
  PROVE  /\ job' \in [Jobs -> JobType]
         /\ \A k \in Jobs : k # j => job'[k] = job[k]
         /\ job'[j].args = job[j].args /\ job'[j].base = job[j].base /\ job'[j].regressed = job[j].regressed
         /\ job'[j].share_failed = job[j].share_failed /\ job'[j].pc = pc /\ job'[j].exit = job[j].exit
<1>1. job \in [Jobs -> JobType] /\ job[j] \in JobType
  BY DEF GateInv, GateTypeOK
<1> QED BY <1>1 DEF JobType, Goes

LEMMA Exiting ==
  ASSUME GateInv, NEW j \in Jobs, NEW code \in {-1, 0, 1, 2, 3, 130}, Exits(j, code)
  PROVE  /\ job' \in [Jobs -> JobType]
         /\ \A k \in Jobs : k # j => job'[k] = job[k]
         /\ job'[j].args = job[j].args /\ job'[j].base = job[j].base /\ job'[j].regressed = job[j].regressed
         /\ job'[j].share_failed = job[j].share_failed /\ job'[j].pc = "ended" /\ job'[j].exit = code
<1>1. job \in [Jobs -> JobType] /\ job[j] \in JobType
  BY DEF GateInv, GateTypeOK
<1>2. job' = [job EXCEPT ![j].pc = "ended", ![j].exit = code] /\ "ended" \in Pcs
  BY DEF Exits, Pcs
<1> QED BY <1>1, <1>2 DEF JobType

(***************************************************************************)
(* What is made stays as it is.                                            *)
(***************************************************************************)
LEMMA MadeStays ==
  ASSUME GateInv, NEW j \in Jobs, StepOf(j)
  PROVE  \A r : Settled(r) => Settled(r)' /\ RunOf(r)' = RunOf(r)
<1> SUFFICES ASSUME NEW r, Settled(r) PROVE Settled(r)' /\ RunOf(r)' = RunOf(r)
  OBVIOUS
<1>1. Settled(r)'
  BY DEF Settled, StepOf
<1>2. r \in RunIds => result'[r] = result[r]
  BY DEF Settled, StepOf
<1>3. RunOf(r)' = RunOf(r)
  BY <1>2 DEF RunOf
<1> QED BY <1>1, <1>3

LEMMA SeenStays ==
  ASSUME GateInv, NEW j \in Jobs, StepOf(j)
  PROVE  OnlySettledAreSeen'
<1>1. \A r : Settled(r) => Settled(r)'
  BY MadeStays
<1>2. OnlySettledAreSeen
  BY DEF GateInv
<1>3. \A r \in RunIds : file'[r] # "absent" => Settled(r)'
  <2> SUFFICES ASSUME NEW r \in RunIds, file'[r] # "absent" PROVE Settled(r)'
    OBVIOUS
  <2>1. CASE file'[r] = file[r]
    BY <1>1, <1>2, <2>1 DEF OnlySettledAreSeen
  <2>2. CASE file'[r] # file[r]
    <3>1. r = j /\ job[j].pc \notin {"start", "run"}
      BY <2>2 DEF StepOf
    <3>2. Settled(r)
      BY <3>1 DEF Settled
    <3> QED BY <1>1, <3>2
  <2> QED BY <2>1, <2>2
<1>4. \A r \in published' : Settled(r)'
  <2> SUFFICES ASSUME NEW r \in published' PROVE Settled(r)'
    OBVIOUS
  <2>1. CASE r \in published
    BY <1>1, <1>2, <2>1 DEF OnlySettledAreSeen
  <2>2. CASE r \notin published
    <3>1. r = j /\ job[j].pc \notin {"start", "run"}
      BY <2>2 DEF StepOf
    <3>2. Settled(r)
      BY <3>1 DEF Settled
    <3> QED BY <1>1, <3>2
  <2> QED BY <2>1, <2>2
<1>5. \A k \in Jobs : ~ Settled(k)' => result'[k] = NoRun /\ job'[k].base = Absent /\ job'[k].exit = -1
  <2> SUFFICES ASSUME NEW k \in Jobs, ~ Settled(k)'
               PROVE  result'[k] = NoRun /\ job'[k].base = Absent /\ job'[k].exit = -1
    OBVIOUS
  <2>1. ~ Settled(k)
    BY <1>1
  <2>2. result[k] = NoRun /\ job[k].base = Absent /\ job[k].exit = -1
    BY <1>2, <2>1 DEF OnlySettledAreSeen
  <2>3. k \in RunIds
    BY DEF RunIds
  <2>4. CASE k # j
    BY <2>2, <2>3, <2>4 DEF StepOf
  <2>5. CASE k = j
    <3>1. job'[j].pc = "run" /\ job[j].pc = "start"
      BY <2>5 DEF StepOf, Settled
    <3>2. result'[j] = result[j] /\ job'[j].base = job[j].base /\ job'[j].exit = job[j].exit
      BY <3>1 DEF StepOf
    <3> QED BY <2>2, <2>5, <3>2
  <2> QED BY <2>4, <2>5
<1> QED BY <1>3, <1>4, <1>5 DEF OnlySettledAreSeen

(***************************************************************************)
(* A process whose comparison is not now keeps it.                         *)
(***************************************************************************)
LEMMA ComparesStays ==
  ASSUME GateInv, NEW j \in Jobs, StepOf(j), NEW k \in Jobs, k # j \/ job[j].pc # "compare"
  PROVE  Compares(k)'
<1>1. \A r : Settled(r) => Settled(r)' /\ RunOf(r)' = RunOf(r)
  BY MadeStays
<1>2. Compares(k) /\ OnlySettledAreSeen
  BY DEF GateInv
<1>3. job'[k].base = job[k].base /\ job'[k].regressed = job[k].regressed
  BY DEF StepOf
<1>4. k \in RunIds
  BY DEF RunIds
<1>5. CASE result'[k] = result[k]
  <2>1. GoodBase(job[k].base, k, result[k])
    BY <1>2 DEF Compares
  <2>2. GoodBase(job[k].base, k, result[k])'
    BY <1>1, <1>3, <1>5, <2>1 DEF GoodBase
  <2>3. job'[k].regressed <=> (job'[k].base.is = "base" /\ has_regression(diff_runs(job'[k].base.cases, result'[k].cases)))
    BY <1>2, <1>3, <1>5 DEF Compares
  <2> QED BY <2>2, <2>3 DEF Compares
<1>6. CASE result'[k] # result[k]
  <2>1. k = j /\ ~ Settled(k)
    BY <1>4, <1>6 DEF StepOf, Settled
  <2>2. job[k].base = Absent
    BY <1>2, <2>1 DEF OnlySettledAreSeen
  <2>3. job'[k].base = Absent
    BY <1>3, <2>2
  <2>4. Absent.is # "base" /\ Absent.ids = {} /\ Absent.cases = <<>>
    BY DEF Absent
  <2>5. ~ job[k].regressed
    BY <1>2, <2>2, <2>4 DEF Compares
  <2>6. Absent \in BaseType
    BY <1>2, <2>2 DEF Compares, GoodBase
  <2>7. GoodBase(job[k].base, k, result[k])'
    BY <2>3, <2>4, <2>6 DEF GoodBase
  <2>8. job'[k].regressed <=> (job'[k].base.is = "base" /\ has_regression(diff_runs(job'[k].base.cases, result'[k].cases)))
    BY <1>3, <2>3, <2>4, <2>5
  <2> QED BY <2>7, <2>8 DEF Compares
<1> QED BY <1>5, <1>6

(***************************************************************************)
(* The others know what they knew.                                         *)
(***************************************************************************)
LEMMA KnowsStays ==
  ASSUME GateInv, NEW j \in Jobs, StepOf(j), NEW k \in Jobs, k # j
  PROVE  Knows(k)'
<1>1. Knows(k)
  BY DEF GateInv
<1>2. job'[k] = job[k] /\ result'[k] = result[k] /\ published \subseteq published'
  BY DEF StepOf, RunIds
<1> QED BY <1>1, <1>2 DEF Knows

LEMMA HonestStays ==
  ASSUME GateInv, NEW j \in Jobs, StepOf(j), NEW k \in Jobs, k # j
  PROVE  HonestExit(k)'
<1>1. HonestExit(k)
  BY DEF GateInv
<1>2. job'[k] = job[k] /\ result'[k] = result[k] /\ published \subseteq published'
  BY DEF StepOf, RunIds
<1> QED BY <1>1, <1>2 DEF HonestExit, Some

LEMMA NoVerdictNext ==
  ASSUME NEW j, job'[j].exit \in {-1, 3, 130}
  PROVE  HonestExit(j)'
<1>1. job'[j].exit # OK /\ job'[j].exit # ASSERT_FAIL /\ job'[j].exit # USAGE
  BY DEF OK, ASSERT_FAIL, USAGE
<1> QED BY <1>1 DEF HonestExit, Some

(***************************************************************************)
(* So much remains to be shown of each action.                             *)
(***************************************************************************)
LEMMA StepKeeps ==
  ASSUME GateInv, NEW j \in Jobs, StepOf(j), Compares(j)', Knows(j)', HonestExit(j)'
  PROVE  GateInv'
<1>1. ASSUME NEW k \in Jobs PROVE Compares(k)' /\ Knows(k)' /\ HonestExit(k)'
  <2>1. CASE k = j
    BY <2>1
  <2>2. CASE k # j
    BY <2>2, ComparesStays, KnowsStays, HonestStays
  <2> QED BY <2>1, <2>2
<1>2. GateTypeOK'
  BY DEF StepOf
<1> QED BY <1>1, <1>2, SeenStays DEF GateInv

-----------------------------------------------------------------------------
(* The actions.                                                            *)

LEMMA StartKeeps ==
  ASSUME GateInv, NEW j \in Jobs, Start(j)
  PROVE  GateInv'
<1>1. job[j].pc = "start" /\ UNCHANGED <<result, file, pointer, clock, published>> /\ (Exits(j, USAGE) \/ Goes(j, "run"))
  BY DEF Start
<1>2. job[j] \in JobType /\ GateTypeOK /\ Knows(j) /\ result[j] = NoRun /\ job[j].exit = -1
  <2>1. ~ Settled(j)
    BY <1>1 DEF Settled
  <2> QED BY <2>1 DEF GateInv, GateTypeOK, OnlySettledAreSeen
<1>3. CASE Exits(j, USAGE)
  <2>1. USAGE \in {-1, 0, 1, 2, 3, 130}
    BY DEF USAGE
  <2>2. /\ job' \in [Jobs -> JobType]
        /\ \A k \in Jobs : k # j => job'[k] = job[k]
        /\ job'[j].args = job[j].args /\ job'[j].base = job[j].base /\ job'[j].regressed = job[j].regressed
        /\ job'[j].share_failed = job[j].share_failed /\ job'[j].pc = "ended" /\ job'[j].exit = USAGE
    BY <1>3, <2>1, Exiting
  <2>3. StepOf(j)
    BY <1>1, <1>2, <2>2 DEF StepOf, GateTypeOK
  <2>4. Compares(j)'
    BY <1>1, <2>3, ComparesStays
  <2>5. Knows(j)'
    BY <1>2, <2>2 DEF Knows
  <2>6. HonestExit(j)'
    <3>1. DOMAIN result'[j].cases = {}
      BY <1>1, <1>2, NoRunIsEmpty
    <3> QED BY <2>2, <3>1 DEF HonestExit, Some, OK, ASSERT_FAIL, USAGE
  <2> QED BY <2>3, <2>4, <2>5, <2>6, StepKeeps
<1>4. CASE Goes(j, "run")
  <2>1. "run" \in Pcs
    BY DEF Pcs
  <2>2. /\ job' \in [Jobs -> JobType]
        /\ \A k \in Jobs : k # j => job'[k] = job[k]
        /\ job'[j].args = job[j].args /\ job'[j].base = job[j].base /\ job'[j].regressed = job[j].regressed
        /\ job'[j].share_failed = job[j].share_failed /\ job'[j].pc = "run" /\ job'[j].exit = job[j].exit
    BY <1>4, <2>1, Going
  <2>3. StepOf(j)
    BY <1>1, <1>2, <2>2 DEF StepOf, GateTypeOK
  <2>4. Compares(j)'
    BY <1>1, <2>3, ComparesStays
  <2>5. Knows(j)'
    BY <1>2, <2>2 DEF Knows
  <2>6. HonestExit(j)'
    BY <1>2, <2>2, NoVerdictNext
  <2> QED BY <2>3, <2>4, <2>5, <2>6, StepKeeps
<1> QED BY <1>1, <1>3, <1>4

LEMMA RunSuiteKeeps ==
  ASSUME GateInv, NEW j \in Jobs, RunSuite(j)
  PROVE  GateInv'
<1>1. job[j].pc = "run" /\ UNCHANGED <<file, pointer, published>>
  BY DEF RunSuite
<1>2. job[j] \in JobType /\ GateTypeOK /\ Knows(j) /\ result[j] = NoRun /\ job[j].exit = -1 /\ j \in RunIds
  <2>1. ~ Settled(j)
    BY <1>1 DEF Settled
  <2> QED BY <2>1 DEF GateInv, GateTypeOK, OnlySettledAreSeen, RunIds
<1>3. ASSUME NEW code \in {130, USAGE, INFRA}, Exits(j, code), UNCHANGED <<result, clock>>
      PROVE  GateInv'
  <2>1. code \in {-1, 0, 1, 2, 3, 130} /\ code \notin {OK, ASSERT_FAIL}
    BY <1>3 DEF OK, ASSERT_FAIL, USAGE, INFRA
  <2>2. /\ job' \in [Jobs -> JobType]
        /\ \A k \in Jobs : k # j => job'[k] = job[k]
        /\ job'[j].args = job[j].args /\ job'[j].base = job[j].base /\ job'[j].regressed = job[j].regressed
        /\ job'[j].share_failed = job[j].share_failed /\ job'[j].pc = "ended" /\ job'[j].exit = code
    BY <1>3, <2>1, Exiting
  <2>3. StepOf(j)
    BY <1>1, <1>2, <1>3, <2>2 DEF StepOf, GateTypeOK
  <2>4. Compares(j)'
    BY <1>1, <2>3, ComparesStays
  <2>5. Knows(j)'
    BY <1>2, <2>2 DEF Knows
  <2>6. HonestExit(j)'
    <3>1. DOMAIN result'[j].cases = {}
      BY <1>2, <1>3, NoRunIsEmpty
    <3> QED BY <2>1, <2>2, <3>1 DEF HonestExit, Some
  <2> QED BY <2>3, <2>4, <2>5, <2>6, StepKeeps
<1>4. ASSUME NEW cases \in Outcomes[j], cases = <<>> => job[j].args.allow_empty, Goes(j, "persist"), clock' = clock + 1,
             result' = [result EXCEPT ![j] =
                 [project |-> job[j].args.project, suite |-> "s", branch |-> job[j].args.branch, finished |-> clock,
                  cases |-> [i \in DOMAIN cases |-> [cases[i] EXCEPT !.class = most_specific(@)]]]]
      PROVE  GateInv'
  <2>1. "persist" \in Pcs
    BY DEF Pcs
  <2>2. /\ job' \in [Jobs -> JobType]
        /\ \A k \in Jobs : k # j => job'[k] = job[k]
        /\ job'[j].args = job[j].args /\ job'[j].base = job[j].base /\ job'[j].regressed = job[j].regressed
        /\ job'[j].share_failed = job[j].share_failed /\ job'[j].pc = "persist" /\ job'[j].exit = job[j].exit
    BY <1>4, <2>1, Going
  <2> DEFINE made == [i \in DOMAIN cases |-> [cases[i] EXCEPT !.class = most_specific(@)]]
             run == [project |-> job[j].args.project, suite |-> "s", branch |-> job[j].args.branch, finished |-> clock, cases |-> made]
  <2>3. cases \in Seq(RunCase)
    BY RunsAssumption
  <2>4. made \in Seq(CaseType)
    BY <2>3, MadeCasesAreTyped
  <2>6. made = <<>> => cases = <<>>
    <3>1. DOMAIN made = DOMAIN cases
      OBVIOUS
    <3> HIDE DEF made
    <3>2. made = <<>> => DOMAIN cases = {}
      BY <3>1
    <3> QED BY <2>3, <3>2
  <2>7. result' = [result EXCEPT ![j] = run]
    BY <1>4
  <2> HIDE DEF made
  <2>8. run \in RunType
    <3>1. "s" \in Texts /\ STRING \subseteq Texts
      BY DEF Texts
    <3>2. job[j].args.project \in STRING /\ job[j].args.branch \in STRING /\ clock \in Nat
      BY <1>2 DEF JobType, RunArgs, GateTypeOK
    <3> QED BY <2>4, <3>1, <3>2 DEF RunType
  <2>9. run.cases = made
    OBVIOUS
  <2> HIDE DEF run
  <2>10. result' \in [RunIds -> RunType] /\ result'[j] = run /\ \A r \in RunIds : r # j => result'[r] = result[r]
    BY <1>2, <2>7, <2>8 DEF GateTypeOK
  <2>11. GateTypeOK'
    BY <1>1, <1>2, <1>4, <2>2, <2>10 DEF GateTypeOK
  <2>12. StepOf(j)
    BY <1>1, <2>2, <2>9, <2>10, <2>11 DEF StepOf
  <2>13. Compares(j)'
    BY <1>1, <2>12, ComparesStays
  <2>14. Knows(j)'
    BY <1>2, <1>4, <2>2, <2>6, <2>9, <2>10 DEF Knows
  <2>15. HonestExit(j)'
    BY <1>2, <2>2, NoVerdictNext
  <2> QED BY <2>12, <2>13, <2>14, <2>15, StepKeeps
<1> QED BY <1>3, <1>4 DEF RunSuite

(***************************************************************************)
(* Steps between the run and the exit code that touch a file at most.      *)
(***************************************************************************)
LEMMA GoingOn ==
  ASSUME GateInv, NEW j \in Jobs, NEW pc \in Pcs \ {"start", "run", "ended"}, Goes(j, pc),
         job[j].pc \notin {"start", "run", "ended", "compare"}, UNCHANGED <<result, published, clock>>,
         NEW what \in {"absent", "torn", "whole"}, file' = file \/ file' = [file EXCEPT ![j] = what],
         pc \in {"persist_again", "write_again", "point_again", "exit"} => j \in published
  PROVE  GateInv'
<1>1. job[j] \in JobType /\ GateTypeOK /\ Knows(j) /\ j \in RunIds
  BY DEF GateInv, GateTypeOK, RunIds
<1>2. /\ job' \in [Jobs -> JobType]
      /\ \A k \in Jobs : k # j => job'[k] = job[k]
      /\ job'[j].args = job[j].args /\ job'[j].base = job[j].base /\ job'[j].regressed = job[j].regressed
      /\ job'[j].share_failed = job[j].share_failed /\ job'[j].pc = pc /\ job'[j].exit = job[j].exit
  BY Going
<1>3. file' \in [RunIds -> {"absent", "torn", "whole"}] /\ \A r \in RunIds : r # j => file'[r] = file[r]
  BY <1>1 DEF GateTypeOK
<1>4. GateTypeOK'
  BY <1>1, <1>2, <1>3 DEF GateTypeOK
<1>5. StepOf(j)
  BY <1>2, <1>3, <1>4 DEF StepOf
<1>6. Compares(j)'
  BY <1>5, ComparesStays
<1>7. Knows(j)'
  BY <1>1, <1>2 DEF Knows
<1>8. job[j].exit = -1
  BY <1>1 DEF Knows
<1>9. HonestExit(j)'
  BY <1>2, <1>8, NoVerdictNext
<1> QED BY <1>5, <1>6, <1>7, <1>9, StepKeeps

(***************************************************************************)
(* Where a failure to store the run leads to.                              *)
(***************************************************************************)
LEMMA AfterStoring ==
  ASSUME GateInv, NEW j \in Jobs,
         job[j].pc \in {"persist", "write", "point", "persist_again", "write_again", "point_again"}
  PROVE  /\ After(job[j].pc) \in {"emit", "exit"}
         /\ After(job[j].pc) = "exit" => j \in published
         /\ job[j].pc \in {"persist_again", "write_again", "point_again"} => j \in published
BY DEF After, GateInv, Knows

LEMMA TruncateKeeps ==
  ASSUME GateInv, NEW j \in Jobs, Truncate(j)
  PROVE  GateInv'
<1>1. job[j].pc \in {"persist", "persist_again"} /\ UNCHANGED <<result, published, clock>>
  BY DEF Truncate
<1>2. CASE file' = [file EXCEPT ![j] = "torn"] /\ Goes(j, IF job[j].pc = "persist" THEN "write" ELSE "write_again")
  <2>1. PICK pc \in {"write", "write_again"} : Goes(j, pc) /\ (pc = "write_again" => job[j].pc = "persist_again")
    BY <1>1, <1>2
  <2>2. pc \in Pcs \ {"start", "run", "ended"}
    BY DEF Pcs
  <2> QED BY <1>1, <1>2, <2>1, <2>2, AfterStoring, GoingOn
<1>3. CASE UNCHANGED file /\ Goes(j, After(job[j].pc))
  <2>1. PICK pc : pc = After(job[j].pc) /\ Goes(j, pc)
    BY <1>3
  <2>2. pc \in {"emit", "exit"} /\ (pc = "exit" => j \in published)
    BY <1>1, <2>1, AfterStoring
  <2>3. pc \in Pcs \ {"start", "run", "ended"}
    BY <2>2 DEF Pcs
  <2> QED BY <1>1, <1>3, <2>1, <2>2, <2>3, GoingOn
<1> QED BY <1>2, <1>3 DEF Truncate

LEMMA WriteKeeps ==
  ASSUME GateInv, NEW j \in Jobs, Write(j)
  PROVE  GateInv'
<1>1. job[j].pc \in {"write", "write_again"} /\ UNCHANGED <<result, published, clock>>
  BY DEF Write
<1>2. CASE file' = [file EXCEPT ![j] = "whole"] /\ Goes(j, IF job[j].pc = "write" THEN "point" ELSE "point_again")
  <2>1. PICK pc \in {"point", "point_again"} : Goes(j, pc) /\ (pc = "point_again" => job[j].pc = "write_again")
    BY <1>1, <1>2
  <2>2. pc \in Pcs \ {"start", "run", "ended"}
    BY DEF Pcs
  <2> QED BY <1>1, <1>2, <2>1, <2>2, AfterStoring, GoingOn
<1>3. CASE UNCHANGED file /\ Goes(j, After(job[j].pc))
  <2>1. PICK pc : pc = After(job[j].pc) /\ Goes(j, pc)
    BY <1>3
  <2>2. pc \in {"emit", "exit"} /\ (pc = "exit" => j \in published)
    BY <1>1, <2>1, AfterStoring
  <2>3. pc \in Pcs \ {"start", "run", "ended"}
    BY <2>2 DEF Pcs
  <2> QED BY <1>1, <1>3, <2>1, <2>2, <2>3, GoingOn
<1> QED BY <1>2, <1>3 DEF Write

LEMMA PointKeeps ==
  ASSUME GateInv, NEW j \in Jobs, Point(j)
  PROVE  GateInv'
<1>1. job[j].pc \in {"point", "point_again"} /\ UNCHANGED <<result, file, published, clock>>
  BY DEF Point
<1>2. PICK pc : pc = After(job[j].pc) /\ Goes(j, pc)
  BY DEF Point
<1>3. pc \in {"emit", "exit"} /\ (pc = "exit" => j \in published)
  BY <1>1, <1>2, AfterStoring
<1>4. pc \in Pcs \ {"start", "run", "ended"}
  BY <1>3 DEF Pcs
<1> QED BY <1>1, <1>2, <1>3, <1>4, GoingOn

LEMMA ComparisonKept ==
  ASSUME GateInv, NEW j \in Jobs, StepOf(j), result' = result,
         job'[j].base = job[j].base, job'[j].regressed = job[j].regressed
  PROVE  Compares(j)'
<1>1. Compares(j)
  BY DEF GateInv
<1>2. GoodBase(job[j].base, j, result[j]) /\ \A r : Settled(r) => Settled(r)' /\ RunOf(r)' = RunOf(r)
  BY <1>1, MadeStays DEF Compares
<1>3. GoodBase(job[j].base, j, result[j])'
  BY <1>2 DEF GoodBase
<1>4. job'[j].regressed <=> (job'[j].base.is = "base" /\ has_regression(diff_runs(job'[j].base.cases, result'[j].cases)))
  BY <1>1 DEF Compares
<1> QED BY <1>3, <1>4 DEF Compares

(***************************************************************************)
(* An end without a verdict.                                               *)
(***************************************************************************)
LEMMA EndsWithoutVerdict ==
  ASSUME GateInv, NEW j \in Jobs, NEW code \in {-1, 3}, Exits(j, code), job[j].pc # "ended",
         UNCHANGED <<result, file, published, clock>>
  PROVE  GateInv'
<1>1. job[j] \in JobType /\ GateTypeOK /\ Knows(j) /\ Compares(j)
  BY DEF GateInv, GateTypeOK
<1>2. /\ job' \in [Jobs -> JobType]
      /\ \A k \in Jobs : k # j => job'[k] = job[k]
      /\ job'[j].args = job[j].args /\ job'[j].base = job[j].base /\ job'[j].regressed = job[j].regressed
      /\ job'[j].share_failed = job[j].share_failed /\ job'[j].pc = "ended" /\ job'[j].exit = code
  BY Exiting
<1>3. StepOf(j)
  BY <1>1, <1>2 DEF StepOf, GateTypeOK
<1>4. Compares(j)'
  BY <1>2, <1>3, ComparisonKept
<1>5. Knows(j)'
  BY <1>1, <1>2 DEF Knows
<1>6. HonestExit(j)'
  BY <1>2, NoVerdictNext
<1> QED BY <1>3, <1>4, <1>5, <1>6, StepKeeps

LEMMA EmitKeeps ==
  ASSUME GateInv, NEW j \in Jobs, Emit(j)
  PROVE  GateInv'
<1>1. job[j].pc = "emit" /\ UNCHANGED <<result, file, published, clock>> /\ (Exits(j, INFRA) \/ Goes(j, "compare"))
  BY DEF Emit
<1>2. CASE Exits(j, INFRA)
  <2>1. PICK code \in {-1, 3} : Exits(j, code)
    BY <1>2 DEF INFRA
  <2> QED BY <1>1, <2>1, EndsWithoutVerdict
<1>3. CASE Goes(j, "compare")
  <2>1. "compare" \in Pcs \ {"start", "run", "ended"}
    BY DEF Pcs
  <2>2. PICK pc \in Pcs \ {"start", "run", "ended"} : pc = "compare" /\ Goes(j, pc)
    BY <1>3, <2>1
  <2> QED BY <1>1, <2>2, GoingOn
<1> QED BY <1>1, <1>2, <1>3

LEMMA KilledKeeps ==
  ASSUME GateInv, NEW j \in Jobs, Killed(j)
  PROVE  GateInv'
<1>1. job[j].pc # "ended" /\ Exits(j, -1) /\ UNCHANGED <<result, file, published, clock>>
  BY DEF Killed
<1> QED BY <1>1, EndsWithoutVerdict

(***************************************************************************)
(* effective gives a reference to a baseline, of the flag if it is a run.  *)
(***************************************************************************)
LEMMA Effective ==
  ASSUME NEW a \in RunArgs, effective(a.against, a.suite_branch, a.server) # <<>>
  PROVE  LET ref == effective(a.against, a.suite_branch, a.server)[1]
         IN /\ ref.at \in {"server", "local", "latest", "run"}
            /\ ref.at = "run" => a.against # <<>> /\ ref = a.against[1]
<1>1. a.against \in Seq(Reference) /\ a.suite_branch \in Seq(STRING)
  BY DEF RunArgs
<1>2. CASE a.against # <<>>
  <2>1. a.against[1] \in Reference
    BY <1>1, <1>2
  <2>2. a.against[1].at # "none" /\ effective(a.against, a.suite_branch, a.server) = <<a.against[1]>>
    BY <1>2 DEF effective
  <2> QED BY <1>2, <2>1, <2>2 DEF Reference
<1>3. CASE a.against = <<>>
  <2> DEFINE refs == [i \in DOMAIN a.suite_branch |-> [at |-> IF a.server THEN "server" ELSE "local", what |-> a.suite_branch[i]]]
  <2>1. effective(a.against, a.suite_branch, a.server) = refs
    BY <1>3 DEF effective
  <2>2. a.suite_branch # <<>>
    <3> SUFFICES ASSUME a.suite_branch = <<>> PROVE refs = <<>>
      BY <2>1
    <3> QED OBVIOUS
  <2>3. 1 \in DOMAIN a.suite_branch
    BY <1>1, <2>2
  <2>4. refs[1] = [at |-> IF a.server THEN "server" ELSE "local", what |-> a.suite_branch[1]]
    BY <2>3
  <2> HIDE DEF refs
  <2>5. refs[1].at \in {"server", "local"}
    BY <2>4
  <2> QED BY <2>1, <2>5
<1> QED BY <1>2, <1>3

LEMMA CompareKeeps ==
  ASSUME GateInv, NEW j \in Jobs, Compare(j)
  PROVE  GateInv'
<1> DEFINE a == job[j].args
           ref == effective(a.against, a.suite_branch, a.server)
           next == IF a.share THEN "share" ELSE "exit"
<1>1. job[j].pc = "compare" /\ UNCHANGED <<result, file, published, clock>>
  BY DEF Compare
<1>2. job[j] \in JobType /\ job \in [Jobs -> JobType] /\ GateTypeOK /\ OnlySettledAreSeen /\ Knows(j) /\ a \in RunArgs
  BY DEF GateInv, GateTypeOK, JobType
<1>3. next \in Pcs /\ next \in {"share", "exit"} /\ (next = "exit" => ~ a.share)
  BY DEF Pcs
<1>4. job[j].exit = -1
  BY <1>1, <1>2 DEF Knows
<1>5. CASE ref = <<>> /\ Goes(j, next)
  <2>1. /\ job' \in [Jobs -> JobType]
        /\ \A k \in Jobs : k # j => job'[k] = job[k]
        /\ job'[j].args = job[j].args /\ job'[j].base = job[j].base /\ job'[j].regressed = job[j].regressed
        /\ job'[j].share_failed = job[j].share_failed /\ job'[j].pc = next /\ job'[j].exit = job[j].exit
    BY <1>3, <1>5, Going
  <2> HIDE DEF next
  <2>2. StepOf(j)
    BY <1>1, <1>2, <1>3, <2>1 DEF StepOf, GateTypeOK
  <2>3. Compares(j)'
    BY <1>1, <2>1, <2>2, ComparisonKept
  <2>4. Knows(j)'
    BY <1>1, <1>2, <1>3, <2>1 DEF Knows
  <2>5. HonestExit(j)'
    BY <1>4, <2>1, NoVerdictNext
  <2> QED BY <2>2, <2>3, <2>4, <2>5, StepKeeps
<1>6. ASSUME ref # <<>>, NEW base \in resolve(ref[1], j, result[j], a.server),
             job' = [job EXCEPT ![j].base = base, ![j].pc = next,
                        ![j].regressed = base.is = "base" /\ has_regression(diff_runs(base.cases, result[j].cases))]
      PROVE  GateInv'
  <2>1. ref[1].at \in {"server", "local", "latest", "run"} /\ (ref[1].at = "run" => ref[1].what # j)
    <3>1. ref[1].at \in {"server", "local", "latest", "run"} /\ (ref[1].at = "run" => a.against # <<>> /\ ref[1] = a.against[1])
      BY <1>2, <1>6, Effective
    <3> HIDE DEF ref
    <3> QED BY <1>2, <3>1 DEF Knows
  <2> HIDE DEF ref
  <2>2. GoodBase(base, j, result[j])
    BY <1>2, <1>6, <2>1, Resolved
  <2> DEFINE reg == base.is = "base" /\ has_regression(diff_runs(base.cases, result[j].cases))
  <2>3. reg \in BOOLEAN /\ base \in BaseType
    BY <2>2 DEF GoodBase
  <2>4. job' = [job EXCEPT ![j].base = base, ![j].pc = next, ![j].regressed = reg]
    BY <1>6
  <2> HIDE DEF reg, next
  <2>5. /\ job' \in [Jobs -> JobType]
        /\ \A k \in Jobs : k # j => job'[k] = job[k]
        /\ job'[j].args = job[j].args /\ job'[j].base = base /\ job'[j].regressed = reg
        /\ job'[j].share_failed = job[j].share_failed /\ job'[j].pc = next /\ job'[j].exit = job[j].exit
    BY <1>2, <1>3, <2>3, <2>4 DEF JobType
  <2>6. StepOf(j)
    BY <1>1, <1>2, <1>3, <2>5 DEF StepOf, GateTypeOK
  <2>7. Compares(j)'
    <3>1. \A r : Settled(r) => Settled(r)' /\ RunOf(r)' = RunOf(r)
      BY <2>6, MadeStays
    <3>2. GoodBase(job[j].base, j, result[j])'
      BY <1>1, <2>2, <2>5, <3>1 DEF GoodBase
    <3>3. job'[j].regressed <=> (job'[j].base.is = "base" /\ has_regression(diff_runs(job'[j].base.cases, result'[j].cases)))
      BY <1>1, <2>5 DEF reg
    <3> QED BY <3>2, <3>3 DEF Compares
  <2>8. Knows(j)'
    BY <1>1, <1>2, <1>3, <2>5 DEF Knows
  <2>9. HonestExit(j)'
    BY <1>4, <2>5, NoVerdictNext
  <2> QED BY <2>6, <2>7, <2>8, <2>9, StepKeeps
<1>7. (ref = <<>> /\ Goes(j, next)) \/ (ref # <<>> /\ \E base \in resolve(ref[1], j, result[j], a.server) :
             job' = [job EXCEPT ![j].base = base, ![j].pc = next,
                        ![j].regressed = base.is = "base" /\ has_regression(diff_runs(base.cases, result[j].cases))])
  BY DEF Compare
<1> QED BY <1>5, <1>6, <1>7

LEMMA ShareRunKeeps ==
  ASSUME GateInv, NEW j \in Jobs, ShareRun(j)
  PROVE  GateInv'
<1> DEFINE a == job[j].args
           lost == job' = [job EXCEPT ![j].pc = "exit", ![j].share_failed = ~ a.allow_share_failure]
           sent == published' = published \cup {j}
<1>1. job[j].pc = "share" /\ UNCHANGED <<result, file, clock>>
  BY DEF ShareRun
<1>2. (sent /\ Goes(j, "persist_again")) \/ (sent /\ lost) \/ (published' = published /\ lost)
  BY DEF ShareRun
<1>3. job[j] \in JobType /\ job \in [Jobs -> JobType] /\ GateTypeOK /\ Knows(j) /\ a \in RunArgs
  BY DEF GateInv, GateTypeOK, JobType
<1>4. job[j].exit = -1
  BY <1>1, <1>3 DEF Knows
<1>5. CASE sent /\ Goes(j, "persist_again")
  <2>1. "persist_again" \in Pcs
    BY DEF Pcs
  <2>2. /\ job' \in [Jobs -> JobType]
        /\ \A k \in Jobs : k # j => job'[k] = job[k]
        /\ job'[j].args = job[j].args /\ job'[j].base = job[j].base /\ job'[j].regressed = job[j].regressed
        /\ job'[j].share_failed = job[j].share_failed /\ job'[j].pc = "persist_again" /\ job'[j].exit = job[j].exit
    BY <1>5, <2>1, Going
  <2>3. StepOf(j)
    BY <1>1, <1>3, <1>5, <2>2 DEF StepOf, GateTypeOK
  <2>4. Compares(j)'
    BY <1>1, <2>3, ComparesStays
  <2>5. Knows(j)'
    BY <1>1, <1>3, <1>5, <2>2 DEF Knows
  <2>6. HonestExit(j)'
    BY <1>4, <2>2, NoVerdictNext
  <2> QED BY <2>3, <2>4, <2>5, <2>6, StepKeeps
<1>6. CASE (sent \/ published' = published) /\ lost
  <2>1. "exit" \in Pcs /\ a.allow_share_failure \in BOOLEAN
    BY <1>3 DEF Pcs, RunArgs
  <2>2. /\ job' \in [Jobs -> JobType]
        /\ \A k \in Jobs : k # j => job'[k] = job[k]
        /\ job'[j].args = job[j].args /\ job'[j].base = job[j].base /\ job'[j].regressed = job[j].regressed
        /\ job'[j].share_failed = ~ a.allow_share_failure /\ job'[j].pc = "exit" /\ job'[j].exit = job[j].exit
    BY <1>3, <1>6, <2>1 DEF JobType
  <2>3. StepOf(j)
    BY <1>1, <1>3, <1>6, <2>2 DEF StepOf, GateTypeOK
  <2>4. Compares(j)'
    BY <1>1, <2>3, ComparesStays
  <2>5. Knows(j)'
    BY <1>1, <1>3, <2>1, <2>2 DEF Knows
  <2>6. HonestExit(j)'
    BY <1>4, <2>2, NoVerdictNext
  <2> QED BY <2>3, <2>4, <2>5, <2>6, StepKeeps
<1> QED BY <1>2, <1>5, <1>6

(***************************************************************************)
(* The rungs of the ladder.                                                *)
(***************************************************************************)
LEMMA Rungs ==
  ASSUME GateInv, NEW j \in Jobs
  PROVE  LET s == result[j].cases
             moot == \/ job[j].base.is = "failed" \/ graded_nothing(summarize(s))
                     \/ answered_entirely_by_fallbacks(summarize(s))
             bad == summarize(s).fail > 0 \/ summarize(s).xpass > 0 \/ job[j].regressed
         IN /\ job[j].share_failed \/ worst_gate_fault(s) = "harness" => Ladder(j) = INFRA
            /\ ~ job[j].share_failed /\ worst_gate_fault(s) = "suite" => Ladder(j) = USAGE
            /\ ~ job[j].share_failed /\ worst_gate_fault(s) = "none" /\ moot => Ladder(j) = USAGE
            /\ ~ job[j].share_failed /\ worst_gate_fault(s) = "none" /\ ~ moot /\ bad => Ladder(j) = ASSERT_FAIL
            /\ ~ job[j].share_failed /\ worst_gate_fault(s) = "none" /\ ~ moot /\ ~ bad => Ladder(j) = OK
<1> DEFINE s == result[j].cases
           moot == \/ job[j].base.is = "failed" \/ graded_nothing(summarize(s))
                   \/ answered_entirely_by_fallbacks(summarize(s))
           bad == summarize(s).fail > 0 \/ summarize(s).xpass > 0 \/ job[j].regressed
           fault == worst_gate_fault(s)
           lost == job[j].share_failed
<1>1. lost \in BOOLEAN
  BY DEF GateInv, GateTypeOK, JobType
<1>2. moot \in BOOLEAN /\ bad \in BOOLEAN
  OBVIOUS
<1>3. Ladder(j) = CASE lost \/ fault = "harness" -> INFRA
                    [] ~ lost /\ fault = "suite" -> USAGE
                    [] ~ lost /\ fault = "none" /\ moot -> USAGE
                    [] OTHER -> IF bad THEN ASSERT_FAIL ELSE OK
  BY DEF Ladder
<1> HIDE DEF moot, bad, fault, lost
<1>4. /\ lost \/ fault = "harness" => Ladder(j) = INFRA
      /\ ~ lost /\ fault = "suite" => Ladder(j) = USAGE
      /\ ~ lost /\ fault = "none" /\ moot => Ladder(j) = USAGE
      /\ ~ lost /\ fault = "none" /\ ~ moot /\ bad => Ladder(j) = ASSERT_FAIL
      /\ ~ lost /\ fault = "none" /\ ~ moot /\ ~ bad => Ladder(j) = OK
  BY <1>1, <1>2, <1>3
<1> QED BY <1>4 DEF moot, bad, fault, lost

(***************************************************************************)
(* What each exit code of a finished run says.                             *)
(***************************************************************************)
LEMMA LadderSays ==
  ASSUME GateInv, NEW j \in Jobs, job[j].pc = "exit"
  PROVE  LET s == result[j].cases
             b == job[j].base.cases
             a == job[j].args
             Before(c) == \E i \in DOMAIN b : b[i].key = c.key /\ IsLast(b, i) /\ passed(b[i].status) /\ ~ passed(c.status)
         IN /\ Ladder(j) \in {0, 1, 2, 3}
            /\ Ladder(j) = OK =>
                 /\ ~ \E i \in DOMAIN s : Bad(s[i])
                 /\ ~ \E i \in DOMAIN s : Before(s[i])
                 /\ (\E i \in DOMAIN s : Answered(s[i])) \/ (a.allow_empty /\ s = <<>>)
                 /\ a.share /\ ~ a.allow_share_failure => j \in published
            /\ Ladder(j) \in {OK, ASSERT_FAIL} => job[j].base.is # "failed" /\ ~ job[j].share_failed
            /\ Ladder(j) = USAGE => ~ \E i \in DOMAIN s : HarnessBroke(s[i])
            /\ Ladder(j) = ASSERT_FAIL =>
                 /\ ~ \E i \in DOMAIN s : Errored(s[i])
                 /\ (\E i \in DOMAIN s : Broken(s[i])) \/ (\E i \in DOMAIN s : Before(s[i]))
<1> DEFINE s == result[j].cases
           b == job[j].base.cases
           a == job[j].args
           Before(c) == \E i \in DOMAIN b : b[i].key = c.key /\ IsLast(b, i) /\ passed(b[i].status) /\ ~ passed(c.status)
           moot == \/ job[j].base.is = "failed" \/ graded_nothing(summarize(s))
                   \/ answered_entirely_by_fallbacks(summarize(s))
           bad == summarize(s).fail > 0 \/ summarize(s).xpass > 0 \/ job[j].regressed
           fault == worst_gate_fault(s)
           lost == job[j].share_failed
<1>1. /\ job[j] \in JobType /\ Knows(j) /\ Compares(j) /\ s \in Seq(CaseType)
      /\ b \in Seq(CaseType)
  <2>1. job[j] \in JobType /\ Knows(j) /\ Compares(j) /\ result[j] \in RunType
    BY DEF GateInv, GateTypeOK, RunIds, OnlySettledAreSeen
  <2>2. job[j].base \in BaseType
    BY <2>1 DEF Compares, GoodBase
  <2> QED BY <2>1, <2>2 DEF RunType, BaseType
<1>2. /\ lost \/ fault = "harness" => Ladder(j) = INFRA
      /\ ~ lost /\ fault = "suite" => Ladder(j) = USAGE
      /\ ~ lost /\ fault = "none" /\ moot => Ladder(j) = USAGE
      /\ ~ lost /\ fault = "none" /\ ~ moot /\ bad => Ladder(j) = ASSERT_FAIL
      /\ ~ lost /\ fault = "none" /\ ~ moot /\ ~ bad => Ladder(j) = OK
  BY Rungs
<1>3. /\ fault \in {"none", "harness", "suite"}
      /\ fault = "none" <=> ~ \E i \in DOMAIN s : Errored(s[i])
      /\ fault = "harness" <=> \E i \in DOMAIN s : HarnessBroke(s[i])
  BY <1>1, Faults
<1>4. lost \in BOOLEAN /\ (moot <=> moot) /\ (bad <=> bad)
  BY <1>1 DEF JobType
<1>5. /\ summarize(s).fail > 0 <=> \E i \in DOMAIN s : s[i].status = "fail"
      /\ summarize(s).xpass > 0 <=> \E i \in DOMAIN s : s[i].status = "xpass"
  BY <1>1, SummaryCounts
<1>6. job[j].regressed <=> \E n \in DOMAIN s : Before(s[n])
  <2>1. has_regression(diff_runs(b, s)) <=> \E n \in DOMAIN s : Before(s[n])
    BY <1>1, Regressions
  <2>2. job[j].regressed <=> (job[j].base.is = "base" /\ has_regression(diff_runs(b, s)))
    BY <1>1 DEF Compares
  <2>3. job[j].base.is # "base" => b = <<>>
    BY <1>1 DEF Compares, GoodBase
  <2> HIDE DEF s
  <2>4. job[j].base.is # "base" => ~ \E n \in DOMAIN s : Before(s[n])
    BY <2>3
  <2> QED BY <2>1, <2>2, <2>4
<1>7. s # <<>> /\ ~ moot => \E i \in DOMAIN s : Answered(s[i])
  BY <1>1, NothingAnswered
<1>8. s = <<>> => a.allow_empty
  BY <1>1 DEF Knows
<1>9. a.share /\ ~ a.allow_share_failure /\ ~ lost => j \in published
  BY <1>1 DEF Knows
<1>10. moot \/ ~ (job[j].base.is = "failed")
  OBVIOUS
<1>11. bad <=> ((\E i \in DOMAIN s : Broken(s[i])) \/ (\E n \in DOMAIN s : Before(s[n])))
  BY <1>5, <1>6 DEF Broken
<1>12. (\E i \in DOMAIN s : Bad(s[i])) <=> ((\E i \in DOMAIN s : Broken(s[i])) \/ (\E i \in DOMAIN s : Errored(s[i])))
  BY DEF Bad, Broken, Errored
<1>13. OK = 0 /\ ASSERT_FAIL = 1 /\ USAGE = 2 /\ INFRA = 3
  BY DEF OK, ASSERT_FAIL, USAGE, INFRA
<1> DEFINE Says == /\ Ladder(j) \in {0, 1, 2, 3}
                   /\ Ladder(j) = OK =>
                        /\ ~ \E i \in DOMAIN s : Bad(s[i])
                        /\ ~ \E i \in DOMAIN s : Before(s[i])
                        /\ (\E i \in DOMAIN s : Answered(s[i])) \/ (a.allow_empty /\ s = <<>>)
                        /\ a.share /\ ~ a.allow_share_failure => j \in published
                   /\ Ladder(j) \in {OK, ASSERT_FAIL} => job[j].base.is # "failed" /\ ~ lost
                   /\ Ladder(j) = USAGE => ~ \E i \in DOMAIN s : HarnessBroke(s[i])
                   /\ Ladder(j) = ASSERT_FAIL =>
                        /\ ~ \E i \in DOMAIN s : Errored(s[i])
                        /\ (\E i \in DOMAIN s : Broken(s[i])) \/ (\E i \in DOMAIN s : Before(s[i]))
<1> HIDE DEF s, b, a, Before, moot, bad, fault, lost
<1>14. CASE lost \/ fault = "harness"
  BY <1>2, <1>13, <1>14
<1>15. CASE ~ lost /\ fault = "suite"
  <2>1. Says
    BY <1>2, <1>3, <1>13, <1>15
  <2> QED BY <2>1 DEF s, b, a, Before, lost
<1>16. CASE ~ lost /\ fault = "none" /\ moot
  <2>1. Says
    BY <1>2, <1>3, <1>13, <1>16
  <2> QED BY <2>1 DEF s, b, a, Before, lost
<1>17. CASE ~ lost /\ fault = "none" /\ ~ moot /\ bad
  <2>1. Says
    BY <1>2, <1>3, <1>10, <1>11, <1>13, <1>17
  <2> QED BY <2>1 DEF s, b, a, Before, lost
<1>18. CASE ~ lost /\ fault = "none" /\ ~ moot /\ ~ bad
  <2>1. Says
    BY <1>2, <1>3, <1>7, <1>8, <1>9, <1>10, <1>11, <1>12, <1>13, <1>18
  <2> QED BY <2>1 DEF s, b, a, Before, lost
<1> QED BY <1>3, <1>14, <1>15, <1>16, <1>17, <1>18

LEMMA ExitKeeps ==
  ASSUME GateInv, NEW j \in Jobs, Exit(j)
  PROVE  GateInv'
<1>1. job[j].pc = "exit" /\ UNCHANGED <<result, file, published, clock>> /\ Exits(j, Ladder(j))
  BY DEF Exit
<1>2. job[j] \in JobType /\ GateTypeOK /\ Knows(j)
  BY DEF GateInv, GateTypeOK
<1> DEFINE s == result[j].cases
           b == job[j].base.cases
           a == job[j].args
           Before(c) == \E i \in DOMAIN b : b[i].key = c.key /\ IsLast(b, i) /\ passed(b[i].status) /\ ~ passed(c.status)
<1>3. /\ Ladder(j) \in {0, 1, 2, 3}
      /\ Ladder(j) = OK =>
           /\ ~ \E i \in DOMAIN s : Bad(s[i])
           /\ ~ \E i \in DOMAIN s : Before(s[i])
           /\ (\E i \in DOMAIN s : Answered(s[i])) \/ (a.allow_empty /\ s = <<>>)
           /\ a.share /\ ~ a.allow_share_failure => j \in published
      /\ Ladder(j) \in {OK, ASSERT_FAIL} => job[j].base.is # "failed" /\ ~ job[j].share_failed
      /\ Ladder(j) = USAGE => ~ \E i \in DOMAIN s : HarnessBroke(s[i])
      /\ Ladder(j) = ASSERT_FAIL =>
           /\ ~ \E i \in DOMAIN s : Errored(s[i])
           /\ (\E i \in DOMAIN s : Broken(s[i])) \/ (\E i \in DOMAIN s : Before(s[i]))
  BY <1>1, LadderSays
<1>4. PICK code : code = Ladder(j)
  OBVIOUS
<1>5. code \in {-1, 0, 1, 2, 3, 130} /\ Exits(j, code)
  BY <1>1, <1>3, <1>4
<1>6. /\ job' \in [Jobs -> JobType]
      /\ \A k \in Jobs : k # j => job'[k] = job[k]
      /\ job'[j].args = job[j].args /\ job'[j].base = job[j].base /\ job'[j].regressed = job[j].regressed
      /\ job'[j].share_failed = job[j].share_failed /\ job'[j].pc = "ended" /\ job'[j].exit = code
  BY <1>5, Exiting
<1>7. StepOf(j)
  BY <1>1, <1>2, <1>6 DEF StepOf, GateTypeOK
<1>8. Compares(j)'
  BY <1>1, <1>6, <1>7, ComparisonKept
<1>9. Knows(j)'
  BY <1>2, <1>6 DEF Knows
<1>10. HonestExit(j)'
  BY <1>1, <1>3, <1>4, <1>6 DEF HonestExit, Some
<1> QED BY <1>7, <1>8, <1>9, <1>10, StepKeeps

LEMMA GateInvStep ==
  ASSUME GateInv, [GateNext]_gateVars
  PROVE  GateInv'
<1>1. CASE UNCHANGED gateVars
  BY <1>1 DEF gateVars, GateInv, GateTypeOK, OnlySettledAreSeen, Settled, Compares, Knows, HonestExit, Some, GoodBase, RunOf
<1>2. ASSUME NEW j \in Jobs,
             Start(j) \/ RunSuite(j) \/ Truncate(j) \/ Write(j) \/ Point(j) \/ Emit(j)
             \/ Compare(j) \/ ShareRun(j) \/ Exit(j) \/ Killed(j)
      PROVE  GateInv'
  BY <1>2, StartKeeps, RunSuiteKeeps, TruncateKeeps, WriteKeeps, PointKeeps, EmitKeeps, CompareKeeps,
     ShareRunKeeps, ExitKeeps, KilledKeeps
<1> QED BY <1>1, <1>2 DEF GateNext

-----------------------------------------------------------------------------
(* The properties.                                                         *)

(***************************************************************************)
(* What a process was, or a stored run would be, compared with.            *)
(***************************************************************************)
LEMMA BaselinesAreOthers ==
  ASSUME GateInv
  PROVE  BaselineIsAnother
<1> DEFINE Sound(head, base) == \A r \in base.ids : /\ r # head
                                                   /\ RunOf(r).project = result[head].project
                                                   /\ RunOf(r).suite = result[head].suite
           Ref(at) == [at |-> at, what |-> IF at = "server" THEN "baseline" ELSE "main"]
<1>1. ASSUME NEW j \in Jobs PROVE Sound(j, job[j].base)
  BY DEF GateInv, Compares, GoodBase
<1>2. ASSUME NEW reference, NEW at \in {"server", "local", "latest"}, NEW s \in CiSummary(reference, Ref(at))
      PROVE  Sound(s.head, s.base)
  <2> DEFINE ref == Ref(at)
  <2>1. ref.at \in {"server", "local", "latest"}
    BY <1>2
  <2> HIDE DEF ref
  <2>a. PICK r : \E base \in resolve(ref, r, result[r], TRUE) : s = [head |-> r, base |-> base]
    BY <1>2 DEF CiSummary, ref
  <2>2. PICK base \in resolve(ref, r, result[r], TRUE) : s = [head |-> r, base |-> base]
    BY <2>a
  <2>3. GoodBase(base, r, result[r])
    <3>1. GateTypeOK /\ OnlySettledAreSeen
      BY DEF GateInv
    <3>2. ref.at \in {"server", "local", "latest", "run"} /\ (ref.at = "run" => ref.what # r)
      BY <2>1
    <3>3. PICK head, server : head = result[r] /\ base \in resolve(ref, r, head, server)
      BY <2>2, Zenon
    <3>4. GoodBase(base, r, head)
      <4>1. base \in resolve(ref, r, head, server)
        BY <3>3
      <4> QED BY <3>1, <3>2, <4>1, Resolved
    <3> QED BY <3>3, <3>4
  <2>4. s.head = r /\ s.base = base
    BY <2>2
  <2> QED BY <2>3, <2>4 DEF GoodBase
<1> QED BY <1>1, <1>2 DEF BaselineIsAnother

(***************************************************************************)
(* The processes keep the types of their state.                            *)
(***************************************************************************)
THEOREM GateTypeCorrect == GateSpec => []GateTypeOK
<1>1. GateInit => GateInv
  BY GateInvInit
<1>2. GateInv /\ [GateNext]_gateVars => GateInv'
  BY GateInvStep
<1>3. GateInv => GateTypeOK
  BY DEF GateInv
<1> QED BY <1>1, <1>2, <1>3, PTL DEF GateSpec

(***************************************************************************)
(* `domarinn run` exits 0 only after a run in which something was answered *)
(* and nothing failed, against the baseline that was asked for and with    *)
(* the upload that was demanded, and 1 and 2 only for what they stand for; *)
(* and nothing is compared with itself or with another suite (execute in   *)
(* run.rs, resolve in baseline.rs).                                        *)
(***************************************************************************)
THEOREM ExitIsHonestCorrect == GateSpec => []ExitIsHonest
<1>1. GateInit => GateInv
  BY GateInvInit
<1>2. GateInv /\ [GateNext]_gateVars => GateInv'
  BY GateInvStep
<1>3. GateInv => ExitIsHonest
  BY BaselinesAreOthers DEF GateInv, ExitIsHonest
<1> QED BY <1>1, <1>2, <1>3, PTL DEF GateSpec

(***************************************************************************)
(* What the server's comparison of two runs shows as a regression or a fix *)
(* is one for the gate (classify in compare.rs, diff_runs in diff.rs).     *)
(***************************************************************************)
THEOREM RegressionsAreSharedCorrect == GateSpec => []RegressionsAreShared
<1>1. GateInit => GateInv
  BY GateInvInit
<1>2. GateInv /\ [GateNext]_gateVars => GateInv'
  BY GateInvStep
<1>3. GateInv => RegressionsAreShared
  <2> SUFFICES ASSUME GateInv, NEW j \in Jobs, UniqueKeys(job[j].base.cases), UniqueKeys(result[j].cases)
               PROVE  GateAndServerAgree(job[j].base.cases, result[j].cases)
    BY DEF RegressionsAreShared
  <2>1. result[j] \in RunType /\ GoodBase(job[j].base, j, result[j])
    BY DEF GateInv, GateTypeOK, RunIds, Compares
  <2>2. result[j].cases \in Seq(CaseType) /\ job[j].base.cases \in Seq(CaseType)
    BY <2>1 DEF RunType, GoodBase, BaseType
  <2> QED BY <2>2, Agreement
<1> QED BY <1>1, <1>2, <1>3, PTL DEF GateSpec
=============================================================================
