--------------------------- MODULE BranchBaseline ---------------------------
(***************************************************************************)
(* What a regression gate compares with: the run a suite is pinned to, or  *)
(* the composite of the newest runs of a branch                            *)
(* (domarinn-server/src/baselines.rs, storage/composite.rs;                *)
(* domarinn-core/src/composite.rs; domarinn-cli/src/baseline.rs).  A gate  *)
(* reads the pin and the baseline in two transactions, and everything      *)
(* RunStore describes goes on between them.                                *)
(***************************************************************************)
EXTENDS RunStore, Sequences

CONSTANT Lookback   \* BRANCH_LOOKBACK

NoRun == 0

ASSUME BranchAssumption == Lookback \in Nat \ {0} /\ NoRun \notin RunIds

VARIABLE gate

bvars == <<now, local, runs, indexed, pins, refused, gate>>

-----------------------------------------------------------------------------
(***************************************************************************)
(* The composite of a branch, as a function of a table of stored runs.     *)
(***************************************************************************)
\* ORDER BY created_at DESC, id DESC
NewestFirst(t, q, r) ==
    \/ t[q].finished > t[r].finished
    \/ t[q].finished = t[r].finished /\ q > r

\* The runs of a suite on a branch; the gated run is not its own baseline.
OnBranch(t, s, b, head) ==
    {r \in RunIds : t[r] # NoDoc /\ t[r].suite = s /\ t[r].branch = b /\ r # head}

Smaller(m, n) == IF m < n THEN m ELSE n

\* branch_runs_newest_first: the rows in order, and its LIMIT
Sorted(t, all) ==
    CHOOSE list \in [1 .. Cardinality(all) -> all] :
        \A i, j \in 1 .. Cardinality(all) : i < j => NewestFirst(t, list[i], list[j])
BranchRuns(t, s, b, head) ==
    LET all == OnBranch(t, s, b, head)
    IN [i \in 1 .. Smaller(Cardinality(all), Lookback) |-> Sorted(t, all)[i]]

\* One run of the walk of merge_branch_runs, the i-th: it adds the cases that no
\* newer run had.
NewCasesReplacing(t, m, r) == t[r].cases      \* mutant: older runs win
NewCases(t, m, r) == {k \in t[r].cases : m.from[k] = NoRun}
AddCases(t, m, r, i) ==
    LET new == NewCases(t, m, r)
    IN [from |-> [k \in Cases |-> IF k \in new THEN r ELSE m.from[k]],
        contributors |-> IF new = {} THEN m.contributors ELSE Append(m.contributors, r),
        last |-> IF new = {} THEN m.last ELSE i]

\* merge_branch_runs: what it has after each run of the list, and in the end;
\* Absent when nobody contributed.
NothingYet == [from |-> [k \in Cases |-> NoRun], contributors |-> <<>>, last |-> 0]
Walk(t, list, n) ==
    LET walk[i \in 0 .. n] ==
            IF i = 0 THEN NothingYet ELSE AddCases(t, walk[i - 1], list[i], i)
    IN walk
Absent == [absent |-> TRUE]
MergeBranchRuns(t, list) ==
    LET n == Smaller(Len(list), Lookback)
        m == Walk(t, list, n)[n]
    IN IF m.contributors = <<>> THEN Absent
       ELSE [absent |-> FALSE, from |-> m.from, contributors |-> m.contributors,
             truncated |-> m.last = Lookback /\ Len(list) > Lookback]

\* branch_baseline_export
Composite(t, s, b, head) == MergeBranchRuns(t, BranchRuns(t, s, b, head))

-----------------------------------------------------------------------------
(***************************************************************************)
(* One gate at a time: `domarinn run --against server:...`.                *)
(***************************************************************************)
NoGate == [pc |-> "idle", suite |-> Null, head |-> NoRun, pin |-> NoPin,
           had |-> FALSE, touched |-> FALSE]
GateInit == Init /\ gate = NoGate

\* History: whether a baseline was there to be found when the gate began.
Resolvable(s, pin, h) ==
    \/ pin.kind = "run" /\ pin.to # h
    \/ /\ pin.kind = "branch" /\ local[h].branch # pin.to
       /\ OnBranch(runs, s, pin.to, h) # {}

\* A gate ends; all it leaves is whether it was skipped, and the history.
Ended(verdict) ==
    IF verdict = "compared" THEN NoGate
    ELSE [NoGate EXCEPT !.pc = "absent", !.had = gate.had, !.touched = gate.touched]

Begin(h, pin) ==
    LET s == local[h].suite
    IN [pc |-> "pinned", suite |-> s, head |-> h, pin |-> pin,
        had |-> Resolvable(s, pin, h), touched |-> FALSE]

CanBegin(h) ==
    /\ gate.pc \in {"idle", "absent"}
    /\ local[h] # NoDoc /\ local[h].suite # Null

\* export_baseline reads the pin; without one the gate is skipped.
BeginGate(h) ==
    /\ CanBegin(h)
    /\ gate' = IF pins[local[h].suite] = NoPin THEN [NoGate EXCEPT !.pc = "absent"]
               ELSE Begin(h, pins[local[h].suite])
    /\ UNCHANGED vars

\* server:branch:<name> names the branch itself and reads no pin.
BeginBranchGate(h, b) ==
    /\ CanBegin(h)
    /\ gate' = Begin(h, BranchPin(b))
    /\ UNCHANGED vars

\* export_run: a deleted run is an absence, and so is the gated run itself.
FetchRun ==
    /\ gate.pc = "pinned" /\ gate.pin.kind = "run"
    /\ gate' = Ended(IF gate.pin.to \in Stored /\ gate.pin.to # gate.head
                     THEN "compared" ELSE "absent")
    /\ UNCHANGED vars

\* branch_composite
FetchBranch ==
    /\ gate.pc = "pinned" /\ gate.pin.kind = "branch"
    /\ gate' = Ended(IF Composite(runs, gate.suite, gate.pin.to, gate.head).absent
                     THEN "absent" ELSE "compared")
    /\ UNCHANGED vars

\* Everybody else.  Deleting a run and moving the pin of the gated suite
\* while the gate is between its two reads is remembered.
OperatorStep ==
    \/ \E r \in RunIds : DeleteRun(r)
    \/ \E r \in RunIds : gate.suite # Null /\ PinRun(gate.suite, r)
    \/ \E b \in Branches : gate.suite # Null /\ PinBranch(gate.suite, b)
    \/ gate.suite # Null /\ DeleteBaseline(gate.suite)
Background ==
    /\ Next
    /\ gate' = [gate EXCEPT !.touched = @ \/ (gate.pc = "pinned" /\ OperatorStep)]

GateNext ==
    \/ Background
    \/ \E h \in RunIds : BeginGate(h)
    \/ \E h \in RunIds, b \in Branches : BeginBranchGate(h, b)
    \/ FetchRun
    \/ FetchBranch

GateSpec == GateInit /\ [][GateNext]_bvars

-----------------------------------------------------------------------------
(***************************************************************************)
(* Properties.                                                             *)
(***************************************************************************)
\* GateTypeOK: the gate's record has its kind of values.
GateTypeOK ==
    /\ TypeOK
    /\ gate \in [pc: {"idle", "pinned", "absent"}, suite: Suites \cup {Null},
                 head: RunIds \cup {NoRun}, pin: Pins, had: BOOLEAN, touched: BOOLEAN]

\* CompositeIsNewest: for every case, the composite of a branch holds the
\* result of the newest run that has the case among the BRANCH_LOOKBACK newest
\* runs of the suite on the branch, the gated run not counted; it exists when
\* one of them has a case (merge_branch_runs, branch_runs_newest_first).
Later(q, r) ==
    \/ runs[q].finished > runs[r].finished
    \/ runs[q].finished = runs[r].finished /\ q > r
Window(s, b, h) ==
    LET all == {r \in Stored \ {h} : runs[r].suite = s /\ runs[r].branch = b}
    IN {r \in all : Cardinality({q \in all : Later(q, r)}) < Lookback}
CompositeIsNewest ==
    \A s \in Suites, b \in Branches, h \in RunIds \cup {NoRun} :
        LET c == Composite(runs, s, b, h)
            w == Window(s, b, h)
            Have(k) == {r \in w : k \in runs[r].cases}
        IN /\ c.absent <=> \A k \in Cases : Have(k) = {}
           /\ ~c.absent => \A k \in Cases :
                \/ Have(k) = {} /\ c.from[k] = NoRun
                \/ /\ c.from[k] \in Have(k)
                   /\ \A q \in Have(k) \ {c.from[k]} : Later(c.from[k], q)

\* GateIsNotSkipped: when a gate began with a baseline to find (a pinned run
\* other than the gated one, or runs on a branch the gated run is not on) and
\* nobody deleted a run or moved the pin meanwhile, it is not skipped as having
\* none, whatever was uploaded and swept between its two reads.
GateIsNotSkipped ==
    gate.pc = "absent" /\ gate.had => gate.touched

\* A gate finds the baseline there is: what it reads of a branch is the newest of
\* each case, and it is not skipped while runs come and go between its reads.
GateFindsItsBaseline == CompositeIsNewest /\ GateIsNotSkipped
=============================================================================
