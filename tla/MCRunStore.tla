----------------------------- MODULE MCRunStore -----------------------------
(***************************************************************************)
(* A small instance of RunStore, BranchBaseline and StoreUpgrade, in parts *)
(* chosen by the initial state: runs of two suites that come, go and are   *)
(* pinned; a gate that reads a baseline of one suite meanwhile; opening a  *)
(* database of an older build; moving one; and the values that are written *)
(* to one.                                                                 *)
(***************************************************************************)
EXTENDS BranchBaseline, StoreUpgrade

VARIABLE part

gvars == <<now, local, runs, indexed, pins, refused, gate>>
svars == <<gvars, upgradeVars, moveVars, sqlVars, part>>

On(s, b, k) == [suite |-> s, branch |-> b, cases |-> k]

\* Runs of two suites, one of them outside git; they record their URL.
StoreShapes == {On("s", Null, {"a"}), On("t", "main", {"a"})}

\* Filtered and full runs of the branch the gate compares with, and runs
\* outside git to be gated.
GateShapes == {On("s", "main", {"a"}), On("s", "main", {"a", "b"}), On("s", Null, {"a"})}

BothShapes == StoreShapes \cup GateShapes

ShapeOf(doc) == On(doc.suite, doc.branch, doc.cases)

StoreStep ==
    /\ part = "store"
    /\ Next
    /\ \A r \in RunIds : local'[r] = NoDoc \/ ShapeOf(local'[r]) \in StoreShapes
    /\ UNCHANGED <<gate, part, upgradeVars, moveVars, sqlVars>>

GateStep ==
    /\ part = "gate"
    /\ GateNext
    /\ \A r \in RunIds :
            local'[r] = NoDoc \/ (ShapeOf(local'[r]) \in GateShapes /\ ~local'[r].shared)
    /\ pins'["t"] = NoPin
    /\ UNCHANGED <<part, upgradeVars, moveVars, sqlVars>>

\* Two cases of one run and one of another; a document that says nothing, one that
\* names an empty reason and a fallback, and the same where it cannot be read.
TwoRunsOf == [c \in 1 .. 3 |-> IF c = 3 THEN "s" ELSE "r"]
CaseDoc(ok, empty, answered) == [ok |-> ok, empty |-> empty, answered |-> answered]
PlainDoc == CaseDoc(TRUE, "none", "")
CaseDocs == [1 .. 3 -> {PlainDoc} \cup {CaseDoc(ok, "refusal", "q") : ok \in BOOLEAN}]

\* Row ids with a gap, where entries were deleted.
GappedRows == [k \in {"a", "b"} |-> IF k = "a" THEN 1 ELSE 3]

\* One database that is in no way special, for the parts that are not about it.
PlainDatabase ==
    /\ docs = [c \in CaseRows |-> PlainDoc] /\ bodies = [r \in Runs |-> TRUE]
    /\ version = 18

OpenPart == part = "open" /\ UpgradeNext /\ UNCHANGED <<gvars, moveVars, sqlVars, part>>
MovePart ==
    /\ part = "move"
    /\ OpenedAndMoved
    /\ UNCHANGED <<gvars, sqlVars, part>>

ValuePart == part = "values" /\ SqlNext /\ UNCHANGED <<gvars, upgradeVars, moveVars, part>>

StoreInit ==
    /\ GateInit /\ UpgradeInit /\ MoveInit /\ SqlInit
    /\ part \in {"store", "gate", "open", "move", "values"}
    /\ part # "open" => PlainDatabase

StoreSpec ==
    /\ StoreInit
    /\ [][StoreStep \/ GateStep \/ OpenPart \/ MovePart \/ ValuePart]_svars

\* What the database holds outlives its schema and its dialect: an upgrade fills
\* in what the stored runs say, a move to the other one copies every row, and a
\* value reads back as itself from either (backfill, copy_database, verify_counts,
\* exec.rs).
DatabaseIsKept == UpgradeIsFaithful /\ MoveIsWhole /\ ValuesAreKept
=============================================================================
