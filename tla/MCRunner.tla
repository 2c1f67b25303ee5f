------------------------------ MODULE MCRunner ------------------------------
(***************************************************************************)
(* Small instances of Runner: the values its .cfg files give to constants  *)
(* that are functions.  p is the configured provider of every cell, q and  *)
(* r are its fallback links.                                               *)
(***************************************************************************)
EXTENDS Runner

ChainOfTwo == [c \in Cells |-> <<"p", "q">>]
ChainOfThree == [c \in Cells |-> <<"p", "q", "r">>]

\* Every cell asks the same thing, or each its own.
SameRequest == [c \in Cells |-> "x"]
OwnRequest == [c \in Cells |-> c]

NoGraded == [c \in Cells |-> 0]
OneGraded == [c \in Cells |-> 1]
TwoGraded == [c \in Cells |-> 2]

\* Which providers ever kept entries under the older key shapes: every vendor
\* provider did under both, an exec provider under its fingerprint only.
BothShapes == [g \in OldGenerations |-> {"p"}]
NoShapes == [g \in OldGenerations |-> {}]

EmptyStore == {[k \in Keys |-> None]}

Under(g, r) == [k \in Keys |-> IF k[1] = g /\ k[3] = "p" THEN r ELSE None]

\* A store warmed by an earlier run: p's entry under one of its key shapes.
WarmStores ==
    {Under(g, r) : g \in {"today", "canonical", "fingerprint"}, r \in AllReplies}

\* Warmed before the key changed: an answer under one of the older shapes, or
\* a refusal under the other.
OldStores == {Under("canonical", "answer"), Under("fingerprint", "refusal")}

=============================================================================
