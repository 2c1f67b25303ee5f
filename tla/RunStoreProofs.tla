--------------------------- MODULE RunStoreProofs ---------------------------
(***************************************************************************)
(* Proofs about RunStore: pins resolve, the search index agrees with the   *)
(* table, uploading a run again is harmless as long as its document does   *)
(* not depend on where the upload is made from, and a sweep takes what it  *)
(* should and nothing else.                                                *)
(***************************************************************************)
EXTENDS BranchBaseline, StoreUpgrade, FiniteSetTheorems, WellFoundedInduction, TLAPS

-----------------------------------------------------------------------------
\* NoDoc is no document: a document carries a finish time.
LEMMA NoDocIsNone == NoDoc \notin Docs
  BY DEF NoDoc, Docs

\* A document that is sent is a document, and differs from NoDoc.
LEMMA SentIsDoc ==
  ASSUME NEW doc \in Docs, NEW c \in Checkouts
  PROVE  Sent(doc, c) \in Docs /\ Sent(doc, c) # NoDoc
  BY RunStoreAssumption, NoDocIsNone DEF Sent, Docs

\* Type correctness of the tables, for any number of runs, suites and branches.
THEOREM TypeCorrect == Spec => []TypeOK
<1>1. Init => TypeOK
  BY DEF Init, TypeOK, Pins
<1>2. TypeOK /\ [Next]_vars => TypeOK'
  <2> SUFFICES ASSUME TypeOK, [Next]_vars PROVE TypeOK'
    OBVIOUS
  <2>1. CASE Tick
    BY <2>1 DEF Tick, TypeOK
  <2>2. ASSUME NEW gone \in SUBSET RunIds, RemoveRuns(gone) PROVE TypeOK'
    <3>1. pins' \in [Suites -> Pins]
      BY <2>2 DEF RemoveRuns, CascadePins, TypeOK, Pins
    <3>2. runs' \in [RunIds -> Docs \cup {NoDoc}] /\ indexed' \subseteq RunIds \X Docs
      BY <2>2 DEF RemoveRuns, DropSearchRows, TypeOK
    <3> QED BY <2>2, <3>1, <3>2 DEF RemoveRuns, TypeOK
  <2>3. CASE Sweep
    BY <2>3, <2>2 DEF Sweep
  <2>4. CASE \E r \in RunIds : DeleteRun(r)
    BY <2>4, <2>2 DEF DeleteRun
  <2>5. ASSUME NEW r \in RunIds, NEW shape \in Shapes, FinishRun(r, shape) PROVE TypeOK'
    <3>1. [suite |-> shape.suite, branch |-> shape.branch, cases |-> shape.cases,
           finished |-> now, shared |-> FALSE] \in Docs
      BY RunStoreAssumption DEF ShapeSet, Docs, TypeOK
    <3> QED BY <2>5, <3>1 DEF FinishRun, TypeOK
  <2>6. ASSUME NEW r \in RunIds, NEW doc \in Docs, Ingest(r, doc)
        PROVE /\ runs' \in [RunIds -> Docs \cup {NoDoc}]
              /\ indexed' \subseteq RunIds \X Docs
              /\ refused' \subseteq RunIds
    BY <2>6 DEF Ingest, TypeOK
  <2>7. ASSUME NEW r \in RunIds, NEW c \in Checkouts, Share(r, c) PROVE TypeOK'
    <3>1. local[r] \in Docs
      BY <2>7 DEF Share, TypeOK
    <3>2. Sent(local[r], c) \in Docs
      BY <3>1, SentIsDoc
    <3> QED BY <2>7, <2>6, <3>2 DEF Share, TypeOK
  <2>8. ASSUME NEW r \in RunIds, NEW c \in Checkouts, ShareAndRecord(r, c) PROVE TypeOK'
    <3>1. local[r] \in Docs
      BY <2>8 DEF ShareAndRecord, TypeOK
    <3>2. Sent(local[r], c) \in Docs
      BY <3>1, SentIsDoc
    <3>3. [local[r] EXCEPT !.shared = TRUE] \in Docs
      BY <3>1 DEF Docs
    <3>4. local' \in [RunIds -> Docs \cup {NoDoc}]
      BY <2>8, <3>3 DEF ShareAndRecord, TypeOK
    <3> QED BY <2>8, <2>6, <3>2, <3>4 DEF ShareAndRecord, TypeOK
  <2>9. ASSUME NEW s \in Suites, NEW p \in Pins, pins' = [pins EXCEPT ![s] = p],
               UNCHANGED <<now, local, runs, indexed, refused>>
        PROVE TypeOK'
    BY <2>9 DEF TypeOK
  <2>10. CASE \E s \in Suites, r \in RunIds : PinRun(s, r)
    BY <2>10, <2>9 DEF PinRun, Pins
  <2>11. CASE \E s \in Suites, b \in Branches : PinBranch(s, b)
    BY <2>11, <2>9 DEF PinBranch, Pins
  <2>12. CASE \E s \in Suites : DeleteBaseline(s)
    BY <2>12, <2>9 DEF DeleteBaseline, Pins
  <2>13. CASE UNCHANGED vars
    BY <2>13 DEF vars, TypeOK
  <2> QED
    BY <2>1, <2>3, <2>4, <2>5, <2>7, <2>8, <2>10, <2>11, <2>12, <2>13 DEF Next
<1> QED BY <1>1, <1>2, PTL DEF Spec

-----------------------------------------------------------------------------
(***************************************************************************)
(* Pins resolve.  A pinned run leaves the table only through RemoveRuns, which *)
(* drops its pin in the same transaction, and a stored document is never   *)
(* replaced.                                                               *)
(***************************************************************************)
\* An upload never replaces a document that is stored.
LEMMA IngestKeeps ==
  ASSUME TypeOK, NEW r \in RunIds, NEW doc \in Docs, Ingest(r, doc), NEW q \in Stored
  PROVE  runs'[q] = runs[q] /\ q \in Stored'
  BY DEF Ingest, Stored, TypeOK

\* PinsResolve is kept by every step.
LEMMA PinsResolveStep == TypeOK /\ PinsResolve /\ [Next]_vars => PinsResolve'
<1> SUFFICES ASSUME TypeOK, PinsResolve, [Next]_vars, NEW s \in Suites,
                    pins'[s].kind = "run"
             PROVE  pins'[s].to \in Stored' /\ runs'[pins'[s].to].suite = s
  BY DEF PinsResolve
<1>1. CASE runs' = runs /\ pins' = pins
  BY <1>1 DEF PinsResolve, Stored
<1>2. ASSUME NEW gone \in SUBSET RunIds, RemoveRuns(gone)
      PROVE pins'[s].to \in Stored' /\ runs'[pins'[s].to].suite = s
  <2>1. pins'[s] = pins[s] /\ pins[s].to \notin gone
    BY <1>2 DEF RemoveRuns, CascadePins, NoPin
  <2>2. pins[s].to \in Stored /\ runs[pins[s].to].suite = s
    BY <2>1 DEF PinsResolve
  <2> QED BY <1>2, <2>1, <2>2 DEF RemoveRuns, Stored
<1>3. ASSUME NEW r \in RunIds, NEW doc \in Docs, Ingest(r, doc), pins' = pins
      PROVE pins'[s].to \in Stored' /\ runs'[pins'[s].to].suite = s
  BY <1>3, IngestKeeps DEF PinsResolve
<1>4. ASSUME NEW t \in Suites, NEW r \in RunIds, PinRun(t, r)
      PROVE pins'[s].to \in Stored' /\ runs'[pins'[s].to].suite = s
  <2>1. CASE s = t
    BY <1>4, <2>1 DEF PinRun, Pinnable, RunPin, Stored, TypeOK
  <2>2. CASE s # t
    BY <1>4, <2>2 DEF PinRun, PinsResolve, Stored, TypeOK
  <2> QED BY <2>1, <2>2
<1>5. ASSUME NEW t \in Suites, NEW p \in Pins, p.kind # "run",
             pins' = [pins EXCEPT ![t] = p], runs' = runs
      PROVE pins'[s].to \in Stored' /\ runs'[pins'[s].to].suite = s
  <2>1. pins'[s] = pins[s]
    BY <1>5 DEF TypeOK
  <2> QED BY <1>5, <2>1 DEF PinsResolve, Stored
<1>6. CASE Sweep
  BY <1>6, <1>2 DEF Sweep
<1>7. CASE \E r \in RunIds : DeleteRun(r)
  BY <1>7, <1>2 DEF DeleteRun
<1>8. ASSUME NEW r \in RunIds, NEW c \in Checkouts, Share(r, c) \/ ShareAndRecord(r, c)
      PROVE pins'[s].to \in Stored' /\ runs'[pins'[s].to].suite = s
  <2>1. Sent(local[r], c) \in Docs
    BY <1>8, SentIsDoc DEF Share, ShareAndRecord, TypeOK
  <2> QED BY <1>8, <2>1, <1>3 DEF Share, ShareAndRecord
<1>9. CASE \E t \in Suites, b \in Branches : PinBranch(t, b)
  BY <1>9, <1>5 DEF PinBranch, BranchPin, Pins
<1>10. CASE \E t \in Suites : DeleteBaseline(t)
  BY <1>10, <1>5 DEF DeleteBaseline, NoPin, Pins
<1>11. CASE UNCHANGED vars \/ Tick \/ \E r \in RunIds, shape \in Shapes : FinishRun(r, shape)
  BY <1>11, <1>1 DEF vars, Tick, FinishRun
<1> QED
  BY <1>4, <1>6, <1>7, <1>8, <1>9, <1>10, <1>11 DEF Next

\* A suite pinned to a run names a stored run of that suite, whatever uploads,
\* deletions, pins and sweeps happened, for any number of runs and suites.
THEOREM PinsResolveCorrect == Spec => []PinsResolve
<1>1. Init => PinsResolve
  BY DEF Init, PinsResolve, NoPin
<1> QED BY <1>1, TypeCorrect, PinsResolveStep, PTL DEF Spec

-----------------------------------------------------------------------------
\* SearchAgrees is kept by every step: rows are added with the run they
\* describe and removed with it.
LEMMA SearchAgreesStep == TypeOK /\ SearchAgrees /\ [Next]_vars => SearchAgrees'
<1> SUFFICES ASSUME TypeOK, SearchAgrees, [Next]_vars PROVE SearchAgrees'
  OBVIOUS
<1>1. CASE runs' = runs /\ indexed' = indexed
  BY <1>1 DEF SearchAgrees, Stored
<1>2. ASSUME NEW gone \in SUBSET RunIds, RemoveRuns(gone) PROVE SearchAgrees'
  BY <1>2 DEF RemoveRuns, DropSearchRows, SearchAgrees, Stored
<1>3. ASSUME NEW r \in RunIds, NEW doc \in Docs, Ingest(r, doc) PROVE SearchAgrees'
  <2>1. CASE runs[r] # NoDoc
    BY <1>3, <2>1 DEF Ingest, SearchAgrees, Stored, TypeOK
  <2>2. CASE runs[r] = NoDoc
    <3>1. Stored' = Stored \cup {r} /\ r \notin Stored
      BY <1>3, <2>2, NoDocIsNone DEF Ingest, Stored, TypeOK
    <3>2. runs'[r] = doc /\ \A q \in Stored : runs'[q] = runs[q]
      BY <1>3, <2>2, <3>1 DEF Ingest, Stored, TypeOK
    <3>3. indexed' = indexed \cup {<<r, doc>>}
      BY <1>3, <2>2 DEF Ingest
    <3> QED BY <3>1, <3>2, <3>3 DEF SearchAgrees
  <2> QED BY <2>1, <2>2
<1>4. ASSUME NEW r \in RunIds, NEW c \in Checkouts, Share(r, c) \/ ShareAndRecord(r, c)
      PROVE SearchAgrees'
  <2>1. Sent(local[r], c) \in Docs
    BY <1>4, SentIsDoc DEF Share, ShareAndRecord, TypeOK
  <2> QED BY <1>4, <2>1, <1>3 DEF Share, ShareAndRecord
<1>5. CASE Sweep
  BY <1>5, <1>2 DEF Sweep
<1>6. CASE \E r \in RunIds : DeleteRun(r)
  BY <1>6, <1>2 DEF DeleteRun
<1>7. CASE \/ UNCHANGED vars \/ Tick
           \/ \E r \in RunIds, shape \in Shapes : FinishRun(r, shape)
           \/ \E s \in Suites, r \in RunIds : PinRun(s, r)
           \/ \E s \in Suites, b \in Branches : PinBranch(s, b)
           \/ \E s \in Suites : DeleteBaseline(s)
  BY <1>7, <1>1 DEF vars, Tick, FinishRun, PinRun, PinBranch, DeleteBaseline
<1> QED BY <1>4, <1>5, <1>6, <1>7 DEF Next

\* The search index holds exactly the stored documents.
THEOREM SearchAgreesCorrect == Spec => []SearchAgrees
<1>1. Init => SearchAgrees
  BY DEF Init, SearchAgrees, Stored
<1> QED BY <1>1, TypeCorrect, SearchAgreesStep, PTL DEF Spec

\* No baseline and no row of the search index refers to a run that is not stored,
\* whatever is uploaded, deleted, pinned and swept.
THEOREM NothingDanglesCorrect == Spec => []NothingDangles
<1>1. PinsResolve /\ SearchAgrees => NothingDangles
  BY DEF NothingDangles
<1> QED BY <1>1, PinsResolveCorrect, SearchAgreesCorrect, PTL

-----------------------------------------------------------------------------
(***************************************************************************)
(* Uploading again.  What is stored is what the client's document sends,   *)
(* from whichever checkout; recording the URL does not change that.        *)
(***************************************************************************)
\* What a document sends does not depend on the checkout: every run carries
\* git metadata, or all uploads are made from the same checkout.
PlaceDoesNotMatter ==
    \/ \A shape \in Shapes : shape.branch # Null
    \/ \A c, d \in Checkouts : c = d

\* Stored documents come from the clients' documents.
StoredIsSent ==
    \A r \in RunIds :
        /\ local[r] # NoDoc /\ local[r].branch = Null => \E shape \in Shapes : shape.branch = Null
        /\ runs[r] # NoDoc => /\ local[r] # NoDoc
                              /\ \E c \in Checkouts : runs[r] = Sent(local[r], c)

\* Two uploads of one document, its URL recorded or not, send the same.
LEMMA SentAgain ==
  ASSUME PlaceDoesNotMatter, NEW doc \in Docs, NEW c \in Checkouts, NEW d \in Checkouts,
         doc.branch = Null => \E shape \in Shapes : shape.branch = Null
  PROVE  Sent(doc, c) = Sent(doc, d)
  BY DEF PlaceDoesNotMatter, Sent, Docs

LEMMA SentForgetsUrl ==
  ASSUME NEW doc \in Docs, NEW c \in Checkouts
  PROVE  Sent([doc EXCEPT !.shared = TRUE], c) = Sent(doc, c)
  BY DEF Sent, Docs

ReshareInv == StoredIsSent /\ ReshareIsHarmless

LEMMA ReshareStep ==
  ASSUME PlaceDoesNotMatter
  PROVE  TypeOK /\ ReshareInv /\ [Next]_vars => ReshareInv'
<1> SUFFICES ASSUME TypeOK, ReshareInv, [Next]_vars PROVE ReshareInv'
  OBVIOUS
<1>1. CASE runs' = runs /\ local' = local /\ refused' = refused
  BY <1>1 DEF ReshareInv, StoredIsSent, ReshareIsHarmless
<1>2. ASSUME NEW gone \in SUBSET RunIds, RemoveRuns(gone) PROVE ReshareInv'
  BY <1>2 DEF RemoveRuns, ReshareInv, StoredIsSent, ReshareIsHarmless
<1>3. ASSUME NEW r \in RunIds, NEW c \in Checkouts, local[r] # NoDoc,
             Ingest(r, Sent(local[r], c))
      PROVE /\ ReshareIsHarmless'
            /\ \A q \in RunIds : runs'[q] # NoDoc =>
                  local[q] # NoDoc /\ \E d \in Checkouts : runs'[q] = Sent(local[q], d)
  <2>1. local[r] \in Docs
    BY <1>3 DEF TypeOK
  <2>2. ~Conflict(r, Sent(local[r], c))
    <3> SUFFICES ASSUME runs[r] # NoDoc PROVE runs[r] = Sent(local[r], c)
      BY DEF Conflict
    <3>1. PICK d \in Checkouts : runs[r] = Sent(local[r], d)
      BY DEF ReshareInv, StoredIsSent
    <3>2. local[r].branch = Null => \E shape \in Shapes : shape.branch = Null
      BY <1>3 DEF ReshareInv, StoredIsSent
    <3> QED BY <3>1, <3>2, <2>1, SentAgain
  <2>3. ReshareIsHarmless'
    BY <1>3, <2>2 DEF Ingest, ReshareInv, ReshareIsHarmless
  <2>4. ASSUME NEW q \in RunIds, runs'[q] # NoDoc
        PROVE local[q] # NoDoc /\ \E d \in Checkouts : runs'[q] = Sent(local[q], d)
    <3>1. CASE runs'[q] = runs[q]
      BY <2>4, <3>1 DEF ReshareInv, StoredIsSent
    <3>2. CASE q = r /\ runs'[q] = Sent(local[r], c)
      BY <1>3, <3>2
    <3> QED BY <1>3, <3>1, <3>2 DEF Ingest, TypeOK
  <2> QED BY <2>3, <2>4
<1>4. ASSUME NEW r \in RunIds, NEW c \in Checkouts, Share(r, c) PROVE ReshareInv'
  <2>1. local' = local /\ local[r] # NoDoc /\ Ingest(r, Sent(local[r], c))
    BY <1>4 DEF Share
  <2> QED BY <2>1, <1>3 DEF ReshareInv, StoredIsSent
<1>5. ASSUME NEW r \in RunIds, NEW c \in Checkouts, ShareAndRecord(r, c) PROVE ReshareInv'
  <2>1. local[r] # NoDoc /\ Ingest(r, Sent(local[r], c))
    BY <1>5 DEF ShareAndRecord
  <2>2. local[r] \in Docs
    BY <2>1 DEF TypeOK
  <2> DEFINE marked == [local[r] EXCEPT !.shared = TRUE]
  <2>3. local' = [local EXCEPT ![r] = marked]
    BY <1>5 DEF ShareAndRecord
  <2>4. marked \in Docs /\ marked.branch = local[r].branch
    BY <2>2 DEF Docs
  <2>5. \A d \in Checkouts : Sent(marked, d) = Sent(local[r], d)
    BY <2>2, SentForgetsUrl
  <2> HIDE DEF marked
  <2>6. marked # NoDoc
    BY <2>4, NoDocIsNone
  <2>7. local'[r] = marked /\ \A q \in RunIds : q # r => local'[q] = local[q]
    BY <2>3 DEF TypeOK
  <2>8. ReshareIsHarmless' /\ \A q \in RunIds : runs'[q] # NoDoc =>
              local[q] # NoDoc /\ \E d \in Checkouts : runs'[q] = Sent(local[q], d)
    BY <2>1, <1>3
  <2>9. ASSUME NEW q \in RunIds
        PROVE /\ local'[q] # NoDoc /\ local'[q].branch = Null
                    => \E shape \in Shapes : shape.branch = Null
              /\ runs'[q] # NoDoc => /\ local'[q] # NoDoc
                                     /\ \E d \in Checkouts : runs'[q] = Sent(local'[q], d)
    <3>1. CASE q = r
      BY <2>1, <2>4, <2>5, <2>6, <2>7, <2>8, <3>1 DEF ReshareInv, StoredIsSent
    <3>2. CASE q # r
      BY <2>7, <2>8, <3>2 DEF ReshareInv, StoredIsSent
    <3> QED BY <3>1, <3>2
  <2> QED BY <2>8, <2>9 DEF ReshareInv, StoredIsSent
<1>6. ASSUME NEW r \in RunIds, NEW shape \in Shapes, FinishRun(r, shape) PROVE ReshareInv'
  <2>1. runs' = runs /\ refused' = refused /\ local[r] = NoDoc
    BY <1>6 DEF FinishRun
  <2>2. runs[r] = NoDoc
    BY <2>1 DEF ReshareInv, StoredIsSent
  <2>3. local'[r].branch = shape.branch /\ \A q \in RunIds : q # r => local'[q] = local[q]
    BY <1>6 DEF FinishRun, TypeOK
  <2>4. StoredIsSent'
    BY <2>1, <2>2, <2>3 DEF ReshareInv, StoredIsSent
  <2> QED BY <2>1, <2>4 DEF ReshareInv, ReshareIsHarmless
<1>7. CASE Sweep
  BY <1>7, <1>2 DEF Sweep
<1>8. CASE \E r \in RunIds : DeleteRun(r)
  BY <1>8, <1>2 DEF DeleteRun
<1>9. CASE \/ UNCHANGED vars \/ Tick
           \/ \E s \in Suites, r \in RunIds : PinRun(s, r)
           \/ \E s \in Suites, b \in Branches : PinBranch(s, b)
           \/ \E s \in Suites : DeleteBaseline(s)
  BY <1>9, <1>1 DEF vars, Tick, PinRun, PinBranch, DeleteBaseline
<1> QED BY <1>4, <1>5, <1>6, <1>7, <1>8, <1>9 DEF Next

\* Uploading one's own run again, after a lost answer or a recorded URL, is
\* never refused, provided its document does not depend on the checkout.
THEOREM ReshareCorrect ==
  ASSUME PlaceDoesNotMatter
  PROVE  Spec => []ReshareIsHarmless
<1>1. Init => ReshareInv
  BY DEF Init, ReshareInv, StoredIsSent, ReshareIsHarmless
<1>2. TypeOK /\ ReshareInv /\ [Next]_vars => ReshareInv'
  BY ReshareStep
<1>3. ReshareInv => ReshareIsHarmless
  BY DEF ReshareInv
<1> QED BY <1>1, <1>2, <1>3, TypeCorrect, PTL DEF Spec
-----------------------------------------------------------------------------
(***************************************************************************)
(* Retention.  That a group keeps a member needs that it has a newest one: *)
(* finish times are bounded by the clock, and among bounded numbers there  *)
(* is a largest, by the minimum principle of a well-founded relation.      *)
(***************************************************************************)
LEMMA LargestOfBounded ==
  ASSUME NEW T, T \subseteq Nat, T # {}, NEW n \in Nat, \A t \in T : t <= n
  PROVE  \E m \in T : \A t \in T : t <= m
<1> DEFINE Less == OpToRel(<, Nat)
           Bounds == {k \in Nat : \A t \in T : t <= k}
<1>1. \A x, y \in Nat : x < y => <<x, y>> \in Less
  BY DEF OpToRel
<1>2. IsWellFoundedOn(Less, Nat)
  BY NatLessThanWellFounded
<1> HIDE DEF Less
<1>3. Bounds \subseteq Nat /\ Bounds # {}
  OBVIOUS
<1>4. \E x \in Bounds : \A y \in Bounds : ~(<<y, x>> \in Less)
  <2> HIDE DEF Bounds
  <2> QED BY <1>2, <1>3, WFMin
<1>5. PICK m \in Bounds : \A y \in Bounds : ~(<<y, m>> \in Less)
  BY <1>4
<1>6. m \in Nat /\ \A t \in T : t <= m
  OBVIOUS
<1>7. m \in T
  <2> SUFFICES ASSUME m \notin T PROVE FALSE
    OBVIOUS
  <2>1. PICK t \in T : TRUE
    OBVIOUS
  <2>2. \A u \in T : u \in Nat /\ u <= m - 1
    BY <1>6
  <2>3. m - 1 \in Nat
    BY <1>6, <2>1, <2>2
  <2>4. m - 1 \in Bounds
    BY <2>2, <2>3
  <2>5. <<m - 1, m>> \in Less
    BY <1>1, <1>6, <2>3
  <2> QED BY <1>5, <2>4, <2>5
<1> QED BY <1>6, <1>7

\* No document is from the future.
FromThePast == \A r \in RunIds : local[r].finished <= now /\ runs[r].finished <= now

LEMMA FromThePastStep == TypeOK /\ FromThePast /\ [Next]_vars => FromThePast'
<1> SUFFICES ASSUME TypeOK, FromThePast, [Next]_vars PROVE FromThePast'
  OBVIOUS
<1>1. CASE runs' = runs /\ local' = local /\ now' = now
  BY <1>1 DEF FromThePast
<1>2. CASE Tick
  <2>1. \A r \in RunIds : local[r].finished \in Int /\ runs[r].finished \in Int
    BY DEF TypeOK, Docs, NoDoc
  <2> QED BY <1>2, <2>1 DEF Tick, FromThePast, TypeOK
<1>3. ASSUME NEW gone \in SUBSET RunIds, RemoveRuns(gone) PROVE FromThePast'
  BY <1>3 DEF RemoveRuns, FromThePast, NoDoc, TypeOK
<1>4. ASSUME NEW r \in RunIds, NEW c \in Checkouts, Share(r, c) \/ ShareAndRecord(r, c)
      PROVE FromThePast'
  <2>1. local[r] \in Docs /\ now' = now /\ Ingest(r, Sent(local[r], c))
    BY <1>4 DEF Share, ShareAndRecord, TypeOK
  <2>2. Sent(local[r], c).finished = local[r].finished
    BY <2>1 DEF Sent, Docs
  <2>3. \A q \in RunIds : local'[q].finished = local[q].finished
    BY <1>4, <2>1 DEF Share, ShareAndRecord, TypeOK, Docs
  <2>4. \A q \in RunIds : runs'[q].finished <= now
    BY <2>1, <2>2 DEF Ingest, FromThePast, TypeOK
  <2> QED BY <2>1, <2>3, <2>4 DEF FromThePast
<1>5. ASSUME NEW r \in RunIds, NEW shape \in Shapes, FinishRun(r, shape) PROVE FromThePast'
  BY <1>5 DEF FinishRun, FromThePast, TypeOK
<1>6. CASE Sweep
  BY <1>6, <1>3 DEF Sweep
<1>7. CASE \E r \in RunIds : DeleteRun(r)
  BY <1>7, <1>3 DEF DeleteRun
<1>8. CASE \/ UNCHANGED vars
           \/ \E s \in Suites, r \in RunIds : PinRun(s, r)
           \/ \E s \in Suites, b \in Branches : PinBranch(s, b)
           \/ \E s \in Suites : DeleteBaseline(s)
  BY <1>8, <1>1 DEF vars, PinRun, PinBranch, DeleteBaseline
<1> QED BY <1>2, <1>4, <1>5, <1>6, <1>7, <1>8 DEF Next

\* Every group of stored runs has a newest member.
LEMMA GroupHasNewest ==
  ASSUME TypeOK, FromThePast, NEW r \in Stored
  PROVE  \E q \in Stored : SameGroup(r, q) /\ NewestOfGroup(q)
<1> DEFINE group == {q \in Stored : SameGroup(r, q)}
           times == {runs[q].finished : q \in group}
<1>1. \A q \in Stored : runs[q].finished \in Nat /\ runs[q].finished <= now
  BY DEF Stored, TypeOK, FromThePast, Docs
<1>2. r \in group
  BY DEF SameGroup
<1>3. times \subseteq Nat /\ times # {} /\ \A t \in times : t <= now
  BY <1>1, <1>2
<1>4. now \in Nat
  BY DEF TypeOK
<1>5. \E m \in times : \A t \in times : t <= m
  <2> HIDE DEF times
  <2> QED BY <1>3, <1>4, LargestOfBounded
<1>6. PICK q \in group : \A t \in times : t <= runs[q].finished
  BY <1>5
<1>7. \A p \in Stored : SameGroup(q, p) => p \in group
  BY <1>6 DEF SameGroup
<1>8. NewestOfGroup(q)
  BY <1>6, <1>7 DEF NewestOfGroup, SameGroup
<1> QED BY <1>6, <1>8

LEMMA SweepKeepsPins ==
  ASSUME TypeOK, Sweep
  PROVE  pins' = pins
<1> DEFINE gone == {r \in RunIds : Evictable(r)}
<1>1. pins' = CascadePins(gone)
  BY DEF Sweep, RemoveRuns
<1>2. ASSUME NEW s \in Suites, pins[s].kind = "run" PROVE pins[s].to \notin gone
  <2>1. PICK r \in RunIds : pins[s] = RunPin(r)
    BY <1>2 DEF TypeOK, Pins, NoPin, BranchPin
  <2>2. Pinned(r) /\ pins[s].to = r
    BY <2>1 DEF Pinned, RunPin
  <2> QED BY <2>2 DEF Evictable, Protected
<1>3. \A s \in Suites : CascadePins(gone)[s] = pins[s]
  <2> HIDE DEF gone
  <2> QED BY <1>2 DEF CascadePins
<1> QED
  <2> HIDE DEF gone
  <2> QED BY <1>1, <1>3 DEF CascadePins, TypeOK

\* A sweep unpins no suite, leaves every group of runs its newest member, and
\* leaves no expired run that nothing protects (PROTECTED and sweep in
\* retention), for any number of runs, suites and branches, whatever is pinned.
THEOREM SweepIsSelectiveCorrect == Spec => SweepIsSelective
<1>1. Init => FromThePast
  BY DEF Init, FromThePast, NoDoc
<1>2. ASSUME TypeOK, FromThePast, Sweep
      PROVE  /\ pins' = pins
             /\ \A r \in Stored : \E q \in RunIds :
                     /\ runs'[q] # NoDoc
                     /\ runs'[q].suite = runs[r].suite
                     /\ runs'[q].branch = runs[r].branch
                     /\ runs'[q].finished >= runs[r].finished
             /\ \A r \in RunIds : Stale(r) => runs'[r] = NoDoc
  <2>1. runs' = [r \in RunIds |-> IF Evictable(r) THEN NoDoc ELSE runs[r]]
    BY <1>2 DEF Sweep, RemoveRuns
  <2>2. pins' = pins
    BY <1>2, SweepKeepsPins
  <2>3. ASSUME NEW r \in Stored
        PROVE  \E q \in RunIds : /\ runs'[q] # NoDoc
                                 /\ runs'[q].suite = runs[r].suite
                                 /\ runs'[q].branch = runs[r].branch
                                 /\ runs'[q].finished >= runs[r].finished
    <3>1. PICK q \in Stored : SameGroup(r, q) /\ NewestOfGroup(q)
      BY <1>2, GroupHasNewest
    <3>2. ~Evictable(q)
      BY <3>1 DEF Evictable, Protected
    <3>3. q \in RunIds /\ runs[q] # NoDoc /\ runs'[q] = runs[q]
      BY <2>1, <3>2 DEF Stored
    <3>4. SameGroup(q, r)
      BY <3>1 DEF SameGroup
    <3>5. runs[r].finished <= runs[q].finished
      BY <3>1, <3>4 DEF NewestOfGroup
    <3>6. runs[r].finished \in Int /\ runs[q].finished \in Int
      BY <1>2 DEF TypeOK, Stored, Docs
    <3> QED BY <3>1, <3>3, <3>5, <3>6 DEF SameGroup
  <2>4. ASSUME NEW r \in RunIds, Stale(r) PROVE runs'[r] = NoDoc
    <3>1. Expired(r) /\ ~Pinned(r)
      BY <2>4 DEF Stale, Expired, Pinned
    <3>2. PICK q \in Stored : SameGroup(r, q) /\ runs[q].finished > runs[r].finished
      BY <2>4 DEF Stale, Superseded, SameGroup
    <3>3. runs[r].finished \in Int /\ runs[q].finished \in Int
      BY <1>2, <2>4 DEF TypeOK, Stored, Docs, Stale
    <3>4. ~NewestOfGroup(r)
      BY <3>2, <3>3 DEF NewestOfGroup
    <3> QED BY <2>1, <3>1, <3>4 DEF Evictable, Protected
  <2> QED BY <2>2, <2>3, <2>4
<1>3. TypeOK /\ FromThePast /\ [Next]_vars
        => [Sweep => /\ pins' = pins
                     /\ \A r \in Stored : \E q \in RunIds :
                             /\ runs'[q] # NoDoc
                             /\ runs'[q].suite = runs[r].suite
                             /\ runs'[q].branch = runs[r].branch
                             /\ runs'[q].finished >= runs[r].finished
                     /\ \A r \in RunIds : Stale(r) => runs'[r] = NoDoc]_vars
  BY <1>2
<1> QED BY <1>1, <1>3, FromThePastStep, TypeCorrect, PTL DEF Spec, SweepIsSelective

-----------------------------------------------------------------------------
\* Induction over an interval, for a set of numbers.
LEMMA IntervalInduction ==
  ASSUME NEW n \in Nat, NEW S, 0 \in S, \A i \in 0 .. n - 1 : i \in S => i + 1 \in S
  PROVE  \A i \in 0 .. n : i \in S
<1> DEFINE Less == OpToRel(<, Nat)
           Missing == {i \in 0 .. n : i \notin S}
<1> SUFFICES ASSUME Missing # {} PROVE FALSE
  OBVIOUS
<1>1. \A x, y \in Nat : x < y => <<x, y>> \in Less
  BY DEF OpToRel
<1>2. IsWellFoundedOn(Less, Nat)
  BY NatLessThanWellFounded
<1> HIDE DEF Less
<1>3. \E m \in Missing : \A i \in Missing : ~(<<i, m>> \in Less)
  <2>1. Missing \subseteq Nat
    OBVIOUS
  <2> HIDE DEF Missing
  <2> QED BY <1>2, <2>1, WFMin
<1>4. PICK m \in Missing : \A i \in Missing : ~(<<i, m>> \in Less)
  BY <1>3
<1>5. m - 1 \in 0 .. n - 1 /\ m - 1 \in Nat /\ m \in Nat
  OBVIOUS
<1>6. <<m - 1, m>> \in Less
  BY <1>1, <1>5
<1>7. m - 1 \in S
  BY <1>4, <1>5, <1>6
<1>8. (m - 1) + 1 \in S
  BY <1>5, <1>7
<1> QED BY <1>5, <1>8

\* The order of the rows is a strict total order, newest first.
LEMMA NewestFirstOrders ==
  ASSUME NEW t \in [RunIds -> Docs \cup {NoDoc}],
         NEW p \in RunIds, NEW q \in RunIds, NEW r \in RunIds
  PROVE  /\ ~NewestFirst(t, p, p)
         /\ p # q => NewestFirst(t, p, q) \/ NewestFirst(t, q, p)
         /\ NewestFirst(t, p, q) /\ NewestFirst(t, q, r) => NewestFirst(t, p, r)
<1>1. \A x \in RunIds : x \in Int /\ t[x].finished \in Int
  BY RunStoreAssumption DEF Docs, NoDoc
<1> QED BY <1>1 DEF NewestFirst

\* The runs that come before a run.
Newer(t, all, r) == {q \in all : NewestFirst(t, q, r)}

LEMMA NewerCounts ==
  ASSUME NEW t \in [RunIds -> Docs \cup {NoDoc}], NEW all \in SUBSET RunIds,
         IsFiniteSet(all), NEW q \in all, NEW r \in all
  PROVE  /\ Cardinality(Newer(t, all, r)) \in 0 .. Cardinality(all) - 1
         /\ NewestFirst(t, q, r)
              => Cardinality(Newer(t, all, q)) < Cardinality(Newer(t, all, r))
<1>1. Newer(t, all, r) \in SUBSET (all \ {r})
  BY NewestFirstOrders DEF Newer
<1>2. IsFiniteSet(all \ {r}) /\ Cardinality(all \ {r}) = Cardinality(all) - 1
  BY FS_RemoveElement
<1>3. IsFiniteSet(Newer(t, all, r)) /\ Cardinality(Newer(t, all, r)) <= Cardinality(all) - 1
  BY <1>1, <1>2, FS_Subset
<1>4. Cardinality(Newer(t, all, r)) \in Nat /\ Cardinality(all) \in Nat
  BY <1>3, FS_CardinalityType
<1>5. ASSUME NewestFirst(t, q, r)
      PROVE  Cardinality(Newer(t, all, q)) < Cardinality(Newer(t, all, r))
  <2>1. Newer(t, all, q) \in SUBSET Newer(t, all, r)
    BY <1>5, NewestFirstOrders DEF Newer
  <2>2. q \in Newer(t, all, r) /\ q \notin Newer(t, all, q)
    BY <1>5, NewestFirstOrders DEF Newer
  <2>3. IsFiniteSet(Newer(t, all, q))
        /\ Cardinality(Newer(t, all, q)) <= Cardinality(Newer(t, all, r))
        /\ Cardinality(Newer(t, all, q)) # Cardinality(Newer(t, all, r))
    BY <1>3, <2>1, <2>2, FS_Subset
  <2>4. Cardinality(Newer(t, all, q)) \in Nat
    BY <2>3, FS_CardinalityType
  <2> QED BY <1>4, <2>3, <2>4
<1> QED BY <1>3, <1>4, <1>5

\* As many runs come before some run as one likes: a run has each place.
LEMMA EveryPlaceIsTaken ==
  ASSUME NEW t \in [RunIds -> Docs \cup {NoDoc}], NEW all \in SUBSET RunIds,
         IsFiniteSet(all), NEW i \in 1 .. Cardinality(all)
  PROVE  \E r \in all : Cardinality(Newer(t, all, r)) = i - 1
<1> DEFINE n == Cardinality(all)
           place == [r \in all |-> Cardinality(Newer(t, all, r))]
<1>1. n \in Nat
  BY FS_CardinalityType
<1>2. place \in [all -> 0 .. n - 1]
  BY NewerCounts
<1>3. ASSUME NEW q \in all, NEW r \in all, q # r PROVE place[q] # place[r]
  <2>1. NewestFirst(t, q, r) \/ NewestFirst(t, r, q)
    BY <1>3, NewestFirstOrders
  <2>2. place[q] \in Int /\ place[r] \in Int
    BY <1>1, <1>2
  <2>3. place[q] < place[r] \/ place[r] < place[q]
    BY <2>1, NewerCounts
  <2> HIDE DEF place
  <2> QED BY <2>2, <2>3
<1>4. place \in Injection(all, 0 .. n - 1)
  <2> HIDE DEF place
  <2> QED BY <1>2, <1>3 DEF Injection, IsInjective
<1>5. IsFiniteSet(0 .. n - 1) /\ Cardinality(0 .. n - 1) = n
  <2>1. 0 \in Int /\ n - 1 \in Int
    BY <1>1
  <2>2. Cardinality(0 .. n - 1) = IF 0 > n - 1 THEN 0 ELSE (n - 1) - 0 + 1
    BY <2>1, FS_Interval
  <2> HIDE DEF n
  <2> QED BY <1>1, <2>1, <2>2, FS_Interval
<1>6. place \in Surjection(all, 0 .. n - 1)
  <2> HIDE DEF place
  <2> QED BY <1>4, <1>5, FS_Injection
<1>7. i - 1 \in 0 .. n - 1
  BY <1>1
<1>8. \E r \in all : place[r] = i - 1
  <2> HIDE DEF place, n
  <2> QED BY <1>6, <1>7 DEF Surjection
<1> QED BY <1>8

\* The rows can be put in order: that is what Sorted is.
LEMMA SortedIsInOrder ==
  ASSUME NEW t \in [RunIds -> Docs \cup {NoDoc}], NEW all \in SUBSET RunIds, IsFiniteSet(all)
  PROVE  /\ Sorted(t, all) \in [1 .. Cardinality(all) -> all]
         /\ \A i, j \in 1 .. Cardinality(all) :
                i < j => NewestFirst(t, Sorted(t, all)[i], Sorted(t, all)[j])
<1> DEFINE n == Cardinality(all)
           list == [i \in 1 .. n |-> CHOOSE r \in all : Cardinality(Newer(t, all, r)) = i - 1]
<1>1. n \in Nat
  BY FS_CardinalityType
<1>2. \A i \in 1 .. n : list[i] \in all /\ Cardinality(Newer(t, all, list[i])) = i - 1
  BY EveryPlaceIsTaken
<1>3. ASSUME NEW i \in 1 .. n, NEW j \in 1 .. n, i < j
      PROVE  NewestFirst(t, list[i], list[j])
  <2>1. list[i] \in all /\ list[j] \in all
    BY <1>2
  <2>2. Cardinality(Newer(t, all, list[i])) = i - 1 /\ Cardinality(Newer(t, all, list[j])) = j - 1
    BY <1>2
  <2> HIDE DEF list
  <2>3. ~(j - 1 < i - 1) /\ i - 1 # j - 1
    BY <1>1, <1>3
  <2>4. list[i] # list[j]
    BY <2>2, <2>3
  <2>5. ~NewestFirst(t, list[j], list[i])
    BY <2>1, <2>2, <2>3, NewerCounts
  <2> QED BY <2>1, <2>4, <2>5, NewestFirstOrders
<1>4. list \in [1 .. n -> all]
  <2>1. \A i \in 1 .. n : list[i] \in all
    BY <1>2
  <2> QED BY <2>1
<1> QED
  <2> HIDE DEF list
  <2> QED BY <1>3, <1>4 DEF Sorted

\* A run is in the sorted list, and the place it has there counts the newer ones.
LEMMA SortedHasAll ==
  ASSUME NEW t \in [RunIds -> Docs \cup {NoDoc}], NEW all \in SUBSET RunIds, IsFiniteSet(all)
  PROVE  /\ \A r \in all : \E i \in 1 .. Cardinality(all) : Sorted(t, all)[i] = r
         /\ \A i \in 1 .. Cardinality(all) : Cardinality(Newer(t, all, Sorted(t, all)[i])) = i - 1
<1> DEFINE n == Cardinality(all)
           list == Sorted(t, all)
<1>1. n \in Nat
  BY FS_CardinalityType
<1>2. list \in [1 .. n -> all] /\ \A i, j \in 1 .. n : i < j => NewestFirst(t, list[i], list[j])
  BY SortedIsInOrder
<1> HIDE DEF list
<1>3. ASSUME NEW i \in 1 .. n, NEW j \in 1 .. n, i # j PROVE list[i] # list[j]
  <2>1. i < j \/ j < i
    BY <1>1, <1>3
  <2>2. list[i] \in all /\ list[j] \in all
    BY <1>2
  <2> QED BY <1>2, <2>1, <2>2, NewestFirstOrders
<1>4. IsFiniteSet(1 .. n) /\ Cardinality(1 .. n) = n
  <2>1. 1 \in Int /\ n \in Int
    BY <1>1
  <2>2. Cardinality(1 .. n) = IF 1 > n THEN 0 ELSE n - 1 + 1
    BY <2>1, FS_Interval
  <2> HIDE DEF n
  <2> QED BY <1>1, <2>1, <2>2, FS_Interval
<1>5. list \in Injection(1 .. n, all)
  BY <1>2, <1>3 DEF Injection, IsInjective
<1>6. list \in Surjection(1 .. n, all)
  <2>1. Cardinality(1 .. n) = Cardinality(all)
    BY <1>4
  <2> QED BY <1>5, <2>1, FS_Injection
<1>7. \A r \in all : \E i \in 1 .. n : list[i] = r
  <2> HIDE DEF n
  <2> QED BY <1>6 DEF Surjection
<1>8. ASSUME NEW i \in 1 .. n PROVE Cardinality(Newer(t, all, list[i])) = i - 1
  <2> DEFINE before == [j \in 1 .. i - 1 |-> list[j]]
  <2>1. i - 1 \in Nat /\ \A j \in 1 .. i - 1 : j \in 1 .. n /\ j < i
    BY <1>1
  <2>2. before \in [1 .. i - 1 -> Newer(t, all, list[i])]
    BY <1>2, <2>1 DEF Newer
  <2>3. \A j, k \in 1 .. i - 1 : j # k => before[j] # before[k]
    BY <1>3, <2>1
  <2>4. ASSUME NEW r \in Newer(t, all, list[i]) PROVE \E j \in 1 .. i - 1 : before[j] = r
    <3>1. r \in all /\ NewestFirst(t, r, list[i])
      BY <2>4 DEF Newer
    <3>2. PICK j \in 1 .. n : list[j] = r
      BY <1>7, <3>1
    <3>3. list[i] \in all
      BY <1>2
    <3>4. i # j
      BY <3>1, <3>2, <3>3, NewestFirstOrders
    <3>5. ~(i < j)
      BY <1>2, <3>1, <3>2, <3>3, NewestFirstOrders
    <3>6. j \in 1 .. i - 1
      BY <1>1, <3>4, <3>5
    <3> QED BY <3>2, <3>6
  <2> HIDE DEF before
  <2>5. before \in Injection(1 .. i - 1, Newer(t, all, list[i]))
    BY <2>2, <2>3 DEF Injection, IsInjective
  <2>6. before \in Surjection(1 .. i - 1, Newer(t, all, list[i]))
    BY <2>2, <2>4 DEF Surjection
  <2>7. ExistsBijection(1 .. i - 1, Newer(t, all, list[i]))
    BY <2>5, <2>6 DEF ExistsBijection, Bijection
  <2> QED BY <2>1, <2>7, FS_CountingElements
<1> QED BY <1>7, <1>8 DEF list

\* The branch's list is the window, newest first: its rows are the runs that few
\* enough others are newer than.
LEMMA BranchRunsAreTheWindow ==
  ASSUME TypeOK, IsFiniteSet(Stored), NEW s, NEW b, NEW h
  PROVE  /\ Len(BranchRuns(runs, s, b, h)) \in Nat
         /\ Len(BranchRuns(runs, s, b, h)) <= Lookback
         /\ BranchRuns(runs, s, b, h) \in
                [1 .. Len(BranchRuns(runs, s, b, h)) -> Window(s, b, h)]
         /\ \A r \in Window(s, b, h) :
                \E i \in 1 .. Len(BranchRuns(runs, s, b, h)) : BranchRuns(runs, s, b, h)[i] = r
         /\ \A i, j \in 1 .. Len(BranchRuns(runs, s, b, h)) :
                i < j => Later(BranchRuns(runs, s, b, h)[i], BranchRuns(runs, s, b, h)[j])
<1> DEFINE all == OnBranch(runs, s, b, h)
           n == Cardinality(all)
           m == Smaller(n, Lookback)
           list == Sorted(runs, all)
           part == [i \in 1 .. m |-> list[i]]
<1>1. runs \in [RunIds -> Docs \cup {NoDoc}]
  BY DEF TypeOK
<1>2. all \in SUBSET RunIds /\ all \in SUBSET Stored
  BY DEF OnBranch, Stored
<1>3. IsFiniteSet(all)
  BY <1>2, FS_Subset
<1>4. n \in Nat /\ Lookback \in Nat /\ m \in Nat /\ m <= n /\ m <= Lookback
      /\ \A i \in 1 .. n : i - 1 < Lookback => i \in 1 .. m
  <2>1. n \in Nat
    BY <1>3, FS_CardinalityType
  <2> HIDE DEF n
  <2> QED BY <2>1, BranchAssumption DEF Smaller
<1>5. /\ list \in [1 .. n -> all]
      /\ \A i, j \in 1 .. n : i < j => NewestFirst(runs, list[i], list[j])
  BY <1>1, <1>2, <1>3, SortedIsInOrder
<1>6. /\ \A r \in all : \E i \in 1 .. n : list[i] = r
      /\ \A i \in 1 .. n : Cardinality(Newer(runs, all, list[i])) = i - 1
  BY <1>1, <1>2, <1>3, SortedHasAll
<1>7. Window(s, b, h) = {r \in all : Cardinality(Newer(runs, all, r)) < Lookback}
  <2>1. {r \in Stored \ {h} : runs[r].suite = s /\ runs[r].branch = b} = all
    BY DEF OnBranch, Stored
  <2>2. \A r : {q \in all : Later(q, r)} = Newer(runs, all, r)
    BY DEF Newer, Later, NewestFirst
  <2> HIDE DEF all
  <2> QED BY <2>1, <2>2 DEF Window
<1>8. BranchRuns(runs, s, b, h) = part
  BY DEF BranchRuns
<1> HIDE DEF list, m, n, all
<1>9. Len(part) = m /\ DOMAIN part = 1 .. m
  BY <1>4
<1>10. \A i \in 1 .. m : i \in 1 .. n /\ part[i] = list[i] /\ i - 1 < Lookback
  BY <1>4
<1>11. part \in [1 .. m -> Window(s, b, h)]
  BY <1>5, <1>6, <1>7, <1>10
<1>12. \A r \in Window(s, b, h) : \E i \in 1 .. m : part[i] = r
  BY <1>4, <1>6, <1>7, <1>10
<1>13. \A i, j \in 1 .. m : i < j => Later(part[i], part[j])
  BY <1>5, <1>10 DEF Later, NewestFirst
<1> HIDE DEF part
<1> QED BY <1>4, <1>8, <1>9, <1>11, <1>12, <1>13

-----------------------------------------------------------------------------
\* The walk is what its definition says: there is a function that satisfies it.
LEMMA WalkSteps ==
  ASSUME NEW t, NEW list, NEW n \in Nat
  PROVE  /\ Walk(t, list, n)[0] = NothingYet
         /\ \A i \in 0 .. n - 1 :
                Walk(t, list, n)[i + 1] = AddCases(t, Walk(t, list, n)[i], list[i + 1], i + 1)
<1> DEFINE Is(f, k) ==
             f = [i \in 0 .. k |-> IF i = 0 THEN NothingYet
                                   ELSE AddCases(t, f[i - 1], list[i], i)]
           some == {k \in 0 .. n : \E f : Is(f, k)}
<1>1. 0 \in some
  <2> DEFINE f == [i \in 0 .. 0 |-> NothingYet]
  <2>1. Is(f, 0)
    OBVIOUS
  <2>2. 0 \in 0 .. n
    OBVIOUS
  <2> HIDE DEF f, Is
  <2>3. \E g : Is(g, 0)
    BY <2>1
  <2> QED BY <2>2, <2>3
<1>2. ASSUME NEW k \in 0 .. n - 1, k \in some PROVE k + 1 \in some
  <2>1. PICK f : Is(f, k)
    BY <1>2
  <2> DEFINE g == [i \in 0 .. k + 1 |-> IF i \in 0 .. k THEN f[i]
                                        ELSE AddCases(t, f[k], list[k + 1], k + 1)]
             again == [i \in 0 .. k + 1 |-> IF i = 0 THEN NothingYet
                                            ELSE AddCases(t, g[i - 1], list[i], i)]
  <2>2. ASSUME NEW i \in 0 .. k + 1 PROVE g[i] = again[i]
    <3>1. CASE i = 0
      BY <2>1, <3>1
    <3>2. CASE i \in 1 .. k
      <4>1. g[i] = f[i] /\ i # 0 /\ i - 1 \in 0 .. k /\ i \in 0 .. k
        BY <3>2
      <4>2. g[i - 1] = f[i - 1]
        BY <4>1, <3>2
      <4>3. f[i] = AddCases(t, f[i - 1], list[i], i)
        BY <2>1, <4>1
      <4>4. again[i] = AddCases(t, g[i - 1], list[i], i)
        BY <4>1
      <4> QED BY <4>1, <4>2, <4>3, <4>4
    <3>3. CASE i = k + 1
      <4>1. i # 0 /\ i \notin 0 .. k /\ i - 1 = k /\ k \in 0 .. k + 1 /\ k \in 0 .. k
        BY <3>3
      <4>2. g[k] = f[k]
        BY <4>1
      <4>3. g[i] = AddCases(t, f[k], list[k + 1], k + 1)
        BY <4>1
      <4>4. again[i] = AddCases(t, g[i - 1], list[i], i)
        BY <4>1
      <4>5. again[i] = AddCases(t, g[k], list[k + 1], k + 1)
        BY <4>1, <4>4, <3>3
      <4> QED BY <4>2, <4>3, <4>5
    <3> QED BY <3>1, <3>2, <3>3
  <2>3. g = again
    BY <2>2
  <2>4. Is(g, k + 1)
    BY <2>3
  <2> HIDE DEF g, Is
  <2> QED BY <2>4
<1>3. n \in some
  <2>1. n \in 0 .. n
    OBVIOUS
  <2> HIDE DEF some
  <2> QED BY <1>1, <1>2, <2>1, IntervalInduction
<1>4. Is(Walk(t, list, n), n)
  <2>1. \E f : Is(f, n)
    BY <1>3
  <2>2. Walk(t, list, n) = CHOOSE f : Is(f, n)
    BY DEF Walk
  <2> HIDE DEF Is
  <2> QED BY <2>1, <2>2
<1> DEFINE w == Walk(t, list, n)
<1>5. w = [i \in 0 .. n |-> IF i = 0 THEN NothingYet ELSE AddCases(t, w[i - 1], list[i], i)]
  BY <1>4
<1> HIDE DEF w
<1>6. w[0] = NothingYet
  BY <1>5
<1>7. ASSUME NEW i \in 0 .. n - 1 PROVE w[i + 1] = AddCases(t, w[i], list[i + 1], i + 1)
  <2>1. i + 1 \in 0 .. n /\ i + 1 # 0 /\ (i + 1) - 1 = i
    OBVIOUS
  <2> QED BY <1>5, <2>1
<1> QED BY <1>6, <1>7 DEF w

\* What the walk holds of a case after some runs: the result of the first of them
\* that has it, and it has contributors once it has anything.
Holds(t, list, m, i) ==
    /\ m.contributors \in Seq(RunIds)
    /\ m.from \in [Cases -> RunIds \cup {NoRun}]
    /\ m.contributors = <<>> <=> \A k \in Cases : m.from[k] = NoRun
    /\ \A k \in Cases :
        \/ /\ m.from[k] = NoRun
           /\ \A j \in 1 .. i : k \notin t[list[j]].cases
        \/ \E j \in 1 .. i : /\ m.from[k] = list[j] /\ k \in t[list[j]].cases
                             /\ \A l \in 1 .. j - 1 : k \notin t[list[l]].cases

LEMMA AddCasesHolds ==
  ASSUME NEW t, NEW n \in Nat, NEW list \in [1 .. n -> RunIds],
         \A r \in RunIds : t[r].cases \subseteq Cases,
         NEW i \in 0 .. n - 1, NEW m, Holds(t, list, m, i)
  PROVE  Holds(t, list, AddCases(t, m, list[i + 1], i + 1), i + 1)
<1> DEFINE r == list[i + 1]
           new == NewCases(t, m, r)
           a == AddCases(t, m, r, i + 1)
<1>1. i + 1 \in 1 .. n /\ r \in RunIds /\ i \in Nat /\ \A j \in 1 .. i : j \in 1 .. n
  OBVIOUS
<1>2. r # NoRun
  BY <1>1, BranchAssumption
<1>3. /\ m.contributors \in Seq(RunIds)
      /\ m.from \in [Cases -> RunIds \cup {NoRun}]
      /\ m.contributors = <<>> <=> \A k \in Cases : m.from[k] = NoRun
  BY DEF Holds
<1>4. new \subseteq Cases /\ \A k \in Cases : k \in new <=> k \in t[r].cases /\ m.from[k] = NoRun
  BY <1>1 DEF NewCases
<1>5. a.from = [k \in Cases |-> IF k \in new THEN r ELSE m.from[k]]
  BY DEF AddCases
<1>6. a.contributors = IF new = {} THEN m.contributors ELSE Append(m.contributors, r)
  BY DEF AddCases
<1> HIDE DEF new, r, a
<1>7. a.from \in [Cases -> RunIds \cup {NoRun}]
  BY <1>1, <1>3, <1>5
<1>8. /\ a.contributors \in Seq(RunIds)
      /\ a.contributors = <<>> <=> \A k \in Cases : a.from[k] = NoRun
  <2>1. CASE new = {}
    BY <2>1, <1>3, <1>5, <1>6
  <2>2. CASE new # {}
    <3>1. Append(m.contributors, r) \in Seq(RunIds) /\ Append(m.contributors, r) # <<>>
      <4> DEFINE c == m.contributors
      <4>1. c \in Seq(RunIds)
        BY <1>3
      <4> HIDE DEF c
      <4>2. Append(c, r) \in Seq(RunIds) /\ Len(Append(c, r)) = Len(c) + 1 /\ Len(c) \in Nat
        BY <1>1, <4>1
      <4>3. Len(<<>>) = 0 /\ Len(c) + 1 # 0
        BY <4>2
      <4>4. Append(c, r) # <<>>
        BY <4>2, <4>3, Zenon
      <4> QED BY <4>2, <4>4 DEF c
    <3>2. PICK k \in new : TRUE
      BY <2>2
    <3>3. k \in Cases /\ a.from[k] # NoRun
      BY <1>2, <1>4, <1>5, <3>2
    <3> QED BY <2>2, <3>1, <3>3, <1>6
  <2> QED BY <2>1, <2>2
<1>9. ASSUME NEW k \in Cases
      PROVE  \/ /\ a.from[k] = NoRun
                /\ \A j \in 1 .. i + 1 : k \notin t[list[j]].cases
             \/ \E j \in 1 .. i + 1 :
                    /\ a.from[k] = list[j] /\ k \in t[list[j]].cases
                    /\ \A l \in 1 .. j - 1 : k \notin t[list[l]].cases
  <2>0. \A j \in 1 .. i + 1 : j \in 1 .. i \/ j = i + 1
    BY <1>1
  <2>1. CASE \E j \in 1 .. i : /\ m.from[k] = list[j] /\ k \in t[list[j]].cases
                               /\ \A l \in 1 .. j - 1 : k \notin t[list[l]].cases
    <3>1. PICK j \in 1 .. i : /\ m.from[k] = list[j] /\ k \in t[list[j]].cases
                              /\ \A l \in 1 .. j - 1 : k \notin t[list[l]].cases
      BY <2>1
    <3>2. m.from[k] # NoRun
      BY <1>1, <3>1, BranchAssumption
    <3>3. a.from[k] = list[j] /\ j \in 1 .. i + 1
      BY <1>1, <1>4, <1>5, <3>1, <3>2
    <3> QED BY <3>1, <3>3
  <2>2. CASE m.from[k] = NoRun /\ \A j \in 1 .. i : k \notin t[list[j]].cases
    <3>1. CASE k \in t[r].cases
      <4>1. a.from[k] = r
        BY <1>4, <1>5, <2>2, <3>1
      <4>2. i + 1 \in 1 .. i + 1 /\ \A l \in 1 .. (i + 1) - 1 : l \in 1 .. i
        BY <1>1
      <4> QED BY <2>2, <3>1, <4>1, <4>2 DEF r
    <3>2. CASE k \notin t[r].cases
      <4>1. a.from[k] = NoRun
        BY <1>4, <1>5, <2>2, <3>2
      <4> QED BY <2>0, <2>2, <3>2, <4>1 DEF r
    <3> QED BY <3>1, <3>2
  <2> QED BY <2>1, <2>2 DEF Holds
<1>10. Holds(t, list, a, i + 1)
  BY <1>7, <1>8, <1>9 DEF Holds
<1> QED BY <1>10 DEF a, r

LEMMA WalkHolds ==
  ASSUME NEW t, NEW n \in Nat, NEW list \in [1 .. n -> RunIds],
         \A r \in RunIds : t[r].cases \subseteq Cases
  PROVE  Holds(t, list, Walk(t, list, n)[n], n)
<1> DEFINE w == Walk(t, list, n)
           good == {i \in 0 .. n : Holds(t, list, w[i], i)}
<1>1. w[0] = NothingYet
      /\ \A i \in 0 .. n - 1 : w[i + 1] = AddCases(t, w[i], list[i + 1], i + 1)
  BY WalkSteps
<1> HIDE DEF w
<1>2. Holds(t, list, w[0], 0)
  BY <1>1 DEF Holds, NothingYet
<1>3. ASSUME NEW i \in 0 .. n - 1, i \in good PROVE i + 1 \in good
  <2>1. Holds(t, list, AddCases(t, w[i], list[i + 1], i + 1), i + 1)
    BY <1>3, AddCasesHolds
  <2>2. i + 1 \in 0 .. n
    OBVIOUS
  <2> QED BY <1>1, <2>1, <2>2
<1>4. n \in good
  <2>1. 0 \in good /\ n \in 0 .. n
    BY <1>2
  <2> HIDE DEF good
  <2> QED BY <1>3, <2>1, IntervalInduction
<1> QED BY <1>4 DEF w

\* The merge of a branch's list has the newest result of each case.
LEMMA CompositeOfWindow ==
  ASSUME TypeOK, IsFiniteSet(Stored), NEW s, NEW b, NEW h
  PROVE  /\ Composite(runs, s, b, h).absent
              <=> \A k \in Cases : {r \in Window(s, b, h) : k \in runs[r].cases} = {}
         /\ ~Composite(runs, s, b, h).absent => \A k \in Cases :
              \/ /\ {r \in Window(s, b, h) : k \in runs[r].cases} = {}
                 /\ Composite(runs, s, b, h).from[k] = NoRun
              \/ /\ Composite(runs, s, b, h).from[k]
                        \in {r \in Window(s, b, h) : k \in runs[r].cases}
                 /\ \A q \in {r \in Window(s, b, h) : k \in runs[r].cases}
                                \ {Composite(runs, s, b, h).from[k]} :
                        Later(Composite(runs, s, b, h).from[k], q)
<1> DEFINE list == BranchRuns(runs, s, b, h)
           n == Len(list)
           w == Window(s, b, h)
           m == Walk(runs, list, n)[n]
           c == Composite(runs, s, b, h)
<1>1. /\ n \in Nat /\ n <= Lookback
      /\ list \in [1 .. n -> w]
      /\ \A r \in w : \E i \in 1 .. n : list[i] = r
      /\ \A i, j \in 1 .. n : i < j => Later(list[i], list[j])
  BY BranchRunsAreTheWindow
<1>2. w \subseteq RunIds
  BY DEF Window, Stored
<1>3. \A r \in RunIds : runs[r].cases \subseteq Cases
  BY DEF TypeOK, Docs, NoDoc
<1>4. Smaller(n, Lookback) = n
  <2> HIDE DEF n
  <2> QED BY <1>1, BranchAssumption DEF Smaller
<1>5. c = IF m.contributors = <<>> THEN Absent
          ELSE [absent |-> FALSE, from |-> m.from, contributors |-> m.contributors,
                truncated |-> m.last = Lookback /\ n > Lookback]
  BY <1>4 DEF Composite, MergeBranchRuns
<1> HIDE DEF list, n, w
<1>6. Holds(runs, list, m, n)
  <2>1. list \in [1 .. n -> RunIds]
    BY <1>1, <1>2
  <2> QED BY <1>1, <1>3, <2>1, WalkHolds
<1> HIDE DEF m, c
<1>7. (c.absent <=> m.contributors = <<>>) /\ (~c.absent => c.from = m.from)
  BY <1>5 DEF Absent
<1>8. ASSUME NEW k \in Cases
      PROVE  \/ {r \in w : k \in runs[r].cases} = {} /\ m.from[k] = NoRun
             \/ /\ m.from[k] # NoRun
                /\ m.from[k] \in {r \in w : k \in runs[r].cases}
                /\ \A q \in {r \in w : k \in runs[r].cases} \ {m.from[k]} : Later(m.from[k], q)
  <2>1. CASE m.from[k] = NoRun /\ \A j \in 1 .. n : k \notin runs[list[j]].cases
    BY <1>1, <2>1
  <2>2. CASE \E j \in 1 .. n : /\ m.from[k] = list[j] /\ k \in runs[list[j]].cases
                               /\ \A l \in 1 .. j - 1 : k \notin runs[list[l]].cases
    <3>1. PICK j \in 1 .. n : /\ m.from[k] = list[j] /\ k \in runs[list[j]].cases
                              /\ \A l \in 1 .. j - 1 : k \notin runs[list[l]].cases
      BY <2>2
    <3>2. list[j] \in w /\ list[j] # NoRun
      BY <1>1, <1>2, BranchAssumption
    <3>3. ASSUME NEW q \in w, k \in runs[q].cases, q # list[j] PROVE Later(list[j], q)
      <4>1. PICK l \in 1 .. n : list[l] = q
        BY <1>1, <3>3
      <4>2. l \notin 1 .. j - 1 /\ l # j
        BY <3>1, <3>3, <4>1
      <4>3. j < l
        BY <1>1, <4>2
      <4> QED BY <1>1, <4>1, <4>3
    <3> QED BY <3>1, <3>2, <3>3
  <2> QED BY <1>6, <2>1, <2>2 DEF Holds
<1>9. c.absent <=> \A k \in Cases : {r \in w : k \in runs[r].cases} = {}
  <2>1. m.contributors = <<>> <=> \A k \in Cases : m.from[k] = NoRun
    BY <1>6 DEF Holds
  <2>2. \A k \in Cases : m.from[k] = NoRun <=> {r \in w : k \in runs[r].cases} = {}
    BY <1>8
  <2> QED BY <1>7, <2>1, <2>2
<1>10. ~c.absent => \A k \in Cases :
              \/ {r \in w : k \in runs[r].cases} = {} /\ c.from[k] = NoRun
              \/ /\ c.from[k] \in {r \in w : k \in runs[r].cases}
                 /\ \A q \in {r \in w : k \in runs[r].cases} \ {c.from[k]} : Later(c.from[k], q)
  BY <1>7, <1>8
<1> QED BY <1>9, <1>10 DEF c, w

LEMMA CompositeIsNewestOfTables == TypeOK /\ IsFiniteSet(Stored) => CompositeIsNewest
  BY CompositeOfWindow DEF CompositeIsNewest

\* However many runs there may be, finitely many are stored.
FiniteStore == IsFiniteSet(Stored)

LEMMA FiniteStep == TypeOK /\ FiniteStore /\ [Next]_vars => FiniteStore'
<1> SUFFICES ASSUME TypeOK, IsFiniteSet(Stored), [Next]_vars PROVE IsFiniteSet(Stored')
  BY DEF FiniteStore
<1>1. ASSUME Stored' \subseteq Stored PROVE IsFiniteSet(Stored')
  BY <1>1, FS_Subset
<1>2. ASSUME NEW r, Stored' \subseteq Stored \cup {r} PROVE IsFiniteSet(Stored')
  <2>1. IsFiniteSet(Stored \cup {r})
    BY FS_AddElement
  <2> QED BY <1>2, <2>1, FS_Subset
<1>3. CASE runs' = runs
  BY <1>1, <1>3 DEF Stored
<1>4. ASSUME NEW gone, RemoveRuns(gone) PROVE Stored' \subseteq Stored
  BY <1>4 DEF RemoveRuns, Stored
<1>5. ASSUME NEW r \in RunIds, NEW doc, Ingest(r, doc) PROVE Stored' \subseteq Stored \cup {r}
  BY <1>5 DEF Ingest, Stored, TypeOK
<1>6. CASE Sweep
  BY <1>1, <1>4, <1>6 DEF Sweep
<1>7. CASE \E r \in RunIds : DeleteRun(r)
  BY <1>1, <1>4, <1>7 DEF DeleteRun
<1>8. CASE \/ \E r \in RunIds, c \in Checkouts : Share(r, c)
           \/ \E r \in RunIds, c \in Checkouts : ShareAndRecord(r, c)
  BY <1>2, <1>5, <1>8 DEF Share, ShareAndRecord
<1>9. CASE \/ UNCHANGED vars \/ Tick
           \/ \E r \in RunIds, shape \in Shapes : FinishRun(r, shape)
           \/ \E s \in Suites, r \in RunIds : PinRun(s, r)
           \/ \E s \in Suites, b \in Branches : PinBranch(s, b)
           \/ \E s \in Suites : DeleteBaseline(s)
  BY <1>3, <1>9 DEF vars, Tick, FinishRun, PinRun, PinBranch, DeleteBaseline
<1> QED BY <1>6, <1>7, <1>8, <1>9 DEF Next

LEMMA FiniteCorrect == Spec => []FiniteStore
<1>1. Init => FiniteStore
  <2>1. Init => Stored = {}
    BY DEF Init, Stored
  <2> QED BY <2>1, FS_EmptySet DEF FiniteStore
<1> QED BY <1>1, FiniteStep, TypeCorrect, PTL DEF Spec

\* A gate changes nothing of the store.
LEMMA GateFollowsStore == GateSpec => Spec
<1>1. GateInit => Init
  BY DEF GateInit
<1>2. [GateNext]_bvars => [Next]_vars
  <2> SUFFICES ASSUME [GateNext]_bvars PROVE [Next]_vars
    OBVIOUS
  <2>1. CASE Background
    BY <2>1 DEF Background
  <2>2. CASE \E h \in RunIds : BeginGate(h)
    BY <2>2 DEF BeginGate
  <2>3. CASE \E h \in RunIds, b \in Branches : BeginBranchGate(h, b)
    BY <2>3 DEF BeginBranchGate
  <2>4. CASE FetchRun \/ FetchBranch
    BY <2>4 DEF FetchRun, FetchBranch
  <2>5. CASE UNCHANGED bvars
    BY <2>5 DEF bvars, vars
  <2> QED BY <2>1, <2>2, <2>3, <2>4, <2>5 DEF GateNext
<1> QED BY <1>1, <1>2, PTL DEF GateSpec, Spec

\* What a gate reads of a branch is, for each case, the newest result among the
\* newest runs of the branch (merge_branch_runs, branch_runs_newest_first), for any
\* number of runs, branches and cases and any lookback.
THEOREM CompositeIsNewestCorrect == GateSpec => []CompositeIsNewest
<1>1. GateSpec => [](TypeOK /\ FiniteStore)
  BY FiniteCorrect, TypeCorrect, GateFollowsStore, PTL
<1>2. TypeOK /\ FiniteStore => CompositeIsNewest
  BY CompositeIsNewestOfTables DEF FiniteStore
<1> QED BY <1>1, <1>2, PTL

-----------------------------------------------------------------------------
(***************************************************************************)
(* A gate is not skipped.  While nobody deletes runs or moves its pin, the *)
(* baseline it began with stands: a pinned run is protected by its pin,    *)
(* and a branch keeps its newest run, which is not the gated one.          *)
(***************************************************************************)
\* A run is stored on the branch it was made on: every run carries git metadata,
\* or uploads are made outside of a checkout.
UploadsKeepTheirBranch ==
    \/ \A shape \in Shapes : shape.branch # Null
    \/ Checkouts \subseteq {Null}

\* No run is without cases, such as one whose filters leave none.
RunsHaveCases == \A shape \in Shapes : shape.cases # {}

CasesAreKept == \A r \in RunIds : local[r] # NoDoc => local[r].cases # {}

\* The local documents keep their branch and their cases.
LEMMA LocalStep ==
  ASSUME TypeOK, [Next]_vars, NEW r \in RunIds, local[r] # NoDoc
  PROVE  local'[r] # NoDoc /\ local'[r].branch = local[r].branch
         /\ local'[r].cases = local[r].cases
<1>1. CASE local' = local
  BY <1>1
<1>2. ASSUME NEW q \in RunIds, NEW c \in Checkouts, ShareAndRecord(q, c)
      PROVE  local'[r] # NoDoc /\ local'[r].branch = local[r].branch
             /\ local'[r].cases = local[r].cases
  <2>1. local[q] \in Docs
    BY <1>2 DEF ShareAndRecord, TypeOK
  <2>2. [local[q] EXCEPT !.shared = TRUE] \in Docs
    BY <2>1 DEF Docs
  <2>3. local' = [local EXCEPT ![q] = [local[q] EXCEPT !.shared = TRUE]]
    BY <1>2 DEF ShareAndRecord
  <2>4. CASE q = r
    BY <2>1, <2>2, <2>3, <2>4, NoDocIsNone DEF TypeOK, Docs
  <2>5. CASE q # r
    BY <2>3, <2>5 DEF TypeOK
  <2> QED BY <2>4, <2>5
<1>3. ASSUME NEW q \in RunIds, NEW shape \in Shapes, FinishRun(q, shape)
      PROVE  local'[r] = local[r]
  BY <1>3 DEF FinishRun, TypeOK
<1>4. CASE \/ UNCHANGED vars \/ Tick \/ Sweep
           \/ \E q \in RunIds, c \in Checkouts : Share(q, c)
           \/ \E q \in RunIds : DeleteRun(q)
           \/ \E s \in Suites, q \in RunIds : PinRun(s, q)
           \/ \E s \in Suites, b \in Branches : PinBranch(s, b)
           \/ \E s \in Suites : DeleteBaseline(s)
  BY <1>1, <1>4 DEF vars, Tick, Sweep, RemoveRuns, Share, DeleteRun, PinRun, PinBranch,
                    DeleteBaseline
<1> QED BY <1>2, <1>3, <1>4 DEF Next

LEMMA CasesAreKeptStep ==
  ASSUME RunsHaveCases
  PROVE  TypeOK /\ CasesAreKept /\ [Next]_vars => CasesAreKept'
<1> SUFFICES ASSUME TypeOK, CasesAreKept, [Next]_vars, NEW r \in RunIds, local'[r] # NoDoc
             PROVE  local'[r].cases # {}
  BY DEF CasesAreKept
<1>1. CASE local[r] # NoDoc
  BY <1>1, LocalStep DEF CasesAreKept
<1>2. CASE local[r] = NoDoc
  <2>1. CASE \E q \in RunIds, shape \in Shapes : FinishRun(q, shape)
    BY <1>2, <2>1 DEF FinishRun, TypeOK, RunsHaveCases
  <2>2. CASE \E q \in RunIds, c \in Checkouts : ShareAndRecord(q, c)
    BY <1>2, <2>2 DEF ShareAndRecord, TypeOK
  <2>3. CASE local' = local
    BY <1>2, <2>3
  <2> QED BY <2>1, <2>2, <2>3 DEF Next, vars, Tick, Sweep, RemoveRuns, Share, DeleteRun,
                                  PinRun, PinBranch, DeleteBaseline
<1> QED BY <1>1, <1>2

\* What is stored of a run has the branch and the cases its client has.
LEMMA StoredKeepsBranch ==
  ASSUME UploadsKeepTheirBranch, TypeOK, StoredIsSent, NEW r \in Stored
  PROVE  local[r] # NoDoc /\ runs[r].branch = local[r].branch
         /\ runs[r].cases = local[r].cases
<1>1. local[r] # NoDoc /\ r \in RunIds
      /\ (local[r].branch = Null => \E shape \in Shapes : shape.branch = Null)
  BY DEF StoredIsSent, Stored
<1>2. PICK c \in Checkouts : runs[r] = Sent(local[r], c)
  BY DEF StoredIsSent, Stored
<1>3. local[r] \in Docs
  BY <1>1 DEF TypeOK
<1>4. local[r].branch = Null => c = Null
  BY <1>1 DEF UploadsKeepTheirBranch
<1> QED BY <1>1, <1>2, <1>3, <1>4 DEF Sent, Docs

\* A branch with runs other than the gated one keeps some, unless one is deleted by
\* hand: the newest of them outlives every sweep.
LEMMA BranchSurvives ==
  ASSUME UploadsKeepTheirBranch, TypeOK, StoredIsSent, FromThePast, [Next]_vars,
         ~ \E r \in RunIds : DeleteRun(r),
         NEW s, NEW b, NEW h \in RunIds, local[h].branch # b, OnBranch(runs, s, b, h) # {}
  PROVE  OnBranch(runs', s, b, h) # {}
<1>1. PICK r \in OnBranch(runs, s, b, h) : TRUE
  OBVIOUS
<1>2. r \in Stored /\ runs[r].suite = s /\ runs[r].branch = b /\ r # h /\ r \in RunIds
  BY <1>1 DEF OnBranch, Stored
<1>3. CASE runs' = runs
  BY <1>3
<1>4. ASSUME NEW q \in RunIds, NEW doc \in Docs, Ingest(q, doc)
      PROVE  OnBranch(runs', s, b, h) # {}
  <2>1. runs'[r] = runs[r] /\ r \in Stored'
    BY <1>2, <1>4, IngestKeeps
  <2>2. r \in OnBranch(runs', s, b, h)
    BY <1>2, <2>1 DEF OnBranch, Stored
  <2> QED BY <2>2
<1>5. CASE \/ \E q \in RunIds, c \in Checkouts : Share(q, c)
           \/ \E q \in RunIds, c \in Checkouts : ShareAndRecord(q, c)
  <2>1. PICK q \in RunIds, c \in Checkouts : Share(q, c) \/ ShareAndRecord(q, c)
    BY <1>5
  <2>2. Sent(local[q], c) \in Docs /\ Ingest(q, Sent(local[q], c))
    BY <2>1, SentIsDoc DEF Share, ShareAndRecord, TypeOK
  <2> QED BY <1>4, <2>2
<1>6. CASE Sweep
  <2>1. PICK q \in Stored : SameGroup(r, q) /\ NewestOfGroup(q)
    BY <1>2, GroupHasNewest
  <2>2. ~Evictable(q) /\ q \in RunIds /\ runs[q] # NoDoc
    BY <2>1 DEF Evictable, Protected, Stored
  <2>3. runs'[q] = runs[q]
    BY <1>6, <2>2 DEF Sweep, RemoveRuns
  <2>4. runs[q].suite = s /\ runs[q].branch = b
    BY <1>2, <2>1 DEF SameGroup
  <2>5. q # h
    BY <2>1, <2>4, StoredKeepsBranch
  <2>6. q \in OnBranch(runs', s, b, h)
    BY <2>2, <2>3, <2>4, <2>5 DEF OnBranch
  <2> QED BY <2>6
<1>7. CASE \/ UNCHANGED vars \/ Tick
           \/ \E q \in RunIds, shape \in Shapes : FinishRun(q, shape)
           \/ \E t \in Suites, q \in RunIds : PinRun(t, q)
           \/ \E t \in Suites, a \in Branches : PinBranch(t, a)
           \/ \E t \in Suites : DeleteBaseline(t)
  BY <1>3, <1>7 DEF vars, Tick, FinishRun, PinRun, PinBranch, DeleteBaseline
<1> QED BY <1>5, <1>6, <1>7 DEF Next

\* A suite's pin stays until somebody moves it or deletes its run.
LEMMA PinStays ==
  ASSUME TypeOK, [Next]_vars, NEW s \in Suites,
         ~ \E r \in RunIds : DeleteRun(r),
         ~ \E r \in RunIds : PinRun(s, r),
         ~ \E b \in Branches : PinBranch(s, b),
         ~ DeleteBaseline(s)
  PROVE  pins'[s] = pins[s]
<1>1. CASE pins' = pins
  BY <1>1
<1>2. CASE Sweep
  BY <1>2, SweepKeepsPins
<1>3. ASSUME NEW t \in Suites, NEW p, pins' = [pins EXCEPT ![t] = p], t # s
      PROVE  pins'[s] = pins[s]
  BY <1>3 DEF TypeOK
<1>4. CASE \/ \E t \in Suites, r \in RunIds : PinRun(t, r)
           \/ \E t \in Suites, b \in Branches : PinBranch(t, b)
           \/ \E t \in Suites : DeleteBaseline(t)
  BY <1>3, <1>4 DEF PinRun, PinBranch, DeleteBaseline
<1>5. CASE \/ UNCHANGED vars \/ Tick
           \/ \E r \in RunIds, shape \in Shapes : FinishRun(r, shape)
           \/ \E r \in RunIds, c \in Checkouts : Share(r, c)
           \/ \E r \in RunIds, c \in Checkouts : ShareAndRecord(r, c)
  BY <1>1, <1>5 DEF vars, Tick, FinishRun, Share, ShareAndRecord
<1> QED BY <1>2, <1>4, <1>5 DEF Next

\* The baseline a gate is going to read is there.
BaselineStands ==
    \/ /\ gate.pin.kind = "run" /\ gate.pin.to # gate.head
       /\ pins[gate.suite] = gate.pin
    \/ /\ gate.pin.kind = "branch" /\ local[gate.head].branch # gate.pin.to
       /\ OnBranch(runs, gate.suite, gate.pin.to, gate.head) # {}

GateInv ==
    /\ GateTypeOK
    /\ gate.pc = "pinned" =>
            gate.suite \in Suites /\ gate.head \in RunIds /\ local[gate.head] # NoDoc
    /\ gate.pc = "pinned" /\ gate.had => gate.touched \/ BaselineStands
    /\ GateIsNotSkipped

\* What the store keeps, which a gate relies on.
StoreInv ==
    TypeOK /\ FiniteStore /\ FromThePast /\ PinsResolve /\ StoredIsSent /\ CasesAreKept

\* A gate that begins has a baseline that stands, if it has one.
LEMMA BeginKeeps ==
  ASSUME TypeOK, TypeOK', NEW h \in RunIds, NEW pin \in Pins, CanBegin(h),
         pin.kind = "run" => pins[local[h].suite] = pin,
         gate' = Begin(h, pin), UNCHANGED vars
  PROVE  GateInv'
<1> DEFINE s == local[h].suite
           had == Resolvable(s, pin, h)
<1>1. s \in Suites
  BY DEF CanBegin, TypeOK, Docs
<1>2. had \in BOOLEAN
  BY DEF Resolvable
<1>3. gate' = [pc |-> "pinned", suite |-> s, head |-> h, pin |-> pin,
               had |-> had, touched |-> FALSE]
  BY DEF Begin
<1>4. had => /\ \/ pin.kind = "run" /\ pin.to # h
                \/ /\ pin.kind = "branch" /\ local[h].branch # pin.to
                   /\ OnBranch(runs, s, pin.to, h) # {}
  BY DEF Resolvable
<1> HIDE DEF s, had
<1>5. GateTypeOK'
  BY <1>1, <1>2, <1>3 DEF GateTypeOK
<1>6. local' = local /\ runs' = runs /\ pins' = pins /\ local[h] # NoDoc
  BY DEF vars, CanBegin
<1>7. /\ gate'.pc = "pinned" /\ gate'.suite = s /\ gate'.head = h /\ gate'.pin = pin
      /\ gate'.had = had
  BY <1>3
<1>8. had => BaselineStands'
  <2>1. CASE pin.kind = "run" /\ pin.to # h
    <3>1. pins'[s] = pin
      BY <1>6, <2>1 DEF s
    <3> QED BY <1>7, <2>1, <3>1 DEF BaselineStands
  <2>2. CASE /\ pin.kind = "branch" /\ local[h].branch # pin.to
             /\ OnBranch(runs, s, pin.to, h) # {}
    BY <1>6, <1>7, <2>2 DEF BaselineStands
  <2> QED BY <1>4, <2>1, <2>2
<1> QED BY <1>1, <1>5, <1>6, <1>7, <1>8 DEF GateInv, GateIsNotSkipped

\* A skipped gate is one that had nothing to find, or that was interfered with.
LEMMA EndKeeps ==
  ASSUME TypeOK', GateInv, NEW verdict \in {"compared", "absent"}, gate' = Ended(verdict),
         verdict = "absent" /\ gate.had => gate.touched
  PROVE  GateInv'
<1>1. CASE verdict = "compared"
  <2>1. gate' = NoGate
    BY <1>1 DEF Ended
  <2> QED BY <2>1 DEF GateInv, GateTypeOK, GateIsNotSkipped, NoGate, Pins
<1>2. CASE verdict = "absent"
  <2>1. gate' = [NoGate EXCEPT !.pc = "absent", !.had = gate.had, !.touched = gate.touched]
    BY <1>2 DEF Ended
  <2>2. gate.had \in BOOLEAN /\ gate.touched \in BOOLEAN
    BY DEF GateInv, GateTypeOK
  <2>3. gate' = [pc |-> "absent", suite |-> Null, head |-> NoRun, pin |-> NoPin,
                 had |-> gate.had, touched |-> gate.touched]
    BY <2>1 DEF NoGate
  <2>4. GateTypeOK'
    BY <2>2, <2>3 DEF GateTypeOK, Pins
  <2> QED BY <1>2, <2>3, <2>4 DEF GateInv, GateIsNotSkipped
<1> QED BY <1>1, <1>2

\* A branch with a run other than the gated one has a composite.
LEMMA BranchIsThere ==
  ASSUME UploadsKeepTheirBranch, StoreInv, NEW s, NEW b, NEW h,
         OnBranch(runs, s, b, h) # {}
  PROVE  ~ Composite(runs, s, b, h).absent
<1> DEFINE all == OnBranch(runs, s, b, h)
<1>1. all \in SUBSET RunIds /\ all \in SUBSET Stored
      /\ {r \in Stored \ {h} : runs[r].suite = s /\ runs[r].branch = b} = all
  BY DEF OnBranch, Stored
<1>2. IsFiniteSet(all)
  BY <1>1, FS_Subset DEF StoreInv, FiniteStore
<1>3. Cardinality(all) \in Nat /\ 1 \in 1 .. Cardinality(all)
  <2>1. Cardinality(all) \in Nat /\ Cardinality(all) # 0
    BY <1>2, FS_CardinalityType, FS_EmptySet
  <2> HIDE DEF all
  <2> QED BY <2>1
<1>4. runs \in [RunIds -> Docs \cup {NoDoc}]
  BY DEF StoreInv, TypeOK
<1>5. PICK r \in all : Cardinality(Newer(runs, all, r)) = 1 - 1
  <2> HIDE DEF all
  <2> QED BY <1>1, <1>2, <1>3, <1>4, EveryPlaceIsTaken
<1>6. r \in Window(s, b, h)
  <2>1. {q \in all : Later(q, r)} = Newer(runs, all, r)
    BY DEF Newer, Later, NewestFirst
  <2>2. 0 < Lookback
    BY BranchAssumption
  <2> HIDE DEF all
  <2>3. Cardinality({q \in all : Later(q, r)}) < Lookback
    BY <1>5, <2>1, <2>2
  <2> QED BY <1>1, <2>3 DEF Window
<1>7. PICK k \in Cases : k \in runs[r].cases
  <2>1. r \in Stored /\ r \in RunIds
    BY <1>1
  <2>2. runs[r].cases # {}
    BY <2>1, StoredKeepsBranch DEF StoreInv, CasesAreKept
  <2>3. runs[r].cases \subseteq Cases
    BY <1>4, <2>1 DEF Docs, NoDoc
  <2> QED BY <2>2, <2>3
<1>8. {q \in Window(s, b, h) : k \in runs[q].cases} # {}
  BY <1>6, <1>7
<1>9. TypeOK /\ IsFiniteSet(Stored)
  BY DEF StoreInv, FiniteStore
<1> QED BY <1>8, <1>9, CompositeOfWindow

LEMMA FetchRunKeeps ==
  ASSUME StoreInv, TypeOK', GateInv, FetchRun
  PROVE  GateInv'
<1>1. PICK v \in {"compared", "absent"} :
           /\ gate' = Ended(v)
           /\ v = "absent" => ~(gate.pin.to \in Stored /\ gate.pin.to # gate.head)
  BY DEF FetchRun
<1>2. ASSUME gate.had, ~ gate.touched
      PROVE  gate.pin.to \in Stored /\ gate.pin.to # gate.head
  <2>1. BaselineStands /\ gate.pin.kind = "run" /\ gate.suite \in Suites
    BY <1>2 DEF GateInv, FetchRun
  <2>2. gate.pin.to # gate.head /\ pins[gate.suite] = gate.pin
    BY <2>1 DEF BaselineStands
  <2> QED BY <2>1, <2>2 DEF StoreInv, PinsResolve
<1>3. v = "absent" /\ gate.had => gate.touched
  BY <1>1, <1>2
<1> QED BY <1>1, <1>3, EndKeeps

LEMMA FetchBranchKeeps ==
  ASSUME UploadsKeepTheirBranch, StoreInv, TypeOK', GateInv, FetchBranch
  PROVE  GateInv'
<1>1. PICK v \in {"compared", "absent"} :
           /\ gate' = Ended(v)
           /\ v = "absent" =>
                 Composite(runs, gate.suite, gate.pin.to, gate.head).absent
  BY DEF FetchBranch
<1>2. ASSUME gate.had, ~ gate.touched
      PROVE  ~ Composite(runs, gate.suite, gate.pin.to, gate.head).absent
  <2>1. BaselineStands /\ gate.pin.kind = "branch"
    BY <1>2 DEF GateInv, FetchBranch
  <2>2. OnBranch(runs, gate.suite, gate.pin.to, gate.head) # {}
    BY <2>1 DEF BaselineStands
  <2> QED BY <2>2, BranchIsThere
<1>3. v = "absent" /\ gate.had => gate.touched
  BY <1>1, <1>2
<1> QED BY <1>1, <1>3, EndKeeps

LEMMA BackgroundKeeps ==
  ASSUME UploadsKeepTheirBranch, StoreInv, TypeOK', GateInv, Background
  PROVE  GateInv'
<1>1. PICK hit \in BOOLEAN :
           /\ gate' = [gate EXCEPT !.touched = hit]
           /\ hit <=> gate.touched \/ (gate.pc = "pinned" /\ OperatorStep)
  <2> DEFINE hit == gate.touched \/ (gate.pc = "pinned" /\ OperatorStep)
  <2>1. hit \in BOOLEAN
    OBVIOUS
  <2>2. gate' = [gate EXCEPT !.touched = hit]
    BY DEF Background
  <2> QED BY <2>1, <2>2
<1>2. gate \in [pc: {"idle", "pinned", "absent"}, suite: Suites \cup {Null},
                head: RunIds \cup {NoRun}, pin: Pins, had: BOOLEAN, touched: BOOLEAN]
  BY DEF GateInv, GateTypeOK
<1>3. /\ gate'.pc = gate.pc /\ gate'.suite = gate.suite /\ gate'.head = gate.head
      /\ gate'.pin = gate.pin /\ gate'.had = gate.had /\ gate'.touched = hit
  BY <1>1, <1>2
<1>4. GateTypeOK'
  BY <1>1, <1>2 DEF GateTypeOK
<1>5. GateIsNotSkipped'
  BY <1>1, <1>3 DEF GateInv, GateIsNotSkipped
<1>6. [Next]_vars /\ TypeOK
  BY DEF Background, StoreInv
<1>7. ASSUME gate.pc = "pinned"
      PROVE  local'[gate.head] # NoDoc /\ local'[gate.head].branch = local[gate.head].branch
             /\ gate.head \in RunIds /\ gate.suite \in Suites
  BY <1>6, <1>7, LocalStep DEF GateInv
<1>8. ASSUME gate.pc = "pinned", gate.had, ~ hit PROVE BaselineStands'
  <2>1. BaselineStands /\ ~ OperatorStep /\ gate.suite # Null
    BY <1>1, <1>7, <1>8, RunStoreAssumption DEF GateInv
  <2>2. ~ \E r \in RunIds : DeleteRun(r)
    BY <2>1 DEF OperatorStep
  <2>3. CASE gate.pin.kind = "run" /\ gate.pin.to # gate.head /\ pins[gate.suite] = gate.pin
    <3>1. /\ ~ \E r \in RunIds : PinRun(gate.suite, r)
          /\ ~ \E b \in Branches : PinBranch(gate.suite, b)
          /\ ~ DeleteBaseline(gate.suite)
      BY <2>1 DEF OperatorStep
    <3>2. pins'[gate.suite] = pins[gate.suite]
      BY <1>6, <1>7, <1>8, <2>2, <3>1, PinStays
    <3> QED BY <1>3, <2>3, <3>2 DEF BaselineStands
  <2>4. CASE /\ gate.pin.kind = "branch" /\ local[gate.head].branch # gate.pin.to
             /\ OnBranch(runs, gate.suite, gate.pin.to, gate.head) # {}
    <3>1. OnBranch(runs', gate.suite, gate.pin.to, gate.head) # {}
      BY <1>6, <1>7, <1>8, <2>2, <2>4, BranchSurvives DEF StoreInv
    <3> QED BY <1>3, <1>7, <1>8, <2>4, <3>1 DEF BaselineStands
  <2> QED BY <2>1, <2>3, <2>4 DEF BaselineStands
<1> QED BY <1>1, <1>3, <1>4, <1>5, <1>7, <1>8 DEF GateInv

LEMMA GateStep ==
  ASSUME UploadsKeepTheirBranch
  PROVE  StoreInv /\ TypeOK' /\ GateInv /\ [GateNext]_bvars => GateInv'
<1> SUFFICES ASSUME StoreInv, TypeOK', GateInv, [GateNext]_bvars PROVE GateInv'
  OBVIOUS
<1>1. TypeOK
  BY DEF StoreInv
<1>2. ASSUME NEW h \in RunIds, BeginGate(h) PROVE GateInv'
  <2> DEFINE pin == pins[local[h].suite]
  <2>1. CanBegin(h) /\ UNCHANGED vars /\ local[h].suite \in Suites
    BY <1>1, <1>2 DEF BeginGate, CanBegin, TypeOK, Docs
  <2>2. pin \in Pins
    BY <1>1, <2>1 DEF TypeOK
  <2>3. CASE pin = NoPin
    <3>1. gate' = [NoGate EXCEPT !.pc = "absent"]
      BY <1>2, <2>3 DEF BeginGate
    <3> QED BY <3>1 DEF GateInv, GateTypeOK, GateIsNotSkipped, NoGate, Pins
  <2>4. CASE pin # NoPin
    <3>1. gate' = Begin(h, pin) /\ pins[local[h].suite] = pin
      BY <1>2, <2>4 DEF BeginGate
    <3> HIDE DEF pin
    <3> QED BY <1>1, <2>1, <2>2, <3>1, BeginKeeps
  <2> QED BY <2>3, <2>4
<1>3. ASSUME NEW h \in RunIds, NEW b \in Branches, BeginBranchGate(h, b) PROVE GateInv'
  <2>1. BranchPin(b) \in Pins /\ BranchPin(b).kind # "run"
    BY DEF Pins, BranchPin
  <2> QED BY <1>1, <1>3, <2>1, BeginKeeps DEF BeginBranchGate
<1>4. CASE UNCHANGED bvars
  BY <1>4 DEF bvars, GateInv, GateTypeOK, GateIsNotSkipped, BaselineStands
<1> QED
  BY <1>2, <1>3, <1>4, FetchRunKeeps, FetchBranchKeeps, BackgroundKeeps DEF GateNext

\* A gate finds the baseline there is: it reads the newest result of each case, and
\* is not skipped as having none when there was one as it began, nobody deleted a
\* run or moved the pin, uploads keep the branch a run was made on and every run has
\* cases (export_baseline, branch_baseline_export, merge_branch_runs, sweep).
THEOREM GateFindsItsBaselineCorrect ==
  ASSUME UploadsKeepTheirBranch, RunsHaveCases
  PROVE  GateSpec => []GateFindsItsBaseline
<1>1. PlaceDoesNotMatter
  BY DEF UploadsKeepTheirBranch, PlaceDoesNotMatter
<1>2. Spec => []StoreInv
  <2>1. Init => ReshareInv /\ FromThePast /\ CasesAreKept
    BY DEF Init, ReshareInv, StoredIsSent, ReshareIsHarmless, FromThePast, CasesAreKept, NoDoc
  <2>2. TypeOK /\ ReshareInv /\ [Next]_vars => ReshareInv'
    BY <1>1, ReshareStep
  <2>3. TypeOK /\ CasesAreKept /\ [Next]_vars => CasesAreKept'
    BY CasesAreKeptStep
  <2>4. TypeOK /\ FiniteStore /\ FromThePast /\ PinsResolve /\ ReshareInv /\ CasesAreKept
          => StoreInv
    BY DEF StoreInv, ReshareInv
  <2> QED
    BY <2>1, <2>2, <2>3, <2>4, FromThePastStep, TypeCorrect, FiniteCorrect, PinsResolveCorrect,
       PTL DEF Spec
<1>3. GateInit => GateInv
  <2>1. Init => TypeOK
    BY DEF Init, TypeOK, Pins
  <2> QED BY <2>1 DEF GateInit, NoGate, GateInv, GateTypeOK, GateIsNotSkipped, Pins
<1>4. StoreInv /\ TypeOK' /\ GateInv /\ [GateNext]_bvars => GateInv'
  BY GateStep
<1>5. GateInv => GateIsNotSkipped
  BY DEF GateInv
<1>6. CompositeIsNewest /\ GateIsNotSkipped => GateFindsItsBaseline
  BY DEF GateFindsItsBaseline
<1> QED
  BY <1>2, <1>3, <1>4, <1>5, <1>6, CompositeIsNewestCorrect, TypeCorrect, GateFollowsStore,
     PTL DEF GateSpec

-----------------------------------------------------------------------------
(***************************************************************************)
(* Opening a database of an older build, and moving one to PostgreSQL.     *)
(***************************************************************************)

\* The passes follow one another as they are listed.
LEMMA PassesInOrder ==
  /\ PassAfter("migrate") = "cases" /\ PassAfter("cases") = "empty_count"
  /\ PassAfter("empty_count") = "fallback_count" /\ PassAfter("fallback_count") = "runs"
  /\ PassAfter("runs") = "no_fallback" /\ PassAfter("no_fallback") = "answerers"
  /\ PassAfter("answerers") = "search" /\ PassAfter("search") = "serving"
<1>1. DOMAIN Passes = 1 .. 9
  BY DEF Passes
<1>2. /\ Passes[1] = "migrate" /\ Passes[2] = "cases" /\ Passes[3] = "empty_count"
      /\ Passes[4] = "fallback_count" /\ Passes[5] = "runs" /\ Passes[6] = "no_fallback"
      /\ Passes[7] = "answerers" /\ Passes[8] = "search" /\ Passes[9] = "serving"
  BY DEF Passes
<1>3. ASSUME NEW i \in 1 .. 8
      PROVE  PassAfter(Passes[i]) = Passes[i + 1]
  <2>1. \A j \in 1 .. 9 : Passes[j] = Passes[i] => j = i
    <3>1. i \in {1, 2, 3, 4, 5, 6, 7, 8}
      OBVIOUS
    <3>2. \A j \in 1 .. 9 : j \in {1, 2, 3, 4, 5, 6, 7, 8, 9}
      OBVIOUS
    <3> QED BY <1>2, <3>1, <3>2
  <2>2. i \in 1 .. 9
    OBVIOUS
  <2>3. (CHOOSE j \in DOMAIN Passes : Passes[j] = Passes[i]) = i
    BY <1>1, <2>1, <2>2
  <2> QED BY <2>3 DEF PassAfter
<1>4. /\ 1 \in 1 .. 8 /\ 2 \in 1 .. 8 /\ 3 \in 1 .. 8 /\ 4 \in 1 .. 8 /\ 5 \in 1 .. 8
      /\ 6 \in 1 .. 8 /\ 7 \in 1 .. 8 /\ 8 \in 1 .. 8
      /\ 1 + 1 = 2 /\ 2 + 1 = 3 /\ 3 + 1 = 4 /\ 4 + 1 = 5 /\ 5 + 1 = 6 /\ 6 + 1 = 7
      /\ 7 + 1 = 8 /\ 8 + 1 = 9
  OBVIOUS
<1> QED BY <1>2, <1>3, <1>4

-----------------------------------------------------------------------------
\* The rows are rows.
IsCaseRow(x) == x = CaseColumns(x.provider, x.cached, x.error, x.empty, x.answered)
IsRunRow(x) == x = RunColumns(x.digest, x.hits, x.empty, x.fallback)
RowsAreRows ==
    /\ cases = [c \in CaseRows |-> cases[c]] /\ \A c \in CaseRows : IsCaseRow(cases[c])
    /\ runRows = [r \in Runs |-> runRows[r]] /\ \A r \in Runs : IsRunRow(runRows[r])
    /\ fts = [r \in Runs |-> fts[r]] /\ \A r \in Runs : fts[r] \in {0, 1}
    /\ docs \in Documents

\* Whoever could read a case when its row was filled wrote what its document says; a
\* later pass may have given up on one it cannot read, but then its run is counted.
Read(c) == docs[c].ok \/ cases[c].cached \notin {Lost, Unfilled}
CaseIsRight(c) ==
    /\ docs[c].ok => cases[c].cached # Lost
    /\ Read(c) =>
         /\ cases[c].provider \in {"null", "p"} /\ cases[c].cached \in {Unfilled, 1}
         /\ cases[c].error \in {"null", ""} /\ cases[c].empty \in {"null", OrEmpty(docs[c].empty)}
         /\ \/ cases[c].answered \in {"null", OrEmpty(docs[c].answered)}
            \/ ~docs[c].ok /\ runRows[RunOfCase[c]].fallback # Unfilled

\* A count of a run is open, its document's, or given up.
CountIsRight(r, value, of) == value \in {Unfilled, of} \/ (value = Lost /\ ~bodies[r])
RunIsRight(r) ==
    /\ CountIsRight(r, runRows[r].hits, PreparedRun(r).hits)
    /\ CountIsRight(r, runRows[r].empty, PreparedRun(r).empty)
    /\ CountIsRight(r, runRows[r].fallback, PreparedRun(r).fallback)

\* What has been filled once a pass is over.
CaseIsFilled(c) ==
    "null" \notin {cases[c].provider, cases[c].error, cases[c].empty} /\ cases[c].cached # Unfilled
RunIsFilled(r) ==
    runRows[r].digest # "null"
    /\ Unfilled \notin {runRows[r].hits, runRows[r].empty, runRows[r].fallback}
AfterSearch == {"serving"}
AfterAnswerers == {"search"} \cup AfterSearch
AfterRuns == {"no_fallback", "answerers"} \cup AfterAnswerers
AfterCases == {"empty_count", "fallback_count", "runs"} \cup AfterRuns
PassesLeave ==
    /\ pass \in {"cases"} \cup AfterCases => version = Latest
    /\ pass \in AfterCases => \A c \in CaseRows : CaseIsFilled(c)
    /\ pass \in AfterRuns => \A r \in Runs : RunIsFilled(r)
    /\ pass \in AfterAnswerers => \A c \in CaseRows : cases[c].answered # "null"
    /\ pass \in AfterSearch => \A r \in Runs : fts[r] = 1

UpgradeInv ==
    /\ RowsAreRows
    /\ \A c \in CaseRows : CaseIsRight(c)
    /\ \A r \in Runs : RunIsRight(r)
    /\ kept = {"sessions", "case_tags"}
    /\ version \in 1 .. Latest
    /\ PassesLeave

\* The counts of a run are numbers, which no mark is.
LEMMA CountsAreNumbers ==
  ASSUME NEW r
  PROVE  /\ PreparedRun(r).hits \in Nat /\ PreparedRun(r).empty \in Nat
         /\ PreparedRun(r).fallback \in Nat
         /\ PreparedRun(r).fallback = 0 => \A c \in CasesOf(r) : ~Says(c, "answered")
         /\ \A S \in SUBSET CasesOf(r) : IsFiniteSet(S)
<1>1. IsFiniteSet(CasesOf(r))
  BY UpgradeAssumption, FS_Subset DEF CasesOf
<1>2. \A S \in SUBSET CasesOf(r) : IsFiniteSet(S) /\ Cardinality(S) \in Nat
                                   /\ (Cardinality(S) = 0 => S = {})
  BY <1>1, FS_Subset, FS_CardinalityType, FS_EmptySet
<1>3. /\ PreparedRun(r).hits = Cardinality(CasesOf(r))
      /\ PreparedRun(r).empty = Cardinality({c \in CasesOf(r) : Says(c, "empty")})
      /\ PreparedRun(r).fallback = Cardinality({c \in CasesOf(r) : Says(c, "answered")})
  BY DEF PreparedRun, RunColumns
<1>4. CasesOf(r) \in SUBSET CasesOf(r)
      /\ {c \in CasesOf(r) : Says(c, "empty")} \in SUBSET CasesOf(r)
      /\ {c \in CasesOf(r) : Says(c, "answered")} \in SUBSET CasesOf(r)
  OBVIOUS
<1> QED BY <1>2, <1>3, <1>4

\* What a document says is not NULL.
LEMMA DocumentsAreTexts ==
  ASSUME docs \in Documents, NEW c \in CaseRows
  PROVE  OrEmpty(docs[c].empty) # "null" /\ OrEmpty(docs[c].answered) # "null"
         /\ (Says(c, "empty") <=> OrEmpty(docs[c].empty) # "")
         /\ (Says(c, "answered") <=> OrEmpty(docs[c].answered) # "")
  BY UpgradeAssumption DEF OrEmpty, Says

\* A column of a row at an old version is the row's or not there yet.
LEMMA ColumnsAt ==
  ASSUME NEW v \in Int, NEW row
  PROVE  /\ CaseAt(v, row).provider \in {"null", row.provider}
         /\ CaseAt(v, row).cached \in {Unfilled, row.cached}
         /\ CaseAt(v, row).error \in {"null", row.error}
         /\ CaseAt(v, row).empty \in {"null", row.empty}
         /\ CaseAt(v, row).answered \in {"null", row.answered}
  BY DEF CaseAt, CaseColumns, At

LEMMA UpgradeInitInv == UpgradeInit => UpgradeInv
<1> SUFFICES ASSUME UpgradeInit PROVE UpgradeInv
  OBVIOUS
<1>1. PICK marked \in SUBSET {c \in CaseRows : ~docs[c].ok} :
         cases = [c \in CaseRows |->
                    CaseAt(version, IF c \in marked THEN LostCase ELSE PreparedCase(c))]
  BY DEF UpgradeInit
<1>2. docs \in Documents /\ version \in 1 .. Latest /\ version \in Int
  BY UpgradeAssumption DEF UpgradeInit, Latest
<1>3. RowsAreRows
  BY <1>1, <1>2 DEF UpgradeInit, RowsAreRows, IsCaseRow, IsRunRow, CaseAt, RunAt, At, CaseColumns,
                    RunColumns, AddedIn
<1>4. ASSUME NEW c \in CaseRows PROVE CaseIsRight(c)
  <2>1. CASE c \in marked
    <3>1. ~docs[c].ok /\ cases[c] = CaseAt(version, LostCase)
      BY <1>1, <2>1
    <3>2. cases[c].cached \in {Lost, Unfilled}
      <4>1. LostCase.cached = Lost
        BY DEF LostCase, CaseColumns
      <4>2. CaseAt(version, LostCase).cached \in {Unfilled, LostCase.cached}
        BY <1>2, ColumnsAt
      <4> QED BY <3>1, <4>1, <4>2
    <3> QED BY <3>1, <3>2 DEF CaseIsRight, Read
  <2>2. CASE c \notin marked
    <3>1. cases[c] = CaseAt(version, PreparedCase(c))
      BY <1>1, <2>2
    <3> DEFINE p == PreparedCase(c)
    <3>2. /\ p.provider = "p" /\ p.cached = 1 /\ p.error = ""
          /\ p.empty = OrEmpty(docs[c].empty) /\ p.answered = OrEmpty(docs[c].answered)
      BY DEF PreparedCase, CaseColumns
    <3> HIDE DEF p
    <3>3. /\ cases[c].provider \in {"null", p.provider} /\ cases[c].cached \in {Unfilled, p.cached}
          /\ cases[c].error \in {"null", p.error} /\ cases[c].empty \in {"null", p.empty}
          /\ cases[c].answered \in {"null", p.answered}
      BY <1>2, <3>1, ColumnsAt DEF p
    <3>4. cases[c].cached # Lost
      <4>1. 1 # Lost /\ Unfilled # Lost
        BY DEF Lost, Unfilled
      <4>2. cases[c].cached = Unfilled \/ cases[c].cached = 1
        BY <3>2, <3>3
      <4> QED BY <4>1, <4>2, Zenon
    <3>5. /\ cases[c].provider \in {"null", "p"} /\ cases[c].cached \in {Unfilled, 1}
          /\ cases[c].error \in {"null", ""} /\ cases[c].empty \in {"null", OrEmpty(docs[c].empty)}
          /\ cases[c].answered \in {"null", OrEmpty(docs[c].answered)}
      BY <3>2, <3>3
    <3> QED BY <3>4, <3>5 DEF CaseIsRight
  <2> QED BY <2>1, <2>2
<1>5. ASSUME NEW r \in Runs PROVE RunIsRight(r)
  <2>1. runRows[r] = RunAt(version, PreparedRun(r))
    BY DEF UpgradeInit
  <2>2. /\ runRows[r].hits = At(version, AddedIn.hits, PreparedRun(r).hits, Unfilled)
        /\ runRows[r].empty = At(version, AddedIn.empty, PreparedRun(r).empty, Unfilled)
        /\ runRows[r].fallback = At(version, AddedIn.fallback, PreparedRun(r).fallback, Unfilled)
    BY <2>1 DEF RunAt, RunColumns
  <2> QED BY <2>2 DEF RunIsRight, CountIsRight, At
<1> QED
  BY <1>2, <1>3, <1>4, <1>5
  DEF UpgradeInv, UpgradeInit, PassesLeave, AfterSearch, AfterAnswerers, AfterRuns, AfterCases

-----------------------------------------------------------------------------
\* decode_case gives what an upload would have stored, or the mark.
LEMMA DecodedCase ==
  ASSUME NEW c
  PROVE  /\ docs[c].ok => decode_case(c) = PreparedCase(c)
         /\ ~docs[c].ok => decode_case(c) = LostCase
         /\ IsCaseRow(decode_case(c))
  BY DEF decode_case, PreparedCase, LostCase, IsCaseRow, CaseColumns

\* One field of a row at a time.
LEMMA CaseFields ==
  ASSUME NEW c
  PROVE  /\ PreparedCase(c).provider = "p" /\ PreparedCase(c).cached = 1
         /\ PreparedCase(c).error = "" /\ PreparedCase(c).empty = OrEmpty(docs[c].empty)
         /\ PreparedCase(c).answered = OrEmpty(docs[c].answered)
         /\ LostCase.provider = "" /\ LostCase.cached = Lost /\ LostCase.error = ""
         /\ LostCase.empty = "" /\ LostCase.answered = ""
         /\ 1 # Lost /\ 1 # Unfilled /\ Unfilled # Lost
  BY DEF PreparedCase, LostCase, CaseColumns, Lost, Unfilled

\* A step that changes no row: all it has to respect is which passes are over.
LEMMA RowsStand ==
  ASSUME UpgradeInv, UNCHANGED <<docs, bodies, cases, runRows, fts, kept>>,
         version' \in 1 .. Latest, PassesLeave'
  PROVE  UpgradeInv'
  BY DEF UpgradeInv, RowsAreRows, CaseIsRight, Read, RunIsRight, CountIsRight, PreparedRun, Says

LEMMA MigrateKeeps == UpgradeInv /\ Migrate => UpgradeInv'
<1> SUFFICES ASSUME UpgradeInv, Migrate PROVE UpgradeInv'
  OBVIOUS
<1>1. kept' = kept
  BY DEF Migrate, Dropped
<1>2. version' \in 1 .. Latest
  BY DEF Migrate, UpgradeInv, Latest
<1>3. PassesLeave'
  BY DEF Migrate, PassesLeave, AfterSearch, AfterAnswerers, AfterRuns, AfterCases
<1> QED BY <1>1, <1>2, <1>3, RowsStand DEF Migrate

\* A pass is over, and what it leaves is there.
LEMMA PassIsOverKeeps ==
  ASSUME UpgradeInv, NEW p, PassIsOver(p), PassesLeave'
  PROVE  UpgradeInv'
  BY RowsStand DEF PassIsOver, UpgradeInv

LEMMA MigratedKeeps == UpgradeInv /\ Migrated => UpgradeInv'
<1> SUFFICES ASSUME UpgradeInv, Migrated PROVE UpgradeInv'
  OBVIOUS
<1>1. pass' = "cases" /\ version' = Latest
  BY PassesInOrder DEF Migrated, PassIsOver
<1>2. PassesLeave'
  BY <1>1 DEF PassesLeave, AfterSearch, AfterAnswerers, AfterRuns, AfterCases
<1> QED BY <1>2, PassIsOverKeeps DEF Migrated

\* Cases are filled one chunk at a time: those of the chunk are decoded.
LEMMA FillCases ==
  ASSUME UpgradeInv, NEW chunk \in SUBSET CaseRows, pass = "cases",
         cases' = [c \in CaseRows |-> IF c \in chunk THEN decode_case(c) ELSE cases[c]],
         UNCHANGED <<docs, bodies, version, runRows, fts, kept, pass>>
  PROVE  UpgradeInv'
<1>1. RowsAreRows'
  BY DecodedCase DEF UpgradeInv, RowsAreRows, IsCaseRow
<1>2. ASSUME NEW c \in CaseRows PROVE CaseIsRight(c)'
  <2>1. CASE c \notin chunk
    BY <2>1 DEF UpgradeInv, CaseIsRight, Read
  <2>2. CASE c \in chunk /\ docs[c].ok
    <3>1. cases'[c] = PreparedCase(c)
      BY <2>2, DecodedCase
    <3> QED BY <3>1, CaseFields DEF CaseIsRight
  <2>3. CASE c \in chunk /\ ~docs[c].ok
    <3>1. cases'[c] = LostCase
      BY <2>3, DecodedCase
    <3> QED BY <2>3, <3>1, CaseFields DEF CaseIsRight, Read
  <2> QED BY <2>1, <2>2, <2>3
<1>3. \A r \in Runs : RunIsRight(r)'
  BY DEF UpgradeInv, RunIsRight, CountIsRight, PreparedRun, Says
<1>4. PassesLeave'
  BY DEF UpgradeInv, PassesLeave, AfterSearch, AfterAnswerers, AfterRuns, AfterCases
<1> QED BY <1>1, <1>2, <1>3, <1>4 DEF UpgradeInv

LEMMA BackfillCasesKeeps == UpgradeInv /\ backfill_cases => UpgradeInv'
<1> SUFFICES ASSUME UpgradeInv, backfill_cases PROVE UpgradeInv'
  OBVIOUS
<1> DEFINE pending == {c \in CaseRows : \/ "null" \in {cases[c].provider, cases[c].error, cases[c].empty}
                                        \/ cases[c].cached = Unfilled}
<1>1. CASE pending = {} /\ PassIsOver("cases")
  <2>1. pass' = "empty_count" /\ pass = "cases" /\ version' = version /\ cases' = cases
    BY <1>1, PassesInOrder DEF PassIsOver
  <2>2. \A c \in CaseRows : CaseIsFilled(c)
    BY <1>1 DEF CaseIsFilled
  <2>3. PassesLeave'
    BY <2>1, <2>2 DEF UpgradeInv, PassesLeave, AfterSearch, AfterAnswerers, AfterRuns, AfterCases,
                      CaseIsFilled
  <2> QED BY <1>1, <2>3, PassIsOverKeeps
<1>2. CASE /\ pass = "cases" /\ pending # {}
           /\ \E chunk \in ChunksOf(pending, CASE_CHUNK) :
                cases' = [c \in CaseRows |-> IF c \in chunk THEN decode_case(c) ELSE cases[c]]
           /\ UNCHANGED <<docs, bodies, version, runRows, fts, kept, pass, stops>>
  <2>1. PICK chunk \in ChunksOf(pending, CASE_CHUNK) :
               cases' = [c \in CaseRows |-> IF c \in chunk THEN decode_case(c) ELSE cases[c]]
    BY <1>2
  <2>2. chunk \in SUBSET CaseRows
    BY DEF ChunksOf
  <2> QED BY <1>2, <2>1, <2>2, FillCases
<1> QED BY <1>1, <1>2 DEF backfill_cases

-----------------------------------------------------------------------------
\* A step that changes runs only, keeps the counts right and what is filled.
LEMMA FillRuns ==
  ASSUME UpgradeInv, NEW row,
         runRows' = [r \in Runs |-> row[r]],
         \A r \in Runs : IsRunRow(row[r]),
         \A r \in Runs : /\ CountIsRight(r, row[r].hits, PreparedRun(r).hits)
                         /\ CountIsRight(r, row[r].empty, PreparedRun(r).empty)
                         /\ CountIsRight(r, row[r].fallback, PreparedRun(r).fallback),
         \A r \in Runs : runRows[r].fallback # Unfilled => row[r].fallback # Unfilled,
         UNCHANGED <<docs, bodies, version, cases, fts, kept>>,
         PassesLeave'
  PROVE  UpgradeInv'
<1>1. RowsAreRows'
  BY DEF UpgradeInv, RowsAreRows, IsRunRow
<1>2. ASSUME NEW c \in CaseRows PROVE CaseIsRight(c)'
  <2>1. RunOfCase[c] \in Runs
    BY UpgradeAssumption
  <2>2. runRows[RunOfCase[c]].fallback # Unfilled => runRows'[RunOfCase[c]].fallback # Unfilled
    BY <2>1
  <2> QED BY <2>2 DEF UpgradeInv, CaseIsRight, Read
<1>3. ASSUME NEW r \in Runs PROVE RunIsRight(r)'
  <2>1. runRows'[r] = row[r]
    OBVIOUS
  <2>2. PreparedRun(r)' = PreparedRun(r)
    BY DEF PreparedRun, Says
  <2> QED BY <2>1, <2>2 DEF RunIsRight, CountIsRight
<1> QED BY <1>1, <1>2, <1>3 DEF UpgradeInv

\* Where no case of a run is lost, the case rows give the count the document gives.
LEMMA RowsCountEmpty ==
  ASSUME UpgradeInv, \A c \in CaseRows : CaseIsFilled(c), NEW r \in Runs, NoLostCase(r)
  PROVE  Cardinality({c \in CasesOf(r) : cases[c].empty \notin {"", "null"}}) = PreparedRun(r).empty
<1>1. ASSUME NEW c \in CasesOf(r)
      PROVE  cases[c].empty \notin {"", "null"} <=> Says(c, "empty")
  <2>1. c \in CaseRows /\ cases[c].cached # Lost /\ CaseIsFilled(c)
    BY DEF CasesOf, NoLostCase
  <2>2. cases[c].empty \in {"null", OrEmpty(docs[c].empty)}
    BY <2>1 DEF UpgradeInv, CaseIsRight, Read, CaseIsFilled
  <2>3. cases[c].empty # "null" /\ docs \in Documents
    BY <2>1 DEF CaseIsFilled, UpgradeInv, RowsAreRows
  <2> QED BY <2>1, <2>2, <2>3, DocumentsAreTexts
<1>2. {c \in CasesOf(r) : cases[c].empty \notin {"", "null"}} = {c \in CasesOf(r) : Says(c, "empty")}
  BY <1>1
<1> QED BY <1>2 DEF PreparedRun, RunColumns

LEMMA RowsCountFallback ==
  ASSUME UpgradeInv, \A c \in CaseRows : CaseIsFilled(c), NEW r \in Runs, NoLostCase(r),
         runRows[r].fallback = Unfilled, \A c \in CasesOf(r) : cases[c].answered # "null"
  PROVE  Cardinality({c \in CasesOf(r) : cases[c].answered # ""}) = PreparedRun(r).fallback
<1>1. ASSUME NEW c \in CasesOf(r) PROVE cases[c].answered # "" <=> Says(c, "answered")
  <2>1. c \in CaseRows /\ cases[c].cached # Lost /\ CaseIsFilled(c) /\ RunOfCase[c] = r
    BY DEF CasesOf, NoLostCase
  <2>2. cases[c].answered \in {"null", OrEmpty(docs[c].answered)}
    BY <2>1 DEF UpgradeInv, CaseIsRight, Read, CaseIsFilled
  <2>3. cases[c].answered # "null" /\ docs \in Documents
    BY DEF UpgradeInv, RowsAreRows
  <2> QED BY <2>1, <2>2, <2>3, DocumentsAreTexts
<1>2. {c \in CasesOf(r) : cases[c].answered # ""} = {c \in CasesOf(r) : Says(c, "answered")}
  BY <1>1
<1> QED BY <1>2 DEF PreparedRun, RunColumns

LEMMA CountEmptyKeeps == UpgradeInv /\ CountEmpty => UpgradeInv'
<1> SUFFICES ASSUME UpgradeInv, CountEmpty PROVE UpgradeInv'
  OBVIOUS
<1> DEFINE known(r) == /\ runRows[r].empty = Unfilled /\ runRows[r].digest # "null"
                       /\ runRows[r].hits # Unfilled /\ NoLostCase(r)
           count(r) == Cardinality({c \in CasesOf(r) : cases[c].empty \notin {"", "null"}})
           row == [r \in Runs |-> IF known(r) THEN [runRows[r] EXCEPT !.empty = count(r)]
                                  ELSE runRows[r]]
<1>1. /\ pass = "empty_count" /\ pass' = "fallback_count" /\ runRows' = row
      /\ UNCHANGED <<docs, bodies, version, cases, fts, kept>>
  BY PassesInOrder DEF CountEmpty
<1>2. \A c \in CaseRows : CaseIsFilled(c)
  BY <1>1 DEF UpgradeInv, PassesLeave, AfterSearch, AfterAnswerers, AfterRuns, AfterCases
<1>3. ASSUME NEW r \in Runs
      PROVE  /\ IsRunRow(row[r])
             /\ row[r].hits = runRows[r].hits /\ row[r].fallback = runRows[r].fallback
             /\ row[r].empty = runRows[r].empty \/ row[r].empty = PreparedRun(r).empty
  <2>1. IsRunRow(runRows[r])
    BY DEF UpgradeInv, RowsAreRows
  <2>2. CASE known(r)
    <3>1. row[r] = [runRows[r] EXCEPT !.empty = count(r)]
      BY <2>2
    <3>2. count(r) = PreparedRun(r).empty
      BY <1>2, <2>2, RowsCountEmpty
    <3> HIDE DEF count, row
    <3> QED BY <2>1, <3>1, <3>2 DEF IsRunRow, RunColumns
  <2>3. CASE ~known(r)
    BY <2>1, <2>3
  <2> QED BY <2>2, <2>3
<1>4. \A r \in Runs : RunIsRight(r)
  BY DEF UpgradeInv
<1>5. PassesLeave'
  BY <1>1 DEF UpgradeInv, PassesLeave, AfterSearch, AfterAnswerers, AfterRuns, AfterCases, CaseIsFilled
<1>6. row = [r \in Runs |-> row[r]]
  OBVIOUS
<1> HIDE DEF row
<1> QED BY <1>1, <1>3, <1>4, <1>5, <1>6, FillRuns DEF RunIsRight, CountIsRight

LEMMA CountFallbackKeeps == UpgradeInv /\ CountFallback => UpgradeInv'
<1> SUFFICES ASSUME UpgradeInv, CountFallback PROVE UpgradeInv'
  OBVIOUS
<1> DEFINE known(r) == /\ runRows[r].fallback = Unfilled /\ NoLostCase(r)
                       /\ \A c \in CasesOf(r) : cases[c].answered # "null"
           count(r) == Cardinality({c \in CasesOf(r) : cases[c].answered # ""})
           row == [r \in Runs |-> IF known(r) THEN [runRows[r] EXCEPT !.fallback = count(r)]
                                  ELSE runRows[r]]
<1>1. /\ pass = "fallback_count" /\ pass' = "runs" /\ runRows' = row
      /\ UNCHANGED <<docs, bodies, version, cases, fts, kept>>
  BY PassesInOrder DEF CountFallback
<1>2. \A c \in CaseRows : CaseIsFilled(c)
  BY <1>1 DEF UpgradeInv, PassesLeave, AfterSearch, AfterAnswerers, AfterRuns, AfterCases
<1>3. ASSUME NEW r \in Runs
      PROVE  /\ IsRunRow(row[r])
             /\ row[r].hits = runRows[r].hits /\ row[r].empty = runRows[r].empty
             /\ row[r].fallback = runRows[r].fallback \/ row[r].fallback = PreparedRun(r).fallback
  <2>1. IsRunRow(runRows[r])
    BY DEF UpgradeInv, RowsAreRows
  <2>2. CASE known(r)
    <3>1. row[r] = [runRows[r] EXCEPT !.fallback = count(r)]
      BY <2>2
    <3>2. count(r) = PreparedRun(r).fallback
      BY <1>2, <2>2, RowsCountFallback
    <3> HIDE DEF count, row
    <3> QED BY <2>1, <3>1, <3>2 DEF IsRunRow, RunColumns
  <2>3. CASE ~known(r)
    BY <2>1, <2>3
  <2> QED BY <2>2, <2>3
<1>4. \A r \in Runs : RunIsRight(r)
  BY DEF UpgradeInv
<1>5. PassesLeave'
  BY <1>1 DEF UpgradeInv, PassesLeave, AfterSearch, AfterAnswerers, AfterRuns, AfterCases, CaseIsFilled
<1>6. row = [r \in Runs |-> row[r]]
  OBVIOUS
<1>7. \A r \in Runs : PreparedRun(r).fallback # Unfilled
  BY CountsAreNumbers DEF Unfilled
<1> HIDE DEF row
<1> QED BY <1>1, <1>3, <1>4, <1>5, <1>6, <1>7, FillRuns DEF RunIsRight, CountIsRight

\* What a run's document gives, and what stands for it.
LEMMA DecodedRun ==
  ASSUME NEW r
  PROVE  /\ bodies[r] => decode_run_columns(r) = PreparedRun(r)
         /\ ~bodies[r] => decode_run_columns(r) = RunColumns("", Lost, Lost, Lost)
  BY DEF decode_run_columns, PreparedRun, count_cases, Says

LEMMA BackfillRunsKeeps == UpgradeInv /\ backfill_runs => UpgradeInv'
<1> SUFFICES ASSUME UpgradeInv, backfill_runs PROVE UpgradeInv'
  OBVIOUS
<1> DEFINE pending == {r \in Runs : \/ runRows[r].digest = "null"
                                    \/ Unfilled \in {runRows[r].hits, runRows[r].empty, runRows[r].fallback}}
<1>1. CASE pending = {} /\ PassIsOver("runs")
  <2>1. /\ pass' = "no_fallback" /\ pass = "runs" /\ version' = version /\ cases' = cases
        /\ runRows' = runRows
    BY <1>1, PassesInOrder DEF PassIsOver
  <2>2. \A r \in Runs : RunIsFilled(r)
    BY <1>1 DEF RunIsFilled
  <2>3. PassesLeave'
    BY <2>1, <2>2 DEF UpgradeInv, PassesLeave, AfterSearch, AfterAnswerers, AfterRuns, AfterCases,
                      CaseIsFilled, RunIsFilled
  <2> QED BY <1>1, <2>3, PassIsOverKeeps
<1>2. CASE /\ pass = "runs"
           /\ \E chunk \in ChunksOf(pending, RUN_CHUNK) :
                runRows' = [r \in Runs |-> IF r \in chunk THEN Coalesce(runRows[r], decode_run_columns(r))
                                                     ELSE runRows[r]]
           /\ UNCHANGED <<docs, bodies, version, cases, fts, kept, pass, stops>>
  <2>1. PICK chunk \in ChunksOf(pending, RUN_CHUNK) :
                runRows' = [r \in Runs |-> IF r \in chunk THEN Coalesce(runRows[r], decode_run_columns(r))
                                                     ELSE runRows[r]]
    BY <1>2
  <2> DEFINE new(r) == decode_run_columns(r)
             row == [r \in Runs |-> IF r \in chunk THEN Coalesce(runRows[r], new(r)) ELSE runRows[r]]
  <2>2. ASSUME NEW r \in Runs
        PROVE  /\ new(r).hits \in {PreparedRun(r).hits} \/ (new(r).hits = Lost /\ ~bodies[r])
               /\ new(r).empty \in {PreparedRun(r).empty} \/ (new(r).empty = Lost /\ ~bodies[r])
               /\ new(r).fallback \in {PreparedRun(r).fallback} \/ (new(r).fallback = Lost /\ ~bodies[r])
               /\ new(r).fallback # Unfilled
    <3>1. CASE bodies[r]
      <4>1. PreparedRun(r).fallback # Unfilled
        BY CountsAreNumbers DEF Unfilled
      <4> QED BY <3>1, <4>1, DecodedRun
    <3>2. CASE ~bodies[r]
      <4>1. /\ RunColumns("", Lost, Lost, Lost).hits = Lost
            /\ RunColumns("", Lost, Lost, Lost).empty = Lost
            /\ RunColumns("", Lost, Lost, Lost).fallback = Lost /\ Lost # Unfilled
        BY DEF RunColumns, Lost, Unfilled
      <4> QED BY <3>2, <4>1, DecodedRun
    <3> QED BY <3>1, <3>2
  <2> HIDE DEF new
  <2>3. ASSUME NEW r \in Runs
        PROVE  /\ IsRunRow(row[r])
               /\ row[r].hits \in {runRows[r].hits, new(r).hits}
               /\ row[r].empty \in {runRows[r].empty, new(r).empty}
               /\ row[r].fallback \in {runRows[r].fallback, new(r).fallback}
    <3>1. IsRunRow(runRows[r])
      BY DEF UpgradeInv, RowsAreRows
    <3>2. CASE r \in chunk
      <4>1. row[r] = Coalesce(runRows[r], new(r))
        BY <3>2
      <4> HIDE DEF row
      <4> QED BY <4>1 DEF IsRunRow, Coalesce, RunColumns
    <3>3. CASE r \notin chunk
      BY <3>1, <3>3
    <3> QED BY <3>2, <3>3
  <2>4. \A r \in Runs : RunIsRight(r)
    BY DEF UpgradeInv
  <2>5. PassesLeave'
    BY <1>2 DEF UpgradeInv, PassesLeave, AfterSearch, AfterAnswerers, AfterRuns, AfterCases, CaseIsFilled
  <2>6. runRows' = [r \in Runs |-> row[r]]
    BY <2>1 DEF new
  <2> HIDE DEF row
  <2>7. \A r \in Runs : /\ CountIsRight(r, row[r].hits, PreparedRun(r).hits)
                        /\ CountIsRight(r, row[r].empty, PreparedRun(r).empty)
                        /\ CountIsRight(r, row[r].fallback, PreparedRun(r).fallback)
    BY <2>2, <2>3, <2>4 DEF RunIsRight, CountIsRight
  <2> QED BY <1>2, <2>2, <2>3, <2>5, <2>6, <2>7, FillRuns
<1> QED BY <1>1, <1>2 DEF backfill_runs

-----------------------------------------------------------------------------
\* A row with another answerer.
LEMMA AnswererOf ==
  ASSUME NEW row, IsCaseRow(row), NEW text
  PROVE  LET new == [row EXCEPT !.answered = text]
         IN /\ IsCaseRow(new) /\ new.answered = text
            /\ new.provider = row.provider /\ new.cached = row.cached
            /\ new.error = row.error /\ new.empty = row.empty
  BY DEF IsCaseRow, CaseColumns

\* Answerers are filled for some cases: with what the document says, or for a case that
\* nobody can read, after its run was counted.
LEMMA FillAnswerers ==
  ASSUME UpgradeInv, NEW row,
         cases' = [c \in CaseRows |-> row[c]],
         \A c \in CaseRows :
           /\ IsCaseRow(row[c])
           /\ row[c].provider = cases[c].provider /\ row[c].cached = cases[c].cached
           /\ row[c].error = cases[c].error /\ row[c].empty = cases[c].empty
           /\ \/ row[c].answered \in {cases[c].answered, OrEmpty(docs[c].answered)}
              \/ ~docs[c].ok /\ runRows[RunOfCase[c]].fallback # Unfilled,
         UNCHANGED <<docs, bodies, version, runRows, fts, kept>>,
         PassesLeave'
  PROVE  UpgradeInv'
<1>1. \A c \in CaseRows : cases'[c] = row[c]
  OBVIOUS
<1>2. RowsAreRows'
  <2>1. cases' = [c \in CaseRows |-> cases'[c]]
    OBVIOUS
  <2> QED BY <1>1, <2>1 DEF UpgradeInv, RowsAreRows, IsRunRow
<1>3. ASSUME NEW c \in CaseRows PROVE CaseIsRight(c)'
  <2>1. CaseIsRight(c)
    BY DEF UpgradeInv
  <2> QED BY <1>1, <2>1 DEF CaseIsRight, Read
<1>4. \A r \in Runs : RunIsRight(r)'
  BY DEF UpgradeInv, RunIsRight, CountIsRight, PreparedRun, Says
<1> QED BY <1>2, <1>3, <1>4 DEF UpgradeInv

LEMMA StampNoFallbackKeeps == UpgradeInv /\ StampNoFallback => UpgradeInv'
<1> SUFFICES ASSUME UpgradeInv, StampNoFallback PROVE UpgradeInv'
  OBVIOUS
<1> DEFINE chosen(c) == cases[c].answered = "null" /\ runRows[RunOfCase[c]].fallback = 0
           row == [c \in CaseRows |-> IF chosen(c) THEN [cases[c] EXCEPT !.answered = ""]
                                      ELSE cases[c]]
<1>1. /\ pass = "no_fallback" /\ pass' = "answerers" /\ cases' = row
      /\ UNCHANGED <<docs, bodies, version, runRows, fts, kept>>
  BY PassesInOrder DEF StampNoFallback
<1>2. ASSUME NEW c \in CaseRows, chosen(c)
      PROVE  OrEmpty(docs[c].answered) = ""
  <2> DEFINE r == RunOfCase[c]
  <2>1. r \in Runs /\ c \in CasesOf(r) /\ runRows[r].fallback = 0 /\ docs \in Documents
    BY <1>2, UpgradeAssumption DEF CasesOf, UpgradeInv, RowsAreRows
  <2>2. 0 # Unfilled /\ 0 # Lost
    BY DEF Unfilled, Lost
  <2>3. RunIsRight(r)
    BY <2>1 DEF UpgradeInv
  <2>4. PreparedRun(r).fallback = 0
    BY <2>1, <2>2, <2>3, Zenon DEF RunIsRight, CountIsRight
  <2>5. ~Says(c, "answered")
    BY <2>1, <2>4, CountsAreNumbers
  <2> QED BY <2>1, <2>5, DocumentsAreTexts
<1>3. ASSUME NEW c \in CaseRows
      PROVE  /\ IsCaseRow(row[c])
             /\ row[c].provider = cases[c].provider /\ row[c].cached = cases[c].cached
             /\ row[c].error = cases[c].error /\ row[c].empty = cases[c].empty
             /\ row[c].answered \in {cases[c].answered, OrEmpty(docs[c].answered)}
  <2>1. IsCaseRow(cases[c])
    BY DEF UpgradeInv, RowsAreRows
  <2>2. CASE chosen(c)
    <3>1. row[c] = [cases[c] EXCEPT !.answered = ""]
      BY <2>2
    <3>2. OrEmpty(docs[c].answered) = ""
      BY <1>2, <2>2
    <3> DEFINE new == [cases[c] EXCEPT !.answered = ""]
    <3>3. /\ IsCaseRow(new) /\ new.answered = ""
          /\ new.provider = cases[c].provider /\ new.cached = cases[c].cached
          /\ new.error = cases[c].error /\ new.empty = cases[c].empty
      BY <2>1, AnswererOf
    <3> HIDE DEF row, new
    <3>4. row[c] = new
      BY <3>1 DEF new
    <3> QED BY <3>2, <3>3, <3>4
  <2>3. CASE ~chosen(c)
    BY <2>1, <2>3
  <2> QED BY <2>2, <2>3
<1>4. \A c \in CaseRows : CaseIsFilled(c)
  BY <1>1 DEF UpgradeInv, PassesLeave, AfterSearch, AfterAnswerers, AfterRuns, AfterCases
<1>5. row = [c \in CaseRows |-> row[c]]
  OBVIOUS
<1> HIDE DEF row
<1>6. PassesLeave'
  BY <1>1, <1>3, <1>4 DEF UpgradeInv, PassesLeave, AfterSearch, AfterAnswerers, AfterRuns, AfterCases,
                          CaseIsFilled, RunIsFilled
<1> QED BY <1>1, <1>3, <1>5, <1>6, FillAnswerers

LEMMA BackfillAnswerersKeeps == UpgradeInv /\ backfill_case_answerers => UpgradeInv'
<1> SUFFICES ASSUME UpgradeInv, backfill_case_answerers PROVE UpgradeInv'
  OBVIOUS
<1> DEFINE pending == {c \in CaseRows : cases[c].answered = "null"}
<1>1. CASE pending = {} /\ PassIsOver("answerers")
  <2>1. /\ pass' = "search" /\ pass = "answerers" /\ version' = version /\ cases' = cases
        /\ runRows' = runRows
    BY <1>1, PassesInOrder DEF PassIsOver
  <2>2. PassesLeave'
    BY <1>1, <2>1 DEF UpgradeInv, PassesLeave, AfterSearch, AfterAnswerers, AfterRuns, AfterCases,
                      CaseIsFilled, RunIsFilled
  <2> QED BY <1>1, <2>2, PassIsOverKeeps
<1>2. CASE /\ pass = "answerers"
           /\ \E chunk \in ChunksOf(pending, CASE_CHUNK) :
               cases' = [c \in CaseRows |->
                           IF c \in chunk
                           THEN [cases[c] EXCEPT !.answered = decode_case(c).answered]
                           ELSE cases[c]]
           /\ UNCHANGED <<docs, bodies, version, runRows, fts, kept, pass, stops>>
  <2>1. PICK chunk \in ChunksOf(pending, CASE_CHUNK) :
               cases' = [c \in CaseRows |->
                           IF c \in chunk
                           THEN [cases[c] EXCEPT !.answered = decode_case(c).answered]
                           ELSE cases[c]]
    BY <1>2
  <2> DEFINE row == [c \in CaseRows |-> IF c \in chunk
                        THEN [cases[c] EXCEPT !.answered = decode_case(c).answered] ELSE cases[c]]
  <2>2. cases' = row
    BY <2>1
  <2>3. ASSUME NEW c \in CaseRows
        PROVE  /\ IsCaseRow(row[c])
               /\ row[c].provider = cases[c].provider /\ row[c].cached = cases[c].cached
               /\ row[c].error = cases[c].error /\ row[c].empty = cases[c].empty
               /\ \/ row[c].answered \in {cases[c].answered, OrEmpty(docs[c].answered)}
                  \/ ~docs[c].ok /\ runRows[RunOfCase[c]].fallback # Unfilled
    <3>1. IsCaseRow(cases[c]) /\ RunOfCase[c] \in Runs
      BY UpgradeAssumption DEF UpgradeInv, RowsAreRows
    <3>2. RunIsFilled(RunOfCase[c])
      BY <1>2, <3>1 DEF UpgradeInv, PassesLeave, AfterSearch, AfterAnswerers, AfterRuns, AfterCases
    <3>3. docs[c].ok => decode_case(c).answered = OrEmpty(docs[c].answered)
      BY DecodedCase, CaseFields
    <3>4. CASE c \in chunk
      <4>1. row[c] = [cases[c] EXCEPT !.answered = decode_case(c).answered]
        BY <3>4
      <4> HIDE DEF row
      <4> QED BY <3>1, <3>2, <3>3, <4>1, AnswererOf DEF RunIsFilled
    <3>5. CASE c \notin chunk
      BY <3>1, <3>5
    <3> QED BY <3>4, <3>5
  <2>4. \A c \in CaseRows : CaseIsFilled(c)
    BY <1>2 DEF UpgradeInv, PassesLeave, AfterSearch, AfterAnswerers, AfterRuns, AfterCases
  <2>5. row = [c \in CaseRows |-> row[c]]
    OBVIOUS
  <2> HIDE DEF row
  <2>6. PassesLeave'
    BY <1>2, <2>2, <2>3, <2>4, <2>5
    DEF UpgradeInv, PassesLeave, AfterSearch, AfterAnswerers, AfterRuns, AfterCases, CaseIsFilled,
        RunIsFilled
  <2> QED BY <1>2, <2>2, <2>3, <2>5, <2>6, FillAnswerers
<1> QED BY <1>1, <1>2 DEF backfill_case_answerers

LEMMA SearchBackfillKeeps == UpgradeInv /\ search_backfill => UpgradeInv'
<1> SUFFICES ASSUME UpgradeInv, search_backfill PROVE UpgradeInv'
  OBVIOUS
<1> DEFINE pending == {r \in Runs : fts[r] = 0}
<1>1. CASE pending = {} /\ PassIsOver("search")
  <2>1. /\ pass' = "serving" /\ pass = "search"
        /\ UNCHANGED <<docs, bodies, version, cases, runRows, fts, kept>>
    BY <1>1, PassesInOrder DEF PassIsOver
  <2>2. \A r \in Runs : fts[r] = 1
    BY <1>1 DEF UpgradeInv, RowsAreRows
  <2>3. PassesLeave'
    BY <2>1, <2>2 DEF UpgradeInv, PassesLeave, AfterSearch, AfterAnswerers, AfterRuns, AfterCases,
                      CaseIsFilled, RunIsFilled
  <2> QED BY <1>1, <2>3, PassIsOverKeeps
<1>2. CASE /\ pass = "search"
           /\ \E chunk \in ChunksOf(pending, RUN_CHUNK) :
               fts' = [r \in Runs |-> IF r \in chunk THEN fts[r] + 1 ELSE fts[r]]
           /\ UNCHANGED <<docs, bodies, version, cases, runRows, kept, pass, stops>>
  <2>1. PICK chunk \in ChunksOf(pending, RUN_CHUNK) :
               fts' = [r \in Runs |-> IF r \in chunk THEN fts[r] + 1 ELSE fts[r]]
    BY <1>2
  <2>2. \A r \in chunk : fts[r] = 0
    BY DEF ChunksOf
  <2>3. RowsAreRows'
    <3>1. fts' = [r \in Runs |-> fts'[r]]
      BY <2>1
    <3>2. \A r \in Runs : fts'[r] \in {0, 1}
      <4>1. \A r \in Runs : fts[r] \in {0, 1}
        BY DEF UpgradeInv, RowsAreRows
      <4>2. \A r \in Runs : fts'[r] = IF r \in chunk THEN fts[r] + 1 ELSE fts[r]
        BY <2>1
      <4>3. \A r \in Runs : r \in chunk => fts'[r] = 0 + 1
        BY <2>2, <4>2
      <4> QED BY <4>1, <4>2, <4>3
    <3>3. docs' = docs /\ cases' = cases /\ runRows' = runRows
      BY <1>2
    <3>4. RowsAreRows
      BY DEF UpgradeInv
    <3>5. /\ cases' = [c \in CaseRows |-> cases'[c]] /\ \A c \in CaseRows : IsCaseRow(cases'[c])
          /\ runRows' = [r \in Runs |-> runRows'[r]] /\ \A r \in Runs : IsRunRow(runRows'[r])
          /\ docs' \in Documents
      BY <3>3, <3>4 DEF RowsAreRows
    <3> QED BY <3>1, <3>2, <3>5 DEF RowsAreRows, IsCaseRow, IsRunRow
  <2>4. PassesLeave'
    BY <1>2 DEF UpgradeInv, PassesLeave, AfterSearch, AfterAnswerers, AfterRuns, AfterCases,
                CaseIsFilled, RunIsFilled
  <2> QED BY <1>2, <2>3, <2>4 DEF UpgradeInv, CaseIsRight, Read, RunIsRight, CountIsRight, PreparedRun,
                                   Says
<1> QED BY <1>1, <1>2 DEF search_backfill

LEMMA StopKeeps == UpgradeInv /\ Stop => UpgradeInv'
<1> SUFFICES ASSUME UpgradeInv, Stop PROVE UpgradeInv'
  OBVIOUS
<1>1. PassesLeave'
  BY DEF Stop, PassesLeave, AfterSearch, AfterAnswerers, AfterRuns, AfterCases
<1> QED BY <1>1, RowsStand DEF Stop, UpgradeInv

LEMMA UpgradeStepKeeps == UpgradeInv /\ [UpgradeNext]_upgradeVars => UpgradeInv'
<1> SUFFICES ASSUME UpgradeInv, [UpgradeNext]_upgradeVars PROVE UpgradeInv'
  OBVIOUS
<1>1. CASE UNCHANGED upgradeVars
  <2>1. PassesLeave'
    BY <1>1 DEF upgradeVars, UpgradeInv, PassesLeave, CaseIsFilled, RunIsFilled
  <2> QED BY <1>1, <2>1, RowsStand DEF upgradeVars, UpgradeInv
<1> QED
  BY <1>1, MigrateKeeps, MigratedKeeps, BackfillCasesKeeps, CountEmptyKeeps, CountFallbackKeeps,
     BackfillRunsKeeps, StampNoFallbackKeeps, BackfillAnswerersKeeps, SearchBackfillKeeps, StopKeeps
  DEF UpgradeNext, UpgradeStep

-----------------------------------------------------------------------------
LEMMA UpgradeInvImplies == UpgradeInv => UpgradeIsFaithful
<1> SUFFICES ASSUME UpgradeInv, pass = "serving" PROVE UpgradeIsFaithful
  BY DEF UpgradeIsFaithful
<1>1. /\ version = Latest /\ kept = {"sessions", "case_tags"} /\ docs \in Documents
      /\ \A c \in CaseRows : CaseIsFilled(c) /\ cases[c].answered # "null"
      /\ \A r \in Runs : RunIsFilled(r) /\ fts[r] = 1
  BY DEF UpgradeInv, RowsAreRows, PassesLeave, AfterSearch, AfterAnswerers, AfterRuns, AfterCases
<1>2. ASSUME NEW c \in CaseRows, docs[c].ok PROVE cases[c] = PreparedCase(c)
  <2>1. IsCaseRow(cases[c]) /\ CaseIsRight(c) /\ CaseIsFilled(c) /\ cases[c].answered # "null"
    BY <1>1 DEF UpgradeInv, RowsAreRows
  <2>2. /\ cases[c].provider = "p" /\ cases[c].cached = 1 /\ cases[c].error = ""
        /\ cases[c].empty = OrEmpty(docs[c].empty) /\ cases[c].answered = OrEmpty(docs[c].answered)
    BY <1>2, <2>1 DEF CaseIsRight, Read, CaseIsFilled
  <2> QED BY <2>1, <2>2 DEF IsCaseRow, PreparedCase
<1>3. ASSUME NEW r \in Runs
      PROVE  /\ CountIsTrue(r, "hits", PreparedRun(r).hits)
             /\ CountIsTrue(r, "empty", PreparedRun(r).empty)
             /\ CountIsTrue(r, "fallback", PreparedRun(r).fallback)
  <2>1. RunIsRight(r) /\ RunIsFilled(r)
    BY <1>1 DEF UpgradeInv
  <2> QED BY <2>1 DEF RunIsRight, RunIsFilled, CountIsRight, CountIsTrue
<1> QED BY <1>1, <1>2, <1>3 DEF UpgradeIsFaithful, CaseIsFilled, RunIsFilled

\* When the first request is served, whatever version the database came from, in whichever
\* chunks and after however many stops, no column is left to fill, a readable case has the
\* columns its document says, and a run's counts are those of its document (backfill::run,
\* migrate_runs).
THEOREM UpgradeIsFaithfulCorrect == UpgradeSpec => []UpgradeIsFaithful
<1>1. UpgradeInit => UpgradeInv
  BY UpgradeInitInv
<1>2. UpgradeInv /\ [UpgradeNext]_upgradeVars => UpgradeInv'
  BY UpgradeStepKeeps
<1>3. UpgradeInv => UpgradeIsFaithful
  BY UpgradeInvImplies
<1> QED BY <1>1, <1>2, <1>3, PTL DEF UpgradeSpec

-----------------------------------------------------------------------------
\* A process with the lock is the only one that migrates, and it knows how far a ledger is.
Migrating(p) == procs[p].pc \in {"runs", "cache"}
ProcsAreProcs ==
    /\ procs = [p \in Processes |-> procs[p]]
    /\ \A p \in Processes : procs[p] = [pc |-> procs[p].pc, seen |-> procs[p].seen]
    /\ applied = [l \in {"runs", "cache"} |-> applied[l]]
    /\ \A l \in {"runs", "cache"} : applied[l] \in Seq(Int)
LockInv ==
    /\ ProcsAreProcs
    /\ \A p \in Processes :
         /\ Migrating(p) => lock = {p}
         /\ Migrating(p) /\ procs[p].seen # NotRead => procs[p].seen = Len(applied[procs[p].pc])
         /\ procs[p].pc # "migration_failed"

LEMMA LedgersAre ==
  DOMAIN Ledgers = {"runs", "cache"}
  BY DEF Ledgers

\* A process goes on, and no other one moves.
LEMMA GoesTo ==
  ASSUME ProcsAreProcs, NEW p \in Processes, NEW pc, Goto(p, pc)
  PROVE  /\ procs' = [q \in Processes |-> procs'[q]]
         /\ procs'[p] = [pc |-> pc, seen |-> NotRead]
         /\ procs'[p].pc = pc /\ procs'[p].seen = NotRead
         /\ \A q \in Processes : q # p => procs'[q] = procs[q]
         /\ \A q \in Processes : procs'[q] = [pc |-> procs'[q].pc, seen |-> procs'[q].seen]
  BY DEF ProcsAreProcs, Goto

\* One that goes where nobody migrates, or lets go of the lock, leaves the others alone.
LEMMA GoingKeepsLock ==
  ASSUME LockInv, NEW p \in Processes, NEW pc, Goto(p, pc),
         pc # "migration_failed", applied' = applied,
         \/ pc \in {"runs", "cache"} /\ lock' = {p} /\ lock \in {{}, {p}}
         \/ pc \notin {"runs", "cache"} /\ lock' \in {lock, lock \ {p}}
              /\ (Migrating(p) => lock' = lock \ {p})
  PROVE  LockInv'
<1>1. ProcsAreProcs'
  BY GoesTo DEF LockInv, ProcsAreProcs
<1>2. /\ procs'[p].pc = pc /\ procs'[p].seen = NotRead
      /\ \A q \in Processes : q # p => procs'[q] = procs[q]
  BY GoesTo DEF LockInv
<1>3. ASSUME NEW q \in Processes
      PROVE  /\ Migrating(q)' => lock' = {q}
             /\ Migrating(q)' /\ procs'[q].seen # NotRead => procs'[q].seen = Len(applied'[procs'[q].pc])
             /\ procs'[q].pc # "migration_failed"
  <2>1. CASE q = p
    BY <1>2, <2>1 DEF Migrating
  <2>2. CASE q # p
    <3>1. procs'[q] = procs[q]
      BY <1>2, <2>2
    <3>2. Migrating(q) => lock = {q}
      BY DEF LockInv
    <3>3. Migrating(q) => lock' = {q}
      BY <2>2, <3>2
    <3> QED BY <3>1, <3>3 DEF LockInv, Migrating
  <2> QED BY <2>1, <2>2
<1> QED BY <1>1, <1>3 DEF LockInv

\* Whoever applies a migration has read how far the ledger is, and is alone with it.
LEMMA AppliesKeep ==
  ASSUME LockInv, NEW p \in Processes, ReadVersion(p) \/ ApplyMigration(p)
  PROVE  LockInv' /\ lock' = lock /\ \A q \in Processes : procs'[q].pc = procs[q].pc
<1> DEFINE l == procs[p].pc
<1>1. l \in {"runs", "cache"} /\ lock = {p} /\ Migrating(p) /\ ProcsAreProcs
  BY LedgersAre DEF ReadVersion, ApplyMigration, LockInv, Migrating
<1>2. \A q \in Processes : q # p => ~Migrating(q)
  BY <1>1 DEF LockInv
<1>3. applied[l] \in Seq(Int) /\ Len(applied[l]) \in Nat /\ NotRead = -1
  BY <1>1 DEF ProcsAreProcs, NotRead
<1>4. procs[p] = [pc |-> l, seen |-> procs[p].seen]
  BY <1>1 DEF ProcsAreProcs
<1>5. CASE ReadVersion(p)
  <2>1. procs' = [procs EXCEPT ![p].seen = Len(applied[l])] /\ applied' = applied /\ lock' = lock
    BY <1>5 DEF ReadVersion
  <2>2. /\ procs'[p] = [pc |-> l, seen |-> Len(applied[l])]
        /\ \A q \in Processes : q # p => procs'[q] = procs[q]
        /\ procs' = [q \in Processes |-> procs'[q]]
    BY <1>1, <1>4, <2>1 DEF ProcsAreProcs
  <2>3. ProcsAreProcs'
    BY <1>1, <2>1, <2>2 DEF ProcsAreProcs
  <2> QED BY <1>1, <1>2, <2>1, <2>2, <2>3 DEF LockInv, Migrating
<1>6. CASE ApplyMigration(p)
  <2> DEFINE next == procs[p].seen + 1
  <2>1. procs[p].seen \in 0 .. Ledgers[l] - 1
    BY <1>6 DEF ApplyMigration
  <2>2. procs[p].seen = Len(applied[l])
    <3>1. procs[p].seen # NotRead
      <4>1. Ledgers[l] \in Nat
        BY <1>1 DEF Ledgers
      <4> QED BY <2>1, <4>1 DEF NotRead
    <3> QED BY <1>1, <3>1 DEF LockInv
  <2>3. next = Len(applied[l]) + 1 /\ ~(next <= Len(applied[l]))
    BY <1>3, <2>2
  <2>4. /\ procs' = [procs EXCEPT ![p].seen = next] /\ lock' = lock
        /\ applied' = [applied EXCEPT ![l] = Append(@, next)]
    BY <1>6, <2>3 DEF ApplyMigration
  <2> HIDE DEF next
  <2>5. /\ procs'[p] = [pc |-> l, seen |-> next]
        /\ \A q \in Processes : q # p => procs'[q] = procs[q]
        /\ procs' = [q \in Processes |-> procs'[q]]
    BY <1>1, <1>4, <2>4 DEF ProcsAreProcs
  <2>6. next \in Int
    BY <1>3, <2>3
  <2>7. /\ applied' = [m \in {"runs", "cache"} |-> applied'[m]]
        /\ applied'[l] = Append(applied[l], next)
        /\ \A m \in {"runs", "cache"} : m # l => applied'[m] = applied[m]
    BY <1>1, <2>4 DEF ProcsAreProcs
  <2>8. Len(applied'[l]) = next /\ applied'[l] \in Seq(Int)
    BY <1>3, <2>3, <2>6, <2>7
  <2>9. ProcsAreProcs'
    BY <1>1, <2>5, <2>7, <2>8 DEF ProcsAreProcs
  <2> QED BY <1>1, <1>2, <2>4, <2>5, <2>8, <2>9 DEF LockInv, Migrating
<1> QED BY <1>5, <1>6

LEMMA LockInvKeeps == LockInv /\ MoveNext => LockInv'
<1> SUFFICES ASSUME LockInv, MoveNext PROVE LockInv'
  OBVIOUS
<1>0. "move" \in Processes /\ "server" \in Processes
  BY DEF Processes
<1>1. ASSUME NEW p \in Processes, TakeLock(p) PROVE LockInv'
  BY <1>1, GoingKeepsLock DEF TakeLock, LockIsFree
<1>2. ASSUME NEW p \in Processes, LedgerIsUpToDate(p) PROVE LockInv'
  <2>1. Migrating(p) /\ lock = {p}
    BY <1>2, LedgersAre DEF LedgerIsUpToDate, LockInv, Migrating
  <2> QED BY <1>2, <2>1, GoingKeepsLock DEF LedgerIsUpToDate
<1>3. ASSUME NEW p \in Processes, Crash(p) PROVE LockInv'
  BY <1>3, GoingKeepsLock DEF Crash
<1>4. CASE CheckEmpty
  <2>1. ~Migrating("move")
    BY <1>4 DEF CheckEmpty, Migrating
  <2> QED BY <1>0, <1>4, <2>1, GoingKeepsLock DEF CheckEmpty
<1>5. ASSUME UNCHANGED <<lock, applied, procs>> PROVE LockInv'
  BY <1>5 DEF LockInv, ProcsAreProcs, Migrating
<1>6. CASE CopyBatch
  <2>1. ~Migrating("move") /\ lock' = lock /\ applied' = applied
    BY <1>6 DEF CopyBatch, Migrating
  <2>2. procs' = procs \/ Goto("move", "failed")
    BY <1>6 DEF CopyBatch
  <2> QED BY <1>0, <1>5, <2>1, <2>2, GoingKeepsLock
<1>7. CASE verify_counts
  <2>1. ~Migrating("move") /\ lock' = lock /\ applied' = applied
    BY <1>7 DEF verify_counts, Migrating
  <2>2. procs' = procs \/ Goto("move", "failed") \/ Goto("move", "copied")
    BY <1>7 DEF verify_counts
  <2> QED BY <1>0, <1>5, <2>1, <2>2, GoingKeepsLock
<1>8. CASE ServerIngests \/ ServerCaches
  BY <1>5, <1>8 DEF ServerIngests, ServerCaches
<1> QED BY <1>1, <1>2, <1>3, <1>4, <1>6, <1>7, <1>8, AppliesKeep DEF MoveNext

-----------------------------------------------------------------------------
\* The tables, in the order they are copied in.
LEMMA TablesAre ==
  /\ Len(Tables) = 8 /\ DOMAIN Tables = 1 .. 8
  /\ Tables[1] = "runs" /\ Tables[2] = "cases" /\ Tables[3] = "runs_fts" /\ Tables[4] = "users"
  /\ Tables[5] = "sessions" /\ Tables[6] = "cache_entries" /\ Tables[7] = "cache_counters"
  /\ Tables[8] = "cache_entries_fts"
  BY DEF Tables

LEMMA TablesDiffer ==
  ASSUME NEW i \in 1 .. 8, NEW j \in 1 .. 8, Tables[i] = Tables[j]
  PROVE  i = j
<1>1. i \in {1, 2, 3, 4, 5, 6, 7, 8} /\ j \in {1, 2, 3, 4, 5, 6, 7, 8}
  OBVIOUS
<1> QED BY <1>1, TablesAre

TableNames == {Tables[i] : i \in 1 .. 8}

\* What is to be copied stands still while it is copied.
LEMMA SourceStands ==
  ASSUME kept' = kept, NEW t
  PROVE  source(t)' = source(t)
  BY DEF source

LEMMA SourceOfEntries ==
  /\ source("cache_entries") = DOMAIN SourceRows
  /\ source("cache_entries_fts") = DOMAIN SourceRows
  /\ source("cache_counters") = {"counted"}
  BY DEF source

\* An entry has an id of its own, and a text that stands under it is its text.
IdsAreOwn ==
    /\ lastId \in Nat /\ DOMAIN ids = target["cache_entries"]
    /\ \A k \in DOMAIN ids : ids[k] \in 1 .. lastId
    /\ \A j, k \in DOMAIN ids : ids[j] = ids[k] => j = k
    /\ DOMAIN texts \subseteq 1 .. lastId
    /\ \A k \in DOMAIN ids : ids[k] \in DOMAIN texts => texts[ids[k]] = k
    /\ \A k \in target["cache_entries_fts"] : k \in DOMAIN ids /\ ids[k] \in DOMAIN texts

\* New entries take ids that nobody had, and a text may come with its entry.
LEMMA NewIds ==
  ASSUME IdsAreOwn, NEW new, NEW n \in Nat,
         DOMAIN new \cap DOMAIN ids = {},
         \A k \in DOMAIN new : new[k] \in lastId + 1 .. lastId + n,
         \A j, k \in DOMAIN new : new[j] = new[k] => j = k
  PROVE  /\ DOMAIN Merged(ids, new) = DOMAIN ids \cup DOMAIN new
         /\ \A k \in DOMAIN ids : Merged(ids, new)[k] = ids[k]
         /\ \A k \in DOMAIN new : Merged(ids, new)[k] = new[k]
         /\ \A k \in DOMAIN Merged(ids, new) : Merged(ids, new)[k] \in 1 .. lastId + n
         /\ \A j, k \in DOMAIN Merged(ids, new) : Merged(ids, new)[j] = Merged(ids, new)[k] => j = k
         /\ \A k \in DOMAIN new : Merged(ids, new)[k] \notin DOMAIN texts
<1> DEFINE m == Merged(ids, new)
<1>1. /\ DOMAIN m = DOMAIN ids \cup DOMAIN new
      /\ \A k \in DOMAIN ids : m[k] = ids[k]
      /\ \A k \in DOMAIN new : m[k] = new[k]
  BY DEF Merged
<1> HIDE DEF m
<1>2. /\ \A k \in DOMAIN ids : m[k] \in 1 .. lastId
      /\ \A k \in DOMAIN new : m[k] \in lastId + 1 .. lastId + n
      /\ lastId \in Nat
  BY <1>1 DEF IdsAreOwn
<1>3. \A k \in DOMAIN m : m[k] \in 1 .. lastId + n
  BY <1>1, <1>2
<1>4. ASSUME NEW j \in DOMAIN m, NEW k \in DOMAIN m, m[j] = m[k] PROVE j = k
  <2>1. CASE j \in DOMAIN ids /\ k \in DOMAIN ids
    BY <1>1, <1>4, <2>1 DEF IdsAreOwn
  <2>2. CASE j \in DOMAIN new /\ k \in DOMAIN new
    BY <1>1, <1>4, <2>2
  <2>3. ASSUME NEW a \in DOMAIN ids, NEW b \in DOMAIN new PROVE m[a] # m[b]
    <3>1. m[a] \in 1 .. lastId /\ m[b] \in lastId + 1 .. lastId + n
      BY <1>2
    <3> QED BY <1>2, <3>1
  <2> QED BY <1>1, <1>4, <2>1, <2>2, <2>3
<1>5. ASSUME NEW k \in DOMAIN new PROVE m[k] \notin DOMAIN texts
  <2>1. m[k] \in lastId + 1 .. lastId + n /\ DOMAIN texts \subseteq 1 .. lastId
    BY <1>2 DEF IdsAreOwn
  <2> QED BY <1>2, <2>1
<1> QED BY <1>1, <1>3, <1>4, <1>5 DEF m

-----------------------------------------------------------------------------
\* How far the copy is.
CopiedUpTo(n) == \A i \in 1 .. 8 : i < n => source(Tables[i]) \subseteq target[Tables[i]]
CopyInv ==
    /\ procs["move"].pc = "copy" =>
         /\ copying.table \in 1 .. 8 /\ CopiedUpTo(copying.table)
         /\ copying.rows \subseteq source(Tables[copying.table])
         /\ source(Tables[copying.table]) \ copying.rows \subseteq target[Tables[copying.table]]
    /\ procs["move"].pc = "copied" => CopiedUpTo(9)
TargetInv ==
    /\ target = [t \in TableNames |-> target[t]]
    /\ copying = [table |-> copying.table, rows |-> copying.rows]
    /\ IdsAreOwn /\ CopyInv

\* Rows only come, outside the copy of the counters.
LEMMA RowsCome ==
  ASSUME TargetInv, kept' = kept, procs'["move"] = procs["move"], copying' = copying,
         target' = [t \in TableNames |-> target'[t]],
         \A t \in TableNames : target[t] \subseteq target'[t],
         IdsAreOwn'
  PROVE  TargetInv'
<1>1. ASSUME NEW n, CopiedUpTo(n) PROVE CopiedUpTo(n)'
  BY <1>1, SourceStands DEF CopiedUpTo, TableNames
<1>2. copying.table \in 1 .. 8 => target[Tables[copying.table]] \subseteq target'[Tables[copying.table]]
  BY DEF TableNames
<1>3. CopyInv'
  BY <1>1, <1>2, SourceStands DEF TargetInv, CopyInv
<1> QED BY <1>3 DEF TargetInv

\* The command goes where nothing is said of the rows.
LEMMA GoesElsewhere ==
  ASSUME TargetInv, procs'["move"].pc \notin {"copy", "copied"},
         UNCHANGED <<copying, target, ids, texts, lastId>>
  PROVE  TargetInv'
  BY DEF TargetInv, CopyInv, IdsAreOwn

LEMMA ServerKeeps ==
  ASSUME TargetInv, kept' = kept, ServerIngests \/ ServerCaches
  PROVE  TargetInv'
<1>1. {"runs", "runs_fts", "cache_entries", "cache_entries_fts"} \subseteq TableNames
  BY TablesAre DEF TableNames
<1>2. CASE ServerIngests
  <2>1. /\ target' = [target EXCEPT !["runs"] = @ \cup {"new"}, !["runs_fts"] = @ \cup {"new"}]
        /\ UNCHANGED <<procs, copying, ids, texts, lastId>>
    BY <1>2 DEF ServerIngests
  <2>2. /\ target' = [t \in TableNames |-> target'[t]]
        /\ \A t \in TableNames : target[t] \subseteq target'[t]
        /\ target'["cache_entries"] = target["cache_entries"]
        /\ target'["cache_entries_fts"] = target["cache_entries_fts"]
    BY <1>1, <2>1 DEF TargetInv
  <2>3. IdsAreOwn'
    BY <2>1, <2>2 DEF TargetInv, IdsAreOwn
  <2> QED BY <2>1, <2>2, <2>3, RowsCome
<1>3. CASE ServerCaches
  <2>1. PICK k \in Keys \ target["cache_entries"] :
         /\ target' = [target EXCEPT !["cache_entries"] = @ \cup {k},
                                     !["cache_entries_fts"] = @ \cup {k}]
         /\ ids' = Merged(ids, [j \in {k} |-> lastId + 1])
         /\ texts' = Merged(texts, [i \in {lastId + 1} |-> k])
         /\ lastId' = lastId + 1
    BY <1>3 DEF ServerCaches
  <2>2. procs' = procs /\ copying' = copying
    BY <1>3 DEF ServerCaches
  <2>3. /\ target' = [t \in TableNames |-> target'[t]]
        /\ \A t \in TableNames : target[t] \subseteq target'[t]
        /\ target'["cache_entries"] = target["cache_entries"] \cup {k}
        /\ target'["cache_entries_fts"] = target["cache_entries_fts"] \cup {k}
    BY <1>1, <2>1 DEF TargetInv
  <2> DEFINE new == [j \in {k} |-> lastId + 1]
             text == [i \in {lastId + 1} |-> k]
  <2>4. IdsAreOwn /\ lastId \in Nat
    BY DEF TargetInv, IdsAreOwn
  <2>5. DOMAIN new = {k} /\ new[k] = lastId + 1 /\ k \notin DOMAIN ids
    BY <2>4 DEF IdsAreOwn
  <2>6. /\ DOMAIN text = {lastId + 1} /\ text[lastId + 1] = k
        /\ DOMAIN texts' = DOMAIN texts \cup {lastId + 1}
        /\ \A i \in DOMAIN texts : texts'[i] = texts[i]
        /\ lastId + 1 \notin DOMAIN texts => texts'[lastId + 1] = k
    BY <2>1 DEF Merged
  <2>7. ids' = Merged(ids, new)
    BY <2>1
  <2> HIDE DEF new, text
  <2>8. /\ DOMAIN ids' = DOMAIN ids \cup {k} /\ \A j \in DOMAIN ids : ids'[j] = ids[j]
        /\ ids'[k] = lastId + 1
        /\ \A j \in DOMAIN ids' : ids'[j] \in 1 .. lastId + 1
        /\ \A i, j \in DOMAIN ids' : ids'[i] = ids'[j] => i = j
        /\ lastId + 1 \notin DOMAIN texts
    <3>1. \A j \in DOMAIN new : new[j] \in lastId + 1 .. lastId + 1
      BY <2>4, <2>5
    <3>2. DOMAIN new \cap DOMAIN ids = {} /\ \A i, j \in DOMAIN new : new[i] = new[j] => i = j
      BY <2>5
    <3>3. 1 \in Nat
      OBVIOUS
    <3>4. /\ DOMAIN Merged(ids, new) = DOMAIN ids \cup DOMAIN new
          /\ \A j \in DOMAIN ids : Merged(ids, new)[j] = ids[j]
          /\ \A j \in DOMAIN new : Merged(ids, new)[j] = new[j]
          /\ \A j \in DOMAIN Merged(ids, new) : Merged(ids, new)[j] \in 1 .. lastId + 1
          /\ \A i, j \in DOMAIN Merged(ids, new) : Merged(ids, new)[i] = Merged(ids, new)[j] => i = j
          /\ \A j \in DOMAIN new : Merged(ids, new)[j] \notin DOMAIN texts
      BY <2>4, <3>1, <3>2, <3>3, NewIds
    <3>5. ids'[k] = lastId + 1 /\ ids'[k] \notin DOMAIN texts
      BY <2>5, <2>7, <3>4
    <3> QED BY <2>5, <2>7, <3>4, <3>5
  <2>9. IdsAreOwn'
    <3>1. lastId' \in Nat /\ DOMAIN ids' = target'["cache_entries"]
      <4>1. lastId' \in Nat
        BY <2>1, <2>4
      <4>2. DOMAIN ids = target["cache_entries"]
        BY <2>4 DEF IdsAreOwn
      <4> QED BY <2>3, <2>8, <4>1, <4>2
    <3>2. DOMAIN texts' \subseteq 1 .. lastId'
      <4>1. DOMAIN texts \subseteq 1 .. lastId
        BY <2>4 DEF IdsAreOwn
      <4> QED BY <2>1, <2>4, <2>6, <4>1
    <3>3. ASSUME NEW j \in DOMAIN ids', ids'[j] \in DOMAIN texts'
          PROVE  texts'[ids'[j]] = j
      <4>1. CASE j = k
        BY <2>6, <2>8, <4>1
      <4>2. CASE j # k
        <5>1. j \in DOMAIN ids /\ ids'[j] = ids[j] /\ ids[j] \in 1 .. lastId
          BY <2>4, <2>8, <4>2 DEF IdsAreOwn
        <5>2. ids[j] # lastId + 1
          BY <2>4, <5>1
        <5>3. ids[j] \in DOMAIN texts
          BY <2>6, <3>3, <5>1, <5>2
        <5> QED BY <2>4, <2>6, <5>1, <5>3 DEF IdsAreOwn
      <4> QED BY <4>1, <4>2
    <3>4. \A j \in target'["cache_entries_fts"] : j \in DOMAIN ids' /\ ids'[j] \in DOMAIN texts'
      BY <2>3, <2>4, <2>6, <2>8 DEF IdsAreOwn
    <3> QED BY <2>1, <2>8, <3>1, <3>2, <3>3, <3>4 DEF IdsAreOwn
  <2> QED BY <2>2, <2>3, <2>9, RowsCome
<1> QED BY <1>2, <1>3

\* Nothing is copied, and the command stays or goes where nothing is said of the rows.
LEMMA NothingCopied ==
  ASSUME TargetInv, kept' = kept, UNCHANGED <<copying, target, ids, texts, lastId>>,
         procs'["move"].pc = procs["move"].pc \/ procs'["move"].pc \notin {"copy", "copied"}
  PROVE  TargetInv'
<1>1. ASSUME NEW n, CopiedUpTo(n) PROVE CopiedUpTo(n)'
  BY <1>1, SourceStands DEF CopiedUpTo
<1>2. CopyInv'
  BY <1>1, SourceStands DEF TargetInv, CopyInv
<1> QED BY <1>2 DEF TargetInv, IdsAreOwn

LEMMA ProcessKeeps ==
  ASSUME TargetInv, LockInv, kept' = kept, NEW p \in Processes,
         TakeLock(p) \/ ReadVersion(p) \/ ApplyMigration(p) \/ LedgerIsUpToDate(p) \/ Crash(p)
  PROVE  TargetInv'
<1>1. UNCHANGED <<copying, target, ids, texts, lastId>>
  BY DEF TakeLock, ReadVersion, ApplyMigration, LedgerIsUpToDate, Crash
<1>2. "move" \in Processes /\ ProcsAreProcs
  BY DEF Processes, LockInv
<1>3. ASSUME NEW pc, Goto(p, pc), pc \notin {"copy", "copied"} PROVE TargetInv'
  <2>1. procs'[p].pc = pc /\ \A q \in Processes : q # p => procs'[q] = procs[q]
    BY <1>2, <1>3, GoesTo
  <2>2. CASE p = "move"
    BY <1>1, <1>3, <2>1, <2>2, NothingCopied
  <2>3. CASE p # "move"
    BY <1>1, <1>2, <2>1, <2>3, NothingCopied
  <2> QED BY <2>2, <2>3
<1>4. CASE ReadVersion(p) \/ ApplyMigration(p)
  BY <1>1, <1>2, <1>4, AppliesKeep, NothingCopied
<1>5. CASE TakeLock(p) \/ Crash(p)
  BY <1>3, <1>5 DEF TakeLock, Crash
<1>6. CASE LedgerIsUpToDate(p)
  BY <1>3, <1>6 DEF LedgerIsUpToDate
<1> QED BY <1>4, <1>5, <1>6

LEMMA CheckKeeps ==
  ASSUME TargetInv, LockInv, kept' = kept, CheckEmpty
  PROVE  TargetInv'
<1>1. "move" \in Processes /\ ProcsAreProcs /\ UNCHANGED <<target, ids, texts, lastId>>
  BY DEF Processes, LockInv, CheckEmpty
<1>2. CASE Goto("move", "refused") /\ UNCHANGED copying
  <2>1. procs'["move"].pc = "refused"
    BY <1>1, <1>2, GoesTo
  <2> QED BY <1>1, <1>2, <2>1, NothingCopied
<1>3. CASE Goto("move", "copy") /\ copying' = [table |-> 1, rows |-> source(Tables[1])]
  <2>1. procs'["move"].pc = "copy"
    BY <1>1, <1>3, GoesTo
  <2>2. copying'.table = 1 /\ copying'.rows = source(Tables[1]) /\ 1 \in 1 .. 8
        /\ copying' = [table |-> copying'.table, rows |-> copying'.rows]
    BY <1>3
  <2>3. CopiedUpTo(1)'
    BY DEF CopiedUpTo
  <2>4. source(Tables[1])' = source(Tables[1])
    BY SourceStands
  <2>5. CopyInv'
    BY <2>1, <2>2, <2>3, <2>4 DEF CopyInv
  <2> QED BY <1>1, <2>2, <2>5 DEF TargetInv, IdsAreOwn
<1> QED BY <1>2, <1>3 DEF CheckEmpty

LEMMA CountsKeep ==
  ASSUME TargetInv, LockInv, kept' = kept, verify_counts
  PROVE  TargetInv'
<1>0. PICK n : n = copying.table
  OBVIOUS
<1>1. /\ "move" \in Processes /\ ProcsAreProcs /\ UNCHANGED <<target, ids, texts, lastId>>
      /\ procs["move"].pc = "copy" /\ copying.rows = {}
  BY DEF Processes, LockInv, verify_counts
<1>2. n \in 1 .. 8 /\ CopiedUpTo(n + 1)
  <2>1. n \in 1 .. 8 /\ CopiedUpTo(n) /\ source(Tables[n]) \subseteq target[Tables[n]]
    BY <1>0, <1>1 DEF TargetInv, CopyInv
  <2>2. \A i \in 1 .. 8 : i < n + 1 => i < n \/ i = n
    BY <2>1
  <2> QED BY <2>1, <2>2 DEF CopiedUpTo
<1>3. CopiedUpTo(n + 1)'
  BY <1>1, <1>2, SourceStands DEF CopiedUpTo
<1>4. CASE Goto("move", "failed") /\ UNCHANGED copying
  <2>1. procs'["move"].pc = "failed"
    BY <1>1, <1>4, GoesTo
  <2> QED BY <1>1, <1>4, <2>1, NothingCopied
<1>5. CASE n = Len(Tables) /\ Goto("move", "copied") /\ UNCHANGED copying
  <2>1. procs'["move"].pc = "copied" /\ n + 1 = 9
    <3>1. procs'["move"].pc = "copied"
      BY <1>1, <1>5, GoesTo
    <3>2. n = 8
      BY <1>5, TablesAre
    <3> QED BY <3>1, <3>2
  <2>2. CopyInv'
    BY <1>3, <2>1 DEF CopyInv
  <2> QED BY <1>1, <1>5, <2>2 DEF TargetInv, IdsAreOwn
<1>6. CASE /\ n # Len(Tables) /\ UNCHANGED procs
           /\ copying' = [table |-> n + 1, rows |-> source(Tables[n + 1])]
  <2>1. procs'["move"].pc = "copy" /\ n + 1 \in 1 .. 8
    BY <1>1, <1>2, <1>6, TablesAre
  <2>2. copying'.table = n + 1 /\ copying'.rows = source(Tables[n + 1])
        /\ copying' = [table |-> copying'.table, rows |-> copying'.rows]
    BY <1>6
  <2>3. source(Tables[n + 1])' = source(Tables[n + 1])
    BY SourceStands
  <2>4. CopyInv'
    BY <1>3, <2>1, <2>2, <2>3 DEF CopyInv
  <2> QED BY <1>1, <2>2, <2>4 DEF TargetInv, IdsAreOwn
<1> QED BY <1>0, <1>4, <1>5, <1>6 DEF verify_counts

\* A batch of rows is copied: what it does to the table, ...
LEMMA BatchComes ==
  ASSUME TargetInv, kept' = kept, procs["move"].pc = "copy",
         NEW rows \in SUBSET copying.rows,
         Tables[copying.table] = "cache_counters" => rows # {},
         target' = [target EXCEPT ![Tables[copying.table]] =
                      IF Tables[copying.table] = "cache_counters" THEN rows ELSE @ \cup rows],
         copying' = [copying EXCEPT !.rows = @ \ rows], procs' = procs
  PROVE  /\ CopyInv' /\ target' = [t \in TableNames |-> target'[t]]
         /\ copying' = [table |-> copying'.table, rows |-> copying'.rows]
         /\ \A t \in TableNames :
              t # Tables[copying.table] => target'[t] = target[t]
         /\ Tables[copying.table] # "cache_counters" =>
              target'[Tables[copying.table]] = target[Tables[copying.table]] \cup rows
<1>0. PICK n : n = copying.table
  OBVIOUS
<1> DEFINE T == Tables[n]
<1>1. /\ n \in 1 .. 8 /\ CopiedUpTo(n) /\ copying.rows \subseteq source(T)
      /\ source(T) \ copying.rows \subseteq target[T]
  BY <1>0 DEF TargetInv, CopyInv
<1>2. T \in TableNames /\ target = [t \in TableNames |-> target[t]]
  BY <1>1 DEF TableNames, TargetInv
<1>3. copying'.table = n /\ copying'.rows = copying.rows \ rows
      /\ copying' = [table |-> copying'.table, rows |-> copying'.rows]
  BY <1>0 DEF TargetInv
<1>4. /\ target' = [t \in TableNames |-> target'[t]]
      /\ \A t \in TableNames : t # T => target'[t] = target[t]
      /\ T # "cache_counters" => target'[T] = target[T] \cup rows
      /\ T = "cache_counters" => target'[T] = rows
  BY <1>0, <1>2
<1>5. CopiedUpTo(n)'
  <2> SUFFICES ASSUME NEW i \in 1 .. 8, i < n PROVE source(Tables[i])' \subseteq target'[Tables[i]]
    BY DEF CopiedUpTo
  <2>1. Tables[i] # T /\ Tables[i] \in TableNames
    BY <1>1, TablesDiffer DEF TableNames
  <2>2. source(Tables[i]) \subseteq target[Tables[i]]
    BY <1>1 DEF CopiedUpTo
  <2>3. source(Tables[i])' = source(Tables[i])
    BY SourceStands
  <2> HIDE DEF T
  <2> QED BY <1>4, <2>1, <2>2, <2>3
<1>6. source(T) \ copying'.rows \subseteq target'[T]
  <2> HIDE DEF T
  <2>1. CASE T # "cache_counters"
    BY <1>1, <1>3, <1>4, <2>1
  <2>2. CASE T = "cache_counters"
    <3>1. source(T) = {"counted"}
      BY <2>2, SourceOfEntries
    <3>2. rows # {}
      BY <1>0, <2>2 DEF T
    <3> QED BY <1>1, <1>3, <1>0, <1>4, <2>2, <3>1, <3>2
  <2> QED BY <2>1, <2>2
<1>7. source(T)' = source(T)
  BY SourceStands
<1> HIDE DEF T
<1>8. CopyInv'
  BY <1>1, <1>3, <1>5, <1>6, <1>7 DEF CopyInv, T
<1> QED BY <1>0, <1>3, <1>4, <1>8 DEF T

\* ... and that an entry has an id of its own.
LEMMA EntriesComeWithIds ==
  ASSUME IdsAreOwn, NEW rows \in SUBSET DOMAIN SourceRows, rows \cap target["cache_entries"] = {},
         target'["cache_entries"] = target["cache_entries"] \cup rows,
         target'["cache_entries_fts"] = target["cache_entries_fts"],
         NEW f \in Numberings(rows), ids' = Merged(ids, f), lastId' = lastId + Cardinality(rows),
         texts' = texts
  PROVE  IdsAreOwn'
<1> DEFINE n == Cardinality(rows)
<1>1. n \in Nat
  BY MoveAssumption, FS_Subset, FS_CardinalityType
<1> HIDE DEF n
<1>2. /\ DOMAIN f = rows /\ \A k \in rows : f[k] \in lastId + 1 .. lastId + n
      /\ \A j, k \in rows : f[j] = f[k] => j = k
  BY DEF Numberings, n
<1>3. lastId \in Nat /\ DOMAIN ids = target["cache_entries"]
  BY DEF IdsAreOwn
<1>4. DOMAIN f \cap DOMAIN ids = {}
  BY <1>2, <1>3
<1>5. /\ DOMAIN ids' = DOMAIN ids \cup rows
      /\ \A k \in DOMAIN ids : ids'[k] = ids[k]
      /\ \A k \in DOMAIN ids' : ids'[k] \in 1 .. lastId + n
      /\ \A j, k \in DOMAIN ids' : ids'[j] = ids'[k] => j = k
      /\ \A k \in rows : ids'[k] \notin DOMAIN texts
  <2>1. /\ DOMAIN Merged(ids, f) = DOMAIN ids \cup DOMAIN f
        /\ \A k \in DOMAIN ids : Merged(ids, f)[k] = ids[k]
        /\ \A k \in DOMAIN Merged(ids, f) : Merged(ids, f)[k] \in 1 .. lastId + n
        /\ \A j, k \in DOMAIN Merged(ids, f) : Merged(ids, f)[j] = Merged(ids, f)[k] => j = k
        /\ \A k \in DOMAIN f : Merged(ids, f)[k] \notin DOMAIN texts
    BY <1>1, <1>2, <1>4, NewIds
  <2> QED BY <1>2, <2>1
<1>6. lastId' = lastId + n /\ lastId' \in Nat
  BY <1>1, <1>3 DEF n
<1>7. DOMAIN texts' \subseteq 1 .. lastId'
  BY <1>1, <1>3, <1>6 DEF IdsAreOwn
<1>8. \A k \in DOMAIN ids' : ids'[k] \in DOMAIN texts' => texts'[ids'[k]] = k
  BY <1>5 DEF IdsAreOwn
<1>9. \A k \in target'["cache_entries_fts"] : k \in DOMAIN ids' /\ ids'[k] \in DOMAIN texts'
  BY <1>5 DEF IdsAreOwn
<1> QED BY <1>3, <1>5, <1>6, <1>7, <1>8, <1>9 DEF IdsAreOwn

\* A search text is copied under the new id of its entry, which is there.
LEMMA TextsComeUnderIds ==
  ASSUME IdsAreOwn, NEW rows \in SUBSET DOMAIN ids,
         target'["cache_entries"] = target["cache_entries"],
         target'["cache_entries_fts"] = target["cache_entries_fts"] \cup rows,
         texts' = Merged(texts, [i \in {key_to_id(k) : k \in rows} |->
                                   CHOOSE k \in rows : key_to_id(k) = i]),
         ids' = ids, lastId' = lastId
  PROVE  IdsAreOwn'
<1> DEFINE new == [i \in {ids[k] : k \in rows} |-> CHOOSE k \in rows : ids[k] = i]
<1>1. texts' = Merged(texts, new)
  BY DEF key_to_id
<1>2. /\ DOMAIN new = {ids[k] : k \in rows}
      /\ \A k \in rows : new[ids[k]] \in rows /\ ids[new[ids[k]]] = ids[k]
  OBVIOUS
<1>3. \A k \in rows : new[ids[k]] = k
  BY <1>2 DEF IdsAreOwn
<1> HIDE DEF new
<1>4. /\ DOMAIN texts' = DOMAIN texts \cup DOMAIN new
      /\ \A i \in DOMAIN texts : texts'[i] = texts[i]
      /\ \A i \in DOMAIN new : i \notin DOMAIN texts => texts'[i] = new[i]
  BY <1>1 DEF Merged
<1>5. \A k \in DOMAIN ids : ids[k] \in DOMAIN new => k \in rows
  BY <1>2 DEF IdsAreOwn
<1>6. \A k \in DOMAIN ids : ids[k] \in DOMAIN texts' => texts'[ids[k]] = k
  BY <1>3, <1>4, <1>5 DEF IdsAreOwn
<1>7. DOMAIN texts' \subseteq 1 .. lastId
  <2>1. DOMAIN new \subseteq 1 .. lastId
    BY <1>2 DEF IdsAreOwn
  <2>2. DOMAIN texts \subseteq 1 .. lastId
    BY DEF IdsAreOwn
  <2> QED BY <1>4, <2>1, <2>2
<1>8. \A k \in target'["cache_entries_fts"] : k \in DOMAIN ids /\ ids[k] \in DOMAIN texts'
  BY <1>2, <1>4 DEF IdsAreOwn
<1> QED BY <1>6, <1>7, <1>8 DEF IdsAreOwn

LEMMA BatchKeeps ==
  ASSUME TargetInv, LockInv, kept' = kept, CopyBatch
  PROVE  TargetInv'
<1>0. PICK n : n = copying.table
  OBVIOUS
<1> DEFINE T == Tables[n]
<1>1. /\ "move" \in Processes /\ ProcsAreProcs /\ procs["move"].pc = "copy"
      /\ copying.rows # {}
  BY DEF Processes, LockInv, CopyBatch
<1>2. /\ n \in 1 .. 8 /\ CopiedUpTo(n) /\ copying.rows \subseteq source(T) /\ IdsAreOwn
  BY <1>0, <1>1 DEF TargetInv, CopyInv
<1>3. PICK rows \in ChunksOf(copying.rows, Batch) :
            IF rows \cap target[T] # {} \/ ~Parents(T, rows)
            THEN Goto("move", "failed") /\ UNCHANGED <<copying, target, ids, texts, lastId>>
            ELSE /\ copying' = [copying EXCEPT !.rows = @ \ rows]
                 /\ target' = [target EXCEPT ![T] =
                        IF T = "cache_counters" THEN rows ELSE @ \cup rows]
                 /\ IF T = "cache_entries"
                    THEN /\ \E f \in Numberings(rows) : ids' = Merged(ids, f)
                         /\ lastId' = lastId + Cardinality(rows)
                    ELSE UNCHANGED <<ids, lastId>>
                 /\ texts' = IF T = "cache_entries_fts"
                             THEN Merged(texts, [i \in {key_to_id(k) : k \in rows} |->
                                                CHOOSE k \in rows : key_to_id(k) = i])
                             ELSE texts
                 /\ UNCHANGED procs
  BY <1>0 DEF CopyBatch
<1>4. CASE Goto("move", "failed") /\ UNCHANGED <<copying, target, ids, texts, lastId>>
  <2>1. procs'["move"].pc = "failed"
    BY <1>1, <1>4, GoesTo
  <2> QED BY <1>4, <2>1, NothingCopied
<1>5. ASSUME rows \cap target[T] = {},
             copying' = [copying EXCEPT !.rows = @ \ rows],
             target' = [target EXCEPT ![T] = IF T = "cache_counters" THEN rows ELSE @ \cup rows],
             IF T = "cache_entries"
             THEN /\ \E f \in Numberings(rows) : ids' = Merged(ids, f)
                  /\ lastId' = lastId + Cardinality(rows)
             ELSE UNCHANGED <<ids, lastId>>,
             texts' = IF T = "cache_entries_fts"
                      THEN Merged(texts, [i \in {key_to_id(k) : k \in rows} |->
                                                CHOOSE k \in rows : key_to_id(k) = i])
                      ELSE texts,
             procs' = procs
      PROVE  TargetInv'
  <2>1. rows \in SUBSET copying.rows
    BY DEF ChunksOf
  <2>2. T = "cache_counters" => rows # {}
    <3> SUFFICES ASSUME T = "cache_counters", rows = {} PROVE FALSE
      OBVIOUS
    <3>1. copying.rows = {"counted"}
      BY <1>1, <1>2, SourceOfEntries
    <3>2. Cardinality(copying.rows) = 1 /\ Cardinality(rows) = 0
      BY <3>1, FS_Singleton, FS_EmptySet
    <3>3. Cardinality(rows) \in {1, Batch}
      BY <3>2 DEF ChunksOf
    <3> QED BY <3>2, <3>3, MoveAssumption
  <2>3. /\ CopyInv' /\ target' = [t \in TableNames |-> target'[t]]
        /\ copying' = [table |-> copying'.table, rows |-> copying'.rows]
        /\ \A t \in TableNames : t # T => target'[t] = target[t]
        /\ T # "cache_counters" => target'[T] = target[T] \cup rows
    BY <1>0, <1>1, <1>5, <2>1, <2>2, BatchComes
  <2>4. "cache_entries" \in TableNames /\ "cache_entries_fts" \in TableNames
    BY TablesAre DEF TableNames
  <2> HIDE DEF T
  <2>5. CASE T = "cache_entries"
    <3>1. PICK f \in Numberings(rows) : ids' = Merged(ids, f)
      BY <1>5, <2>5
    <3>2. /\ rows \in SUBSET DOMAIN SourceRows /\ texts' = texts
          /\ lastId' = lastId + Cardinality(rows) /\ rows \cap target["cache_entries"] = {}
      BY <1>2, <1>5, <2>1, <2>5, SourceOfEntries
    <3>3. /\ target'["cache_entries"] = target["cache_entries"] \cup rows
          /\ target'["cache_entries_fts"] = target["cache_entries_fts"]
      BY <2>3, <2>4, <2>5
    <3>4. IdsAreOwn'
      BY <1>2, <3>1, <3>2, <3>3, EntriesComeWithIds
    <3> QED BY <2>3, <3>4 DEF TargetInv
  <2>6. CASE T = "cache_entries_fts"
    <3>1. n = 8
      BY <1>2, <2>6, TablesAre, TablesDiffer DEF T
    <3>2. DOMAIN SourceRows \subseteq DOMAIN ids
      <4>1. source(Tables[6]) \subseteq target[Tables[6]]
        BY <1>2, <3>1 DEF CopiedUpTo
      <4> QED BY <1>2, <4>1, TablesAre, SourceOfEntries DEF IdsAreOwn
    <3>3. rows \in SUBSET DOMAIN ids
      BY <1>2, <2>1, <2>6, <3>2, SourceOfEntries
    <3>4. /\ target'["cache_entries"] = target["cache_entries"]
          /\ target'["cache_entries_fts"] = target["cache_entries_fts"] \cup rows
      BY <2>3, <2>4, <2>6
    <3>5. /\ ids' = ids /\ lastId' = lastId
          /\ texts' = Merged(texts, [i \in {key_to_id(k) : k \in rows} |->
                                                CHOOSE k \in rows : key_to_id(k) = i])
      BY <1>5, <2>6
    <3>6. IdsAreOwn'
      BY <1>2, <3>3, <3>4, <3>5, TextsComeUnderIds
    <3> QED BY <2>3, <3>6 DEF TargetInv
  <2>7. CASE T \notin {"cache_entries", "cache_entries_fts"}
    <3>1. /\ ids' = ids /\ lastId' = lastId /\ texts' = texts
          /\ target'["cache_entries"] = target["cache_entries"]
          /\ target'["cache_entries_fts"] = target["cache_entries_fts"]
      BY <1>5, <2>3, <2>4, <2>7
    <3>2. IdsAreOwn'
      BY <1>2, <3>1 DEF IdsAreOwn
    <3> QED BY <2>3, <3>2 DEF TargetInv
  <2> QED BY <2>5, <2>6, <2>7
<1> HIDE DEF T
<1> QED BY <1>3, <1>4, <1>5

-----------------------------------------------------------------------------
LEMMA TargetInvKeeps == TargetInv /\ LockInv /\ kept' = kept /\ MoveNext => TargetInv'
  BY ProcessKeeps, CheckKeeps, BatchKeeps, CountsKeep, ServerKeeps DEF MoveNext

LEMMA MoveInitInv == MoveInit => LockInv /\ TargetInv
<1> SUFFICES ASSUME MoveInit PROVE LockInv /\ TargetInv
  OBVIOUS
<1>1. /\ \A p \in Processes : procs[p] = [pc |-> "start", seen |-> NotRead]
      /\ procs = [p \in Processes |-> procs[p]] /\ "move" \in Processes
  BY DEF MoveInit, Processes
<1>2. /\ \A l \in {"runs", "cache"} : applied[l] = <<>>
      /\ applied = [l \in {"runs", "cache"} |-> applied[l]]
  BY LedgersAre DEF MoveInit
<1>3. LockInv
  <2>1. \A p \in Processes : procs[p].pc = "start" /\ procs[p] = [pc |-> procs[p].pc, seen |-> procs[p].seen]
    BY <1>1
  <2>2. ProcsAreProcs
    <3>1. <<>> \in Seq(Int)
      OBVIOUS
    <3> QED BY <1>1, <1>2, <2>1, <3>1 DEF ProcsAreProcs
  <2> QED BY <2>1, <2>2 DEF LockInv, Migrating
<1>4. /\ target = [t \in TableNames |-> target[t]]
      /\ target["cache_entries"] = {} /\ target["cache_entries_fts"] = {}
  BY TablesAre DEF MoveInit, TableNames
<1>5. DOMAIN ids = {} /\ DOMAIN texts = {} /\ lastId = 0
  BY DEF MoveInit
<1>6. IdsAreOwn
  BY <1>4, <1>5 DEF IdsAreOwn
<1>7. CopyInv
  BY <1>1 DEF CopyInv
<1>8. copying = [table |-> copying.table, rows |-> copying.rows]
  BY DEF MoveInit
<1> QED BY <1>3, <1>4, <1>6, <1>7, <1>8 DEF TargetInv

LEMMA MoveInvImplies == LockInv /\ TargetInv => MoveIsWhole
<1> SUFFICES ASSUME LockInv, TargetInv PROVE MoveIsWhole
  OBVIOUS
<1>1. ASSUME procs["move"].pc = "copied"
      PROVE  /\ \A i \in DOMAIN Tables : source(Tables[i]) \subseteq target[Tables[i]]
             /\ \A k \in DOMAIN SourceRows : ids[k] \in DOMAIN texts /\ texts[ids[k]] = k
  <2>1. \A i \in 1 .. 8 : source(Tables[i]) \subseteq target[Tables[i]]
    BY <1>1 DEF TargetInv, CopyInv, CopiedUpTo
  <2>2. DOMAIN SourceRows \subseteq target["cache_entries_fts"]
    BY <2>1, TablesAre, SourceOfEntries
  <2> QED BY <2>1, <2>2, TablesAre DEF TargetInv, IdsAreOwn
<1> QED BY <1>1 DEF MoveIsWhole, LockInv

\* When the command reports success, the new database holds every row of the old one and
\* each search text stands under the id of its entry, whatever a server did to that
\* database meanwhile and however often an earlier attempt was cut off; and no migration is
\* applied twice (migrate_blocking, copy_database, copy_cache_fts; pg::migrate, apply_ledger).
THEOREM MoveIsWholeCorrect == MoveSpec => []MoveIsWhole
<1> DEFINE I == UpgradeInv /\ LockInv /\ TargetInv
<1>1. UpgradeInit /\ MoveInit => I
  BY UpgradeInitInv, MoveInitInv
<1>2. I /\ [OpenedAndMoved]_<<upgradeVars, moveVars>> => I'
  <2> SUFFICES ASSUME I, [OpenedAndMoved]_<<upgradeVars, moveVars>> PROVE I'
    OBVIOUS
  <2>1. UpgradeInv' /\ kept' = kept
    <3>1. UpgradeInv'
      BY UpgradeStepKeeps DEF OpenedAndMoved
    <3> QED BY <3>1 DEF UpgradeInv
  <2>2. CASE UNCHANGED moveVars
    <3>1. LockInv'
      BY <2>2 DEF LockInv, ProcsAreProcs, Migrating, moveVars
    <3>2. TargetInv'
      BY <2>1, <2>2, NothingCopied DEF moveVars
    <3> QED BY <2>1, <3>1, <3>2
  <2>3. CASE MoveNext
    BY <2>1, <2>3, LockInvKeeps, TargetInvKeeps
  <2> QED BY <2>2, <2>3 DEF OpenedAndMoved
<1>3. I => MoveIsWhole
  BY MoveInvImplies
<1> QED BY <1>1, <1>2, <1>3, PTL DEF MoveSpec
=============================================================================
