---------------------------- MODULE PacingProofs ----------------------------
(***************************************************************************)
(* The rate bound of Pacing, for every number of calls, every interval,    *)
(* every retry policy and every lateness of the timers.                    *)
(*                                                                         *)
(* RateBound alone is not inductive: a request waits between getting its   *)
(* slot and being sent.  Ahead(t) counts the requests sent plus the ones   *)
(* whose slot has come by time t; the inductive invariant bounds it for    *)
(* every t from now on, and keeps `next` at least one interval per slot    *)
(* handed out, so that the next slot is always late enough.                *)
(*                                                                         *)
(* After it, what ExecChild promises of a call that has returned, for      *)
(* every size of request, pipe and output.                                 *)
(***************************************************************************)
EXTENDS Pacing, ExecChild, FiniteSetTheorems, TLAPS

\* The calls that hold a slot and have not sent yet, and those due by time t.
Holding == {c \in Calls : pc[c] = "slot"}
DueBy(t) == {c \in Holding : wake[c] <= t}

\* Requests sent, or allowed to be sent by time t.
Ahead(t) == sent + Cardinality(DueBy(t))

\* Every slot handed out moved `next` by at least one interval.
NextAhead == (sent + Cardinality(Holding)) * Interval <= next

\* The rate bound for every time still to come.
AheadBound == \A t \in Nat : t >= now /\ Ahead(t) > 0
                                => (Ahead(t) - 1) * Interval <= t


-----------------------------------------------------------------------------
\* The delays the loop may sleep are natural numbers.
LEMMA DelayType ==
    /\ \A n \in Nat \ {0} : GuessedDelays(n) \subseteq Nat
    /\ \A h \in Hints : HintedDelays(h) \subseteq Nat
<1>1. ASSUME NEW n \in Nat \ {0} PROVE Backoff(n) \in Nat
  <2> DEFINE shift == (IF n < 16 THEN n ELSE 16) - 1
  <2>1. shift \in 0..15
    OBVIOUS
  <2>2. 2^shift \in Nat
    BY <2>1, PowersOfTwo
  <2> HIDE DEF shift
  <2>3. \A x \in Nat : InitialBackoff * x \in Nat
    BY PacingAssumption
  <2>4. InitialBackoff * 2^shift \in Nat
    BY <2>2, <2>3
  <2> QED
    BY <2>4, PacingAssumption DEF Backoff, shift
<1>2. ASSUME NEW n \in Nat \ {0} PROVE GuessedDelays(n) \subseteq Nat
  <2>1. Backoff(n) \in Nat
    BY <1>1
  <2> QED
    BY <2>1 DEF GuessedDelays
<1> QED
  BY <1>2, PacingAssumption DEF HintedDelays

\* The slot a caller gets is neither in the past nor before `next`.
LEMMA SlotType ==
    ASSUME TypeOK
    PROVE  Slot \in Nat /\ Slot >= now /\ Slot >= next /\ NextSlot = Slot + Interval
BY DEF TypeOK, Slot, NextSlot

\* A call that holds a slot or is in flight has counted its request, and a call
\* in flight was sent no later than now.
Counting ==
    \A c \in Calls :
        /\ pc[c] \in {"slot", "flight"} => attempts[c] > 0
        /\ pc[c] = "flight" => started[c] <= now

\* Every variable keeps its type, and a call in flight has an attempt and a
\* start time (what the retry loop of with_retry_limited assumes).
TypeInv == TypeOK /\ Counting

LEMMA TypeInit == Init => TypeInv
BY DEF Init, TypeInv, TypeOK, Counting

LEMMA TypeStep ==
    ASSUME TypeInv, [Next]_vars
    PROVE  TypeInv'
<1> USE DEF TypeInv, TypeOK, Counting
<1>1. CASE Tick
  BY <1>1 DEF Tick
<1>2. ASSUME NEW c \in Calls, Acquire(c) PROVE TypeInv'
  <2>1. Slot \in Nat /\ NextSlot \in Nat
    BY SlotType, PacingAssumption
  <2> QED
    BY <1>2, <2>1 DEF Acquire
<1>3. ASSUME NEW c \in Calls, Send(c) PROVE TypeInv'
  BY <1>3 DEF Send
<1>4. ASSUME NEW c \in Calls, AnswerFinal(c) PROVE TypeInv'
  BY <1>4 DEF AnswerFinal, Elapsed
<1>5. ASSUME NEW c \in Calls, AnswerRetriable(c) PROVE TypeInv'
  <2>1. GuessedDelays(attempts[c]) \subseteq Nat
    BY <1>5, DelayType DEF AnswerRetriable
  <2> QED
    BY <1>5, <2>1 DEF AnswerRetriable, Elapsed, SleepFor
<1>6. ASSUME NEW c \in Calls, NEW hint \in Hints, AnswerHinted(c, hint)
      PROVE TypeInv'
  <2>1. HintedDelays(hint) \subseteq Nat /\ hint \in Nat
    BY DelayType, PacingAssumption
  <2> QED
    BY <1>6, <2>1 DEF AnswerHinted, Elapsed, SleepFor
<1>7. ASSUME NEW c \in Calls, WakeUp(c) PROVE TypeInv'
  BY <1>7 DEF WakeUp
<1>8. CASE UNCHANGED vars
  BY <1>8 DEF vars
<1> QED
  BY <1>1, <1>2, <1>3, <1>4, <1>5, <1>6, <1>7, <1>8 DEF Next, CallStep

\* Type correctness for every instance.
THEOREM TypeCorrect == Spec => []TypeOK
<1>1. TypeInv => TypeOK
  BY DEF TypeInv
<1> QED
  BY <1>1, TypeInit, TypeStep, PTL DEF Spec

-----------------------------------------------------------------------------
IInv == TypeInv /\ NextAhead /\ AheadBound

\* The sets counted are finite, and their sizes natural numbers.
LEMMA Finite ==
    /\ IsFiniteSet(Holding) /\ Cardinality(Holding) \in Nat
    /\ \A t : IsFiniteSet(DueBy(t)) /\ Cardinality(DueBy(t)) \in Nat
<1>1. IsFiniteSet(Holding)
  BY PacingAssumption, FS_Subset DEF Holding
<1>2. \A t : IsFiniteSet(DueBy(t))
  BY <1>1, FS_Subset DEF DueBy
<1> QED
  BY <1>1, <1>2, FS_CardinalityType

LEMMA RateInit == Init => IInv
<1> SUFFICES ASSUME Init PROVE IInv
  OBVIOUS
<1>1. TypeInv
  BY TypeInit
<1>2. Holding = {} /\ \A t : DueBy(t) = {}
  BY DEF Init, Holding, DueBy
<1>3. Cardinality(Holding) = 0 /\ \A t : Cardinality(DueBy(t)) = 0
  BY <1>2, FS_EmptySet
<1>4. NextAhead
  BY <1>3, PacingAssumption DEF NextAhead, Init
<1>5. AheadBound
  BY <1>3 DEF AheadBound, Ahead, Init
<1> QED
  BY <1>1, <1>4, <1>5 DEF IInv

\* A step that moves no call into or out of "slot" and sends nothing.
LEMMA QuietStep ==
    ASSUME IInv, TypeInv', Holding' = Holding, \A c \in Holding : wake'[c] = wake[c],
           sent' = sent, next' = next, now' >= now
    PROVE  IInv'
<1>1. \A t : DueBy(t)' = DueBy(t)
  BY DEF DueBy
<1>2. NextAhead'
  BY DEF IInv, NextAhead
<1>3. \A t \in Nat : Ahead(t)' = Ahead(t)
  BY <1>1 DEF Ahead
<1>4. ASSUME NEW t \in Nat, t >= now', Ahead(t)' > 0
      PROVE  (Ahead(t)' - 1) * Interval <= t
  <2>1. t >= now
    BY <1>4 DEF IInv, TypeInv, TypeOK
  <2> QED
    BY <1>3, <1>4, <2>1 DEF IInv, AheadBound
<1>5. AheadBound'
  BY <1>4 DEF AheadBound
<1> QED
  BY <1>2, <1>5 DEF IInv

\* Acquiring: the new slot is at or after `next`, so it comes after as many
\* intervals as there are requests sent or still waiting.
LEMMA AcquireStep ==
    ASSUME IInv, TypeInv', NEW c \in Calls, Acquire(c)
    PROVE  IInv'
<1> USE DEF TypeInv, TypeOK
<1>1. Slot \in Nat /\ Slot >= now /\ Slot >= next /\ NextSlot = Slot + Interval
  BY SlotType DEF IInv
<1>2. c \notin Holding /\ Holding' = Holding \cup {c}
  BY DEF IInv, Acquire, Holding
<1>3. Cardinality(Holding') = Cardinality(Holding) + 1
  BY <1>2, Finite, FS_AddElement
<1> DEFINE g == sent + Cardinality(Holding)
<1>4. g \in Nat /\ g * Interval <= next /\ sent' = sent
  BY Finite DEF IInv, NextAhead, Acquire
<1>5. (g + 1) * Interval = g * Interval + Interval
  <2> HIDE DEF g
  <2> QED BY <1>4, PacingAssumption
<1>6. NextAhead'
  <2>1. sent' + Cardinality(Holding') = g + 1
    BY <1>3, <1>4, Finite DEF IInv
  <2>2. next' = Slot + Interval
    BY <1>1 DEF Acquire
  <2>3. g * Interval \in Nat
    <3> HIDE DEF g
    <3> QED BY <1>4, PacingAssumption
  <2>4. (g + 1) * Interval <= next'
    <3> HIDE DEF g
    <3> QED BY <1>1, <1>4, <1>5, <2>2, <2>3, PacingAssumption DEF IInv
  <2>5. Cardinality(Holding)' = Cardinality(Holding')
    OBVIOUS
  <2> HIDE DEF g
  <2> QED
    BY <2>1, <2>4, <2>5 DEF NextAhead
<1>7. ASSUME NEW t \in Nat, t >= now', Ahead(t)' > 0
      PROVE  (Ahead(t)' - 1) * Interval <= t
  <2>1. CASE t < Slot
    <3>1. DueBy(t)' = DueBy(t)
      BY <1>1, <1>2, <2>1 DEF IInv, DueBy, Acquire, Holding
    <3>2. Ahead(t)' = Ahead(t) /\ now' = now
      BY <3>1, <1>4 DEF Ahead, Acquire
    <3> QED
      BY <1>7, <3>2 DEF IInv, AheadBound
  <2>2. CASE t >= Slot
    <3>1. DueBy(t)' \subseteq Holding'
      BY DEF DueBy
    <3>2. Cardinality(DueBy(t)') <= Cardinality(Holding')
      BY <3>1, <1>2, Finite, FS_AddElement, FS_Subset
    <3>3. Cardinality(DueBy(t)') \in Nat
      BY <3>1, <1>2, Finite, FS_AddElement, FS_Subset, FS_CardinalityType
    <3> DEFINE a == Ahead(t)' - 1
    <3>4. a \in Nat /\ a <= g
      BY <1>3, <1>4, <1>7, <3>2, <3>3, Finite DEF Ahead, IInv
    <3> HIDE DEF a, g
    <3>5. a * Interval <= g * Interval
      BY <3>4, <1>4, PacingAssumption
    <3>6. a * Interval \in Nat /\ g * Interval \in Nat
      BY <3>4, <1>4, PacingAssumption
    <3>7. a * Interval <= t
      BY <1>1, <1>4, <2>2, <3>5, <3>6 DEF IInv
    <3> QED
      BY <3>7 DEF a
  <2> QED
    BY <1>1, <2>1, <2>2
<1>8. AheadBound'
  BY <1>7 DEF AheadBound
<1> QED
  BY <1>6, <1>8 DEF IInv

\* Sending: a request whose slot has come was already counted by Ahead.
LEMMA SendStep ==
    ASSUME IInv, TypeInv', NEW c \in Calls, Send(c)
    PROVE  IInv'
<1> USE DEF TypeInv, TypeOK
<1>1. c \in Holding /\ Holding' = Holding \ {c}
  BY DEF IInv, Send, Holding
<1>2. Cardinality(Holding') = Cardinality(Holding) - 1
  BY <1>1, Finite, FS_RemoveElement
<1>3. sent' = sent + 1 /\ now' = now /\ next' = next /\ wake' = wake
  BY DEF Send
<1>4. sent' + Cardinality(Holding') = sent + Cardinality(Holding)
  BY <1>2, <1>3, Finite DEF IInv
<1>5. NextAhead'
  BY <1>3, <1>4 DEF IInv, NextAhead
<1>6. ASSUME NEW t \in Nat, t >= now'
      PROVE  Ahead(t)' = Ahead(t)
  <2>1. c \in DueBy(t) /\ DueBy(t)' = DueBy(t) \ {c}
    BY <1>1, <1>3, <1>6 DEF IInv, DueBy, Send, Due
  <2>2. Cardinality(DueBy(t)') = Cardinality(DueBy(t)) - 1
    BY <2>1, Finite, FS_RemoveElement
  <2> QED
    BY <1>3, <2>2, Finite DEF Ahead, IInv
<1>7. AheadBound'
  BY <1>3, <1>6 DEF IInv, AheadBound
<1> QED
  BY <1>5, <1>7 DEF IInv

LEMMA RateStep ==
    ASSUME IInv, [Next]_vars
    PROVE  IInv'
<1>0. TypeInv'
  BY TypeStep DEF IInv
<1> USE <1>0
<1>1. CASE Tick
  BY <1>1, QuietStep DEF Tick, Holding, IInv, TypeInv, TypeOK
<1>2. ASSUME NEW c \in Calls, Acquire(c) PROVE IInv'
  BY <1>2, AcquireStep
<1>3. ASSUME NEW c \in Calls, Send(c) PROVE IInv'
  BY <1>3, SendStep
<1>4. ASSUME NEW c \in Calls, AnswerFinal(c) PROVE IInv'
  BY <1>4, QuietStep DEF AnswerFinal, Holding, IInv, TypeInv, TypeOK
<1>5. ASSUME NEW c \in Calls, AnswerRetriable(c) PROVE IInv'
  BY <1>5, QuietStep DEF AnswerRetriable, SleepFor, Holding, IInv, TypeInv, TypeOK
<1>6. ASSUME NEW c \in Calls, NEW hint \in Hints, AnswerHinted(c, hint)
      PROVE IInv'
  BY <1>6, QuietStep DEF AnswerHinted, SleepFor, Holding, IInv, TypeInv, TypeOK
<1>7. ASSUME NEW c \in Calls, WakeUp(c) PROVE IInv'
  BY <1>7, QuietStep DEF WakeUp, Holding, IInv, TypeInv, TypeOK
<1>8. CASE UNCHANGED vars
  BY <1>8, QuietStep DEF vars, Holding, IInv, TypeInv, TypeOK
<1> QED
  BY <1>1, <1>2, <1>3, <1>4, <1>5, <1>6, <1>7, <1>8 DEF Next, CallStep

\* The run never sends its n-th request before n-1 intervals have passed,
\* whatever the number of cells, the retry policy and the timers' lateness.
THEOREM RateBoundCorrect == Spec => []RateBound
<1>1. IInv => RateBound
  <2> SUFFICES ASSUME IInv, sent > 0 PROVE (sent - 1) * Interval <= now
    BY DEF RateBound
  <2>1. now \in Nat /\ sent \in Nat /\ Cardinality(DueBy(now)) \in Nat
    BY Finite DEF IInv, TypeInv, TypeOK
  <2> DEFINE a == Ahead(now) - 1
  <2>2. a \in Nat /\ sent - 1 <= a /\ sent - 1 \in Nat /\ Ahead(now) > 0
    BY <2>1 DEF Ahead
  <2>3. a * Interval <= now
    BY <2>1, <2>2 DEF IInv, AheadBound
  <2> HIDE DEF a
  <2> DEFINE s == sent - 1
  <2>4. s \in Nat /\ s <= a
    BY <2>2
  <2> HIDE DEF s
  <2>5. s * Interval <= a * Interval /\ s * Interval \in Nat /\ a * Interval \in Nat
    BY <2>2, <2>4, PacingAssumption
  <2>6. s * Interval <= now
    BY <2>1, <2>3, <2>5
  <2> QED
    BY <2>6 DEF s
<1> QED
  BY <1>1, RateInit, RateStep, PTL DEF Spec

-----------------------------------------------------------------------------
(* What a call reports.                                                    *)

\* Where a call is, what it has sent, and when it may send again: the window
\* of the server's last answer is over, or ends before the call wakes up.
Paced(c) ==
    /\ pc[c] \in {"ready", "backoff"} => attempts[c] = tries[c] /\ attempts[c] <= MaxRetries
    /\ pc[c] = "slot" => attempts[c] = tries[c] + 1 /\ attempts[c] <= MaxRetries + 1
    /\ pc[c] \in {"flight", "done"} => /\ attempts[c] = tries[c]
                                       /\ attempts[c] \in 1..(MaxRetries + 1)
    /\ pc[c] \in {"ready", "slot"} => notBefore[c] <= now
    /\ pc[c] = "flight" => notBefore[c] <= started[c]
    /\ pc[c] = "backoff" => notBefore[c] <= wake[c]

\* The time charged to a call is the time it waited for answers.
Charged(c) ==
    inFlight[c] = IF pc[c] = "flight" THEN busy[c] - (now - started[c]) ELSE busy[c]

Honest == \A c \in Calls : Paced(c) /\ Charged(c)

\* A step of one call leaves the others as they are.
LEMMA OthersStayHonest ==
    ASSUME TypeInv, Honest, NEW c \in Calls, now' = now,
           \A d \in Calls \ {c} :
              /\ pc'[d] = pc[d] /\ attempts'[d] = attempts[d] /\ tries'[d] = tries[d]
              /\ wake'[d] = wake[d] /\ started'[d] = started[d] /\ notBefore'[d] = notBefore[d]
              /\ inFlight'[d] = inFlight[d] /\ busy'[d] = busy[d],
           Paced(c)', Charged(c)'
    PROVE  Honest'
BY DEF Honest, Paced, Charged

LEMMA HonestStep ==
    ASSUME TypeInv, Honest, [Next]_vars
    PROVE  Honest'
<1> USE PacingAssumption DEF TypeInv, TypeOK, Counting
<1>1. CASE Tick
  BY <1>1 DEF Tick, Honest, Paced, Charged
<1>2. ASSUME NEW c \in Calls, Acquire(c) PROVE Honest'
  <2>1. Paced(c)' /\ Charged(c)'
    BY <1>2 DEF Acquire, Honest, Paced, Charged
  <2> QED
    BY <1>2, <2>1, OthersStayHonest DEF Acquire
<1>3. ASSUME NEW c \in Calls, Send(c) PROVE Honest'
  <2>1. Paced(c)' /\ Charged(c)'
    BY <1>3 DEF Send, Honest, Paced, Charged
  <2> QED
    BY <1>3, <2>1, OthersStayHonest DEF Send
<1>4. ASSUME NEW c \in Calls, AnswerFinal(c) PROVE Honest'
  <2>1. Paced(c)' /\ Charged(c)'
    BY <1>4 DEF AnswerFinal, Elapsed, Honest, Paced, Charged
  <2> QED
    BY <1>4, <2>1, OthersStayHonest DEF AnswerFinal
<1>5. ASSUME NEW c \in Calls, AnswerRetriable(c) PROVE Honest'
  <2>1. Charged(c)'
    BY <1>5 DEF AnswerRetriable, SleepFor, Elapsed, Honest, Charged
  <2>2. CASE Exhausted(c)
    BY <1>5, <2>1, <2>2, OthersStayHonest DEF AnswerRetriable, Honest, Paced
  <2>3. CASE ~Exhausted(c)
    <3>1. GuessedDelays(attempts[c]) \subseteq Nat
      BY <1>5, DelayType DEF AnswerRetriable
    <3>2. PICK d \in Nat : /\ wake' = [wake EXCEPT ![c] = now + d]
                           /\ pc' = [pc EXCEPT ![c] = "backoff"]
      BY <1>5, <2>3, <3>1 DEF AnswerRetriable, SleepFor
    <3>3. Paced(c)'
      BY <1>5, <2>3, <3>2 DEF AnswerRetriable, Exhausted, Honest, Paced
    <3> QED
      BY <1>5, <2>1, <3>2, <3>3, OthersStayHonest DEF AnswerRetriable
  <2> QED
    BY <2>2, <2>3
<1>6. ASSUME NEW c \in Calls, NEW hint \in Hints, AnswerHinted(c, hint) PROVE Honest'
  <2>1. Charged(c)'
    BY <1>6 DEF AnswerHinted, SleepFor, Elapsed, Honest, Charged
  <2>2. CASE pc' = [pc EXCEPT ![c] = "done"] /\ UNCHANGED wake
    BY <1>6, <2>1, <2>2, OthersStayHonest DEF AnswerHinted, Honest, Paced
  <2>3. CASE ~Exhausted(c) /\ SleepFor(c, HintedDelays(hint))
    <3>1. /\ wake' = [wake EXCEPT ![c] = now + hint]
          /\ pc' = [pc EXCEPT ![c] = "backoff"]
      BY <2>3 DEF SleepFor, HintedDelays
    <3>2. Paced(c)'
      BY <1>6, <2>3, <3>1 DEF AnswerHinted, Exhausted, Honest, Paced
    <3> QED
      BY <1>6, <2>1, <3>1, <3>2, OthersStayHonest DEF AnswerHinted
  <2> QED
    BY <1>6, <2>2, <2>3 DEF AnswerHinted
<1>7. ASSUME NEW c \in Calls, WakeUp(c) PROVE Honest'
  <2>1. Paced(c)' /\ Charged(c)'
    BY <1>7 DEF WakeUp, Due, Honest, Paced, Charged
  <2> QED
    BY <1>7, <2>1, OthersStayHonest DEF WakeUp
<1>8. CASE UNCHANGED vars
  BY <1>8 DEF vars, Honest, Paced, Charged
<1> QED
  BY <1>1, <1>2, <1>3, <1>4, <1>5, <1>6, <1>7, <1>8 DEF Next, CallStep

\* For every retry policy, every Retry-After and every lateness: no retry goes
\* out inside a server's window, in_flight is the time spent waiting for answers,
\* and a finished call's attempts are the requests it sent (RetryPolicy,
\* with_retry_limited).
THEOREM WireIsHonestCorrect == Spec => []WireIsHonest
<1>1. Init => Honest
  BY PacingAssumption DEF Init, Honest, Paced, Charged
<1>2. TypeInv /\ Honest /\ [Next]_vars => Honest' /\ TypeInv'
  BY HonestStep, TypeStep
<1>3. TypeInv /\ Honest => WireIsHonest
  BY DEF Honest, Paced, Charged, WireIsHonest, TypeInv, TypeOK
<1> QED
  BY <1>1, <1>2, <1>3, TypeInit, PTL DEF Spec

-----------------------------------------------------------------------------
Ends == {"stdin", "stdout"}

ExecTypeOK ==
    /\ at \in {"spawn", "write", "collect", "returned"}
    /\ result \in {"none", "spawn", "io", "timeout", "abandoned", "completed"}
    /\ stdout \in Nat /\ written \in Nat /\ collected \in Nat
    /\ armed \in BOOLEAN
    /\ process \in [Processes -> {"none", "alive", "gone"}]
    /\ holds \in [Ends -> SUBSET Processes]

\* Only a live process holds an end of a pipe.
HoldersLive == \A end \in Ends : \A p \in holds[end] : process[p] = "alive"

\* What was written is in the pipe or was read.
NothingIsLost == collected + stdout = written

\* There is no process before the spawn; while the call runs the guard is armed
\* and the leader was started, and only a leader that runs starts a helper.
GroupIsGuarded ==
    /\ at = "spawn" => \A p \in Processes : process[p] = "none"
    /\ at \in {"write", "collect"} => armed
    /\ at = "returned" => process["leader"] # "alive"

\* A call that completed saw the end of the output; any other left nobody.
EndedWell ==
    at = "returned" =>
        IF result = "completed" THEN holds["stdout"] = {} /\ stdout = 0
                                ELSE process["helper"] # "alive"

ExecInv == ExecTypeOK /\ HoldersLive /\ NothingIsLost /\ GroupIsGuarded /\ EndedWell

LEMMA ExecInvInit == ExecInit => ExecInv
<1> SUFFICES ASSUME ExecInit PROVE ExecInv
  OBVIOUS
<1>1. ExecTypeOK
  BY DEF ExecInit, ExecTypeOK, Processes, Ends
<1>2. HoldersLive /\ GroupIsGuarded /\ EndedWell
  BY DEF ExecInit, HoldersLive, GroupIsGuarded, EndedWell, Ends
<1>3. NothingIsLost
  BY DEF ExecInit, NothingIsLost
<1> QED
  BY <1>1, <1>2, <1>3 DEF ExecInv

\* A call that gives up while its guard is armed kills the whole group.
LEMMA GivingUp ==
    ASSUME ExecInv, NEW r \in {"io", "timeout", "abandoned"}, at \in {"write", "collect"},
           GiveUp(r)
    PROVE  ExecInv'
<1>1. Killed = Processes
  BY DEF Killed, ExecInv, GroupIsGuarded
<1>2. /\ process' = [p \in Processes |-> IF process[p] = "alive" THEN "gone" ELSE process[p]]
      /\ holds' = [end \in Ends |-> {}]
  BY <1>1 DEF GiveUp, Kill, ExecInv, ExecTypeOK
<1>3. \A p \in Processes : process'[p] # "alive"
  BY <1>2
<1>4. ExecTypeOK'
  BY <1>2 DEF GiveUp, Return, ExecInv, ExecTypeOK
<1>5. HoldersLive' /\ NothingIsLost' /\ GroupIsGuarded' /\ EndedWell'
  BY <1>2, <1>3 DEF GiveUp, Return, ExecInv, HoldersLive, NothingIsLost, GroupIsGuarded,
                    EndedWell, Processes
<1> QED
  BY <1>4, <1>5 DEF ExecInv

\* Someone who may write to the output is alive: the call has not completed.
LEMMA ExecInvStep == ExecInv /\ [ExecNext]_execVars => ExecInv'
<1> SUFFICES ASSUME ExecInv, [ExecNext]_execVars PROVE ExecInv'
  OBVIOUS
<1> USE DEF ExecInv, ExecTypeOK, HoldersLive, NothingIsLost, GroupIsGuarded, EndedWell, Ends
<1>1. CASE SpawnFails
  BY <1>1 DEF SpawnFails, Return, Processes
<1>2. CASE Spawn
  BY <1>2 DEF Spawn, Processes
<1>3. CASE WriteSome
  BY <1>3 DEF WriteSome
<1>4. CASE CloseStdin
  BY <1>4 DEF CloseStdin
<1>5. CASE Collect
  BY <1>5 DEF Collect
<1>6. CASE Complete
  BY <1>6 DEF Complete, Return
<1>7. CASE WriteFails \/ CollectFails \/ TimeOut \/ Abandon
  BY <1>7, GivingUp DEF WriteFails, CollectFails, TimeOut, Abandon
<1>8. CASE StartHelper
  BY <1>8 DEF StartHelper, Processes
<1>9. ASSUME NEW p \in Processes, ReadStdin(p) PROVE ExecInv'
  BY <1>9 DEF ReadStdin
<1>10. ASSUME NEW p \in Processes, WriteStdout(p) PROVE ExecInv'
  BY <1>10 DEF WriteStdout, Processes
<1>11. ASSUME NEW p \in Processes, Exit(p) PROVE ExecInv'
  <2>1. /\ process' = [q \in Processes |-> IF q = p THEN "gone" ELSE process[q]]
        /\ holds' = [end \in Ends |-> holds[end] \ {p}]
    BY <1>11 DEF Exit, Kill
  <2>2. UNCHANGED <<at, result, stdout, written, collected, armed>> /\ process[p] = "alive"
    BY <1>11 DEF Exit
  <2> QED
    BY <2>1, <2>2 DEF Processes
<1>12. ASSUME NEW p \in Processes, NEW end \in DOMAIN holds, CloseEnd(p, end) PROVE ExecInv'
  BY <1>12 DEF CloseEnd, Processes
<1>13. CASE UNCHANGED execVars
  BY <1>13 DEF execVars
<1> QED
  BY <1>1, <1>2, <1>3, <1>4, <1>5, <1>6, <1>7, <1>8, <1>9, <1>10, <1>11, <1>12, <1>13
     DEF ExecNext, ExecStep, ProcessStep

\* However a call ends - completed, failed, timed out or dropped - and whatever
\* its child and the child's helper do meanwhile, no process of its group is
\* left but a helper that let go of the output, and a completed call read all of
\* it (run_exec_raw, GroupKill::drop).
THEOREM NoProcessIsLeftCorrect == ExecSpec => []NoProcessIsLeft
<1>1. ExecInv => NoProcessIsLeft
  BY DEF ExecInv, ExecTypeOK, HoldersLive, NothingIsLost, GroupIsGuarded, EndedWell,
         NoProcessIsLeft, Processes, Ends
<1> QED
  BY <1>1, ExecInvInit, ExecInvStep, PTL DEF ExecSpec

=============================================================================
