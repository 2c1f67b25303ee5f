------------------------------- MODULE Pacing -------------------------------
(***************************************************************************)
(* The run-wide rate limiter (domarinn-core/src/rate_limit.rs) under the   *)
(* provider retry loop (domarinn-core/src/retry.rs).                       *)
(*                                                                         *)
(* Every cell of a run makes its provider calls through                    *)
(* with_retry_limited, and all of them share one RateLimiter.  Time is a   *)
(* count of ticks.  A sleep ends at its deadline or later, never earlier:  *)
(* that is all tokio's timer promises, and the lateness is a constant so   *)
(* that the model can say what a late timer does to the spacing.           *)
(***************************************************************************)
EXTENDS Integers, FiniteSets

CONSTANTS
    Calls,            \* the concurrent with_retry_limited calls of one run
    Interval,         \* RateLimiter.interval, in ticks
    MaxRetries,       \* RetryPolicy.max
    InitialBackoff,   \* RetryPolicy.initial_ms, in ticks
    MaxBackoff,       \* RetryPolicy.max_ms, in ticks
    RetryAfterMax,    \* RetryPolicy.retry_after_max_ms, in ticks
    Hints,            \* the Retry-After delays a server may answer with
    Jitter,           \* RetryPolicy.jitter
    Timeout,          \* the provider's request timeout: no answer is later
    Lateness          \* how late a timer may fire

ASSUME PacingAssumption ==
    /\ IsFiniteSet(Calls)
    /\ Interval \in Nat
    /\ MaxRetries \in Nat
    /\ InitialBackoff \in Nat
    /\ MaxBackoff \in Nat
    /\ RetryAfterMax \in Nat
    /\ Hints \subseteq Nat
    /\ Jitter \in BOOLEAN
    /\ Timeout \in Nat
    /\ Lateness \in Nat

\* A closed fact the provers cannot compute; TLC does.
ASSUME PowersOfTwo == \A k \in 0..15 : 2^k \in Nat

VARIABLES
    now,        \* the clock
    next,       \* RateLimiter.next; 0, never in the future, before the first call
    pc,         \* where each call is in the loop of with_retry_limited
    attempts,   \* RetryStats.attempts
    wake,       \* the deadline of a sleeping call
    started,    \* `started`: when the attempt in flight was sent
    inFlight,   \* RetryStats.in_flight
    sent,       \* history: the requests sent by the whole run
    tries,      \* history: the requests sent by each call
    busy,       \* history: the ticks each call spent waiting for an answer
    notBefore   \* history: the earliest retry the server's last answer permits

vars == <<now, next, pc, attempts, wake, started, inFlight,
          sent, tries, busy, notBefore>>

-----------------------------------------------------------------------------
\* RetryPolicy::backoff without a hint: initial_ms doubled per attempt, capped.
Backoff(attempt) ==
    LET shift == (IF attempt < 16 THEN attempt ELSE 16) - 1
        exp   == InitialBackoff * 2^shift
    IN  IF exp < MaxBackoff THEN exp ELSE MaxBackoff

\* The delays the loop may sleep before its next attempt: a server's hint
\* verbatim, its own guess full-jittered over 1..delay when jitter is on.
GuessedDelays(attempt) ==
    LET base == Backoff(attempt)
    IN  IF Jitter /\ base > 0 THEN 1..base ELSE {base}

HintedDelays(hint) == {hint}

\* RateLimiter::acquire under its mutex: the slot this caller gets.
Slot == IF next > now THEN next ELSE now

\* What RateLimiter.next becomes once that slot is reserved.
NextSlotFromNow == now + Interval              \* mutant: reserve nothing
NextSlot == Slot + Interval

\* A sleep may end: its deadline has passed, by however much.
DueExactly(c) == now = wake[c]                 \* mutant: a late timer is lost
Due(c) == now >= wake[c]

\* The attempt just made was the last the policy allows.
Exhausted(c) == attempts[c] > MaxRetries

\* The time of the attempt that just answered.
ElapsedSinceSlot(c) == now - wake[c]           \* mutant: clock started early
Elapsed(c) == now - started[c]

-----------------------------------------------------------------------------
Init ==
    /\ now = 0
    /\ next = 0
    /\ pc = [c \in Calls |-> "ready"]
    /\ attempts = [c \in Calls |-> 0]
    /\ wake = [c \in Calls |-> 0]
    /\ started = [c \in Calls |-> 0]
    /\ inFlight = [c \in Calls |-> 0]
    /\ sent = 0
    /\ tries = [c \in Calls |-> 0]
    /\ busy = [c \in Calls |-> 0]
    /\ notBefore = [c \in Calls |-> 0]

\* The head of the loop: count the attempt and reserve a slot.
Acquire(c) ==
    /\ pc[c] = "ready"
    /\ attempts' = [attempts EXCEPT ![c] = @ + 1]
    /\ wake' = [wake EXCEPT ![c] = Slot]
    /\ next' = NextSlot
    /\ pc' = [pc EXCEPT ![c] = "slot"]
    /\ UNCHANGED <<now, started, inFlight, sent, tries, busy, notBefore>>

\* The slot has come: the attempt's clock starts and the request goes out.
Send(c) ==
    /\ pc[c] = "slot"
    /\ Due(c)
    /\ pc' = [pc EXCEPT ![c] = "flight"]
    /\ started' = [started EXCEPT ![c] = now]
    /\ sent' = sent + 1
    /\ tries' = [tries EXCEPT ![c] = @ + 1]
    /\ UNCHANGED <<now, next, attempts, wake, inFlight, busy, notBefore>>

\* Ok and Err(Fatal) both leave the loop at once.
AnswerFinal(c) ==
    /\ pc[c] = "flight"
    /\ inFlight' = [inFlight EXCEPT ![c] = @ + Elapsed(c)]
    /\ pc' = [pc EXCEPT ![c] = "done"]
    /\ UNCHANGED <<now, next, attempts, wake, started, sent, tries, busy,
                   notBefore>>

\* Sleep before the next attempt for one of the given delays.
SleepFor(c, delays) ==
    \E d \in delays :
        /\ wake' = [wake EXCEPT ![c] = now + d]
        /\ pc' = [pc EXCEPT ![c] = "backoff"]

\* Err(Retriable) without a Retry-After.
AnswerRetriable(c) ==
    /\ pc[c] = "flight"
    /\ inFlight' = [inFlight EXCEPT ![c] = @ + Elapsed(c)]
    /\ \/ /\ Exhausted(c)
          /\ pc' = [pc EXCEPT ![c] = "done"]
          /\ UNCHANGED wake
       \/ /\ ~Exhausted(c)
          /\ SleepFor(c, GuessedDelays(attempts[c]))
    /\ UNCHANGED <<now, next, attempts, started, sent, tries, busy, notBefore>>

\* Err(Retriable) with a Retry-After: beyond the ceiling the loop gives up.
AnswerHinted(c, hint) ==
    /\ pc[c] = "flight"
    /\ inFlight' = [inFlight EXCEPT ![c] = @ + Elapsed(c)]
    /\ notBefore' = [notBefore EXCEPT ![c] = now + hint]
    /\ \/ /\ Exhausted(c) \/ hint > RetryAfterMax
          /\ pc' = [pc EXCEPT ![c] = "done"]
          /\ UNCHANGED wake
       \/ /\ ~Exhausted(c) /\ hint <= RetryAfterMax
          /\ SleepFor(c, HintedDelays(hint))
    /\ UNCHANGED <<now, next, attempts, started, sent, tries, busy>>

\* The backoff sleep ends and the loop goes round.
WakeUp(c) ==
    /\ pc[c] = "backoff"
    /\ Due(c)
    /\ pc' = [pc EXCEPT ![c] = "ready"]
    /\ UNCHANGED <<now, next, attempts, wake, started, inFlight, sent, tries,
                   busy, notBefore>>

\* Time passes while some call waits for it, as long as no request outlives
\* its timeout and no timer is later than Lateness.
Tick ==
    /\ \E c \in Calls : pc[c] \in {"slot", "backoff", "flight"}
    /\ \A c \in Calls :
          /\ pc[c] \in {"slot", "backoff"} => now < wake[c] + Lateness
          /\ pc[c] = "flight" => now < started[c] + Timeout
    /\ now' = now + 1
    /\ busy' = [c \in Calls |->
                  IF pc[c] = "flight" THEN busy[c] + 1 ELSE busy[c]]
    /\ UNCHANGED <<next, pc, attempts, wake, started, inFlight, sent, tries,
                   notBefore>>

CallStep(c) ==
    \/ Acquire(c)
    \/ Send(c)
    \/ AnswerFinal(c)
    \/ AnswerRetriable(c)
    \/ \E hint \in Hints : AnswerHinted(c, hint)
    \/ WakeUp(c)

Next == Tick \/ \E c \in Calls : CallStep(c)

\* The executor polls every runnable future and the clock never stops.
Spec == Init /\ [][Next]_vars /\ WF_vars(Next)

-----------------------------------------------------------------------------
\* Every variable has its type.
TypeOK ==
    /\ now \in Nat
    /\ next \in Nat
    /\ pc \in [Calls -> {"ready", "slot", "flight", "backoff", "done"}]
    /\ attempts \in [Calls -> Nat]
    /\ wake \in [Calls -> Nat]
    /\ started \in [Calls -> Nat]
    /\ inFlight \in [Calls -> Nat]
    /\ sent \in Nat
    /\ tries \in [Calls -> Nat]
    /\ busy \in [Calls -> Nat]
    /\ notBefore \in [Calls -> Nat]

\* "N per second" holds for the run as a whole, retries included and however
\* late the timers fire: the n-th request is never sent before (n-1) intervals
\* have passed (RateLimiter, shared by every cell and asked once per attempt).
RateBound == sent > 0 => (sent - 1) * Interval <= now

\* What a call does and reports is what the servers asked for and what happened
\* on the wire: a retry never goes out before the Retry-After window has closed,
\* jitter or not; in_flight, the number a `latency` assertion sees, is the time
\* spent waiting for answers (neither the limiter's wait nor a backoff is
\* charged); and a finished call's attempts are the requests it sent, at most
\* MaxRetries + 1 (RetryPolicy, call_with_retry).
WireIsHonest ==
    \A c \in Calls :
        /\ pc[c] = "flight" => started[c] >= notBefore[c]
        /\ inFlight[c] = IF pc[c] = "flight" THEN busy[c] - (now - started[c])
                         ELSE busy[c]
        /\ pc[c] = "done" => tries[c] = attempts[c] /\ tries[c] \in 1..(MaxRetries + 1)

\* Every call returns: no mix of slots, retries and late timers starves one.
EveryCallReturns == <>[](\A c \in Calls : pc[c] = "done")

=============================================================================
