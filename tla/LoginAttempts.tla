--------------------------- MODULE LoginAttempts ---------------------------
(***************************************************************************)
(* The login_attempts table: failed sign-ins are counted per key (an       *)
(* account, a known device, a password change) in a window; too many lock  *)
(* the key, and locks that follow each other grow.  From                   *)
(* src/crates/domarinn-server: storage/attempts.rs and accounts/guard.rs,  *)
(* with the middle of the login and password handlers in accounts.rs.      *)
(*                                                                         *)
(* A check of a password is in three steps: the attempt is counted, the    *)
(* password is verified on another thread, and a right one clears the      *)
(* counter.  A task prunes the rows that no longer matter.                 *)
(***************************************************************************)
EXTENDS Integers, FiniteSets

CONSTANTS AttemptKeys,   \* counters, one policy each
          MaxFailures,   \* key -> attempts a window allows
          LockBase,      \* key -> length of the first lock
          LockCap,       \* key -> length no lock exceeds
          Window,        \* ATTEMPT_WINDOW_MS
          Escalation,    \* LOCKOUT_ESCALATION_MS
          Checks,        \* password checks in flight at the same time
          NoRow,         \* a key without a row
          NoCheck,       \* no password check under way
          LastMoment     \* bound on the clock

ASSUME AttemptsAssumption ==
    /\ Window \in Nat \ {0} /\ Escalation \in Nat /\ LastMoment \in Nat
    /\ \A k \in AttemptKeys : MaxFailures[k] \in Nat \ {0}
    /\ \A k \in AttemptKeys : LockBase[k] \in Nat \ {0} /\ LockCap[k] \in Nat \ {0}
    /\ NoCheck \notin AttemptKeys
    /\ \A n \in 0 .. 20 : 2 ^ n \in Nat

VARIABLES moment,     \* the clock
          rows,       \* key -> its row, or NoRow
          unpruned,   \* history: what rows would be if nothing were pruned
          checks,     \* check -> the key it verifies for, or NoCheck
          verified    \* history: key -> verifications since its count began

\* A row of login_attempts.
AttemptRow == [failures : Nat, windowStart : Nat, lockedUntil : Nat,
               lockouts : Nat, lockoutStart : Nat]

ASSUME AttemptRowsAssumption == NoRow \notin AttemptRow

attemptVars == <<moment, rows, unpruned, checks, verified>>

----------------------------------------------------------------------------
ShorterOf(a, b) == IF a <= b THEN a ELSE b

\* The n-th lock of a chain: doubled n - 1 times, up to the cap.
LockDuration(n, k) ==
    LET shift == ShorterOf(n - 1, 20) IN ShorterOf(LockBase[k] * 2 ^ shift, LockCap[k])

Fresh(at) == [failures |-> 1, windowStart |-> at, lockedUntil |-> 0,
              lockouts |-> 0, lockoutStart |-> 0]

\* The UPSERT: a locked key counts nothing, an old window starts over.
Counted(row, at) ==
    IF row = NoRow THEN Fresh(at)
    ELSE IF row.lockedUntil > at THEN row
    ELSE IF row.windowStart + Window <= at
         THEN [row EXCEPT !.failures = 1, !.windowStart = at]
         ELSE [row EXCEPT !.failures = @ + 1]

\* The ordinal of the next lock; the chain is over after a quiet time.
NextLock(row, at) ==
    IF row.lockouts = 0 \/ row.lockoutStart + Escalation <= at
    THEN 1 ELSE row.lockouts + 1

Locked(row, at, k) ==
    LET n == NextLock(row, at) IN
    [failures |-> 0, windowStart |-> at, lockedUntil |-> at + LockDuration(n, k),
     lockouts |-> n, lockoutStart |-> at]

\* begin_login_attempt: the row it leaves, and until when the key is locked.
BeginAttempt(row, at, k) ==
    LET c == Counted(row, at) IN
    IF c.lockedUntil > at THEN [row |-> c, until |-> c.lockedUntil]
    ELSE IF c.failures <= MaxFailures[k] THEN [row |-> c, until |-> 0]
    ELSE [row |-> Locked(c, at, k), until |-> Locked(c, at, k).lockedUntil]

\* Pruning that forgets the chain of locks.
PrunableEarly(row, at) ==
    row # NoRow /\ row.lockedUntil <= at /\ row.windowStart + Window <= at

\* What a row remembers is over: its lock, its window and its chain.
Prunable(row, at) ==
    /\ row # NoRow
    /\ row.lockedUntil <= at
    /\ row.windowStart + Window <= at
    /\ row.lockouts = 0 \/ row.lockoutStart + Escalation <= at

----------------------------------------------------------------------------
\* Does counting this attempt start the row's count afresh?
StartsOver(row, k) ==
    \/ row = NoRow
    \/ row.lockedUntil <= moment /\ row.windowStart + Window <= moment

BeginCheck(c, k) ==
    /\ checks[c] = NoCheck
    /\ LET answer == BeginAttempt(rows[k], moment, k) IN
       /\ rows' = [rows EXCEPT ![k] = answer.row]
       /\ unpruned' = [unpruned EXCEPT ![k] = BeginAttempt(@, moment, k).row]
       /\ checks' = [checks EXCEPT ![c] = IF answer.until = 0 THEN k ELSE NoCheck]
       /\ verified' = [verified EXCEPT ![k] =
             CASE answer.until = 0 -> IF StartsOver(rows[k], k) THEN 1 ELSE @ + 1
               [] answer.row.failures = 0 -> 0
               [] OTHER -> @]
    /\ UNCHANGED moment

\* A wrong password leaves the count; a right one clears the key.
FinishCheck(c) ==
    /\ checks[c] # NoCheck
    /\ checks' = [checks EXCEPT ![c] = NoCheck]
    /\ \/ UNCHANGED <<rows, unpruned, verified>>
       \/ /\ rows' = [rows EXCEPT ![checks[c]] = NoRow]
          /\ unpruned' = [unpruned EXCEPT ![checks[c]] = NoRow]
          /\ verified' = [verified EXCEPT ![checks[c]] = 0]
    /\ UNCHANGED moment

PruneAttempts ==
    /\ \E k \in AttemptKeys : Prunable(rows[k], moment)
    /\ rows' = [k \in AttemptKeys |-> IF Prunable(rows[k], moment) THEN NoRow ELSE rows[k]]
    /\ UNCHANGED <<moment, unpruned, checks, verified>>

AttemptClock ==
    /\ moment < LastMoment
    /\ moment' = moment + 1
    /\ UNCHANGED <<rows, unpruned, checks, verified>>

AttemptsInit ==
    /\ moment = 1
    /\ rows = [k \in AttemptKeys |-> NoRow]
    /\ unpruned = rows
    /\ checks = [c \in Checks |-> NoCheck]
    /\ verified = [k \in AttemptKeys |-> 0]

AttemptsNext ==
    \/ \E c \in Checks, k \in AttemptKeys : BeginCheck(c, k)
    \/ \E c \in Checks : FinishCheck(c)
    \/ PruneAttempts \/ AttemptClock

AttemptsSpec == AttemptsInit /\ [][AttemptsNext]_attemptVars

----------------------------------------------------------------------------
(* Properties.                                                             *)

\* Pruning forgets nothing that counts: with and without it the next attempt
\* on a key gets the same answer, now and at every later moment, and a lock
\* of the same length.
PruningIsInvisible ==
    \A k \in AttemptKeys : \A at \in moment .. LastMoment :
       BeginAttempt(rows[k], at, k).until = BeginAttempt(unpruned[k], at, k).until

\* However many checks overlap, no more passwords are verified for a key in
\* one count than its policy allows: attempts are reserved before they run.
AttemptsAreReserved ==
    \A k \in AttemptKeys : verified[k] <= MaxFailures[k]

\* The ladder of locks holds: checks that overlap cannot get past it, and neither
\* can waiting until the counters are pruned (begin_attempt, prune_login_attempts).
LadderHolds == AttemptsAreReserved /\ PruningIsInvisible
=============================================================================
