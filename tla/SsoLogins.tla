------------------------------ MODULE SsoLogins ------------------------------
(***************************************************************************)
(* Sign-ins through an identity provider: a start leaves a transaction, a  *)
(* callback takes it, and a SAML assertion is remembered until it can no   *)
(* longer be accepted.  From src/crates/domarinn-server: sso/handlers.rs,  *)
(* sso/oidc.rs, sso/saml.rs and storage/sso.rs.                            *)
(*                                                                         *)
(* A browser may follow a callback twice and requests overlap; rows are    *)
(* dropped when they expire, by the next writer and by an hourly task.     *)
(***************************************************************************)
EXTENDS Integers, FiniteSets

CONSTANTS TxnIds,        \* transaction ids, random and never reused
          Assertions,    \* SAML assertions the provider may issue
          Callbacks,     \* callbacks handled at the same time
          TxnTtl,        \* LOGIN_TXN_TTL_MS
          Validity,      \* assertion -> lifetime it states, 0 for none
          IssueDelay,    \* how old an assertion may be, but for the skew
          Skew,          \* max_clock_skew
          ReplayFallback, \* REPLAY_FALLBACK_MS, an hour: longer than the default skew
          IdpInitiated,  \* a SAML login may begin at the provider
          Absent,        \* no row, no callback
          LastInstant    \* bound on the clock

ASSUME SsoAssumption ==
    /\ TxnTtl \in Nat \ {0} /\ IssueDelay \in Nat /\ Skew \in Nat /\ LastInstant \in Nat
    /\ Validity \in [Assertions -> Nat]
    /\ ReplayFallback \in Nat /\ ReplayFallback > IssueDelay + Skew
    /\ IdpInitiated \in BOOLEAN
    /\ TxnIds \cap Assertions = {} /\ Absent \notin TxnIds \cup Assertions \cup Nat

Kinds == {"oidc", "saml"}

VARIABLES instant,    \* the server's clock
          started,    \* transaction ids that were handed out
          txns,       \* login_transactions: id -> [kind, expires], or Absent
          issued,     \* assertion -> when it was issued, or Absent
          consumed,   \* saml_consumed_assertions: assertion -> expiry, or Absent
          callbacks,  \* callback -> what it holds, or Absent
          keysFresh,  \* does the cached discovery document hold today's keys?
          logins      \* history: logins per transaction and per assertion

ssoVars == <<instant, started, txns, issued, consumed, callbacks, keysFresh, logins>>

----------------------------------------------------------------------------
\* Rows that have expired go before a new one is written, and in sso_gc.
LiveTxns == [x \in TxnIds |-> IF txns[x] # Absent /\ txns[x].expires <= instant
                              THEN Absent ELSE txns[x]]

LiveConsumed == [a \in Assertions |-> IF consumed[a] # Absent /\ consumed[a] <= instant
                                      THEN Absent ELSE consumed[a]]

\* The library accepts an assertion while it is recent and within its lifetime.
AcceptsAssertion(a) ==
    /\ issued[a] # Absent
    /\ instant <= issued[a] + IssueDelay + Skew
    /\ Validity[a] # 0 => instant < issued[a] + Validity[a] + Skew

\* How long it is to be remembered, as the check of the response decides: as
\* long as it could be accepted again.
ReplayExpiryUnskewed(a) ==
    IF Validity[a] # 0 THEN issued[a] + Validity[a] ELSE instant + ReplayFallback

ReplayExpiry(a) ==
    IF Validity[a] # 0 THEN issued[a] + Validity[a] + Skew ELSE instant + ReplayFallback

----------------------------------------------------------------------------
\* GET .../start: a transaction, and its id in a cookie of the browser.
StartLogin(x, kind) ==
    /\ x \notin started
    /\ started' = started \cup {x}
    /\ txns' = [LiveTxns EXCEPT ![x] = [kind |-> kind, expires |-> instant + TxnTtl]]
    /\ UNCHANGED <<instant, issued, consumed, callbacks, keysFresh, logins>>

\* The row is deleted whether or not it had expired.
TakeTxn(x) == txns' = [txns EXCEPT ![x] = Absent]

Usable(x, kind) == txns[x] # Absent /\ txns[x].expires > instant /\ txns[x].kind = kind

\* What a callback that passed its checks takes to its last step.
Holding(x, a, until) == [txn |-> x, assertion |-> a, until |-> until]

\* The browser brings state and cookie; an unusable transaction ends it here.
OidcCallback(c, x) ==
    /\ callbacks[c] = Absent /\ x \in started
    /\ TakeTxn(x)
    /\ callbacks' = IF Usable(x, "oidc")
                    THEN [callbacks EXCEPT ![c] = Holding(x, Absent, Absent)]
                    ELSE callbacks
    /\ UNCHANGED <<instant, started, issued, consumed, keysFresh, logins>>

\* The code is exchanged; a token that does not verify is tried once more
\* with the provider's keys of today.  Any step of it may fail.
CompleteOidc(c) ==
    /\ callbacks[c] # Absent /\ callbacks[c].assertion = Absent
    /\ callbacks' = [callbacks EXCEPT ![c] = Absent]
    /\ \/ /\ keysFresh' = TRUE
          /\ logins' = [logins EXCEPT ![callbacks[c].txn] = @ + 1]
       \/ UNCHANGED <<keysFresh, logins>>
    /\ UNCHANGED <<instant, started, txns, issued, consumed>>

\* POST .../acs: with a relay state its transaction is taken first; without
\* one only a provider that may begin logins is let through.
SamlAcs(c, a) ==
    /\ callbacks[c] = Absent
    /\ \/ \E x \in started :
             /\ TakeTxn(x)
             /\ callbacks' = IF Usable(x, "saml") /\ AcceptsAssertion(a)
                             THEN [callbacks EXCEPT ![c] = Holding(x, a, ReplayExpiry(a))]
                             ELSE callbacks
       \/ /\ IdpInitiated /\ AcceptsAssertion(a)
          /\ callbacks' = [callbacks EXCEPT ![c] = Holding(Absent, a, ReplayExpiry(a))]
          /\ UNCHANGED txns
    /\ UNCHANGED <<instant, started, issued, consumed, keysFresh, logins>>

\* saml_mark_assertion: the first to insert the id goes on, a repeat is refused.
MarkAssertion(c) ==
    /\ callbacks[c] # Absent /\ callbacks[c].assertion # Absent
    /\ LET a == callbacks[c].assertion  x == callbacks[c].txn IN
       IF LiveConsumed[a] # Absent
       THEN consumed' = LiveConsumed /\ UNCHANGED logins
       ELSE /\ consumed' = [LiveConsumed EXCEPT ![a] = callbacks[c].until]
            /\ logins' = [l \in DOMAIN logins |->
                  logins[l] + (IF l = x \/ (l = a /\ AcceptsAssertion(a)) THEN 1 ELSE 0)]
    /\ callbacks' = [callbacks EXCEPT ![c] = Absent]
    /\ UNCHANGED <<instant, started, txns, issued, keysFresh>>

SsoGc ==
    /\ <<txns, consumed>> # <<LiveTxns, LiveConsumed>>
    /\ txns' = LiveTxns /\ consumed' = LiveConsumed
    /\ UNCHANGED <<instant, started, issued, callbacks, keysFresh, logins>>

----------------------------------------------------------------------------
(* The provider and the clock.                                             *)

IssueAssertion(a) ==
    /\ issued[a] = Absent
    /\ issued' = [issued EXCEPT ![a] = instant]
    /\ UNCHANGED <<instant, started, txns, consumed, callbacks, keysFresh, logins>>

RotateKeys ==
    /\ keysFresh
    /\ keysFresh' = FALSE
    /\ UNCHANGED <<instant, started, txns, issued, consumed, callbacks, logins>>

SsoClock ==
    /\ instant < LastInstant
    /\ instant' = instant + 1
    /\ UNCHANGED <<started, txns, issued, consumed, callbacks, keysFresh, logins>>

SsoInit ==
    /\ instant = 0 /\ started = {}
    /\ txns = [x \in TxnIds |-> Absent]
    /\ issued = [a \in Assertions |-> Absent]
    /\ consumed = [a \in Assertions |-> Absent]
    /\ callbacks = [c \in Callbacks |-> Absent]
    /\ keysFresh = TRUE
    /\ logins = [l \in TxnIds \cup Assertions |-> 0]

SsoNext ==
    \/ \E x \in TxnIds, kind \in Kinds : StartLogin(x, kind)
    \/ \E c \in Callbacks, x \in TxnIds : OidcCallback(c, x)
    \/ \E c \in Callbacks, a \in Assertions : SamlAcs(c, a)
    \/ \E c \in Callbacks : CompleteOidc(c) \/ MarkAssertion(c)
    \/ \E a \in Assertions : IssueAssertion(a)
    \/ RotateKeys \/ SsoGc \/ SsoClock

SsoSpec == SsoInit /\ [][SsoNext]_ssoVars

----------------------------------------------------------------------------
(* Properties.                                                             *)

\* A transaction and an assertion each sign somebody in at most once, however
\* often the browser repeats the callback, whichever requests overlap, and
\* whatever has been dropped as expired meanwhile.  (An assertion counts
\* while it could still be accepted: its expiry may fall between the check
\* of a response and the transaction that marks it.)
LoginsHappenOnce == \A l \in DOMAIN logins : logins[l] <= 1
=============================================================================
