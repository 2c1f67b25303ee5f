------------------------------ MODULE Accounts ------------------------------
(***************************************************************************)
(* User accounts of the server: the users, sessions and api_keys tables    *)
(* and the handlers that change them, from src/crates/domarinn-server:     *)
(* accounts.rs, auth.rs, storage/auth.rs and sso/provision.rs.             *)
(*                                                                         *)
(* Every storage call is one serialised transaction; a handler makes       *)
(* several, with password hashing between them, so what one request read   *)
(* is old by the time it writes.  A request is a record that carries what  *)
(* it read to its next step.                                               *)
(***************************************************************************)
EXTENDS Naturals, FiniteSets

CONSTANTS Users,       \* ids, each minted at most once
          NameOf,      \* the username an id is created with
          Tokens,      \* session tokens
          Keys,        \* ids of API keys
          Requests,    \* requests served at the same time
          Passwords,   \* password hashes
          Roles,       \* of "admin", "member" and "viewer"
          NoOne,       \* no user, session, key or password
          MaxRequests  \* bound: the requests of a behaviour

ASSUME AccountsAssumption ==
    /\ NoOne \notin Users \cup Tokens \cup Keys \cup Passwords
    /\ DOMAIN NameOf = Users
    /\ {"admin"} \subseteq Roles /\ Roles \subseteq {"admin", "member", "viewer"}

VARIABLES users,     \* id -> its row, or NoOne
          minted,    \* ids that were ever in use
          sessions,  \* token -> its row, or NoOne
          apiKeys,   \* key -> its row, or NoOne
          requests,  \* request -> where it is
          begun,     \* requests so far
          ended      \* history: tokens whose session was ended

accountVars == <<users, minted, sessions, apiKeys, requests, begun, ended>>

----------------------------------------------------------------------------
(* Roles, scopes and credentials.                                          *)

\* A scope is the number of the enum, so the order of scopes is <=.
Scopes == 1 .. 3

ForRole(role) == CASE role = "admin" -> 3 [] role = "member" -> 2 [] OTHER -> 1

Least(a, b) == IF a <= b THEN a ELSE b

\* `sso': the account was made by a provider's login and has its identity.
UserRow == [role : Roles, disabled : BOOLEAN, password : Passwords \cup {NoOne},
            sso : BOOLEAN]

LocalUser(role, p) == [role |-> role, disabled |-> FALSE, password |-> p, sso |-> FALSE]

SsoUser(role) == [role |-> role, disabled |-> FALSE, password |-> NoOne, sso |-> TRUE]

SessionRow == [user : Users]

KeyRow == [user : Users, scope : Scopes, revoked : BOOLEAN]

ASSUME RowsAssumption == NoOne \notin UserRow \cup SessionRow \cup KeyRow

Exists(u) == u # NoOne /\ users[u] # NoOne

EnabledAdmin(row) == row # NoOne /\ row.role = "admin" /\ ~row.disabled

EnabledAdmins == {u \in Users : EnabledAdmin(users[u])}

\* A count that forgets to leave out the disabled ones.
OtherAdminsAny(u) == {v \in Users \ {u} : users[v] # NoOne /\ users[v].role = "admin"}

OtherAdmins(u) == EnabledAdmins \ {u}

\* Who a credential stands for now; a disabled owner's never authenticate.
Anonymous == [user |-> NoOne, scope |-> 0, role |-> NoOne, token |-> NoOne]

OperatorToken == [user |-> NoOne, scope |-> 3, role |-> NoOne, token |-> NoOne]

QuerySession(t) ==
    LET row == sessions[t] IN
    IF row = NoOne \/ ~Exists(row.user) \/ users[row.user].disabled THEN Anonymous
    ELSE [user |-> row.user, scope |-> ForRole(users[row.user].role),
          role |-> users[row.user].role, token |-> t]

QueryApiKey(k) ==
    LET row == apiKeys[k] IN
    IF row = NoOne \/ row.revoked \/ ~Exists(row.user) \/ users[row.user].disabled
    THEN Anonymous
    ELSE [user |-> row.user,
          scope |-> Least(row.scope, ForRole(users[row.user].role)),
          role |-> users[row.user].role, token |-> NoOne]

\* The authenticators look a credential up in every request: nothing is kept of
\* an earlier answer but when a use was last written down.
lookup_session(t) == QuerySession(t)
lookup_api_key(k) == QueryApiKey(k)

Authenticate == {OperatorToken} \cup {lookup_session(t) : t \in Tokens}
                                \cup {lookup_api_key(k) : k \in Keys}

\* A closed server: a route is open to a scope that includes its own.
Granted(identity, route) == identity.scope >= route

----------------------------------------------------------------------------
(* Storage transactions, as the tables they leave.                         *)

Taken(name) == \E u \in Users : users[u] # NoOne /\ NameOf[u] = name

InsertUser(u, row) ==
    /\ u \notin minted /\ ~Taken(NameOf[u])
    /\ users' = [users EXCEPT ![u] = row]
    /\ minted' = minted \cup {u}

delete_session(t) ==
    /\ sessions' = [sessions EXCEPT ![t] = NoOne]
    /\ ended' = ended \cup {t}

create_api_key(k, u, scope) ==
    apiKeys' = [apiKeys EXCEPT ![k] = [user |-> u, scope |-> scope, revoked |-> FALSE]]

revoke_api_key(k) == apiKeys' = [apiKeys EXCEPT ![k].revoked = TRUE]

\* A revocation that leaves the rows.
RevokedNone(u, keep) == sessions

\* The rows of a user that a revocation leaves: none, or the one it spares.
Revoked(u, keep) ==
    [t \in Tokens |-> IF sessions[t] # NoOne /\ sessions[t].user = u /\ t # keep
                      THEN NoOne ELSE sessions[t]]

\* The sessions an account has when it is disabled, deleted or given a new
\* password: what `ended' remembers, whatever becomes of their rows.
SessionsOf(u, keep) ==
    {t \in Tokens \ {keep} : sessions[t] # NoOne /\ sessions[t].user = u}

UpdateRoleAndDisabled(u, role, disabled) ==
    /\ Exists(u)
    /\ EnabledAdmin(users[u]) /\ (role # "admin" \/ disabled) => OtherAdmins(u) # {}
    /\ users' = [users EXCEPT ![u].role = role, ![u].disabled = disabled]
    /\ sessions' = IF disabled /\ ~users[u].disabled THEN Revoked(u, NoOne)
                                                     ELSE sessions
    /\ ended' = IF disabled /\ ~users[u].disabled THEN ended \cup SessionsOf(u, NoOne)
                                                  ELSE ended

\* Its two refusals: the user is gone, or is the last enabled administrator.
UpdateRefused(u, role, disabled) ==
    \/ ~Exists(u)
    \/ EnabledAdmin(users[u]) /\ (role # "admin" \/ disabled) /\ OtherAdmins(u) = {}

UpdatePassword(u, password, keep) ==
    IF Exists(u)
    THEN /\ users' = [users EXCEPT ![u].password = password]
         /\ sessions' = Revoked(u, keep)
         /\ ended' = ended \cup SessionsOf(u, keep)
    ELSE UNCHANGED <<users, sessions, ended>>

\* Deleting a user deletes its sessions and its keys with it.
RemoveUser(u) ==
    /\ Exists(u)
    /\ EnabledAdmin(users[u]) => OtherAdmins(u) # {}
    /\ users' = [users EXCEPT ![u] = NoOne]
    /\ sessions' = Revoked(u, NoOne)
    /\ ended' = ended \cup SessionsOf(u, NoOne)
    /\ apiKeys' = [k \in Keys |-> IF apiKeys[k] # NoOne /\ apiKeys[k].user = u
                                  THEN NoOne ELSE apiKeys[k]]

----------------------------------------------------------------------------
(* Requests.                                                               *)

Idle == [kind |-> "idle"]

\* A random token: neither stored nor remembered by a request.
FreshTokens ==
    {t \in Tokens : /\ sessions[t] = NoOne
                    /\ \A r \in Requests : requests[r] # Idle => requests[r].token # t}

Moves(r, to) == requests' = [requests EXCEPT ![r] = to]

Ends(r) == Moves(r, Idle)

Begin(r, to) ==
    /\ requests[r] = Idle /\ begun < MaxRequests
    /\ begun' = begun + 1
    /\ Moves(r, to)

At(r, kind) == requests[r].kind = kind

Request(kind, user, row, arg, token) ==
    [kind |-> kind, user |-> user, row |-> row, arg |-> arg, token |-> token]

\* issue_session refers to the user's row, which must still be there.
IssueSession(r) ==
    /\ At(r, "issue")
    /\ \/ /\ Exists(requests[r].user)
          /\ \E t \in FreshTokens :
                /\ sessions' = [sessions EXCEPT ![t] = [user |-> requests[r].user]]
                /\ ended' = ended \ {t}
       \/ ~Exists(requests[r].user) /\ UNCHANGED <<sessions, ended>>
    /\ Ends(r)
    /\ UNCHANGED <<users, minted, apiKeys, begun>>

Issue(u) == Request("issue", u, NoOne, NoOne, NoOne)

\* POST /auth/setup counts the users, hashes, then creates an administrator.
BeginSetup(r) ==
    /\ \A u \in Users : users[u] = NoOne
    /\ Begin(r, Request("setup", NoOne, NoOne, NoOne, NoOne))
    /\ UNCHANGED <<users, minted, sessions, ended, apiKeys>>

FinishSetup(r) ==
    /\ At(r, "setup")
    /\ \E u \in Users \ minted, p \in Passwords :
          IF Taken(NameOf[u])
          THEN Ends(r) /\ UNCHANGED <<users, minted>>
          ELSE /\ InsertUser(u, LocalUser("admin", p))
               /\ Moves(r, Issue(u))
    /\ UNCHANGED <<sessions, ended, apiKeys, begun>>

\* POST /auth/login reads the row, reserves an attempt and verifies apart.
BeginLogin(r) ==
    /\ \E u \in Users, p \in Passwords :
          /\ users[u] # NoOne
          /\ Begin(r, Request("login", u, users[u], p, NoOne))
    /\ UNCHANGED <<users, minted, sessions, ended, apiKeys>>

\* The row that was read decides; a locked counter ends the request too.
FinishLogin(r) ==
    /\ At(r, "login")
    /\ \/ /\ requests[r].row.password = requests[r].arg
          /\ ~requests[r].row.disabled
          /\ Moves(r, Issue(requests[r].user))
       \/ Ends(r)
    /\ UNCHANGED <<users, minted, sessions, ended, apiKeys, begun>>

\* POST /auth/password: the current one is verified, the new one replaces it.
BeginChangePassword(r) ==
    /\ \E who \in Authenticate, p \in Passwords :
          /\ Granted(who, 1) /\ Exists(who.user) /\ users[who.user].password # NoOne
          /\ Begin(r, Request("password", who.user, users[who.user], p, who.token))
    /\ UNCHANGED <<users, minted, sessions, ended, apiKeys>>

FinishChangePassword(r) ==
    /\ At(r, "password")
    /\ \/ UpdatePassword(requests[r].user, requests[r].arg, requests[r].token)
       \/ UNCHANGED <<users, sessions, ended>>   \* wrong password, or too many tries
    /\ Ends(r)
    /\ UNCHANGED <<minted, apiKeys, begun>>

\* PATCH /users/{id}: role and disabled in one transaction, then the password.
BeginPatchUser(r) ==
    /\ \E who \in Authenticate, u \in Users, role \in Roles, disabled \in BOOLEAN :
          /\ Granted(who, 3) /\ Exists(u)
          /\ Begin(r, Request("patch", u, [role |-> role, disabled |-> disabled], NoOne,
                              IF who.user = u THEN who.token ELSE NoOne))
    /\ UNCHANGED <<users, minted, sessions, ended, apiKeys>>

PatchRole(r) ==
    /\ At(r, "patch")
    /\ LET u == requests[r].user  new == requests[r].row IN
       \/ /\ UpdateRoleAndDisabled(u, new.role, new.disabled)
          /\ \/ Moves(r, [requests[r] EXCEPT !.kind = "reset"])
             \/ Ends(r)
       \/ /\ UpdateRefused(u, new.role, new.disabled)
          /\ Ends(r)
          /\ UNCHANGED <<users, sessions, ended>>
    /\ UNCHANGED <<minted, apiKeys, begun>>

PatchPassword(r) ==
    /\ At(r, "reset")
    /\ \E p \in Passwords : UpdatePassword(requests[r].user, p, requests[r].token)
    /\ Ends(r)
    /\ UNCHANGED <<minted, apiKeys, begun>>

\* DELETE /users/{id} and POST /users make one storage call after the check.
DeleteUser ==
    /\ \E who \in Authenticate : Granted(who, 3)
    /\ \E u \in Users : RemoveUser(u)
    /\ UNCHANGED <<minted, requests, begun>>

CreateUser ==
    /\ \E who \in Authenticate : Granted(who, 3)
    /\ \E u \in Users, role \in Roles, p \in Passwords :
          InsertUser(u, LocalUser(role, p))
    /\ UNCHANGED <<sessions, ended, apiKeys, requests, begun>>

Logout(t) ==
    /\ lookup_session(t) # Anonymous
    /\ delete_session(t)
    /\ UNCHANGED <<users, minted, apiKeys, requests, begun>>

\* An expired row is refused like an absent one until it is pruned.
PruneExpiredSession(t) ==
    /\ sessions[t] # NoOne
    /\ delete_session(t)
    /\ UNCHANGED <<users, minted, apiKeys, requests, begun>>

\* A key takes at most the scope its maker has at that moment.
CreateApiKey(k) ==
    /\ apiKeys[k] = NoOne
    /\ \E who \in Authenticate, scope \in Scopes :
          /\ Granted(who, 1) /\ Exists(who.user) /\ scope <= who.scope
          /\ create_api_key(k, who.user, scope)
    /\ UNCHANGED <<users, minted, sessions, ended, requests, begun>>

\* By its owner or by an administrator's account.
DeleteApiKey(k) ==
    /\ apiKeys[k] # NoOne
    /\ \E who \in Authenticate :
          /\ Granted(who, 1) /\ who.user # NoOne
          /\ who.user = apiKeys[k].user \/ who.role = "admin"
    /\ revoke_api_key(k)
    /\ UNCHANGED <<users, minted, sessions, ended, requests, begun>>

\* A single sign-on login of a known identity, or of one not seen before.
BeginSsoLogin(r) ==
    /\ \E role \in Roles :
          \/ \E u \in Users :
                /\ Exists(u) /\ users[u].sso /\ ~users[u].disabled
                /\ Begin(r, Request("sync", u, users[u], role, NoOne))
          \/ Begin(r, Request("provision", NoOne, NoOne, role, NoOne))
    /\ UNCHANGED <<users, minted, sessions, ended, apiKeys>>

\* A new account has no password; two first logins of it meet a unique index.
CreateSsoUser(r) ==
    /\ At(r, "provision")
    /\ \/ \E u \in Users :
             /\ InsertUser(u, SsoUser(requests[r].arg))
             /\ Moves(r, Issue(u))
       \/ Ends(r) /\ UNCHANGED <<users, minted>>
    /\ UNCHANGED <<sessions, ended, apiKeys, begun>>

\* The provider's role replaces the account's; the last admin keeps its own.
SyncSsoRole(r) ==
    /\ At(r, "sync")
    /\ LET u == requests[r].user  role == requests[r].arg IN
       /\ \/ role = requests[r].row.role /\ UNCHANGED <<users, sessions, ended>>
          \/ /\ role # requests[r].row.role /\ Exists(u)
             /\ UpdateRoleAndDisabled(u, role, users[u].disabled)
          \/ /\ role # requests[r].row.role
             /\ ~Exists(u) \/ UpdateRefused(u, role, users[u].disabled)
             /\ UNCHANGED <<users, sessions, ended>>
       /\ Moves(r, IF Exists(u) THEN Issue(u) ELSE Idle)
    /\ UNCHANGED <<minted, apiKeys, begun>>

\* A restart drops the requests; the configured administrator is put back.
BootstrapAdmin ==
    /\ \E u \in Users, p \in Passwords :
          IF Exists(u)
          THEN /\ users' = [users EXCEPT ![u].role = "admin", ![u].disabled = FALSE,
                                      ![u].password = p]
               /\ IF users[u].password = p
                  THEN UNCHANGED <<sessions, ended>>
                  ELSE /\ sessions' = Revoked(u, NoOne)
                       /\ ended' = ended \cup SessionsOf(u, NoOne)
               /\ UNCHANGED minted
          ELSE /\ InsertUser(u, LocalUser("admin", p))
               /\ UNCHANGED <<sessions, ended>>
    /\ requests' = [r \in Requests |-> Idle]
    /\ begun < MaxRequests /\ begun' = begun + 1
    /\ UNCHANGED apiKeys

----------------------------------------------------------------------------
AccountsInit ==
    /\ users = [u \in Users |-> NoOne]
    /\ minted = {}
    /\ sessions = [t \in Tokens |-> NoOne]
    /\ apiKeys = [k \in Keys |-> NoOne]
    /\ requests = [r \in Requests |-> Idle]
    /\ begun = 0
    /\ ended = {}

Serve(r) == \/ BeginSetup(r) \/ FinishSetup(r) \/ BeginLogin(r) \/ FinishLogin(r)
            \/ BeginChangePassword(r) \/ FinishChangePassword(r)
            \/ BeginPatchUser(r) \/ PatchRole(r) \/ PatchPassword(r)
            \/ BeginSsoLogin(r) \/ CreateSsoUser(r) \/ SyncSsoRole(r)
            \/ IssueSession(r)

AccountsNext ==
    \/ \E r \in Requests : Serve(r)
    \/ DeleteUser \/ CreateUser \/ BootstrapAdmin
    \/ \E t \in Tokens : Logout(t) \/ PruneExpiredSession(t)
    \/ \E k \in Keys : CreateApiKey(k) \/ DeleteApiKey(k)

AccountsSpec == AccountsInit /\ [][AccountsNext]_accountVars

----------------------------------------------------------------------------
(* Properties.                                                             *)

AccountsTypeOK ==
    /\ users \in [Users -> UserRow \cup {NoOne}]
    /\ minted \subseteq Users
    /\ sessions \in [Tokens -> SessionRow \cup {NoOne}]
    /\ apiKeys \in [Keys -> KeyRow \cup {NoOne}]
    /\ ended \subseteq Tokens

\* Requests that demote, disable or delete administrators overlap, and a
\* login through a provider may demote too; once the server has an enabled
\* administrator no step leaves it without one (storage/auth.rs: "so the
\* instance always keeps at least one").
AdminRemains == [][EnabledAdmins # {} => EnabledAdmins' # {}]_accountVars

\* A token whose session its user's logout, new password, disabling or deletion
\* ended authenticates no one from then on, whatever the account becomes later
\* (enabled again, given another password, put back by the configuration);
\* only the session that asked for its own password change is spared.  And no
\* session or key is left of a user that is gone.
RevocationIsFinal ==
    /\ \A t \in ended : lookup_session(t) = Anonymous
    /\ \A t \in Tokens : sessions[t] # NoOne => Exists(sessions[t].user)
    /\ \A k \in Keys : apiKeys[k] # NoOne => Exists(apiKeys[k].user)
=============================================================================
