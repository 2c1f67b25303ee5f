--------------------------- MODULE AccountsProofs ---------------------------
(***************************************************************************)
(* Safety of Accounts for any users, sessions, keys and requests: the last *)
(* administrator stays, and what was revoked stays revoked; and of         *)
(* LoginAttempts for any counters, policies and checks: the locks hold;    *)
(* and of SsoLogins: no sign-in happens twice.                             *)
(***************************************************************************)
EXTENDS Accounts, LoginAttempts, SsoLogins, TLAPS

RequestKinds == {"setup", "login", "password", "patch", "reset", "provision", "sync", "issue"}

RequestRow ==
    {Idle} \cup
    [kind : RequestKinds, user : Users \cup {NoOne},
     row : UserRow \cup [role : Roles, disabled : BOOLEAN] \cup {NoOne},
     arg : Roles \cup Passwords \cup {NoOne}, token : Tokens \cup {NoOne}]

\* What a request may carry, by where it is.
Carries(q) ==
    /\ q.kind \in {"login", "password", "patch", "reset", "sync", "issue"} => q.user \in Users
    /\ q.kind = "password" => q.arg \in Passwords
    /\ q.kind \in {"patch", "reset"} => q.row.role \in Roles /\ q.row.disabled \in BOOLEAN
    /\ q.kind \in {"sync", "provision"} => q.arg \in Roles

RequestsOK == requests \in [Requests -> RequestRow] /\ \A r \in Requests : Carries(requests[r])

\* Every credential has an owner, and no session outlived its revocation: an
\* ended one has no row, which also keeps it from an account enabled again.
Owned ==
    /\ \A t \in ended : sessions[t] = NoOne
    /\ \A t \in Tokens : sessions[t] # NoOne => Exists(sessions[t].user)
    /\ \A k \in Keys : apiKeys[k] # NoOne => Exists(apiKeys[k].user)

AccountsInv == AccountsTypeOK /\ RequestsOK /\ Owned

LEMMA AccountsInvInit == AccountsInit => AccountsInv
<1> SUFFICES ASSUME AccountsInit PROVE AccountsInv
  OBVIOUS
<1>1. AccountsTypeOK /\ Owned
  BY DEF AccountsInit, AccountsTypeOK, Owned
<1>2. RequestsOK
  BY DEF AccountsInit, RequestsOK, RequestRow, Carries, Idle
<1> QED
  BY <1>1, <1>2 DEF AccountsInv

-----------------------------------------------------------------------------
(* Who may ask.                                                            *)

LEMMA IdentityType ==
    ASSUME AccountsInv, NEW who \in Authenticate
    PROVE  /\ who.user \in Users \cup {NoOne}
           /\ who.token \in Tokens \cup {NoOne}
           /\ who.user # NoOne => /\ users[who.user] \in UserRow
                                  /\ ~users[who.user].disabled
                                  /\ who.scope <= ForRole(users[who.user].role)
<1> USE RowsAssumption, AccountsAssumption DEF AccountsInv, AccountsTypeOK
<1>1. CASE who = OperatorToken
  BY <1>1 DEF OperatorToken
<1>2. ASSUME NEW t \in Tokens, who = lookup_session(t)
      PROVE  /\ who.user \in Users \cup {NoOne}
             /\ who.token \in Tokens \cup {NoOne}
             /\ who.user # NoOne => /\ users[who.user] \in UserRow
                                    /\ ~users[who.user].disabled
                                    /\ who.scope <= ForRole(users[who.user].role)
  <2>1. CASE sessions[t] = NoOne \/ ~Exists(sessions[t].user) \/ users[sessions[t].user].disabled
    BY <1>2, <2>1 DEF lookup_session, QuerySession, Anonymous
  <2>2. CASE ~(sessions[t] = NoOne \/ ~Exists(sessions[t].user) \/ users[sessions[t].user].disabled)
    <3>1. sessions[t].user \in Users /\ users[sessions[t].user] \in UserRow
      BY <2>2 DEF SessionRow, Exists
    <3>2. /\ who.user = sessions[t].user /\ who.token = t
          /\ who.scope = ForRole(users[sessions[t].user].role)
      BY <1>2, <2>2 DEF lookup_session, QuerySession
    <3>3. ForRole(users[sessions[t].user].role) \in Nat
      BY DEF ForRole
    <3> QED
      BY <2>2, <3>1, <3>2, <3>3
  <2> QED
    BY <2>1, <2>2
<1>3. ASSUME NEW k \in Keys, who = lookup_api_key(k)
      PROVE  /\ who.user \in Users \cup {NoOne}
             /\ who.token \in Tokens \cup {NoOne}
             /\ who.user # NoOne => /\ users[who.user] \in UserRow
                                    /\ ~users[who.user].disabled
                                    /\ who.scope <= ForRole(users[who.user].role)
  <2> DEFINE row == apiKeys[k]
             refused == row = NoOne \/ row.revoked \/ ~Exists(row.user) \/ users[row.user].disabled
  <2>1. CASE refused
    BY <1>3, <2>1 DEF lookup_api_key, QueryApiKey, Anonymous
  <2>2. CASE ~refused
    <3>1. row.user \in Users /\ users[row.user] \in UserRow /\ row.scope \in Nat
      BY <2>2 DEF KeyRow, Exists, Scopes
    <3>2. /\ who.user = row.user /\ who.token = NoOne
          /\ who.scope = Least(row.scope, ForRole(users[row.user].role))
      BY <1>3, <2>2 DEF lookup_api_key, QueryApiKey
    <3>3. ForRole(users[row.user].role) \in Nat
      BY DEF ForRole
    <3>4. Least(row.scope, ForRole(users[row.user].role)) <= ForRole(users[row.user].role)
      BY <3>1, <3>3 DEF Least
    <3> QED
      BY <2>2, <3>1, <3>2, <3>4
  <2> QED
    BY <2>1, <2>2
<1> QED
  BY <1>1, <1>2, <1>3 DEF Authenticate

-----------------------------------------------------------------------------
(* What a step must keep.                                                  *)

KeepsAnAdmin == EnabledAdmins # {} => EnabledAdmins' # {}

\* A step leaves the tables typed and owned, and an administrator if there was.
TablesKept == AccountsTypeOK' /\ Owned' /\ KeepsAnAdmin

\* Sessions and keys only go, the ended sessions with them; users only change.
Shrinks ==
    /\ \A t \in ended' \ ended : sessions'[t] = NoOne
    /\ \A t \in Tokens : sessions'[t] \in {NoOne, sessions[t]}
    /\ \A k \in Keys : apiKeys'[k] \in {NoOne, apiKeys[k]}
    /\ \A u \in Users : users[u] # NoOne => users'[u] # NoOne

LEMMA OwnedShrinks ==
    ASSUME AccountsInv, Shrinks
    PROVE  Owned'
BY DEF AccountsInv, AccountsTypeOK, Owned, Shrinks, Exists, SessionRow, KeyRow

LEMMA TablesUnchanged ==
    ASSUME AccountsInv, UNCHANGED <<users, minted, sessions, ended, apiKeys>>
    PROVE  TablesKept
BY DEF AccountsInv, AccountsTypeOK, TablesKept, Owned, Exists, KeepsAnAdmin, EnabledAdmins,
       EnabledAdmin

LEMMA RequestsUnchanged ==
    ASSUME AccountsInv, UNCHANGED requests
    PROVE  RequestsOK'
BY DEF AccountsInv, RequestsOK, Carries

LEMMA RequestMoves ==
    ASSUME AccountsInv, NEW r \in Requests, NEW to \in RequestRow, Carries(to), Moves(r, to)
    PROVE  RequestsOK'
BY DEF AccountsInv, RequestsOK, Moves

LEMMA RequestEnds ==
    ASSUME AccountsInv, NEW r \in Requests, Ends(r)
    PROVE  RequestsOK'
<1>1. Idle \in RequestRow /\ Carries(Idle)
  BY DEF RequestRow, Carries, Idle
<1> QED
  BY <1>1, RequestMoves DEF Ends

LEMMA IssueType ==
    ASSUME NEW u \in Users
    PROVE  Issue(u) \in RequestRow /\ Carries(Issue(u))
BY DEF Issue, Request, RequestRow, RequestKinds, Carries

LEMMA RevokedType ==
    ASSUME AccountsInv, NEW u, NEW keep
    PROVE  /\ Revoked(u, keep) \in [Tokens -> SessionRow \cup {NoOne}]
           /\ \A t \in Tokens : Revoked(u, keep)[t] \in {NoOne, sessions[t]}
           /\ SessionsOf(u, keep) \subseteq Tokens
           /\ \A t \in SessionsOf(u, keep) : Revoked(u, keep)[t] = NoOne
BY DEF AccountsInv, AccountsTypeOK, Revoked, SessionsOf

-----------------------------------------------------------------------------
(* The storage transactions.                                               *)

LEMMA InsertKeeps ==
    ASSUME AccountsInv, NEW u \in Users, NEW row \in UserRow, InsertUser(u, row),
           UNCHANGED <<sessions, ended, apiKeys>>
    PROVE  TablesKept
<1>1. users[u] = NoOne
  BY DEF InsertUser, Taken
<1>2. \A v \in Users : users[v] # NoOne => users'[v] = users[v]
  BY <1>1 DEF InsertUser, AccountsInv, AccountsTypeOK
<1>3. AccountsTypeOK'
  BY DEF InsertUser, AccountsInv, AccountsTypeOK
<1>4. Owned'
  BY <1>2, OwnedShrinks DEF Shrinks
<1>5. KeepsAnAdmin
  BY <1>2 DEF KeepsAnAdmin, EnabledAdmins, EnabledAdmin
<1> QED
  BY <1>3, <1>4, <1>5 DEF TablesKept

\* The guard on the last administrator is in the transaction that demotes.
LEMMA UpdateKeeps ==
    ASSUME AccountsInv, NEW u \in Users, NEW role \in Roles, NEW disabled \in BOOLEAN,
           UpdateRoleAndDisabled(u, role, disabled), UNCHANGED <<minted, apiKeys>>
    PROVE  TablesKept
<1>1. /\ users[u] \in UserRow
      /\ users' = [users EXCEPT ![u] = [@ EXCEPT !.role = role, !.disabled = disabled]]
  BY DEF UpdateRoleAndDisabled, Exists, AccountsInv, AccountsTypeOK
<1>2. /\ users'[u] \in UserRow /\ users'[u].role = role /\ users'[u].disabled = disabled
      /\ \A v \in Users \ {u} : users'[v] = users[v]
      /\ users' \in [Users -> UserRow \cup {NoOne}]
  BY <1>1 DEF UserRow, AccountsInv, AccountsTypeOK
<1>3. /\ sessions' \in [Tokens -> SessionRow \cup {NoOne}]
      /\ \A t \in Tokens : sessions'[t] \in {NoOne, sessions[t]}
      /\ ended' \subseteq Tokens /\ \A t \in ended' \ ended : sessions'[t] = NoOne
  BY RevokedType DEF UpdateRoleAndDisabled, AccountsInv, AccountsTypeOK
<1>4. AccountsTypeOK'
  BY <1>2, <1>3 DEF AccountsInv, AccountsTypeOK
<1>5. Owned'
  BY <1>2, <1>3, RowsAssumption, OwnedShrinks DEF Shrinks
<1>6. KeepsAnAdmin
  <2> SUFFICES ASSUME NEW w \in EnabledAdmins PROVE EnabledAdmins' # {}
    BY DEF KeepsAnAdmin
  <2>1. CASE w # u
    BY <1>2, <2>1 DEF EnabledAdmins, EnabledAdmin
  <2>2. CASE w = u /\ role = "admin" /\ ~disabled
    BY <1>2, <2>2, RowsAssumption DEF EnabledAdmins, EnabledAdmin
  <2>3. CASE w = u /\ (role # "admin" \/ disabled)
    <3>1. OtherAdmins(u) # {}
      BY <2>3 DEF UpdateRoleAndDisabled, EnabledAdmins
    <3> QED
      BY <1>2, <3>1 DEF OtherAdmins, EnabledAdmins, EnabledAdmin
  <2> QED
    BY <2>1, <2>2, <2>3
<1> QED
  BY <1>4, <1>5, <1>6 DEF TablesKept

LEMMA PasswordKeeps ==
    ASSUME AccountsInv, NEW u \in Users, NEW p \in Passwords, NEW keep,
           UpdatePassword(u, p, keep), UNCHANGED <<minted, apiKeys>>
    PROVE  TablesKept
<1>1. CASE ~Exists(u)
  BY <1>1, TablesUnchanged DEF UpdatePassword
<1>2. CASE Exists(u)
  <2>1. /\ users[u] \in UserRow
        /\ users' = [users EXCEPT ![u] = [@ EXCEPT !.password = p]]
        /\ sessions' = Revoked(u, keep)
        /\ ended' = ended \cup SessionsOf(u, keep)
    BY <1>2 DEF UpdatePassword, Exists, AccountsInv, AccountsTypeOK
  <2>2. /\ users'[u] \in UserRow /\ users'[u].role = users[u].role
        /\ users'[u].disabled = users[u].disabled
        /\ \A v \in Users \ {u} : users'[v] = users[v]
        /\ users' \in [Users -> UserRow \cup {NoOne}]
    BY <2>1 DEF UserRow, AccountsInv, AccountsTypeOK
  <2>3. AccountsTypeOK'
    BY <2>1, <2>2, RevokedType DEF AccountsInv, AccountsTypeOK
  <2>4. Owned'
    BY <2>1, <2>2, RevokedType, RowsAssumption, OwnedShrinks DEF Shrinks
  <2>5. KeepsAnAdmin
    BY <2>2, RowsAssumption DEF KeepsAnAdmin, EnabledAdmins, EnabledAdmin
  <2> QED
    BY <2>3, <2>4, <2>5 DEF TablesKept
<1> QED
  BY <1>1, <1>2

LEMMA RemoveKeeps ==
    ASSUME AccountsInv, NEW u \in Users, RemoveUser(u), UNCHANGED minted
    PROVE  TablesKept
<1>1. /\ users' \in [Users -> UserRow \cup {NoOne}]
      /\ \A v \in Users \ {u} : users'[v] = users[v]
  BY DEF RemoveUser, AccountsInv, AccountsTypeOK
<1>2. AccountsTypeOK'
  BY <1>1, RevokedType DEF RemoveUser, AccountsInv, AccountsTypeOK
<1>3. Owned'
  <2>1. ASSUME NEW t \in Tokens, sessions'[t] # NoOne
        PROVE  sessions'[t] = sessions[t] /\ sessions[t].user # u /\ sessions[t].user \in Users
    <3>1. sessions[t] # NoOne /\ sessions[t].user # u /\ sessions'[t] = sessions[t]
      BY <2>1, AccountsAssumption DEF RemoveUser, Revoked
    <3> QED
      BY <3>1 DEF AccountsInv, AccountsTypeOK, SessionRow
  <2>2. ASSUME NEW k \in Keys, apiKeys'[k] # NoOne
        PROVE  apiKeys'[k] = apiKeys[k] /\ apiKeys[k].user # u /\ apiKeys[k].user \in Users
    <3>1. apiKeys[k] # NoOne /\ apiKeys[k].user # u /\ apiKeys'[k] = apiKeys[k]
      BY <2>2 DEF RemoveUser
    <3> QED
      BY <3>1 DEF AccountsInv, AccountsTypeOK, KeyRow
  <2>3. ASSUME NEW t \in ended' PROVE sessions'[t] = NoOne
    <3>1. t \in ended \/ t \in SessionsOf(u, NoOne)
      BY <2>3 DEF RemoveUser
    <3>2. CASE t \in SessionsOf(u, NoOne)
      BY <3>2, RevokedType DEF RemoveUser
    <3>3. CASE t \in ended
      BY <3>3, RevokedType DEF RemoveUser, AccountsInv, AccountsTypeOK, Owned
    <3> QED
      BY <3>1, <3>2, <3>3
  <2> QED
    BY <1>1, <2>1, <2>2, <2>3 DEF AccountsInv, Owned, Exists
<1>4. KeepsAnAdmin
  <2> SUFFICES ASSUME NEW w \in EnabledAdmins PROVE EnabledAdmins' # {}
    BY DEF KeepsAnAdmin
  <2>1. CASE w # u
    BY <1>1, <2>1 DEF EnabledAdmins, EnabledAdmin
  <2>2. CASE w = u
    <3>1. OtherAdmins(u) # {}
      BY <2>2 DEF RemoveUser, EnabledAdmins
    <3> QED
      BY <1>1, <3>1 DEF OtherAdmins, EnabledAdmins, EnabledAdmin
  <2> QED
    BY <2>1, <2>2
<1> QED
  BY <1>2, <1>3, <1>4 DEF TablesKept

-----------------------------------------------------------------------------
(* The steps of a request.                                                 *)

\* A request that begins reads the tables and changes none of them.
LEMMA BeginKeeps ==
    ASSUME AccountsInv, NEW r \in Requests, NEW to \in RequestRow, Carries(to), Begin(r, to),
           UNCHANGED <<users, minted, sessions, ended, apiKeys>>
    PROVE  TablesKept /\ RequestsOK'
BY TablesUnchanged, RequestMoves DEF Begin

LEMMA BeginningsKeep ==
    ASSUME AccountsInv, NEW r \in Requests,
           \/ BeginSetup(r) \/ BeginLogin(r) \/ BeginChangePassword(r)
           \/ BeginPatchUser(r) \/ BeginSsoLogin(r)
    PROVE  TablesKept /\ RequestsOK'
<1> USE DEF Request, RequestRow, RequestKinds, Carries
<1>0. \A u \in Users : users[u] # NoOne => users[u] \in UserRow
  BY DEF AccountsInv, AccountsTypeOK
<1>1. CASE BeginSetup(r)
  BY <1>1, BeginKeeps DEF BeginSetup
<1>2. CASE BeginLogin(r)
  <2>1. PICK u \in Users, p \in Passwords :
           users[u] # NoOne /\ Begin(r, Request("login", u, users[u], p, NoOne))
    BY <1>2 DEF BeginLogin
  <2> QED
    BY <1>0, <1>2, <2>1, BeginKeeps DEF BeginLogin
<1>3. CASE BeginChangePassword(r)
  <2>1. PICK who \in Authenticate, p \in Passwords :
           /\ Exists(who.user)
           /\ Begin(r, Request("password", who.user, users[who.user], p, who.token))
    BY <1>3 DEF BeginChangePassword
  <2>2. who.user \in Users /\ who.token \in Tokens \cup {NoOne} /\ users[who.user] \in UserRow
    BY <2>1, IdentityType DEF Exists
  <2> QED
    BY <1>3, <2>1, <2>2, BeginKeeps DEF BeginChangePassword
<1>4. CASE BeginPatchUser(r)
  <2>1. PICK who \in Authenticate, u \in Users, role \in Roles, disabled \in BOOLEAN :
           Begin(r, Request("patch", u, [role |-> role, disabled |-> disabled], NoOne,
                            IF who.user = u THEN who.token ELSE NoOne))
    BY <1>4 DEF BeginPatchUser
  <2>2. (IF who.user = u THEN who.token ELSE NoOne) \in Tokens \cup {NoOne}
    BY IdentityType
  <2>3. /\ [role |-> role, disabled |-> disabled] \in [role : Roles, disabled : BOOLEAN]
        /\ [role |-> role, disabled |-> disabled].role \in Roles
        /\ [role |-> role, disabled |-> disabled].disabled \in BOOLEAN
    OBVIOUS
  <2> QED
    BY <1>4, <2>1, <2>2, <2>3, BeginKeeps DEF BeginPatchUser
<1>5. CASE BeginSsoLogin(r)
  <2>1. PICK role \in Roles :
           \/ \E u \in Users : Exists(u) /\ Begin(r, Request("sync", u, users[u], role, NoOne))
           \/ Begin(r, Request("provision", NoOne, NoOne, role, NoOne))
    BY <1>5 DEF BeginSsoLogin
  <2>2. ASSUME NEW u \in Users, Exists(u), Begin(r, Request("sync", u, users[u], role, NoOne))
        PROVE  TablesKept /\ RequestsOK'
    BY <1>0, <1>5, <2>2, BeginKeeps DEF BeginSsoLogin, Exists
  <2>3. CASE Begin(r, Request("provision", NoOne, NoOne, role, NoOne))
    BY <1>5, <2>3, BeginKeeps DEF BeginSsoLogin
  <2> QED
    BY <2>1, <2>2, <2>3
<1> QED
  BY <1>1, <1>2, <1>3, <1>4, <1>5

\* A session is issued to a user that is there at that moment.
LEMMA IssueKeeps ==
    ASSUME AccountsInv, NEW r \in Requests, IssueSession(r)
    PROVE  TablesKept /\ RequestsOK'
<1>1. RequestsOK'
  BY RequestEnds DEF IssueSession
<1>2. CASE UNCHANGED <<sessions, ended>>
  BY <1>1, <1>2, TablesUnchanged DEF IssueSession
<1>3. ASSUME Exists(requests[r].user), NEW t \in Tokens,
             sessions' = [sessions EXCEPT ![t] = [user |-> requests[r].user]],
             ended' = ended \ {t}
      PROVE  TablesKept
  <2>1. requests[r].user \in Users
    BY DEF IssueSession, At, AccountsInv, RequestsOK, Carries
  <2>2. UNCHANGED <<users, minted, apiKeys>>
    BY DEF IssueSession
  <2>3. AccountsTypeOK'
    BY <1>3, <2>1, <2>2 DEF AccountsInv, AccountsTypeOK, SessionRow
  <2>4. Owned'
    BY <1>3, <2>2 DEF AccountsInv, AccountsTypeOK, Owned, Exists
  <2>5. KeepsAnAdmin
    BY <2>2 DEF KeepsAnAdmin, EnabledAdmins, EnabledAdmin
  <2> QED
    BY <2>3, <2>4, <2>5 DEF TablesKept
<1> QED
  BY <1>1, <1>2, <1>3 DEF IssueSession, FreshTokens

LEMMA FinishesKeep ==
    ASSUME AccountsInv, NEW r \in Requests,
           \/ FinishSetup(r) \/ FinishLogin(r) \/ FinishChangePassword(r)
           \/ PatchRole(r) \/ PatchPassword(r)
    PROVE  TablesKept /\ RequestsOK'
<1>0. Carries(requests[r]) /\ requests[r] \in RequestRow
  BY DEF AccountsInv, RequestsOK
<1>1. CASE FinishSetup(r)
  <2>1. PICK u \in Users, p \in Passwords :
           IF Taken(NameOf[u])
           THEN Ends(r) /\ UNCHANGED <<users, minted>>
           ELSE InsertUser(u, LocalUser("admin", p)) /\ Moves(r, Issue(u))
    BY <1>1 DEF FinishSetup
  <2>2. LocalUser("admin", p) \in UserRow
    BY AccountsAssumption DEF LocalUser, UserRow
  <2>3. UNCHANGED <<sessions, ended, apiKeys>>
    BY <1>1 DEF FinishSetup
  <2>4. CASE Taken(NameOf[u])
    BY <2>1, <2>3, <2>4, TablesUnchanged, RequestEnds
  <2>5. CASE ~Taken(NameOf[u])
    BY <2>1, <2>2, <2>3, <2>5, InsertKeeps, IssueType, RequestMoves
  <2> QED
    BY <2>4, <2>5
<1>2. CASE FinishLogin(r)
  <2>1. requests[r].user \in Users
    BY <1>0, <1>2 DEF FinishLogin, At, Carries
  <2> QED
    BY <1>2, <2>1, TablesUnchanged, RequestEnds, IssueType, RequestMoves DEF FinishLogin
<1>3. CASE FinishChangePassword(r)
  <2>1. requests[r].user \in Users /\ requests[r].arg \in Passwords
    BY <1>0, <1>3 DEF FinishChangePassword, At, Carries
  <2>2. RequestsOK'
    BY <1>3, RequestEnds DEF FinishChangePassword
  <2> QED
    BY <1>3, <2>1, <2>2, PasswordKeeps, TablesUnchanged DEF FinishChangePassword
<1>4. CASE PatchRole(r)
  <2>1. /\ requests[r].user \in Users
        /\ requests[r].row.role \in Roles /\ requests[r].row.disabled \in BOOLEAN
        /\ requests[r].kind = "patch"
    BY <1>0, <1>4 DEF PatchRole, At, Carries
  <2>2. requests[r] # Idle
    BY <2>1 DEF Idle
  <2>3. [requests[r] EXCEPT !.kind = "reset"] \in RequestRow
    BY <1>0, <2>2 DEF RequestRow, RequestKinds
  <2>4. Carries([requests[r] EXCEPT !.kind = "reset"])
    BY <1>0, <2>1, <2>2 DEF RequestRow, Carries
  <2>5. TablesKept
    BY <1>4, <2>1, UpdateKeeps, TablesUnchanged DEF PatchRole
  <2>6. RequestsOK'
    BY <1>4, <2>3, <2>4, RequestMoves, RequestEnds DEF PatchRole
  <2> QED
    BY <2>5, <2>6
<1>5. CASE PatchPassword(r)
  <2>1. requests[r].user \in Users
    BY <1>0, <1>5 DEF PatchPassword, At, Carries
  <2> QED
    BY <1>5, <2>1, PasswordKeeps, RequestEnds DEF PatchPassword
<1> QED
  BY <1>1, <1>2, <1>3, <1>4, <1>5

LEMMA SsoLoginsKeep ==
    ASSUME AccountsInv, NEW r \in Requests, CreateSsoUser(r) \/ SyncSsoRole(r)
    PROVE  TablesKept /\ RequestsOK'
<1>0. Carries(requests[r])
  BY DEF AccountsInv, RequestsOK
<1>1. CASE CreateSsoUser(r)
  <2>1. \A u : SsoUser(requests[r].arg) \in UserRow
    BY <1>0, <1>1 DEF CreateSsoUser, At, Carries, SsoUser, UserRow
  <2>2. UNCHANGED <<sessions, ended, apiKeys>>
    BY <1>1 DEF CreateSsoUser
  <2>3. ASSUME NEW u \in Users, InsertUser(u, SsoUser(requests[r].arg)), Moves(r, Issue(u))
        PROVE  TablesKept /\ RequestsOK'
    BY <2>1, <2>2, <2>3, InsertKeeps, IssueType, RequestMoves
  <2>4. CASE Ends(r) /\ UNCHANGED <<users, minted>>
    BY <2>2, <2>4, TablesUnchanged, RequestEnds
  <2> QED
    BY <1>1, <2>3, <2>4 DEF CreateSsoUser
<1>2. CASE SyncSsoRole(r)
  <2>1. requests[r].user \in Users /\ requests[r].arg \in Roles
    BY <1>0, <1>2 DEF SyncSsoRole, At, Carries
  <2>2. UNCHANGED <<minted, apiKeys>>
    BY <1>2 DEF SyncSsoRole
  <2>3. TablesKept
    <3>1. CASE UNCHANGED <<users, sessions, ended>>
      BY <2>2, <3>1, TablesUnchanged
    <3>2. ASSUME Exists(requests[r].user),
                 UpdateRoleAndDisabled(requests[r].user, requests[r].arg,
                                       users[requests[r].user].disabled)
          PROVE  TablesKept
      <4>1. users[requests[r].user].disabled \in BOOLEAN
        BY <2>1, <3>2 DEF Exists, AccountsInv, AccountsTypeOK, UserRow
      <4> QED
        BY <2>1, <2>2, <3>2, <4>1, UpdateKeeps
    <3> QED
      BY <1>2, <3>1, <3>2 DEF SyncSsoRole
  <2>4. RequestsOK'
    <3>1. Moves(r, Issue(requests[r].user)) \/ Moves(r, Idle)
      BY <1>2 DEF SyncSsoRole
    <3> QED
      BY <2>1, <3>1, IssueType, RequestMoves, RequestEnds DEF Ends
  <2> QED
    BY <2>3, <2>4
<1> QED
  BY <1>1, <1>2

\* A restart never leaves fewer administrators.
LEMMA BootstrapKeeps ==
    ASSUME AccountsInv, BootstrapAdmin
    PROVE  TablesKept /\ RequestsOK'
<1>1. RequestsOK'
  BY DEF BootstrapAdmin, RequestsOK, RequestRow, Carries, Idle
<1>2. PICK u \in Users, p \in Passwords :
         IF Exists(u)
         THEN /\ users' = [users EXCEPT ![u].role = "admin", ![u].disabled = FALSE,
                                     ![u].password = p]
              /\ IF users[u].password = p
                 THEN UNCHANGED <<sessions, ended>>
                 ELSE /\ sessions' = Revoked(u, NoOne)
                      /\ ended' = ended \cup SessionsOf(u, NoOne)
              /\ UNCHANGED minted
         ELSE /\ InsertUser(u, LocalUser("admin", p))
              /\ UNCHANGED <<sessions, ended>>
  BY DEF BootstrapAdmin
<1>3. UNCHANGED apiKeys
  BY DEF BootstrapAdmin
<1>4. CASE ~Exists(u)
  <2>1. LocalUser("admin", p) \in UserRow
    BY AccountsAssumption DEF LocalUser, UserRow
  <2> QED
    BY <1>1, <1>2, <1>3, <1>4, <2>1, InsertKeeps
<1>5. CASE Exists(u)
  <2>1. /\ users[u] \in UserRow
        /\ users' = [users EXCEPT ![u] = [@ EXCEPT !.role = "admin", !.disabled = FALSE,
                                                   !.password = p]]
    BY <1>2, <1>5 DEF Exists, AccountsInv, AccountsTypeOK
  <2>2. /\ users'[u] \in UserRow /\ users'[u].role = "admin" /\ ~users'[u].disabled
        /\ \A v \in Users \ {u} : users'[v] = users[v]
        /\ users' \in [Users -> UserRow \cup {NoOne}]
    BY <2>1, AccountsAssumption DEF UserRow, AccountsInv, AccountsTypeOK
  <2>3. /\ sessions' \in [Tokens -> SessionRow \cup {NoOne}]
        /\ \A t \in Tokens : sessions'[t] \in {NoOne, sessions[t]}
        /\ ended' \subseteq Tokens /\ \A t \in ended' \ ended : sessions'[t] = NoOne
    BY <1>2, <1>5, RevokedType DEF AccountsInv, AccountsTypeOK
  <2>4. AccountsTypeOK'
    BY <1>2, <1>3, <1>5, <2>2, <2>3 DEF AccountsInv, AccountsTypeOK
  <2>5. Owned'
    BY <1>3, <2>2, <2>3, RowsAssumption, OwnedShrinks DEF Shrinks
  <2>6. KeepsAnAdmin
    BY <2>2, RowsAssumption DEF KeepsAnAdmin, EnabledAdmins, EnabledAdmin
  <2> QED
    BY <1>1, <2>4, <2>5, <2>6 DEF TablesKept
<1> QED
  BY <1>4, <1>5

\* Sessions end, and keys are made and revoked.
LEMMA CredentialsKeep ==
    ASSUME AccountsInv,
           \/ \E t \in Tokens : Logout(t) \/ PruneExpiredSession(t)
           \/ \E k \in Keys : CreateApiKey(k) \/ DeleteApiKey(k)
    PROVE  TablesKept /\ RequestsOK'
<1>0. /\ UNCHANGED <<users, minted, requests>>
      /\ KeepsAnAdmin
  BY DEF Logout, PruneExpiredSession, CreateApiKey, DeleteApiKey, KeepsAnAdmin, EnabledAdmins,
         EnabledAdmin
<1>1. RequestsOK'
  BY <1>0 DEF AccountsInv, RequestsOK
<1>2. ASSUME NEW t \in Tokens, Logout(t) \/ PruneExpiredSession(t)
      PROVE  AccountsTypeOK' /\ Owned'
  <2>1. /\ sessions' = [sessions EXCEPT ![t] = NoOne] /\ ended' = ended \cup {t}
        /\ UNCHANGED apiKeys
    BY <1>2 DEF Logout, delete_session, PruneExpiredSession
  <2> QED
    BY <1>0, <2>1, OwnedShrinks DEF AccountsInv, AccountsTypeOK, Shrinks
<1>3. ASSUME NEW k \in Keys, CreateApiKey(k)
      PROVE  AccountsTypeOK' /\ Owned'
  <2>1. PICK who \in Authenticate, scope \in Scopes :
           Exists(who.user) /\ create_api_key(k, who.user, scope)
    BY <1>3 DEF CreateApiKey
  <2>2. who.user \in Users
    BY <2>1, IdentityType DEF Exists
  <2>3. UNCHANGED <<sessions, ended>>
    BY <1>3 DEF CreateApiKey
  <2>4. AccountsTypeOK'
    BY <1>0, <2>1, <2>2, <2>3 DEF create_api_key, AccountsInv, AccountsTypeOK, KeyRow
  <2>5. Owned'
    BY <1>0, <2>1, <2>3 DEF create_api_key, AccountsInv, AccountsTypeOK, Owned, Exists
  <2> QED
    BY <2>4, <2>5
<1>4. ASSUME NEW k \in Keys, DeleteApiKey(k)
      PROVE  AccountsTypeOK' /\ Owned'
  <2>1. /\ apiKeys[k] \in KeyRow /\ apiKeys[k] # NoOne
        /\ apiKeys' = [apiKeys EXCEPT ![k] = [@ EXCEPT !.revoked = TRUE]]
        /\ UNCHANGED <<sessions, ended>>
    BY <1>4 DEF DeleteApiKey, revoke_api_key, AccountsInv, AccountsTypeOK
  <2>2. /\ apiKeys'[k] \in KeyRow /\ apiKeys'[k].user = apiKeys[k].user
        /\ \A j \in Keys \ {k} : apiKeys'[j] = apiKeys[j]
        /\ apiKeys' \in [Keys -> KeyRow \cup {NoOne}]
    BY <2>1 DEF KeyRow, AccountsInv, AccountsTypeOK
  <2> QED
    BY <1>0, <2>1, <2>2 DEF AccountsInv, AccountsTypeOK, Owned, Exists
<1> QED
  BY <1>0, <1>1, <1>2, <1>3, <1>4 DEF TablesKept

-----------------------------------------------------------------------------
LEMMA AccountsStep ==
    ASSUME AccountsInv, [AccountsNext]_accountVars
    PROVE  AccountsInv' /\ KeepsAnAdmin
<1>1. ASSUME NEW r \in Requests, Serve(r) PROVE TablesKept /\ RequestsOK'
  BY <1>1, BeginningsKeep, FinishesKeep, SsoLoginsKeep, IssueKeeps DEF Serve
<1>2. ASSUME DeleteUser PROVE TablesKept /\ RequestsOK'
  <2>1. TablesKept
    BY <1>2, RemoveKeeps DEF DeleteUser
  <2> QED
    BY <1>2, <2>1, RequestsUnchanged DEF DeleteUser
<1>3. ASSUME CreateUser PROVE TablesKept /\ RequestsOK'
  <2>1. PICK u \in Users, role \in Roles, p \in Passwords : InsertUser(u, LocalUser(role, p))
    BY <1>3 DEF CreateUser
  <2>2. LocalUser(role, p) \in UserRow
    BY DEF LocalUser, UserRow
  <2>3. TablesKept
    BY <1>3, <2>1, <2>2, InsertKeeps DEF CreateUser
  <2> QED
    BY <1>3, <2>3, RequestsUnchanged DEF CreateUser
<1>4. ASSUME UNCHANGED accountVars PROVE TablesKept /\ RequestsOK'
  BY <1>4, TablesUnchanged, RequestsUnchanged DEF accountVars
<1>5. TablesKept /\ RequestsOK'
  BY <1>1, <1>2, <1>3, <1>4, BootstrapKeeps, CredentialsKeep DEF AccountsNext
<1> QED
  BY <1>5 DEF TablesKept, AccountsInv

\* The rows stay typed, whatever overlapping requests write.
THEOREM AccountsTypeCorrect == AccountsSpec => []AccountsTypeOK
<1>1. AccountsInv /\ [AccountsNext]_accountVars => AccountsInv'
  BY AccountsStep
<1>2. AccountsInv => AccountsTypeOK
  BY DEF AccountsInv
<1> QED
  BY <1>1, <1>2, AccountsInvInit, PTL DEF AccountsSpec

\* Once there is an enabled administrator there always is one, however requests
\* that demote, disable or delete administrators overlap with logins through a
\* provider: the transaction that takes one away counts the others
\* (storage/auth.rs: update_role_and_disabled, delete_user).
THEOREM AdminRemainsCorrect == AccountsSpec => AdminRemains
<1>1. AccountsInv /\ [AccountsNext]_accountVars => AccountsInv'
  BY AccountsStep
<1>2. AccountsInv /\ [AccountsNext]_accountVars
        => [EnabledAdmins # {} => EnabledAdmins' # {}]_accountVars
  BY AccountsStep DEF KeepsAnAdmin
<1> QED
  BY <1>1, <1>2, AccountsInvInit, PTL DEF AccountsSpec, AdminRemains

\* A session that a logout, a new password, the disabling or the deletion of its
\* user ended never authenticates again, whatever later becomes of the account,
\* and no credential outlives its owner: the transaction that changes the user's
\* row deletes the rows of its sessions too (storage/auth.rs).
THEOREM RevocationIsFinalCorrect == AccountsSpec => []RevocationIsFinal
<1>1. AccountsInv /\ [AccountsNext]_accountVars => AccountsInv'
  BY AccountsStep
<1>2. AccountsInv => RevocationIsFinal
  BY DEF AccountsInv, Owned, RevocationIsFinal, lookup_session, QuerySession, Anonymous
<1> QED
  BY <1>1, <1>2, AccountsInvInit, PTL DEF AccountsSpec

-----------------------------------------------------------------------------
(* Login attempts: the locks of a counter, with and without pruning.       *)


MaybeRow == AttemptRow \cup {NoRow}

AttemptsTypeOK ==
    /\ moment \in Nat \ {0}
    /\ rows \in [AttemptKeys -> MaybeRow]
    /\ unpruned \in [AttemptKeys -> MaybeRow]
    /\ checks \in [Checks -> AttemptKeys \cup {NoCheck}]
    /\ verified \in [AttemptKeys -> Nat]

\* What two rows must have in common for the same answers from now on: nothing,
\* when what they remember is over, or the count, and a lock and a chain of
\* locks that are the same or over in both.
Quiet(row, at) == row = NoRow \/ Prunable(row, at)
ChainOver(row, at) == row.lockouts = 0 \/ row.lockoutStart + Escalation <= at
SameCount(r, u, at) ==
    /\ r # NoRow /\ u # NoRow
    /\ r.failures = u.failures /\ r.windowStart = u.windowStart
    /\ r.lockedUntil = u.lockedUntil \/ (r.lockedUntil <= at /\ u.lockedUntil <= at)
    /\ \/ r.lockouts = u.lockouts /\ r.lockoutStart = u.lockoutStart
       \/ ChainOver(r, at) /\ ChainOver(u, at)
Alike(r, u, at) == (Quiet(r, at) /\ Quiet(u, at)) \/ SameCount(r, u, at)

\* The verifications of a count are among the attempts its row has counted.
Reserved(k) ==
    /\ verified[k] <= MaxFailures[k]
    /\ rows[k] # NoRow => verified[k] <= rows[k].failures

AttemptsInv ==
    /\ AttemptsTypeOK
    /\ \A k \in AttemptKeys : Alike(rows[k], unpruned[k], moment) /\ Reserved(k)

LEMMA LocksLast ==
    ASSUME NEW k \in AttemptKeys, NEW n \in Nat \ {0}
    PROVE  LockDuration(n, k) \in Nat
<1> DEFINE shift == ShorterOf(n - 1, 20)
<1>1. shift \in 0 .. 20
  BY DEF ShorterOf
<1>2. LockBase[k] * 2 ^ shift \in Nat
  <2>1. 2 ^ shift \in Nat /\ LockBase[k] \in Nat
    BY <1>1, AttemptsAssumption
  <2> HIDE DEF shift
  <2> DEFINE p == 2 ^ shift
  <2>2. p \in Nat
    BY <2>1
  <2> HIDE DEF p
  <2>3. LockBase[k] * p \in Nat
    BY <2>1, <2>2
  <2> QED
    BY <2>3 DEF p
<1>3. LockCap[k] \in Nat
  BY AttemptsAssumption
<1> QED
  BY <1>2, <1>3 DEF LockDuration, ShorterOf

\* A lock begins: its ordinal and its row.
LEMMA LockedType ==
    ASSUME NEW k \in AttemptKeys, NEW row \in AttemptRow, NEW at \in Nat \ {0}
    PROVE  /\ Locked(row, at, k) \in AttemptRow
           /\ Locked(row, at, k).lockedUntil >= at /\ Locked(row, at, k).failures = 0
<1>1. NextLock(row, at) \in Nat \ {0}
  BY DEF NextLock, AttemptRow
<1>2. LockDuration(NextLock(row, at), k) \in Nat
  BY <1>1, LocksLast
<1> QED
  BY <1>1, <1>2 DEF Locked, AttemptRow

\* What counting makes of a row: a locked one stays, an old window starts over.
LEMMA CountedRow ==
    ASSUME NEW row \in AttemptRow, NEW at \in Nat \ {0}
    PROVE  /\ row.lockedUntil > at => Counted(row, at) = row
           /\ ~(row.lockedUntil > at) =>
                 Counted(row, at) = [failures |-> IF row.windowStart + Window <= at THEN 1
                                                  ELSE row.failures + 1,
                                     windowStart |-> IF row.windowStart + Window <= at THEN at
                                                     ELSE row.windowStart,
                                     lockedUntil |-> row.lockedUntil,
                                     lockouts |-> row.lockouts,
                                     lockoutStart |-> row.lockoutStart]
BY AttemptRowsAssumption DEF Counted, AttemptRow

LEMMA CountedType ==
    ASSUME NEW row \in MaybeRow, NEW at \in Nat \ {0}
    PROVE  Counted(row, at) \in AttemptRow
<1>1. CASE row = NoRow
  BY <1>1 DEF Counted, Fresh, AttemptRow
<1>2. CASE row \in AttemptRow
  BY <1>2, CountedRow DEF AttemptRow
<1> QED
  BY <1>1, <1>2 DEF MaybeRow

LEMMA AttemptType ==
    ASSUME NEW k \in AttemptKeys, NEW row \in MaybeRow, NEW at \in Nat \ {0}
    PROVE  /\ BeginAttempt(row, at, k).row \in AttemptRow
           /\ BeginAttempt(row, at, k).until \in Nat
<1>1. Counted(row, at) \in AttemptRow
  BY CountedType
<1>2. Locked(Counted(row, at), at, k) \in AttemptRow
  BY <1>1, LockedType
<1> HIDE DEF Counted, Locked
<1> QED
  BY <1>1, <1>2 DEF BeginAttempt, AttemptRow

\* Time does not tell rows apart that are alike.
LEMMA AlikeLater ==
    ASSUME NEW r \in MaybeRow, NEW u \in MaybeRow, NEW at \in Nat, NEW later \in Nat,
           at <= later, Alike(r, u, at)
    PROVE  Alike(r, u, later)
<1>1. \A x \in MaybeRow : Quiet(x, at) => Quiet(x, later)
  BY AttemptsAssumption DEF Quiet, Prunable, MaybeRow, AttemptRow
<1>2. \A x \in AttemptRow : ChainOver(x, at) => ChainOver(x, later)
  BY AttemptsAssumption DEF ChainOver, AttemptRow
<1>3. SameCount(r, u, at) => SameCount(r, u, later)
  BY <1>2 DEF SameCount, MaybeRow, AttemptRow
<1> QED
  BY <1>1, <1>3 DEF Alike

\* Rows that are alike are counted alike.
LEMMA CountedAlike ==
    ASSUME NEW r \in MaybeRow, NEW u \in MaybeRow, NEW at \in Nat \ {0}, Alike(r, u, at)
    PROVE  SameCount(Counted(r, at), Counted(u, at), at)
<1>1. CASE Quiet(r, at) /\ Quiet(u, at)
  <2>1. ASSUME NEW x \in MaybeRow, Quiet(x, at)
        PROVE  LET c == Counted(x, at) IN
               /\ c # NoRow /\ c.failures = 1 /\ c.windowStart = at
               /\ c.lockedUntil <= at /\ ChainOver(c, at)
    <3>1. CASE x = NoRow
      <4>1. Counted(x, at) = Fresh(at)
        BY <3>1 DEF Counted
      <4>2. Fresh(at) \in AttemptRow
        BY DEF Fresh, AttemptRow
      <4> QED
        BY <4>1, <4>2, AttemptRowsAssumption DEF Fresh, ChainOver
    <3>2. CASE x \in AttemptRow /\ Prunable(x, at)
      <4>1. Counted(x, at) = [x EXCEPT !.failures = 1, !.windowStart = at]
        BY <3>2, AttemptRowsAssumption DEF Counted, Prunable, AttemptRow
      <4>2. Counted(x, at) # NoRow
        BY CountedType, AttemptRowsAssumption
      <4> QED
        BY <3>2, <4>1, <4>2 DEF Prunable, ChainOver, AttemptRow
    <3> QED
      BY <2>1, <3>1, <3>2 DEF Quiet, Prunable, MaybeRow
  <2> QED
    BY <1>1, <2>1 DEF SameCount
<1>2. CASE SameCount(r, u, at)
  <2>1. r \in AttemptRow /\ u \in AttemptRow
    BY <1>2 DEF SameCount, MaybeRow
  <2>2. Counted(r, at) # NoRow /\ Counted(u, at) # NoRow
    BY CountedType, AttemptRowsAssumption
  <2>3. r.lockedUntil > at <=> u.lockedUntil > at
    BY <1>2, <2>1 DEF SameCount, AttemptRow
  <2> QED
    BY <1>2, <2>1, <2>2, <2>3, CountedRow DEF SameCount, ChainOver
<1> QED
  BY <1>1, <1>2 DEF Alike

\* Rows that are alike get the same answer, and are alike afterwards.
LEMMA AnsweredAlike ==
    ASSUME NEW k \in AttemptKeys, NEW r \in MaybeRow, NEW u \in MaybeRow,
           NEW at \in Nat \ {0}, Alike(r, u, at)
    PROVE  /\ BeginAttempt(r, at, k).until = BeginAttempt(u, at, k).until
           /\ Alike(BeginAttempt(r, at, k).row, BeginAttempt(u, at, k).row, at)
<1> DEFINE c == Counted(r, at)
           d == Counted(u, at)
<1>1. c \in AttemptRow /\ d \in AttemptRow /\ SameCount(c, d, at)
  BY CountedType, CountedAlike
<1>2. Locked(c, at, k) = Locked(d, at, k)
  BY <1>1 DEF Locked, NextLock, SameCount, ChainOver
<1>3. c.lockedUntil > at <=> d.lockedUntil > at
  BY <1>1 DEF SameCount, AttemptRow
<1>4. c.lockedUntil > at => c.lockedUntil = d.lockedUntil
  BY <1>1 DEF SameCount, AttemptRow
<1>5. Locked(c, at, k) \in AttemptRow
  BY <1>1, LockedType
<1>6. SameCount(Locked(c, at, k), Locked(c, at, k), at)
  BY <1>5, AttemptRowsAssumption DEF SameCount
<1> HIDE DEF c, d
<1>7. c.failures = d.failures
  BY <1>1 DEF SameCount
<1>8. /\ BeginAttempt(r, at, k) =
            IF c.lockedUntil > at THEN [row |-> c, until |-> c.lockedUntil]
            ELSE IF c.failures <= MaxFailures[k] THEN [row |-> c, until |-> 0]
            ELSE [row |-> Locked(c, at, k), until |-> Locked(c, at, k).lockedUntil]
      /\ BeginAttempt(u, at, k) =
            IF d.lockedUntil > at THEN [row |-> d, until |-> d.lockedUntil]
            ELSE IF d.failures <= MaxFailures[k] THEN [row |-> d, until |-> 0]
            ELSE [row |-> Locked(d, at, k), until |-> Locked(d, at, k).lockedUntil]
  BY DEF BeginAttempt, c, d
<1> QED
  BY <1>1, <1>2, <1>3, <1>4, <1>6, <1>7, <1>8 DEF Alike

\* An attempt that is let through is one more of its count, or its first; one
\* that is not leaves the row, or begins a lock with nothing counted.
LEMMA AttemptIsCounted ==
    ASSUME NEW k \in AttemptKeys, NEW row \in MaybeRow, NEW at \in Nat \ {0}
    PROVE  LET a == BeginAttempt(row, at, k) IN
           /\ a.until = 0 =>
                 /\ a.row.failures <= MaxFailures[k] /\ a.row.failures >= 1
                 /\ \/ row = NoRow
                    \/ row.lockedUntil <= at /\ row.windowStart + Window <= at
                    \/ a.row.failures = row.failures + 1
           /\ a.until # 0 => (row # NoRow /\ a.row = row) \/ a.row.failures = 0
<1> DEFINE c == Counted(row, at)
<1>1. c \in AttemptRow
  BY CountedType
<1>2. Locked(c, at, k) \in AttemptRow /\ Locked(c, at, k).lockedUntil >= at
      /\ Locked(c, at, k).failures = 0
  BY <1>1, LockedType
<1>3. /\ row = NoRow => c.failures = 1 /\ c.lockedUntil = 0
      /\ row # NoRow => /\ row \in AttemptRow /\ c.lockedUntil = row.lockedUntil
                        /\ row.lockedUntil > at => c = row
                        /\ row.lockedUntil <= at =>
                              c.failures = IF row.windowStart + Window <= at THEN 1
                                           ELSE row.failures + 1
  <2>1. CASE row = NoRow
    BY <2>1 DEF Counted, Fresh
  <2>2. CASE row \in AttemptRow
    <3>1. row # NoRow
      BY <2>2, AttemptRowsAssumption
    <3>2. row.lockedUntil \in Nat /\ row.windowStart \in Nat /\ row.failures \in Nat
      BY <2>2 DEF AttemptRow
    <3> QED
      BY <2>2, <3>1, <3>2, CountedRow
  <2> QED
    BY <2>1, <2>2 DEF MaybeRow
<1>4. BeginAttempt(row, at, k) =
         IF c.lockedUntil > at THEN [row |-> c, until |-> c.lockedUntil]
         ELSE IF c.failures <= MaxFailures[k] THEN [row |-> c, until |-> 0]
         ELSE [row |-> Locked(c, at, k), until |-> Locked(c, at, k).lockedUntil]
  BY DEF BeginAttempt
<1>5. c.lockedUntil \in Nat /\ c.failures \in Nat /\ Locked(c, at, k).lockedUntil \in Nat
  BY <1>1, <1>2 DEF AttemptRow
<1> HIDE DEF c
<1>6. CASE c.lockedUntil > at
  BY <1>3, <1>4, <1>5, <1>6
<1>7. CASE c.lockedUntil <= at /\ c.failures <= MaxFailures[k]
  <2>1. row # NoRow => row.failures \in Nat
    BY <1>3 DEF AttemptRow
  <2> QED
    BY <1>3, <1>4, <1>5, <1>7, <2>1
<1>8. CASE c.lockedUntil <= at /\ ~(c.failures <= MaxFailures[k])
  BY <1>2, <1>4, <1>5, <1>8
<1> QED
  BY <1>5, <1>6, <1>7, <1>8

LEMMA BeginCheckKeeps ==
    ASSUME AttemptsInv, NEW c \in Checks, NEW k \in AttemptKeys, BeginCheck(c, k)
    PROVE  AttemptsInv'
<1> DEFINE a == BeginAttempt(rows[k], moment, k)
           b == BeginAttempt(unpruned[k], moment, k)
<1>1. /\ AttemptsTypeOK /\ rows[k] \in MaybeRow /\ unpruned[k] \in MaybeRow
      /\ moment \in Nat \ {0} /\ Alike(rows[k], unpruned[k], moment) /\ Reserved(k)
      /\ verified[k] \in Nat /\ MaxFailures[k] \in Nat \ {0}
  BY AttemptsAssumption DEF AttemptsInv, AttemptsTypeOK
<1>2. /\ a.row \in AttemptRow /\ a.until \in Nat /\ b.row \in AttemptRow
      /\ Alike(a.row, b.row, moment)
  BY <1>1, AttemptType, AnsweredAlike
<1>3. /\ moment' = moment
      /\ rows' = [rows EXCEPT ![k] = a.row]
      /\ unpruned' = [unpruned EXCEPT ![k] = b.row]
      /\ checks' = [checks EXCEPT ![c] = IF a.until = 0 THEN k ELSE NoCheck]
      /\ verified' = [verified EXCEPT ![k] =
             CASE a.until = 0 -> IF StartsOver(rows[k], k) THEN 1 ELSE @ + 1
               [] a.row.failures = 0 -> 0
               [] OTHER -> @]
  BY DEF BeginCheck
<1>4. /\ a.until = 0 =>
            /\ a.row.failures <= MaxFailures[k] /\ a.row.failures >= 1
            /\ StartsOver(rows[k], k) \/ a.row.failures = rows[k].failures + 1
      /\ a.until # 0 => (rows[k] # NoRow /\ a.row = rows[k]) \/ a.row.failures = 0
  BY <1>1, AttemptIsCounted DEF StartsOver
<1>5. ~StartsOver(rows[k], k) => rows[k] # NoRow /\ rows[k].failures \in Nat
  BY <1>1 DEF StartsOver, MaybeRow, AttemptRow
<1>6. a.row # NoRow /\ a.row.failures \in Nat
  BY <1>2, AttemptRowsAssumption DEF AttemptRow
<1> HIDE DEF a, b
<1>7. verified'[k] = CASE a.until = 0 -> IF StartsOver(rows[k], k) THEN 1 ELSE verified[k] + 1
                       [] a.row.failures = 0 -> 0
                       [] OTHER -> verified[k]
  BY <1>1, <1>3 DEF AttemptsTypeOK
<1>8. verified'[k] \in Nat /\ verified'[k] <= MaxFailures[k] /\ verified'[k] <= a.row.failures
  <2>1. CASE a.until = 0 /\ StartsOver(rows[k], k)
    BY <1>1, <1>4, <1>6, <1>7, <2>1
  <2>2. CASE a.until = 0 /\ ~StartsOver(rows[k], k)
    BY <1>1, <1>4, <1>5, <1>6, <1>7, <2>2 DEF Reserved
  <2>3. CASE a.until # 0 /\ a.row.failures = 0
    BY <1>1, <1>7, <2>3
  <2>4. CASE a.until # 0 /\ a.row.failures # 0
    BY <1>1, <1>4, <1>6, <1>7, <2>4 DEF Reserved
  <2> QED
    BY <2>1, <2>2, <2>3, <2>4
<1>9. AttemptsTypeOK'
  BY <1>1, <1>2, <1>3, <1>7, <1>8 DEF AttemptsTypeOK, MaybeRow
<1>10. ASSUME NEW j \in AttemptKeys PROVE (Alike(rows[j], unpruned[j], moment) /\ Reserved(j))'
  <2>1. CASE j = k
    <3>1. rows'[k] = a.row /\ unpruned'[k] = b.row
      BY <1>1, <1>3 DEF AttemptsTypeOK
    <3>2. Alike(rows[k], unpruned[k], moment)'
      BY <1>2, <1>3, <3>1 DEF Alike, Quiet, SameCount, Prunable, ChainOver
    <3> QED
      BY <1>6, <1>8, <2>1, <3>1, <3>2 DEF Reserved
  <2>2. CASE j # k
    <3>1. rows'[j] = rows[j] /\ unpruned'[j] = unpruned[j] /\ verified'[j] = verified[j]
      BY <1>1, <1>3, <2>2 DEF AttemptsTypeOK
    <3>2. Alike(rows[j], unpruned[j], moment) /\ Reserved(j)
      BY DEF AttemptsInv
    <3> QED
      BY <1>3, <3>1, <3>2 DEF Reserved, Alike, Quiet, SameCount, Prunable, ChainOver
  <2> QED
    BY <2>1, <2>2
<1> QED
  BY <1>9, <1>10 DEF AttemptsInv

LEMMA FinishCheckKeeps ==
    ASSUME AttemptsInv, NEW c \in Checks, FinishCheck(c)
    PROVE  AttemptsInv'
<1>1. AttemptsTypeOK /\ checks[c] \in AttemptKeys
  BY DEF AttemptsInv, AttemptsTypeOK, FinishCheck
<1>2. AttemptsTypeOK'
  BY <1>1 DEF FinishCheck, AttemptsTypeOK, MaybeRow
<1>3. ASSUME NEW j \in AttemptKeys PROVE (Alike(rows[j], unpruned[j], moment) /\ Reserved(j))'
  <2>1. \/ rows'[j] = rows[j] /\ unpruned'[j] = unpruned[j] /\ verified'[j] = verified[j]
        \/ rows'[j] = NoRow /\ unpruned'[j] = NoRow /\ verified'[j] = 0
    BY <1>1 DEF FinishCheck, AttemptsTypeOK
  <2>2. moment' = moment /\ MaxFailures[j] \in Nat
    BY AttemptsAssumption DEF FinishCheck
  <2>3. Alike(rows[j], unpruned[j], moment) /\ Reserved(j)
    BY DEF AttemptsInv
  <2> QED
    BY <2>1, <2>2, <2>3 DEF Reserved, Alike, Quiet, SameCount, Prunable, ChainOver
<1> QED
  BY <1>2, <1>3 DEF AttemptsInv

\* What is pruned has nothing left to say, with or without its twin.
LEMMA PruneKeeps ==
    ASSUME AttemptsInv, PruneAttempts
    PROVE  AttemptsInv'
<1>1. AttemptsTypeOK
  BY DEF AttemptsInv
<1>2. AttemptsTypeOK'
  BY <1>1 DEF PruneAttempts, AttemptsTypeOK, MaybeRow
<1>3. ASSUME NEW j \in AttemptKeys PROVE (Alike(rows[j], unpruned[j], moment) /\ Reserved(j))'
  <2>1. moment' = moment /\ unpruned' = unpruned /\ verified' = verified
        /\ rows'[j] = IF Prunable(rows[j], moment) THEN NoRow ELSE rows[j]
    BY DEF PruneAttempts
  <2>2. Alike(rows[j], unpruned[j], moment) /\ Reserved(j)
    BY DEF AttemptsInv
  <2>3. rows[j] \in MaybeRow /\ unpruned[j] \in MaybeRow /\ moment \in Nat
    BY <1>1 DEF AttemptsTypeOK
  <2>4. Prunable(rows[j], moment) => Quiet(unpruned[j], moment)
    BY <2>2, <2>3, AttemptsAssumption
       DEF Alike, Quiet, SameCount, Prunable, ChainOver, MaybeRow, AttemptRow
  <2>5. CASE Prunable(rows[j], moment)
    <3>1. Quiet(NoRow, moment) /\ rows'[j] = NoRow
      BY <2>1, <2>5 DEF Quiet
    <3> QED
      BY <2>1, <2>2, <2>4, <2>5, <3>1 DEF Alike, Reserved, Quiet, Prunable
  <2>6. CASE ~Prunable(rows[j], moment)
    BY <2>1, <2>2, <2>6 DEF Reserved, Alike, Quiet, SameCount, Prunable, ChainOver
  <2> QED
    BY <2>5, <2>6
<1> QED
  BY <1>2, <1>3 DEF AttemptsInv

LEMMA ClockKeeps ==
    ASSUME AttemptsInv, AttemptClock
    PROVE  AttemptsInv'
<1>1. AttemptsTypeOK
  BY DEF AttemptsInv
<1>2. AttemptsTypeOK'
  BY <1>1 DEF AttemptClock, AttemptsTypeOK
<1>3. ASSUME NEW j \in AttemptKeys PROVE (Alike(rows[j], unpruned[j], moment) /\ Reserved(j))'
  <2>1. /\ rows[j] \in MaybeRow /\ unpruned[j] \in MaybeRow /\ moment \in Nat /\ moment' \in Nat
        /\ moment <= moment' /\ rows' = rows /\ unpruned' = unpruned /\ verified' = verified
    BY <1>1 DEF AttemptClock, AttemptsTypeOK
  <2>2. Alike(rows[j], unpruned[j], moment) /\ Reserved(j)
    BY DEF AttemptsInv
  <2>3. Alike(rows[j], unpruned[j], moment')
    BY <2>1, <2>2, AlikeLater
  <2> QED
    BY <2>1, <2>2, <2>3 DEF Reserved, Alike, Quiet, SameCount, Prunable, ChainOver
<1> QED
  BY <1>2, <1>3 DEF AttemptsInv

\* However many checks overlap, no count lets more passwords be verified than its
\* policy allows, and pruning the table never changes the answer to an attempt,
\* now or later: for any policies and any number of counters and checks
\* (begin_login_attempt, prune_login_attempts).
THEOREM LadderHoldsCorrect == AttemptsSpec => []LadderHolds
<1>1. AttemptsInit => AttemptsInv
  BY AttemptsAssumption DEF AttemptsInit, AttemptsInv, AttemptsTypeOK, MaybeRow, Alike, Quiet, Reserved
<1>2. AttemptsInv /\ [AttemptsNext]_attemptVars => AttemptsInv'
  <2>1. ASSUME AttemptsInv, UNCHANGED attemptVars PROVE AttemptsInv'
    BY <2>1 DEF attemptVars, AttemptsInv, AttemptsTypeOK, Alike, Quiet, SameCount, Prunable,
                ChainOver, Reserved
  <2> QED
    BY <2>1, BeginCheckKeeps, FinishCheckKeeps, PruneKeeps, ClockKeeps DEF AttemptsNext
<1>3. AttemptsInv => LadderHolds
  <2> SUFFICES ASSUME AttemptsInv PROVE LadderHolds
    OBVIOUS
  <2>1. AttemptsAreReserved
    BY DEF AttemptsInv, Reserved, AttemptsAreReserved
  <2>2. ASSUME NEW k \in AttemptKeys, NEW at \in moment .. LastMoment
        PROVE  BeginAttempt(rows[k], at, k).until = BeginAttempt(unpruned[k], at, k).until
    <3>1. /\ rows[k] \in MaybeRow /\ unpruned[k] \in MaybeRow /\ moment \in Nat \ {0}
          /\ Alike(rows[k], unpruned[k], moment)
      BY DEF AttemptsInv, AttemptsTypeOK
    <3>2. at \in Nat \ {0} /\ moment <= at
      BY <3>1, AttemptsAssumption
    <3>3. Alike(rows[k], unpruned[k], at)
      BY <3>1, <3>2, AlikeLater
    <3> QED
      BY <3>1, <3>2, <3>3, AnsweredAlike
  <2> QED
    BY <2>1, <2>2 DEF LadderHolds, PruningIsInvisible
<1> QED
  BY <1>1, <1>2, <1>3, PTL DEF AttemptsSpec

-----------------------------------------------------------------------------
(***************************************************************************)
(* No sign-in happens twice, for any number of transactions, assertions    *)
(* and callbacks, any lifetimes and any interleaving.                      *)
(***************************************************************************)

SsoTypeOK ==
    /\ instant \in Nat
    /\ started \subseteq TxnIds
    /\ txns \in [TxnIds -> {Absent} \cup [kind : Kinds, expires : Nat]]
    /\ issued \in [Assertions -> {Absent} \cup Nat]
    /\ consumed \in [Assertions -> {Absent} \cup Nat]
    /\ callbacks \in [Callbacks -> {Absent} \cup
                        [txn : TxnIds \cup {Absent}, assertion : Assertions \cup {Absent},
                         until : Nat \cup {Absent}]]
    /\ logins \in [TxnIds \cup Assertions -> Nat]

\* The callback holds a transaction it took.
Holds(c, x) == callbacks[c] # Absent /\ callbacks[c].txn = x

\* A transaction is nowhere, in its row, or with one callback, until it has
\* signed somebody in; it is never back in an earlier place.
TxnsMoveOn ==
    \A x \in TxnIds :
        /\ x \notin started => /\ txns[x] = Absent /\ logins[x] = 0
                               /\ \A c \in Callbacks : ~Holds(c, x)
        /\ txns[x] # Absent => logins[x] = 0 /\ \A c \in Callbacks : ~Holds(c, x)
        /\ \A c \in Callbacks :
              Holds(c, x) => logins[x] = 0 /\ \A d \in Callbacks \ {c} : ~Holds(d, x)
        /\ logins[x] <= 1

\* The assertion would be accepted at the instant t.
AcceptedAt(a, t) ==
    /\ t <= issued[a] + IssueDelay + Skew
    /\ Validity[a] # 0 => t < issued[a] + Validity[a] + Skew

\* Past this the assertion is never accepted.
Outlasts(a, end) == \A t \in Nat : AcceptedAt(a, t) => t < end

\* A callback with an assertion was issued one, and will have it remembered for
\* as long as it can be accepted.
ChecksAreSound ==
    \A c \in Callbacks :
        callbacks[c] # Absent =>
            IF callbacks[c].assertion = Absent
            THEN callbacks[c].txn \in TxnIds
            ELSE /\ issued[callbacks[c].assertion] \in Nat
                 /\ callbacks[c].until \in Nat
                 /\ Outlasts(callbacks[c].assertion, callbacks[c].until)

\* An assertion that signed somebody in is remembered, or can no longer be
\* accepted at any time from now on.
UsedAreRemembered ==
    \A a \in Assertions :
        /\ logins[a] <= 1
        /\ issued[a] # Absent => issued[a] <= instant
        /\ logins[a] > 0 =>
              /\ issued[a] \in Nat
              /\ \/ consumed[a] \in Nat /\ Outlasts(a, consumed[a])
                 \/ \A t \in Nat : t >= instant => ~AcceptedAt(a, t)

SsoInv == SsoTypeOK /\ TxnsMoveOn /\ ChecksAreSound /\ UsedAreRemembered

LEMMA SsoInvInit == SsoInit => SsoInv
<1> SUFFICES ASSUME SsoInit PROVE SsoInv
  OBVIOUS
<1>1. SsoTypeOK
  BY DEF SsoInit, SsoTypeOK
<1>2. TxnsMoveOn /\ ChecksAreSound
  BY DEF SsoInit, TxnsMoveOn, ChecksAreSound, Holds
<1>3. UsedAreRemembered
  BY DEF SsoInit, UsedAreRemembered
<1> QED
  BY <1>1, <1>2, <1>3 DEF SsoInv

\* What is dropped has expired, and a row that has not stays.
LEMMA Expiry ==
    ASSUME SsoInv
    PROVE  /\ LiveTxns \in [TxnIds -> {Absent} \cup [kind : Kinds, expires : Nat]]
           /\ \A x \in TxnIds : LiveTxns[x] # Absent => LiveTxns[x] = txns[x]
           /\ LiveConsumed \in [Assertions -> {Absent} \cup Nat]
           /\ \A a \in Assertions :
                 LiveConsumed[a] # consumed[a] => consumed[a] \in Nat /\ consumed[a] <= instant
BY DEF SsoInv, SsoTypeOK, LiveTxns, LiveConsumed

\* The expiry that the check of a response computes is late enough.
LEMMA ExpiryOutlasts ==
    ASSUME SsoInv, NEW a \in Assertions, AcceptsAssertion(a)
    PROVE  issued[a] \in Nat /\ ReplayExpiry(a) \in Nat /\ Outlasts(a, ReplayExpiry(a))
<1>1. issued[a] \in Nat /\ issued[a] <= instant /\ instant \in Nat /\ Validity[a] \in Nat
  BY SsoAssumption DEF AcceptsAssertion, SsoInv, SsoTypeOK, UsedAreRemembered
<1>2. ReplayExpiry(a) \in Nat
  BY <1>1, SsoAssumption DEF ReplayExpiry
<1>3. ASSUME NEW t \in Nat, AcceptedAt(a, t) PROVE t < ReplayExpiry(a)
  BY <1>1, <1>3, SsoAssumption DEF ReplayExpiry, AcceptedAt
<1> QED
  BY <1>1, <1>2, <1>3 DEF Outlasts

-----------------------------------------------------------------------------
(* What a step must keep.                                                  *)

\* Rows that go, and callbacks that end, leave their transactions behind.
LEMMA TxnsStay ==
    ASSUME SsoInv, SsoTypeOK', started \subseteq started',
           \A x \in TxnIds :
              /\ logins'[x] = logins[x]
              /\ txns'[x] # Absent => txns[x] # Absent
              /\ \A c \in Callbacks : Holds(c, x)' => Holds(c, x)
    PROVE  TxnsMoveOn'
BY DEF SsoInv, TxnsMoveOn

LEMMA ChecksStay ==
    ASSUME SsoInv, issued' = issued,
           \A c \in Callbacks : callbacks'[c] \in {Absent, callbacks[c]}
    PROVE  ChecksAreSound'
<1> SUFFICES ASSUME NEW c \in Callbacks, callbacks'[c] # Absent
             PROVE  IF callbacks'[c].assertion = Absent
                    THEN callbacks'[c].txn \in TxnIds
                    ELSE /\ issued'[callbacks'[c].assertion] \in Nat
                         /\ callbacks'[c].until \in Nat
                         /\ Outlasts(callbacks[c].assertion, callbacks[c].until)'
  BY DEF ChecksAreSound
<1>1. callbacks'[c] = callbacks[c] /\ callbacks[c] # Absent
  OBVIOUS
<1> QED
  BY <1>1 DEF SsoInv, ChecksAreSound, Outlasts, AcceptedAt

\* A callback that passed its checks joins the others.
LEMMA ChecksJoin ==
    ASSUME SsoInv, issued' = issued, NEW c \in Callbacks, NEW x, NEW a, NEW until,
           callbacks' = [callbacks EXCEPT ![c] = Holding(x, a, until)],
           IF a = Absent THEN x \in TxnIds
                         ELSE issued[a] \in Nat /\ until \in Nat /\ Outlasts(a, until)
    PROVE  ChecksAreSound'
<1> SUFFICES ASSUME NEW d \in Callbacks, callbacks'[d] # Absent
             PROVE  IF callbacks'[d].assertion = Absent
                    THEN callbacks'[d].txn \in TxnIds
                    ELSE /\ issued[callbacks'[d].assertion] \in Nat
                         /\ callbacks'[d].until \in Nat
                         /\ Outlasts(callbacks'[d].assertion, callbacks'[d].until)
  BY DEF ChecksAreSound, Outlasts, AcceptedAt
<1>1. CASE d = c
  <2>1. /\ callbacks'[d].txn = x /\ callbacks'[d].assertion = a
        /\ callbacks'[d].until = until
    BY <1>1 DEF Holding, SsoInv, SsoTypeOK
  <2> QED
    BY <2>1
<1>2. CASE d # c
  <2>1. callbacks'[d] = callbacks[d]
    BY <1>2 DEF SsoInv, SsoTypeOK
  <2> QED
    BY <2>1 DEF SsoInv, ChecksAreSound
<1> QED
  BY <1>1, <1>2

LEMMA UsedStay ==
    ASSUME SsoInv, issued' = issued, instant' \in Nat, instant' >= instant,
           \A a \in Assertions : /\ logins'[a] = logins[a]
                                 /\ consumed'[a] # consumed[a] => consumed[a] \in Nat /\ consumed[a] <= instant
    PROVE  UsedAreRemembered'
<1> SUFFICES ASSUME NEW a \in Assertions
             PROVE  /\ logins[a] <= 1
                    /\ issued[a] # Absent => issued[a] <= instant'
                    /\ logins[a] > 0 =>
                          /\ issued[a] \in Nat
                          /\ \/ consumed'[a] \in Nat /\ Outlasts(a, consumed'[a])
                             \/ \A t \in Nat : t >= instant' => ~AcceptedAt(a, t)
  BY DEF UsedAreRemembered, Outlasts, AcceptedAt
<1>1. /\ logins[a] <= 1 /\ instant \in Nat
      /\ issued[a] # Absent => issued[a] <= instant /\ issued[a] \in Nat
  BY DEF SsoInv, UsedAreRemembered, SsoTypeOK
<1>2. ASSUME logins[a] > 0, consumed'[a] # consumed[a]
      PROVE  \A t \in Nat : t >= instant' => ~AcceptedAt(a, t)
  <2>1. consumed[a] \in Nat /\ consumed[a] <= instant
    BY <1>2
  <2> SUFFICES ASSUME NEW t \in Nat, t >= instant', AcceptedAt(a, t) PROVE FALSE
    OBVIOUS
  <2>2. t >= instant
    BY <1>1
  <2>3. CASE Outlasts(a, consumed[a])
    <3>1. t < consumed[a]
      BY <2>3 DEF Outlasts
    <3> QED
      BY <3>1, <2>1, <2>2, <1>1
  <2> QED
    BY <1>2, <2>2, <2>3 DEF SsoInv, UsedAreRemembered
<1>3. ASSUME logins[a] > 0, consumed'[a] = consumed[a]
      PROVE  \/ consumed'[a] \in Nat /\ Outlasts(a, consumed'[a])
             \/ \A t \in Nat : t >= instant' => ~AcceptedAt(a, t)
  <2>1. \A t \in Nat : t >= instant' => t >= instant
    BY <1>1
  <2> QED
    BY <1>3, <2>1 DEF SsoInv, UsedAreRemembered
<1>4. logins[a] > 0 => issued[a] \in Nat
  BY DEF SsoInv, UsedAreRemembered
<1> QED
  BY <1>1, <1>2, <1>3, <1>4

-----------------------------------------------------------------------------
(* The steps.                                                              *)

LEMMA StartKeeps ==
    ASSUME SsoInv, NEW x \in TxnIds, NEW kind \in Kinds, StartLogin(x, kind)
    PROVE  SsoInv'
<1>1. SsoTypeOK'
  BY Expiry, SsoAssumption DEF StartLogin, SsoInv, SsoTypeOK
<1>2. TxnsMoveOn'
  <2> SUFFICES ASSUME NEW y \in TxnIds
               PROVE  /\ y \notin started' => /\ txns'[y] = Absent /\ logins[y] = 0
                                              /\ \A c \in Callbacks : ~Holds(c, y)
                      /\ txns'[y] # Absent => logins[y] = 0 /\ \A c \in Callbacks : ~Holds(c, y)
                      /\ \A c \in Callbacks :
                            Holds(c, y) => logins[y] = 0 /\ \A d \in Callbacks \ {c} : ~Holds(d, y)
                      /\ logins[y] <= 1
    BY DEF TxnsMoveOn, StartLogin, Holds
  <2>1. CASE y = x
    BY <2>1, <1>1 DEF StartLogin, SsoInv, TxnsMoveOn
  <2>2. CASE y # x
    <3>1. txns'[y] # Absent => txns'[y] = txns[y]
      BY <2>2, Expiry DEF StartLogin
    <3> QED
      BY <2>2, <3>1 DEF StartLogin, SsoInv, TxnsMoveOn
  <2> QED
    BY <2>1, <2>2
<1>3. ChecksAreSound'
  BY ChecksStay DEF StartLogin
<1>4. UsedAreRemembered'
  BY UsedStay DEF StartLogin, SsoInv, SsoTypeOK
<1> QED
  BY <1>1, <1>2, <1>3, <1>4 DEF SsoInv

\* A callback takes a transaction; it holds it only if the row was there.
LEMMA TakeKeepsTxns ==
    ASSUME SsoInv, SsoTypeOK', NEW c \in Callbacks, NEW x \in TxnIds,
           callbacks[c] = Absent, TakeTxn(x), UNCHANGED <<started, logins>>,
           \/ callbacks' = callbacks
           \/ \E a, until : /\ txns[x] # Absent
                            /\ callbacks' = [callbacks EXCEPT ![c] = Holding(x, a, until)]
    PROVE  TxnsMoveOn'
<1>0. txns'[x] = Absent /\ \A y \in TxnIds \ {x} : txns'[y] = txns[y]
  BY DEF TakeTxn, SsoInv, SsoTypeOK
<1>1. CASE callbacks' = callbacks
  BY <1>0, <1>1, TxnsStay DEF Holds
<1>2. ASSUME NEW a, NEW until, txns[x] # Absent,
             callbacks' = [callbacks EXCEPT ![c] = Holding(x, a, until)]
      PROVE  TxnsMoveOn'
  <2>1. /\ callbacks'[c].txn = x
        /\ \A d \in Callbacks \ {c} : callbacks'[d] = callbacks[d]
    BY <1>2 DEF Holding, SsoInv, SsoTypeOK
  <2>2. \A d \in Callbacks, y \in TxnIds :
           Holds(d, y)' => Holds(d, y) \/ (d = c /\ y = x)
    BY <2>1 DEF Holds
  <2>3. /\ x \in started /\ logins[x] = 0
        /\ \A d \in Callbacks : ~Holds(d, x)
        /\ \A y \in TxnIds : ~Holds(c, y)
    BY <1>2 DEF SsoInv, TxnsMoveOn, Holds
  <2> SUFFICES ASSUME NEW y \in TxnIds
               PROVE  /\ y \notin started => /\ txns'[y] = Absent /\ logins[y] = 0
                                             /\ \A d \in Callbacks : ~Holds(d, y)'
                      /\ txns'[y] # Absent => logins[y] = 0 /\ \A d \in Callbacks : ~Holds(d, y)'
                      /\ \A d \in Callbacks :
                            Holds(d, y)' => logins[y] = 0 /\ \A e \in Callbacks \ {d} : ~Holds(e, y)'
                      /\ logins[y] <= 1
    BY DEF TxnsMoveOn
  <2>4. CASE y = x
    BY <1>0, <2>2, <2>3, <2>4
  <2>5. CASE y # x
    BY <1>0, <2>2, <2>5 DEF SsoInv, TxnsMoveOn
  <2> QED
    BY <2>4, <2>5
<1> QED
  BY <1>1, <1>2

LEMMA OidcCallbackKeeps ==
    ASSUME SsoInv, NEW c \in Callbacks, NEW x \in TxnIds, OidcCallback(c, x)
    PROVE  SsoInv'
<1>1. SsoTypeOK'
  BY DEF OidcCallback, TakeTxn, Holding, SsoInv, SsoTypeOK
<1>2. TxnsMoveOn'
  BY <1>1, TakeKeepsTxns DEF OidcCallback, Usable
<1>3. ChecksAreSound'
  <2>1. CASE callbacks' = callbacks
    BY <2>1, ChecksStay DEF OidcCallback, SsoInv, SsoTypeOK
  <2>2. CASE callbacks' = [callbacks EXCEPT ![c] = Holding(x, Absent, Absent)]
    <3>1. issued' = issued
      BY DEF OidcCallback
    <3> QED
      BY <2>2, <3>1, ChecksJoin
  <2> QED
    BY <2>1, <2>2 DEF OidcCallback
<1>4. UsedAreRemembered'
  BY UsedStay DEF OidcCallback, SsoInv, SsoTypeOK
<1> QED
  BY <1>1, <1>2, <1>3, <1>4 DEF SsoInv

LEMMA SamlAcsKeeps ==
    ASSUME SsoInv, NEW c \in Callbacks, NEW a \in Assertions, SamlAcs(c, a)
    PROVE  SsoInv'
<1>0. UNCHANGED <<instant, started, issued, consumed, logins>> /\ callbacks[c] = Absent
  BY DEF SamlAcs
<1>1. PICK x \in started \cup {Absent} :
         /\ IF x = Absent THEN txns' = txns ELSE TakeTxn(x)
         /\ \/ callbacks' = callbacks /\ x # Absent
            \/ /\ x # Absent => txns[x] # Absent
               /\ AcceptsAssertion(a)
               /\ callbacks' = [callbacks EXCEPT ![c] = Holding(x, a, ReplayExpiry(a))]
  <2>1. ASSUME NEW x \in started, TakeTxn(x),
               callbacks' = IF Usable(x, "saml") /\ AcceptsAssertion(a)
                            THEN [callbacks EXCEPT ![c] = Holding(x, a, ReplayExpiry(a))]
                            ELSE callbacks
        PROVE  /\ x # Absent
               /\ \/ callbacks' = callbacks
                  \/ /\ txns[x] # Absent /\ AcceptsAssertion(a)
                     /\ callbacks' = [callbacks EXCEPT ![c] = Holding(x, a, ReplayExpiry(a))]
    <3>1. x # Absent
      BY SsoAssumption DEF SsoInv, SsoTypeOK
    <3>2. CASE Usable(x, "saml") /\ AcceptsAssertion(a)
      BY <2>1, <3>1, <3>2 DEF Usable
    <3> QED
      BY <2>1, <3>1, <3>2
  <2> QED
    BY <2>1 DEF SamlAcs
<1>2. x = Absent \/ x \in TxnIds
  BY DEF SsoInv, SsoTypeOK
<1>3. SsoTypeOK'
  <2>1. txns' \in [TxnIds -> {Absent} \cup [kind : Kinds, expires : Nat]]
    BY <1>1, <1>2 DEF TakeTxn, SsoInv, SsoTypeOK
  <2>2. AcceptsAssertion(a) => ReplayExpiry(a) \in Nat
    BY ExpiryOutlasts
  <2>3. callbacks' \in [Callbacks -> {Absent} \cup
                        [txn : TxnIds \cup {Absent}, assertion : Assertions \cup {Absent},
                         until : Nat \cup {Absent}]]
    BY <1>1, <1>2, <2>2 DEF Holding, SsoInv, SsoTypeOK
  <2> QED
    BY <1>0, <2>1, <2>3 DEF SsoInv, SsoTypeOK
<1>4. TxnsMoveOn'
  <2>1. CASE x \in TxnIds
    BY <1>0, <1>1, <1>3, <2>1, TakeKeepsTxns, SsoAssumption
  <2>2. CASE x = Absent
    <3>1. \A d \in Callbacks, y \in TxnIds : Holds(d, y)' => Holds(d, y)
      BY <1>1, <2>2, SsoAssumption DEF Holding, Holds, SsoInv, SsoTypeOK
    <3> QED
      BY <1>0, <1>1, <1>3, <2>2, <3>1, TxnsStay
  <2> QED
    BY <1>2, <2>1, <2>2
<1>5. ChecksAreSound'
  <2>1. CASE callbacks' = callbacks
    BY <1>0, <2>1, ChecksStay
  <2>2. ASSUME AcceptsAssertion(a),
               callbacks' = [callbacks EXCEPT ![c] = Holding(x, a, ReplayExpiry(a))]
        PROVE  ChecksAreSound'
    BY <1>0, <2>2, ChecksJoin, ExpiryOutlasts, SsoAssumption
  <2> QED
    BY <1>1, <2>1, <2>2
<1>6. UsedAreRemembered'
  BY <1>0, UsedStay DEF SsoInv, SsoTypeOK
<1> QED
  BY <1>3, <1>4, <1>5, <1>6 DEF SsoInv

LEMMA CompleteOidcKeeps ==
    ASSUME SsoInv, NEW c \in Callbacks, CompleteOidc(c)
    PROVE  SsoInv'
<1> DEFINE x == callbacks[c].txn
<1>0. /\ x \in TxnIds /\ x \notin Assertions
      /\ Holds(c, x)
      /\ UNCHANGED <<instant, started, txns, issued, consumed>>
      /\ callbacks' = [callbacks EXCEPT ![c] = Absent]
      /\ \/ logins' = [logins EXCEPT ![x] = @ + 1]
         \/ logins' = logins
  BY SsoAssumption DEF CompleteOidc, SsoInv, ChecksAreSound, Holds
<1> HIDE DEF x
<1>1. SsoTypeOK'
  BY <1>0 DEF SsoInv, SsoTypeOK
<1>2. TxnsMoveOn'
  <2>1. \A d \in Callbacks, y \in TxnIds : Holds(d, y)' => Holds(d, y) /\ d # c
    BY <1>0 DEF Holds, SsoInv, SsoTypeOK
  <2>2. \A y \in TxnIds : logins'[y] = logins[y] \/ (y = x /\ logins'[y] = 1)
    BY <1>0 DEF SsoInv, SsoTypeOK, TxnsMoveOn
  <2>3. x \in started /\ txns[x] = Absent /\ \A d \in Callbacks \ {c} : ~Holds(d, x)
    BY <1>0 DEF SsoInv, TxnsMoveOn
  <2> SUFFICES ASSUME NEW y \in TxnIds
               PROVE  /\ y \notin started => /\ txns[y] = Absent /\ logins'[y] = 0
                                             /\ \A d \in Callbacks : ~Holds(d, y)'
                      /\ txns[y] # Absent => logins'[y] = 0 /\ \A d \in Callbacks : ~Holds(d, y)'
                      /\ \A d \in Callbacks :
                            Holds(d, y)' => logins'[y] = 0 /\ \A e \in Callbacks \ {d} : ~Holds(e, y)'
                      /\ logins'[y] <= 1
    BY <1>0 DEF TxnsMoveOn
  <2>4. CASE y = x
    BY <1>0, <2>1, <2>2, <2>3, <2>4 DEF SsoInv, TxnsMoveOn
  <2>5. CASE y # x
    BY <2>1, <2>2, <2>5 DEF SsoInv, TxnsMoveOn
  <2> QED
    BY <2>4, <2>5
<1>3. ChecksAreSound'
  BY <1>0, ChecksStay DEF SsoInv, SsoTypeOK
<1>4. UsedAreRemembered'
  <2>1. \A a \in Assertions : logins'[a] = logins[a]
    BY <1>0 DEF SsoInv, SsoTypeOK
  <2> QED
    BY <1>0, <2>1, UsedStay DEF SsoInv, SsoTypeOK
<1> QED
  BY <1>1, <1>2, <1>3, <1>4 DEF SsoInv

\* The first to mark an assertion goes on; it is remembered for as long as it
\* could be accepted again, so a later callback with it is refused.
LEMMA MarkKeeps ==
    ASSUME SsoInv, NEW c \in Callbacks, MarkAssertion(c)
    PROVE  SsoInv'
<1> DEFINE a == callbacks[c].assertion
           x == callbacks[c].txn
           until == callbacks[c].until
           marks == LiveConsumed[a] = Absent
<1>0. /\ a \in Assertions /\ a \notin TxnIds
      /\ x \in TxnIds \/ (x = Absent /\ x \notin TxnIds)
      /\ x \notin Assertions
      /\ x \in TxnIds => Holds(c, x)
      /\ issued[a] \in Nat /\ until \in Nat /\ Outlasts(a, until)
  BY SsoAssumption DEF MarkAssertion, SsoInv, SsoTypeOK, ChecksAreSound, Holds
<1>1. /\ UNCHANGED <<instant, started, txns, issued>>
      /\ callbacks' = [callbacks EXCEPT ![c] = Absent]
      /\ ~marks => consumed' = LiveConsumed /\ logins' = logins
      /\ marks => /\ consumed' = [LiveConsumed EXCEPT ![a] = until]
                  /\ logins' = [l \in DOMAIN logins |->
                        logins[l] + (IF l = x \/ (l = a /\ AcceptsAssertion(a)) THEN 1 ELSE 0)]
  BY DEF MarkAssertion
<1> HIDE DEF a, x, until, marks
<1>2. /\ \A y \in TxnIds : logins'[y] = logins[y] \/ (y = x /\ logins'[y] = logins[y] + 1)
      /\ \A b \in Assertions :
            logins'[b] = logins[b] \/ (/\ b = a /\ marks /\ AcceptsAssertion(a)
                                       /\ logins'[b] = logins[b] + 1)
      /\ logins' \in [TxnIds \cup Assertions -> Nat]
  BY <1>0, <1>1 DEF SsoInv, SsoTypeOK
<1>3. /\ consumed' \in [Assertions -> {Absent} \cup Nat]
      /\ \A b \in Assertions :
            \/ b = a /\ marks /\ consumed'[b] = until
            \/ consumed'[b] = LiveConsumed[b] /\ ~(b = a /\ marks)
  BY <1>0, <1>1, Expiry
<1>4. SsoTypeOK'
  BY <1>1, <1>2, <1>3 DEF SsoInv, SsoTypeOK
<1>5. TxnsMoveOn'
  <2>1. \A d \in Callbacks, y \in TxnIds : Holds(d, y)' => Holds(d, y) /\ d # c
    BY <1>1 DEF Holds, SsoInv, SsoTypeOK
  <2>2. ASSUME x \in TxnIds
        PROVE  /\ x \in started /\ txns[x] = Absent /\ logins[x] = 0
               /\ \A d \in Callbacks \ {c} : ~Holds(d, x)
    BY <1>0, <2>2 DEF SsoInv, TxnsMoveOn
  <2> SUFFICES ASSUME NEW y \in TxnIds
               PROVE  /\ y \notin started => /\ txns[y] = Absent /\ logins'[y] = 0
                                             /\ \A d \in Callbacks : ~Holds(d, y)'
                      /\ txns[y] # Absent => logins'[y] = 0 /\ \A d \in Callbacks : ~Holds(d, y)'
                      /\ \A d \in Callbacks :
                            Holds(d, y)' => logins'[y] = 0 /\ \A e \in Callbacks \ {d} : ~Holds(e, y)'
                      /\ logins'[y] <= 1
    BY <1>1 DEF TxnsMoveOn
  <2>4. CASE y = x
    BY <1>2, <2>1, <2>2, <2>4
  <2>5. CASE y # x
    BY <1>2, <2>1, <2>5 DEF SsoInv, TxnsMoveOn
  <2> QED
    BY <2>4, <2>5
<1>6. ChecksAreSound'
  BY <1>1, ChecksStay DEF SsoInv, SsoTypeOK
<1>7. UsedAreRemembered'
  <2> SUFFICES ASSUME NEW b \in Assertions
               PROVE  /\ logins'[b] <= 1
                      /\ issued[b] # Absent => issued[b] <= instant
                      /\ logins'[b] > 0 =>
                            /\ issued[b] \in Nat
                            /\ \/ consumed'[b] \in Nat /\ Outlasts(b, consumed'[b])
                               \/ \A t \in Nat : t >= instant => ~AcceptedAt(b, t)
    BY <1>1 DEF UsedAreRemembered, Outlasts, AcceptedAt
  <2>0. issued[b] # Absent => issued[b] <= instant
    BY DEF SsoInv, UsedAreRemembered
  <2>1. CASE b = a /\ marks
    <3>1. issued[b] \in Nat /\ consumed'[b] \in Nat /\ Outlasts(b, consumed'[b])
      BY <1>0, <1>3, <2>1
    <3>2. ASSUME AcceptsAssertion(a) PROVE logins[a] = 0
      <4>1. AcceptedAt(a, instant) /\ instant \in Nat
        BY <3>2 DEF AcceptsAssertion, AcceptedAt, SsoInv, SsoTypeOK
      <4>2. consumed[a] \in Nat => consumed[a] <= instant
        BY <1>0, <2>1, Expiry, SsoAssumption DEF marks
      <4>3. ASSUME logins[a] > 0 PROVE FALSE
        <5>1. consumed[a] \in Nat /\ Outlasts(a, consumed[a])
          BY <1>0, <4>1, <4>3 DEF SsoInv, UsedAreRemembered
        <5>2. instant < consumed[a]
          BY <4>1, <5>1 DEF Outlasts
        <5> QED
          BY <4>1, <4>2, <5>1, <5>2
      <4> QED
        BY <1>0, <4>3 DEF SsoInv, SsoTypeOK
    <3>3. logins[b] <= 1
      BY DEF SsoInv, UsedAreRemembered
    <3> QED
      BY <1>2, <2>0, <2>1, <3>1, <3>2, <3>3
  <2>2. CASE ~(b = a /\ marks)
    <3>1. logins'[b] = logins[b] /\ consumed'[b] = LiveConsumed[b]
      BY <1>2, <1>3, <2>2
    <3>2. consumed'[b] # consumed[b] => consumed[b] \in Nat /\ consumed[b] <= instant
      BY <3>1, Expiry
    <3>3. ASSUME logins[b] > 0, consumed'[b] # consumed[b], NEW t \in Nat, t >= instant,
                 AcceptedAt(b, t)
          PROVE  FALSE
      <4>1. consumed[b] \in Nat /\ Outlasts(b, consumed[b])
        BY <3>3 DEF SsoInv, UsedAreRemembered
      <4>2. t < consumed[b]
        BY <3>3, <4>1 DEF Outlasts
      <4> QED
        BY <3>2, <3>3, <4>2 DEF SsoInv, SsoTypeOK
    <3>4. logins[b] <= 1
      BY DEF SsoInv, UsedAreRemembered
    <3>5. logins[b] > 0 => issued[b] \in Nat
      BY DEF SsoInv, UsedAreRemembered
    <3>6. ASSUME logins[b] > 0, consumed'[b] = consumed[b]
          PROVE  \/ consumed'[b] \in Nat /\ Outlasts(b, consumed'[b])
                 \/ \A t \in Nat : t >= instant => ~AcceptedAt(b, t)
      BY <3>6 DEF SsoInv, UsedAreRemembered
    <3> QED
      BY <2>0, <3>1, <3>3, <3>4, <3>5, <3>6
  <2> QED
    BY <2>1, <2>2
<1> QED
  BY <1>4, <1>5, <1>6, <1>7 DEF SsoInv

LEMMA IssueAssertionKeeps ==
    ASSUME SsoInv, NEW a \in Assertions, IssueAssertion(a)
    PROVE  SsoInv'
<1>0. /\ UNCHANGED <<instant, started, txns, consumed, callbacks, logins>>
      /\ issued[a] = Absent /\ issued[a] \notin Nat
      /\ issued' = [issued EXCEPT ![a] = instant]
  BY SsoAssumption DEF IssueAssertion
<1>1. SsoTypeOK'
  BY <1>0 DEF SsoInv, SsoTypeOK
<1>2. TxnsMoveOn'
  BY <1>0, <1>1, TxnsStay DEF Holds
<1>3. ASSUME NEW b \in Assertions, issued[b] \in Nat PROVE issued'[b] = issued[b]
  BY <1>0, <1>3 DEF SsoInv, SsoTypeOK
<1>4. ChecksAreSound'
  <2> SUFFICES ASSUME NEW d \in Callbacks, callbacks[d] # Absent
               PROVE  IF callbacks[d].assertion = Absent
                      THEN callbacks[d].txn \in TxnIds
                      ELSE /\ issued'[callbacks[d].assertion] \in Nat
                           /\ callbacks[d].until \in Nat
                           /\ Outlasts(callbacks[d].assertion, callbacks[d].until)'
    BY <1>0 DEF ChecksAreSound
  <2>1. CASE callbacks[d].assertion = Absent
    BY <2>1 DEF SsoInv, ChecksAreSound
  <2>2. CASE callbacks[d].assertion # Absent
    <3>1. /\ callbacks[d].assertion \in Assertions
          /\ issued[callbacks[d].assertion] \in Nat /\ callbacks[d].until \in Nat
          /\ Outlasts(callbacks[d].assertion, callbacks[d].until)
      BY <2>2 DEF SsoInv, SsoTypeOK, ChecksAreSound
    <3>2. issued'[callbacks[d].assertion] = issued[callbacks[d].assertion]
      BY <1>3, <3>1
    <3> QED
      BY <1>0, <2>2, <3>1, <3>2 DEF Outlasts, AcceptedAt
  <2> QED
    BY <2>1, <2>2
<1>5. UsedAreRemembered'
  <2> SUFFICES ASSUME NEW b \in Assertions
               PROVE  /\ logins[b] <= 1
                      /\ issued'[b] # Absent => issued'[b] <= instant
                      /\ logins[b] > 0 =>
                            /\ issued'[b] \in Nat
                            /\ \/ consumed[b] \in Nat /\ \A t \in Nat : AcceptedAt(b, t)' => t < consumed[b]
                               \/ \A t \in Nat : t >= instant => ~AcceptedAt(b, t)'
    BY <1>0 DEF UsedAreRemembered, Outlasts, AcceptedAt
  <2>1. logins[b] <= 1 /\ (issued'[b] # Absent => issued'[b] <= instant)
    BY <1>0 DEF SsoInv, SsoTypeOK, UsedAreRemembered
  <2>2. ASSUME logins[b] > 0
        PROVE  /\ issued'[b] \in Nat
               /\ \/ consumed[b] \in Nat /\ \A t \in Nat : AcceptedAt(b, t)' => t < consumed[b]
                  \/ \A t \in Nat : t >= instant => ~AcceptedAt(b, t)'
    <3>1. issued[b] \in Nat /\ issued'[b] = issued[b]
      BY <1>3, <2>2 DEF SsoInv, UsedAreRemembered
    <3> QED
      BY <2>2, <3>1 DEF SsoInv, UsedAreRemembered, Outlasts, AcceptedAt
  <2> QED
    BY <2>1, <2>2
<1> QED
  BY <1>1, <1>2, <1>4, <1>5 DEF SsoInv

LEMMA SsoInvStep == SsoInv /\ [SsoNext]_ssoVars => SsoInv'
<1> SUFFICES ASSUME SsoInv, [SsoNext]_ssoVars PROVE SsoInv'
  OBVIOUS
<1>1. CASE SsoGc
  <2>1. SsoTypeOK'
    BY <1>1, Expiry DEF SsoGc, SsoInv, SsoTypeOK
  <2>2. TxnsMoveOn'
    BY <1>1, <2>1, Expiry, TxnsStay DEF SsoGc, Holds
  <2>3. ChecksAreSound'
    BY <1>1, ChecksStay DEF SsoGc
  <2>4. UsedAreRemembered'
    BY <1>1, Expiry, UsedStay DEF SsoGc, SsoInv, SsoTypeOK
  <2> QED
    BY <2>1, <2>2, <2>3, <2>4 DEF SsoInv
<1>2. CASE RotateKeys \/ SsoClock \/ UNCHANGED ssoVars
  <2>1. /\ UNCHANGED <<started, txns, issued, consumed, callbacks, logins>>
        /\ instant' \in Nat /\ instant' >= instant
    BY <1>2 DEF RotateKeys, SsoClock, ssoVars, SsoInv, SsoTypeOK
  <2>2. SsoTypeOK'
    BY <2>1 DEF SsoInv, SsoTypeOK
  <2>3. TxnsMoveOn'
    BY <2>1, <2>2, TxnsStay DEF Holds
  <2>4. ChecksAreSound'
    BY <2>1, ChecksStay
  <2>5. UsedAreRemembered'
    BY <2>1, UsedStay
  <2> QED
    BY <2>2, <2>3, <2>4, <2>5 DEF SsoInv
<1> QED
  BY <1>1, <1>2, StartKeeps, OidcCallbackKeeps, SamlAcsKeeps, CompleteOidcKeeps, MarkKeeps,
     IssueAssertionKeeps DEF SsoNext

\* A transaction and an assertion each sign somebody in at most once, whatever
\* callbacks repeat, overlap or come late and whatever was dropped as expired:
\* the row is taken before anything is believed (take_login_txn), and a used
\* assertion is remembered for as long as it could be accepted again
\* (saml_mark_assertion, map_assertion).
THEOREM LoginsHappenOnceCorrect == SsoSpec => []LoginsHappenOnce
<1>1. SsoInv => LoginsHappenOnce
  BY DEF SsoInv, SsoTypeOK, TxnsMoveOn, UsedAreRemembered, LoginsHappenOnce
<1> QED
  BY <1>1, SsoInvInit, SsoInvStep, PTL DEF SsoSpec
=============================================================================
