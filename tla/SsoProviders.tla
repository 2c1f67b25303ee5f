---------------------------- MODULE SsoProviders ----------------------------
(***************************************************************************)
(* Which providers a server signs people in with, and who somebody is who  *)
(* comes from one: from src/crates/domarinn-server: lib.rs (start),        *)
(* sso/settings.rs, sso/mod.rs, sso/oidc.rs, sso/saml.rs, sso/mapping.rs   *)
(* and sso/provision.rs.                                                   *)
(*                                                                         *)
(* The name of an environment variable is the sequence of its words; the   *)
(* name of a provider is a sequence of words as well (my-idp), and both    *)
(* are joined by the same underscore.  An e-mail address is <<local,       *)
(* domain>>, in lower case: the code compares both without case.           *)
(***************************************************************************)
EXTENDS Integers, Sequences, FiniteSets, FiniteSetsExt, SequencesExt

CONSTANTS Environments,  \* environments a server may be started with: name -> value
          Metadata,      \* what is found where a SAML source points
          Asserted,      \* what the providers may assert
          SamlBuilt,     \* the cargo feature `saml'
          NameWords,     \* words a provider's name may have
          Blank,         \* a variable that is not set, or blank
          Nobody,        \* no sign-in yet
          MaxSignIns     \* bound on the number of sign-ins

VARIABLES env,       \* the environment of this start
          server,    \* "down", "refused", or the providers it runs with
          people,    \* users: sequence of [name, role]
          links,     \* user_identities: set of [provider, subject, user]
          signed,    \* the last sign-in
          signIns    \* how many there were

providerVars == <<env, server, people, links, signed, signIns>>

----------------------------------------------------------------------------
(* Settings.                                                               *)

Get(e, v) == IF v \in DOMAIN e THEN e[v] ELSE Blank

GetOr(e, v, default) == IF Get(e, v) = Blank THEN default ELSE Get(e, v)

\* DOMARINN_<kind>_<name>_<suffix>.
Var(kind, name, suffix) == <<kind>> \o name \o suffix

\* Names are separated by commas; empty ones are skipped, one with a character
\* that does not belong there, or a repeated one, refuses the start.
provider_names(e, kind) ==
    LET names == SelectSeq(GetOr(e, <<kind, "PROVIDERS">>, <<>>), LAMBDA n : n # <<>>) IN
    [ok    |-> /\ \A i \in DOMAIN names : Range(names[i]) \subseteq NameWords
               /\ \A i, j \in DOMAIN names : names[i] = names[j] => i = j,
     names |-> Range(names)]

\* parse_bool_env, and the same rule in the settings of a SAML provider.
parse_bool(value, default) ==
    [ok |-> value \in {Blank, "yes", "no"},
     is |-> IF value = Blank THEN default ELSE value = "yes"]

\* An administrator is never a default.
default_role(e) ==
    LET value == Get(e, <<"SSO", "DEFAULT", "ROLE">>) IN
    [ok |-> value \in {Blank, "member", "viewer"},
     is |-> IF value = Blank THEN "member" ELSE value]

parse_mapping(e, kind, n) ==
    [admin_groups  |-> GetOr(e, Var(kind, n, <<"ADMIN", "GROUPS">>), {}),
     admin_emails  |-> GetOr(e, Var(kind, n, <<"ADMIN", "EMAILS">>), {}),
     email_domains |-> GetOr(e, Var(kind, n, <<"ALLOWED", "EMAIL", "DOMAINS">>), {}),
     default_role  |-> default_role(e).is]

OidcRequired == {<<"ISSUER">>, <<"CLIENT", "ID">>, <<"CLIENT", "SECRET">>}

ParseOidc(e, n) ==
    [ok         |-> \A suffix \in OidcRequired : Get(e, Var("OIDC", n, suffix)) # Blank,
     kind       |-> "OIDC",
     name       |-> n,
     groups_key |-> GetOr(e, Var("OIDC", n, <<"GROUPS", "CLAIM">>), "groups"),
     mapping    |-> parse_mapping(e, "OIDC", n)]

SamlSources == {<<"IDP", "METADATA", "URL">>, <<"IDP", "METADATA", "FILE">>,
                <<"IDP", "SSO", "URL">>, <<"IDP", "CERT">>}

\* Exactly one source: a place, a file, or an address with its certificate.
SamlSource(e, n) == {s \in SamlSources : Get(e, Var("SAML", n, s)) # Blank}

ParseSaml(e, n) ==
    LET initiated == parse_bool(Get(e, Var("SAML", n, <<"ALLOW", "IDP", "INITIATED">>)), FALSE)
    IN [ok         |-> /\ SamlSource(e, n) \in {{<<"IDP", "METADATA", "URL">>},
                                                {<<"IDP", "METADATA", "FILE">>},
                                                {<<"IDP", "SSO", "URL">>, <<"IDP", "CERT">>}}
                       /\ initiated.ok,
        kind       |-> "SAML",
        name       |-> n,
        groups_key |-> GetOr(e, Var("SAML", n, <<"GROUPS", "ATTR">>), "groups"),
        email_attr |-> Get(e, Var("SAML", n, <<"EMAIL", "ATTR">>)),
        initiated  |-> initiated.is,
        mapping    |-> parse_mapping(e, "SAML", n)]

parse_sso_settings(e) ==
    LET oidc == provider_names(e, "OIDC")
        saml == provider_names(e, "SAML")
        read == {ParseOidc(e, n) : n \in oidc.names} \cup {ParseSaml(e, n) : n \in saml.names}
    IN [ok        |-> /\ oidc.ok /\ saml.ok /\ default_role(e).ok
                      /\ \A p \in read : p.ok,
        providers |-> read]

\* Settings::from_env: what is not set right refuses the start before anything
\* is opened.
from_env(e) ==
    LET sso == parse_sso_settings(e) IN
    [ok         |-> sso.ok /\ parse_bool(Get(e, <<"COOKIE", "SECURE">>), FALSE).ok,
     providers  |-> sso.providers,
     public_url |-> Get(e, <<"PUBLIC", "URL">>)]

----------------------------------------------------------------------------
(* The registry: SAML metadata is read now, OIDC discovery is done later.  *)

\* The content behind a provider's source: [parses, redirect, certs], Blank when
\* it cannot be fetched or read.  Written inline there is a redirect, and a
\* certificate when the text has a body.
MetadataOf(e, n) ==
    IF <<"IDP", "CERT">> \in SamlSource(e, n)
    THEN [parses   |-> Get(e, Var("SAML", n, <<"IDP", "CERT">>)) # "no body",
          redirect |-> TRUE, certs |-> 1]
    ELSE LET s == CHOOSE x \in SamlSource(e, n) : TRUE IN Metadata[Get(e, Var("SAML", n, s))]

SamlFromSettings(e, n) ==
    LET m == MetadataOf(e, n) IN m # Blank /\ m.parses /\ m.redirect /\ m.certs > 0

\* Providers need the public address, SAML needs to be built in.
RegistryFromSettings(e, settings) ==
    /\ settings.providers # {} => settings.public_url # Blank
    /\ \A p \in settings.providers :
        p.kind = "SAML" => SamlBuilt /\ SamlFromSettings(e, p.name)

----------------------------------------------------------------------------
(* Who is asserted.                                                        *)

\* A claim that is a list of names, or a single one; what is not a name is left out.
extract_groups(claims, key) ==
    IF key \notin DOMAIN claims THEN {}
    ELSE IF claims[key].form = "array" THEN {g \in Range(claims[key].values) : g # "3"}
    ELSE IF claims[key].form = "string" THEN Range(claims[key].values)
    ELSE {}

\* An address counts as verified when the token says so, not when it is silent.
FromOidc(p, t) ==
    [subject |-> t.subject, email |-> t.email, email_verified |-> t.verified = "yes",
     groups  |-> extract_groups(t.claims, p.groups_key)]

attribute_values(t, name) ==
    FlattenSeq([i \in DOMAIN t.attributes |->
        IF name \in {t.attributes[i].name, t.attributes[i].friendly}
        THEN t.attributes[i].values ELSE <<>>])

first_attribute(t, name) ==
    LET values == attribute_values(t, name) IN IF values = <<>> THEN Blank ELSE values[1]

\* A configured attribute is the only place; else the name when it is an address,
\* then two usual attributes.
SamlEmail(p, t) ==
    IF p.email_attr # Blank THEN first_attribute(t, p.email_attr)
    ELSE IF t.format = "email" THEN t.subject
    ELSE IF first_attribute(t, "email") # Blank THEN first_attribute(t, "email")
    ELSE first_attribute(t, "mail")

\* The provider vouches for the addresses it signs.
FromSaml(p, t) ==
    [subject |-> t.subject, email |-> SamlEmail(p, t), email_verified |-> TRUE,
     groups  |-> Range(attribute_values(t, p.groups_key))]

\* An address taken as it was sent.
EmailAsSent(a) == a.email

trusted_email(a) == IF a.email_verified THEN a.email ELSE Blank

HasDomain(email) == email # Blank /\ Len(email) = 2

check_allowed(m, email) ==
    m.email_domains # {} => HasDomain(email) /\ email[2] \in m.email_domains

role_for(m, email, groups) ==
    IF groups \cap m.admin_groups # {} \/ email \in m.admin_emails THEN "admin"
    ELSE m.default_role

\* A key of the name alone.
KeyOfName(p) == p.name

\* `oidc:<name>' or `saml:<name>'.
provider_key(p) == <<p.kind>> \o p.name

\* From the address when there is one, else from the provider and the subject.
derive_username(p, a) == IF a.email # Blank THEN <<a.email[1]>> ELSE p.name \o a.subject

\* create_sso_user looks for the first of base, base-2 ... that is free.
FreeName(base) ==
    LET taken == {people[i].name : i \in DOMAIN people}
        n     == Min({k \in 1 .. Len(people) + 1 : Append(base, k) \notin taken})
    IN Append(base, n)

----------------------------------------------------------------------------
NewLink(p, a, user) == [provider |-> provider_key(p), subject |-> a.subject, user |-> user]

LastAdmin(u) == people[u].role = "admin"
                /\ \A v \in DOMAIN people \ {u} : people[v].role # "admin"

\* The steps of a login after its callback was accepted: the allowlist, the
\* identity, a new user or the role of the known one.
Provision(p, t) ==
    LET a     == IF p.kind = "OIDC" THEN FromOidc(p, t) ELSE FromSaml(p, t)
        email == trusted_email(a)
        role  == role_for(p.mapping, email, a.groups)
        known == {l \in links : l.provider = provider_key(p) /\ l.subject = a.subject}
        none  == [provider |-> p, token |-> t, user |-> 0, role |-> "none", kept |-> FALSE]
    IN IF ~check_allowed(p.mapping, email)
       THEN signed' = none /\ UNCHANGED <<people, links>>
       ELSE IF known = {}
       THEN /\ people' = Append(people, [name |-> FreeName(derive_username(p, a)), role |-> role])
            /\ links' = links \cup {NewLink(p, a, Len(people) + 1)}
            /\ signed' = [none EXCEPT !.user = Len(people) + 1, !.role = role]
       ELSE LET u    == (CHOOSE l \in known : TRUE).user
                kept == LastAdmin(u) /\ role # "admin"
                held == IF kept THEN "admin" ELSE role
            IN /\ people' = [people EXCEPT ![u].role = held]
               /\ signed' = [none EXCEPT !.user = u, !.role = held, !.kept = kept]
               /\ UNCHANGED links

SignIn ==
    /\ server.at = "running" /\ signIns < MaxSignIns
    /\ \E p \in server.providers, t \in Asserted : t.via = p.kind /\ Provision(p, t)
    /\ signIns' = signIns + 1
    /\ UNCHANGED <<env, server>>

\* bootstrap_admin: the user of that name is made, or made an administrator.
BootstrapPeople ==
    LET root  == <<Get(env, <<"ADMIN", "USER">>), 1>>
        known == {i \in DOMAIN people : people[i].name = root}
    IN IF root[1] = Blank THEN people
       ELSE IF known = {} THEN Append(people, [name |-> root, role |-> "admin"])
       ELSE [i \in DOMAIN people |->
                IF i \in known THEN [people[i] EXCEPT !.role = "admin"] ELSE people[i]]

\* AppState::new.  The database is opened, and the administrator of the
\* environment written, before the registry can refuse the start.
StartServer ==
    /\ server.at = "down"
    /\ LET settings == from_env(env)
       IN IF ~settings.ok
          THEN server' = [at |-> "refused"] /\ UNCHANGED people
          ELSE /\ people' = BootstrapPeople
               /\ server' = IF RegistryFromSettings(env, settings)
                            THEN [at |-> "running", providers |-> settings.providers]
                            ELSE [at |-> "refused"]
    /\ UNCHANGED <<env, links, signed, signIns>>

\* The server is stopped and started again, perhaps with other settings.
StopServer ==
    /\ server.at # "down" /\ signIns < MaxSignIns
    /\ server' = [at |-> "down"] /\ env' \in Environments
    /\ signed' = Nobody
    /\ UNCHANGED <<people, links, signIns>>

ProvidersInit ==
    /\ env \in Environments /\ server = [at |-> "down"]
    /\ people = <<>> /\ links = {} /\ signed = Nobody /\ signIns = 0

ProvidersNext == StartServer \/ StopServer \/ SignIn

----------------------------------------------------------------------------
(* Properties.                                                             *)

OfProvider == {<<"ISSUER">>, <<"CLIENT", "ID">>, <<"CLIENT", "SECRET">>, <<"GROUPS", "CLAIM">>,
               <<"GROUPS", "ATTR">>, <<"EMAIL", "ATTR">>, <<"ALLOW", "IDP", "INITIATED">>,
               <<"ADMIN", "GROUPS">>, <<"ADMIN", "EMAILS">>, <<"ALLOWED", "EMAIL", "DOMAINS">>}
              \cup SamlSources

Variables(p) == {Var(p.kind, p.name, s) : s \in OfProvider}

\* Everybody who is signed in is who the provider says and no more: a person of
\* one provider is nobody of another, not even of one with the same name or for
\* somebody with the same address; an administrator was in a group, or has a
\* verified address, that the settings of that very provider name (or is the
\* last administrator there is); where addresses are limited only a verified one
\* is let in; no two providers read the same variable, however their names
\* overlap; and a server that runs can check the signature of every SAML
\* provider it was given and knows its own address.
SignInsAreMapped ==
    /\ \A l, m \in links : l.user = m.user => l = m
    /\ \A i, j \in DOMAIN people : people[i].name = people[j].name => i = j
    /\ server.at = "running" =>
        /\ \A p, q \in server.providers : p # q => Variables(p) \cap Variables(q) = {}
        /\ \A p \in server.providers :
            /\ Get(env, <<"PUBLIC", "URL">>) # Blank
            /\ p.kind = "SAML" => MetadataOf(env, p.name).certs > 0
    /\ signed # Nobody /\ signed.role # "none" =>
        LET m == signed.provider.mapping
            t == signed.token
            verified == t.via = "SAML" \/ t.verified = "yes"
            sent == IF t.via = "SAML" THEN SamlEmail(signed.provider, t) ELSE t.email
            groups == IF t.via = "SAML" THEN Range(attribute_values(t, signed.provider.groups_key))
                      ELSE extract_groups(t.claims, signed.provider.groups_key)
        IN /\ signed.role = "admin" /\ ~signed.kept =>
                m.admin_groups \cap groups # {} \/ (verified /\ sent \in m.admin_emails)
           /\ m.email_domains # {} => verified /\ sent[2] \in m.email_domains
           /\ \E l \in links : /\ l.user = signed.user
                               /\ l.subject = t.subject
                               /\ l.provider = <<t.via>> \o signed.provider.name

-----------------------------------------------------------------------------
(***************************************************************************)
(* What a browser carries: the cookies of a sign-in under way and of a     *)
(* session, and which changes made with them are accepted, from            *)
(* src/crates/domarinn-server: sso/handlers.rs, csrf.rs and auth.rs.       *)
(*                                                                         *)
(* A callback is a navigation from the provider's page: a GET for OIDC, a  *)
(* POST for SAML.  Its address may be opened in another browser than the   *)
(* one that began the sign-in.                                             *)
(***************************************************************************)

CONSTANTS Browsers,
          SignInIds,    \* txn ids, random and never reused
          NoCookie,     \* a cookie that is not in the jar
          PublicHost,   \* host of DOMARINN_PUBLIC_URL, or NoCookie
          RequestHost,  \* the Host header of requests
          Pages,        \* hosts of the pages that make requests, "unparseable" or "absent"
          AllowInitiated \* allow_idp_initiated

VARIABLES https,     \* cookie_secure: the public address is https
          startedBy,     \* id -> [browser, kind], or NoCookie: history
          pending,   \* login_transactions: ids that were not taken
          jar,       \* browser -> cookie name -> [value, same_site, secure], or NoCookie
          changed    \* history: page of the last change accepted with a cookie, or NoCookie

browserVars == <<https, startedBy, pending, jar, changed>>

CookieNames == {"txn", "saml_txn", "session"}
LoginKinds == {"oidc", "saml"}

----------------------------------------------------------------------------
(* Cookies.                                                                *)

Cookie(value, same_site) == [value |-> value, same_site |-> same_site, secure |-> https]

txn_cookie(x) == Cookie(x, "lax")

\* One kind of cookie for both.
saml_txn_cookie_lax(x) == Cookie(x, "lax")

\* The provider's page posts the answer, which a Lax cookie does not go with; a
\* browser takes None only together with Secure.
saml_txn_cookie(x) == Cookie(x, IF https THEN "none" ELSE "lax")

session_cookie(x) == Cookie(x, "lax")

\* What a browser sends with a request that another site's page began: a Lax
\* cookie goes with a navigation by GET only.
Carried(b, name, method, cross_site) ==
    LET c == jar[b][name] IN
    IF c = NoCookie THEN NoCookie
    ELSE IF cross_site /\ c.same_site = "lax" /\ method # "GET" THEN NoCookie
    ELSE c.value

CookieOf(kind) == IF kind = "oidc" THEN "txn" ELSE "saml_txn"
MethodOf(kind) == IF kind = "oidc" THEN "GET" ELSE "POST"

----------------------------------------------------------------------------
(* Sign-ins.                                                               *)

\* oidc_start, saml_start: the id goes to the provider and into a cookie, where
\* it replaces that of a sign-in startedBy before.
StartSignIn(b, x, kind) ==
    /\ startedBy[x] = NoCookie
    /\ startedBy' = [startedBy EXCEPT ![x] = [browser |-> b, kind |-> kind]]
    /\ pending' = pending \cup {x}
    /\ jar' = [jar EXCEPT ![b][CookieOf(kind)] =
                   IF kind = "oidc" THEN txn_cookie(x) ELSE saml_txn_cookie(x)]
    /\ UNCHANGED <<https, changed>>

\* A callback that only looks for a row.
BoundToAny(b, x) == TRUE

\* The id that comes back must be the one in this browser's cookie.
BoundHere(b, x) ==
    LET kind == startedBy[x].kind IN Carried(b, CookieOf(kind), MethodOf(kind), TRUE) = x

\* finish_login: a session cookie, and for OIDC the other is cleared.
SignedIn(b, x, kind) ==
    jar' = [jar EXCEPT ![b]["session"] = session_cookie(x),
                       ![b]["txn"] = IF kind = "oidc" THEN NoCookie ELSE @]

\* oidc_callback and saml_acs: without the cookie the row is not even taken.
FinishSignIn(b, x) ==
    /\ startedBy[x] # NoCookie
    /\ BoundHere(b, x)
    /\ x \in pending
    /\ pending' = pending \ {x}
    /\ \/ SignedIn(b, x, startedBy[x].kind)
       \/ UNCHANGED jar     \* the provider, or the answer, fails
    /\ UNCHANGED <<https, startedBy, changed>>

\* A SAML answer without relay state, where the provider may begin.
InitiatedElsewhere(b) ==
    /\ AllowInitiated
    /\ SignedIn(b, "initiated", "saml")
    /\ UNCHANGED <<https, startedBy, pending, changed>>

\* Logging out clears the session's cookie.
LogoutHere(b) ==
    /\ jar[b]["session"] # NoCookie
    /\ jar' = [jar EXCEPT ![b]["session"] = NoCookie]
    /\ UNCHANGED <<https, startedBy, pending, changed>>

----------------------------------------------------------------------------
(* Changes.  A request has a host of origin (or none), a method, and its   *)
(* credential: the cookie, or a header that no page can set.               *)

origin_allowed(page) == page \in {PublicHost, RequestHost}

\* csrf_middleware.
AcceptsChange(method, page, via_cookie) ==
    method # "GET" /\ via_cookie =>
        page = "absent" \/ (page # "unparseable" /\ origin_allowed(page))

\* A page of this or another host, or a client that is no browser ("absent"),
\* sends a request; hosts that share the site's domain get the cookie.
SendChange(b, page, method, header) ==
    LET sent == Carried(b, "session", method, page = "other site") IN
    /\ header \/ sent # NoCookie
    /\ AcceptsChange(method, page, ~header)
    /\ changed' = IF method = "GET" \/ header THEN changed ELSE page
    /\ UNCHANGED <<https, startedBy, pending, jar>>

BrowserInit ==
    /\ https \in BOOLEAN
    /\ startedBy = [x \in SignInIds |-> NoCookie] /\ pending = {}
    /\ jar = [b \in Browsers |-> [n \in CookieNames |-> NoCookie]]
    /\ changed = NoCookie

BrowserNext ==
    \E b \in Browsers :
        \/ \E x \in SignInIds : FinishSignIn(b, x) \/ \E k \in LoginKinds : StartSignIn(b, x, k)
        \/ InitiatedElsewhere(b) \/ LogoutHere(b)
        \/ \E page \in Pages, method \in {"GET", "POST"}, header \in BOOLEAN :
               SendChange(b, page, method, header)

----------------------------------------------------------------------------
(* Properties.                                                             *)

\* A browser is signed in by sign-ins it began itself: not by an answer whose
\* address was opened there, nor, unless the provider may begin, by one that was
\* never asked for.  Over https each kind of sign-in can be finished as long as
\* it is the last of its kind startedBy there, whatever the other kind does in
\* between; and a change made with the session's cookie comes from a page of
\* this server, or from no page.
SessionsAreOwn ==
    /\ \A b \in Browsers :
        LET s == jar[b]["session"] IN
        s # NoCookie => IF s.value = "initiated" THEN AllowInitiated
                        ELSE startedBy[s.value].browser = b
    /\ https => \A x \in pending :
        LET b == startedBy[x].browser  name == CookieOf(startedBy[x].kind) IN
        jar[b][name] # NoCookie /\ jar[b][name].value = x => BoundHere(b, x)
    /\ \A b \in Browsers, name \in CookieNames :
        jar[b][name] # NoCookie => (jar[b][name].same_site = "none" => jar[b][name].secure)
    /\ changed \in {NoCookie, PublicHost, RequestHost, "absent"}
=============================================================================
