------------------------------ MODULE MCServer ------------------------------
(* The parts of the server that keep their own tables or maps, side by     *)
(* side: a behaviour is one of Accounts, LoginAttempts, McpEndpoint,       *)
(* SsoLogins, ClientIp, the providers or the browsers of SsoProviders, and *)
(* the others keep their initial states.                                   *)
EXTENDS Accounts, LoginAttempts, McpEndpoint, SsoLogins, ClientIp, SsoProviders, TLC

VARIABLE part

\* Nothing but identity tells these apart.
Interchangeable == Permutations(Tokens) \cup Permutations(Requests) \cup Permutations(Callbacks)

NamesOfThree == [u \in Users |-> IF u = "u3" THEN "bob" ELSE "ada"]

\* Two policies: locks that grow, and locks that do not.
FailuresAllowed == [k \in AttemptKeys |-> IF k = "account" THEN 2 ELSE 1]
FirstLock == [k \in AttemptKeys |-> IF k = "account" THEN 1 ELSE 2]
LongestLock == [k \in AttemptKeys |-> IF k = "account" THEN 3 ELSE 2]

StatedLifetime == [a \in Assertions |-> IF a = "a1" THEN 1 ELSE 0]

\* A call that is answered, and one variant of it for every check that stops it.
Call == [origin |-> "absent", shape |-> "request", method |-> "tools/call",
         id |-> TRUE, version |-> "modern", meta |-> TRUE, named |-> TRUE, scope |-> 1,
         caller |-> [user |-> "none", peer |-> "a", hops |-> <<>>],
         tool |-> "known", fails |-> FALSE, fits |-> TRUE]

By(user, peer, hops) == [Call EXCEPT !.caller = [user |-> user, peer |-> peer, hops |-> hops]]

AFewAsks ==
    {Call, By("someone", "a", <<>>), By("none", "proxy", <<"b", "a", "proxy">>),
     By("none", "proxy", <<"a", "garbage">>),
     [Call EXCEPT !.origin = "foreign"], [Call EXCEPT !.origin = "unparseable"],
     [Call EXCEPT !.shape = "not json"], [Call EXCEPT !.shape = "not a request"],
     [Call EXCEPT !.version = "unknown"], [Call EXCEPT !.id = FALSE],
     [Call EXCEPT !.meta = FALSE], [Call EXCEPT !.named = FALSE],
     [Call EXCEPT !.method = "other"], [Call EXCEPT !.method = "initialize"],
     [Call EXCEPT !.scope = 0], [Call EXCEPT !.tool = ""],
     [Call EXCEPT !.tool = "unknown"], [Call EXCEPT !.fails = TRUE],
     [Call EXCEPT !.fits = FALSE]}

\* Lists with an entry of either family, of every prefix length and one beyond,
\* mapped and not, and requests through none, one or several of those proxies.
Entry(a, p) == [text |-> "address", addr |-> a, prefix |-> p]
Unwritten(t) == [text |-> t, addr |-> V4(0), prefix |-> 0]

SomeLists ==
    {<<Entry(a, p)>> : a \in {V4(0), V4(2), V6(1), Mapped(1), V6(9), V6(15)}, p \in -1 .. 5}
    \cup {<<Entry(V4(2), 1), Unwritten(""), Entry(V6(9), 3)>>,
          <<Entry(V4(0), 2), Unwritten("garbage")>>}

Hop(t, a) == [text |-> t, addr |-> a]

Lines == {<<Hop("address", V4(0))>>,
          <<Hop("address", Mapped(1)), Hop("socket", V4(2))>>,
          <<Hop("address", V6(9)), Hop("address", V6(15))>>,
          <<Hop("garbage", V4(0)), Hop("address", V6(1))>>}

Forwarded == {<<>>, <<<<>>, <<Hop("address", V4(0))>>>>}
             \cup {<<l>> : l \in Lines}
             \cup {<<k, l>> : k \in Lines, l \in {<<Hop("address", V4(0))>>,
                                    <<Hop("garbage", V4(0)), Hop("address", V6(1))>>}}

\* Without a list, two private peers and one that is not.
SomeArrivals ==
    [l \in SomeLists |->
        {[peer |-> p, values |-> v] : p \in {V4(0), Mapped(3), V6(9)}, v \in Forwarded}]
    @@ (<<>> :> {[peer |-> Mapped(3), values |-> <<<<Hop("address", V4(0))>>>>],
                 [peer |-> V6(15), values |-> <<>>],
                 [peer |-> V4(0), values |-> <<<<Hop("garbage", V4(0))>>>>]})

SomePrivate == {V4(3), V6(15)}

\* Providers whose names overlap, one name for both kinds, a provider written
\* inline, and one setting wrong at a time.
Okta == <<"okta">>
OktaIdp == <<"okta", "idp">>

Set(kind, n, suffix, value) == Var(kind, n, suffix) :> value

OidcEnv(n) == Set("OIDC", n, <<"ISSUER">>, "issuer")
              @@ Set("OIDC", n, <<"CLIENT", "ID">>, "id")
              @@ Set("OIDC", n, <<"CLIENT", "SECRET">>, "secret")

Public == <<"PUBLIC", "URL">> :> "https"

TwoOidc ==
    Public @@ <<"OIDC", "PROVIDERS">> :> <<Okta, <<>>, OktaIdp>>
    @@ OidcEnv(Okta) @@ OidcEnv(OktaIdp)
    @@ Set("OIDC", Okta, <<"ADMIN", "GROUPS">>, {"ops"})
    @@ Set("OIDC", OktaIdp, <<"ADMIN", "EMAILS">>, {<<"ada", "corp">>})
    @@ Set("OIDC", OktaIdp, <<"ALLOWED", "EMAIL", "DOMAINS">>, {"corp"})
    @@ <<"ADMIN", "USER">> :> "ada"

SameName ==
    Public @@ <<"OIDC", "PROVIDERS">> :> <<Okta>> @@ <<"SAML", "PROVIDERS">> :> <<Okta>>
    @@ OidcEnv(Okta)
    @@ Set("SAML", Okta, <<"IDP", "METADATA", "URL">>, "good")
    @@ Set("SAML", Okta, <<"ADMIN", "GROUPS">>, {"ops"})
    @@ <<"SSO", "DEFAULT", "ROLE">> :> "viewer"

Inline(cert) ==
    Public @@ <<"SAML", "PROVIDERS">> :> <<OktaIdp>>
    @@ Set("SAML", OktaIdp, <<"IDP", "SSO", "URL">>, "sso")
    @@ Set("SAML", OktaIdp, <<"IDP", "CERT">>, cert)
    @@ Set("SAML", OktaIdp, <<"EMAIL", "ATTR">>, "mail")
    @@ Set("SAML", OktaIdp, <<"ALLOWED", "EMAIL", "DOMAINS">>, {"corp"})

SomeEnvironments ==
    {TwoOidc, SameName, Inline("cert"), Inline("no body"), <<>>,
     SameName @@ Set("SAML", Okta, <<"IDP", "CERT">>, "cert"),
     Set("SAML", Okta, <<"IDP", "METADATA", "URL">>, "unsigned") @@ SameName,
     <<"PUBLIC", "URL">> :> Blank @@ TwoOidc,
     <<"SSO", "DEFAULT", "ROLE">> :> "admin" @@ SameName,
     <<"OIDC", "PROVIDERS">> :> <<Okta, Okta>> @@ TwoOidc,
     <<"OIDC", "PROVIDERS">> :> <<<<"Okta">>>> @@ TwoOidc,
     Set("OIDC", Okta, <<"ISSUER">>, Blank) @@ TwoOidc}

SomeMetadata == "good" :> [parses |-> TRUE, redirect |-> TRUE, certs |-> 1]
                @@ "unsigned" :> [parses |-> TRUE, redirect |-> TRUE, certs |-> 0]

Ada == <<"ada", "corp">>

OidcToken(email, says, claims) ==
    [via |-> "OIDC", subject |-> <<"s">>, email |-> email, verified |-> says,
     claims |-> claims]

SomeAsserted ==
    {OidcToken(Ada, v, <<>>) : v \in {"yes", "no", "absent"}}
    \cup {OidcToken(Blank, "absent", "groups" :> [form |-> "array", values |-> <<"3", "ops">>]),
          OidcToken(<<"eve", "home">>, "yes",
                    "groups" :> [form |-> "string", values |-> <<"dev">>])}
    \cup {[via |-> "SAML", subject |-> Ada, format |-> f, attributes |-> a] :
            f \in {"email", "opaque"},
            a \in {<<>>, <<[name |-> "urn:mail", friendly |-> "mail",
                            values |-> <<<<"bo", "corp">>>>],
                           [name |-> "groups", friendly |-> "", values |-> <<"ops">>]>>}}

serverVars == <<accountVars, attemptVars, mcpVars, ssoVars, clientVars, providerVars,
                browserVars, part>>

ServerInit ==
    /\ part \in {"accounts", "attempts", "mcp", "sso", "client", "providers", "browser"}
    /\ AccountsInit /\ AttemptsInit /\ McpInit /\ SsoInit
    /\ ClientInit /\ (part # "client" => list = <<>>)
    /\ ProvidersInit /\ (part # "providers" => env = <<>>)
    /\ BrowserInit /\ (part # "browser" => https)

ServerNext ==
    /\ UNCHANGED part
    /\ \/ /\ part = "accounts" /\ AccountsNext
          /\ UNCHANGED <<attemptVars, mcpVars, ssoVars, clientVars, providerVars, browserVars>>
       \/ /\ part = "attempts" /\ AttemptsNext
          /\ UNCHANGED <<accountVars, mcpVars, ssoVars, clientVars, providerVars, browserVars>>
       \/ /\ part = "mcp" /\ McpNext
          /\ UNCHANGED <<accountVars, attemptVars, ssoVars, clientVars, providerVars, browserVars>>
       \/ /\ part = "sso" /\ SsoNext
          /\ UNCHANGED <<accountVars, attemptVars, mcpVars, clientVars, providerVars, browserVars>>
       \/ /\ part = "client" /\ ClientNext
          /\ UNCHANGED <<accountVars, attemptVars, mcpVars, ssoVars, providerVars, browserVars>>
       \/ /\ part = "providers" /\ ProvidersNext
          /\ UNCHANGED <<accountVars, attemptVars, mcpVars, ssoVars, clientVars, browserVars>>
       \/ /\ part = "browser" /\ BrowserNext
          /\ UNCHANGED <<accountVars, attemptVars, mcpVars, ssoVars, clientVars, providerVars>>

ServerSpec == ServerInit /\ [][ServerNext]_serverVars

\* The server knows who a request is from: its address (ClientIp), the person a
\* provider signed in and the browser that began the sign-in (SsoProviders).
CallersAreKnown == ClientIsItsOwn /\ SignInsAreMapped /\ SessionsAreOwn
=============================================================================
