---------------------------- MODULE Authenticator ----------------------------
(***************************************************************************)
(* Who is let in: the authenticator that main builds from the settings and *)
(* the realm's discovery document, and the authenticate middleware with    *)
(* it.  A JWT is checked against the keys the process holds in memory; a   *)
(* PAT is put to kalke-auth by HTTP, once for each request.                *)
(*                                                                         *)
(* A URL is its origin.  A token has the fields kind, key (the signing key *)
(* of a JWT, the name of a PAT), iss, aud, sub, the two ways to carry      *)
(* scopes, and fresh: RS256 and not expired.  The kind "none" is a request *)
(* without a Bearer token.  The requests are those of Lifecycle.           *)
(***************************************************************************)
EXTENDS Config, Lifecycle

CONSTANTS
    Tokens,
    Rotation,     \* the keys of the realm, in the order in which it signs with them
    Deployments   \* env, secret, and the origins in reach of the process

VARIABLES
    deployment,  \* of this start of the process
    issuer,      \* Authenticator.issuer
    jwks,        \* the origin its keys are loaded from
    keys,        \* keyfunc: the keys in memory
    published,   \* the realm: first and last index in Rotation of its keys
    offered,     \* history: what was published since this start
    revoked,     \* kalke-auth: the PATs that were revoked
    token, verdict, entitled   \* of each request

authVars == <<deployment, issuer, jwks, keys, published, offered, revoked, token,
              verdict, entitled>>
world == <<published, revoked>>

Env == Merged(deployment.env, deployment.secret)
Published == {Rotation[i] : i \in published[1]..published[2]}
Pats == {t.key : t \in {u \in Tokens : u.kind = "pat"}}
NoToken == [kind |-> "none", key |-> "", iss |-> "", aud |-> "", sub |-> "",
            permissions |-> {}, scope |-> {}, fresh |-> FALSE]

Verdicts == {"none", "asked", "active", "inactive", "admitted", "unauthorized", "forbidden"}

AuthTypeOK ==
    /\ deployment \in Deployments
    /\ keys \subseteq offered /\ Published \subseteq offered
    /\ revoked \subseteq Pats
    /\ token \in [Requests -> Tokens \cup {NoToken}]
    /\ verdict \in [Requests -> Verdicts] /\ entitled \in [Requests -> BOOLEAN]

-----------------------------------------------------------------------------
Ac == INSTANCE Actor WITH ForwardSecret <- "", PdeClients <- {}

TrimSuffix(url) == IF url = "public/" THEN "public" ELSE url

\* The base of discovery, and the documents that may be found there: Keycloak
\* names its public host, or the one it was asked through.
Base(env) == IF Setting(env, "OIDC_DISCOVERY_URL") = ""
             THEN TrimSuffix(Setting(env, "OIDC_ISSUER"))
             ELSE TrimSuffix(Setting(env, "OIDC_DISCOVERY_URL"))
Documents(base) == [issuer : {"", "public", base}, jwksURI : {"public", base}]

ConfiguredIssuer == TrimSuffix(Setting(Env, "OIDC_ISSUER"))

\* The public origin of the realm is the one that OIDC_ISSUER names, wherever
\* the settings are accepted.
ASSUME DeploymentAssumption ==
    /\ Deployments # {}
    /\ \A d \in Deployments :
          LET env == Merged(d.env, d.secret)
          IN  LoadOk(env) => TrimSuffix(Setting(env, "OIDC_ISSUER")) = "public"

AlwaysAdopted(env, doc) ==
    IF doc.issuer # "" THEN TrimSuffix(doc.issuer)
    ELSE TrimSuffix(Setting(env, "OIDC_ISSUER"))
ExpectedIssuer(env, doc) ==
    IF Setting(env, "OIDC_DISCOVERY_URL") = "" /\ doc.issuer # ""
    THEN TrimSuffix(doc.issuer)
    ELSE TrimSuffix(Setting(env, "OIDC_ISSUER"))

JWKSOrigin(env, doc) ==
    IF Setting(env, "OIDC_DISCOVERY_URL") # "" THEN Base(env) ELSE doc.jwksURI

\* kalke-auth tells the permissions of a PAT and no scope.
ScopesFromClaims(t) ==
    IF t.permissions # {} THEN t.permissions
    ELSE IF t.kind = "pat" THEN {} ELSE t.scope

IntrospectionOn(env) ==
    Setting(env, "AUTH_INTROSPECT_URL") # "" /\ Setting(env, "INTROSPECT_SECRET") # ""

ValidJWT(t) ==
    /\ t.key \in keys /\ t.fresh
    /\ t.iss = issuer /\ t.aud = Setting(Env, "OIDC_AUDIENCE")
    /\ t.sub # ""

\* The scope check of the middleware, on the principal of the token.
Scoped(t) == IF Ac!HasScope([scopes |-> ScopesFromClaims(t)], "extract:write")
             THEN "admitted" ELSE "forbidden"

-----------------------------------------------------------------------------
AuthInit ==
    /\ deployment = (CHOOSE d \in Deployments : TRUE) /\ issuer = "" /\ jwks = "" /\ keys = {}
    /\ published = <<1, 1>> /\ offered = {Rotation[1]} /\ revoked = {}
    /\ token = [r \in Requests |-> NoToken]
    /\ verdict = [r \in Requests |-> "none"]
    /\ entitled = [r \in Requests |-> FALSE]

\* A new process: another environment, and nothing in memory.
Deploy ==
    /\ deployment' \in Deployments
    /\ issuer' = "" /\ jwks' = "" /\ keys' = {} /\ offered' = Published
    /\ token' = [r \in Requests |-> NoToken]
    /\ verdict' = [r \in Requests |-> "none"]
    /\ entitled' = [r \in Requests |-> FALSE]
    /\ UNCHANGED world

\* NewAuthenticator.  keyfunc starts without keys when it cannot load them.
NewAuthenticator ==
    /\ Base(Env) \in deployment.reach
    /\ \E doc \in Documents(Base(Env)) :
          /\ issuer' = ExpectedIssuer(Env, doc) /\ jwks' = JWKSOrigin(Env, doc)
          /\ keys' \in {{}} \cup {k \in {Published} : jwks' \in deployment.reach}
    /\ UNCHANGED <<deployment, offered, token, verdict, entitled, world>>

\* keyfunc loads the keys again, every hour and for a key it does not know.
Refresh ==
    /\ jwks \in deployment.reach /\ keys # Published
    /\ keys' = Published
    /\ UNCHANGED <<deployment, issuer, jwks, offered, token, verdict, entitled, world>>

\* authenticate and Authenticate: a JWT is decided at once.
Arrive(r, t) ==
    /\ verdict[r] = "none"
    /\ token' = [token EXCEPT ![r] = t]
    /\ entitled' = [entitled EXCEPT ![r] = t.kind = "pat" /\ t.key \notin revoked]
    /\ verdict' = [verdict EXCEPT ![r] =
          CASE t.kind = "pat" /\ IntrospectionOn(Env) -> "asked"
            [] t.kind = "jwt" /\ ValidJWT(t)          -> Scoped(t)
            [] OTHER                                  -> "unauthorized"]
    /\ UNCHANGED <<deployment, issuer, jwks, keys, offered, world>>

Decide(r, v) ==
    /\ verdict' = [verdict EXCEPT ![r] = v]
    /\ UNCHANGED <<deployment, issuer, jwks, keys, offered, token, entitled, world>>

\* kalke-auth looks the PAT up ...
Introspected(r) ==
    /\ verdict[r] = "asked"
    /\ Decide(r, IF token[r].key \in revoked THEN "inactive" ELSE "active")

\* ... and its answer reaches authenticatePAT, or any error comes first.
AnswerNotRead(r) ==
    /\ verdict[r] \in {"active", "inactive"}
    /\ Decide(r, Scoped(token[r]))
IntrospectReply(r) ==
    /\ verdict[r] \in {"active", "inactive"}
    /\ Decide(r, IF verdict[r] = "active" /\ token[r].sub # "" THEN Scoped(token[r])
                 ELSE "unauthorized")
IntrospectFails(r) ==
    /\ verdict[r] \in {"asked", "active", "inactive"}
    /\ Decide(r, "unauthorized")

\* The realm publishes its next key beside the ones it has, or withdraws its
\* oldest; a user revokes a PAT.
NextKey ==
    /\ published[2] < Len(Rotation)
    /\ published' = <<published[1], published[2] + 1>>
    /\ offered' = offered \cup {Rotation[published[2] + 1]}
    /\ UNCHANGED <<deployment, issuer, jwks, keys, revoked, token, verdict, entitled>>
WithdrawKey ==
    /\ published[1] < published[2]
    /\ published' = <<published[1] + 1, published[2]>>
    /\ UNCHANGED <<deployment, issuer, jwks, keys, offered, revoked, token, verdict, entitled>>
Revoke(p) ==
    /\ p \notin revoked
    /\ revoked' = revoked \cup {p}
    /\ UNCHANGED <<deployment, issuer, jwks, keys, published, offered, token, verdict, entitled>>

-----------------------------------------------------------------------------
(***************************************************************************)
(* Properties                                                              *)
(***************************************************************************)

\* authenticate lets a request in only with a token of the configured
\* audience whose key the realm published during this run of the process, or
\* with a PAT that was not revoked when the request came; whatever was
\* revoked, withdrawn or lost meanwhile, and never without the scope.
OnlyEntitledAdmitted ==
    \A r \in Requests : verdict[r] = "admitted" =>
        /\ {"admin", "extract:write"} \cap (token[r].permissions \cup token[r].scope) # {}
        /\ CASE token[r].kind = "pat" -> entitled[r]
             [] token[r].kind = "jwt" -> /\ token[r].key \in offered
                                         /\ token[r].aud = Setting(Env, "OIDC_AUDIENCE")
                                         /\ \/ Setting(Env, "OIDC_DISCOVERY_URL") = ""
                                            \/ token[r].iss = ConfiguredIssuer
             [] OTHER -> FALSE

\* A token of the configured issuer and audience, valid as a JWT.
Genuine(t) ==
    /\ t.kind = "jwt" /\ t.fresh /\ t.sub # ""
    /\ t.iss = ConfiguredIssuer
    /\ t.aud = Setting(Env, "OIDC_AUDIENCE")

\* README: the API "loads JWKS from http://caddy:8443 (OIDC_DISCOVERY_URL)
\* while validating JWT iss as http://localhost:8443/realms/kalke
\* (OIDC_ISSUER)": authenticate refuses a genuine token only until its key is
\* loaded, from an origin that the process can reach.
GenuineRefusedOnlyForKey ==
    [][\A r \in Requests :
          verdict[r] = "none" /\ verdict'[r] = "unauthorized" /\ Genuine(token'[r])
             => token'[r].key \notin keys /\ jwks \in deployment.reach]_authVars

=============================================================================
