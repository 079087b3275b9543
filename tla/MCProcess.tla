------------------------------ MODULE MCProcess ------------------------------
(***************************************************************************)
(* Deployments: in Docker the realm is reached through the internal origin *)
(* only; on the host its public one answers.  The settings come from the   *)
(* environment, from the secret, or from both.                             *)
(***************************************************************************)
EXTENDS Process

Required == "GROQ_API_KEY" :> "key" @@ "DATABASE_URL" :> "db" @@ "OIDC_AUDIENCE" :> "pde"
            @@ "OIDC_ISSUER" :> "public"
Pat == "AUTH_INTROSPECT_URL" :> "bff" @@ "INTROSPECT_SECRET" :> "s"

Docker == [env    |-> Pat @@ Required @@ "OIDC_DISCOVERY_URL" :> "internal",
           secret |-> <<>>, reach |-> {"internal"}]
Host == [env    |-> "SECRET_ID" :> "id" @@ "OIDC_ISSUER" :> "public/" @@ "PORT" :> "65535",
         secret |-> Required @@ "PORT" :> "0" @@ "INTROSPECT_SECRET" :> Null,
         reach  |-> {"public", "internal"}]

\* A limit of zero, a blank that hides the secret's value, an entry that is no
\* network, and a realm out of reach.
Broken == {[Docker EXCEPT !.env = "RATE_LIMIT_PER_MINUTE" :> "0" @@ @],
           [Host EXCEPT !.env = "DATABASE_URL" :> Blank @@ @],
           [Docker EXCEPT !.env = "TRUSTED_PROXIES" :> "10.0.0.0/8,caddy" @@ @],
           [Docker EXCEPT !.reach = {}]}

MCDeployments == {Docker, Host} \cup Broken
MCRotation == <<"k1", "k2">>

Jwt == [kind |-> "jwt", key |-> "k1", iss |-> "public", aud |-> "pde", sub |-> "u",
        permissions |-> {}, scope |-> {"extract:write"}, fresh |-> TRUE]
APat == [Jwt EXCEPT !.kind = "pat", !.key = "kalke_1", !.iss = "", !.aud = "",
                    !.permissions = {"admin"}, !.scope = {}]
MCTokens == {Jwt, APat, [Jwt EXCEPT !.key = "k2"], [Jwt EXCEPT !.iss = "internal"],
             [Jwt EXCEPT !.permissions = {"read"}]}

=============================================================================
