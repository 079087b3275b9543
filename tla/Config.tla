-------------------------------- MODULE Config --------------------------------
(***************************************************************************)
(* What the environment of the process means: the secret that              *)
(* secrets.MustLoad merges into it, and the settings that config.Load      *)
(* reads and refuses.                                                      *)
(*                                                                         *)
(* An environment maps names of variables to strings.  Blank stands for a  *)
(* string of spaces, which TrimSpace empties; the numbers and the networks *)
(* that occur in the instances are listed with what Go parses them to.     *)
(***************************************************************************)
EXTENDS Integers, Sequences, TLC

Blank == " "
Null  == "null"   \* a JSON null in the secret

Numerals == "-1" :> -1 @@ "0" :> 0 @@ "1" :> 1 @@ "60" :> 60 @@ "8080" :> 8080
            @@ "65535" :> 65535 @@ "65536" :> 65536
Durations == "24h" :> 86400 @@ "1s" :> 1 @@ "0s" :> 0 @@ "-1s" :> -1

\* TRUSTED_PROXIES after strings.Split, and the entries that name a network.
Lists    == "" :> {} @@ Blank :> {} @@ "10.0.0.1, 10.0.0.0/8" :> {"10.0.0.1", "10.0.0.0/8"}
            @@ "10.0.0.0/8,caddy" :> {"10.0.0.0/8", "caddy"}
Networks == {"10.0.0.1", "10.0.0.0/8"}

LookupEnv(env, k) == IF k \in DOMAIN env THEN env[k] ELSE ""
TrimSpace(s) == IF s = Blank THEN "" ELSE s
Setting(env, k) == TrimSpace(LookupEnv(env, k))
Getenv(env, k, fallback) == IF Setting(env, k) # "" THEN Setting(env, k) ELSE fallback

-----------------------------------------------------------------------------
\* secrets.MustLoad asks AWS only when a secret is named and not loaded yet.
FetchesSecret(env) ==
    Setting(env, "KALKE_SECRETS_LOADED") = "" /\ Setting(env, "SECRET_ID") # ""

\* A variable that is set keeps its value, were it blank.
Merged(env, secret) ==
    LET fresh == {k \in DOMAIN secret : LookupEnv(env, k) = "" /\ secret[k] # Null}
    IN  IF ~FetchesSecret(env) THEN env
        ELSE "KALKE_SECRETS_LOADED" :> "1" @@ [k \in fresh |-> secret[k]] @@ env

-----------------------------------------------------------------------------
\* A number that Atoi parses and that lies in range.
Number(env, k, fallback, range) ==
    LET s == Getenv(env, k, fallback) IN s \in DOMAIN Numerals /\ Numerals[s] \in range

ParseTrustedProxies(env) == Lists[LookupEnv(env, "TRUSTED_PROXIES")] \subseteq Networks

\* config.Load returns no error.  LOG_LEVEL and LOG_FORMAT stand for their
\* lower case, to which Load brings them.
LoadOk(env) ==
    LET ttl == Getenv(env, "REDIS_CACHE_TTL", "24h")
    IN  /\ ttl \in DOMAIN Durations /\ Durations[ttl] > 0
        /\ Number(env, "REDIS_DB", "0", Nat)
        /\ Number(env, "RATE_LIMIT_PER_MINUTE", "60", Nat \ {0})
        /\ ParseTrustedProxies(env)
        /\ \A k \in {"OIDC_ISSUER", "OIDC_AUDIENCE", "GROQ_API_KEY", "DATABASE_URL"} :
              Setting(env, k) # ""
        /\ Number(env, "PORT", "8080", 1..65535)
        /\ Getenv(env, "LOG_LEVEL", "info") \in {"debug", "info", "warn", "error"}
        /\ Getenv(env, "LOG_FORMAT", "text") \in {"text", "json"}

=============================================================================
