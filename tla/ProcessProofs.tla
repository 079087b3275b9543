---------------------------- MODULE ProcessProofs ----------------------------
(***************************************************************************)
(* TLAPS proofs about Process: that its steps are steps of Lifecycle, so   *)
(* that what LifecycleProofs shows holds of the whole process, and who is  *)
(* let in, for every set of requests, tokens and deployments and every     *)
(* rotation of the realm's keys.                                           *)
(***************************************************************************)
EXTENDS Process, LifecycleProofs

LEMMA StepIsLifecycle == [PNext]_pvars => [Next]_vars
<1> SUFFICES ASSUME [PNext]_pvars PROVE [Next]_vars
  OBVIOUS
<1>1. CASE PMain
  BY <1>1 DEF PMain, PConfigured, PConfigFails, PWired, Next, Main
<1>2. CASE Around \/ UNCHANGED pvars
  BY <1>2 DEF Around, pvars
<1>3. CASE PNext /\ ~PMain /\ ~Around
  BY <1>3 DEF PNext, PStart, PRequest, PFinish, Next
<1> QED
  BY <1>1, <1>2, <1>3

\* The process with its settings and its authenticator is a Lifecycle: whatever
\* they decide, main takes no step that Lifecycle does not allow.
THEOREM ProcessIsLifecycle == PSpec => Spec
<1>1. PInit => Init
  BY DEF PInit
<1> QED
  BY <1>1, StepIsLifecycle, PTL DEF PSpec, Spec

LEMMA LifecycleInv == PSpec => []IInv
  BY ProcessIsLifecycle, InvAlways, PTL

\* While a handler runs the pool is open and the tables exist, from the moment
\* the server listens to the end of the drain.
THEOREM HandlersHavePool == PSpec => []HandlerHasPool
  BY LifecycleInv, InvImplies, PTL

\* main exits with 0 only if no request was cut off.
THEOREM CleanExit == PSpec => []CleanExitDrained
  BY LifecycleInv, InvImplies, PTL

\* Unless a migration connection was replaced, the tables that handlers find
\* have every migration of the release, through kills, restarts, changes of
\* release and a migrate command that runs beside.
THEOREM Migrated == PSpec => []MigratedUnlessDropped
  BY LifecycleInv, InvImplies, PTL

-----------------------------------------------------------------------------
(***************************************************************************)
(* The invariant of the authenticator.  OnlyEntitledAdmitted needs to know *)
(* that a PAT which kalke-auth found active was not revoked when the       *)
(* request came (revocations are never undone), and that the issuer in     *)
(* memory is the configured one when requests come.                        *)
(***************************************************************************)

\* The realm's keys are an interval of its rotation.
KeysInterval == published \in Nat \X Nat

\* A PAT on its way to kalke-auth or back.
PatPending ==
    \A r \in Requests : verdict[r] \in {"asked", "active", "inactive"} =>
        /\ token[r].kind = "pat"
        /\ token[r].key \notin revoked => entitled[r]
        /\ verdict[r] = "active" => entitled[r]

\* With a discovery URL of its own the issuer is still the configured one.
IssuerKept ==
    phase \in {"serve", "drain"} =>
        \/ Setting(Env, "OIDC_DISCOVERY_URL") = ""
        \/ issuer = ConfiguredIssuer

AuthInv == AuthTypeOK /\ KeysInterval /\ PatPending /\ IssuerKept /\ OnlyEntitledAdmitted

LEMMA AuthInitInv == PInit => AuthInv
<1> SUFFICES ASSUME PInit PROVE AuthInv
  OBVIOUS
<1>1. deployment \in Deployments
  BY DeploymentAssumption DEF PInit, AuthInit
<1>2. Published = {Rotation[1]}
  <2>1. published[1] = 1 /\ published[2] = 1
    BY DEF PInit, AuthInit
  <2> QED
    BY <2>1 DEF Published
<1>3. AuthTypeOK
  BY <1>1, <1>2 DEF PInit, AuthInit, AuthTypeOK, Verdicts
<1>4. KeysInterval /\ PatPending /\ IssuerKept /\ OnlyEntitledAdmitted
  BY DEF PInit, Init, AuthInit, KeysInterval, PatPending, IssuerKept, OnlyEntitledAdmitted
<1> QED
  BY <1>3, <1>4 DEF AuthInv

\* Only a token with the scope passes the middleware's check.
LEMMA ScopedFacts ==
  ASSUME NEW t
  PROVE  /\ Scoped(t) \in {"admitted", "forbidden"}
         /\ Scoped(t) = "admitted" =>
              {"admin", "extract:write"} \cap (t.permissions \cup t.scope) # {}
<1>1. Scoped(t) \in {"admitted", "forbidden"}
  BY DEF Scoped
<1>2. ASSUME Scoped(t) = "admitted"
      PROVE  {"admin", "extract:write"} \cap (t.permissions \cup t.scope) # {}
  <2>1. Ac!HasScope([scopes |-> ScopesFromClaims(t)], "extract:write")
    BY <1>2 DEF Scoped
  <2>2. PICK s \in ScopesFromClaims(t) : s = "admin" \/ s = "extract:write"
    BY <2>1 DEF Ac!HasScope
  <2>3. s \in t.permissions \cup t.scope
    BY DEF ScopesFromClaims
  <2> QED
    BY <2>2, <2>3
<1> QED
  BY <1>1, <1>2

\* A request's verdict changes; the process and the world stay.
LEMMA JudgedInv ==
  ASSUME AuthInv, NEW r \in Requests, NEW v \in Verdicts,
         verdict' = [verdict EXCEPT ![r] = v],
         UNCHANGED <<phase, deployment, issuer, jwks, keys, published, offered, revoked,
                     token, entitled>>,
         verdict[r] \in {"asked", "active", "inactive"},
         v \in {"active", "inactive", "admitted", "forbidden", "unauthorized"},
         v = "active" => entitled[r],
         v = "admitted" =>
            /\ verdict[r] = "active"
            /\ {"admin", "extract:write"} \cap (token[r].permissions \cup token[r].scope) # {}
  PROVE  AuthInv'
<1>0. /\ verdict'[r] = v /\ \A q \in Requests \ {r} : verdict'[q] = verdict[q]
      /\ token[r].kind = "pat" /\ (v = "admitted" => entitled[r])
      /\ Env' = Env /\ Published' = Published /\ ConfiguredIssuer' = ConfiguredIssuer
  BY DEF AuthInv, AuthTypeOK, PatPending, Env, Published, ConfiguredIssuer
<1>1. AuthTypeOK' /\ KeysInterval'
  BY <1>0 DEF AuthInv, AuthTypeOK, KeysInterval
<1>2. PatPending'
  BY <1>0 DEF AuthInv, PatPending
<1>3. IssuerKept'
  BY <1>0 DEF AuthInv, IssuerKept
<1>4. OnlyEntitledAdmitted'
  BY <1>0 DEF AuthInv, OnlyEntitledAdmitted
<1> QED
  BY <1>1, <1>2, <1>3, <1>4 DEF AuthInv

LEMMA ArriveInv ==
  ASSUME AuthInv, phase = "serve", phase' = phase, NEW r \in Requests,
         NEW t \in Tokens \cup {NoToken}, Arrive(r, t)
  PROVE  AuthInv'
<1> DEFINE v == verdict'[r]
<1>0. /\ token'[r] = t /\ \A q \in Requests \ {r} : /\ token'[q] = token[q]
                                                   /\ verdict'[q] = verdict[q]
                                                   /\ entitled'[q] = entitled[q]
      /\ entitled'[r] = (t.kind = "pat" /\ t.key \notin revoked)
      /\ UNCHANGED <<deployment, issuer, jwks, keys, offered, published, revoked>>
  BY DEF Arrive, AuthInv, AuthTypeOK, world
<1>1. v = CASE t.kind = "pat" /\ IntrospectionOn(Env) -> "asked"
            [] t.kind = "jwt" /\ ValidJWT(t)          -> Scoped(t)
            [] OTHER                                  -> "unauthorized"
  BY DEF Arrive, AuthInv, AuthTypeOK
<1>2. \/ v = "asked" /\ t.kind = "pat"
      \/ v = Scoped(t) /\ t.kind = "jwt" /\ ValidJWT(t)
      \/ v = "unauthorized"
  BY <1>1
<1>3. v \in Verdicts /\ v \notin {"active", "inactive", "none"}
  BY <1>2, ScopedFacts DEF Verdicts
<1>4. Env' = Env /\ Published' = Published /\ ConfiguredIssuer' = ConfiguredIssuer
  BY <1>0 DEF Env, Published, ConfiguredIssuer
<1>5. AuthTypeOK' /\ KeysInterval'
  <2>1. verdict' \in [Requests -> Verdicts]
    BY <1>3 DEF Arrive, AuthInv, AuthTypeOK
  <2>2. token' \in [Requests -> Tokens \cup {NoToken}] /\ entitled' \in [Requests -> BOOLEAN]
    BY DEF Arrive, AuthInv, AuthTypeOK
  <2> QED
    BY <1>0, <1>4, <2>1, <2>2 DEF AuthInv, AuthTypeOK, KeysInterval
<1>6. PatPending'
  <2>1. v = "asked" => t.kind = "pat" /\ (t.key \notin revoked => entitled'[r])
    BY <1>0, <1>2, ScopedFacts
  <2> QED
    BY <1>0, <1>3, <2>1 DEF AuthInv, PatPending
<1>7. IssuerKept'
  BY <1>0, <1>4 DEF AuthInv, IssuerKept
<1>8. ASSUME v = "admitted"
      PROVE  /\ {"admin", "extract:write"} \cap (t.permissions \cup t.scope) # {}
             /\ t.kind = "jwt" /\ t.key \in offered /\ t.aud = Setting(Env, "OIDC_AUDIENCE")
             /\ Setting(Env, "OIDC_DISCOVERY_URL") = "" \/ t.iss = ConfiguredIssuer
  BY <1>2, <1>8, ScopedFacts DEF AuthInv, AuthTypeOK, ValidJWT, IssuerKept
<1>9. OnlyEntitledAdmitted'
  BY <1>0, <1>4, <1>8 DEF AuthInv, OnlyEntitledAdmitted
<1> QED
  BY <1>5, <1>6, <1>7, <1>9 DEF AuthInv

\* The keys move on, in the realm or in memory, and PATs are revoked.
LEMMA WorldInv ==
  ASSUME AuthInv, UNCHANGED <<phase, deployment, issuer, jwks, token, verdict, entitled>>,
         KeysInterval', keys' \subseteq offered', Published' \subseteq offered',
         offered \subseteq offered', revoked \subseteq revoked', revoked' \subseteq Pats
  PROVE  AuthInv'
<1>0. Env' = Env /\ ConfiguredIssuer' = ConfiguredIssuer
  BY DEF Env, ConfiguredIssuer
<1>1. AuthTypeOK'
  BY DEF AuthInv, AuthTypeOK
<1>2. PatPending' /\ IssuerKept'
  BY <1>0 DEF AuthInv, PatPending, IssuerKept
<1>3. OnlyEntitledAdmitted'
  BY <1>0 DEF AuthInv, OnlyEntitledAdmitted
<1> QED
  BY <1>1, <1>2, <1>3 DEF AuthInv

\* main begins to serve when it has built the authenticator, and not before.
LEMMA ServingEntered ==
  ASSUME [PNext]_pvars, phase' \in {"serve", "drain"}
  PROVE  phase \in {"serve", "drain"} \/ PWired
<1>1. ASSUME NEW c, Exit(c) PROVE FALSE
  BY <1>1 DEF Exit
<1>2. CASE PStart
  BY <1>2 DEF PStart, Start
<1>3. CASE PMain
  <2>1. CASE PConfigured \/ PConfigFails
    BY <2>1, <1>1 DEF PConfigured, Configured, Enter, PConfigFails, ConfigFails
  <2>2. CASE PingOk \/ Retry \/ GooseReads("api", latest) \/ GooseApplies("api")
             \/ GooseDone \/ Connected \/ Shutdown
    BY <2>2 DEF PingOk, Retry, GooseReads, GooseApplies, GooseDone, Connected, Shutdown,
       Enter
  <2>3. CASE GiveUp \/ GooseFails \/ EnsureTablesFails \/ WireFails \/ ServerStopped
             \/ Drained \/ DrainTimesOut
    BY <2>3, <1>1 DEF GiveUp, GooseFails, EnsureTablesFails, WireFails, ServerStopped,
       Drained, DrainTimesOut
  <2> QED
    BY <1>3, <2>1, <2>2, <2>3 DEF PMain
<1>4. CASE Around \/ UNCHANGED pvars
  BY <1>4 DEF Around, pvars, vars
<1>5. CASE Signal \/ Kill \/ Listen \/ ListenFails
  BY <1>5, <1>1 DEF Signal, Kill, Listen, ListenFails
<1>6. CASE Command
  BY <1>6 DEF Command, CommandStarts, CommandEnds, CommandGoes, GooseReads, GooseApplies,
     ConnectionDrops
<1>7. ASSUME NEW r \in Requests, PRequest(r) \/ PFinish(r) PROVE phase' = phase
  BY <1>7 DEF PRequest, Request, PFinish, Finish
<1> QED
  BY <1>2, <1>3, <1>4, <1>5, <1>6, <1>7 DEF PNext

LEMMA AuthNextInv ==
  ASSUME IInv, AuthInv, [PNext]_pvars
  PROVE  AuthInv'
<1>1. CASE PStart
  <2>1. /\ phase' = "config" /\ deployment' \in Deployments /\ keys' = {}
        /\ offered' = Published /\ Published' = Published
        /\ token' = [r \in Requests |-> NoToken]
        /\ verdict' = [r \in Requests |-> "none"]
        /\ entitled' = [r \in Requests |-> FALSE]
        /\ UNCHANGED <<published, revoked>>
    BY <1>1 DEF PStart, Start, Deploy, world, Published
  <2>2. AuthTypeOK' /\ KeysInterval'
    BY <2>1 DEF AuthInv, AuthTypeOK, KeysInterval, Verdicts
  <2>3. PatPending' /\ IssuerKept' /\ OnlyEntitledAdmitted'
    BY <2>1 DEF PatPending, IssuerKept, OnlyEntitledAdmitted
  <2> QED
    BY <2>2, <2>3 DEF AuthInv
<1>2. ASSUME NEW r \in Requests, PRequest(r) PROVE AuthInv'
  <2>1. phase = "serve" /\ phase' = phase
    BY <1>2 DEF PRequest, Request, IInv, ServerServes
  <2>2. PICK t \in Tokens \cup {NoToken} : Arrive(r, t)
    BY <1>2 DEF PRequest
  <2> QED
    BY <2>1, <2>2, ArriveInv
<1>3. CASE PWired
  <2>1. /\ UNCHANGED <<deployment, offered, token, verdict, entitled, published, revoked>>
        /\ phase' = "serve"
    BY <1>3 DEF PWired, Wired, Enter, NewAuthenticator, world
  <2>2. Env' = Env /\ ConfiguredIssuer' = ConfiguredIssuer /\ Published' = Published
    BY <2>1 DEF Env, ConfiguredIssuer, Published
  <2>3. PICK doc \in Documents(Base(Env)) :
          /\ issuer' = ExpectedIssuer(Env, doc) /\ jwks' = JWKSOrigin(Env, doc)
          /\ keys' \in {{}} \cup {k \in {Published} : jwks' \in deployment.reach}
    BY <1>3, Zenon DEF PWired, NewAuthenticator
  <2>4. keys' \subseteq offered'
    BY <2>1, <2>3 DEF AuthInv, AuthTypeOK
  <2>5. Setting(Env, "OIDC_DISCOVERY_URL") # "" => issuer' = ConfiguredIssuer
    BY <2>3 DEF ExpectedIssuer, ConfiguredIssuer
  <2>6. AuthTypeOK' /\ KeysInterval'
    BY <2>1, <2>2, <2>4 DEF AuthInv, AuthTypeOK, KeysInterval
  <2>7. PatPending' /\ OnlyEntitledAdmitted'
    BY <2>1, <2>2 DEF AuthInv, PatPending, OnlyEntitledAdmitted
  <2>8. IssuerKept'
    BY <2>2, <2>5 DEF IssuerKept
  <2> QED
    BY <2>6, <2>7, <2>8 DEF AuthInv
<1>4. CASE Around
  <2>0. phase' = phase
    BY <1>4 DEF Around, vars
  <2>1. CASE Refresh
    <3>1. Published' = Published
      BY <2>1 DEF Refresh, Published, world
    <3> QED
      BY <2>0, <2>1, <3>1, WorldInv DEF Refresh, world, AuthInv, AuthTypeOK, KeysInterval
  <2>2. CASE NextKey
    <3>1. published[1] \in Nat /\ published[2] \in Nat
      BY DEF AuthInv, KeysInterval
    <3>2. published'[1] = published[1] /\ published'[2] = published[2] + 1 /\ KeysInterval'
      BY <2>2, <3>1 DEF NextKey, KeysInterval
    <3>3. Published' \subseteq offered'
      <4> SUFFICES ASSUME NEW i \in published'[1]..published'[2] PROVE Rotation[i] \in offered'
        BY DEF Published
      <4>1. i \in published[1]..published[2] \/ i = published[2] + 1
        BY <3>1, <3>2
      <4>2. CASE i = published[2] + 1
        BY <2>2, <4>2 DEF NextKey
      <4>3. CASE i \in published[1]..published[2]
        BY <2>2, <4>3 DEF NextKey, AuthInv, AuthTypeOK, Published
      <4> QED
        BY <4>1, <4>2, <4>3
    <3> QED
      BY <2>0, <2>2, <3>2, <3>3, WorldInv DEF NextKey, AuthInv, AuthTypeOK
  <2>3. CASE WithdrawKey
    <3>1. published[1] \in Nat /\ published[2] \in Nat
      BY DEF AuthInv, KeysInterval
    <3>2. published'[1] = published[1] + 1 /\ published'[2] = published[2] /\ KeysInterval'
      BY <2>3, <3>1 DEF WithdrawKey, KeysInterval
    <3>3. Published' \subseteq Published
      <4> SUFFICES ASSUME NEW i \in published'[1]..published'[2] PROVE Rotation[i] \in Published
        BY DEF Published
      <4>1. i \in published[1]..published[2]
        BY <3>1, <3>2
      <4> QED
        BY <4>1 DEF Published
    <3> QED
      BY <2>0, <2>3, <3>2, <3>3, WorldInv DEF WithdrawKey, AuthInv, AuthTypeOK
  <2>4. ASSUME NEW p \in Pats, Revoke(p) PROVE AuthInv'
    <3>1. Published' = Published
      BY <2>4 DEF Revoke, Published
    <3> QED
      BY <2>0, <2>4, <3>1, WorldInv DEF Revoke, AuthInv, AuthTypeOK, KeysInterval
  <2>5. ASSUME NEW r \in Requests, Authenticating(r) PROVE AuthInv'
    <3> USE DEF Decide, world
    <3>1. CASE Introspected(r)
      <4>1. PICK v \in {"active", "inactive"} :
              /\ Decide(r, v)
              /\ v = "active" => token[r].key \notin revoked
        BY <3>1 DEF Introspected
      <4>2. v \in Verdicts /\ verdict[r] = "asked" /\ (v = "active" => entitled[r])
        BY <3>1, <4>1 DEF Introspected, Verdicts, AuthInv, PatPending
      <4> QED
        BY <2>0, <4>1, <4>2, JudgedInv
    <3>2. CASE IntrospectReply(r)
      <4> DEFINE v == IF verdict[r] = "active" /\ token[r].sub # "" THEN Scoped(token[r])
                      ELSE "unauthorized"
      <4>1. v \in {"admitted", "forbidden", "unauthorized"} /\ v \in Verdicts
        BY ScopedFacts DEF Verdicts
      <4>2. Decide(r, v) /\ verdict[r] \in {"active", "inactive"}
        BY <3>2 DEF IntrospectReply
      <4>3. v = "admitted" =>
              /\ verdict[r] = "active"
              /\ {"admin", "extract:write"} \cap (token[r].permissions \cup token[r].scope) # {}
        BY ScopedFacts
      <4> HIDE DEF v
      <4> QED
        BY <2>0, <4>1, <4>2, <4>3, JudgedInv
    <3>3. CASE IntrospectFails(r)
      BY <2>0, <3>3, JudgedInv DEF IntrospectFails, Verdicts
    <3> QED
      BY <2>5, <3>1, <3>2, <3>3 DEF Authenticating
  <2> QED
    BY <1>4, <2>1, <2>2, <2>3, <2>4, <2>5 DEF Around
<1>5. CASE UNCHANGED authVars /\ ~PWired
  <2>1. phase' \in {"serve", "drain"} => phase \in {"serve", "drain"}
    BY <1>5, ServingEntered
  <2>2. UNCHANGED <<deployment, issuer, jwks, keys, published, offered, revoked, token,
                    verdict, entitled>>
    BY <1>5 DEF authVars
  <2>3. Env' = Env /\ ConfiguredIssuer' = ConfiguredIssuer /\ Published' = Published
    BY <2>2 DEF Env, ConfiguredIssuer, Published
  <2>4. AuthTypeOK' /\ KeysInterval' /\ PatPending'
    BY <2>2, <2>3 DEF AuthInv, AuthTypeOK, KeysInterval, PatPending
  <2>5. IssuerKept' /\ OnlyEntitledAdmitted'
    BY <2>1, <2>2, <2>3 DEF AuthInv, IssuerKept, OnlyEntitledAdmitted
  <2> QED
    BY <2>4, <2>5 DEF AuthInv
<1> QED
  BY <1>1, <1>2, <1>3, <1>4, <1>5
     DEF PNext, PMain, PConfigured, PConfigFails, PFinish, pvars

LEMMA AuthAlways == PSpec => []AuthInv
<1>1. IInv /\ AuthInv /\ [PNext]_pvars => AuthInv'
  BY AuthNextInv
<1> QED
  BY <1>1, AuthInitInv, LifecycleInv, PTL DEF PSpec

\* main, the migrators, the requests and what the authenticator holds are always
\* what their types say: the loops stop after MaxAttempts, no schema records a
\* version it has not reached, and the keys in memory were published.
THEOREM ProcessTyped == PSpec => []ProcessTypeOK
<1>1. IInv /\ AuthInv => ProcessTypeOK
  BY DEF IInv, AuthInv, ProcessTypeOK
<1> QED
  BY <1>1, LifecycleInv, AuthAlways, PTL

\* Nobody is admitted without the scope, with a PAT that was revoked before the
\* request came, with a key the realm did not publish since the start, or with
\* a token of another audience or, behind a discovery URL, another issuer.
THEOREM EntitledAdmitted == PSpec => []OnlyEntitledAdmitted
  BY AuthAlways, PTL DEF AuthInv

-----------------------------------------------------------------------------
(***************************************************************************)
(* A genuine token is refused only until its key is loaded.  This rests on *)
(* what main has decided before it serves: the settings were accepted, and *)
(* the authenticator has the configured issuer and a key origin in reach.  *)
(***************************************************************************)
SettingsAccepted == phase \notin {"config", "exited"} => LoadOk(Env)

AuthenticatorBuilt ==
    phase \in {"serve", "drain"} => issuer = ConfiguredIssuer /\ jwks \in deployment.reach

Built == SettingsAccepted /\ AuthenticatorBuilt

\* What a new authenticator holds, when "public" is the configured issuer.
LEMMA AuthenticatorFacts ==
  ASSUME deployment \in Deployments, LoadOk(Env), NewAuthenticator
  PROVE  issuer' = ConfiguredIssuer /\ jwks' \in deployment.reach
<1>1. ConfiguredIssuer = "public"
  BY DeploymentAssumption DEF Env, ConfiguredIssuer
<1>2. Base(Env) \in deployment.reach
  BY DEF NewAuthenticator
<1>3. PICK doc \in Documents(Base(Env)) :
        issuer' = ExpectedIssuer(Env, doc) /\ jwks' = JWKSOrigin(Env, doc)
  BY Zenon DEF NewAuthenticator
<1>4. doc.issuer \in {"", "public", Base(Env)} /\ doc.jwksURI \in {"public", Base(Env)}
  BY DEF Documents
<1>5. CASE Setting(Env, "OIDC_DISCOVERY_URL") # ""
  BY <1>2, <1>3, <1>5 DEF ExpectedIssuer, JWKSOrigin, ConfiguredIssuer
<1>6. CASE Setting(Env, "OIDC_DISCOVERY_URL") = ""
  <2>1. Base(Env) = "public"
    BY <1>1, <1>6 DEF Base, ConfiguredIssuer
  <2>2. jwks' = "public"
    BY <1>3, <1>4, <1>6, <2>1 DEF JWKSOrigin
  <2>3. issuer' = "public"
    <3>1. CASE doc.issuer = ""
      BY <1>1, <1>3, <3>1 DEF ExpectedIssuer, ConfiguredIssuer
    <3>2. CASE doc.issuer # ""
      <4>1. doc.issuer = "public"
        BY <1>4, <2>1, <3>2
      <4> QED
        BY <1>3, <1>6, <3>2, <4>1 DEF ExpectedIssuer, TrimSuffix
    <3> QED
      BY <3>1, <3>2
  <2> QED
    BY <1>1, <1>2, <2>1, <2>2, <2>3
<1> QED
  BY <1>5, <1>6

\* The settings and the authenticator stay while the process runs.
LEMMA HeldWhileRunning ==
  ASSUME [PNext]_pvars, ~PStart, ~PWired
  PROVE  UNCHANGED <<deployment, issuer, jwks>>
<1>1. CASE PMain
  BY <1>1 DEF PMain, PConfigured, PConfigFails, authVars
<1>2. CASE Around
  BY <1>2 DEF Around, Refresh, NextKey, WithdrawKey, Revoke, Authenticating, Introspected,
     IntrospectReply, IntrospectFails, Decide
<1>3. CASE UNCHANGED pvars
  BY <1>3 DEF pvars, authVars
<1>4. ASSUME NEW r \in Requests, PRequest(r) \/ PFinish(r)
      PROVE  UNCHANGED <<deployment, issuer, jwks>>
  BY <1>4 DEF PRequest, Arrive, PFinish, authVars
<1> QED
  BY <1>1, <1>2, <1>3, <1>4 DEF PNext, authVars

LEMMA RunningEntered ==
  ASSUME IInv, [PNext]_pvars, phase' \notin {"config", "exited"}
  PROVE  phase \notin {"config", "exited"} \/ PConfigured
<1> SUFFICES ASSUME phase \in {"config", "exited"}, ~PConfigured PROVE FALSE
  OBVIOUS
<1>1. ASSUME NEW c, Exit(c) PROVE FALSE
  BY <1>1 DEF Exit
<1>2. ~goose["api"].on
  BY DEF IInv, TypeOK
<1>3. CASE PStart
  BY <1>3 DEF PStart, Start
<1>4. CASE PMain
  BY <1>4, <1>1, <1>2 DEF PMain, PConfigFails, ConfigFails, PWired, Wired, PingOk, Retry,
     GiveUp, GooseReads, GooseApplies, GooseFails, GooseDone, Connected,
     EnsureTablesFails, WireFails, ServerStopped, Shutdown, Drained, DrainTimesOut
<1>5. CASE Around \/ UNCHANGED pvars
  BY <1>5 DEF Around, pvars, vars
<1>6. CASE Signal \/ Kill \/ Listen \/ ListenFails
  BY <1>6, <1>1 DEF Signal, Kill, Listen, ListenFails
<1>7. CASE Command
  BY <1>7 DEF Command, CommandStarts, CommandEnds, CommandGoes, GooseReads, GooseApplies,
     ConnectionDrops
<1>8. ASSUME NEW r \in Requests, PRequest(r) \/ PFinish(r) PROVE FALSE
  BY <1>8 DEF PRequest, Request, PFinish, Finish
<1> QED
  BY <1>3, <1>4, <1>5, <1>6, <1>7, <1>8 DEF PNext

LEMMA BuiltNext ==
  ASSUME IInv, AuthInv, Built, [PNext]_pvars
  PROVE  Built'
<1>1. CASE PStart
  BY <1>1 DEF PStart, Start, Built, SettingsAccepted, AuthenticatorBuilt
<1>2. CASE PWired
  <2>1. phase = "wire" /\ deployment' = deployment /\ NewAuthenticator
    BY <1>2 DEF PWired, Wired, NewAuthenticator
  <2>2. Env' = Env /\ ConfiguredIssuer' = ConfiguredIssuer
    BY <2>1 DEF Env, ConfiguredIssuer
  <2>3. LoadOk(Env) /\ deployment \in Deployments
    BY <2>1 DEF Built, SettingsAccepted, AuthInv, AuthTypeOK
  <2>4. issuer' = ConfiguredIssuer /\ jwks' \in deployment.reach
    BY <2>1, <2>3, AuthenticatorFacts
  <2> QED
    BY <2>1, <2>2, <2>3, <2>4 DEF Built, SettingsAccepted, AuthenticatorBuilt
<1>3. CASE ~PStart /\ ~PWired
  <2>1. UNCHANGED <<deployment, issuer, jwks>>
    BY <1>3, HeldWhileRunning
  <2>2. Env' = Env /\ ConfiguredIssuer' = ConfiguredIssuer
    BY <2>1 DEF Env, ConfiguredIssuer
  <2>3. phase' \notin {"config", "exited"} => LoadOk(Env)
    BY RunningEntered DEF Built, SettingsAccepted, PConfigured
  <2>4. phase' \in {"serve", "drain"} => phase \in {"serve", "drain"}
    BY <1>3, ServingEntered
  <2> QED
    BY <2>1, <2>2, <2>3, <2>4 DEF Built, SettingsAccepted, AuthenticatorBuilt
<1> QED
  BY <1>1, <1>2, <1>3

LEMMA BuiltAlways == PSpec => []Built
<1>1. PInit => Built
  BY DEF PInit, Init, Built, SettingsAccepted, AuthenticatorBuilt
<1>2. IInv /\ AuthInv /\ Built /\ [PNext]_pvars => Built'
  BY BuiltNext
<1> QED
  BY <1>1, <1>2, LifecycleInv, AuthAlways, PTL DEF PSpec

LEMMA RefusedForKey ==
  ASSUME IInv, AuthInv, Built, [PNext]_pvars, NEW r \in Requests,
         verdict[r] = "none", verdict'[r] = "unauthorized", Genuine(token'[r])
  PROVE  token'[r].key \notin keys /\ jwks \in deployment.reach
<1>1. ASSUME verdict' = verdict PROVE FALSE
  BY <1>1
<1>2. CASE PStart
  BY <1>2 DEF PStart, Deploy
<1>3. CASE PMain
  BY <1>1, <1>3 DEF PMain, PConfigured, PConfigFails, PWired, NewAuthenticator, authVars
<1>4. CASE Around
  <2>1. ASSUME NEW q \in Requests, Authenticating(q) PROVE FALSE
    BY <2>1 DEF Authenticating, Introspected, IntrospectReply, IntrospectFails, Decide,
       AuthInv, AuthTypeOK
  <2> QED
    BY <1>1, <1>4, <2>1 DEF Around, Refresh, NextKey, WithdrawKey, Revoke
<1>5. CASE UNCHANGED pvars
  BY <1>1, <1>5 DEF pvars, authVars
<1>6. ASSUME NEW q \in Requests, PRequest(q)
      PROVE  token'[r].key \notin keys /\ jwks \in deployment.reach
  <2>1. PICK t \in Tokens \cup {NoToken} : Arrive(q, t)
    BY <1>6 DEF PRequest
  <2>2. q = r /\ token'[r] = t
    BY <2>1 DEF Arrive, AuthInv, AuthTypeOK
  <2>3. phase = "serve"
    BY <1>6 DEF PRequest, Request, IInv, ServerServes
  <2>4. issuer = ConfiguredIssuer /\ jwks \in deployment.reach
    BY <2>3 DEF Built, AuthenticatorBuilt
  <2>5. /\ t.kind = "jwt" /\ t.fresh /\ t.sub # "" /\ t.iss = ConfiguredIssuer
        /\ t.aud = Setting(Env, "OIDC_AUDIENCE")
    BY <2>2 DEF Genuine
  <2>6. ~ValidJWT(t)
    <3>1. verdict'[r] = CASE t.kind = "pat" /\ IntrospectionOn(Env) -> "asked"
                          [] t.kind = "jwt" /\ ValidJWT(t)          -> Scoped(t)
                          [] OTHER                                  -> "unauthorized"
      BY <2>1, <2>2 DEF Arrive, AuthInv, AuthTypeOK
    <3> QED
      BY <2>5, <3>1, ScopedFacts
  <2> QED
    BY <2>2, <2>4, <2>5, <2>6 DEF ValidJWT
<1> QED
  BY <1>1, <1>2, <1>3, <1>4, <1>5, <1>6 DEF PNext, PFinish, authVars

\* authenticate refuses a token of the configured issuer and audience only while
\* its key is not in memory, and the origin of the keys is one that the process
\* reaches: the issuer in memory is the configured one whenever requests come.
THEOREM GenuineRefused == PSpec => GenuineRefusedOnlyForKey
<1> DEFINE A == \A r \in Requests :
                  verdict[r] = "none" /\ verdict'[r] = "unauthorized" /\ Genuine(token'[r])
                     => token'[r].key \notin keys /\ jwks \in deployment.reach
<1>1. ASSUME IInv, AuthInv, Built, [PNext]_pvars PROVE [A]_authVars
  BY <1>1, RefusedForKey
<1>2. PSpec => [][A]_authVars
  BY <1>1, LifecycleInv, AuthAlways, BuiltAlways, PTL DEF PSpec
<1> QED
  BY <1>2, Zenon DEF GenuineRefusedOnlyForKey

=============================================================================
