------------------------------- MODULE Process -------------------------------
(***************************************************************************)
(* The API process with its settings and its authenticator: Lifecycle's    *)
(* main decides when there are any.  config and wire fail or succeed as    *)
(* the deployment says, and what arrives at the server is authenticated.   *)
(***************************************************************************)
EXTENDS Authenticator

pvars == <<vars, authVars>>

ProcessTypeOK == TypeOK /\ AuthTypeOK

PInit == Init /\ AuthInit

PStart == Start /\ Deploy

\* Without a secret to fetch, only the settings decide.
PConfigured == Configured /\ LoadOk(Env) /\ UNCHANGED authVars
PConfigFails ==
    /\ ConfigFails /\ (~LoadOk(Env) \/ FetchesSecret(deployment.env))
    /\ UNCHANGED authVars

PWired == Wired /\ NewAuthenticator

PRequest(r) == Request(r) /\ \E t \in Tokens \cup {NoToken} : Arrive(r, t)
PFinish(r) == /\ Finish(r) /\ verdict[r] \in {"admitted", "unauthorized", "forbidden"}
              /\ UNCHANGED authVars

\* The handler's goroutine in authenticatePAT.
Authenticating(r) ==
    /\ req[r] = "running"
    /\ Introspected(r) \/ IntrospectReply(r) \/ IntrospectFails(r)

PMain ==
    \/ PConfigured \/ PConfigFails \/ PWired
    \/ /\ \/ PingOk \/ Retry \/ GiveUp \/ GooseReads("api", latest) \/ GooseApplies("api")
          \/ GooseFails \/ GooseDone \/ Connected \/ EnsureTablesFails \/ WireFails
          \/ ServerStopped \/ Shutdown \/ Drained \/ DrainTimesOut
       /\ UNCHANGED authVars

\* The keys in memory, and the world around the process while it serves.
Around ==
    /\ phase \in {"serve", "drain"}
    /\ \/ Refresh \/ NextKey \/ WithdrawKey
       \/ \E p \in Pats : Revoke(p)
       \/ \E r \in Requests : Authenticating(r)
    /\ UNCHANGED vars

PNext ==
    \/ PStart \/ PMain \/ Around
    \/ /\ Signal \/ Kill \/ Command \/ Listen \/ ListenFails
       /\ UNCHANGED authVars
    \/ \E r \in Requests : PRequest(r) \/ PFinish(r)

\* main goes on wherever it waits with a deadline.  migrate.Up runs CREATE
\* SCHEMA, SET and goose with the context of the signal alone: there main goes on
\* for certain only when a signal has ended the context, and its statement.
Waits == phase = "goose" /\ ~signalled
PSpec == PInit /\ [][PNext]_pvars /\ WF_pvars(~Waits /\ PMain)

=============================================================================
