-------------------------------- MODULE Actor --------------------------------
(***************************************************************************)
(* Who a request is made for.  authenticate puts a principal in the        *)
(* request's context; when it is the service account of the Auth BFF and   *)
(* the request carries the shared secret, X-Kalke-User-Sub names the end   *)
(* user.  resolveActor (rows, consents) and enforceLLMRateLimit (quota)    *)
(* each work this out for themselves.                                      *)
(*                                                                         *)
(* A principal p has the fields subject, client, email, kind and scopes;   *)
(* the headers h have sub, email and secret.  "" is an absent string, and  *)
(* PdeClients stands for the client ids that begin with pde-.              *)
(***************************************************************************)
CONSTANTS
    ForwardSecret,  \* Server.m2mUserForwardSecret, "" when it is not set
    PdeClients

ASSUME ActorAssumption == ForwardSecret \in STRING /\ PdeClients \subseteq STRING

Principal == [subject : STRING \ {""}, client : STRING, email : STRING,
              kind : {"jwt", "pat"}, scopes : SUBSET STRING]
Headers   == [sub : STRING, email : STRING, secret : STRING]

AnyScope(p, scope) == TRUE
HasScope(p, scope) == \E s \in p.scopes : s = "admin" \/ s = scope

IsM2MPrincipal(p) ==
    /\ p.kind = "jwt"
    /\ \/ p.client = "pde-m2m"
       \/ p.email = "" /\ p.client \in PdeClients

AcceptsUserForward(h) ==
    ForwardSecret # "" /\ h.secret # "" /\ h.secret = ForwardSecret

ForwardsUser(p, h) == IsM2MPrincipal(p) /\ AcceptsUserForward(h) /\ h.sub # ""

ResolveActor(p, h) ==
    [subject |-> IF ForwardsUser(p, h) THEN h.sub ELSE p.subject,
     client  |-> p.client,
     email   |-> IF ForwardsUser(p, h) /\ h.email # "" THEN h.email ELSE p.email]

\* The id that enforceLLMRateLimit charges.
CallerOnlyId(p, h) == p.subject
LimiterId(p, h) ==
    IF IsM2MPrincipal(p) /\ AcceptsUserForward(h) /\ h.sub # ""
    THEN h.sub ELSE p.subject

=============================================================================
