------------------------------ MODULE Lifecycle ------------------------------
(***************************************************************************)
(* The life of the API process (cmd/api): migrations, connection to the    *)
(* database, wiring, serving and shutdown, under a SIGTERM, a failure or a *)
(* kill at any moment, and the restarts of the container.                  *)
(*                                                                         *)
(* migrate.Up runs goose over one connection whose search_path it has SET. *)
(* database/sql replaces a connection that broke by a new one, which has   *)
(* the server's default path.  The migrate command (cmd/migrate) runs the  *)
(* same migrate.Up, and may do so while the API starts or serves: goose    *)
(* takes no lock.  Migrations are numbered from 1; version[s] is the last  *)
(* one applied in schema s, 0 if s has no tables, and recorded[s] is what  *)
(* the newest row of goose_db_version in s says.                           *)
(***************************************************************************)
EXTENDS Naturals

CONSTANTS
    Requests,
    Releases,     \* last migration of each release that may be deployed
    ConsentsAt,   \* the migration that creates extract_consents
    Repeatable,   \* migrations written with IF [NOT] EXISTS
    MaxAttempts,  \* 30 in migrate.Up and in db.Connect
    MaxStarts,    \* bound: starts of the process
    MaxEvents     \* bound: runs of the migrate command and broken connections

ASSUME LifecycleAssumption ==
    /\ ConsentsAt \in Nat \ {0} /\ Repeatable \subseteq Nat
    /\ Releases \subseteq Nat /\ \A v \in Releases : v >= ConsentsAt
    /\ MaxAttempts \in Nat \ {0} /\ MaxStarts \in Nat /\ MaxEvents \in Nat

VARIABLES
    phase,      \* where main is
    attempt,    \* attempt of the loop it is in
    signalled,  \* ctx of signal.NotifyContext is done
    code,       \* exit code, "none" while the process runs
    pool,       \* pgxpool: "none", "open" or "closed"
    server,     \* ListenAndServe: "off", "on" or "failed"
    req,        \* the requests of this run of the process
    version,    \* Postgres: the last migration of each schema
    recorded,   \* Postgres: the version that goose reads in each schema
    latest,     \* the last migration of this release
    goose,      \* each migrator: whether its goose runs, whether its connection
                \* has the pde search_path, and the migration it is about to
                \* apply, 0 if it has not looked
    starts, commands, drops

schema == <<version, recorded>>
bounds == <<starts, commands, drops>>
vars == <<phase, attempt, signalled, code, pool, server, req, schema, latest,
          goose, bounds>>

Startup == {"config", "ping", "goose", "connect", "wire"}
Schemas == {"pde", "public"}
Migrators == {"api", "command"}
Migrations == UNION {1..v : v \in Releases}

TypeOK ==
    /\ phase \in Startup \cup {"serve", "drain", "exited"}
    /\ attempt \in 0..MaxAttempts /\ signalled \in BOOLEAN
    /\ code \in {"none", "ok", "error"}
    /\ pool \in {"none", "open", "closed"} /\ server \in {"off", "on", "failed"}
    /\ req \in [Requests -> {"none", "running", "done", "cut"}]
    /\ version \in [Schemas -> {0} \cup Migrations] /\ latest \in Releases
    /\ recorded \in [Schemas -> {0} \cup Migrations]
    /\ \A s \in Schemas : recorded[s] <= version[s]
    /\ goose \in [Migrators -> [on : BOOLEAN, path : BOOLEAN, next : {0} \cup Migrations]]
    /\ goose["api"].on = (phase = "goose")
    /\ starts \in 0..MaxStarts /\ commands \in Nat /\ drops \in Nat
    /\ commands + drops <= MaxEvents

-----------------------------------------------------------------------------
\* The schema in which an unqualified name is found under "pde, public".
Resolved == IF version["pde"] = 0 /\ version["public"] > 0 THEN "public" ELSE "pde"

\* The schema in which the goose of m works.
Target(m) == IF goose[m].path THEN Resolved ELSE "public"

\* EnsureTables: to_regclass finds extractions and extract_consents.
TablesExist == \E s \in Schemas : version[s] >= ConsentsAt

\* A migrator that is not in goose, and one whose connection was just set up.
Idle == [on |-> FALSE, path |-> FALSE, next |-> 0]
Connection == [on |-> TRUE, path |-> TRUE, next |-> 0]

Init ==
    /\ phase = "exited" /\ attempt = 0 /\ signalled = FALSE /\ code = "ok"
    /\ pool = "none" /\ server = "off"
    /\ req = [r \in Requests |-> "none"]
    /\ version = [s \in Schemas |-> 0] /\ recorded = version /\ latest \in Releases
    /\ goose = [m \in Migrators |-> Idle]
    /\ starts = 0 /\ commands = 0 /\ drops = 0

\* The process ends; os.Exit runs no defer, a return from main closes the pool.
Exit(c) ==
    /\ phase' = "exited" /\ code' = c
    /\ pool' = IF pool = "open" THEN "closed" ELSE pool
    /\ server' = "off" /\ goose' = [goose EXCEPT !["api"] = Idle]
    /\ req' = [r \in Requests |-> IF req[r] = "running" THEN "cut" ELSE req[r]]
    /\ UNCHANGED <<attempt, signalled, schema, latest, bounds>>

\* The container starts the process, of this or of another release.
Start ==
    /\ phase = "exited" /\ starts < MaxStarts
    /\ phase' = "config" /\ attempt' = 0 /\ signalled' = FALSE /\ code' = "none"
    /\ pool' = "none" /\ req' = [r \in Requests |-> "none"]
    /\ latest' \in Releases /\ starts' = starts + 1
    /\ UNCHANGED <<server, schema, goose, commands, drops>>

\* SIGTERM: before NotifyContext it kills the process.
Signal ==
    /\ ~signalled /\ phase \notin {"config", "exited"}
    /\ signalled' = TRUE
    /\ UNCHANGED <<phase, attempt, code, pool, server, req, schema, latest, goose,
                   bounds>>

\* SIGKILL or the kernel, and SIGTERM before NotifyContext.
Kill == phase # "exited" /\ Exit("error")

Enter(p) ==
    /\ phase' = p /\ attempt' = 1
    /\ UNCHANGED <<signalled, code, req, schema, latest, bounds>>

\* secrets.MustLoad, config.Load
Configured == phase = "config" /\ Enter("ping") /\ UNCHANGED <<pool, server, goose>>
ConfigFails == phase = "config" /\ Exit("error")

\* migrate.Up pings until the database answers.  The phase "goose" begins with
\* CREATE SCHEMA and SET search_path on its only connection; that one of them
\* fails is GooseFails.  None of its statements has a deadline.
PingOk ==
    /\ phase = "ping" /\ ~signalled
    /\ Enter("goose") /\ goose' = [goose EXCEPT !["api"] = Connection]
    /\ UNCHANGED <<pool, server>>

\* An attempt of migrate.Up or of db.Connect fails, and the loop goes on ...
RetryForever ==
    /\ phase \in {"ping", "connect"} /\ ~signalled
    /\ attempt' = (attempt % MaxAttempts) + 1
    /\ UNCHANGED <<phase, signalled, code, pool, server, req, schema, latest, goose,
                   bounds>>
RetryPastLast ==
    /\ phase \in {"ping", "connect"} /\ ~signalled
    /\ attempt' = attempt + 1
    /\ UNCHANGED <<phase, signalled, code, pool, server, req, schema, latest, goose,
                   bounds>>
Retry ==
    /\ phase \in {"ping", "connect"} /\ ~signalled /\ attempt < MaxAttempts
    /\ attempt' = attempt + 1
    /\ UNCHANGED <<phase, signalled, code, pool, server, req, schema, latest, goose,
                   bounds>>

\* ... unless it was the last one, or the context is done.
GiveUp ==
    /\ phase \in {"ping", "connect"} /\ (signalled \/ attempt = MaxAttempts)
    /\ Exit("error")

\* goose.UpContext looks its version up, applies the next migration in a
\* transaction that also records it, and so on.  What another migrator applied
\* meanwhile is applied again if its statements allow that, and is then the
\* newest record; else the transaction fails.
GooseReads(m, last) ==
    /\ goose[m].on /\ goose[m].next = 0 /\ recorded[Target(m)] < last
    /\ goose' = [goose EXCEPT ![m].next = recorded[Target(m)] + 1]
    /\ UNCHANGED <<phase, attempt, signalled, code, pool, server, req, schema, latest,
                   bounds>>

Applicable(m) ==
    LET n == goose[m].next
    IN  n = version[Target(m)] + 1 \/ (n \in Repeatable /\ n <= version[Target(m)])

GooseApplies(m) ==
    /\ goose[m].on /\ goose[m].next > 0 /\ Applicable(m)
    /\ version' = [version EXCEPT ![Target(m)] = IF goose[m].next > @ THEN goose[m].next ELSE @]
    /\ recorded' = [recorded EXCEPT ![Target(m)] = goose[m].next]
    /\ goose' = [goose EXCEPT ![m].next = 0]
    /\ UNCHANGED <<phase, attempt, signalled, code, pool, server, req, latest, bounds>>

GooseErrorIgnored ==
    /\ phase = "goose"
    /\ Enter("connect") /\ goose' = [goose EXCEPT !["api"] = Idle]
    /\ UNCHANGED <<pool, server>>
GooseFails == phase = "goose" /\ Exit("error")

GooseDone ==
    /\ phase = "goose" /\ goose["api"].next = 0 /\ recorded[Target("api")] >= latest
    /\ Enter("connect") /\ goose' = [goose EXCEPT !["api"] = Idle]
    /\ UNCHANGED <<pool, server>>

\* A migration connection breaks between two migrations.  If it breaks after the
\* look-up, goose finds no table of versions to record the migration in, and
\* the step is GooseFails or CommandEnds.
ConnectionDrops(m) ==
    /\ goose[m].path /\ goose[m].next = 0 /\ commands + drops < MaxEvents
    /\ goose' = [goose EXCEPT ![m].path = FALSE] /\ drops' = drops + 1
    /\ UNCHANGED <<phase, attempt, signalled, code, pool, server, req, schema, latest,
                   starts, commands>>

\* The migrate command: its goose begins, goes on beside the API's, and ends
\* when it has nothing left, on an error, or when it is stopped.
CommandStarts ==
    /\ ~goose["command"].on /\ commands + drops < MaxEvents
    /\ goose' = [goose EXCEPT !["command"] = Connection] /\ commands' = commands + 1
    /\ UNCHANGED <<phase, attempt, signalled, code, pool, server, req, schema, latest,
                   starts, drops>>
CommandGoes(last) == GooseReads("command", last) \/ GooseApplies("command")
CommandEnds ==
    /\ goose["command"].on
    /\ goose' = [goose EXCEPT !["command"] = Idle]
    /\ UNCHANGED <<phase, attempt, signalled, code, pool, server, req, schema, latest,
                   bounds>>

\* db.Connect: the ping succeeds, and EnsureTables decides.
Connected ==
    /\ phase = "connect" /\ ~signalled /\ TablesExist
    /\ Enter("wire") /\ pool' = "open"
    /\ UNCHANGED <<server, goose>>
EnsureTablesFails == phase = "connect" /\ Exit("error")

\* A Redis that does not answer is only logged; NewAuthenticator may fail.
Wired == phase = "wire" /\ Enter("serve") /\ UNCHANGED <<pool, server, goose>>
WireFails == phase = "wire" /\ Exit("error")

\* The goroutine of ListenAndServe listens, or fails at once or later.
Listen ==
    /\ phase = "serve" /\ server = "off"
    /\ server' = "on"
    /\ UNCHANGED <<phase, attempt, signalled, code, pool, req, schema, latest, goose,
                   bounds>>
ListenFails ==
    /\ phase = "serve" /\ server # "failed"
    /\ server' = "failed"
    /\ UNCHANGED <<phase, attempt, signalled, code, pool, req, schema, latest, goose,
                   bounds>>

Request(r) ==
    /\ server = "on" /\ req[r] = "none"
    /\ req' = [req EXCEPT ![r] = "running"]
    /\ UNCHANGED <<phase, attempt, signalled, code, pool, server, schema, latest, goose,
                   bounds>>
Finish(r) ==
    /\ req[r] = "running"
    /\ req' = [req EXCEPT ![r] = "done"]
    /\ UNCHANGED <<phase, attempt, signalled, code, pool, server, schema, latest, goose,
                   bounds>>

\* main's select: the error of the server, or the signal.
ServerStopped == phase = "serve" /\ server = "failed" /\ Exit("error")

PoolClosedFirst ==
    /\ phase = "serve" /\ signalled
    /\ Enter("drain") /\ server' = "off" /\ pool' = "closed"
    /\ UNCHANGED goose
Shutdown ==
    /\ phase = "serve" /\ signalled
    /\ Enter("drain") /\ server' = "off"
    /\ UNCHANGED <<pool, goose>>

\* server.Shutdown returns when no request is left, or after 20 seconds.
DrainedAnyway == phase = "drain" /\ Exit("ok")
Drained == /\ phase = "drain" /\ \A r \in Requests : req[r] # "running"
           /\ Exit("ok")
DrainForever == /\ phase = "drain" /\ \E r \in Requests : req[r] = "running"
                /\ UNCHANGED vars
DrainTimesOut == /\ phase = "drain" /\ \E r \in Requests : req[r] = "running"
                 /\ Exit("error")

Main ==
    \/ Configured \/ ConfigFails \/ PingOk \/ Retry \/ GiveUp
    \/ GooseReads("api", latest) \/ GooseApplies("api") \/ GooseFails \/ GooseDone
    \/ Connected \/ EnsureTablesFails \/ Wired \/ WireFails
    \/ ServerStopped \/ Shutdown \/ Drained \/ DrainTimesOut

\* The migrate command, of any release, and the connections of the migrators.
Command ==
    \/ CommandStarts \/ CommandEnds
    \/ \E v \in Releases : CommandGoes(v)
    \/ \E m \in Migrators : ConnectionDrops(m)

Next ==
    \/ Start \/ Signal \/ Kill \/ Main \/ Command \/ Listen \/ ListenFails
    \/ \E r \in Requests : Request(r) \/ Finish(r)

Spec == Init /\ [][Next]_vars

-----------------------------------------------------------------------------
(***************************************************************************)
(* Properties                                                              *)
(***************************************************************************)

\* While a handler runs, the database pool it uses is open, through signals,
\* failures and the shutdown.
HandlerHasPool ==
    \A r \in Requests : req[r] = "running" => pool = "open" /\ TablesExist

\* The process reports success only if no request was cut off.
CleanExitDrained == code = "ok" => \A r \in Requests : req[r] # "cut"

\* README: "The API also applies pending migrations on startup": the tables
\* that the handlers of a release find have all its migrations.
ServesMigrated == phase \in {"serve", "drain"} => version[Resolved] >= latest

\* The same, through kills between two migrations, restarts and changes of
\* release, as long as no migration connection was replaced.
MigratedUnlessDropped == drops = 0 => ServesMigrated

\* After a SIGTERM the process ends, whatever its phase and its requests.
SignalStops == signalled ~> phase = "exited"

\* Startup ends, also if the database never comes: the process serves or exits.
\* Only a statement of the migrations may wait in Postgres for ever (for a lock,
\* beside another migrator), for migrate.Up gives it no deadline; every other
\* wait of startup has one, so that nothing else can keep it.
StartupEnds ==
    \/ phase \in Startup ~> phase \in {"serve", "exited"}
    \/ <>[](phase = "goose")

=============================================================================
