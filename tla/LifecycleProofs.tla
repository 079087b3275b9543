--------------------------- MODULE LifecycleProofs ---------------------------
(***************************************************************************)
(* TLAPS proofs about Lifecycle, for every set of requests and releases,   *)
(* every set of repeatable migrations and every bound.                     *)
(***************************************************************************)
EXTENDS Lifecycle, TLAPS

(***************************************************************************)
(* The inductive invariant.  HandlerHasPool needs to know when a handler   *)
(* can run at all (ServerServes, HandlersServed) and that the pool is open *)
(* from the wiring on.  MigratedUnlessDropped needs that, as long as no    *)
(* connection was replaced, every goose works in pde and nobody in public: *)
(* only then is the version that GooseDone read the one handlers see.      *)
(***************************************************************************)

\* The server is on only while main waits in its select.
ServerServes == server # "off" => phase = "serve"

HandlersServed == \A r \in Requests : req[r] = "running" => phase \in {"serve", "drain"}

PoolOpen == phase \in {"wire", "serve", "drain"} => pool = "open" /\ TablesExist

\* A request that was cut off is reported by the exit code.
CutReported == \A r \in Requests : req[r] = "cut" => phase = "exited" /\ code = "error"

\* Without a replaced connection, goose has worked in pde only.
PathKept ==
    drops = 0 =>
        /\ version["public"] = 0
        /\ \A m \in Migrators : goose[m].on => goose[m].path
        /\ phase \in {"connect", "wire", "serve", "drain"} => version["pde"] >= latest

IInv == /\ TypeOK /\ ServerServes /\ HandlersServed /\ PoolOpen /\ CutReported
        /\ PathKept

USE LifecycleAssumption

-----------------------------------------------------------------------------
Numbers == {0} \cup Migrations

LEMMA NumbersNat == Numbers \subseteq Nat
  BY DEF Numbers, Migrations

LEMMA NextMigration ==
  ASSUME NEW v \in Releases, NEW n \in Nat, n < v
  PROVE  n + 1 \in Migrations
  BY DEF Migrations

Record == [on : BOOLEAN, path : BOOLEAN, next : Numbers]

LEMMA TypeInit == Init => TypeOK
<1> SUFFICES ASSUME Init PROVE TypeOK
  OBVIOUS
<1>1. /\ version \in [Schemas -> {0}] /\ recorded = version
      /\ \A s \in Schemas : recorded[s] <= version[s]
  BY DEF Init
<1>2. Idle \in Record
  BY DEF Idle, Record, Numbers
<1>3. goose \in [Migrators -> Record]
  BY <1>2 DEF Init
<1>4. goose["api"].on = (phase = "goose")
  BY DEF Init, Migrators, Idle
<1>5. version \in [Schemas -> Numbers] /\ recorded \in [Schemas -> Numbers]
  BY <1>1 DEF Numbers
<1>6. /\ attempt \in 0..MaxAttempts /\ starts \in 0..MaxStarts
      /\ commands \in Nat /\ drops \in Nat /\ commands + drops <= MaxEvents
  BY DEF Init
<1> QED
  BY <1>1, <1>3, <1>4, <1>5, <1>6 DEF Init, TypeOK, Record, Numbers

LEMMA TargetFacts ==
  ASSUME TypeOK, NEW m \in Migrators
  PROVE  /\ Target(m) \in Schemas /\ recorded[Target(m)] \in Nat
         /\ version[Target(m)] \in Nat
<1>1. Target(m) \in Schemas
  BY DEF Target, Resolved, Schemas
<1>2. version[Target(m)] \in Numbers /\ recorded[Target(m)] \in Numbers
  BY <1>1 DEF TypeOK, Numbers
<1> QED
  BY <1>1, <1>2, NumbersNat

\* What a step of a goose changes of its record.
LEMMA GooseFields ==
  ASSUME TypeOK, NEW m \in Migrators
  PROVE  /\ goose[m].on \in BOOLEAN /\ goose[m].path \in BOOLEAN
         /\ goose[m].next \in Numbers
         /\ \A n : /\ [goose EXCEPT ![m].next = n][m] =
                         [on |-> goose[m].on, path |-> goose[m].path, next |-> n]
                   /\ \A x \in Migrators \ {m} : [goose EXCEPT ![m].next = n][x] = goose[x]
         /\ \A p : /\ [goose EXCEPT ![m].path = p][m] =
                         [on |-> goose[m].on, path |-> p, next |-> goose[m].next]
                   /\ \A x \in Migrators \ {m} : [goose EXCEPT ![m].path = p][x] = goose[x]
<1>1. goose[m] \in Record
  BY DEF TypeOK, Record, Numbers
<1>2. DOMAIN goose = Migrators
  BY DEF TypeOK
<1> QED
  BY <1>1, <1>2 DEF Record

\* A goose begins on a new connection, or ends.
LEMMA GooseSwitched ==
  ASSUME TypeOK, NEW m \in Migrators, NEW g \in {Idle, Connection},
         goose' = [goose EXCEPT ![m] = g]
  PROVE  /\ goose' \in [Migrators -> Record] /\ goose'[m] = g
         /\ \A x \in Migrators \ {m} : goose'[x] = goose[x]
<1>1. Idle \in Record /\ Connection \in Record
  BY DEF Idle, Connection, Record, Numbers
<1>2. goose \in [Migrators -> Record]
  BY DEF TypeOK, Record, Numbers
<1> QED
  BY <1>1, <1>2

LEMMA ExitTyped ==
  ASSUME TypeOK, NEW c \in {"ok", "error"}, Exit(c)
  PROVE  TypeOK'
<1>1. /\ goose' \in [Migrators -> Record] /\ goose'["api"].on = FALSE
  <2>1. Idle \in Record
    BY DEF Idle, Record, Numbers
  <2> QED
    BY <2>1 DEF Exit, TypeOK, Migrators, Record, Numbers, Idle
<1>2. phase' = "exited" /\ code' \in {"ok", "error"} /\ server' = "off"
  BY DEF Exit
<1>3. pool' \in {"none", "open", "closed"}
  BY DEF Exit, TypeOK
<1>4. req' \in [Requests -> {"none", "running", "done", "cut"}]
  BY DEF Exit, TypeOK
<1>5. UNCHANGED <<attempt, signalled, version, recorded, latest, starts, commands, drops>>
  BY DEF Exit, schema, bounds
<1> QED
  BY <1>1, <1>2, <1>3, <1>4, <1>5 DEF TypeOK, Record, Numbers

\* A goose looks its version up, applies a migration, or loses its connection.
LEMMA GooseGoes ==
  ASSUME TypeOK, NEW m \in Migrators, NEW last \in Releases,
         GooseReads(m, last) \/ GooseApplies(m) \/ ConnectionDrops(m)
  PROVE  /\ goose' \in [Migrators -> Record]
         /\ \A x \in Migrators : goose'[x].on = goose[x].on
         /\ \A x \in Migrators : goose'[x].path = goose[x].path \/ drops' = drops + 1
<1>1. goose \in [Migrators -> Record] /\ goose[m] \in Record
  BY DEF TypeOK, Record, Numbers
<1>2. CASE GooseReads(m, last)
  <2>1. recorded[Target(m)] + 1 \in Numbers
    BY <1>2, TargetFacts, NextMigration DEF GooseReads, Numbers
  <2> QED
    BY <1>1, <1>2, <2>1 DEF GooseReads, Record
<1>3. CASE GooseApplies(m)
  <2>1. 0 \in Numbers
    BY DEF Numbers
  <2> QED
    BY <1>1, <1>3, <2>1 DEF GooseApplies, Record
<1>4. CASE ConnectionDrops(m)
  BY <1>1, <1>4 DEF ConnectionDrops, Record
<1> QED
  BY <1>2, <1>3, <1>4

LEMMA SchemaGrows ==
  ASSUME TypeOK, NEW m \in Migrators, GooseApplies(m)
  PROVE  /\ version' \in [Schemas -> Numbers] /\ recorded' \in [Schemas -> Numbers]
         /\ \A s \in Schemas : recorded'[s] <= version'[s] /\ version[s] <= version'[s]
         /\ \A s \in Schemas \ {Target(m)} : version'[s] = version[s]
<1> DEFINE n == goose[m].next
           T == Target(m)
<1>1. version \in [Schemas -> Numbers] /\ recorded \in [Schemas -> Numbers] /\ T \in Schemas
  BY TargetFacts DEF TypeOK, Numbers
<1>2. n \in Numbers /\ n \in Nat /\ \A s \in Schemas : version[s] \in Nat /\ recorded[s] \in Nat
  BY <1>1, GooseFields, NumbersNat
<1>3. /\ version' = [version EXCEPT ![T] = IF n > version[T] THEN n ELSE version[T]]
      /\ recorded' = [recorded EXCEPT ![T] = n]
  BY DEF GooseApplies
<1>4. \A s \in Schemas : recorded[s] <= version[s]
  BY DEF TypeOK
<1> HIDE DEF n, T
<1>5. /\ version'[T] = (IF n > version[T] THEN n ELSE version[T]) /\ recorded'[T] = n
      /\ \A s \in Schemas \ {T} : version'[s] = version[s] /\ recorded'[s] = recorded[s]
  BY <1>1, <1>3
<1>6. version' \in [Schemas -> Numbers] /\ recorded' \in [Schemas -> Numbers]
  BY <1>1, <1>2, <1>3
<1>7. \A s \in Schemas : recorded'[s] <= version'[s] /\ version[s] <= version'[s]
  BY <1>1, <1>2, <1>4, <1>5
<1> QED
  BY <1>5, <1>6, <1>7 DEF T

LEMMA TypeNext == TypeOK /\ [Next]_vars => TypeOK'
<1> SUFFICES ASSUME TypeOK, [Next]_vars PROVE TypeOK'
  OBVIOUS
<1> USE DEF Enter, schema, bounds
<1>0. /\ goose \in [Migrators -> Record] /\ "api" \in Migrators /\ "command" \in Migrators
      /\ {"config", "ping", "goose", "connect", "wire"} = Startup
      /\ 1 \in 0..MaxAttempts
  BY DEF TypeOK, Record, Numbers, Migrators, Startup
<1>1. CASE Start
  <2>1. starts' \in 0..MaxStarts /\ attempt' \in 0..MaxAttempts
    BY <1>1 DEF Start, TypeOK
  <2> QED
    BY <1>0, <1>1, <2>1 DEF Start, TypeOK
<1>2. CASE Signal
  BY <1>2 DEF Signal, TypeOK
<1>3. ASSUME NEW c \in {"ok", "error"}, Exit(c) PROVE TypeOK'
  BY <1>3, ExitTyped
<1>4. CASE Configured \/ Wired
  BY <1>0, <1>4 DEF Configured, Wired, TypeOK
<1>5. CASE PingOk
  <2>1. goose' \in [Migrators -> Record] /\ goose'["api"] = Connection
    BY <1>0, <1>5, GooseSwitched DEF PingOk
  <2>2. goose'["api"].on = TRUE /\ phase' = "goose"
    BY <1>5, <2>1 DEF PingOk, Connection
  <2> QED
    BY <1>0, <1>5, <2>1, <2>2 DEF PingOk, TypeOK, Record, Numbers
<1>6. CASE Retry
  BY <1>6 DEF Retry, TypeOK
<1>7. ASSUME NEW m \in Migrators, NEW last \in Releases,
             GooseReads(m, last) \/ ConnectionDrops(m)
      PROVE  TypeOK'
  <2>1. /\ goose' \in [Migrators -> Record]
        /\ goose'["api"].on = goose["api"].on
    BY <1>0, <1>7, GooseGoes
  <2>2. CASE GooseReads(m, last)
    BY <2>1, <2>2 DEF GooseReads, TypeOK, Record, Numbers
  <2>3. CASE ConnectionDrops(m)
    <3>1. drops' \in Nat /\ commands' \in Nat /\ commands' + drops' <= MaxEvents
      BY <2>3 DEF ConnectionDrops, TypeOK
    <3> QED
      BY <2>1, <2>3, <3>1 DEF ConnectionDrops, TypeOK, Record, Numbers
  <2> QED
    BY <1>7, <2>2, <2>3
<1>8. ASSUME NEW m \in Migrators, GooseApplies(m) PROVE TypeOK'
  <2>1. latest \in Releases
    BY DEF TypeOK
  <2>2. goose' \in [Migrators -> Record] /\ goose'["api"].on = goose["api"].on
    BY <1>0, <1>8, <2>1, GooseGoes
  <2>3. /\ version' \in [Schemas -> Numbers] /\ recorded' \in [Schemas -> Numbers]
        /\ \A s \in Schemas : recorded'[s] <= version'[s]
    BY <1>8, SchemaGrows
  <2>4. UNCHANGED <<phase, attempt, signalled, code, pool, server, req, latest,
                    starts, commands, drops>>
    BY <1>8 DEF GooseApplies
  <2> QED
    BY <2>2, <2>3, <2>4 DEF TypeOK, Record, Numbers
<1>9. CASE GooseDone
  <2>1. goose' \in [Migrators -> Record] /\ goose'["api"] = Idle
    BY <1>0, <1>9, GooseSwitched DEF GooseDone
  <2>2. goose'["api"].on = FALSE /\ phase' # "goose"
    BY <1>9, <2>1 DEF GooseDone, Idle
  <2> QED
    BY <1>0, <1>9, <2>1, <2>2 DEF GooseDone, TypeOK, Record, Numbers
<1>10. CASE CommandStarts
  <2>1. goose' \in [Migrators -> Record] /\ goose'["api"] = goose["api"]
    BY <1>0, <1>10, GooseSwitched DEF CommandStarts
  <2>2. commands' \in Nat /\ drops' \in Nat /\ commands' + drops' <= MaxEvents
    BY <1>10 DEF CommandStarts, TypeOK
  <2> QED
    BY <1>10, <2>1, <2>2 DEF CommandStarts, TypeOK, Record, Numbers
<1>11. CASE CommandEnds
  <2>1. goose' \in [Migrators -> Record] /\ goose'["api"] = goose["api"]
    BY <1>0, <1>11, GooseSwitched DEF CommandEnds
  <2> QED
    BY <1>11, <2>1 DEF CommandEnds, TypeOK, Record, Numbers
<1>12. CASE Connected \/ Shutdown
  BY <1>0, <1>12 DEF Connected, Shutdown, TypeOK
<1>13. CASE Listen \/ ListenFails
  BY <1>13 DEF Listen, ListenFails, TypeOK
<1>14. ASSUME NEW r \in Requests, Request(r) \/ Finish(r) PROVE TypeOK'
  BY <1>14 DEF Request, Finish, TypeOK
<1>15. CASE UNCHANGED vars
  BY <1>15 DEF vars, TypeOK
<1>16. CASE Main
  BY <1>0, <1>3, <1>4, <1>5, <1>6, <1>7, <1>8, <1>9, <1>12, <1>16
     DEF Main, TypeOK, ConfigFails, GiveUp, GooseFails, EnsureTablesFails, WireFails,
         ServerStopped, Drained, DrainTimesOut
<1>17. CASE Command
  BY <1>0, <1>7, <1>8, <1>10, <1>11, <1>17 DEF Command, CommandGoes, TypeOK
<1> QED
  BY <1>1, <1>2, <1>3, <1>13, <1>14, <1>15, <1>16, <1>17 DEF Next, Kill

-----------------------------------------------------------------------------
\* The tables that a schema has, it keeps.
LEMMA TablesStay ==
  ASSUME TypeOK, TypeOK', TablesExist, \A s \in Schemas : version[s] <= version'[s]
  PROVE  TablesExist'
<1>1. \A s \in Schemas : version[s] \in Numbers /\ version'[s] \in Numbers
  BY DEF TypeOK, Numbers
<1>2. PICK s \in Schemas : version[s] >= ConsentsAt
  BY DEF TablesExist
<1>3. version[s] \in Nat /\ version'[s] \in Nat /\ version[s] <= version'[s]
  BY <1>1, NumbersNat
<1>4. version'[s] >= ConsentsAt
  BY <1>2, <1>3
<1> QED
  BY <1>4 DEF TablesExist

LEMMA InvInit == Init => IInv
<1> SUFFICES ASSUME Init PROVE IInv
  OBVIOUS
<1>1. ServerServes /\ HandlersServed /\ PoolOpen /\ CutReported
  BY DEF Init, ServerServes, HandlersServed, PoolOpen, CutReported
<1>2. PathKept
  <2>1. \A m \in Migrators : goose[m] = Idle
    BY DEF Init
  <2>2. version["public"] = 0 /\ phase = "exited"
    BY DEF Init, Schemas
  <2> QED
    BY <2>1, <2>2 DEF PathKept, Idle
<1> QED
  BY <1>1, <1>2, TypeInit DEF IInv

\* The process ends, at any moment; a success only when no handler runs.
LEMMA InvExit ==
  ASSUME IInv, TypeOK', phase # "exited", NEW c \in {"ok", "error"}, Exit(c),
         c = "ok" => \A r \in Requests : req[r] # "running"
  PROVE  IInv'
<1> USE DEF IInv
<1>1. /\ phase' = "exited" /\ code' = c /\ server' = "off"
      /\ \A r \in Requests : req'[r] = IF req[r] = "running" THEN "cut" ELSE req[r]
      /\ goose' = [goose EXCEPT !["api"] = Idle]
      /\ UNCHANGED <<version, latest, drops>>
  BY DEF Exit, schema, bounds
<1>2. ServerServes' /\ HandlersServed' /\ PoolOpen'
  BY <1>1 DEF ServerServes, HandlersServed, PoolOpen
<1>3. CutReported'
  BY <1>1 DEF CutReported
<1>4. PathKept'
  <2>1. "api" \in Migrators
    BY DEF Migrators
  <2>2. \A m \in Migrators : goose'[m] = Idle \/ goose'[m] = goose[m]
    BY <1>1, <2>1, GooseSwitched
  <2> QED
    BY <1>1, <2>2 DEF PathKept, Idle
<1> QED
  BY <1>2, <1>3, <1>4

\* A goose of m works in pde as long as no connection was replaced.
LEMMA WorksInPde ==
  ASSUME IInv, drops = 0, NEW m \in Migrators, goose[m].on
  PROVE  Target(m) = "pde"
  BY DEF IInv, PathKept, Target, Resolved

\* A step that leaves the server and the requests alone.
Beside == UNCHANGED <<phase, code, pool, server, req, latest>>

LEMMA InvBeside ==
  ASSUME IInv, TypeOK', Beside, \A s \in Schemas : version[s] <= version'[s], PathKept'
  PROVE  IInv'
<1>1. ServerServes' /\ HandlersServed' /\ CutReported'
  BY DEF IInv, Beside, ServerServes, HandlersServed, CutReported
<1>2. PoolOpen'
  BY TablesStay DEF IInv, Beside, PoolOpen
<1> QED
  BY <1>1, <1>2 DEF IInv

LEMMA InvGoose ==
  ASSUME IInv, TypeOK', NEW m \in Migrators, NEW last \in Releases,
         GooseReads(m, last) \/ GooseApplies(m) \/ ConnectionDrops(m)
  PROVE  IInv'
<1> USE DEF IInv
<1>1. Beside
  BY DEF GooseReads, GooseApplies, ConnectionDrops, Beside
<1>2. /\ \A x \in Migrators : goose'[x].on = goose[x].on
      /\ \A x \in Migrators : goose'[x].path = goose[x].path \/ drops' = drops + 1
  BY GooseGoes
<1>3. \A s \in Schemas : version[s] \in Nat /\ version'[s] \in Nat
  BY NumbersNat DEF TypeOK, Numbers
<1>4. \A s \in Schemas : version[s] <= version'[s]
  <2>1. CASE GooseApplies(m)
    BY <2>1, SchemaGrows
  <2>2. CASE GooseReads(m, last) \/ ConnectionDrops(m)
    BY <2>2, <1>3 DEF GooseReads, ConnectionDrops, schema
  <2> QED
    BY <2>1, <2>2
<1>5. PathKept'
  <2>1. CASE ConnectionDrops(m)
    BY <2>1 DEF ConnectionDrops, PathKept, TypeOK
  <2>2. CASE ~ConnectionDrops(m)
    <3> SUFFICES ASSUME drops' = 0
                 PROVE  /\ version'["public"] = 0
                        /\ \A x \in Migrators : goose'[x].on => goose'[x].path
                        /\ phase' \in {"connect", "wire", "serve", "drain"} =>
                              version'["pde"] >= latest'
      BY DEF PathKept
    <3>1. drops = 0 /\ drops' # drops + 1
      BY <2>2 DEF GooseReads, GooseApplies, bounds, TypeOK
    <3>2. \A x \in Migrators : goose'[x].on => goose'[x].path
      BY <3>1, <1>2 DEF PathKept
    <3>3. version'["public"] = 0
      <4>1. CASE GooseApplies(m)
        <5>1. Target(m) = "pde"
          BY <3>1, <4>1, WorksInPde DEF GooseApplies
        <5>2. "public" \in Schemas \ {Target(m)}
          BY <5>1 DEF Schemas
        <5> QED
          BY <3>1, <4>1, <5>2, SchemaGrows DEF PathKept
      <4>2. CASE ~GooseApplies(m)
        BY <3>1, <4>2, <2>2 DEF GooseReads, schema, PathKept
      <4> QED
        BY <4>1, <4>2
    <3>4. ASSUME phase' \in {"connect", "wire", "serve", "drain"}
          PROVE  version'["pde"] >= latest'
      <4>1. version["pde"] >= latest
        BY <3>1, <3>4, <1>1 DEF PathKept, Beside
      <4>2. version["pde"] <= version'["pde"] /\ version["pde"] \in Nat
            /\ version'["pde"] \in Nat /\ latest \in Nat /\ latest' = latest
        BY <1>1, <1>3, <1>4 DEF Schemas, Beside, TypeOK
      <4> QED
        BY <4>1, <4>2
    <3> QED
      BY <3>2, <3>3, <3>4
  <2> QED
    BY <2>1, <2>2
<1> QED
  BY <1>1, <1>4, <1>5, InvBeside

LEMMA InvNext == IInv /\ [Next]_vars => IInv'
<1> SUFFICES ASSUME IInv, [Next]_vars PROVE IInv'
  OBVIOUS
<1>t. TypeOK /\ TypeOK'
  BY TypeNext DEF IInv
<1>m. "api" \in Migrators /\ "command" \in Migrators /\ latest \in Releases
  BY <1>t DEF Migrators, TypeOK
<1>v. \A s \in Schemas : version[s] \in Nat
  BY <1>t, NumbersNat DEF TypeOK, Numbers
<1> USE DEF Enter, schema, bounds, IInv
<1>1. CASE Start
  <2>1. /\ phase = "exited" /\ phase' = "config"
        /\ \A r \in Requests : req'[r] = "none"
        /\ UNCHANGED <<server, version, goose, drops>>
    BY <1>1 DEF Start
  <2> QED
    BY <1>t, <2>1 DEF ServerServes, HandlersServed, PoolOpen, CutReported, PathKept
<1>2. CASE Signal \/ Retry
  <2>1. /\ UNCHANGED <<phase, code, pool, server, req, latest, version, goose, drops>>
    BY <1>2 DEF Signal, Retry
  <2> QED
    BY <1>t, <1>v, <2>1, InvBeside DEF Beside, PathKept
<1>3. CASE \/ Kill \/ ConfigFails \/ GiveUp \/ GooseFails \/ EnsureTablesFails
           \/ WireFails \/ ServerStopped \/ DrainTimesOut
  BY <1>3, <1>t, InvExit DEF Kill, ConfigFails, GiveUp, GooseFails, EnsureTablesFails,
     WireFails, ServerStopped, DrainTimesOut
<1>4. CASE Drained
  BY <1>4, <1>t, InvExit DEF Drained
<1>5. CASE Configured
  <2>1. /\ phase = "config" /\ phase' = "ping"
        /\ UNCHANGED <<code, pool, server, req, latest, version, goose, drops>>
    BY <1>5 DEF Configured
  <2> QED
    BY <1>t, <2>1 DEF ServerServes, HandlersServed, PoolOpen, CutReported, PathKept
<1>6. CASE PingOk
  <2>1. /\ phase = "ping" /\ phase' = "goose"
        /\ UNCHANGED <<code, pool, server, req, latest, version, drops>>
    BY <1>6 DEF PingOk
  <2>2. \A m \in Migrators : goose'[m] = Connection \/ goose'[m] = goose[m]
    BY <1>6, <1>t, <1>m, GooseSwitched DEF PingOk
  <2>3. ServerServes' /\ HandlersServed' /\ PoolOpen' /\ CutReported'
    BY <2>1 DEF ServerServes, HandlersServed, PoolOpen, CutReported
  <2>4. PathKept'
    BY <2>1, <2>2 DEF PathKept, Connection
  <2> QED
    BY <1>t, <2>3, <2>4
<1>7. ASSUME NEW m \in Migrators, NEW last \in Releases,
             GooseReads(m, last) \/ GooseApplies(m) \/ ConnectionDrops(m)
      PROVE  IInv'
  BY <1>7, <1>t, InvGoose
<1>8. CASE GooseDone
  <2>1. /\ phase = "goose" /\ phase' = "connect" /\ goose["api"].on
        /\ UNCHANGED <<code, pool, server, req, latest, version, drops>>
    BY <1>8, <1>t DEF GooseDone, TypeOK
  <2>2. \A m \in Migrators : goose'[m] = Idle \/ goose'[m] = goose[m]
    BY <1>8, <1>t, <1>m, GooseSwitched DEF GooseDone
  <2>3. ServerServes' /\ HandlersServed' /\ PoolOpen' /\ CutReported'
    BY <2>1 DEF ServerServes, HandlersServed, PoolOpen, CutReported
  <2>4. ASSUME drops = 0 PROVE version["pde"] >= latest
    <3>1. Target("api") = "pde"
      BY <1>m, <2>1, <2>4, WorksInPde
    <3>2. /\ recorded["pde"] >= latest /\ recorded["pde"] <= version["pde"]
          /\ version["pde"] \in Nat /\ latest \in Nat
      BY <1>8, <1>t, <1>v, <3>1 DEF GooseDone, TypeOK, Schemas
    <3>3. recorded["pde"] \in Nat
      BY <1>t, NumbersNat DEF TypeOK, Numbers, Schemas
    <3> QED
      BY <3>2, <3>3
  <2>5. PathKept'
    BY <2>1, <2>2, <2>4 DEF PathKept, Idle
  <2> QED
    BY <1>t, <2>3, <2>5
<1>9. CASE CommandStarts
  <2>1. Beside /\ UNCHANGED <<version, drops>>
    BY <1>9 DEF CommandStarts, Beside
  <2>2. \A m \in Migrators : goose'[m] = Connection \/ goose'[m] = goose[m]
    BY <1>9, <1>t, <1>m, GooseSwitched DEF CommandStarts
  <2>3. PathKept'
    BY <2>1, <2>2 DEF PathKept, Connection, Beside
  <2> QED
    BY <1>t, <1>v, <2>1, <2>3, InvBeside
<1>10. CASE CommandEnds
  <2>1. Beside /\ UNCHANGED <<version, drops>>
    BY <1>10 DEF CommandEnds, Beside
  <2>2. \A m \in Migrators : goose'[m] = Idle \/ goose'[m] = goose[m]
    BY <1>10, <1>t, <1>m, GooseSwitched DEF CommandEnds
  <2>3. PathKept'
    BY <2>1, <2>2 DEF PathKept, Idle, Beside
  <2> QED
    BY <1>t, <1>v, <2>1, <2>3, InvBeside
<1>11. CASE Connected
  <2>1. /\ phase = "connect" /\ phase' = "wire" /\ TablesExist /\ pool' = "open"
        /\ UNCHANGED <<code, server, req, latest, version, goose, drops>>
    BY <1>11 DEF Connected
  <2>2. TablesExist'
    BY <2>1 DEF TablesExist
  <2> QED
    BY <1>t, <2>1, <2>2 DEF ServerServes, HandlersServed, PoolOpen, CutReported, PathKept
<1>12. CASE Wired \/ Shutdown
  <2>1. /\ \/ phase = "wire" /\ phase' = "serve" /\ server' = server
           \/ phase = "serve" /\ phase' = "drain" /\ server' = "off"
        /\ UNCHANGED <<code, pool, req, latest, version, goose, drops>>
    BY <1>12 DEF Wired, Shutdown
  <2>2. TablesExist'
    BY <2>1 DEF TablesExist, PoolOpen
  <2> QED
    BY <1>t, <2>1, <2>2 DEF ServerServes, HandlersServed, PoolOpen, CutReported, PathKept
<1>13. CASE Listen \/ ListenFails
  <2>1. phase = "serve" /\ UNCHANGED <<phase, code, pool, req, latest, version, goose, drops>>
    BY <1>13 DEF Listen, ListenFails
  <2>2. TablesExist'
    BY <2>1 DEF TablesExist, PoolOpen
  <2> QED
    BY <1>t, <2>1, <2>2 DEF ServerServes, HandlersServed, PoolOpen, CutReported, PathKept
<1>14. ASSUME NEW r \in Requests, Request(r) \/ Finish(r) PROVE IInv'
  <2>1. /\ phase \in {"serve", "drain"} /\ req'[r] \in {"running", "done"}
        /\ \A q \in Requests \ {r} : req'[q] = req[q]
        /\ UNCHANGED <<phase, code, pool, server, latest, version, goose, drops>>
    BY <1>14, <1>t DEF Request, Finish, ServerServes, HandlersServed, TypeOK
  <2>2. TablesExist'
    BY <2>1 DEF TablesExist, PoolOpen
  <2> QED
    BY <1>t, <2>1, <2>2 DEF ServerServes, HandlersServed, PoolOpen, CutReported, PathKept
<1>15. CASE UNCHANGED vars
  <2>1. UNCHANGED <<phase, code, pool, server, req, latest, version, goose, drops>>
    BY <1>15 DEF vars
  <2> QED
    BY <1>t, <1>v, <2>1, InvBeside DEF Beside, PathKept
<1>16. CASE Main
  BY <1>m, <1>2, <1>3, <1>4, <1>5, <1>6, <1>7, <1>8, <1>11, <1>12, <1>16 DEF Main
<1>17. CASE Command
  BY <1>m, <1>7, <1>9, <1>10, <1>17 DEF Command, CommandGoes
<1> QED
  BY <1>1, <1>2, <1>3, <1>13, <1>14, <1>15, <1>16, <1>17 DEF Next

LEMMA InvAlways == Spec => []IInv
  BY InvInit, InvNext, PTL DEF Spec

LEMMA InvImplies ==
  ASSUME IInv
  PROVE  HandlerHasPool /\ CleanExitDrained /\ MigratedUnlessDropped
<1>1. HandlerHasPool
  BY DEF IInv, HandlersServed, PoolOpen, HandlerHasPool
<1>2. CleanExitDrained
  BY DEF IInv, CutReported, CleanExitDrained
<1>3. MigratedUnlessDropped
  BY DEF IInv, PathKept, MigratedUnlessDropped, ServesMigrated, Resolved
<1> QED
  BY <1>1, <1>2, <1>3

=============================================================================
