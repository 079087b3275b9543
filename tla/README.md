# A TLA+ verification of personal-document-extractor

The service takes an uploaded document (identity document, proof of address,
invoice, CV), has a language model extract structured data from it, and keeps
the result in a Redis cache and a Postgres table. This directory models the
parts of it that carry state: how concurrent requests share the cache, the
quota and the table, what survives failures and crashes, and what one request
may cost. TLC checks the models on small instances, TLAPS proves the most
important results for every instance.

Sources are named relative to `src/`.

## 1. Inventory

| Component | State | Operations | Hard behaviour |
|---|---|---|---|
| Rate limiter (`internal/ratelimit`) | Redis counter per (kind, principal, minute) with a life | `Allow` = clock, INCR, EXPIRE | INCR and EXPIRE are two commands; the client resends; the clock moves between the read and the INCR |
| Extract handler (`internal/httpapi/server.go`, `middleware.go`) | none of its own; walks over cache, quota, tables | `POST /v1/extract`: authenticate, checks, consent, cache lookup or invalidation, quota, extraction, `persist`, answer | every step is remote and may fail; two contexts (the request's, `persist`'s); concurrent requests for one document |
| Actor (`internal/auth/principal.go`, `resolveActor`, `enforceLLMRateLimit`) | none | `HasScope`, `isM2MPrincipal`, `acceptsUserForward`, `resolveActor` | owner and payer are computed in two places |
| Result cache (`internal/cache`) | Redis string per (doc type, SHA-256) with a TTL | `Get`, `Set`, `Delete` | fails open, shared by all users, unconditional `Set` |
| Extractions store (`internal/store/extractions.go`) | table `extractions`, soft delete | `Insert`, `Replace`, `ListBySubject`, `GetByIDForSubject` | READ COMMITTED, row locks, a pool of ten, a lost COMMIT answer |
| Consents store (`internal/store/consents.go`) | table `extract_consents` | `Insert` | its failure is only logged |
| Extract service and Groq client (`internal/extract`, `internal/llm/groq`) | none | `Extract`, `repairJSON`, `Chat` | retries, repair, error text and error class |
| Process (`cmd/api`, `cmd/migrate`, `internal/db`, `internal/migrate`) | phase, pool, schema version and what goose recorded of it | migrate, connect, wire, serve, shut down | signals and failures at every step, search_path per session, two migrators without a lock |
| Authenticator (`internal/auth/authenticator.go`, `authenticate`) | expected issuer, realm keys in memory | discovery, JWT, PAT introspection, scopes | keys rotate and PATs are revoked while requests are on their way; two hosts for one realm |
| Request origin, CORS | none | functions of one request's headers | – |
| Preprocess (`internal/preprocess`) | temporary files | validation, text or vision | fallbacks, size limits |
| Document types, normalization (`internal/doctypes`, `internal/normalize`) | none | decode, `Normalize` | check digits, the order of date layouts, the random order of Go maps |
| Configuration, secrets (`internal/config`, `internal/secrets`) | environment | `MustLoad`, `Load` | which of two sources wins, limits |
| Logging, health | none | – | – |

Interactions. A request passes `authenticate`, then `extract` calls, in this
order: `recordConsent` (Postgres), `lookupCache` or `invalidateCache` (Redis),
`enforceLLMRateLimit` (Redis), preprocessing, `Extract` (Groq), and `persist`
(Postgres, then Redis). All but the last run under the request's context and
end with it; `persist` has three seconds of its own. Requests meet only in
Redis and Postgres: the process holds no shared memory.

What makes it correct: the quota is never exceeded and never refused without
reason; no result is cached without a row; a 200 carries the result of that
upload; a user's row disappears only for a successor; nobody pays for someone
else; one upload costs a bounded number of provider calls; everything ends.

## 2. Modules

| Module | Models | State and actions |
|---|---|---|
| `RateLimiter` | `Limiter.Allow`, the `Retry-After` header | clock (window, offset), the Redis counters and lives, one record per call; `StartAllow`, `IncrReply`, `IncrReplyLost`, `IncrLost`, `ExpireApplied`, `ExpireFailed`, and `Crash`, `Wipe`, `Tick` |
| `Actor` | identity and scope | operators only |
| `ExtractHandler` (extends `Actor`) | `authenticate`, `extract`, `persist`, the cache, the consents | per request a control point, its input and the result it holds; the cache per key; the quota per (kind, id); one row and one consent per request |
| `Ledger` | what the table promises: rows are added for good and retired only by a successor of the same owner and document | abstract; `ExtractHandler` and `ExtractionStore` are both shown to implement it |
| `ExtractionStore` | `Insert`, `Replace`, `ListBySubject` as transactions | control point per call, row locks, committed rows, start times, pool bound |
| `ExtractService` | `Extract`, `repairJSON`, `Chat`, `mapExtractError` | chat phase, attempt, reply, the parts of the error, calls and time |
| `Preprocess` (extends `ExtractService`) | `ValidateUpload`, `PrepareWithOptions`, `preparePDFVision`, `usablePDFText`, `CompactImage`, `TextFromPDF` | the step of the preparation, the text layer, rendered pages, images, mode; then the steps of `ExtractService` |
| `Lifecycle` | `main` of the API and of the migrate command, `migrate.Up`, `db.Connect`, `EnsureTables` | phase, pool, server, requests; per schema the migrations applied and the version recorded; per migrator its connection and the migration it is about to apply |
| `Config` | `secrets.MustLoad`, `config.Load` | operators over an environment |
| `Authenticator` (extends `Lifecycle`, `Config`) | `NewAuthenticator`, `Authenticate`, the middleware | deployment, issuer, key origin and keys; the realm's keys and revoked PATs; token and verdict per request |
| `Process` (extends `Authenticator`) | the composition | `Lifecycle`'s steps, joined with the settings (config), the authenticator (wire) and the verdict (request) |
| `Lists` | the loops that append some entries of a list to a new one: which places they take, in which order | operators |
| `Normalize` (extends `Lists`) | `internal/normalize` | operators: check digits, dates as sequences of numbers, marks and words |
| `CurriculumVitae` (extends `Normalize`) | the cleaning of a CV | operators |
| `DocTypes` (extends `CurriculumVitae`) | the four document types, from the paper to the stored result | `ModelAnswers` (right, or one digit wrong), `Decode`, `NextOfMap` (one group of the map), `Store` |
| `MC...` | instances for TLC | inputs, symmetry |
| `...Proofs` | theorems, see section 4 | – |

Abstractions. A document is its SHA-256, a result the request that extracted
it; JSON, prompts, file names and log lines are left out. `ExtractHandler` uses
the quota and the extraction through what `RateLimiter` and `ExtractService`
show about them: at most `Limit` admissions per window, and success or a
failure with one of the statuses (400 standing for those of a bad document or doc
type, 502 for all others; which failure gets which is in `ExtractService`, where
the error of an unknown type may hold the provider's words, since it quotes the client).
A row's `UPDATE` and its commit are two steps there; the locks between them are
in `ExtractionStore`. `Ledger` is the common promise of both.

In `ExtractHandler` one action is one remote operation with everything the
handler does until the next one. `Disconnect` cancels the request's context;
`Crash` ends every request in flight and rolls its transaction back; `Expire`
and `Spoil` are the TTL or eviction of a key and an entry that does not decode.

In `RateLimiter` time is (window, offset), so that `Truncate` needs no
division. `MaxStall` bounds the ticks between the clock read and the last
effect of INCR; the assumption that it is at most a window is what the code
relies on when it gives keys two windows of life (the Redis client's timeouts
are seconds, the window a minute).

In `Lifecycle` goose looks a version up and applies the next migration in two
steps, because `make migrate` may run beside a starting or serving API and
goose takes no lock. The loser of such a race repeats a migration whose
statements allow it (`Repeatable`: migrations 10 to 12 are written with IF [NOT]
EXISTS) or fails. The newest row of goose's table may then be older than the
schema, which is why `version` (what was applied) and `recorded` are two
variables, and why `MigratedUnlessDropped` speaks of the first.

In `Authenticator` a URL is its origin: Keycloak answers under a public and an
internal host and may name either in its discovery document. A JWT is decided
in one step from the keys in memory; a PAT in three (sent, looked up by
kalke-auth, answered), between which it may be revoked. `offered` and `entitled`
are history variables. In `Config` a string is what `TrimSpace` and the parsers
make of it, for the strings that the instances use; LOG_LEVEL and LOG_FORMAT stand
for their lower case. Every wait of startup has a deadline (pings and `EnsureTables`
2 s, the secret 15 s, discovery 10 s, the timeouts of the Redis client and of
keyfunc) but those of phase "goose", see Fairness.

In `ExtractionStore` a call gives its locks back when it returns. pgx closes the
connection of a cancelled call a little later, so that others may wait longer, as
they would for a slower call.

In `DocTypes` a date is a sequence of numbers with their width, marks and month
names, and `time.Parse` is modelled on these; an identifier is a sequence of
digits and other characters. An e-mail is blank, plain, or one whose local part is
legal only in quotes: `normalizeEmail` stores what `mail.ParseAddress` has without the
quotes, which does not parse any more, or parses as yet another address if there
were more layers of them. A skills object names each key once (Go keeps the last of
a key that JSON repeats). Free text is "" or a name. A loop that appends what
it keeps of a list is the set of the places it keeps, taken in order (`EntriesAt`;
`ItemsAt` for the nested loops over the groups of skills), rather than a
recursion: the k-th entry of the result is at the place with k kept places up to
it. That is what lets a proof speak of lists of any length.

The behaviour of goose, of keyfunc (keys are loaded at the start if possible,
and again later), of Keycloak and kalke-auth, of Postgres (snapshot of an UPDATE, row locks, recheck after a
wait, rollback), of the Redis client (resending), of `database/sql` (replacing a
broken connection) and of `net/http` is modelled from how the code uses it and
marked external.

## 3. Runs

| Run | Question | Result |
|---|---|---|
| `RateLimiter` | quota kept, refusals justified, no leak without fault, every call returns; 2 calls, 2 windows, 1 fault | holds |
| `RateLimiterRetryAfter` | does waiting `Retry-After` help? | **violated**: rounded down |
| `ExtractShared` | 3 requests, 2 users, one document, refresh: cache backed by rows, own row, failures leave nothing, payer is owner, refinement of `Ledger` | holds |
| `ExtractTyped` | one upload as several document types; only authorized requests with the consent of their type leave a trace; every admitted request is answered or dies with the process | holds |
| `ExtractConsent` | README: every stored extract has a consent row | **violated** |
| `ExtractRefreshSticks` | README: refresh replaces the cached result | **violated** by a slower older request |
| `Preprocess` | one upload: what reaches the model, cost, time, status and end, through rendering, fallback, retries and repair | holds |
| `ExtractionStore` | locks, superseded rows, refinement of `Ledger`, the user's list, the end of lock waits, deadlocks and a full pool | holds |
| `StoreOneActive` | integration test: one active row after Replace | **violated** by two concurrent Replaces |
| `Lifecycle` | the whole process: open pool under handlers, clean exit, migrated tables unless the migration connection was replaced, only entitled tokens admitted, genuine ones refused only until their key is loaded, a signal stops the process, startup ends unless a statement of the migrations waits for ever | holds |
| `LifecycleDrops` | README: pending migrations are applied on startup | **violated** when the migration connection is replaced |
| `DocTypes` | wrong digits are refused but for known exceptions, dates and skills are stored as printed whatever the order of maps, normalizing twice is normalizing once, but for a quoted e-mail | holds |

The violated runs state what a document or a test says and the code does not
do; `PROJECT.json` quotes both. The properties of the passing runs are defended
by mutants, one each: a change of the modelled code that TLC must catch.

Three properties hold of the code where a document says something else, so that
their passing must not be read as agreement with it:

- `BusyIsReported` states the 429 ("extraction provider busy; try again in a
  minute") of `mapExtractError` (`server.go:543`), which also answers 413 to a request
  that Groq finds too large. README:200 has "`502` | Groq request failed", README:198
  lists 429 only for the service's own limiter, README:196 413 only for the upload,
  and the ErrorCatalog of openapi.yaml has neither message.
- `OnlyAuthorizedAndConsented` states the policies of `consents.go:17` and
  `consentAccepted`: a CV needs `lgpd-cv-store-v1`. openapi.yaml:82 ("Multipart `consent`
  must equal `lgpd-extract-v1`"), its enum at line 115 and README:172 know one policy
  for every type; a client that follows them for a CV is answered 400.
- `DateStoredAsPrinted` takes the months of a CV as the comment of `normalizeCVDate`
  does, YYYY-MM, and an unknown date as "". README:208 has "ISO `YYYY-MM-DD`, or `null`".

Some other sentences of the repository's README differ from the code on one reading
and need no run: a hit does write a row (README:218 "no Postgres write"; the hit
path calls `persist`), a miss writes Postgres before Redis (README:219 has them
the other way round, README:217 the right way), a refresh retires the row after
the extraction (README:220 lists it before), and a principal needs the scope
`extract:write` (README:141 "Any authenticated principal").

Bounds. `RateLimiter`: `MaxWindow`, `MaxCount`, `MaxFaults`; two calls suffice
for every race between one INCR and another call's EXPIRE, two windows for an
INCR to arrive in the window after its own; longer lives are the proofs' part.
`ExtractHandler`: three requests are a refresh, a reader and a third that reads
what the race of the two left; the quota is 1 so that it is reached; the number
of requests bounds everything else. `ExtractionStore`: two earlier rows, which
two Replaces can lock in opposite order, and three calls over two connections,
so that the third waits for the pool. `ExtractService` has `MaxAttempts` = 3 as
the code, an attempt of 0..1 ticks and a pause of 1; `Preprocess` has the
limits of the code and texts and pictures on both sides of them. `Lifecycle`: two attempts
for thirty, two starts of two releases, one request (its properties are about
each request by itself), and one event: a run of the migrate command or a broken
connection. Its deployments are the two that the README describes (Docker with a
discovery URL, the host without), settings from the environment and from the
secret, and four that are broken. Tokens are signed by the realm's first or next
key, for either issuer, with and without the scope. `DocTypes`: 200 valid CPFs
and 200 CNPJs that differ at three places, with every misreading of one digit;
dates with one- and two-digit numbers, short years, the separators, month names,
the 29th of February and days that do not exist; three groups of skills of which two share a
category, in the three shapes of JSON; e-mails with no quotes and one or two layers of them. The requests of `ExtractShared` are
interchangeable and checked up to symmetry; the runs with liveness are not.

`CHECK_DEADLOCK FALSE` everywhere: finitely many requests (callers in a bounded
time, starts) end, and then the model stops.

Fairness. Weak fairness of each call's own steps: every remote operation of a request has a
deadline (the Redis client's timeouts, `persistTimeout`, Groq's 120 s, 45 s for a rendering, the
request's context), and after it the code goes on. Clients, clocks, crashes,
faults and restarts are never fair. Postgres breaking a deadlock and the context
ending a wait are both `Fail` of the waiting call. In `Lifecycle` only `main` is
fair; requests, introspection, the migrate command and the realm are not. And `main`
is not fair in phase "goose" before a signal (`Waits`): CREATE SCHEMA, SET and goose
(`migrate.go:60`, `63`, `71`) have the context of the signal and no deadline, so that a
lock in Postgres may hold startup. `StartupEnds` says that nothing else can, and
`SignalStops` that a signal ends that wait too.

## 4. Proofs

All proofs are for any number of callers, requests, users, documents, releases
and windows and for every bound, from the `ASSUME`s of the modules, which TLC
evaluates on the instances. The inductive invariants hold in TLC too, on the
instances of the runs, but for that of `DocTypes`, which TLC cannot evaluate: it
says that there is an answer of which the stored result is the normal form.

| Module | Proves | Inductive invariant |
|---|---|---|
| `RateLimiterProofs` | `TypeOK`, `AdmittedWithinLimit`, `RefusalIsJustified`, `LeakOnlyAfterFault` | `IInv` |
| `ExtractHandlerProofs` | `TypeOK`, `CachedHasRow`, `ResponseIsForUpload`, `AnsweredHasOwnRow`, `FailureLeavesNothing`, `QuotaPaidByOwner`, `OnlyAuthorizedAndConsented`, `ImplementsLedger` | `IInv`, `Traced` |
| `ExtractionStoreProofs` | `TypeOK`, `LockProtectsRow`, `ReplaceSupersedes`, `ListNeverLosesDocument`, `ImplementsLedger` | `IInv` |
| `LifecycleProofs`, `ProcessProofs` | that `Process` implements `Lifecycle`; `HandlerHasPool`, `CleanExitDrained`, `MigratedUnlessDropped`, `ProcessTypeOK`, `OnlyEntitledAdmitted`, `GenuineRefusedOnlyForKey` | `IInv`, `AuthInv`, `Built` |
| `PreprocessProofs` | `UploadTypeOK`, `PreparedWithinLimits`, `VisionBeforeWeakText`, `CallsBounded`, `UploadTimeBounded`, `StatusTellsCause`, `BusyIsReported` | `UploadInv` |
| `NormalizeProofs` | check digits, dates and filtered lists, as facts about the operators | – |
| `DocTypesProofs` | `MisreadRefused`, `DateStoredAsPrinted`, `SkillsKept`, `NormalizeIdempotent` | `Inv` |

`RateLimiterProofs`. None of its properties is inductive. The invariant `IInv` adds:
`PendingInv` (a pending call's window is the present one, or as far in the past
as its age allows), `ExpireInv` (a call on its way to EXPIRE saw 1),
`FutureInv` (no counter for a window that has not begun), `LifeInv` (a key's
life lasts to the end of the window after its own: it began with two
windows) and `CountInv` (of the present and the last window, a key that was not
wiped has counted every admission, and every INCR up to the limit was admitted
or burned). The crux is `LifeInv`: the quota would
break if a key died while a call for its window was pending, and re-appeared
with count 1.

`ExtractHandlerProofs`. `IInv` adds: `HoldsResult` (a
request that commits, caches or has answered 200 holds a result), `RowsOnTime`
(no row before the commit step), `ResultsMatch` (a result held or cached was
made from the same key) and `VictimsOwned` (the rows an open transaction will
retire are of its user and document). The refinement maps `rows` to the
requests' rows: `Commit`, and `PersistFails` when only the answer to COMMIT was
lost, are `Append`; every other step leaves the mapped rows unchanged.
What a request leaves behind is a second invariant, `Traced`, of each request by
itself: what its answer says about its row and result (`AnswerTold`), that it
passed admission if it is in flight or left anything (`TraceAdmitted`), and that
the payer is charged after the lookup and before the extraction, and not on a
hit (`ChargeInOrder`). Another request's commit may retire the row but never
removes it, which is why steps of others keep it.

`ExtractionStoreProofs`. `ReplaceSupersedes` speaks of the end of a transaction
and the locks of its middle: `IInv` adds that each row the UPDATE matched is
still to be looked at, deleted, or held by the call (`SnapshotSettled`), that a
held row is active and matched by its holder (`LocksMatched`), that matched rows
are of the call's own user and document (`SnapshotOwned`) and when they are
there at all (`SnapshotOnTime`, `RowsAtCommit`). The refinement follows from the
ownership of the snapshot. `ListNeverLosesDocument` is an action property: if a
row leaves the list and is still active, some row pushed it out, and then the
page is full. That a page which leaves an active row out is full (`PageIsFull`)
takes the least set of newer rows among the finitely many rows, by the
well-foundedness of strict inclusion, and no induction on the rows.

`LifecycleProofs` and `ProcessProofs`. `ProcessIsLifecycle` shows `PSpec => Spec`:
each step of the process with its settings and authenticator is a step of
`Lifecycle` or leaves its variables unchanged, so that `Lifecycle`'s invariants hold
of the whole. `HandlerHasPool` needs to know when a handler can run
(`ServerServes`, `HandlersServed`) and that the pool is open from the wiring on
(`PoolOpen`); `CleanExitDrained` that a cut request is reported (`CutReported`);
`MigratedUnlessDropped` that without a replaced connection every goose works in
pde and nobody in public (`PathKept`), since only then is the version it read the
one that handlers see. For `OnlyEntitledAdmitted`, `AuthInv` adds that a PAT on its
way was good when its request came if kalke-auth finds it active, revocations
being final (`PatPending`), and that with a discovery URL the issuer in memory is
the configured one (`IssuerKept`). `GenuineRefusedOnlyForKey` needs what `main` decided
before it served (`Built`). `DeploymentAssumption` says what the name "public" stands for: the
origin in OIDC_ISSUER wherever the settings are accepted.

`PreprocessProofs`. The calls of a chat are counted by its attempts and the chat
before by `MaxAttempts` (`CallsCounted`); the time is within the renderings so far,
the calls so far and the pauses that are over, n(n − 1)/2 units before the n-th
attempt, or all of them once the chat ended, as it may have ended in a pause
(`TimeSpent`, stated twice over to stay within integers). `ServiceInOrder` says what
Extract holds at each step, `RenderInOrder` and `ImagesInOrder` what the
preparation does: at most two renderings, and a text is read or a weak one used
only when the last of them gave nothing. That an edge scaled as x·1600 / longest
stays between 1 and 1600 for every picture is `ScaledEdgeFits`.

`NormalizeProofs` proves what `MisreadRefused` says of the check digits for every
CPF and CNPJ and not only those of the run. `CheckDigitsAgree`: (10·sum) mod 11
with 10 read as 0, and 11 − sum mod 11 with a remainder below 2 read as 0, are
the same function. `CPFMisread` and `CNPJMisread`: if one digit of a valid number
is changed and it stays valid, then the first sum leaves 0 or 1, and the digit
is one of those whose weight lets the second sum stay as well (1 and 6; 1, 5 and
9). The argument: two sums have one check digit only if their remainders are
equal or both in {0, 1} (`SameDigit`); a weight between 2 and 10 moves the sum by
a nonzero remainder (`Shifted`), so the first sum went from 0 to 1 or back, which
fixes the change of the digit by its weight, and the second sum decides.
Of the dates, `UsualDateStored` proves for every day, month and year, number of
digits and separator that whichever of the six layouts reads a date in the usual
form, it is the day that was printed; and `DateIdempotent` for every text that
what `DateToISO` stores is read back as it is. Both evaluate the layouts one by
one (`ParseDayFirst`, `ParseYearFirst`); the loop that stops at the first that
parses is `FirstOfReadings`.

Lists need no induction over data: `InOrder(I)` counts the places of a finite set
off (`OrderedPlaces`, from the cardinality of initial segments; `OrderedPairs` for
pairs of places), so that a filtered list has exactly the entries of its places
(`Filtered`, `Gathered`), and filtering with all places is the identity
(`FilterAll`). From these follow that digits of digits are the digits
(`DigitsTwice`, `IdentifierIdempotent`) and that one misread character of an
identifier replaces one digit of `DigitsOnly` or none (`OneDigitReplaced`).

`DocTypesProofs` proves all four invariants of `DocTypes`, for every set of papers
with the fields of their types (`PapersAssumption`) whose CPF and CNPJ are issued
or missing (`IssuedAssumption`). Only what is stored is spoken of, so that none
is inductive; `Inv` says what `fields` holds at each stage: the paper's fields, an
answer (right or one digit wrong), a curriculum of which some groups of the map
are still to come and the others are there in some order, and the normal form
of one of these. Each property then is one of the normal form.

- `MisreadsRefused`: `OneDigitReplaced`, then `CPFMisread` and `CNPJMisread`.
- `DatesAsPrinted`: whichever day layout reads a text, or what is before its first
  space, it reads the first three numbers in the order a reader would (`DayRead`,
  `NumbersInFront`); a month layout reads the only two, or the name and the only
  number (`MonthRead`). A day in the usual form fits some layout (`UsualRead`,
  `UsualKept`). A Portuguese name that leaves letters behind ("jan" of "janeiro")
  is followed by no year, so that only one name can be read (`PtRead`,
  `OnePtReading`): the random order of the map does not matter.
- `AllSkillsKept`: the places that `cleanSkills` keeps of a category are the first
  of each key (`MergedPlace`, `MergedApart`), hence its keys are those of its groups
  (`MergedKeys`) and none is there twice (`MergedTidy`, `TidyCount`). The keys of a
  category depend only on the set of decoded groups (`DecodedKeys`), hence not on
  the order of the map.
- `ResultIdempotent`: a list that was cleaned is kept whole (`TidyStays`,
  `SkillsIdempotent`, `ExperienceTwice` and its like), a stored day or month is read
  back as it is (`DateIdempotent`, `CVDateIdempotent`). Of a curriculum the e-mail is
  the one field that may change, if its local part needs quotes, and then
  nothing else does (`CVTwice`).

Only model-checked: liveness (`AllowReturns`, `RequestAnswered`, `ExtractReturns`,
`PersistReturns`, `SignalStops`, `StartupEnds`), under fairness, which is out of the
prover's reach. Every other property that a passing run checks is also a theorem.

## 5. Not modelled

Not modelled: request origin and CORS (functions of one request's headers, which
label rows and set response headers), health and readiness (one ping), logging.
Of the document types, prompts, the trimming of free text and the grammar of
e-mail addresses; of the configuration, settings that are only handed on. Image
and PDF codecs and JSON stay out. A SET that Redis applies after its caller has
given up is not distinguished from one that failed. Whose file name a cached
result carries is not seen, since a result is named by its request.

`getExtraction` reads one row by id and subject and keeps no state;
the list is `ListBySubject` in `ExtractionStore`.

Two limits that the models make visible and no property forbids: `DateToISO`
reads a year of two digits as Go does, 45 as 2045; and a withdrawn realm key is
honoured until the library loads the keys again.
