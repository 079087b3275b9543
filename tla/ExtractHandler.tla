---------------------------- MODULE ExtractHandler ----------------------------
(***************************************************************************)
(* POST /v1/extract: concurrent requests over the Redis result cache, the  *)
(* Redis quota, the extractions and the extract_consents tables.           *)
(*                                                                         *)
(* A request takes one step per remote operation of Server.extract.  Every *)
(* such operation may fail; the ones that run under the request's context  *)
(* (consent, cache lookup, quota, extraction) fail once the client has     *)
(* gone, while Server.persist runs under a context of its own.  The        *)
(* process may crash between any two steps.                                *)
(*                                                                         *)
(* An extraction result is named by the request that made it.  The row a   *)
(* request inserts holds its input, its actor and the result it got, so    *)
(* row[r] only says whether the row exists and is active.  The cache holds *)
(* a result per (doc_type, content_sha256).                                *)
(***************************************************************************)
EXTENDS Actor, Naturals

CONSTANTS
    Requests,       \* requests handled
    Inputs,         \* what a request may carry
    DocTypes,       \* values of the doc_type parameter
    KnownTypes,     \* the doc types of the extractor's registry
    Contents,       \* SHA-256 of uploads
    Limit,          \* extractions per principal and window
    NoEntry, Corrupt,  \* a cache key that is absent, or does not decode
    None,           \* no result, or no id
    NoRow           \* no row in the ledger

CV == "curriculum_vitae"
Policies == {"lgpd-extract-v1", "lgpd-cv-store-v1"}

Keys == DocTypes \X Contents

\* form is the first upload check that fails, "ok" if none does.
Input == [p : Principal, hdr : Headers, bearer : BOOLEAN, doc : DocTypes,
          sha : Contents, refresh : BOOLEAN, consent : Policies \cup {"yes", ""},
          form : {"ok", "bad", "large"}]

ASSUME InputAssumption ==
    /\ Inputs \subseteq Input /\ Inputs # {}
    /\ KnownTypes \subseteq DocTypes
    /\ Limit \in Nat
\* (kind, id) of the quota keys.
Ids == {<<i.p.kind, LimiterId(i.p, i.hdr)>> : i \in Inputs}

ASSUME NoneAssumption ==
    /\ NoEntry \notin Requests /\ Corrupt \notin Requests /\ None \notin Requests
    /\ NoEntry # Corrupt /\ None \notin Ids

VARIABLES
    pc,        \* where each request is
    inp,       \* its input
    gone,      \* its client disconnected: r.Context() is cancelled
    got,       \* the result it holds
    victims,   \* rows matched by the UPDATE of its open transaction
    status,    \* its HTTP status, 0 before the answer
    cache,     \* Redis: extract:v1:{doc_type}:{sha}
    used,      \* Redis: quota of each (kind, id) used in this window, up to Limit
    row,       \* Postgres: state of the row each request inserted
    consented, \* Postgres: each request's extract_consents row exists
    extracted, \* history: number of results extracted so far
    made,      \* history: the place of each result among them, 0 if it has none
    charged,   \* history: the (kind, id) whose quota admitted the request
    dbErr      \* history: the request's persist met a database error

request == <<pc, inp, gone, got, victims, status>>
history == <<extracted, made, charged, dbErr>>
vars    == <<request, cache, used, row, consented, history>>

PC == {"new", "consent", "lookup", "limit", "extract", "update", "commit",
       "set", "done", "dead"}
InFlight == PC \ {"new", "done", "dead"}
\* 400 stands for the answers of mapPreprocessError and of the unknown doc
\* type, 502 for the other answers of mapExtractError (see ExtractService).
ExtractStatuses == {400, 502}
Statuses == {0, 200, 401, 403, 413, 429} \cup ExtractStatuses

TypeOK ==
    /\ pc \in [Requests -> PC]
    /\ inp \in [Requests -> Inputs]
    /\ gone \in [Requests -> BOOLEAN]
    /\ got \in [Requests -> Requests \cup {None}]
    /\ victims \in [Requests -> SUBSET Requests]
    /\ status \in [Requests -> Statuses]
    /\ cache \in [Keys -> Requests \cup {NoEntry, Corrupt}]
    /\ used \in [Ids -> 0..Limit]
    /\ row \in [Requests -> {"none", "active", "deleted"}]
    /\ consented \in [Requests -> BOOLEAN]
    /\ extracted \in Nat
    /\ made \in [Requests -> Nat]
    /\ charged \in [Requests -> Ids \cup {None}]
    /\ dbErr \in [Requests -> BOOLEAN]

-----------------------------------------------------------------------------
(***************************************************************************)
(* What the handler computes from its input.                               *)
(***************************************************************************)
RequiredConsentPolicy(doc) ==
    IF doc = CV THEN "lgpd-cv-store-v1" ELSE "lgpd-extract-v1"

ConsentAcceptedUnlessCV(i) == i.doc = CV => i.consent = RequiredConsentPolicy(CV)
ConsentAcceptedAnyYes(i) == i.consent \in {RequiredConsentPolicy(i.doc), "yes"}
ConsentAccepted(i) ==
    \/ i.consent = RequiredConsentPolicy(i.doc)
    \/ i.consent = "yes" /\ RequiredConsentPolicy(i.doc) = "lgpd-extract-v1"

\* The status of a request turned away before it changes anything, or 0.
Admission(i) ==
    IF ~i.bearer THEN 401
    ELSE IF ~HasScope(i.p, "extract:write") THEN 403
    ELSE IF i.form = "large" THEN 413
    ELSE IF i.form = "bad" \/ ~ConsentAccepted(i) THEN 400
    ELSE 0

CacheKeyWithoutType(i) == <<CHOOSE d \in DocTypes : TRUE, i.sha>>
CacheKey(i) == <<i.doc, i.sha>>

Owner(i) == ResolveActor(i.p, i.hdr).subject
Payer(i) == <<i.p.kind, LimiterId(i.p, i.hdr)>>

AcceptsGarbage(v) == v # NoEntry
Decodes(v) == v \in Requests

\* WHERE clause of the soft delete: the active rows that Replace supersedes.
SupersededOfAnyone(r) ==
    {q \in Requests : row[q] = "active" /\ CacheKey(inp[q]) = CacheKey(inp[r])}
Superseded(r) ==
    {q \in Requests : /\ row[q] = "active"
                      /\ inp[q].doc = inp[r].doc /\ inp[q].sha = inp[r].sha
                      /\ Owner(inp[q]) = Owner(inp[r])}

Hit(r) == got[r] \notin {None, r}

-----------------------------------------------------------------------------
Init ==
    /\ pc = [r \in Requests |-> "new"]
    /\ inp \in [Requests -> {CHOOSE i \in Inputs : TRUE}]
    /\ gone = [r \in Requests |-> FALSE]
    /\ got = [r \in Requests |-> None]
    /\ victims = [r \in Requests |-> {}]
    /\ status = [r \in Requests |-> 0]
    /\ cache = [k \in Keys |-> NoEntry]
    /\ used = [i \in Ids |-> 0]
    /\ row = [r \in Requests |-> "none"]
    /\ consented = [r \in Requests |-> FALSE]
    /\ extracted = 0
    /\ made = [r \in Requests |-> 0]
    /\ charged = [r \in Requests |-> None]
    /\ dbErr = [r \in Requests |-> FALSE]

Goto(r, l) == pc' = [pc EXCEPT ![r] = l]

Answer(r, s) ==
    /\ Goto(r, "done")
    /\ status' = [status EXCEPT ![r] = s]
    /\ gone' = [gone EXCEPT ![r] = FALSE]
    /\ victims' = [victims EXCEPT ![r] = {}]

\* authenticate, and the checks of extract before its first write.
Arrive(r, i) ==
    /\ pc[r] = "new"
    /\ inp' = [inp EXCEPT ![r] = i]
    /\ status' = [status EXCEPT ![r] = Admission(i)]
    /\ Goto(r, IF Admission(i) = 0 THEN "consent" ELSE "done")
    /\ UNCHANGED <<gone, got, victims, cache, used, row, consented, history>>

\* The client goes away while the handler works under the request's context;
\* persist has context.Background(), so that later it makes no difference.
Disconnect(r) ==
    /\ pc[r] \in {"consent", "lookup", "limit", "extract"} /\ ~gone[r]
    /\ gone' = [gone EXCEPT ![r] = TRUE]
    /\ UNCHANGED <<pc, inp, got, victims, status, cache, used, row, consented,
                   history>>

\* recordConsent: an error is only logged.
ConsentStored(r) ==
    /\ pc[r] = "consent" /\ ~gone[r]
    /\ consented' = [consented EXCEPT ![r] = TRUE]
    /\ Goto(r, "lookup")
    /\ UNCHANGED <<inp, gone, got, victims, status, cache, used, row, history>>

ConsentFailed(r) ==
    /\ pc[r] = "consent"
    /\ Goto(r, "lookup")
    /\ UNCHANGED <<inp, gone, got, victims, status, cache, used, row, consented,
                   history>>

\* lookupCache of a request without refresh.
AtLookup(r) == pc[r] = "lookup" /\ ~inp[r].refresh

AnswerHitAtOnce(r) ==
    /\ AtLookup(r) /\ ~gone[r] /\ Decodes(cache[CacheKey(inp[r])])
    /\ got' = [got EXCEPT ![r] = cache[CacheKey(inp[r])]]
    /\ Answer(r, 200)
    /\ UNCHANGED <<inp, cache, used, row, consented, history>>
LookupHit(r) ==
    /\ AtLookup(r) /\ ~gone[r] /\ Decodes(cache[CacheKey(inp[r])])
    /\ got' = [got EXCEPT ![r] = cache[CacheKey(inp[r])]]
    /\ Goto(r, "commit")
    /\ UNCHANGED <<inp, gone, victims, status, cache, used, row, consented,
                   history>>

\* The key is absent, or Redis does not answer (fail open).
LookupMiss(r) ==
    /\ AtLookup(r)
    /\ Goto(r, "limit")
    /\ UNCHANGED <<inp, gone, got, victims, status, cache, used, row, consented,
                   history>>

\* The entry does not decode: it is deleted.
LookupCorrupt(r) ==
    /\ AtLookup(r) /\ ~gone[r] /\ cache[CacheKey(inp[r])] = Corrupt
    /\ cache' = [cache EXCEPT ![CacheKey(inp[r])] = NoEntry]
    /\ Goto(r, "limit")
    /\ UNCHANGED <<inp, gone, got, victims, status, used, row, consented, history>>

\* invalidateCache of a request with refresh: an error is only logged.
Invalidated(r) ==
    /\ pc[r] = "lookup" /\ inp[r].refresh /\ ~gone[r]
    /\ cache' = [cache EXCEPT ![CacheKey(inp[r])] = NoEntry]
    /\ Goto(r, "limit")
    /\ UNCHANGED <<inp, gone, got, victims, status, used, row, consented, history>>

InvalidateFailed(r) ==
    /\ pc[r] = "lookup" /\ inp[r].refresh
    /\ Goto(r, "limit")
    /\ UNCHANGED <<inp, gone, got, victims, status, cache, used, row, consented,
                   history>>

\* enforceLLMRateLimit: one unit of the payer's quota, fail closed.
LimitAdmits(r) ==
    /\ pc[r] = "limit" /\ ~gone[r]
    /\ used[Payer(inp[r])] < Limit
    /\ used' = [used EXCEPT ![Payer(inp[r])] = @ + 1]
    /\ charged' = [charged EXCEPT ![r] = Payer(inp[r])]
    /\ Goto(r, "extract")
    /\ UNCHANGED <<inp, gone, got, victims, status, cache, row, consented,
                   extracted, made, dbErr>>

LimitRefuses(r) ==
    /\ pc[r] = "limit" /\ ~gone[r]
    /\ used[Payer(inp[r])] >= Limit
    /\ Answer(r, 429)
    /\ UNCHANGED <<inp, got, cache, used, row, consented, history>>

\* Redis failed, perhaps after it counted the call.
LimitUnavailable(r) ==
    /\ pc[r] = "limit"
    /\ \/ used' = used
       \/ /\ used[Payer(inp[r])] < Limit
          /\ used' = [used EXCEPT ![Payer(inp[r])] = @ + 1]
    /\ Answer(r, 429)
    /\ UNCHANGED <<inp, got, cache, row, consented, history>>

\* PrepareWithOptions and Extract: the provider may always fail, and the doc
\* type is looked up only here.  mapExtractError looks for the provider's words
\* in the error before its kind, so that no status is tied to a cause here.
ExtractAgain(r) ==
    /\ pc[r] = "extract"
    /\ Goto(r, "limit")
    /\ UNCHANGED <<inp, gone, got, victims, status, cache, used, row, consented,
                   history>>
ExtractFailsOnward(r) ==
    /\ pc[r] = "extract"
    /\ \E s \in ExtractStatuses : status' = [status EXCEPT ![r] = s]
    /\ Goto(r, "commit")
    /\ UNCHANGED <<inp, gone, got, victims, cache, used, row, consented, history>>
ExtractFails(r) ==
    /\ pc[r] = "extract"
    /\ \E s \in ExtractStatuses : Answer(r, s)
    /\ UNCHANGED <<inp, got, cache, used, row, consented, history>>

ExtractOk(r) ==
    /\ pc[r] = "extract" /\ ~gone[r] /\ inp[r].doc \in KnownTypes
    /\ got' = [got EXCEPT ![r] = r]
    /\ extracted' = extracted + 1
    /\ made' = [made EXCEPT ![r] = extracted + 1]
    /\ Goto(r, IF inp[r].refresh THEN "update" ELSE "commit")
    /\ UNCHANGED <<inp, gone, victims, status, cache, used, row, consented,
                   charged, dbErr>>

\* persist: Replace begins with the UPDATE, whose snapshot holds the rows
\* committed by now ...
UpdateRows(r) ==
    /\ pc[r] = "update"
    /\ victims' = [victims EXCEPT ![r] = Superseded(r)]
    /\ Goto(r, "commit")
    /\ UNCHANGED <<inp, gone, got, status, cache, used, row, consented, history>>

\* ... then, as in Insert, the row is inserted and the transaction committed.
CommitRows(r) ==
    row' = [q \in Requests |-> IF q = r THEN "active"
                               ELSE IF q \in victims[r] THEN "deleted" ELSE row[q]]

Commit(r) ==
    /\ pc[r] = "commit"
    /\ CommitRows(r)
    /\ victims' = [victims EXCEPT ![r] = {}]
    /\ Goto(r, "set")
    /\ UNCHANGED <<inp, gone, got, status, cache, used, consented, history>>

\* A database error, a full persistTimeout, or a COMMIT whose answer is lost:
\* the answer is still 200, and the cache is left alone.
SetDespiteError(r) ==
    /\ pc[r] \in {"update", "commit"}
    /\ dbErr' = [dbErr EXCEPT ![r] = TRUE]
    /\ Goto(r, "set")
    /\ UNCHANGED <<inp, gone, got, victims, status, cache, used, row, consented,
                   extracted, made, charged>>
PersistFails(r) ==
    /\ pc[r] \in {"update", "commit"}
    /\ dbErr' = [dbErr EXCEPT ![r] = TRUE]
    /\ \/ row' = row
       \/ pc[r] = "commit" /\ CommitRows(r)
    /\ Answer(r, 200)
    /\ UNCHANGED <<inp, got, cache, used, consented, extracted, made, charged>>

\* The result goes to the cache, on a hit too; an error is only logged.
CacheSet(r) ==
    /\ pc[r] = "set"
    /\ cache' = [cache EXCEPT ![CacheKey(inp[r])] = got[r]]
    /\ Answer(r, 200)
    /\ UNCHANGED <<inp, got, used, row, consented, history>>

CacheSetFails(r) ==
    /\ pc[r] = "set"
    /\ Answer(r, 200)
    /\ UNCHANGED <<inp, got, cache, used, row, consented, history>>

\* The process dies: open transactions roll back.
Crash ==
    /\ \E r \in Requests : pc[r] \in InFlight
    /\ pc' = [r \in Requests |-> IF pc[r] \in InFlight THEN "dead" ELSE pc[r]]
    /\ gone' = [r \in Requests |-> FALSE]
    /\ victims' = [r \in Requests |-> {}]
    /\ UNCHANGED <<inp, got, status, cache, used, row, consented, history>>

\* REDIS_CACHE_TTL ends, Redis evicts or loses the key.
Expire(k) ==
    /\ cache[k] # NoEntry
    /\ cache' = [cache EXCEPT ![k] = NoEntry]
    /\ UNCHANGED <<request, used, row, consented, history>>

\* An entry that this version of the program cannot decode.
Spoil(k) ==
    /\ cache[k] \in Requests
    /\ cache' = [cache EXCEPT ![k] = Corrupt]
    /\ UNCHANGED <<request, used, row, consented, history>>

\* The next minute: every counter starts again.
NextWindow ==
    /\ \E i \in Ids : used[i] > 0
    /\ used' = [i \in Ids |-> 0]
    /\ UNCHANGED <<request, cache, row, consented, history>>

Step(r) ==
    \/ ConsentStored(r) \/ ConsentFailed(r)
    \/ LookupHit(r) \/ LookupMiss(r) \/ LookupCorrupt(r)
    \/ Invalidated(r) \/ InvalidateFailed(r)
    \/ LimitAdmits(r) \/ LimitRefuses(r) \/ LimitUnavailable(r)
    \/ ExtractFails(r) \/ ExtractOk(r)
    \/ UpdateRows(r) \/ Commit(r) \/ PersistFails(r)
    \/ CacheSet(r) \/ CacheSetFails(r)

Next ==
    \/ \E r \in Requests, i \in Inputs : Arrive(r, i)
    \/ \E r \in Requests : Disconnect(r) \/ Step(r)
    \/ Crash
    \/ \E k \in Keys : Expire(k) \/ Spoil(k)
    \/ NextWindow

Spec == Init /\ [][Next]_vars

\* Every remote operation has a deadline, so a handler does not stay in a step.
FairSpec == Spec /\ \A r \in Requests : WF_vars(Step(r))

-----------------------------------------------------------------------------
(***************************************************************************)
(* Properties                                                              *)
(***************************************************************************)

\* The cache never holds a result of which no row was stored: persist writes
\* Redis only after Postgres, so that hits cannot go without rows for ever.
CachedHasRow ==
    \A k \in Keys : cache[k] \in Requests =>
        \E r \in Requests : /\ row[r] # "none" /\ got[r] = cache[k]
                            /\ inp[r].doc = k[1] /\ inp[r].sha = k[2]

\* A 200 carries a result that was extracted from the same bytes as the same
\* document type, through however many hits it was passed on.
ResponseIsForUpload ==
    \A r \in Requests : status[r] = 200 =>
        /\ got[r] \in Requests /\ made[got[r]] > 0
        /\ inp[got[r]].doc = inp[r].doc /\ inp[got[r]].sha = inp[r].sha

\* A 200 leaves a row for the request's own user, on a hit too, unless the
\* database failed.
AnsweredHasOwnRow ==
    \A r \in Requests : status[r] = 200 /\ ~dbErr[r] => row[r] # "none"

\* An answer other than 200 leaves no row and no result behind, however far
\* the request came.
FailureLeavesNothing ==
    \A r \in Requests : status[r] \notin {0, 200} => row[r] = "none" /\ made[r] = 0

\* Whatever a request leaves (a row, a consent, a charge), however far it came
\* and whoever went on, its principal had the scope and its form agreed to the
\* policy of its document type: curricula are kept longer and have a policy of
\* their own, which a mere "yes" does not name; the others take theirs or a yes.
\* (openapi.yaml:82 and :115 name lgpd-extract-v1 or a yes for every type.)
OnlyAuthorizedAndConsented ==
    \A r \in Requests : row[r] # "none" \/ consented[r] \/ charged[r] # None =>
        /\ inp[r].bearer
        /\ \E s \in inp[r].p.scopes : s \in {"admin", "extract:write"}
        /\ inp[r].doc = CV => inp[r].consent = "lgpd-cv-store-v1"
        /\ inp[r].doc # CV => inp[r].consent \in {"lgpd-extract-v1", "yes"}

\* The two readings of "whose request is this" agree: the quota that paid for
\* a row is its owner's; and a hit is paid for by nobody.
QuotaPaidByOwner ==
    \A r \in Requests :
        /\ made[r] > 0 => charged[r] = <<inp[r].p.kind, Owner(inp[r])>>
        /\ Hit(r) => charged[r] = None

\* The rows of concurrent requests implement the table's promise to its
\* users: a row is retired only in the step that stores its successor, a row
\* of the same user for the same document.
RowOf(r) ==
    IF row[r] = "none" THEN NoRow
    ELSE [owner |-> Owner(inp[r]), doc |-> <<inp[r].doc, inp[r].sha>>,
          live |-> row[r] = "active"]

Promise == INSTANCE Ledger WITH Writers <- Requests, Owners <- STRING,
                                Documents <- Keys,
                                rows <- [r \in Requests |-> RowOf(r)]

ImplementsLedger == Promise!Spec

\* Every request that is let in is answered, unless the process dies.
RequestAnswered ==
    \A r \in Requests : pc[r] \in InFlight ~> pc[r] \in {"done", "dead"}

\* README: "Successful extracts store audit fields ... plus a consent row".
EveryRowHasConsent == \A r \in Requests : row[r] # "none" => consented[r]

\* README: refresh deletes the Redis key, re-extracts and inserts "new row +
\* cache": what it cached is not overwritten by a result extracted before.
RefreshSticks ==
    [][\A k \in Keys :
          /\ cache[k] \in Requests /\ inp[cache[k]].refresh
          /\ cache'[k] \in Requests
          => made[cache'[k]] >= made[cache[k]]]_vars

=============================================================================
