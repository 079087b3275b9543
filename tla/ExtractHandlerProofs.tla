------------------------ MODULE ExtractHandlerProofs ------------------------
(***************************************************************************)
(* TLAPS proofs about ExtractHandler, for every set of requests, inputs,   *)
(* document types and contents and every limit.                            *)
(***************************************************************************)
EXTENDS ExtractHandler, TLAPS

(***************************************************************************)
(* The inductive invariant.  CachedHasRow needs to know that a request     *)
(* about to write the cache has stored its row (RowsOnTime) and that what  *)
(* a row says does not change any more (inputs and results are fixed       *)
(* before the row exists).  ResponseIsForUpload is followed through the    *)
(* cache by ResultsMatch: a result passed on by a hit still belongs to the *)
(* same document.  VictimsOwned is what the refinement needs: the rows     *)
(* that an open transaction retires are of its own user and document.      *)
(***************************************************************************)

\* Before it is extracted or found there is no result, afterwards there is.
HoldsResult ==
    \A r \in Requests :
        /\ pc[r] \in {"update", "commit", "set"} => got[r] \in Requests
        /\ pc[r] \in {"new", "consent", "lookup", "limit", "extract"} =>
               got[r] = None /\ made[r] = 0
        /\ status[r] = 200 => got[r] \in Requests
        /\ status[r] # 0 => pc[r] = "done"

\* A row exists only after the commit, and before the cache is written.
RowsOnTime ==
    \A r \in Requests :
        /\ row[r] # "none" => pc[r] \in {"set", "done", "dead"}
        /\ pc[r] = "set" => row[r] # "none"

ResultsMatch ==
    \A r \in Requests : got[r] \in Requests =>
        /\ made[got[r]] > 0
        /\ inp[got[r]].doc = inp[r].doc /\ inp[got[r]].sha = inp[r].sha

VictimsOwned ==
    \A r \in Requests : \A q \in victims[r] :
        /\ pc[r] = "commit" /\ row[q] # "none"
        /\ inp[q].doc = inp[r].doc /\ inp[q].sha = inp[r].sha
        /\ Owner(inp[q]) = Owner(inp[r])

IInv == /\ TypeOK /\ HoldsResult /\ RowsOnTime /\ ResultsMatch /\ VictimsOwned
        /\ CachedHasRow

USE InputAssumption, NoneAssumption, ActorAssumption

\* Facts about inputs that the proofs use instead of the record types.
LEMMA InputFacts ==
  ASSUME NEW i \in Inputs
  PROVE  /\ i.doc \in DocTypes /\ i.sha \in Contents /\ i.refresh \in BOOLEAN
         /\ CacheKey(i) \in Keys /\ Payer(i) \in Ids /\ Owner(i) \in STRING
<1>1. i \in Input
  OBVIOUS
<1>2. /\ i.doc \in DocTypes /\ i.sha \in Contents /\ i.refresh \in BOOLEAN
      /\ i.p \in Principal /\ i.hdr \in Headers
  BY <1>1 DEF Input
<1>3. i.p.subject \in STRING /\ i.hdr.sub \in STRING
  BY <1>2 DEF Principal, Headers
<1>4. Owner(i) \in STRING
  BY <1>3 DEF Owner, ResolveActor
<1> QED
  BY <1>2, <1>4 DEF CacheKey, Keys, Payer, Ids

LEMMA AdmissionFacts ==
  ASSUME NEW i \in Inputs
  PROVE  Admission(i) \in Statuses \ {200}
  BY DEF Admission, Statuses, ExtractStatuses

-----------------------------------------------------------------------------
LEMMA TypeInit == Init => TypeOK
<1> SUFFICES ASSUME Init PROVE TypeOK
  OBVIOUS
<1>1. inp \in [Requests -> Inputs]
  BY DEF Init
<1> QED
  BY <1>1 DEF Init, TypeOK, PC, Statuses, ExtractStatuses

LEMMA TypeNext == TypeOK /\ HoldsResult /\ [Next]_vars => TypeOK'
<1> SUFFICES ASSUME TypeOK, HoldsResult, [Next]_vars PROVE TypeOK'
  OBVIOUS
<1> USE DEF TypeOK, Goto, Answer, history
<1>i. \A r \in Requests : CacheKey(inp[r]) \in Keys /\ Payer(inp[r]) \in Ids
  BY InputFacts
<1>p. {"new", "consent", "lookup", "limit", "extract", "update", "commit",
       "set", "done", "dead"} \subseteq PC
  BY DEF PC
<1>s. {0, 200, 429, 400, 502} \subseteq Statuses
  BY DEF Statuses, ExtractStatuses
<1>1. ASSUME NEW r \in Requests, NEW i \in Inputs, Arrive(r, i) PROVE TypeOK'
  <2>1. Admission(i) \in Statuses
    BY AdmissionFacts
  <2> QED
    BY <1>1, <1>p, <2>1 DEF Arrive
<1>2. ASSUME NEW r \in Requests, Disconnect(r) PROVE TypeOK'
  BY <1>2 DEF Disconnect
<1>3. ASSUME NEW r \in Requests, ConsentStored(r) \/ ConsentFailed(r) PROVE TypeOK'
  <2>1. CASE ConsentStored(r)
    BY <2>1, <1>p DEF ConsentStored
  <2>2. CASE ConsentFailed(r)
    BY <2>2, <1>p DEF ConsentFailed
  <2> QED
    BY <1>3, <2>1, <2>2
<1>4. ASSUME NEW r \in Requests, LookupHit(r) PROVE TypeOK'
  <2>1. cache[CacheKey(inp[r])] \in Requests
    BY <1>4 DEF LookupHit, Decodes
  <2> QED
    BY <1>4, <2>1, <1>p DEF LookupHit
<1>5. ASSUME NEW r \in Requests, LookupMiss(r) \/ InvalidateFailed(r) PROVE TypeOK'
  BY <1>5, <1>p DEF LookupMiss, InvalidateFailed
<1>6. ASSUME NEW r \in Requests, LookupCorrupt(r) \/ Invalidated(r) PROVE TypeOK'
  <2>1. CASE LookupCorrupt(r)
    BY <2>1, <1>p, <1>i DEF LookupCorrupt
  <2>2. CASE Invalidated(r)
    BY <2>2, <1>p, <1>i DEF Invalidated
  <2> QED
    BY <1>6, <2>1, <2>2
<1>7. ASSUME NEW r \in Requests, LimitAdmits(r) PROVE TypeOK'
  BY <1>7, <1>p, <1>i DEF LimitAdmits
<1>8. ASSUME NEW r \in Requests, LimitRefuses(r) PROVE TypeOK'
  BY <1>8, <1>p, <1>s DEF LimitRefuses
<1>9. ASSUME NEW r \in Requests, LimitUnavailable(r) PROVE TypeOK'
  <2>1. used' \in [Ids -> 0..Limit]
    BY <1>9, <1>i DEF LimitUnavailable
  <2> QED
    BY <1>9, <2>1, <1>p, <1>s DEF LimitUnavailable
<1>10. ASSUME NEW r \in Requests, ExtractFails(r) PROVE TypeOK'
  BY <1>10, <1>p, <1>s DEF ExtractFails, ExtractStatuses
<1>11. ASSUME NEW r \in Requests, ExtractOk(r) PROVE TypeOK'
  BY <1>11, <1>p DEF ExtractOk
<1>12. ASSUME NEW r \in Requests, UpdateRows(r) PROVE TypeOK'
  BY <1>12, <1>p DEF UpdateRows, Superseded
<1>13. ASSUME NEW r \in Requests, Commit(r) PROVE TypeOK'
  BY <1>13, <1>p DEF Commit, CommitRows
<1>14. ASSUME NEW r \in Requests, PersistFails(r) PROVE TypeOK'
  <2>1. row' \in [Requests -> {"none", "active", "deleted"}]
    BY <1>14 DEF PersistFails, CommitRows
  <2>2. /\ pc' \in [Requests -> PC] /\ gone' \in [Requests -> BOOLEAN]
        /\ victims' \in [Requests -> SUBSET Requests]
        /\ status' \in [Requests -> Statuses] /\ dbErr' \in [Requests -> BOOLEAN]
    BY <1>14, <1>p, <1>s DEF PersistFails
  <2>3. UNCHANGED <<inp, got, cache, used, consented, extracted, made, charged>>
    BY <1>14 DEF PersistFails
  <2> QED
    BY <2>1, <2>2, <2>3
<1>15. ASSUME NEW r \in Requests, CacheSet(r) PROVE TypeOK'
  <2>1. got[r] \in Requests
    BY <1>15 DEF CacheSet, HoldsResult
  <2> QED
    BY <1>15, <2>1, <1>p, <1>s, <1>i DEF CacheSet
<1>16. ASSUME NEW r \in Requests, CacheSetFails(r) PROVE TypeOK'
  BY <1>16, <1>p, <1>s DEF CacheSetFails
<1>17. CASE Crash
  BY <1>17, <1>p DEF Crash
<1>18. ASSUME NEW k \in Keys, Expire(k) \/ Spoil(k) PROVE TypeOK'
  BY <1>18 DEF Expire, Spoil, request
<1>19. CASE NextWindow
  BY <1>19 DEF NextWindow, request
<1>20. CASE UNCHANGED vars
  BY <1>20 DEF vars, request
<1> QED
  BY <1>1, <1>2, <1>3, <1>4, <1>5, <1>6, <1>7, <1>8, <1>9, <1>10, <1>11, <1>12,
     <1>13, <1>14, <1>15, <1>16, <1>17, <1>18, <1>19, <1>20 DEF Next, Step

-----------------------------------------------------------------------------
LEMMA InvInit == Init => IInv
  BY TypeInit DEF Init, IInv, HoldsResult, RowsOnTime, ResultsMatch, VictimsOwned,
     CachedHasRow

\* A step of r that leaves inputs, results, rows and cache alone keeps the
\* invariant if it moves r forward without skipping the commit.
LEMMA Frame ==
  ASSUME IInv, TypeOK', NEW r \in Requests,
         UNCHANGED <<inp, got, made, row, cache>>,
         \A q \in Requests \ {r} : /\ pc'[q] = pc[q] /\ status'[q] = status[q]
                                   /\ victims'[q] = victims[q],
         victims'[r] \subseteq victims[r],
         pc[r] = pc'[r] \/ victims'[r] = {},
         status'[r] # 0 => pc'[r] = "done",
         status'[r] = 200 => got[r] \in Requests,
         \/ pc'[r] = pc[r]
         \/ /\ pc[r] \in {"consent", "lookup", "limit"}
            /\ pc'[r] \in {"lookup", "limit", "extract"}
         \/ pc'[r] = "done"
  PROVE  IInv'
<1>1. HoldsResult'
  BY DEF IInv, HoldsResult
<1>2. RowsOnTime'
  BY DEF IInv, RowsOnTime
<1>3. ResultsMatch' /\ CachedHasRow'
  BY DEF IInv, ResultsMatch, CachedHasRow
<1>4. VictimsOwned'
  BY DEF IInv, VictimsOwned
<1> QED
  BY <1>1, <1>2, <1>3, <1>4 DEF IInv

\* A cache entry may go at any time.
LEMMA CacheShrinks ==
  ASSUME CachedHasRow, UNCHANGED <<inp, got, row>>, NEW k \in Keys,
         cache' = [cache EXCEPT ![k] = NoEntry] \/ cache' = [cache EXCEPT ![k] = Corrupt],
         TypeOK
  PROVE  CachedHasRow'
<1>1. \A j \in Keys : cache'[j] \in Requests => cache'[j] = cache[j]
  BY DEF TypeOK
<1> QED
  BY <1>1 DEF CachedHasRow

LEMMA InvNext == IInv /\ [Next]_vars => IInv'
<1> SUFFICES ASSUME IInv, [Next]_vars PROVE IInv'
  OBVIOUS
<1>t. TypeOK /\ TypeOK'
  BY TypeNext DEF IInv
<1> USE DEF Goto, Answer, history
<1>1. ASSUME NEW r \in Requests, NEW i \in Inputs, Arrive(r, i) PROVE IInv'
  <2>1. /\ pc[r] = "new" /\ inp' = [inp EXCEPT ![r] = i]
        /\ pc'[r] \in {"consent", "done"} /\ status'[r] # 200
        /\ status'[r] # 0 => pc'[r] = "done"
        /\ \A q \in Requests \ {r} : pc'[q] = pc[q] /\ status'[q] = status[q]
                                     /\ inp'[q] = inp[q]
        /\ UNCHANGED <<got, made, row, cache, victims>>
    BY <1>1, <1>t, AdmissionFacts DEF Arrive, TypeOK
  <2>2. got[r] = None /\ made[r] = 0 /\ row[r] = "none" /\ victims[r] = {}
    BY <2>1, <1>t DEF IInv, HoldsResult, RowsOnTime, VictimsOwned, TypeOK
  <2>3. \A q \in Requests : got[q] # r
    BY <2>2 DEF IInv, ResultsMatch
  <2>4. HoldsResult' /\ RowsOnTime'
    BY <2>1, <2>2 DEF IInv, HoldsResult, RowsOnTime
  <2>5. ResultsMatch' /\ CachedHasRow'
    BY <2>1, <2>2, <2>3, <1>t DEF IInv, ResultsMatch, CachedHasRow, TypeOK
  <2>6. VictimsOwned'
    BY <2>1, <2>2, <1>t DEF IInv, VictimsOwned, TypeOK
  <2> QED
    BY <1>t, <2>4, <2>5, <2>6 DEF IInv
<1>2. ASSUME NEW r \in Requests, Disconnect(r) PROVE IInv'
  BY <1>2, <1>t, Frame DEF Disconnect, IInv, HoldsResult, VictimsOwned
<1>3. ASSUME NEW r \in Requests, ConsentStored(r) PROVE IInv'
  <2>1. victims[r] = {} /\ status[r] = 0
    BY <1>3, <1>t DEF ConsentStored, IInv, HoldsResult, VictimsOwned, TypeOK
  <2> QED
    BY <1>3, <2>1, <1>t, Frame DEF ConsentStored, TypeOK
<1>4. ASSUME NEW r \in Requests, ConsentFailed(r) PROVE IInv'
  <2>1. victims[r] = {} /\ status[r] = 0
    BY <1>4, <1>t DEF ConsentFailed, IInv, HoldsResult, VictimsOwned, TypeOK
  <2> QED
    BY <1>4, <2>1, <1>t, Frame DEF ConsentFailed, TypeOK
<1>5. ASSUME NEW r \in Requests, LookupHit(r) PROVE IInv'
  <2> DEFINE k == CacheKey(inp[r])
             v == cache[k]
  <2>1. /\ pc[r] = "lookup" /\ pc'[r] = "commit" /\ got' = [got EXCEPT ![r] = v]
        /\ \A q \in Requests \ {r} : pc'[q] = pc[q] /\ got'[q] = got[q]
        /\ got'[r] = v /\ v \in Requests
        /\ UNCHANGED <<inp, made, row, cache, victims, status>>
    BY <1>5, <1>t DEF LookupHit, AtLookup, Decodes, TypeOK
  <2>2. row[r] = "none" /\ victims[r] = {} /\ status[r] = 0
    BY <2>1, <1>t DEF IInv, HoldsResult, RowsOnTime, VictimsOwned, TypeOK
  <2>3. k \in Keys /\ k[1] = inp[r].doc /\ k[2] = inp[r].sha
    BY <1>t, InputFacts DEF TypeOK, CacheKey
  <2>4. made[v] > 0 /\ inp[v].doc = inp[r].doc /\ inp[v].sha = inp[r].sha
    <3>1. PICK w \in Requests : got[w] = v /\ inp[w].doc = k[1] /\ inp[w].sha = k[2]
      BY <2>1, <2>3 DEF IInv, CachedHasRow
    <3> QED
      BY <3>1, <2>1, <2>3 DEF IInv, ResultsMatch
  <2>5. HoldsResult' /\ RowsOnTime'
    BY <2>1, <2>2 DEF IInv, HoldsResult, RowsOnTime
  <2>6. ResultsMatch'
    BY <2>1, <2>4 DEF IInv, ResultsMatch
  <2>7. CachedHasRow'
    BY <2>1, <2>2 DEF IInv, CachedHasRow
  <2>8. VictimsOwned'
    BY <2>1, <2>2 DEF IInv, VictimsOwned
  <2> QED
    BY <1>t, <2>5, <2>6, <2>7, <2>8 DEF IInv
<1>6. ASSUME NEW r \in Requests, LookupMiss(r) PROVE IInv'
  <2>1. victims[r] = {} /\ status[r] = 0 /\ pc[r] = "lookup"
    BY <1>6, <1>t DEF LookupMiss, AtLookup, IInv, HoldsResult, VictimsOwned, TypeOK
  <2> QED
    BY <1>6, <2>1, <1>t, Frame DEF LookupMiss, TypeOK
<1>7. ASSUME NEW r \in Requests, InvalidateFailed(r) PROVE IInv'
  <2>1. victims[r] = {} /\ status[r] = 0
    BY <1>7, <1>t DEF InvalidateFailed, IInv, HoldsResult, VictimsOwned, TypeOK
  <2> QED
    BY <1>7, <2>1, <1>t, Frame DEF InvalidateFailed, TypeOK
<1>8. ASSUME NEW r \in Requests, LookupCorrupt(r) \/ Invalidated(r) PROVE IInv'
  <2>1. /\ pc[r] = "lookup" /\ pc'[r] = "limit"
        /\ \A q \in Requests \ {r} : pc'[q] = pc[q]
        /\ cache' = [cache EXCEPT ![CacheKey(inp[r])] = NoEntry]
        /\ UNCHANGED <<inp, got, made, row, victims, status>>
    BY <1>8, <1>t DEF LookupCorrupt, Invalidated, AtLookup, TypeOK
  <2>2. CachedHasRow'
    BY <2>1, <1>t, CacheShrinks, InputFacts DEF IInv, TypeOK
  <2>3. HoldsResult' /\ RowsOnTime' /\ ResultsMatch' /\ VictimsOwned'
    BY <2>1 DEF IInv, HoldsResult, RowsOnTime, ResultsMatch, VictimsOwned
  <2> QED
    BY <1>t, <2>2, <2>3 DEF IInv
<1>9. ASSUME NEW r \in Requests, LimitAdmits(r) PROVE IInv'
  <2>1. victims[r] = {} /\ status[r] = 0
    BY <1>9, <1>t DEF LimitAdmits, IInv, HoldsResult, VictimsOwned, TypeOK
  <2> QED
    BY <1>9, <2>1, <1>t, Frame DEF LimitAdmits, TypeOK
<1>10. ASSUME NEW r \in Requests, LimitRefuses(r) PROVE IInv'
  BY <1>10, <1>t, Frame DEF LimitRefuses, TypeOK
<1>11. ASSUME NEW r \in Requests, LimitUnavailable(r) PROVE IInv'
  BY <1>11, <1>t, Frame DEF LimitUnavailable, TypeOK
<1>12. ASSUME NEW r \in Requests, ExtractFails(r) PROVE IInv'
  <2>1. PICK s \in ExtractStatuses : Answer(r, s)
    BY <1>12, Zenon DEF ExtractFails
  <2>2. s # 200
    BY DEF ExtractStatuses
  <2> QED
    BY <1>12, <2>1, <2>2, <1>t, Frame DEF ExtractFails, TypeOK
<1>13. ASSUME NEW r \in Requests, ExtractOk(r) PROVE IInv'
  <2>1. /\ pc[r] = "extract" /\ pc'[r] \in {"update", "commit"}
        /\ \A q \in Requests \ {r} : /\ pc'[q] = pc[q] /\ got'[q] = got[q]
                                     /\ made'[q] = made[q]
        /\ got'[r] = r /\ made'[r] > 0
        /\ UNCHANGED <<inp, row, cache, victims, status>>
    BY <1>13, <1>t DEF ExtractOk, TypeOK
  <2>2. row[r] = "none" /\ victims[r] = {} /\ status[r] = 0
    BY <2>1, <1>t DEF IInv, HoldsResult, RowsOnTime, VictimsOwned, TypeOK
  <2>3. HoldsResult' /\ RowsOnTime'
    BY <2>1, <2>2 DEF IInv, HoldsResult, RowsOnTime
  <2>4. ResultsMatch'
    BY <2>1 DEF IInv, ResultsMatch
  <2>5. CachedHasRow'
    BY <2>1, <2>2 DEF IInv, CachedHasRow
  <2>6. VictimsOwned'
    BY <2>1, <2>2 DEF IInv, VictimsOwned
  <2> QED
    BY <1>t, <2>3, <2>4, <2>5, <2>6 DEF IInv
<1>14. ASSUME NEW r \in Requests, UpdateRows(r) PROVE IInv'
  <2>1. /\ pc[r] = "update" /\ pc'[r] = "commit"
        /\ \A q \in Requests \ {r} : pc'[q] = pc[q] /\ victims'[q] = victims[q]
        /\ victims'[r] = Superseded(r)
        /\ UNCHANGED <<inp, got, made, row, cache, status>>
    BY <1>14, <1>t DEF UpdateRows, TypeOK
  <2>2. HoldsResult' /\ RowsOnTime' /\ ResultsMatch' /\ CachedHasRow'
    BY <2>1 DEF IInv, HoldsResult, RowsOnTime, ResultsMatch, CachedHasRow
  <2>3. VictimsOwned'
    BY <2>1 DEF IInv, VictimsOwned, Superseded
  <2> QED
    BY <1>t, <2>2, <2>3 DEF IInv
<1>15. ASSUME NEW r \in Requests, pc[r] = "commit", CommitRows(r),
              pc'[r] \in {"set", "done"},
              \A q \in Requests \ {r} : /\ pc'[q] = pc[q] /\ victims'[q] = victims[q]
                                        /\ status'[q] = status[q],
              victims'[r] = {}, status'[r] # 0 => pc'[r] = "done",
              UNCHANGED <<inp, got, made, cache>>
       PROVE  IInv'
  <2>1. /\ row'[r] = "active" /\ got[r] \in Requests
        /\ \A q \in Requests : row[q] # "none" => row'[q] # "none"
        /\ \A q \in Requests \ {r} : row'[q] # "none" => row[q] # "none"
    BY <1>15, <1>t DEF CommitRows, IInv, HoldsResult, VictimsOwned, TypeOK
  <2>2. HoldsResult'
    BY <1>15, <2>1 DEF IInv, HoldsResult
  <2>3. RowsOnTime'
    BY <1>15, <2>1 DEF IInv, RowsOnTime
  <2>4. ResultsMatch' /\ CachedHasRow'
    BY <1>15, <2>1 DEF IInv, ResultsMatch, CachedHasRow
  <2>5. VictimsOwned'
    <3> SUFFICES ASSUME NEW q \in Requests, NEW x \in victims'[q]
                 PROVE  /\ pc'[q] = "commit" /\ row'[x] # "none"
                        /\ inp[x].doc = inp[q].doc /\ inp[x].sha = inp[q].sha
                        /\ Owner(inp[x]) = Owner(inp[q])
      BY <1>15 DEF VictimsOwned
    <3>1. q # r /\ x \in victims[q] /\ x \in Requests
      BY <1>15, <1>t DEF TypeOK
    <3> QED
      BY <1>15, <2>1, <3>1 DEF IInv, VictimsOwned
  <2> QED
    BY <1>t, <2>2, <2>3, <2>4, <2>5 DEF IInv
<1>16. ASSUME NEW r \in Requests, Commit(r) PROVE IInv'
  <2>1. status[r] = 0
    BY <1>16 DEF Commit, IInv, HoldsResult
  <2> QED
    BY <1>15, <1>16, <2>1, <1>t DEF Commit, TypeOK
<1>17. ASSUME NEW r \in Requests, PersistFails(r) PROVE IInv'
  <2>1. got[r] \in Requests
    BY <1>17 DEF PersistFails, IInv, HoldsResult
  <2>2. CASE row' = row
    BY <1>17, <2>1, <2>2, <1>t, Frame DEF PersistFails, TypeOK
  <2>3. CASE pc[r] = "commit" /\ CommitRows(r)
    BY <1>15, <1>17, <2>3, <1>t DEF PersistFails, TypeOK
  <2> QED
    BY <1>17, <2>2, <2>3 DEF PersistFails
<1>18. ASSUME NEW r \in Requests, CacheSet(r) PROVE IInv'
  <2> DEFINE k == CacheKey(inp[r])
  <2>1. /\ pc[r] = "set" /\ pc'[r] = "done" /\ status'[r] = 200 /\ victims'[r] = {}
        /\ \A q \in Requests \ {r} : /\ pc'[q] = pc[q] /\ victims'[q] = victims[q]
                                     /\ status'[q] = status[q]
        /\ UNCHANGED <<inp, got, made, row>>
    BY <1>18, <1>t DEF CacheSet, TypeOK
  <2>2. /\ k \in Keys /\ k[1] = inp[r].doc /\ k[2] = inp[r].sha
        /\ cache'[k] = got[r] /\ \A j \in Keys \ {k} : cache'[j] = cache[j]
    BY <1>18, <1>t, InputFacts DEF CacheSet, TypeOK, CacheKey
  <2>3. row[r] # "none" /\ got[r] \in Requests
    BY <2>1 DEF IInv, RowsOnTime, HoldsResult
  <2>4. CachedHasRow'
    BY <2>1, <2>2, <2>3 DEF IInv, CachedHasRow
  <2>5. HoldsResult' /\ RowsOnTime'
    BY <2>1, <2>3 DEF IInv, HoldsResult, RowsOnTime
  <2>6. ResultsMatch' /\ VictimsOwned'
    BY <2>1 DEF IInv, ResultsMatch, VictimsOwned
  <2> QED
    BY <1>t, <2>4, <2>5, <2>6 DEF IInv
<1>19. ASSUME NEW r \in Requests, CacheSetFails(r) PROVE IInv'
  <2>1. got[r] \in Requests
    BY <1>19 DEF CacheSetFails, IInv, HoldsResult
  <2> QED
    BY <1>19, <2>1, <1>t, Frame DEF CacheSetFails, TypeOK
<1>20. CASE Crash
  <2>1. /\ UNCHANGED <<inp, got, made, row, cache, status>>
        /\ \A q \in Requests : /\ victims'[q] = {}
                               /\ pc'[q] = pc[q] \/ pc'[q] = "dead"
                               /\ pc[q] = "done" => pc'[q] = "done"
    BY <1>20 DEF Crash, InFlight, PC
  <2>2. HoldsResult' /\ RowsOnTime' /\ VictimsOwned'
    BY <2>1 DEF IInv, HoldsResult, RowsOnTime, VictimsOwned
  <2>3. ResultsMatch' /\ CachedHasRow'
    BY <2>1 DEF IInv, ResultsMatch, CachedHasRow
  <2> QED
    BY <1>t, <2>2, <2>3 DEF IInv
<1>21. ASSUME NEW k \in Keys, Expire(k) \/ Spoil(k) PROVE IInv'
  <2>1. /\ UNCHANGED <<inp, got, made, row, victims, status, pc>>
        /\ \/ cache' = [cache EXCEPT ![k] = NoEntry]
           \/ cache' = [cache EXCEPT ![k] = Corrupt]
    BY <1>21 DEF Expire, Spoil, request
  <2>2. CachedHasRow'
    BY <2>1, <1>t, CacheShrinks DEF IInv
  <2> QED
    BY <2>1, <2>2, <1>t DEF IInv, HoldsResult, RowsOnTime, ResultsMatch, VictimsOwned
<1>22. CASE NextWindow \/ UNCHANGED vars
  <2>1. UNCHANGED <<inp, got, made, row, victims, status, pc, cache>>
    BY <1>22 DEF NextWindow, vars, request
  <2> QED
    BY <2>1, <1>t DEF IInv, HoldsResult, RowsOnTime, ResultsMatch, VictimsOwned,
       CachedHasRow
<1> QED
  BY <1>1, <1>2, <1>3, <1>4, <1>5, <1>6, <1>7, <1>8, <1>9, <1>10, <1>11, <1>12,
     <1>13, <1>14, <1>16, <1>17, <1>18, <1>19, <1>20, <1>21, <1>22 DEF Next, Step

LEMMA InvAlways == Spec => []IInv
  BY InvInit, InvNext, PTL DEF Spec

\* The variables keep their types; above all, what the cache is decoded to is
\* a result.
THEOREM TypeCorrect == Spec => []TypeOK
<1>1. IInv => TypeOK
  BY DEF IInv
<1> QED
  BY <1>1, InvAlways, PTL

\* Through every crash, lost write and interleaving: no cached result without
\* a row.
THEOREM CacheIsBacked == Spec => []CachedHasRow
<1>1. IInv => CachedHasRow
  BY DEF IInv
<1> QED
  BY <1>1, InvAlways, PTL

\* A 200 never carries the result of another document.
THEOREM ResponsesMatch == Spec => []ResponseIsForUpload
<1>1. IInv => ResponseIsForUpload
  BY DEF IInv, HoldsResult, ResultsMatch, ResponseIsForUpload
<1> QED
  BY <1>1, InvAlways, PTL

-----------------------------------------------------------------------------
(***************************************************************************)
(* The refinement: the commit of a request's transaction is a step of the  *)
(* ledger, every other step leaves the ledger alone.                       *)
(***************************************************************************)
Bar == [r \in Requests |-> RowOf(r)]

\* A step that changes no row, and no input of a request that has one.
LEMMA RowsKept ==
  ASSUME row' = row, \A q \in Requests : row[q] # "none" => inp'[q] = inp[q]
  PROVE  Bar' = Bar
<1>1. \A q \in Requests : RowOf(q)' = RowOf(q)
  BY DEF RowOf
<1> QED
  BY <1>1 DEF Bar

\* The commit of r.
LEMMA CommitAppends ==
  ASSUME IInv, NEW r \in Requests, pc[r] = "commit", CommitRows(r), inp' = inp
  PROVE  Promise!Append(r)
<1>t. /\ row \in [Requests -> {"none", "active", "deleted"}]
      /\ \A q \in Requests : inp[q] \in Inputs
  BY DEF IInv, TypeOK
<1>1. row[r] = "none" /\ row'[r] = "active"
  BY <1>t DEF IInv, RowsOnTime, CommitRows
<1>2. \A q \in Requests : /\ Owner(inp[q]) \in STRING
                          /\ <<inp[q].doc, inp[q].sha>> \in Keys
  BY <1>t, InputFacts DEF CacheKey
<1>3. \A q \in Requests : row[q] # "none" => RowOf(q) \in Promise!Row
  BY <1>2, <1>t DEF RowOf, Promise!Row
<1>4. RowOf(r)' = [owner |-> Owner(inp[r]), doc |-> <<inp[r].doc, inp[r].sha>>,
                   live |-> TRUE]
  BY <1>1 DEF RowOf
<1>5. ASSUME NEW q \in Requests \ {r}
      PROVE  \/ RowOf(q)' = RowOf(q)
             \/ /\ RowOf(q) \in Promise!Row /\ RowOf(q).live
                /\ RowOf(q).owner = Owner(inp[r])
                /\ RowOf(q).doc = <<inp[r].doc, inp[r].sha>>
                /\ RowOf(q)' = [owner |-> Owner(inp[r]),
                                doc |-> <<inp[r].doc, inp[r].sha>>, live |-> FALSE]
  <2>1. CASE q \notin victims[r]
    <3>1. row'[q] = row[q]
      BY <2>1, <1>t DEF CommitRows
    <3> QED
      BY <3>1 DEF RowOf
  <2>2. CASE q \in victims[r]
    <3>1. /\ row'[q] = "deleted" /\ row[q] \in {"active", "deleted"}
          /\ inp[q].doc = inp[r].doc /\ inp[q].sha = inp[r].sha
          /\ Owner(inp[q]) = Owner(inp[r])
      BY <2>2, <1>t DEF CommitRows, IInv, VictimsOwned
    <3>2. CASE row[q] = "deleted"
      BY <3>1, <3>2 DEF RowOf
    <3>3. CASE row[q] = "active"
      <4>1. RowOf(q) = [owner |-> Owner(inp[r]), doc |-> <<inp[r].doc, inp[r].sha>>,
                        live |-> TRUE]
        BY <3>1, <3>3 DEF RowOf
      <4>2. RowOf(q)' = [owner |-> Owner(inp[r]), doc |-> <<inp[r].doc, inp[r].sha>>,
                         live |-> FALSE]
        BY <3>1 DEF RowOf
      <4>3. RowOf(q) \in Promise!Row
        BY <1>3, <3>3
      <4>4. /\ RowOf(q).live /\ RowOf(q).owner = Owner(inp[r])
            /\ RowOf(q).doc = <<inp[r].doc, inp[r].sha>>
        BY <4>1
      <4> QED
        BY <4>2, <4>3, <4>4
    <3> QED
      BY <3>1, <3>2, <3>3
  <2> QED
    BY <2>1, <2>2
<1>6. RowOf(r)' \in Promise!Row
  BY <1>4, <1>2 DEF Promise!Row
<1>7. RowOf(r) = NoRow
  BY <1>1 DEF RowOf
<1>8. \A q \in Requests : Bar[q] = RowOf(q) /\ Bar'[q] = RowOf(q)'
  BY DEF Bar
<1>9. Bar[r] = NoRow /\ Bar'[r] \in Promise!Row
  BY <1>6, <1>7, <1>8
<1>10. /\ Bar'[r].live /\ Bar'[r].owner = Owner(inp[r])
       /\ Bar'[r].doc = <<inp[r].doc, inp[r].sha>>
  <2>1. Bar'[r] = [owner |-> Owner(inp[r]), doc |-> <<inp[r].doc, inp[r].sha>>,
                   live |-> TRUE]
    BY <1>4, <1>8
  <2> QED
    BY <2>1
<1>11. ASSUME NEW q \in Requests \ {r}
       PROVE  \/ Bar'[q] = Bar[q]
              \/ /\ Bar[q] \in Promise!Row /\ Bar[q].live
                 /\ Bar[q].owner = Bar'[r].owner /\ Bar[q].doc = Bar'[r].doc
                 /\ Bar'[q] = [owner |-> Bar'[r].owner, doc |-> Bar'[r].doc,
                               live |-> FALSE]
  <2>1. Bar[q] = RowOf(q) /\ Bar'[q] = RowOf(q)'
    BY <1>8
  <2> QED
    BY <1>5, <1>10, <2>1
<1>12. Bar' = [q \in Requests |-> Bar'[q]]
  BY DEF Bar
<1> QED
  BY <1>9, <1>10, <1>11, <1>12 DEF Promise!Append, Promise!RetiredOrSame, Bar

LEMMA StepRefines == IInv /\ [Next]_vars => [Promise!Next]_Bar
<1> SUFFICES ASSUME IInv, [Next]_vars PROVE [Promise!Next]_Bar
  OBVIOUS
<1> DEFINE Kept == row' = row /\ \A q \in Requests : row[q] # "none" => inp'[q] = inp[q]
<1>1. CASE Kept
  BY <1>1, RowsKept
<1>2. CASE \E r \in Requests : pc[r] = "commit" /\ CommitRows(r) /\ inp' = inp
  BY <1>2, CommitAppends DEF Promise!Next
<1>3. ASSUME NEW r \in Requests, NEW i \in Inputs, Arrive(r, i) PROVE Kept
  <2>1. row[r] = "none"
    BY <1>3 DEF Arrive, IInv, RowsOnTime
  <2> QED
    BY <1>3, <2>1 DEF Arrive, IInv, TypeOK
<1>4. ASSUME NEW r \in Requests, Step(r), ~Commit(r), ~PersistFails(r) PROVE Kept
  BY <1>4 DEF Step, ConsentStored, ConsentFailed, LookupHit, LookupMiss,
     LookupCorrupt, Invalidated, InvalidateFailed, LimitAdmits, LimitRefuses,
     LimitUnavailable, ExtractFails, ExtractOk, UpdateRows, CacheSet, CacheSetFails
<1>5. ASSUME NEW r \in Requests, Commit(r) \/ PersistFails(r)
      PROVE  Kept \/ (pc[r] = "commit" /\ CommitRows(r) /\ inp' = inp)
  BY <1>5 DEF Commit, PersistFails
<1>6. CASE \/ \E r \in Requests : Disconnect(r)
           \/ Crash \/ NextWindow \/ UNCHANGED vars
           \/ \E k \in Keys : Expire(k) \/ Spoil(k)
  <2>1. Kept
    BY <1>6 DEF Disconnect, Crash, NextWindow, Expire, Spoil, vars, request
  <2> QED
    BY <2>1, <1>1
<1> QED
  BY <1>1, <1>2, <1>3, <1>4, <1>5, <1>6 DEF Next

\* ExtractHandler implements Ledger: under any interleaving, failure and crash
\* a user's row is retired only together with the arrival of its successor.
THEOREM LedgerImplemented == Spec => ImplementsLedger
<1>1. Init => Promise!Init
  BY DEF Init, Promise!Init, RowOf
<1>2. Spec => [][Promise!Next]_Bar
  BY InvAlways, StepRefines, PTL DEF Spec
<1> QED
  BY <1>1, <1>2, PTL DEF ImplementsLedger, Promise!Spec, Spec, Bar

-----------------------------------------------------------------------------
(***************************************************************************)
(* What each request leaves behind.  Traced is inductive beside IInv: that *)
(* a charge or a row was admitted is remembered by the request's place,    *)
(* and that a hit is free by the order of lookup and quota.                *)
(***************************************************************************)

\* The answer tells whether the request's row and result exist.
AnswerTold(r) ==
    /\ status[r] = 200 /\ ~dbErr[r] => row[r] # "none"
    /\ status[r] \notin {0, 200} => row[r] = "none" /\ made[r] = 0

\* Only an admitted request is in progress or leaves a trace.
TraceAdmitted(r) ==
    pc[r] \in InFlight \/ row[r] # "none" \/ consented[r] \/ charged[r] # None =>
        pc[r] # "new" /\ Admission(inp[r]) = 0

\* The quota is charged once, between the lookup and the extraction.
ChargeInOrder(r) ==
    /\ pc[r] \in {"new", "consent", "lookup", "limit"} => charged[r] = None
    /\ pc[r] = "extract" \/ made[r] > 0 => charged[r] = Payer(inp[r])
    /\ Hit(r) => charged[r] = None

TracedAt(r) == AnswerTold(r) /\ TraceAdmitted(r) /\ ChargeInOrder(r)
Traced == \A r \in Requests : TracedAt(r)

LEMMA TracedInit == Init => Traced
  BY DEF Init, Traced, TracedAt, AnswerTold, TraceAdmitted, ChargeInOrder, InFlight, PC, Hit

\* A step leaves q as it is, or retires the row that q has.
Untouched(q) ==
    /\ pc'[q] = pc[q] /\ inp'[q] = inp[q] /\ got'[q] = got[q] /\ status'[q] = status[q]
    /\ consented'[q] = consented[q] /\ made'[q] = made[q] /\ charged'[q] = charged[q]
    /\ dbErr'[q] = dbErr[q] /\ (row'[q] = "none" <=> row[q] = "none")

LEMMA TracedKept ==
  ASSUME NEW q \in Requests, TracedAt(q), Untouched(q)
  PROVE  TracedAt(q)'
  BY DEF TracedAt, AnswerTold, TraceAdmitted, ChargeInOrder, Untouched, Hit

\* A step of r alone.
LEMMA TracedStep ==
  ASSUME Traced, NEW r \in Requests, \A q \in Requests \ {r} : Untouched(q), TracedAt(r)'
  PROVE  Traced'
  BY TracedKept DEF Traced

LEMMA TracedNext == IInv /\ Traced /\ [Next]_vars => Traced'
<1> SUFFICES ASSUME IInv, Traced, [Next]_vars PROVE Traced'
  OBVIOUS
<1>t. TypeOK
  BY DEF IInv
<1>i. {"consent", "lookup", "limit", "extract", "update", "commit", "set"} = InFlight
  BY DEF InFlight, PC
<1> USE DEF Goto, Answer, history, Untouched
<1>1. ASSUME NEW r \in Requests, NEW i \in Inputs, Arrive(r, i) PROVE Traced'
  <2>1. /\ made[r] = 0 /\ got[r] = None /\ row[r] = "none" /\ ~consented[r]
        /\ charged[r] = None /\ pc[r] = "new"
    BY <1>1, <1>t DEF Arrive, IInv, HoldsResult, RowsOnTime, Traced, TracedAt,
       TraceAdmitted, TypeOK
  <2>2. /\ inp'[r] = i /\ status'[r] = Admission(i) /\ Admission(i) # 200
        /\ pc'[r] = IF Admission(i) = 0 THEN "consent" ELSE "done"
        /\ UNCHANGED <<got, row, consented, made, charged, dbErr>>
    BY <1>1, <1>t, AdmissionFacts DEF Arrive, TypeOK
  <2>3. TracedAt(r)'
    BY <2>1, <2>2, <1>i DEF TracedAt, AnswerTold, TraceAdmitted, ChargeInOrder, Hit
  <2> QED
    BY <1>1, <1>t, <2>3, TracedStep DEF Arrive, TypeOK
<1>2. ASSUME NEW r \in Requests,
             \/ ConsentStored(r) \/ ConsentFailed(r) \/ LookupMiss(r) \/ LookupCorrupt(r)
             \/ Invalidated(r) \/ InvalidateFailed(r)
      PROVE  Traced'
  <2>1. /\ pc[r] \in {"consent", "lookup"} /\ pc'[r] \in {"lookup", "limit"}
        /\ UNCHANGED <<inp, got, status, row, made, charged, dbErr>>
        /\ \A q \in Requests \ {r} : pc'[q] = pc[q] /\ consented'[q] = consented[q]
    BY <1>2, <1>t DEF ConsentStored, ConsentFailed, AtLookup, LookupMiss, LookupCorrupt,
       Invalidated, InvalidateFailed, TypeOK
  <2>2. TracedAt(r)'
    BY <2>1, <1>i DEF Traced, TracedAt, AnswerTold, TraceAdmitted, ChargeInOrder, Hit
  <2> QED
    BY <2>1, <2>2, TracedStep
<1>3. ASSUME NEW r \in Requests, LookupHit(r) PROVE Traced'
  <2>1. /\ pc[r] = "lookup" /\ pc'[r] = "commit" /\ charged[r] = None
        /\ UNCHANGED <<inp, status, row, consented, made, charged, dbErr>>
        /\ \A q \in Requests \ {r} : pc'[q] = pc[q] /\ got'[q] = got[q]
    BY <1>3, <1>t DEF LookupHit, AtLookup, TypeOK, Traced, TracedAt, ChargeInOrder
  <2>2. made[r] = 0
    BY <2>1 DEF IInv, HoldsResult
  <2>3. TracedAt(r)'
    BY <2>1, <2>2, <1>i DEF Traced, TracedAt, AnswerTold, TraceAdmitted, ChargeInOrder
  <2> QED
    BY <2>1, <2>3, TracedStep
<1>4. ASSUME NEW r \in Requests, LimitAdmits(r) PROVE Traced'
  <2>1. /\ pc[r] = "limit" /\ pc'[r] = "extract" /\ charged'[r] = Payer(inp[r])
        /\ UNCHANGED <<inp, got, status, row, consented, made, dbErr>>
        /\ \A q \in Requests \ {r} : pc'[q] = pc[q] /\ charged'[q] = charged[q]
    BY <1>4, <1>t DEF LimitAdmits, TypeOK
  <2>2. got[r] = None
    BY <2>1 DEF IInv, HoldsResult
  <2>3. TracedAt(r)'
    BY <2>1, <2>2, <1>i DEF Traced, TracedAt, AnswerTold, TraceAdmitted, ChargeInOrder, Hit
  <2> QED
    BY <2>1, <2>3, TracedStep
<1>5. ASSUME NEW r \in Requests, LimitRefuses(r) \/ LimitUnavailable(r) \/ ExtractFails(r)
      PROVE  Traced'
  <2>1. /\ pc[r] \in {"limit", "extract"} /\ pc'[r] = "done"
        /\ UNCHANGED <<inp, got, row, consented, made, charged, dbErr>>
        /\ \A q \in Requests \ {r} : pc'[q] = pc[q] /\ status'[q] = status[q]
    BY <1>5, <1>t DEF LimitRefuses, LimitUnavailable, ExtractFails, TypeOK
  <2>2. status'[r] \in {400, 429, 502}
    BY <1>5, <1>t DEF LimitRefuses, LimitUnavailable, ExtractFails, ExtractStatuses, TypeOK
  <2>3. row[r] = "none" /\ made[r] = 0
    BY <2>1 DEF IInv, HoldsResult, RowsOnTime
  <2>4. TracedAt(r)'
    BY <2>1, <2>2, <2>3, <1>i
       DEF Traced, TracedAt, AnswerTold, TraceAdmitted, ChargeInOrder, Hit
  <2> QED
    BY <2>1, <2>4, TracedStep
<1>6. ASSUME NEW r \in Requests, ExtractOk(r) PROVE Traced'
  <2>1. /\ pc[r] = "extract" /\ pc'[r] \in {"update", "commit"} /\ got'[r] = r
        /\ UNCHANGED <<inp, status, row, consented, charged, dbErr>>
        /\ \A q \in Requests \ {r} : /\ pc'[q] = pc[q] /\ got'[q] = got[q]
                                     /\ made'[q] = made[q]
    BY <1>6, <1>t DEF ExtractOk, TypeOK
  <2>2. status[r] = 0
    BY <2>1 DEF IInv, HoldsResult
  <2>3. TracedAt(r)'
    BY <2>1, <2>2, <1>i DEF Traced, TracedAt, AnswerTold, TraceAdmitted, ChargeInOrder, Hit
  <2> QED
    BY <2>1, <2>3, TracedStep
<1>7. ASSUME NEW r \in Requests, UpdateRows(r) \/ Disconnect(r) PROVE Traced'
  <2>1. /\ pc[r] \in InFlight /\ pc'[r] \in InFlight
        /\ pc'[r] = pc[r] \/ pc'[r] = "commit"
        /\ UNCHANGED <<inp, got, status, row, consented, made, charged, dbErr>>
        /\ \A q \in Requests \ {r} : pc'[q] = pc[q]
    BY <1>7, <1>t, <1>i DEF UpdateRows, Disconnect, TypeOK
  <2>2. TracedAt(r)'
    BY <2>1, <1>i DEF Traced, TracedAt, AnswerTold, TraceAdmitted, ChargeInOrder, Hit
  <2> QED
    BY <2>1, <2>2, TracedStep
<1>8. ASSUME NEW r \in Requests, Commit(r) \/ PersistFails(r) PROVE Traced'
  <2>1. /\ pc[r] \in {"update", "commit"} /\ pc'[r] \in {"set", "done"} /\ status[r] = 0
        /\ UNCHANGED <<inp, got, consented, made, charged>>
        /\ \A q \in Requests \ {r} : /\ pc'[q] = pc[q] /\ dbErr'[q] = dbErr[q]
                                     /\ status'[q] = status[q]
    BY <1>8, <1>t DEF Commit, PersistFails, TypeOK, IInv, HoldsResult
  <2>2. status'[r] = 0 \/ (status'[r] = 200 /\ dbErr'[r])
    BY <1>8, <2>1, <1>t DEF Commit, PersistFails, TypeOK
  <2>3. \A q \in Requests \ {r} : row'[q] = "none" <=> row[q] = "none"
    BY <1>8, <1>t DEF Commit, PersistFails, CommitRows, IInv, VictimsOwned, TypeOK
  <2>4. TracedAt(r)'
    BY <2>1, <2>2, <1>i DEF Traced, TracedAt, AnswerTold, TraceAdmitted, ChargeInOrder, Hit
  <2> QED
    BY <2>1, <2>3, <2>4, TracedStep
<1>9. ASSUME NEW r \in Requests, CacheSet(r) \/ CacheSetFails(r) PROVE Traced'
  <2>1. /\ pc[r] = "set" /\ pc'[r] = "done" /\ row[r] # "none" /\ status'[r] = 200
        /\ UNCHANGED <<inp, got, row, consented, made, charged, dbErr>>
        /\ \A q \in Requests \ {r} : pc'[q] = pc[q] /\ status'[q] = status[q]
    BY <1>9, <1>t DEF CacheSet, CacheSetFails, TypeOK, IInv, RowsOnTime
  <2>2. TracedAt(r)'
    BY <2>1, <1>i DEF Traced, TracedAt, AnswerTold, TraceAdmitted, ChargeInOrder, Hit
  <2> QED
    BY <2>1, <2>2, TracedStep
<1>10. CASE Crash
  <2>1. /\ UNCHANGED <<inp, got, status, row, consented, made, charged, dbErr>>
        /\ \A q \in Requests : \/ pc'[q] = pc[q]
                               \/ pc[q] \in InFlight /\ pc'[q] = "dead"
    BY <1>10 DEF Crash
  <2>2. ASSUME NEW q \in Requests PROVE TracedAt(q)'
    BY <2>1, <2>2, <1>i DEF Traced, TracedAt, AnswerTold, TraceAdmitted, ChargeInOrder, Hit
  <2> QED
    BY <2>2 DEF Traced
<1>11. CASE (\E k \in Keys : Expire(k) \/ Spoil(k)) \/ NextWindow \/ UNCHANGED vars
  <2>1. \A q \in Requests : Untouched(q)
    BY <1>11 DEF Expire, Spoil, NextWindow, vars, request
  <2> QED
    BY <2>1, TracedKept DEF Traced
<1> QED
  BY <1>1, <1>2, <1>3, <1>4, <1>5, <1>6, <1>7, <1>8, <1>9, <1>10, <1>11 DEF Next, Step

LEMMA TracedAlways == Spec => []Traced
  BY TracedInit, TracedNext, InvAlways, PTL DEF Spec

\* A 200 without a database error means that the user's own row was stored, on
\* a hit as well as after an extraction.
THEOREM AnswersHaveRows == Spec => []AnsweredHasOwnRow
<1>1. Traced => AnsweredHasOwnRow
  BY DEF Traced, TracedAt, AnswerTold, AnsweredHasOwnRow
<1> QED
  BY <1>1, TracedAlways, PTL

\* A refusal or a failed extraction leaves neither row nor result.
THEOREM FailuresLeaveNothing == Spec => []FailureLeavesNothing
<1>1. Traced => FailureLeavesNothing
  BY DEF Traced, TracedAt, AnswerTold, FailureLeavesNothing
<1> QED
  BY <1>1, TracedAlways, PTL

\* The two places that work out whose request it is agree.
LEMMA PayerIsOwner ==
  ASSUME NEW i
  PROVE  Payer(i) = <<i.p.kind, Owner(i)>>
  BY DEF Payer, LimiterId, Owner, ResolveActor, ForwardsUser

\* The quota that paid for an extraction is that of the row's owner, also for a
\* user whom the BFF forwards; a hit costs nobody.
THEOREM OwnersPay == Spec => []QuotaPaidByOwner
<1>1. Traced => QuotaPaidByOwner
  BY PayerIsOwner DEF Traced, TracedAt, ChargeInOrder, QuotaPaidByOwner
<1> QED
  BY <1>1, TracedAlways, PTL

\* No row, consent or charge without the scope and without the consent that
\* the document type requires, of a curriculum and of every other type.
THEOREM TracesAuthorized == Spec => []OnlyAuthorizedAndConsented
<1>1. ASSUME NEW i, Admission(i) = 0
      PROVE  /\ i.bearer /\ \E s \in i.p.scopes : s \in {"admin", "extract:write"}
             /\ i.doc = CV => i.consent = "lgpd-cv-store-v1"
             /\ i.doc # CV => i.consent \in {"lgpd-extract-v1", "yes"}
  <2>1. i.bearer /\ HasScope(i.p, "extract:write") /\ ConsentAccepted(i)
    BY <1>1 DEF Admission
  <2>2. /\ i.doc = CV => i.consent = "lgpd-cv-store-v1"
        /\ i.doc # CV => i.consent \in {"lgpd-extract-v1", "yes"}
    BY <2>1 DEF ConsentAccepted, RequiredConsentPolicy
  <2> QED
    BY <2>1, <2>2 DEF HasScope
<1>2. Traced => OnlyAuthorizedAndConsented
  BY <1>1 DEF Traced, TracedAt, TraceAdmitted, OnlyAuthorizedAndConsented
<1> QED
  BY <1>2, TracedAlways, PTL

=============================================================================
