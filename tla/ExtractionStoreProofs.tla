------------------------ MODULE ExtractionStoreProofs ------------------------
(***************************************************************************)
(* TLAPS proofs about ExtractionStore, for every finite set of calls,      *)
(* every set of users, documents and arguments, and every pool and page    *)
(* size.                                                                   *)
(***************************************************************************)
EXTENDS ExtractionStore, FiniteSetTheorems, WellFoundedInduction, TLAPS

(***************************************************************************)
(* The inductive invariant.  ReplaceSupersedes needs to know, of a call    *)
(* that is about to commit, that each row its UPDATE matched is deleted by *)
(* somebody else or held by the call (SnapshotSettled), that what it holds *)
(* is active and was matched (LocksMatched), and that a call without a row *)
(* is nobody's match (SnapshotOwned, RowsAtCommit).                        *)
(***************************************************************************)

\* A row appears only when its call ends.
RowsAtCommit == \A t \in Txns : row[t] # "none" => pc[t] = "done"

\* Rows are matched by the UPDATE, and looked at until the INSERT.
SnapshotOnTime ==
    \A t \in Txns :
        /\ todo[t] \subseteq snap[t] /\ (todo[t] # {} => pc[t] = "lock")
        /\ pc[t] \in {"idle", "begin", "update", "insert"} => snap[t] = {}

\* The UPDATE matches rows of the caller's own document only.
SnapshotOwned ==
    \A t \in Txns : \A q \in snap[t] :
        row[q] # "none" /\ arg[q].doc = arg[t].doc /\ arg[q].subject = arg[t].subject

\* What it has looked at is gone, or held.
SnapshotSettled ==
    \A t \in Txns : pc[t] \in {"lock", "commit"} =>
        \A q \in snap[t] \ todo[t] : row[q] = "deleted" \/ lock[q] = t

LocksMatched ==
    \A q \in Txns : lock[q] # NoTxn =>
        /\ row[q] = "active" /\ pc[lock[q]] \in {"lock", "commit"}
        /\ q \in snap[lock[q]]

IInv == /\ TypeOK /\ RowsAtCommit /\ SnapshotOnTime /\ SnapshotOwned
        /\ SnapshotSettled /\ LocksMatched /\ ReplaceSupersedes

USE StoreAssumption

-----------------------------------------------------------------------------

\* The creation times of the earlier rows exist: one for each, in some order.
LEMMA EarlierNumbered ==
  ASSUME NEW n, n = Cardinality(Earlier)
  PROVE  /\ n \in Nat
         /\ \E f \in [Txns -> 0..n] : /\ {f[t] : t \in Earlier} = 1..n
                                      /\ \A t \in Txns \ Earlier : f[t] = 0
<1>1. IsFiniteSet(Earlier)
  BY FS_Subset
<1>2. n \in Nat /\ ExistsBijection(1..n, Earlier)
  BY <1>1, FS_CardinalityType
<1>3. PICK g : g \in Bijection(1..n, Earlier)
  BY <1>2 DEF ExistsBijection
<1>4. /\ g \in [1..n -> Earlier]
      /\ \A a, b \in 1..n : g[a] = g[b] => a = b
      /\ \A t \in Earlier : \E a \in 1..n : g[a] = t
  BY <1>3 DEF Bijection, Injection, Surjection, IsInjective
<1> DEFINE f == [t \in Txns |-> IF t \in Earlier THEN CHOOSE a \in 1..n : g[a] = t ELSE 0]
<1>5. \A t \in Earlier : f[t] \in 1..n /\ g[f[t]] = t
  BY <1>4
<1>6. f \in [Txns -> 0..n] /\ \A t \in Txns \ Earlier : f[t] = 0
  <2>1. \A t \in Txns \ Earlier : f[t] = 0
    OBVIOUS
  <2>2. f = [t \in Txns |-> f[t]]
    OBVIOUS
  <2> HIDE DEF f
  <2>3. \A t \in Txns : f[t] \in 0..n
    BY <1>2, <1>5, <2>1
  <2> QED
    BY <2>1, <2>2, <2>3
<1>7. \A a \in 1..n : g[a] \in Earlier /\ f[g[a]] = a
  BY <1>4, <1>5
<1>8. {f[t] : t \in Earlier} = 1..n
  <2>1. \A t \in Earlier : f[t] \in 1..n
    BY <1>5
  <2>2. \A a \in 1..n : \E t \in Earlier : f[t] = a
    BY <1>7
  <2> HIDE DEF f
  <2> QED
    BY <2>1, <2>2
<1> QED
  BY <1>2, <1>6, <1>8

\* The pool: a step of t opens a transaction only if a connection is free.
InUse == {u \in Txns : pc[u] \in Open}

LEMMA PoolKept ==
  ASSUME Cardinality(InUse) <= PoolSize, NEW t \in Txns,
         \A u \in Txns \ {t} : pc'[u] = pc[u],
         \/ pc'[t] \in Open => pc[t] \in Open
         \/ Cardinality(InUse) < PoolSize
  PROVE  Cardinality(InUse') <= PoolSize
<1>1. IsFiniteSet(InUse) /\ IsFiniteSet(InUse \cup {t})
  BY FS_Subset, FS_AddElement DEF InUse
<1>2. InUse' \subseteq InUse \cup {t}
  BY DEF InUse
<1>3. /\ IsFiniteSet(InUse') /\ Cardinality(InUse') <= Cardinality(InUse \cup {t})
      /\ Cardinality(InUse \cup {t}) <= Cardinality(InUse) + 1
  BY <1>1, <1>2, FS_Subset, FS_AddElement, FS_CardinalityType
<1>4. Cardinality(InUse) \in Nat /\ Cardinality(InUse') \in Nat
      /\ Cardinality(InUse \cup {t}) \in Nat
  BY <1>1, <1>3, FS_CardinalityType
<1>5. CASE Cardinality(InUse) < PoolSize
  BY <1>3, <1>4, <1>5
<1>6. CASE pc'[t] \in Open => pc[t] \in Open
  <2>1. InUse' \subseteq InUse
    BY <1>6 DEF InUse
  <2>2. Cardinality(InUse') <= Cardinality(InUse)
    BY <2>1, <1>1, FS_Subset
  <2> QED
    BY <2>2, <1>4
<1> QED
  BY <1>5, <1>6

LEMMA TypeInit == Init => TypeOK
<1> SUFFICES ASSUME Init PROVE TypeOK
  OBVIOUS
<1>1. clock \in Nat /\ began \in [Txns -> 0..clock]
  BY EarlierNumbered DEF Init
<1>2. {t \in Txns : pc[t] \in Open} = {}
  BY DEF Init, Open
<1>3. Cardinality({t \in Txns : pc[t] \in Open}) <= PoolSize
  BY <1>2, FS_EmptySet
<1> QED
  BY <1>1, <1>3 DEF Init, TypeOK, Open

LEMMA TypeNext == TypeOK /\ [Next]_vars => TypeOK'
<1> SUFFICES ASSUME TypeOK, [Next]_vars PROVE TypeOK'
  OBVIOUS
<1> USE DEF Goto
<1>p. Cardinality(InUse) <= PoolSize
  BY DEF TypeOK, InUse
<1>q. Cardinality(InUse') <= PoolSize =>
        Cardinality({t \in Txns : pc'[t] \in Open}) <= PoolSize
  BY DEF InUse
<1>1. ASSUME NEW t \in Txns, Call(t) PROVE TypeOK'
  <2>1. Cardinality(InUse') <= PoolSize
    BY <1>1, <1>p, PoolKept DEF Call, TypeOK, Open
  <2> QED
    BY <1>1, <1>q, <2>1 DEF Call, TypeOK, Open
<1>2. ASSUME NEW t \in Txns, Begin(t) PROVE TypeOK'
  <2>1. Cardinality(InUse') <= PoolSize
    BY <1>2, <1>p, PoolKept DEF Begin, TypeOK, InUse
  <2> QED
    BY <1>2, <1>q, <2>1 DEF Begin, TypeOK, Open
<1>3. ASSUME NEW t \in Txns, Update(t) PROVE TypeOK'
  <2>1. Cardinality(InUse') <= PoolSize
    BY <1>3, <1>p, PoolKept DEF Update, TypeOK, Open
  <2> QED
    BY <1>3, <1>q, <2>1 DEF Update, TypeOK, Open, Matched
<1>4. ASSUME NEW t \in Txns, NEW q \in Txns, LockRow(t, q) PROVE TypeOK'
  BY <1>4 DEF LockRow, TypeOK
<1>5. ASSUME NEW t \in Txns, Insert(t) PROVE TypeOK'
  <2>1. Cardinality(InUse') <= PoolSize
    BY <1>5, <1>p, PoolKept DEF Insert, TypeOK, Open
  <2> QED
    BY <1>5, <1>q, <2>1 DEF Insert, TypeOK, Open
<1>6. ASSUME NEW t \in Txns, Commit(t) \/ Fail(t) PROVE TypeOK'
  <2>1. End(t)
    BY <1>6 DEF Commit, Fail
  <2>2. Cardinality(InUse') <= PoolSize
    BY <2>1, <1>p, PoolKept DEF End, TypeOK, Open
  <2>3. row' \in [Txns -> {"none", "active", "deleted"}]
    BY <1>6 DEF Commit, Fail, TypeOK
  <2> QED
    BY <1>6, <1>q, <2>1, <2>2, <2>3 DEF End, Commit, Fail, TypeOK, Open
<1>7. CASE UNCHANGED vars
  BY <1>7 DEF vars, txn, TypeOK
<1> QED
  BY <1>1, <1>2, <1>3, <1>4, <1>5, <1>6, <1>7 DEF Next, Step

-----------------------------------------------------------------------------
LEMMA InvInit == Init => IInv
<1> SUFFICES ASSUME Init PROVE IInv
  OBVIOUS
<1> QED
  BY TypeInit DEF Init, IInv, RowsAtCommit, SnapshotOnTime, SnapshotOwned,
     SnapshotSettled, LocksMatched, ReplaceSupersedes

LEMMA InvNext == IInv /\ [Next]_vars => IInv'
<1> SUFFICES ASSUME IInv, [Next]_vars PROVE IInv'
  OBVIOUS
<1>t. TypeOK /\ TypeOK'
  BY TypeNext DEF IInv
<1> USE DEF Goto, IInv
\* Steps that leave rows, locks and snapshots alone.
<1>1. ASSUME NEW t \in Txns, Call(t) \/ Begin(t) \/ Insert(t) PROVE IInv'
  <2>1. /\ UNCHANGED <<arg, todo, snap, lock, row>>
        /\ \A u \in Txns \ {t} : pc'[u] = pc[u]
        /\ row[t] = "none"
        /\ \/ /\ pc[t] \in {"idle", "begin"}
              /\ pc'[t] \in {"begin", "update", "insert"}
           \/ /\ pc[t] \in {"insert", "lock"} /\ todo[t] = {}
              /\ pc'[t] = "commit"
    BY <1>1, <1>t DEF Call, Begin, Insert, TypeOK, RowsAtCommit, SnapshotOnTime
  <2>2. \A q \in Txns : lock[q] = t => pc[t] = "lock"
    BY <2>1 DEF LocksMatched, TypeOK
  <2>3. RowsAtCommit' /\ SnapshotOnTime' /\ SnapshotOwned' /\ ReplaceSupersedes'
    BY <2>1 DEF RowsAtCommit, SnapshotOnTime, SnapshotOwned, ReplaceSupersedes
  <2>4. SnapshotSettled'
    BY <2>1 DEF SnapshotSettled, SnapshotOnTime
  <2>5. LocksMatched'
    BY <2>1, <2>2, <1>t DEF LocksMatched, TypeOK
  <2> QED
    BY <1>t, <2>3, <2>4, <2>5
<1>2. ASSUME NEW t \in Txns, Update(t) PROVE IInv'
  <2>1. /\ UNCHANGED <<arg, lock, row>>
        /\ \A u \in Txns \ {t} : /\ pc'[u] = pc[u] /\ todo'[u] = todo[u]
                                 /\ snap'[u] = snap[u]
        /\ pc[t] = "update" /\ pc'[t] = "lock" /\ row[t] = "none" /\ snap[t] = {}
        /\ todo'[t] = Matched(t) /\ snap'[t] = Matched(t)
    BY <1>2, <1>t DEF Update, TypeOK, RowsAtCommit, SnapshotOnTime
  <2>2. \A q \in Txns : lock[q] # t
    BY <2>1 DEF LocksMatched, TypeOK
  <2>3. RowsAtCommit' /\ SnapshotOnTime' /\ ReplaceSupersedes' /\ SnapshotSettled'
    BY <2>1 DEF RowsAtCommit, SnapshotOnTime, ReplaceSupersedes, SnapshotSettled
  <2>4. SnapshotOwned'
    BY <2>1 DEF SnapshotOwned, Matched
  <2>5. LocksMatched'
    BY <2>1, <2>2, <1>t DEF LocksMatched, TypeOK
  <2> QED
    BY <1>t, <2>3, <2>4, <2>5
<1>3. ASSUME NEW t \in Txns, NEW q \in Txns, LockRow(t, q) PROVE IInv'
  <2>1. /\ UNCHANGED <<pc, arg, snap, row>>
        /\ \A u \in Txns \ {t} : todo'[u] = todo[u]
        /\ pc[t] = "lock" /\ q \in todo[t] /\ todo'[t] = todo[t] \ {q}
        /\ q \in snap[t] /\ row[q] \in {"active", "deleted"}
        /\ lock[q] = NoTxn /\ \A x \in Txns \ {q} : lock'[x] = lock[x]
        /\ row[q] = "active" => lock'[q] = t
        /\ row[q] # "active" => lock'[q] = NoTxn
    BY <1>3, <1>t DEF LockRow, TypeOK, SnapshotOnTime, SnapshotOwned
  <2>2. RowsAtCommit' /\ SnapshotOnTime' /\ SnapshotOwned' /\ ReplaceSupersedes'
    BY <2>1 DEF RowsAtCommit, SnapshotOnTime, SnapshotOwned, ReplaceSupersedes
  <2>3. SnapshotSettled'
    BY <2>1, <1>t DEF SnapshotSettled, TypeOK
  <2>4. LocksMatched'
    BY <2>1, <1>t DEF LocksMatched, TypeOK
  <2> QED
    BY <1>t, <2>2, <2>3, <2>4
<1>4. ASSUME NEW t \in Txns, Commit(t) PROVE IInv'
  <2>1. /\ UNCHANGED <<arg, snap>>
        /\ \A u \in Txns \ {t} : pc'[u] = pc[u] /\ todo'[u] = todo[u]
        /\ pc[t] = "commit" /\ pc'[t] = "done" /\ todo[t] = {} /\ todo'[t] = {}
        /\ row[t] = "none" /\ row'[t] = "active"
        /\ \A q \in Txns : lock'[q] = IF lock[q] = t THEN NoTxn ELSE lock[q]
        /\ \A q \in Txns \ {t} : row'[q] = IF lock[q] = t THEN "deleted" ELSE row[q]
    BY <1>4, <1>t DEF Commit, End, TypeOK, RowsAtCommit, SnapshotOnTime
  <2>2. \A u \in Txns : t \notin snap[u]
    BY <2>1 DEF SnapshotOwned
  <2>3. /\ \A u \in Txns : snap[u] \subseteq Txns
        /\ lock[t] = NoTxn /\ \A q \in Txns : lock[q] = t => row[q] = "active"
    BY <2>1, <1>t DEF TypeOK, LocksMatched
  <2>4. RowsAtCommit' /\ SnapshotOnTime'
    BY <2>1, <2>3, <1>t DEF RowsAtCommit, SnapshotOnTime, LocksMatched
  <2>5. SnapshotOwned'
    BY <2>1, <2>2, <2>3 DEF SnapshotOwned
  <2>6. SnapshotSettled'
    BY <2>1, <2>2, <2>3 DEF SnapshotSettled
  <2>7. LocksMatched'
    BY <2>1, <2>3, <1>t DEF LocksMatched, TypeOK
  <2>8. ReplaceSupersedes'
    BY <2>1, <2>2, <2>3 DEF ReplaceSupersedes, SnapshotSettled
  <2> QED
    BY <1>t, <2>4, <2>5, <2>6, <2>7, <2>8
<1>5. ASSUME NEW t \in Txns, Fail(t) PROVE IInv'
  <2>1. /\ UNCHANGED <<arg, snap, row>>
        /\ \A u \in Txns \ {t} : pc'[u] = pc[u] /\ todo'[u] = todo[u]
        /\ pc'[t] = "done" /\ todo'[t] = {} /\ row[t] = "none"
        /\ \A q \in Txns : lock'[q] = IF lock[q] = t THEN NoTxn ELSE lock[q]
    BY <1>5, <1>t DEF Fail, End, TypeOK, RowsAtCommit, Open
  <2>2. RowsAtCommit' /\ SnapshotOnTime' /\ SnapshotOwned' /\ ReplaceSupersedes'
    BY <2>1 DEF RowsAtCommit, SnapshotOnTime, SnapshotOwned, ReplaceSupersedes
  <2>3. SnapshotSettled'
    BY <2>1, <1>t DEF SnapshotSettled, TypeOK
  <2>4. LocksMatched'
    BY <2>1, <1>t DEF LocksMatched, TypeOK
  <2> QED
    BY <1>t, <2>2, <2>3, <2>4
<1>6. CASE UNCHANGED vars
  BY <1>t, <1>6 DEF vars, txn, RowsAtCommit, SnapshotOnTime, SnapshotOwned,
     SnapshotSettled, LocksMatched, ReplaceSupersedes
<1> QED
  BY <1>1, <1>2, <1>3, <1>4, <1>5, <1>6 DEF Next, Step

LEMMA InvAlways == Spec => []IInv
  BY InvInit, InvNext, PTL DEF Spec

\* Every call is at a step of Insert or Replace, and the calls that hold a
\* connection are never more than MaxConns.
THEOREM StoreTypeOK == Spec => []TypeOK
  BY InvAlways, PTL DEF IInv

\* A row's lock is held by a transaction in progress and the row is active: two
\* Replaces never retire the same row, and a failed call leaves no lock.
THEOREM LocksProtect == Spec => []LockProtectsRow
<1>1. IInv => LockProtectsRow
  BY DEF IInv, LocksMatched, LockProtectsRow
<1> QED
  BY <1>1, InvAlways, PTL

\* A committed Replace leaves none of the rows that its UPDATE matched active,
\* whatever the calls that held those rows did.
THEOREM ReplaceDone == Spec => []ReplaceSupersedes
  BY InvAlways, PTL DEF IInv

-----------------------------------------------------------------------------
\* A page of the newest n rows that leaves a row out has n rows at least: of
\* the rows left out take a newest one; all that are newer are on the page.
LEMMA PageIsFull ==
  ASSUME NEW S, IsFiniteSet(S), NEW b, \A x \in S : b[x] \in Nat, NEW n \in Nat,
         NEW page, page = {x \in S : Cardinality({y \in S : b[y] > b[x]}) < n},
         S \ page # {}
  PROVE  Cardinality(page) >= n
<1> DEFINE Above(x) == {y \in S : b[y] > b[x]}
           Left == {Above(x) : x \in S \ page}
<1>1. \A x \in S : IsFiniteSet(Above(x)) /\ Above(x) \in SUBSET S
  BY FS_Subset
<1>2. Left # {} /\ Left \subseteq FiniteSubsetsOf(S)
  <2>1. \A x \in S : Above(x) \in FiniteSubsetsOf(S)
    BY <1>1 DEF FiniteSubsetsOf
  <2> HIDE DEF Above
  <2> QED
    BY <2>1
<1>3. PICK U \in Left : \A V \in Left : <<V, U>> \notin StrictSubsetOrdering(S)
  BY <1>2, FS_StrictSubsetOrderingWellFounded, WFMin
<1>4. PICK x \in S \ page : U = Above(x)
  BY <1>3
<1>5. Above(x) \subseteq page
  <2> SUFFICES ASSUME NEW y \in Above(x), y \notin page PROVE FALSE
    OBVIOUS
  <2>1. y \in S /\ b[y] > b[x] /\ y \notin Above(y)
    OBVIOUS
  <2>2. Above(y) \subseteq Above(x)
    BY <2>1
  <2>3. Above(y) # Above(x)
    BY <2>1
  <2>4. Above(y) \in Left
    BY <2>1
  <2> HIDE DEF Above, Left
  <2>5. <<Above(y), Above(x)>> \in StrictSubsetOrdering(S)
    BY <2>1, <2>2, <2>3, <1>1, <1>4 DEF StrictSubsetOrdering
  <2> QED
    BY <2>4, <2>5, <1>3, <1>4
<1>6. ~(Cardinality(Above(x)) < n)
  BY <1>4
<1>7. IsFiniteSet(page) /\ Cardinality(Above(x)) <= Cardinality(page)
  BY <1>5, FS_Subset
<1>8. Cardinality(Above(x)) \in Nat /\ Cardinality(page) \in Nat
  BY <1>1, <1>4, <1>7, FS_CardinalityType
<1> QED
  BY <1>6, <1>7, <1>8

\* A step changes the table only by the commit of some call, which adds its row
\* and retires rows of the same document of the same user.
CommitsRow(t) ==
    /\ row[t] = "none" /\ row'[t] = "active"
    /\ \A q \in Txns \ {t} :
          \/ row'[q] = row[q]
          \/ /\ row[q] = "active" /\ row'[q] = "deleted"
             /\ arg[q].doc = arg[t].doc /\ arg[q].subject = arg[t].subject

LEMMA TableStep ==
  ASSUME IInv, [Next]_vars
  PROVE  /\ arg' = arg /\ (row' = row \/ \E t \in Txns : CommitsRow(t))
         /\ \A q \in Txns : row[q] # "none" => began'[q] = began[q]
<1> USE DEF Goto
<1>1. ASSUME NEW t \in Txns, Commit(t) PROVE CommitsRow(t) /\ arg' = arg /\ began' = began
  <2>1. /\ row[t] = "none" /\ row'[t] = "active" /\ arg' = arg /\ began' = began
        /\ \A q \in Txns \ {t} : row'[q] = IF lock[q] = t THEN "deleted" ELSE row[q]
    BY <1>1 DEF Commit, End, IInv, TypeOK, RowsAtCommit
  <2>2. ASSUME NEW q \in Txns, lock[q] = t
        PROVE  /\ row[q] = "active" /\ arg[q].doc = arg[t].doc
               /\ arg[q].subject = arg[t].subject
    BY <2>2 DEF IInv, LocksMatched, SnapshotOwned
  <2> QED
    BY <2>1, <2>2 DEF CommitsRow
<1>b. ASSUME NEW t \in Txns, Begin(t)
      PROVE  /\ row' = row /\ arg' = arg
             /\ \A q \in Txns : row[q] # "none" => began'[q] = began[q]
  BY <1>b DEF Begin, IInv, RowsAtCommit, TypeOK
<1>2. ASSUME NEW t \in Txns, Call(t) \/ Update(t) \/ Insert(t) \/ Fail(t)
      PROVE  row' = row /\ arg' = arg /\ began' = began
  BY <1>2 DEF Call, Update, Insert, Fail
<1>3. ASSUME NEW t \in Txns, NEW q \in Txns, LockRow(t, q)
      PROVE  row' = row /\ arg' = arg /\ began' = began
  BY <1>3 DEF LockRow
<1>4. CASE UNCHANGED vars
  BY <1>4 DEF vars, txn
<1> QED
  BY <1>1, <1>b, <1>2, <1>3, <1>4 DEF Next, Step

\* What a user reads.
Own(s) == {q \in Txns : row[q] = "active" /\ arg[q].subject = s}
Newer(s, q) == {x \in Own(s) : began[x] > began[q]}

LEMMA ListFacts ==
  ASSUME NEW s
  PROVE  /\ ListBySubject(s) = {q \in Own(s) : Cardinality(Newer(s, q)) < PageSize}
         /\ ListBySubject(s)' = {q \in Own(s)' : Cardinality(Newer(s, q)') < PageSize}
  BY DEF ListBySubject, Own, Newer

LEMMA PageFilled ==
  ASSUME TypeOK', NEW s, NEW q \in Own(s)', q \notin ListBySubject(s)'
  PROVE  Cardinality(ListBySubject(s)') >= PageSize
<1>1. IsFiniteSet(Own(s)')
  BY FS_Subset DEF Own
<1>2. \A x \in Own(s)' : began'[x] \in Nat
  BY DEF Own, TypeOK
<1>3. ListBySubject(s)' =
        {x \in Own(s)' : Cardinality({y \in Own(s)' : began'[y] > began'[x]}) < PageSize}
  BY ListFacts DEF Newer
<1>4. Own(s)' \ ListBySubject(s)' # {}
  OBVIOUS
<1>5. PICK S, b, page : S = Own(s)' /\ b = began' /\ page = ListBySubject(s)'
  OBVIOUS
<1>6. page = {x \in S : Cardinality({y \in S : b[y] > b[x]}) < PageSize}
  BY <1>3, <1>5
<1>7. IsFiniteSet(S) /\ (\A x \in S : b[x] \in Nat) /\ S \ page # {}
  BY <1>1, <1>2, <1>4, <1>5
<1>8. Cardinality(page) >= PageSize
  BY <1>6, <1>7, PageIsFull
<1> QED
  BY <1>5, <1>8

\* No step of any call takes a document from a user's list, unless a full page
\* of the user's other rows pushes it out: Replace retires a row only when its
\* successor is listed or the page is full of newer ones.
THEOREM ListKeepsDocuments == Spec => ListNeverLosesDocument
<1> DEFINE A == \A s \in Subjects : \A q \in ListBySubject(s) \ ListBySubject(s)' :
                   \/ Cardinality(ListBySubject(s)') >= PageSize
                   \/ \E x \in ListBySubject(s)' : arg[x].doc = arg[q].doc
<1>1. ASSUME IInv, IInv', [Next]_vars PROVE A
  <2> SUFFICES ASSUME NEW s \in Subjects, NEW q \in ListBySubject(s),
                      q \notin ListBySubject(s)'
               PROVE  \/ Cardinality(ListBySubject(s)') >= PageSize
                      \/ \E x \in ListBySubject(s)' : arg[x].doc = arg[q].doc
    OBVIOUS
  <2>1. /\ q \in Txns /\ row[q] = "active" /\ arg[q].subject = s
        /\ Cardinality(Newer(s, q)) < PageSize
    BY ListFacts DEF Own
  <2>2. TypeOK'
    BY <1>1 DEF IInv
  <2>3. arg' = arg /\ \A x \in Txns : row[x] # "none" => began'[x] = began[x]
    BY <1>1, TableStep
  <2>4. CASE row' = row
    <3>1. Own(s)' = Own(s) /\ q \in Own(s)
      BY <2>1, <2>3, <2>4 DEF Own
    <3>2. \A x \in Own(s) : began'[x] = began[x]
      BY <2>3 DEF Own
    <3>3. Newer(s, q)' = Newer(s, q)
      BY <3>1, <3>2 DEF Newer
    <3>4. q \in ListBySubject(s)'
      BY <3>1, <3>3, <2>1, ListFacts
    <3> QED
      BY <3>4
  <2>5. ASSUME NEW t \in Txns, CommitsRow(t)
        PROVE  \/ Cardinality(ListBySubject(s)') >= PageSize
               \/ \E x \in ListBySubject(s)' : arg[x].doc = arg[q].doc
    <3>1. CASE row'[q] = "active"
      <4>1. q \in Own(s)'
        BY <2>1, <2>3, <3>1 DEF Own
      <4> QED
        BY <4>1, <2>2, PageFilled
    <3>2. CASE row'[q] # "active"
      <4>1. arg[q].doc = arg[t].doc /\ arg[t].subject = s /\ row'[t] = "active"
        BY <2>1, <2>5, <3>2 DEF CommitsRow
      <4>2. t \in Own(s)'
        BY <2>3, <4>1 DEF Own
      <4> QED
        BY <4>1, <4>2, <2>2, PageFilled
    <3> QED
      BY <3>1, <3>2
  <2> QED
    BY <2>4, <2>5, <1>1, TableStep
<1>2. Spec => [][A]_vars
  BY <1>1, InvAlways, PTL DEF Spec
<1> QED
  BY <1>2, Zenon DEF ListNeverLosesDocument

-----------------------------------------------------------------------------
\* The refinement of Ledger.  Bar is the table as its users see it.
Bar == [t \in Txns |-> RowOf(t)]

LEMMA RowFacts ==
  ASSUME TypeOK, NEW t \in Txns
  PROVE  /\ row[t] = "none" => RowOf(t) = NoRow
         /\ row[t] # "none" =>
               /\ RowOf(t) \in Promise!Row
               /\ RowOf(t) = [owner |-> arg[t].subject, doc |-> arg[t].doc,
                              live |-> row[t] = "active"]
<1>1. arg[t] \in Arg
  BY DEF TypeOK
<1>2. arg[t].subject \in Subjects /\ arg[t].doc \in Documents
  BY <1>1 DEF Arg
<1> QED
  BY <1>2 DEF RowOf, Promise!Row

\* The commit of t is the Append of Ledger.
LEMMA CommitAppends ==
  ASSUME TypeOK, TypeOK', arg' = arg, NEW t \in Txns, CommitsRow(t)
  PROVE  Promise!Append(t)
<1> DEFINE d == arg[t].doc
           o == arg[t].subject
<1>1. RowOf(t) = NoRow /\ RowOf(t)' = [owner |-> o, doc |-> d, live |-> TRUE]
  BY RowFacts DEF CommitsRow, RowOf
<1>2. arg[t] \in Arg
  BY DEF TypeOK
<1>3. [owner |-> o, doc |-> d, live |-> TRUE] \in Promise!Row
  BY <1>2 DEF Arg, Promise!Row
<1>4. ASSUME NEW q \in Txns \ {t}
      PROVE  \/ RowOf(q)' = RowOf(q)
             \/ /\ RowOf(q) \in Promise!Row /\ RowOf(q).live
                /\ RowOf(q).owner = o /\ RowOf(q).doc = d
                /\ RowOf(q)' = [owner |-> o, doc |-> d, live |-> FALSE]
  <2>1. CASE row'[q] = row[q]
    BY <2>1 DEF RowOf
  <2>2. CASE row'[q] # row[q]
    <3>1. /\ row[q] = "active" /\ row'[q] = "deleted"
          /\ arg[q].doc = d /\ arg[q].subject = o
      BY <2>2 DEF CommitsRow
    <3>2. RowOf(q) = [owner |-> o, doc |-> d, live |-> TRUE]
      BY <3>1 DEF RowOf
    <3>3. RowOf(q)' = [owner |-> o, doc |-> d, live |-> FALSE]
      BY <3>1 DEF RowOf
    <3> QED
      BY <3>2, <3>3, <1>3
  <2> QED
    BY <2>1, <2>2
<1>5. \A q \in Txns : Bar[q] = RowOf(q) /\ Bar'[q] = RowOf(q)'
  BY DEF Bar
<1>6. /\ Bar[t] = NoRow /\ Bar'[t] \in Promise!Row
      /\ Bar'[t] = [owner |-> o, doc |-> d, live |-> TRUE]
  BY <1>1, <1>3, <1>5
<1>7. Bar'[t].live /\ Bar'[t].owner = o /\ Bar'[t].doc = d
  BY <1>6
<1>8. ASSUME NEW q \in Txns \ {t}
      PROVE  \/ Bar'[q] = Bar[q]
             \/ /\ Bar[q] \in Promise!Row /\ Bar[q].live
                /\ Bar[q].owner = Bar'[t].owner /\ Bar[q].doc = Bar'[t].doc
                /\ Bar'[q] = [owner |-> Bar'[t].owner, doc |-> Bar'[t].doc,
                              live |-> FALSE]
  <2>1. Bar[q] = RowOf(q) /\ Bar'[q] = RowOf(q)'
    BY <1>5
  <2> QED
    BY <1>4, <1>7, <2>1
<1>9. Bar' = [q \in Txns |-> Bar'[q]]
  BY DEF Bar
<1> QED
  BY <1>6, <1>7, <1>8, <1>9 DEF Promise!Append, Promise!RetiredOrSame, Bar

\* ExtractionStore implements Ledger: whatever calls run together, wait, fail or
\* are cut off, a row appears once, for good, and is retired only in the step
\* that adds a row of the same user for the same document.
THEOREM LedgerImplemented == Spec => ImplementsLedger
<1>1. Init => Promise!Init
  <2> SUFFICES ASSUME Init PROVE Promise!Init
    OBVIOUS
  <2>1. \A t \in Txns : RowOf(t) \in {NoRow} \cup Promise!Row
    BY TypeInit, RowFacts
  <2> QED
    BY <2>1 DEF Promise!Init
<1>2. ASSUME IInv, IInv', [Next]_vars PROVE [Promise!Next]_Bar
  <2>1. CASE row' = row
    <3>1. arg' = arg
      BY <1>2, TableStep
    <3>2. Bar' = Bar
      BY <2>1, <3>1 DEF Bar, RowOf
    <3> QED
      BY <3>2
  <2>2. ASSUME NEW t \in Txns, CommitsRow(t) PROVE Promise!Next
    <3>1. Promise!Append(t)
      BY <1>2, <2>2, TableStep, CommitAppends DEF IInv
    <3> QED
      BY <3>1 DEF Promise!Next
  <2> QED
    BY <1>2, <2>1, <2>2, TableStep
<1>3. Spec => [][Promise!Next]_Bar
  BY <1>2, InvAlways, PTL DEF Spec
<1> QED
  BY <1>1, <1>3, PTL DEF ImplementsLedger, Promise!Spec, Spec, Bar

=============================================================================
