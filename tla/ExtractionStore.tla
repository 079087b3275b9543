--------------------------- MODULE ExtractionStore ---------------------------
(***************************************************************************)
(* store.Extractions: Insert and Replace as Postgres transactions at the   *)
(* default READ COMMITTED level over a pool of connections, and the list a *)
(* user reads.                                                             *)
(*                                                                         *)
(* The soft delete of Replace is an UPDATE: it takes the rows that match   *)
(* in its snapshot, locks them one after the other in any order, waits     *)
(* for a row that another transaction holds, and looks at the row again    *)
(* once it has the lock.  Every call runs under the 3 second context of    *)
(* Server.persist, which may end it at any moment.                         *)
(*                                                                         *)
(* A row is named by the transaction that inserted it.                     *)
(***************************************************************************)
EXTENDS Naturals, FiniteSets

CONSTANTS
    Txns,        \* calls of Insert and Replace
    Earlier,     \* the ones that committed before the others are made
    Subjects,    \* auth_subject
    Documents,   \* (doc_type, content_sha256)
    Calls,       \* the arguments Insert and Replace are called with
    PoolSize,    \* MaxConns
    PageSize,    \* LIMIT of ListBySubject
    NoTxn, NoRow

Arg  == [replace : BOOLEAN, subject : Subjects, doc : Documents]

ASSUME StoreAssumption ==
    /\ Calls \subseteq Arg /\ Calls # {}
    /\ PoolSize \in Nat \ {0} /\ PageSize \in Nat \ {0}
    /\ NoTxn \notin Txns
    /\ Earlier \subseteq Txns /\ IsFiniteSet(Txns)

VARIABLES
    pc,      \* where each call is
    arg,     \* its record: replace, subject, document
    began,   \* created_at: now() is the start of the transaction, 0 before
    clock,
    todo,    \* rows of the UPDATE still to be locked
    lock,    \* the transaction that holds each row
    row,     \* committed state of each row
    snap     \* history: the rows the UPDATE matched

txn  == <<pc, arg, began, clock, todo, snap>>
vars == <<txn, lock, row>>

Open == {"update", "lock", "insert", "commit"}

TypeOK ==
    /\ pc \in [Txns -> {"idle", "begin", "done"} \cup Open]
    /\ arg \in [Txns -> Calls]
    /\ began \in [Txns -> Nat] /\ clock \in Nat
    /\ todo \in [Txns -> SUBSET Txns] /\ snap \in [Txns -> SUBSET Txns]
    /\ lock \in [Txns -> Txns \cup {NoTxn}]
    /\ row \in [Txns -> {"none", "active", "deleted"}]
    /\ Cardinality({t \in Txns : pc[t] \in Open}) <= PoolSize

-----------------------------------------------------------------------------
\* WHERE clause of the soft delete.
MatchedOfAnyone(t) ==
    {q \in Txns : row[q] = "active" /\ arg[q].doc = arg[t].doc}
MatchedOfAnyDocument(t) ==
    {q \in Txns : row[q] = "active" /\ arg[q].subject = arg[t].subject}
Matched(t) ==
    {q \in Txns : /\ row[q] = "active" /\ arg[q].doc = arg[t].doc
                  /\ arg[q].subject = arg[t].subject}

\* ListBySubject without a doc_type: ORDER BY created_at DESC LIMIT PageSize.
ListBySubject(s) ==
    LET own == {q \in Txns : row[q] = "active" /\ arg[q].subject = s}
    IN  {q \in own : Cardinality({x \in own : began[x] > began[q]}) < PageSize}

\* Before, the Earlier calls inserted their rows, one after the other.
Init ==
    /\ pc = [t \in Txns |-> IF t \in Earlier THEN "done" ELSE "idle"]
    /\ arg \in {f \in [Txns -> Calls] : \A t \in Earlier : ~f[t].replace}
    /\ clock = Cardinality(Earlier)
    /\ began = CHOOSE f \in [Txns -> 0..clock] : /\ {f[t] : t \in Earlier} = 1..clock
                                                /\ \A t \in Txns \ Earlier : f[t] = 0
    /\ todo = [t \in Txns |-> {}] /\ snap = [t \in Txns |-> {}]
    /\ lock = [t \in Txns |-> NoTxn]
    /\ row = [t \in Txns |-> IF t \in Earlier THEN "active" ELSE "none"]

Goto(t, l) == pc' = [pc EXCEPT ![t] = l]

\* Insert or Replace is called.
Call(t) ==
    /\ pc[t] = "idle"
    /\ Goto(t, "begin")
    /\ UNCHANGED <<arg, began, clock, todo, snap, lock, row>>

\* BeginTx takes a connection of the pool.
BeginAnyway(t) ==
    /\ pc[t] = "begin"
    /\ clock' = clock + 1 /\ began' = [began EXCEPT ![t] = clock + 1]
    /\ Goto(t, IF arg[t].replace THEN "update" ELSE "insert")
    /\ UNCHANGED <<arg, todo, snap, lock, row>>
Begin(t) ==
    /\ pc[t] = "begin"
    /\ Cardinality({u \in Txns : pc[u] \in Open}) < PoolSize
    /\ clock' = clock + 1 /\ began' = [began EXCEPT ![t] = clock + 1]
    /\ Goto(t, IF arg[t].replace THEN "update" ELSE "insert")
    /\ UNCHANGED <<arg, todo, snap, lock, row>>

\* The UPDATE starts: its snapshot is what is committed now ...
Update(t) ==
    /\ pc[t] = "update"
    /\ todo' = [todo EXCEPT ![t] = Matched(t)]
    /\ snap' = [snap EXCEPT ![t] = Matched(t)]
    /\ Goto(t, "lock")
    /\ UNCHANGED <<arg, began, clock, lock, row>>

\* ... it waits for the row's lock, and keeps the row if it still matches ...
SkipLocked(t, q) ==
    /\ pc[t] = "lock" /\ q \in todo[t]
    /\ todo' = [todo EXCEPT ![t] = @ \ {q}]
    /\ lock' = IF lock[q] = NoTxn /\ row[q] = "active"
               THEN [lock EXCEPT ![q] = t] ELSE lock
    /\ UNCHANGED <<pc, arg, began, clock, snap, row>>
StealLock(t, q) ==
    /\ pc[t] = "lock" /\ q \in todo[t]
    /\ todo' = [todo EXCEPT ![t] = @ \ {q}]
    /\ lock' = [lock EXCEPT ![q] = t]
    /\ UNCHANGED <<pc, arg, began, clock, snap, row>>
LockRow(t, q) ==
    /\ pc[t] = "lock" /\ q \in todo[t] /\ lock[q] = NoTxn
    /\ todo' = [todo EXCEPT ![t] = @ \ {q}]
    /\ lock' = IF row[q] = "active" THEN [lock EXCEPT ![q] = t] ELSE lock
    /\ UNCHANGED <<pc, arg, began, clock, snap, row>>

\* The INSERT follows, when no row is left to lock.  Nobody sees it yet.
Insert(t) ==
    /\ \/ pc[t] = "insert"
       \/ pc[t] = "lock" /\ todo[t] = {}
    /\ Goto(t, "commit")
    /\ UNCHANGED <<arg, began, clock, todo, snap, lock, row>>

\* The end of the transaction gives its locks and its connection back.  (pgx
\* closes the connection of a call whose context ended a little later; until
\* then others wait as if for a slower call, each within its own deadline.)
KeepLocks(t) ==
    /\ Goto(t, "done")
    /\ todo' = [todo EXCEPT ![t] = {}]
    /\ lock' = lock
End(t) ==
    /\ Goto(t, "done")
    /\ todo' = [todo EXCEPT ![t] = {}]
    /\ lock' = [q \in Txns |-> IF lock[q] = t THEN NoTxn ELSE lock[q]]

\* COMMIT is applied; whether its answer reaches the caller or not, the
\* table is the same.
Commit(t) ==
    /\ pc[t] = "commit"
    /\ row' = [q \in Txns |-> IF q = t THEN "active"
                              ELSE IF lock[q] = t THEN "deleted" ELSE row[q]]
    /\ End(t)
    /\ UNCHANGED <<arg, began, clock, snap>>

\* A statement fails, the server breaks a deadlock, or the context ends (also
\* while the call waits for a connection or a lock): Rollback.
FailUnlessBlocked(t) ==
    /\ pc[t] \in Open \ {"lock"}
    /\ End(t)
    /\ UNCHANGED <<arg, began, clock, snap, row>>
Fail(t) ==
    /\ pc[t] \in {"begin"} \cup Open
    /\ End(t)
    /\ UNCHANGED <<arg, began, clock, snap, row>>

Step(t) ==
    \/ Begin(t) \/ Update(t) \/ Insert(t) \/ Commit(t) \/ Fail(t)
    \/ \E q \in Txns : LockRow(t, q)

Next == \E t \in Txns : Call(t) \/ Step(t)

Spec == Init /\ [][Next]_vars

\* A call that waits is ended by its context: persistTimeout.
FairSpec == Spec /\ \A t \in Txns \ Earlier : WF_vars(Step(t))

-----------------------------------------------------------------------------
(***************************************************************************)
(* Properties                                                              *)
(***************************************************************************)

\* The transactions implement the table's promise to its users: rows are only
\* added, and retired together with the arrival of their successor.
RowOf(t) ==
    IF row[t] = "none" THEN NoRow
    ELSE [owner |-> arg[t].subject, doc |-> arg[t].doc, live |-> row[t] = "active"]

Promise == INSTANCE Ledger WITH Writers <- Txns, Owners <- Subjects,
                                rows <- [t \in Txns |-> RowOf(t)]

ImplementsLedger == Promise!Spec

\* A row that is locked is active, and its holder is a transaction in progress:
\* nobody else retires it, and no failed call leaves a lock behind.
LockProtectsRow ==
    \A q \in Txns : lock[q] # NoTxn =>
        row[q] = "active" /\ pc[lock[q]] \in {"lock", "commit"}

\* When Replace has committed, every row its UPDATE matched is retired, even
\* if another call held the row and then failed.
ReplaceSupersedes ==
    \A t \in Txns : row[t] # "none" => \A q \in snap[t] : row[q] = "deleted"

\* No call of anybody takes a document from a user's list, unless a full page
\* of others pushes it out.
ListNeverLosesDocument ==
    [][\A s \in Subjects : \A q \in ListBySubject(s) \ ListBySubject(s)' :
          \/ Cardinality(ListBySubject(s)') >= PageSize
          \/ \E x \in ListBySubject(s)' : arg[x].doc = arg[q].doc]_vars

\* Every call returns, whoever holds the locks and the connections.
PersistReturns ==
    \A t \in Txns \ Earlier : pc[t] \in {"begin"} \cup Open ~> pc[t] = "done"

\* The integration test of Replace: "caller active=%d want 1".  Of the rows of
\* one user for one document that two Replaces inserted, one is active.
OneActiveAfterReplace ==
    \A t, u \in Txns :
        /\ t # u /\ arg[t] = arg[u] /\ arg[t].replace
        => ~(row[t] = "active" /\ row[u] = "active")

=============================================================================
