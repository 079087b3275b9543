-------------------------- MODULE RateLimiterProofs --------------------------
(***************************************************************************)
(* TLAPS proofs about RateLimiter, for every set of callers and ids, every *)
(* limit, window length and bound.                                         *)
(*                                                                         *)
(* AdmittedWithinLimit is not inductive.  A key is counted from again only *)
(* if Redis still holds what was counted, so the invariant ties the key's  *)
(* remaining life to the clock (LifeInv): the counters of this window and  *)
(* of the one before it cannot expire.  PendingInv says that a delayed     *)
(* INCR hits one of these two, FutureInv that later windows are untouched, *)
(* and CountInv that the counter accounts for what was admitted.           *)
(***************************************************************************)
EXTENDS RateLimiter, TLAPS

\* A call waiting for INCR read the clock age ticks ago: in this window or in
\* the one before.
PendingInv ==
    \A c \in Callers : Pending(c) =>
        \/ call[c].win = win /\ off = call[c].off + call[c].age
        \/ win = call[c].win + 1 /\ WindowTicks + off = call[c].off + call[c].age

\* A call waiting for EXPIRE saw the count 1 in a window that has begun.
ExpireInv ==
    \A c \in Callers : call[c].pc = "expire" =>
        call[c].win <= win /\ call[c].n = 1

FutureInv ==
    \A k \in Keys : k[2] > win => count[k] = 0 /\ ttl[k] = 0 /\ admitted[k] = 0

LifeInv ==
    \A k \in Keys : ttl[k] > 0 =>
        /\ k[2] = win => ttl[k] + off >= 2 * WindowTicks
        /\ k[2] + 1 = win => ttl[k] + off >= WindowTicks

Recent(k) == k[2] = win \/ k[2] + 1 = win

CountInv ==
    \A k \in Keys : Recent(k) =>
        /\ ~wiped[k] => admitted[k] <= count[k]
        /\ count[k] <= Limit => admitted[k] + burned[k] >= count[k]
        /\ count[k] > Limit => admitted[k] + burned[k] >= Limit

IInv ==
    /\ TypeOK
    /\ PendingInv /\ ExpireInv /\ FutureInv /\ LifeInv /\ CountInv
    /\ AdmittedWithinLimit /\ RefusalIsJustified

-----------------------------------------------------------------------------
USE LimitAssumption, ClockAssumption, StallAssumption, BoundsAssumption

\* The type invariant holds initially and every step keeps it.
LEMMA TypeInit == Init => TypeOK
  BY DEF Init, TypeOK, Keys, Windows, Call

\* A call that has got its answer is again a call.
LEMMA AnsweredTyped ==
  ASSUME NEW x \in Call, NEW pc \in {"idle", "expire", "done", "unavailable"},
         NEW n \in 0..MaxCount, NEW r \in 0..Limit
  PROVE  Answered(x, pc, n, r) \in Call
  BY DEF Answered, Call

\* What a lost INCR does to its call keeps the call's type.
LEMMA RetryTyped ==
  ASSUME TypeOK, NEW c \in Callers, Resend(c) \/ GiveUp(c)
  PROVE  call' \in [Callers -> Call]
<1>1. call[c] \in Call
  BY DEF TypeOK
<1>2. CASE Resend(c)
  <2>1. call[c].sends + 1 \in 0..MaxSends
    BY <1>1, <1>2 DEF Resend, Call
  <2>2. [call[c] EXCEPT !.sends = call[c].sends + 1] \in Call
    BY <1>1, <2>1 DEF Call
  <2> QED
    BY <1>2, <2>2 DEF Resend, TypeOK
<1>3. CASE GiveUp(c)
  <2>1. Answered(call[c], "unavailable", 0, 0) \in Call
    BY <1>1, AnsweredTyped
  <2> QED
    BY <1>3, <2>1 DEF GiveUp, TypeOK
<1> QED
  BY <1>2, <1>3

LEMMA TypeNext == TypeOK /\ [Next]_vars => TypeOK'
<1> SUFFICES ASSUME TypeOK, [Next]_vars PROVE TypeOK'
  OBVIOUS
<1> USE DEF TypeOK
<1>k. \A c \in Callers : Key(c) \in Keys
  BY DEF Key, Keys, Call
<1>1. ASSUME NEW c \in Callers, NEW i \in Ids, StartAllow(c, i) PROVE TypeOK'
  BY <1>1 DEF StartAllow, redis, history, Call
<1>2. ASSUME NEW c \in Callers, IncrReply(c) PROVE TypeOK'
  <2> DEFINE n == count[Key(c)] + 1
             pc == IF FirstInWindow(n) THEN "expire" ELSE "done"
  <2>1. n \in 0..MaxCount /\ Remaining(n) \in 0..Limit
    BY <1>2, <1>k DEF IncrReply, Remaining
  <2>2. Answered(call[c], pc, n, Remaining(n)) \in Call
    <3> HIDE DEF n
    <3> QED  BY <2>1, AnsweredTyped
  <2>3. call' \in [Callers -> Call]
    BY <1>2, <2>2 DEF IncrReply
  <2>4. count' \in [Keys -> 0..MaxCount] /\ admitted' \in [Keys -> Nat]
    BY <1>2, <1>k, <2>1 DEF IncrReply
  <2> QED
    BY <1>2, <2>3, <2>4 DEF IncrReply
<1>3. ASSUME NEW c \in Callers, IncrReplyLost(c) PROVE TypeOK'
  <2>1. call' \in [Callers -> Call]
    BY <1>3, RetryTyped DEF IncrReplyLost
  <2> QED
    BY <1>3, <1>k, <2>1 DEF IncrReplyLost, Fault
<1>4. ASSUME NEW c \in Callers, IncrLost(c) PROVE TypeOK'
  <2>1. call' \in [Callers -> Call]
    BY <1>4, RetryTyped DEF IncrLost
  <2> QED
    BY <1>4, <2>1 DEF IncrLost, redis, history
<1>5. ASSUME NEW c \in Callers, ExpireApplied(c) PROVE TypeOK'
  BY <1>5, <1>k DEF ExpireApplied, Call, KeyTTL, history
<1>6. ASSUME NEW c \in Callers, ExpireFailed(c) PROVE TypeOK'
  BY <1>6 DEF ExpireFailed, Call, Fault, redis, history
<1>7. CASE Crash
  <2>1. \A c \in Callers : Answered(call[c], "idle", 0, 0) \in Call
    BY AnsweredTyped
  <2>2. call' \in [Callers -> Call]
    BY <1>7, <2>1 DEF Crash
  <2> QED
    BY <1>7, <2>2 DEF Crash, Fault, redis, history
<1>8. CASE Wipe
  BY <1>8 DEF Wipe, Fault
<1>9. CASE Tick
  BY <1>9 DEF Tick, Pending, Call, history, Windows
<1>10. CASE UNCHANGED vars
  BY <1>10 DEF vars, redis, history
<1> QED
  BY <1>1, <1>2, <1>3, <1>4, <1>5, <1>6, <1>7, <1>8, <1>9, <1>10
     DEF Next, CallStep

\* The Redis counters, the clock and the calls keep their types: in particular
\* no INCR is sent more than MaxSends times and Remaining is never negative.
THEOREM TypeCorrect == Spec => []TypeOK
  BY TypeInit, TypeNext, PTL DEF Spec

-----------------------------------------------------------------------------
(***************************************************************************)
(* The inductive invariant.                                                *)
(***************************************************************************)

\* It holds initially: no key exists and no call is in flight.
LEMMA InvInit == Init => IInv
<1> SUFFICES ASSUME Init PROVE IInv
  OBVIOUS
<1>1. TypeOK
  BY TypeInit
<1>2. \A c \in Callers : call[c].pc = "idle"
  BY DEF Init
<1>3. \A k \in Keys : count[k] = 0 /\ ttl[k] = 0 /\ admitted[k] = 0 /\ burned[k] = 0
  BY DEF Init
<1> QED
  BY <1>1, <1>2, <1>3 DEF IInv, PendingInv, ExpireInv, FutureInv, LifeInv,
     CountInv, AdmittedWithinLimit, RefusalIsJustified, Pending, Refused

\* The key of a call, and which window a pending call counts in.
LEMMA KeyFacts ==
  ASSUME TypeOK, NEW c \in Callers
  PROVE  Key(c) \in Keys /\ Key(c)[2] = call[c].win /\ Key(c)[1] = call[c].id
  BY DEF TypeOK, Key, Keys, Call

LEMMA PendingRecent ==
  ASSUME TypeOK, PendingInv, NEW c \in Callers, Pending(c)
  PROVE  Recent(Key(c)) /\ ~(Key(c)[2] > win)
<1>1. call[c].win \in Nat /\ win \in Nat
  BY DEF TypeOK, Call, Windows
<1> QED
  BY <1>1, KeyFacts DEF PendingInv, Recent

\* A lost INCR leaves what the invariant says of the calls alone.
LEMMA RetryKeeps ==
  ASSUME TypeOK, PendingInv, ExpireInv, NEW c \in Callers, Pending(c),
         Resend(c) \/ GiveUp(c), UNCHANGED <<win, off>>
  PROVE  /\ PendingInv' /\ ExpireInv'
         /\ \A d \in Callers : Refused(d)' => Refused(d)
         /\ \A d \in Callers : Key(d)' = Key(d)
<1>1. /\ \A d \in Callers \ {c} : call'[d] = call[d]
      /\ call'[c].win = call[c].win /\ call'[c].id = call[c].id
      /\ call'[c].off = call[c].off
      /\ \/ call'[c].pc = "incr" /\ call'[c].age = call[c].age
         \/ call'[c].pc = "unavailable"
  BY DEF Resend, GiveUp, Answered, TypeOK, Call, Pending
<1> QED
  BY <1>1 DEF PendingInv, ExpireInv, Refused, Key, Pending

\* Every step keeps it.
LEMMA InvNext == IInv /\ [Next]_vars => IInv'
<1> SUFFICES ASSUME IInv, [Next]_vars PROVE IInv'
  OBVIOUS
<1>t. TypeOK /\ TypeOK'
  BY TypeNext DEF IInv
<1>n. /\ win \in Nat /\ off \in 0..WindowTicks-1
      /\ \A k \in Keys : /\ k[2] \in Nat /\ count[k] \in Nat
                         /\ ttl[k] \in Nat /\ admitted[k] \in Nat
                         /\ burned[k] \in Nat /\ wiped[k] \in BOOLEAN
  BY <1>t DEF TypeOK, Keys, Windows
<1>c. \A c \in Callers : /\ call[c].win \in Nat /\ call[c].off \in 0..WindowTicks-1
                         /\ call[c].age \in 0..MaxStall /\ call[c].n \in Nat
  BY <1>t DEF TypeOK, Call, Windows
<1>k. \A c \in Callers : /\ Key(c) \in Keys /\ Key(c)[2] = call[c].win
                         /\ Key(c)[1] = call[c].id
  BY <1>t, KeyFacts
<1>1. ASSUME NEW c \in Callers, NEW i \in Ids, StartAllow(c, i) PROVE IInv'
  <2>1. /\ \A d \in Callers \ {c} : call'[d] = call[d]
        /\ call'[c].pc = "incr" /\ call'[c].win = win /\ call'[c].off = off
        /\ call'[c].age = 0
        /\ UNCHANGED <<win, off, count, ttl, admitted, burned, wiped>>
    BY <1>1, <1>t DEF StartAllow, redis, history, TypeOK
  <2>2. PendingInv' /\ ExpireInv'
    BY <2>1, <1>n DEF IInv, PendingInv, ExpireInv, Pending
  <2>3. FutureInv' /\ LifeInv' /\ CountInv' /\ AdmittedWithinLimit'
    BY <2>1 DEF IInv, FutureInv, LifeInv, CountInv, Recent, AdmittedWithinLimit
  <2>4. RefusalIsJustified'
    BY <2>1 DEF IInv, RefusalIsJustified, Refused, Key
  <2> QED
    BY <1>t, <2>2, <2>3, <2>4 DEF IInv
<1>2. ASSUME NEW c \in Callers, IncrReply(c) PROVE IInv'
  <2> DEFINE k == Key(c)
             n == count[k] + 1
  <2>1. /\ Pending(c) /\ Recent(k) /\ ~(k[2] > win)
    BY <1>2, <1>t, PendingRecent DEF IncrReply, IInv
  <2>2. /\ \A d \in Callers \ {c} : call'[d] = call[d]
        /\ call'[c].pc \in {"expire", "done"} /\ call'[c].win = call[c].win
        /\ call'[c].id = call[c].id /\ call'[c].n = n
        /\ call'[c].pc = "expire" => n = 1
        /\ UNCHANGED <<win, off, ttl, burned, wiped>>
    BY <1>2, <1>t DEF IncrReply, Answered, FirstInWindow, TypeOK
  <2>3. /\ \A j \in Keys \ {k} : count'[j] = count[j] /\ admitted'[j] = admitted[j]
        /\ count'[k] = n
        /\ n <= Limit => admitted'[k] = admitted[k] + 1
        /\ n > Limit => admitted'[k] = admitted[k]
    BY <1>2, <1>t, <1>k, <1>n DEF IncrReply, TypeOK, Allowed
  <2>4. PendingInv' /\ ExpireInv'
    BY <2>1, <2>2, <1>n, <1>c, <1>k DEF IInv, PendingInv, ExpireInv, Pending, Recent
  <2>5. FutureInv' /\ LifeInv'
    BY <2>1, <2>2, <2>3, <1>n DEF IInv, FutureInv, LifeInv
  <2>6. CountInv'
    BY <2>1, <2>2, <2>3, <1>k, <1>n DEF IInv, CountInv, Recent
  <2>7. AdmittedWithinLimit'
    BY <2>1, <2>2, <2>3, <1>k, <1>n DEF IInv, CountInv, AdmittedWithinLimit
  <2>8. RefusalIsJustified'
    <3> SUFFICES ASSUME NEW d \in Callers, Refused(d)'
                 PROVE  admitted'[Key(d)'] + burned'[Key(d)'] >= Limit
      BY DEF RefusalIsJustified
    <3>1. Key(d)' = Key(d)
      BY <2>2 DEF Key
    <3>2. CASE d = c
      BY <3>1, <3>2, <2>1, <2>2, <2>3, <1>k, <1>n
         DEF Refused, Allowed, IInv, CountInv
    <3>3. CASE d # c
      <4>1. admitted[Key(d)] + burned[Key(d)] >= Limit
        BY <3>3, <2>2 DEF Refused, IInv, RefusalIsJustified
      <4> QED
        BY <4>1, <3>1, <2>2, <2>3, <1>k, <1>n
    <3> QED
      BY <3>2, <3>3
  <2> QED
    BY <1>t, <2>4, <2>5, <2>6, <2>7, <2>8 DEF IInv
<1>3. ASSUME NEW c \in Callers, IncrReplyLost(c) PROVE IInv'
  <2> DEFINE k == Key(c)
  <2>1. /\ Pending(c) /\ Recent(k) /\ ~(k[2] > win)
    BY <1>3, <1>t, PendingRecent DEF IncrReplyLost, IInv
  <2>2. /\ UNCHANGED <<win, off, ttl, admitted, wiped>>
        /\ \A j \in Keys \ {k} : count'[j] = count[j] /\ burned'[j] = burned[j]
        /\ count'[k] = count[k] + 1 /\ burned'[k] = burned[k] + 1
    BY <1>3, <1>t, <1>k DEF IncrReplyLost, TypeOK
  <2>3. PendingInv' /\ ExpireInv' /\ (\A d \in Callers : Refused(d)' => Refused(d))
        /\ \A d \in Callers : Key(d)' = Key(d)
    BY <1>3, <1>t, <2>1, <2>2, RetryKeeps DEF IncrReplyLost, IInv
  <2>4. FutureInv' /\ LifeInv'
    BY <2>1, <2>2, <1>n DEF IInv, FutureInv, LifeInv
  <2>5. CountInv'
    BY <2>1, <2>2, <1>k, <1>n DEF IInv, CountInv, Recent
  <2>6. AdmittedWithinLimit'
    BY <2>2 DEF IInv, AdmittedWithinLimit
  <2>7. RefusalIsJustified'
    BY <2>2, <2>3, <1>k, <1>n DEF IInv, RefusalIsJustified
  <2> QED
    BY <1>t, <2>3, <2>4, <2>5, <2>6, <2>7 DEF IInv
<1>4. ASSUME NEW c \in Callers, IncrLost(c) PROVE IInv'
  <2>1. Pending(c) /\ UNCHANGED <<win, off, count, ttl, admitted, burned, wiped>>
    BY <1>4 DEF IncrLost, redis, history
  <2>2. PendingInv' /\ ExpireInv' /\ (\A d \in Callers : Refused(d)' => Refused(d))
        /\ \A d \in Callers : Key(d)' = Key(d)
    BY <1>4, <1>t, <2>1, RetryKeeps DEF IncrLost, IInv
  <2>3. FutureInv' /\ LifeInv' /\ CountInv' /\ AdmittedWithinLimit'
    BY <2>1 DEF IInv, FutureInv, LifeInv, CountInv, Recent, AdmittedWithinLimit
  <2>4. RefusalIsJustified'
    BY <2>1, <2>2 DEF IInv, RefusalIsJustified
  <2> QED
    BY <1>t, <2>2, <2>3, <2>4 DEF IInv
<1>5. ASSUME NEW c \in Callers, ExpireApplied(c) \/ ExpireFailed(c) PROVE IInv'
  <2> DEFINE k == Key(c)
  <2>1. /\ call[c].pc = "expire"
        /\ UNCHANGED <<win, off, count, admitted, burned, wiped>>
        /\ \A d \in Callers \ {c} : call'[d] = call[d]
        /\ call' = [call EXCEPT ![c].pc = "done"]
        /\ \A d \in Callers : call'[d].win = call[d].win /\ call'[d].id = call[d].id
                              /\ call'[d].n = call[d].n
    BY <1>5, <1>t DEF ExpireApplied, ExpireFailed, redis, history, TypeOK, Call
  <2>2. /\ \A j \in Keys \ {k} : ttl'[j] = ttl[j]
        /\ ttl'[k] = ttl[k] \/ (count[k] > 0 /\ ttl'[k] = 2 * WindowTicks)
    BY <1>5, <1>t, <1>k DEF ExpireApplied, ExpireFailed, redis, TypeOK, KeyTTL
  <2>3. PendingInv' /\ ExpireInv'
    BY <2>1 DEF IInv, PendingInv, ExpireInv, Pending
  <2>4. FutureInv' /\ LifeInv'
    BY <2>1, <2>2, <1>n, <1>k DEF IInv, FutureInv, LifeInv, ExpireInv
  <2>5. CountInv' /\ AdmittedWithinLimit'
    BY <2>1 DEF IInv, CountInv, Recent, AdmittedWithinLimit
  <2>6. RefusalIsJustified'
    BY <2>1, LimitAssumption DEF IInv, RefusalIsJustified, Refused, Allowed, Key, ExpireInv
  <2> QED
    BY <1>t, <2>3, <2>4, <2>5, <2>6 DEF IInv
<1>6. CASE Crash
  <2>1. /\ UNCHANGED <<win, off, count, ttl, admitted, burned, wiped>>
        /\ \A d \in Callers : call'[d] = call[d] \/ call'[d].pc = "idle"
    BY <1>6 DEF Crash, redis, history, Answered
  <2>2. PendingInv' /\ ExpireInv'
    BY <2>1 DEF IInv, PendingInv, ExpireInv, Pending
  <2>3. FutureInv' /\ LifeInv' /\ CountInv' /\ AdmittedWithinLimit'
    BY <2>1 DEF IInv, FutureInv, LifeInv, CountInv, Recent, AdmittedWithinLimit
  <2>4. RefusalIsJustified'
    BY <2>1 DEF IInv, RefusalIsJustified, Refused, Key
  <2> QED
    BY <1>t, <2>2, <2>3, <2>4 DEF IInv
<1>7. CASE Wipe
  <2>1. /\ UNCHANGED <<win, off, call, admitted, burned>>
        /\ \A k \in Keys : /\ count'[k] = 0 /\ ttl'[k] = 0
                           /\ wiped[k] \/ count[k] > 0 => wiped'[k]
    BY <1>7 DEF Wipe
  <2>2. PendingInv' /\ ExpireInv' /\ RefusalIsJustified'
    BY <2>1 DEF IInv, PendingInv, ExpireInv, RefusalIsJustified, Pending, Refused, Key
  <2>3. FutureInv' /\ LifeInv'
    BY <2>1, <1>n DEF IInv, FutureInv, LifeInv
  <2>w. \A k \in Keys : ~wiped'[k] => ~wiped[k] /\ count[k] = 0
    BY <2>1, <1>n
  <2>4. CountInv'
    BY <2>1, <2>w, <1>n DEF IInv, CountInv, Recent
  <2>5. AdmittedWithinLimit'
    BY <2>1, <2>w DEF IInv, AdmittedWithinLimit
  <2> QED
    BY <1>t, <2>2, <2>3, <2>4, <2>5 DEF IInv
<1>8. CASE Tick
  <2>1. /\ UNCHANGED <<admitted, burned, wiped>>
        /\ \A k \in Keys : /\ ttl[k] # 1 => count'[k] = count[k]
                           /\ ttl[k] = 0 => ttl'[k] = 0
                           /\ ttl[k] > 0 => ttl'[k] = ttl[k] - 1
                           /\ count[k] = 0 => count'[k] = 0
    BY <1>8, <1>n DEF Tick, history
  <2>2. \/ off + 1 < WindowTicks /\ off' = off + 1 /\ win' = win
        \/ off + 1 = WindowTicks /\ off' = 0 /\ win' = win + 1
    BY <1>8 DEF Tick
  <2>3. \A c \in Callers :
            /\ call'[c].pc = call[c].pc /\ call'[c].win = call[c].win
            /\ call'[c].id = call[c].id /\ call'[c].off = call[c].off
            /\ call'[c].n = call[c].n
            /\ Pending(c) => call[c].age < MaxStall /\ call'[c].age = call[c].age + 1
    BY <1>8, <1>t DEF Tick, TypeOK, Call, Pending
  <2>4. PendingInv'
    BY <2>2, <2>3, <1>n, <1>c DEF IInv, PendingInv, Pending
  <2>5. ExpireInv' /\ RefusalIsJustified'
    BY <2>1, <2>2, <2>3, <1>n, <1>c
       DEF IInv, ExpireInv, RefusalIsJustified, Refused, Key
  <2>6. FutureInv'
    BY <2>1, <2>2, <1>n DEF IInv, FutureInv
  <2>7. LifeInv'
    BY <2>1, <2>2, <1>n DEF IInv, LifeInv, FutureInv
  <2>8. CountInv'
    BY <2>1, <2>2, <1>n DEF IInv, CountInv, Recent, LifeInv, FutureInv
  <2>9. AdmittedWithinLimit'
    BY <2>1 DEF IInv, AdmittedWithinLimit
  <2> QED
    BY <1>t, <2>4, <2>5, <2>6, <2>7, <2>8, <2>9 DEF IInv
<1>9. CASE UNCHANGED vars
  BY <1>9, <1>t DEF vars, redis, history, IInv, PendingInv, ExpireInv, FutureInv,
     LifeInv, CountInv, Recent, AdmittedWithinLimit, RefusalIsJustified,
     Pending, Refused, Key
<1> QED
  BY <1>1, <1>2, <1>3, <1>4, <1>5, <1>6, <1>7, <1>8, <1>9 DEF Next, CallStep

LEMMA InvAlways == Spec => []IInv
  BY InvInit, InvNext, PTL DEF Spec

\* Whatever the interleaving of clock reads, delayed and repeated INCRs, lost
\* EXPIREs, crashes and key expiry: at most Limit calls of a principal are
\* admitted in a window, if Redis keeps its memory.
THEOREM QuotaHolds == Spec => []AdmittedWithinLimit
<1>1. IInv => AdmittedWithinLimit
  BY DEF IInv
<1> QED
  BY <1>1, InvAlways, PTL

\* Allow refuses a call only once Limit INCRs of its window were admitted or
\* spent by a command whose reply was lost.
THEOREM RefusalsHold == Spec => []RefusalIsJustified
<1>1. IInv => RefusalIsJustified
  BY DEF IInv
<1> QED
  BY <1>1, InvAlways, PTL

\* LeakOnlyAfterFault is inductive with the type invariant: the call that saw
\* 1 owns the key's EXPIRE until it has been applied.
LEMMA LeakNext == TypeOK /\ LeakOnlyAfterFault /\ [Next]_vars => LeakOnlyAfterFault'
<1> SUFFICES ASSUME TypeOK, LeakOnlyAfterFault, [Next]_vars, faults' = 0,
                    NEW k \in Keys, count'[k] > 0
             PROVE  ttl'[k] > 0 \/ \E c \in Callers : call'[c].pc = "expire" /\ Key(c)' = k
  BY DEF LeakOnlyAfterFault
<1> DEFINE Owned == \E c \in Callers : call[c].pc = "expire" /\ Key(c) = k
<1>n. /\ faults \in Nat /\ count[k] \in Nat /\ ttl[k] \in Nat
      /\ \A c \in Callers : Key(c) \in Keys
  BY KeyFacts DEF TypeOK
<1>f. faults = 0 => (count[k] > 0 => ttl[k] > 0 \/ Owned)
  BY DEF LeakOnlyAfterFault
<1>1. ASSUME NEW c \in Callers, NEW i \in Ids, StartAllow(c, i)
      PROVE  ttl'[k] > 0 \/ \E d \in Callers : call'[d].pc = "expire" /\ Key(d)' = k
  <2>1. /\ call[c].pc # "expire" /\ UNCHANGED <<count, ttl, faults>>
        /\ \A d \in Callers \ {c} : call'[d] = call[d]
    BY <1>1 DEF StartAllow, redis, TypeOK
  <2> QED
    BY <2>1, <1>f DEF Key
<1>2. ASSUME NEW c \in Callers, IncrReply(c)
      PROVE  ttl'[k] > 0 \/ \E d \in Callers : call'[d].pc = "expire" /\ Key(d)' = k
  <2>1. /\ call[c].pc # "expire" /\ UNCHANGED <<ttl, faults>>
        /\ \A d \in Callers \ {c} : call'[d] = call[d]
        /\ Key(c)' = Key(c)
        /\ count[Key(c)] = 0 => call'[c].pc = "expire"
        /\ k # Key(c) => count'[k] = count[k]
    BY <1>2, <1>n DEF IncrReply, Pending, Answered, FirstInWindow, Key, TypeOK
  <2>2. CASE k = Key(c) /\ count[k] = 0
    BY <2>1, <2>2
  <2>3. CASE ~(k = Key(c) /\ count[k] = 0)
    <3>1. ttl[k] > 0 \/ Owned
      BY <2>1, <2>3, <1>f, <1>n
    <3> QED
      BY <2>1, <3>1 DEF Key
  <2> QED
    BY <2>2, <2>3
<1>3. ASSUME NEW c \in Callers, IncrLost(c)
      PROVE  ttl'[k] > 0 \/ \E d \in Callers : call'[d].pc = "expire" /\ Key(d)' = k
  <2>1. /\ call[c].pc # "expire" /\ UNCHANGED <<count, ttl, faults>>
        /\ \A d \in Callers \ {c} : call'[d] = call[d]
    BY <1>3 DEF IncrLost, Pending, Resend, GiveUp, redis, TypeOK
  <2> QED
    BY <2>1, <1>f DEF Key
<1>4. ASSUME NEW c \in Callers, ExpireApplied(c)
      PROVE  ttl'[k] > 0 \/ \E d \in Callers : call'[d].pc = "expire" /\ Key(d)' = k
  <2>1. /\ UNCHANGED <<count, faults>>
        /\ \A d \in Callers \ {c} : call'[d] = call[d]
        /\ k = Key(c) => ttl'[k] = 2 * WindowTicks
        /\ k # Key(c) => ttl'[k] = ttl[k]
    BY <1>4, <1>n DEF ExpireApplied, KeyTTL, TypeOK
  <2> QED
    BY <2>1, <1>f DEF Key
<1>5. CASE Tick
  <2>1. /\ faults' = faults /\ ttl[k] # 1 /\ count[k] > 0
        /\ ttl[k] > 0 => ttl'[k] > 0
        /\ \A d \in Callers : call'[d].pc = call[d].pc /\ Key(d)' = Key(d)
    BY <1>5, <1>n DEF Tick, Pending, Key, TypeOK, Call
  <2> QED
    BY <2>1, <1>f
<1>6. CASE UNCHANGED vars
  BY <1>6, <1>f DEF vars, redis, Key
<1>7. ASSUME Fault PROVE FALSE
  BY <1>7, <1>n DEF Fault
<1> QED
  BY <1>1, <1>2, <1>3, <1>4, <1>5, <1>6, <1>7
     DEF Next, CallStep, IncrReplyLost, ExpireFailed, Crash, Wipe

\* A counter without a life is always the trace of a fault.
THEOREM LeaksAreFaults == Spec => []LeakOnlyAfterFault
<1>1. Init => TypeOK /\ LeakOnlyAfterFault
  BY TypeInit DEF Init, LeakOnlyAfterFault
<1> QED
  BY <1>1, TypeNext, LeakNext, PTL DEF Spec

=============================================================================
