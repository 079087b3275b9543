----------------------------- MODULE RateLimiter -----------------------------
(***************************************************************************)
(* The per-principal quota of internal/ratelimit: Limiter.Allow counts the *)
(* calls of one principal in fixed one-minute windows with a Redis INCR,   *)
(* and gives the key a two-minute life with a separate EXPIRE that it      *)
(* sends only when INCR answered 1.                                        *)
(*                                                                         *)
(* An id stands for the pair (kind, principalID) of the key.  Time is the  *)
(* number of the current window and the offset in it, so now.Truncate(     *)
(* time.Minute) is win and needs no division.  A call reads the clock      *)
(* once and its INCR takes effect later: age is how much later.  The Redis *)
(* client resends a command whose reply does not come, so an INCR may be   *)
(* applied without its caller learning of it.                              *)
(***************************************************************************)
EXTENDS Naturals, FiniteSets

CONSTANTS
    Callers,        \* concurrent calls of Allow
    Ids,            \* (kind, principalID) pairs
    Limit,          \* Limiter.limit
    WindowTicks,    \* clock ticks in a minute
    TicksPerSecond, \* clock ticks in a second
    MaxStall,       \* ticks between reading the clock and the last effect of INCR
    MaxSends,       \* times the Redis client sends one INCR (1 + MaxRetries)
    MaxWindow,      \* bound: the last window explored
    MaxCount,       \* bound: INCRs per key
    MaxFaults       \* bound: lost replies, failed EXPIREs, crashes and wipes

ASSUME LimitAssumption   == Limit \in Nat \ {0}
ASSUME ClockAssumption   == /\ WindowTicks \in Nat \ {0}
                            /\ TicksPerSecond \in Nat \ {0}
ASSUME StallAssumption   == MaxStall \in Nat /\ MaxStall <= WindowTicks
ASSUME BoundsAssumption  == /\ MaxSends \in Nat \ {0}
                            /\ MaxWindow \in Nat
                            /\ MaxCount \in Nat
                            /\ MaxFaults \in Nat

VARIABLES
    win, off,   \* the wall clock: minute number and ticks into the minute
    count,      \* Redis: the integer stored at each key, 0 if the key is absent
    ttl,        \* Redis: remaining life of each key, 0 if it has none
    call,       \* the state of each call of Allow
    faults,     \* faults so far
    admitted,   \* history: calls of each window answered Allowed
    burned,     \* history: INCRs applied whose reply was never used
    wiped       \* history: keys that Redis lost with its memory

redis   == <<count, ttl>>
history == <<admitted, burned, wiped>>
vars    == <<win, off, redis, call, faults, history>>

Windows == 0..MaxWindow
Keys    == Ids \X Windows

Call == [pc : {"idle", "incr", "expire", "done", "unavailable"},
         id : Ids, win : Windows, off : 0..WindowTicks-1,
         age : 0..MaxStall, sends : 0..MaxSends,
         n : 0..MaxCount, remaining : 0..Limit]

TypeOK ==
    /\ win \in Windows /\ off \in 0..WindowTicks-1
    /\ count \in [Keys -> 0..MaxCount]
    /\ ttl \in [Keys -> 0..2*WindowTicks]
    /\ call \in [Callers -> Call]
    /\ faults \in 0..MaxFaults
    /\ admitted \in [Keys -> Nat] /\ burned \in [Keys -> Nat]
    /\ wiped \in [Keys -> BOOLEAN]

-----------------------------------------------------------------------------
(***************************************************************************)
(* What Allow computes from the reply n of INCR.                           *)
(***************************************************************************)
HalfWindowTTL == WindowTicks \div 2
KeyTTL == 2 * WindowTicks

AllowedStrict(n) == n < Limit
Allowed(n) == n <= Limit

RemainingUnclamped(n) == Limit - n
Remaining(n) == IF Limit < n THEN 0 ELSE Limit - n

NeverFirst(n) == n = 0
FirstInWindow(n) == n = 1

\* RetryAfter, in ticks: to the end of the minute read, one second at least
RetryAfter(c) ==
    LET rest == WindowTicks - call[c].off
    IN  IF rest < TicksPerSecond THEN TicksPerSecond ELSE rest

\* The Retry-After header of enforceLLMRateLimit: whole seconds, rounded down
RetryAfterHeader(c) ==
    LET sec == RetryAfter(c) \div TicksPerSecond
    IN  IF sec < 1 THEN 1 ELSE sec

Key(c)     == <<call[c].id, call[c].win>>
Pending(c) == call[c].pc = "incr"
Refused(c) == call[c].pc = "done" /\ ~Allowed(call[c].n)

-----------------------------------------------------------------------------
Init ==
    /\ win = 0 /\ off = 0
    /\ count = [k \in Keys |-> 0]
    /\ ttl = [k \in Keys |-> 0]
    /\ call \in [Callers -> {x \in Call :
                    /\ x.pc = "idle" /\ x.win = 0 /\ x.off = 0 /\ x.age = 0
                    /\ x.sends = 0 /\ x.n = 0 /\ x.remaining = 0}]
    /\ faults = 0
    /\ admitted = [k \in Keys |-> 0]
    /\ burned = [k \in Keys |-> 0]
    /\ wiped = [k \in Keys |-> FALSE]

Fault == faults < MaxFaults /\ faults' = faults + 1

\* Allow reads the clock and forms the key of the current window.
StartAllow(c, i) ==
    /\ call[c].pc \notin {"incr", "expire"}
    /\ call' = [call EXCEPT ![c] =
                    [pc |-> "incr", id |-> i, win |-> win, off |-> off,
                     age |-> 0, sends |-> 1, n |-> 0, remaining |-> 0]]
    /\ UNCHANGED <<win, off, redis, faults, history>>

\* The call x once its INCR is over, with the count and Result.Remaining.
Answered(x, pc, n, remaining) ==
    [pc |-> pc, id |-> x.id, win |-> x.win, off |-> x.off,
     age |-> 0, sends |-> 0, n |-> n, remaining |-> remaining]

\* INCR is applied and answered: the decision is made from n, and only the
\* call that saw 1 goes on to EXPIRE.
IncrReply(c) ==
    LET k == Key(c)
        n == count[k] + 1
    IN  /\ Pending(c) /\ count[k] < MaxCount
        /\ count' = [count EXCEPT ![k] = n]
        /\ call' = [call EXCEPT ![c] =
                        Answered(@, IF FirstInWindow(n) THEN "expire" ELSE "done",
                                 n, Remaining(n))]
        /\ admitted' = [admitted EXCEPT ![k] = IF Allowed(n) THEN @ + 1 ELSE @]
        /\ UNCHANGED <<win, off, ttl, faults, burned, wiped>>

\* No reply: the Redis client sends INCR again, or gives up (its retries are
\* used up, or the call's context ended) and Allow returns ErrUnavailable.
ResendForever(c) ==
    call' = [call EXCEPT ![c].sends = (@ % MaxSends) + 1]
ResendOnceMore(c) ==
    call' = [call EXCEPT ![c].sends = @ + 1]
GiveUp(c) ==
    call' = [call EXCEPT ![c] = Answered(@, "unavailable", 0, 0)]
Resend(c) ==
    /\ call[c].sends < MaxSends
    /\ call' = [call EXCEPT ![c].sends = @ + 1]

\* INCR was applied, but its reply is lost.
IncrReplyLost(c) ==
    /\ Pending(c) /\ count[Key(c)] < MaxCount
    /\ Fault
    /\ count' = [count EXCEPT ![Key(c)] = @ + 1]
    /\ burned' = [burned EXCEPT ![Key(c)] = @ + 1]
    /\ Resend(c) \/ GiveUp(c)
    /\ UNCHANGED <<win, off, ttl, admitted, wiped>>

\* INCR never reached Redis.
IncrLost(c) ==
    /\ Pending(c)
    /\ Resend(c) \/ GiveUp(c)
    /\ UNCHANGED <<win, off, redis, faults, history>>

\* EXPIRE is applied (it does nothing to a key that is gone) ...
ExpireApplied(c) ==
    /\ call[c].pc = "expire"
    /\ ttl' = [ttl EXCEPT ![Key(c)] = IF count[Key(c)] > 0 THEN KeyTTL ELSE @]
    /\ call' = [call EXCEPT ![c].pc = "done"]
    /\ UNCHANGED <<win, off, count, faults, history>>

\* ... or it fails, and its error is ignored.
ExpireFailed(c) ==
    /\ call[c].pc = "expire"
    /\ Fault
    /\ call' = [call EXCEPT ![c].pc = "done"]
    /\ UNCHANGED <<win, off, redis, history>>

\* The API process dies with every call in flight.
Crash ==
    /\ \E c \in Callers : call[c].pc \in {"incr", "expire"}
    /\ Fault
    /\ call' = [c \in Callers |->
                    IF call[c].pc \in {"incr", "expire"}
                    THEN Answered(call[c], "idle", 0, 0)
                    ELSE call[c]]
    /\ UNCHANGED <<win, off, redis, history>>

\* Redis restarts with an empty memory: no volume keeps it.
Wipe ==
    /\ \E k \in Keys : count[k] > 0
    /\ Fault
    /\ count' = [k \in Keys |-> 0]
    /\ ttl' = [k \in Keys |-> 0]
    /\ wiped' = [k \in Keys |-> wiped[k] \/ count[k] > 0]
    /\ UNCHANGED <<win, off, call, admitted, burned>>

\* Time passes: a key whose life ends is removed.
Tick ==
    /\ \A c \in Callers : Pending(c) => call[c].age < MaxStall
    /\ \/ off + 1 < WindowTicks /\ off' = off + 1 /\ win' = win
       \/ off + 1 = WindowTicks /\ win < MaxWindow /\ off' = 0 /\ win' = win + 1
    /\ count' = [k \in Keys |-> IF ttl[k] = 1 THEN 0 ELSE count[k]]
    /\ ttl' = [k \in Keys |-> IF ttl[k] = 0 THEN 0 ELSE ttl[k] - 1]
    /\ call' = [c \in Callers |->
                    IF Pending(c) THEN [call[c] EXCEPT !.age = @ + 1] ELSE call[c]]
    /\ UNCHANGED <<faults, history>>

CallStep(c) ==
    \/ IncrReply(c) \/ IncrReplyLost(c) \/ IncrLost(c)
    \/ ExpireApplied(c) \/ ExpireFailed(c)

Next ==
    \/ \E c \in Callers, i \in Ids : StartAllow(c, i)
    \/ \E c \in Callers : CallStep(c)
    \/ Crash
    \/ Wipe
    \/ Tick

Spec == Init /\ [][Next]_vars

\* A call in flight goes on: the Redis client's socket timeouts end every wait.
FairSpec == Spec /\ \A c \in Callers : WF_vars(CallStep(c))

-----------------------------------------------------------------------------
(***************************************************************************)
(* Properties                                                              *)
(***************************************************************************)

\* Allow admits at most Limit calls of a principal in a window, whatever the
\* interleaving of clock reads, delayed or repeated INCRs and key expiry, as
\* long as Redis does not lose the key (limiter.go: Allowed is n <= limit).
AdmittedWithinLimit ==
    \A k \in Keys : ~wiped[k] => admitted[k] <= Limit

\* Allow refuses a call only when the quota of its window is used up: Limit
\* INCRs were admitted or spent by a command whose reply was lost.
RefusalIsJustified ==
    \A c \in Callers : Refused(c) => admitted[Key(c)] + burned[Key(c)] >= Limit

\* A counter stays in Redis without a life only after a fault (a lost reply, a
\* failed EXPIRE or a crash between INCR and EXPIRE): otherwise the call that
\* created it has set its EXPIRE or is about to.
LeakOnlyAfterFault ==
    faults = 0 => \A k \in Keys : count[k] > 0 =>
        ttl[k] > 0 \/ \E c \in Callers : call[c].pc = "expire" /\ Key(c) = k

\* Every call of Allow returns, unless the process dies.
AllowReturns ==
    \A c \in Callers : call[c].pc \in {"incr", "expire"}
                           ~> call[c].pc \in {"idle", "done", "unavailable"}

\* A refused client that waits for the seconds of Retry-After is in a later
\* window (openapi.yaml: "Seconds to wait before retrying").
RetryAfterReachesNextWindow ==
    \A c \in Callers : Refused(c) =>
        call[c].off + RetryAfterHeader(c) * TicksPerSecond >= WindowTicks

=============================================================================
