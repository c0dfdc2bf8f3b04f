----------------------------- MODULE RateLimiter -----------------------------
(***************************************************************************)
(* TokenBucketRateLimiter of web/src/server/request-rate-limiter.ts, the   *)
(* bucket the v1 and v2 snapshot routes share.                             *)
(*                                                                         *)
(* The code keeps fractional tokens and a fractional refill rate; here a   *)
(* token is Window units and one unit of time refills Capacity units, so   *)
(* all is integer.  The rounding of floating point is not modelled.  The   *)
(* clock is a parameter of the constructor and may go back.                *)
(***************************************************************************)
EXTENDS Integers

CONSTANTS
    Capacity,     \* tokens in a full bucket
    Window,       \* time in which an empty bucket fills
    Second,       \* time units in a second, the unit of Retry-After
    MaxTime       \* bound: the latest reading of the clock

ASSUME RateAssumption ==
    /\ Capacity \in Nat \ {0} /\ Window \in Nat \ {0} /\ Second \in Nat \ {0}
    /\ MaxTime \in Nat

VARIABLES
    clock,        \* what the injected clock reads
    tokens, updatedAt,
    decision,     \* the last RateLimitDecision
    askedAt,          \* history: what the clock read at the last take
    markedAt, since   \* history: grants since some earlier take

vars == <<clock, tokens, updatedAt, decision, askedAt, markedAt, since>>

Full == Capacity * Window

AtLeast(a, b) == IF a >= b THEN a ELSE b
AtMost(a, b)  == IF a <= b THEN a ELSE b
Ceiling(a, b) == (a + b - 1) \div b

TypeOK ==
    /\ clock \in 0..MaxTime /\ updatedAt \in 0..MaxTime
    /\ tokens \in 0..Full
    /\ decision \in [allowed : BOOLEAN, remaining : 0..Capacity, retryAfter : Nat]
    /\ askedAt \in 0..updatedAt
    /\ markedAt \in 0..updatedAt /\ since \in Nat

Init ==
    /\ clock \in 0..MaxTime /\ updatedAt = clock
    /\ tokens = Full
    /\ decision = [allowed |-> TRUE, remaining |-> Capacity, retryAfter |-> 1]
    /\ askedAt = clock
    /\ markedAt = updatedAt /\ since = 0

\* Mutant: Retry-After is rounded down.
WaitFloor(missing) == AtLeast(1, missing \div (Capacity * Second))

Refilled  == AtMost(Full, tokens + AtLeast(0, clock - updatedAt) * Capacity)
Reference == AtLeast(updatedAt, clock)
WaitSeconds(missing) == AtLeast(1, Ceiling(missing, Capacity * Second))

Take ==
    LET allowed == Refilled >= Window IN
    /\ tokens' = IF allowed THEN Refilled - Window ELSE Refilled
    /\ updatedAt' = Reference
    /\ decision' = [allowed    |-> allowed,
                    remaining  |-> tokens' \div Window,
                    retryAfter |-> WaitSeconds(IF allowed THEN 0 ELSE Window - tokens')]
    /\ askedAt' = clock
    /\ since' = IF allowed THEN since + 1 ELSE since
    /\ UNCHANGED <<clock, markedAt>>

\* The clock moves, forward or back.
ReadClock ==
    /\ clock' \in 0..MaxTime
    /\ UNCHANGED <<tokens, updatedAt, decision, askedAt, markedAt, since>>

\* History only: an observer starts counting after the last take.
Mark ==
    /\ markedAt' = updatedAt /\ since' = 0
    /\ UNCHANGED <<clock, tokens, updatedAt, decision, askedAt>>

Next == Take \/ ReadClock \/ Mark

Spec == Init /\ [][Next]_vars

-----------------------------------------------------------------------------
\* After any take, no more grants follow than a full bucket plus what that
\* much of the window refills, whatever the clock did in between.
GrantsBounded == since * Window <= Full + Capacity * (updatedAt - markedAt)

\* A caller that comes back Retry-After seconds after it was refused is granted,
\* unless somebody else took the token, or the clock was behind an earlier take when
\* the caller was refused.  performance.now(), the clock of the service, never is; with
\* an injected clock that is, nothing is refilled before it has caught up, and the
\* wait that was announced is too short by as much (request-rate-limiter.ts:45-62).
RetryAfterSuffices ==
    /\ ~decision.allowed /\ askedAt = updatedAt
    /\ clock >= askedAt + decision.retryAfter * Second
    => Refilled >= Window
=============================================================================
