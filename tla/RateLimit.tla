------------------------------ MODULE RateLimit ------------------------------
(***************************************************************************)
(* The fixed-window counters of auth/rateLimit.ts, for one account from    *)
(* one address.  A login locks its three keys, reads the buckets, verifies *)
(* the password and records the outcome in one transaction; changePassword *)
(* reads them in one transaction and records a failure in another.  Time   *)
(* is in ticks, of which a second has TicksPerSecond, and a request        *)
(* captures it before it waits for the locks.                              *)
(***************************************************************************)
EXTENDS Integers, Sequences, FiniteSetsExt

CONSTANTS
    MaxAttempts,    \* by scope: loginIpMaxFailures, loginIdentifierMaxFailures
                    \* and loginAccountMaxFailures
    Window,         \* loginWindowSeconds, in ticks
    TicksPerSecond,
    MaxDelay,       \* bound on the wait for the locks
    Changes,        \* password changes served at once
    LastTick        \* bound on the clock

Scopes == {"IP", "IP_IDENTIFIER", "IDENTIFIER"}

\* auth/config.ts refuses limits below two: the attempt that opens a window
\* never blocks.
ASSUME LimitAssumption == MaxAttempts \in [Scopes -> Nat \ {0, 1}]
ASSUME WindowAssumption == Window \in Nat \ {0} /\ TicksPerSecond \in Nat \ {0}
ASSUME LimiterBoundsAssumption ==
    MaxDelay \in 0 .. Window /\ IsFiniteSet(Changes) /\ LastTick \in Nat

VARIABLES
    tick,
    bucket,    \* the AuthRateLimit rows
    admitted,  \* the password changes between admission and outcome: the time
               \* they captured, or 0
    failures,  \* log: when each failure was recorded
    cleared    \* log: the account was logged in to

limiterVars == <<tick, bucket, admitted, failures, cleared>>

-----------------------------------------------------------------------------

\* A key without a row; blocked = 0 is blockedUntil IS NULL.
NoBucket == [count |-> 0, start |-> 0, blocked |-> 0]

LimiterInit ==
    /\ tick = Window
    /\ bucket = [k \in Scopes |-> NoBucket]
    /\ admitted = [c \in Changes |-> 0]
    /\ failures = <<>>
    /\ cleared = FALSE

\* readRateLimit: the blocks in force.
Blocking(at) == {t \in {bucket[k].blocked : k \in Scopes} : t > at}

\* A mistake the properties must catch: the seconds are rounded down.
WholeSeconds(ticks) == ticks \div TicksPerSecond

Seconds(ticks) == (ticks + TicksPerSecond - 1) \div TicksPerSecond

RetryAfterSeconds(at) == Max({1, Seconds(Max(Blocking(at)) - at)})

\* A mistake the properties must catch: the attempt after the limit is blocked.
BlockedFromNext(count, maximum) == count > maximum

\* The attempt that reaches the limit blocks the key.
BlockedFrom(count, maximum) == count >= maximum

RecordBucketAttempt(b, maximum, at) ==
    IF b.count = 0 \/ b.start <= at - Window
    THEN [count |-> 1, start |-> at, blocked |-> 0]
    ELSE [count |-> b.count + 1, start |-> b.start,
          blocked |-> IF BlockedFrom(b.count + 1, maximum) THEN b.start + Window ELSE 0]

RecordLoginFailure(at) ==
    /\ bucket' = [k \in Scopes |-> RecordBucketAttempt(bucket[k], MaxAttempts[k], at)]
    /\ failures' = Append(failures, tick)

\* A mistake the properties must catch: a success clears the address as well.
ClearAllRateLimits == bucket' = [k \in Scopes |-> NoBucket]

\* What a success takes from the buckets: the counts of the account, and not
\* those of the address.
ClearLoginIdentifierRateLimits ==
    bucket' = [bucket EXCEPT !["IP_IDENTIFIER"] = NoBucket, !["IDENTIFIER"] = NoBucket]

-----------------------------------------------------------------------------

LoginFails(at) ==
    /\ Blocking(at) = {}
    /\ RecordLoginFailure(at)
    /\ UNCHANGED <<tick, admitted, cleared>>

LoginSucceeds(at) ==
    /\ Blocking(at) = {}
    /\ ClearLoginIdentifierRateLimits
    /\ cleared' = TRUE
    /\ UNCHANGED <<tick, admitted, failures>>

AdmitChange(c, at) ==
    /\ admitted[c] = 0 /\ Blocking(at) = {}
    /\ admitted' = [admitted EXCEPT ![c] = at]
    /\ UNCHANGED <<tick, bucket, failures, cleared>>

\* The current password was wrong; the buckets are not read again.
ChangeFails(c) ==
    /\ admitted[c] # 0
    /\ admitted' = [admitted EXCEPT ![c] = 0]
    /\ RecordLoginFailure(admitted[c])
    /\ UNCHANGED <<tick, cleared>>

\* The password is changed, the transaction fails, or the process dies.
ChangeEnds(c) ==
    /\ admitted[c] # 0
    /\ admitted' = [admitted EXCEPT ![c] = 0]
    /\ \/ ClearLoginIdentifierRateLimits /\ cleared' = TRUE
       \/ UNCHANGED <<bucket, cleared>>
    /\ UNCHANGED <<tick, failures>>

\* A request does not outlive the bound on its delay.
LimiterTick ==
    /\ tick < LastTick
    /\ \A c \in Changes : admitted[c] # 0 => tick < admitted[c] + MaxDelay
    /\ tick' = tick + 1
    /\ UNCHANGED <<bucket, admitted, failures, cleared>>

LimiterNext ==
    \/ \E at \in tick - MaxDelay .. tick : LoginFails(at) \/ LoginSucceeds(at)
    \/ \E c \in Changes, at \in tick - MaxDelay .. tick : AdmitChange(c, at)
    \/ \E c \in Changes : ChangeFails(c) \/ ChangeEnds(c)
    \/ LimiterTick

LimiterSpec == LimiterInit /\ [][LimiterNext]_limiterVars

-----------------------------------------------------------------------------
(* Properties *)

FailuresFrom(t) ==
    Cardinality({i \in DOMAIN failures : t <= failures[i] /\ failures[i] < t + Window - MaxDelay})

\* However attempts are spread over window boundaries, delayed by the locks or
\* mixed with successes, an interval of the window's length less the delay lets
\* through at most twice the limit of the address and the password changes
\* that were admitted together; and as few for the account as long as nobody
\* logs in to it.
FailuresBounded ==
    \A t \in Window .. tick, k \in Scopes :
        k = "IP" \/ ~cleared => FailuresFrom(t) <= 2 * (MaxAttempts[k] + Cardinality(Changes))

\* A client that waits for the time it is told is not refused again.
RetryAfterIsEnough ==
    Blocking(tick) # {} => Blocking(tick + RetryAfterSeconds(tick) * TicksPerSecond) = {}
=============================================================================
