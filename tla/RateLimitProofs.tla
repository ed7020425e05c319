--------------------------- MODULE RateLimitProofs ---------------------------
(***************************************************************************)
(* The limiter of RateLimit, for every limit, window, delay and number of  *)
(* password changes.  A bucket counts the failures of its current window,  *)
(* which are the last ones recorded; the failures before them belong to    *)
(* windows that are over.  An interval that ends in the current window can *)
(* reach back into one of these, and no further.                           *)
(***************************************************************************)
EXTENDS RateLimit, FiniteSetTheorems, TLAPS

BucketRow == [count : Nat, start : Nat, blocked : Nat]

LimiterTypes ==
    /\ tick \in Nat /\ tick >= Window
    /\ bucket \in [Scopes -> BucketRow]
    /\ admitted \in [Changes -> Nat]
    /\ failures \in Seq(Nat)
    /\ cleared \in BOOLEAN

-----------------------------------------------------------------------------
(* The time to wait *)

\* Rounding up to whole units loses nothing.
LEMMA RoundedUp ==
    ASSUME NEW d \in Nat, NEW n \in Nat \ {0}
    PROVE  /\ (d + n - 1) \div n \in Nat
           /\ ((d + n - 1) \div n) * n >= d
<1> DEFINE q == (d + n - 1) \div n
           r == (d + n - 1) % n
<1>1. d + n - 1 \in Nat /\ n \in Int /\ n > 0
    OBVIOUS
<1>2. q \in Int /\ r \in 0 .. n - 1 /\ d + n - 1 = q * n + r
    BY <1>1, SMT
<1>3. q >= 0
    BY <1>1, SMT
<1> HIDE DEF q, r
<1>4. q * n \in Int
    BY <1>2
<1>5. q * n >= d
    BY <1>2, <1>4
<1>6. q \in Nat
    BY <1>2, <1>3
<1> QED
    BY <1>5, <1>6 DEF q

\* More units last longer.
LEMMA MoreUnits ==
    ASSUME NEW m \in Int, NEW q \in Int, NEW n \in Nat, m >= q
    PROVE  m * n >= q * n
BY SMT

\* The largest of at most three numbers.
LEMMA MaxOfThree ==
    ASSUME NEW S, S # {}, \E a, b, c \in Int : \A x \in S : x = a \/ x = b \/ x = c
    PROVE  /\ Max(S) \in S
           /\ \A y \in S : Max(S) >= y
<1> PICK a \in Int, b \in Int, c \in Int : \A x \in S : x = a \/ x = b \/ x = c
    OBVIOUS
<1>1. \E x \in S : \A y \in S : x >= y
  <2>1. CASE a \in S /\ (b \in S => a >= b) /\ (c \in S => a >= c)
      BY <2>1
  <2>2. CASE b \in S /\ (a \in S => b >= a) /\ (c \in S => b >= c)
      BY <2>2
  <2>3. CASE c \in S /\ (a \in S => c >= a) /\ (b \in S => c >= b)
      BY <2>3
  <2>4. a \in S \/ b \in S \/ c \in S
      OBVIOUS
  <2> QED
      BY <2>1, <2>2, <2>3, <2>4
<1> QED
    BY <1>1 DEF Max

\* The time that a refused client is told covers every block in force.
LEMMA RetryCovers ==
    ASSUME LimiterTypes
    PROVE  RetryAfterIsEnough
<1> SUFFICES ASSUME Blocking(tick) # {}
             PROVE  Blocking(tick + RetryAfterSeconds(tick) * TicksPerSecond) = {}
    BY DEF RetryAfterIsEnough
<1> DEFINE m == Max(Blocking(tick))
           s == Seconds(m - tick)
           w == RetryAfterSeconds(tick)
<1>1. /\ \A k \in Scopes : bucket[k].blocked \in Nat
      /\ tick \in Nat /\ TicksPerSecond \in Nat \ {0}
    BY WindowAssumption DEF LimiterTypes, BucketRow
<1>2. m \in Blocking(tick) /\ \A t \in Blocking(tick) : m >= t
  <2> DEFINE a == bucket["IP"].blocked
             b == bucket["IP_IDENTIFIER"].blocked
             c == bucket["IDENTIFIER"].blocked
  <2>1. \A x \in Blocking(tick) : x = a \/ x = b \/ x = c
      BY DEF Blocking, Scopes
  <2>2. a \in Int /\ b \in Int /\ c \in Int
      BY <1>1 DEF Scopes
  <2> HIDE DEF a, b, c
  <2> QED
      BY <2>1, <2>2, MaxOfThree
<1>3. m \in Nat /\ m > tick
    BY <1>1, <1>2 DEF Blocking
<1>4. s \in Nat /\ s * TicksPerSecond >= m - tick
    BY <1>1, <1>3, RoundedUp DEF Seconds
<1>5. w \in Int /\ w >= s
  <2>1. w = Max({1, s})
      BY DEF RetryAfterSeconds
  <2>2. {1, s} # {} /\ s \in {1, s} /\ 1 \in Int /\ s \in Int
      BY <1>4
  <2>3. \A x \in {1, s} : x = 1 \/ x = s \/ x = s
      OBVIOUS
  <2> HIDE DEF s
  <2>4. w \in {1, s} /\ \A y \in {1, s} : w >= y
      BY <2>1, <2>2, <2>3, MaxOfThree
  <2> QED
      BY <2>2, <2>4
<1> HIDE DEF m, s, w
<1>6. w * TicksPerSecond >= s * TicksPerSecond
    BY <1>1, <1>4, <1>5, MoreUnits
<1>7. w * TicksPerSecond \in Int /\ s * TicksPerSecond \in Int
    BY <1>1, <1>4, <1>5
<1>8. tick + w * TicksPerSecond >= m
    BY <1>1, <1>3, <1>4, <1>6, <1>7
<1>9. \A k \in Scopes : ~(bucket[k].blocked > tick + w * TicksPerSecond)
  <2> SUFFICES ASSUME NEW k \in Scopes PROVE ~(bucket[k].blocked > tick + w * TicksPerSecond)
      OBVIOUS
  <2>1. bucket[k].blocked > tick => m >= bucket[k].blocked
      BY <1>2 DEF Blocking
  <2>2. w * TicksPerSecond >= 0
      BY <1>1, <1>3, <1>7, <1>8
  <2> QED
      BY <1>1, <1>3, <1>7, <1>8, <2>1, <2>2
<1> QED
    BY <1>9 DEF Blocking, w

-----------------------------------------------------------------------------
(* The invariant *)

\* What a bucket counts up to: the limit, and the changes that were admitted
\* before it was reached.
Quota(k) == MaxAttempts[k] + Cardinality(Changes)

\* When the first failure of the bucket's window was recorded.
FirstFailure(k) == failures[Len(failures) - bucket[k].count + 1]

\* Changes that will be counted in the window even if it blocks.
Early(k) == {c \in Changes : admitted[c] # 0 /\ admitted[c] < bucket[k].start + Window}

\* Failures of earlier windows that an interval can still join with this one.
Previous(k) ==
    {i \in 1 .. Len(failures) - bucket[k].count : failures[i] + Window - MaxDelay > FirstFailure(k)}

\* The failures that FailuresFrom counts.
Within(t) == {i \in DOMAIN failures : t <= failures[i] /\ failures[i] < t + Window - MaxDelay}

\* No change outlives the bound on its delay.
DelaysBounded ==
    \A c \in Changes : admitted[c] # 0 => tick - MaxDelay <= admitted[c] /\ admitted[c] <= tick

\* Failures are recorded in the order of time.
Recorded ==
    /\ \A i, j \in 1 .. Len(failures) : i <= j => failures[i] <= failures[j]
    /\ \A i \in 1 .. Len(failures) : failures[i] <= tick

\* The window counts the last failures, the first of them no earlier than it
\* starts and no later than the delay after.
WindowCounts(k) ==
    /\ bucket[k].count <= Len(failures)
    /\ bucket[k].count = 0 => Len(failures) = 0
    /\ bucket[k].count > 0 =>
          /\ bucket[k].start <= FirstFailure(k)
          /\ FirstFailure(k) <= bucket[k].start + MaxDelay

\* From the limit on the key is blocked to the end of the window, and only the
\* changes admitted before can still add to it.
WindowBlocks(k) ==
    bucket[k].count >= MaxAttempts[k] =>
        /\ bucket[k].blocked = bucket[k].start + Window
        /\ bucket[k].count + Cardinality(Early(k)) <= Quota(k)

KeyInv(k) ==
    /\ WindowCounts(k)
    /\ WindowBlocks(k)
    /\ bucket[k].count > 0 => Cardinality(Previous(k)) <= Quota(k)
    /\ \A t \in Int : Cardinality(Within(t)) <= 2 * Quota(k)

LimiterInv ==
    /\ LimiterTypes
    /\ DelaysBounded
    /\ Recorded
    /\ \A k \in Scopes : k = "IP" \/ ~cleared => KeyInv(k)

-----------------------------------------------------------------------------
(* Counting *)

\* The numbers that the counts are made of.
LEMMA Numbers ==
    /\ Window \in Nat \ {0} /\ MaxDelay \in Nat /\ MaxDelay <= Window
    /\ IsFiniteSet(Changes) /\ Cardinality(Changes) \in Nat
    /\ \A k \in Scopes : MaxAttempts[k] \in Nat /\ MaxAttempts[k] >= 2 /\ Quota(k) \in Nat /\ Quota(k) >= 2
<1>1. Cardinality(Changes) \in Nat /\ IsFiniteSet(Changes)
    BY LimiterBoundsAssumption, FS_CardinalityType
<1>2. \A k \in Scopes : MaxAttempts[k] \in Nat \ {0, 1}
    BY LimitAssumption
<1> QED
    BY <1>1, <1>2, WindowAssumption, LimiterBoundsAssumption DEF Quota

\* A set of places in the log is finite, and what covers it is no smaller.
LEMMA PlacesCount ==
    ASSUME NEW a \in Nat, NEW b \in Nat, NEW S, \A i \in S : i \in Nat /\ a < i /\ i <= b, a <= b
    PROVE  IsFiniteSet(S) /\ Cardinality(S) \in Nat /\ Cardinality(S) <= b - a
<1>1. IsFiniteSet(a + 1 .. b) /\ Cardinality(a + 1 .. b) = b - a
  <2>1. a + 1 \in Int /\ b \in Int
      OBVIOUS
  <2>2. /\ IsFiniteSet(a + 1 .. b)
        /\ Cardinality(a + 1 .. b) = IF a + 1 > b THEN 0 ELSE b - (a + 1) + 1
      BY <2>1, FS_Interval
  <2> QED
      BY <2>2
<1>2. S \subseteq a + 1 .. b
    OBVIOUS
<1> QED
    BY <1>1, <1>2, FS_Subset, FS_CardinalityType

\* What lies in two parts is no more than both.
LEMMA CoverCount ==
    ASSUME NEW A, NEW B, IsFiniteSet(A), IsFiniteSet(B), NEW S, S \subseteq A \cup B
    PROVE  IsFiniteSet(S) /\ Cardinality(S) \in Nat /\ Cardinality(S) <= Cardinality(A) + Cardinality(B)
<1>1. /\ IsFiniteSet(A \cup B)
      /\ Cardinality(A \cup B) = Cardinality(A) + Cardinality(B) - Cardinality(A \cap B)
    BY FS_Union
<1>2. IsFiniteSet(A \cap B)
    BY FS_Intersection
<1>3. IsFiniteSet(S) /\ Cardinality(S) <= Cardinality(A \cup B)
    BY <1>1, FS_Subset
<1> QED
    BY <1>1, <1>2, <1>3, FS_CardinalityType

\* The changes that can still add to a window.
LEMMA EarlyCount ==
    ASSUME NEW k
    PROVE  /\ IsFiniteSet(Early(k)) /\ Cardinality(Early(k)) \in Nat
           /\ Cardinality(Early(k)) <= Cardinality(Changes)
BY Numbers, FS_Subset, FS_CardinalityType DEF Early

\* A window never counts more than its quota.
LEMMA WindowIsSmall ==
    ASSUME LimiterTypes, NEW k \in Scopes, WindowBlocks(k)
    PROVE  bucket[k].count <= Quota(k)
<1>1. bucket[k].count \in Nat
    BY DEF LimiterTypes, BucketRow
<1> QED
    BY <1>1, EarlyCount, Numbers DEF WindowBlocks, Quota

-----------------------------------------------------------------------------
(* A failure *)

\* The log gets longer by the present.
LEMMA LogGrows ==
    ASSUME LimiterTypes, Recorded, failures' = Append(failures, tick), tick' = tick
    PROVE  /\ failures' \in Seq(Nat) /\ Len(failures') = Len(failures) + 1 /\ Len(failures) \in Nat
           /\ failures'[Len(failures) + 1] = tick
           /\ \A i \in 1 .. Len(failures) : failures'[i] = failures[i] /\ failures[i] \in Nat
           /\ Recorded'
<1>1. /\ failures' \in Seq(Nat) /\ Len(failures') = Len(failures) + 1 /\ Len(failures) \in Nat
      /\ failures'[Len(failures) + 1] = tick
      /\ \A i \in 1 .. Len(failures) : failures'[i] = failures[i] /\ failures[i] \in Nat
    BY DEF LimiterTypes
<1>2. \A i \in 1 .. Len(failures') : i \in 1 .. Len(failures) \/ i = Len(failures) + 1
    BY <1>1
<1>3. \A i \in 1 .. Len(failures') : failures'[i] <= tick
    BY <1>1, <1>2 DEF Recorded, LimiterTypes
<1>4. \A i, j \in 1 .. Len(failures') : i <= j => failures'[i] <= failures'[j]
  <2> SUFFICES ASSUME NEW i \in 1 .. Len(failures'), NEW j \in 1 .. Len(failures'), i <= j
               PROVE  failures'[i] <= failures'[j]
      OBVIOUS
  <2>1. CASE j = Len(failures) + 1
      BY <1>1, <1>3, <2>1
  <2>2. CASE j \in 1 .. Len(failures)
      BY <1>1, <1>2, <2>2 DEF Recorded
  <2> QED
      BY <1>2, <2>1, <2>2
<1> QED
    BY <1>1, <1>3, <1>4 DEF Recorded

\* A failure that opens a window: what came before it and can still be joined
\* with it is the window it closes.
LEMMA WindowOpens ==
    ASSUME LimiterTypes, Recorded, NEW k \in Scopes, KeyInv(k), NEW at \in Nat,
           tick - MaxDelay <= at, at <= tick, failures' = Append(failures, tick), tick' = tick,
           bucket[k].count = 0 \/ bucket[k].start <= at - Window,
           bucket'[k] = [count |-> 1, start |-> at, blocked |-> 0]
    PROVE  /\ WindowCounts(k)' /\ WindowBlocks(k)'
           /\ Cardinality(Previous(k)') <= Quota(k)
<1> DEFINE n == Len(failures)
           b == bucket[k]
<1>0. /\ b.count \in Nat /\ b.start \in Nat /\ tick \in Nat
      /\ b.count <= n /\ (b.count = 0 => n = 0)
      /\ b.count > 0 => failures[n - b.count + 1] <= b.start + MaxDelay
    BY DEF LimiterTypes, BucketRow, KeyInv, WindowCounts, FirstFailure
<1>1. /\ Len(failures') = n + 1 /\ n \in Nat /\ failures'[n + 1] = tick
      /\ \A i \in 1 .. n : failures'[i] = failures[i] /\ failures[i] \in Nat
    BY LogGrows
<1>2. bucket'[k].count = 1 /\ bucket'[k].start = at
    OBVIOUS
<1> HIDE DEF n, b
<1>3. FirstFailure(k)' = tick
    BY <1>1, <1>2 DEF FirstFailure
<1>4. WindowCounts(k)'
    BY <1>0, <1>1, <1>2, <1>3, Numbers DEF WindowCounts
<1>5. WindowBlocks(k)'
    BY <1>2, Numbers DEF WindowBlocks
<1>6. \A i \in Previous(k)' : i \in 1 .. n /\ failures[i] + Window - MaxDelay > tick
    BY <1>1, <1>2, <1>3 DEF Previous
<1>7. \A i \in Previous(k)' : i \in Nat /\ n - b.count < i /\ i <= n
  <2> SUFFICES ASSUME NEW i \in Previous(k)' PROVE n - b.count < i
      BY <1>1, <1>6
  <2>0. i \in 1 .. n /\ failures[i] \in Nat /\ failures[i] + Window - MaxDelay > tick
      BY <1>1, <1>6
  <2>1. CASE b.count = 0
      BY <1>0, <2>0, <2>1
  <2>2. CASE b.count > 0
    <3>1. b.start <= at - Window
        BY <2>2 DEF b
    <3>2. n - b.count + 1 \in 1 .. n
        BY <1>0, <1>1, <2>2
    <3>3. failures[n - b.count + 1] \in Nat
        BY <1>1, <3>2
    <3> DEFINE first == failures[n - b.count + 1]
    <3>4. first <= b.start + MaxDelay /\ first \in Nat
        BY <1>0, <2>2, <3>3
    <3>5. i <= n - b.count + 1 => failures[i] <= first
        BY <2>0, <3>2 DEF Recorded, n
    <3> HIDE DEF first
    <3>6. failures[i] > first
        BY <1>0, <2>0, <3>1, <3>4, Numbers
    <3> QED
        BY <1>0, <1>1, <2>0, <3>4, <3>5, <3>6
  <2> QED
      BY <1>0, <2>1, <2>2
<1>8. Cardinality(Previous(k)') <= b.count
  <2>1. n - b.count \in Nat /\ n - b.count <= n /\ n - (n - b.count) = b.count
      BY <1>0, <1>1
  <2> QED
      BY <1>1, <1>7, <2>1, PlacesCount
<1>9. b.count <= Quota(k)
    BY WindowIsSmall DEF KeyInv, b
<1>10. Cardinality(Previous(k)') \in Nat
  <2>1. n - b.count \in Nat /\ n - b.count <= n
      BY <1>0, <1>1
  <2> QED
      BY <1>1, <1>7, <2>1, PlacesCount
<1> QED
    BY <1>0, <1>4, <1>5, <1>8, <1>9, <1>10, Numbers

\* A failure in a window: past the limit it is that of a change admitted before.
LEMMA WindowGrows ==
    ASSUME LimiterTypes, Recorded, NEW k \in Scopes, KeyInv(k), NEW at \in Nat,
           failures' = Append(failures, tick), tick' = tick,
           bucket[k].count # 0, bucket[k].start > at - Window,
           bucket'[k] = [count |-> bucket[k].count + 1, start |-> bucket[k].start,
                         blocked |-> IF BlockedFrom(bucket[k].count + 1, MaxAttempts[k])
                                     THEN bucket[k].start + Window ELSE 0],
           admitted \in [Changes -> Nat],
           \A c \in Changes : admitted'[c] # 0 => admitted'[c] = admitted[c],
           \/ bucket[k].blocked <= at
           \/ \E c \in Changes : admitted[c] = at /\ at # 0 /\ admitted'[c] = 0
    PROVE  /\ WindowCounts(k)' /\ WindowBlocks(k)'
           /\ Cardinality(Previous(k)') <= Quota(k)
<1> DEFINE n == Len(failures)
           b == bucket[k]
<1>0. /\ b.count \in Nat /\ b.start \in Nat /\ b.blocked \in Nat /\ b.count > 0 /\ b.count <= n
      /\ b.start <= FirstFailure(k) /\ FirstFailure(k) <= b.start + MaxDelay
    BY DEF LimiterTypes, BucketRow, KeyInv, WindowCounts
<1>1. /\ Len(failures') = n + 1 /\ n \in Nat /\ failures'[n + 1] = tick
      /\ \A i \in 1 .. n : failures'[i] = failures[i] /\ failures[i] \in Nat
    BY LogGrows
<1>2. /\ bucket'[k].count = b.count + 1 /\ bucket'[k].start = b.start
      /\ b.count + 1 >= MaxAttempts[k] => bucket'[k].blocked = b.start + Window
    BY DEF BlockedFrom
<1> HIDE DEF n, b
<1>3. FirstFailure(k)' = FirstFailure(k)
  <2>1. n - b.count + 1 \in 1 .. n
      BY <1>0, <1>1
  <2>2. (n + 1) - (b.count + 1) + 1 = n - b.count + 1
      BY <1>0, <1>1
  <2> QED
      BY <1>1, <1>2, <2>1, <2>2 DEF FirstFailure, n, b
<1>4. WindowCounts(k)'
    BY <1>0, <1>1, <1>2, <1>3 DEF WindowCounts
<1>5. Early(k)' \subseteq Early(k)
    BY <1>2 DEF Early, b
<1>6. WindowBlocks(k)'
  <2> SUFFICES ASSUME b.count + 1 >= MaxAttempts[k]
               PROVE  b.count + 1 + Cardinality(Early(k)') <= Quota(k)
      BY <1>2 DEF WindowBlocks
  <2>0. /\ IsFiniteSet(Early(k)) /\ Cardinality(Early(k)) \in Nat
        /\ Cardinality(Early(k)) <= Cardinality(Changes)
        /\ IsFiniteSet(Early(k)') /\ Cardinality(Early(k)') \in Nat
        /\ Cardinality(Early(k)') <= Cardinality(Early(k))
      BY <1>5, EarlyCount, FS_Subset, FS_CardinalityType
  <2>1. CASE b.count < MaxAttempts[k]
    <3>1. b.count + 1 = MaxAttempts[k]
        BY <1>0, <2>1, Numbers
    <3> QED
        BY <2>0, <3>1, Numbers DEF Quota
  <2>2. CASE b.count >= MaxAttempts[k]
    <3>1. b.blocked = b.start + Window /\ b.count + Cardinality(Early(k)) <= Quota(k)
        BY <2>2 DEF KeyInv, WindowBlocks, b
    <3>2. b.blocked > at
        BY <1>0, <3>1, Numbers DEF b
    <3>3. PICK c \in Changes : admitted[c] = at /\ at # 0 /\ admitted'[c] = 0
        BY <1>0, <3>2 DEF b
    <3>4. c \in Early(k) /\ c \notin Early(k)'
        BY <1>0, <3>1, <3>2, <3>3 DEF Early, b
    <3>5. Early(k)' \subseteq Early(k) \ {c}
        BY <1>5, <3>4
    <3>6. IsFiniteSet(Early(k) \ {c}) /\ Cardinality(Early(k) \ {c}) = Cardinality(Early(k)) - 1
        BY <2>0, <3>4, FS_RemoveElement
    <3>7. Cardinality(Early(k)') <= Cardinality(Early(k)) - 1
        BY <3>5, <3>6, FS_Subset
    <3> DEFINE e == Cardinality(Early(k))
               f == Cardinality(Early(k)')
    <3>8. e \in Nat /\ f \in Nat /\ f <= e - 1 /\ b.count + e <= Quota(k)
        BY <2>0, <3>1, <3>7
    <3> HIDE DEF e, f
    <3>9. b.count + 1 + f <= Quota(k)
        BY <1>0, <3>8, Numbers
    <3> QED
        BY <3>9 DEF f
  <2> QED
      BY <1>0, <2>1, <2>2, Numbers
<1>7. Previous(k)' = Previous(k)
  <2>1. \A m \in Nat : (n + 1) - (m + 1) = n - m /\ (\A i \in 1 .. n - m : i \in 1 .. n)
      BY <1>1
  <2>2. (n + 1) - (b.count + 1) = n - b.count /\ (\A i \in 1 .. n - b.count : i \in 1 .. n)
      BY <1>0, <2>1
  <2> QED
      BY <1>1, <1>2, <1>3, <2>2 DEF Previous, n, b
<1> QED
    BY <1>0, <1>4, <1>6, <1>7 DEF KeyInv, b

\* An interval that the new failure is in joins the window with what it can
\* still be joined with, and nothing else.
LEMMA IntervalsHold ==
    ASSUME LimiterTypes, Recorded, NEW k \in Scopes, KeyInv(k),
           failures' = Append(failures, tick), tick' = tick,
           bucket'[k].count \in Nat, bucket'[k].count > 0, bucket'[k].count <= Quota(k),
           WindowCounts(k)', Cardinality(Previous(k)') <= Quota(k), NEW t \in Int
    PROVE  Cardinality(Within(t)') <= 2 * Quota(k)
<1> DEFINE m == Len(failures')
           c == bucket'[k].count
           L == Window - MaxDelay
           last == {i \in 1 .. m : m - c < i}
<1>1. /\ failures' \in Seq(Nat) /\ m = Len(failures) + 1 /\ Len(failures) \in Nat
      /\ failures'[m] = tick
      /\ \A i \in 1 .. Len(failures) : failures'[i] = failures[i] /\ failures[i] \in Nat
      /\ \A i \in 1 .. m : failures'[i] <= tick
    BY LogGrows DEF Recorded
<1>2. /\ DOMAIN failures' = 1 .. m /\ DOMAIN failures = 1 .. Len(failures)
      /\ \A i \in 1 .. m : failures'[i] \in Nat
    BY <1>1 DEF LimiterTypes
<1>3. /\ m \in Nat /\ c \in Nat /\ c > 0 /\ c <= m /\ c <= Quota(k) /\ tick \in Nat /\ L \in Nat
      /\ Quota(k) \in Nat
    BY <1>1, Numbers DEF WindowCounts, LimiterTypes
<1> HIDE DEF m, c, L
<1>4. CASE m \notin Within(t)'
  <2>1. \A i \in Within(t)' : i \in 1 .. Len(failures)
      BY <1>1, <1>2, <1>4 DEF Within
  <2>2. Within(t)' = Within(t)
    <3>1. \A i \in Within(t)' : i \in Within(t)
        BY <1>1, <1>2, <2>1 DEF Within
    <3>2. \A i \in Within(t) : i \in Within(t)'
        BY <1>1, <1>2 DEF Within
    <3> QED
        BY <3>1, <3>2
  <2> QED
      BY <2>2 DEF KeyInv
<1>5. CASE m \in Within(t)'
  <2>1. tick < t + L
      BY <1>1, <1>5 DEF Within, L
  <2>2. FirstFailure(k)' <= tick /\ FirstFailure(k)' \in Nat
    <3>1. m - c + 1 \in 1 .. m
        BY <1>3
    <3> QED
        BY <1>1, <1>2, <3>1 DEF FirstFailure, m, c
  <2>3. Within(t)' \subseteq Previous(k)' \cup last
    <3>0. \A i \in Within(t)' : i \in 1 .. m /\ t <= failures'[i] /\ failures'[i] \in Nat
        BY <1>2 DEF Within
    <3> SUFFICES ASSUME NEW i \in Within(t)', i <= m - c PROVE i \in Previous(k)'
        BY <1>3, <3>0
    <3> DEFINE x == failures'[i]
               first == FirstFailure(k)'
    <3>1. i \in 1 .. m /\ t <= x /\ x \in Nat /\ first <= tick /\ first \in Nat
        BY <2>2, <3>0
    <3>2. i \in 1 .. m - c
        BY <1>3, <3>1
    <3> HIDE DEF x, first
    <3>3. x + L > first
        BY <1>3, <2>1, <3>1
    <3>4. failures'[i] + Window - MaxDelay > FirstFailure(k)'
        BY <3>1, <3>3, Numbers DEF L, x, first
    <3> QED
        BY <3>2, <3>4 DEF Previous, m, c
  <2>4. IsFiniteSet(last) /\ Cardinality(last) \in Nat /\ Cardinality(last) <= c
    <3>1. m - c \in Nat /\ m - c <= m /\ m - (m - c) = c
        BY <1>3
    <3>2. \A i \in last : i \in Nat /\ m - c < i /\ i <= m
        BY <1>3
    <3> HIDE DEF last
    <3> QED
        BY <1>3, <3>1, <3>2, PlacesCount
  <2>5. IsFiniteSet(Previous(k)') /\ Cardinality(Previous(k)') \in Nat
    <3>1. \A i \in Previous(k)' : i \in Nat /\ 0 < i /\ i <= m - c
        BY <1>3 DEF Previous, m, c
    <3>2. m - c \in Nat /\ 0 \in Nat /\ 0 <= m - c
        BY <1>3
    <3> QED
        BY <3>1, <3>2, PlacesCount
  <2> HIDE DEF last
  <2>6. /\ Cardinality(Within(t)') \in Nat
        /\ Cardinality(Within(t)') <= Cardinality(Previous(k)') + Cardinality(last)
      BY <2>3, <2>4, <2>5, CoverCount
  <2> QED
      BY <1>3, <2>4, <2>5, <2>6
<1> QED
    BY <1>4, <1>5

\* A failure is recorded: by a login that no key blocks, or by a change that was
\* admitted before.
LEMMA FailureStep ==
    ASSUME LimiterInv, NEW at \in Nat, tick - MaxDelay <= at, at <= tick,
           RecordLoginFailure(at), UNCHANGED <<tick, cleared>>,
           admitted' \in [Changes -> Nat],
           \A c \in Changes : admitted'[c] # 0 => admitted'[c] = admitted[c],
           \/ \A k \in Scopes : bucket[k].blocked <= at
           \/ \E c \in Changes : admitted[c] = at /\ at # 0 /\ admitted'[c] = 0
    PROVE  LimiterInv'
<1>0. LimiterTypes /\ Recorded /\ failures' = Append(failures, tick) /\ tick' = tick
    BY DEF LimiterInv, RecordLoginFailure
<1>1. \A k \in Scopes : bucket'[k] = RecordBucketAttempt(bucket[k], MaxAttempts[k], at)
    BY DEF RecordLoginFailure
<1>2. \A k \in Scopes : bucket[k] \in BucketRow /\ MaxAttempts[k] \in Nat
    BY <1>0, Numbers DEF LimiterTypes
<1>3. \A k \in Scopes : bucket'[k] \in BucketRow /\ bucket'[k].count > 0
  <2> SUFFICES ASSUME NEW k \in Scopes PROVE bucket'[k] \in BucketRow /\ bucket'[k].count > 0
      OBVIOUS
  <2> DEFINE blocked == IF BlockedFrom(bucket[k].count + 1, MaxAttempts[k])
                        THEN bucket[k].start + Window ELSE 0
  <2>1. blocked \in Nat /\ bucket[k].count + 1 \in Nat /\ bucket[k].count + 1 > 0 /\ bucket[k].start \in Nat
      BY <1>2, Numbers DEF BucketRow
  <2>2. \/ bucket'[k] = [count |-> 1, start |-> at, blocked |-> 0]
        \/ bucket'[k] = [count |-> bucket[k].count + 1, start |-> bucket[k].start, blocked |-> blocked]
      BY <1>1 DEF RecordBucketAttempt
  <2> HIDE DEF blocked
  <2> QED
      BY <2>1, <2>2 DEF BucketRow
<1>4. LimiterTypes'
  <2>1. bucket' \in [Scopes -> BucketRow]
      BY <1>3 DEF RecordLoginFailure
  <2> QED
      BY <1>0, <2>1, LogGrows DEF LimiterTypes
<1>5. DelaysBounded' /\ Recorded'
    BY <1>0, LogGrows DEF LimiterInv, DelaysBounded
<1>6. ASSUME NEW k \in Scopes, k = "IP" \/ ~cleared'
      PROVE  KeyInv(k)'
  <2>0. KeyInv(k)
      BY <1>6 DEF LimiterInv
  <2>1. WindowCounts(k)' /\ WindowBlocks(k)' /\ Cardinality(Previous(k)') <= Quota(k)
    <3>1. CASE bucket[k].count = 0 \/ bucket[k].start <= at - Window
      <4>1. bucket'[k] = [count |-> 1, start |-> at, blocked |-> 0]
          BY <1>1, <3>1 DEF RecordBucketAttempt
      <4> QED
          BY <1>0, <2>0, <3>1, <4>1, WindowOpens
    <3>2. CASE bucket[k].count # 0 /\ ~(bucket[k].start <= at - Window)
      <4>1. bucket'[k] = [count |-> bucket[k].count + 1, start |-> bucket[k].start,
                          blocked |-> IF BlockedFrom(bucket[k].count + 1, MaxAttempts[k])
                                      THEN bucket[k].start + Window ELSE 0]
          BY <1>1, <3>2 DEF RecordBucketAttempt
      <4>2. bucket[k].start > at - Window
          BY <1>2, <3>2, Numbers DEF BucketRow
      <4>3. admitted \in [Changes -> Nat]
          BY <1>0 DEF LimiterTypes
      <4> QED
          BY <1>0, <2>0, <3>2, <4>1, <4>2, <4>3, WindowGrows
    <3> QED
        BY <3>1, <3>2
  <2>2. bucket'[k].count <= Quota(k)
    <3>1. bucket'[k].count \in Nat
        BY <1>3 DEF BucketRow
    <3>2. Cardinality(Early(k)') \in Nat
        BY Numbers, FS_Subset, FS_CardinalityType DEF Early
    <3> QED
        BY <2>1, <3>1, <3>2, Numbers DEF WindowBlocks, Quota
  <2>3. \A t \in Int : Cardinality(Within(t)') <= 2 * Quota(k)
      BY <1>0, <1>3, <2>0, <2>1, <2>2, IntervalsHold DEF BucketRow
  <2>4. Quota(k)' = Quota(k)
      BY DEF Quota
  <2> QED
      BY <2>1, <2>3, <2>4 DEF KeyInv
<1> QED
    BY <1>4, <1>5, <1>6 DEF LimiterInv

-----------------------------------------------------------------------------
(* The other steps *)

\* What the bucket of a key counts, while the log stays as it is: nobody that
\* can still add to a full window joins in.
LEMMA KeyStays ==
    ASSUME NEW k \in Scopes, KeyInv(k), UNCHANGED failures, bucket'[k] = bucket[k],
           bucket[k].count \in Nat,
           bucket[k].count >= MaxAttempts[k] => Early(k)' \subseteq Early(k)
    PROVE  KeyInv(k)'
<1>1. WindowCounts(k)'
    BY DEF KeyInv, WindowCounts, FirstFailure
<1>2. Previous(k)' = Previous(k) /\ (\A t \in Int : Within(t)' = Within(t)) /\ Quota(k)' = Quota(k)
    BY DEF Previous, FirstFailure, Within, Quota
<1>3. WindowBlocks(k)'
  <2> SUFFICES ASSUME bucket[k].count >= MaxAttempts[k]
               PROVE  /\ bucket[k].blocked = bucket[k].start + Window
                      /\ bucket[k].count + Cardinality(Early(k)') <= Quota(k)
      BY <1>2 DEF WindowBlocks
  <2> DEFINE e == Cardinality(Early(k))
             f == Cardinality(Early(k)')
  <2>1. bucket[k].blocked = bucket[k].start + Window /\ bucket[k].count + e <= Quota(k)
      BY DEF KeyInv, WindowBlocks
  <2>2. e \in Nat /\ f \in Nat /\ f <= e
      BY EarlyCount, FS_Subset, FS_CardinalityType
  <2>3. Quota(k) \in Nat
      BY Numbers
  <2> HIDE DEF e, f
  <2>4. bucket[k].count + f <= Quota(k)
      BY <2>1, <2>2, <2>3
  <2> QED
      BY <2>1, <2>4 DEF f
<1> QED
    BY <1>1, <1>2, <1>3 DEF KeyInv

\* Every step keeps the invariant.
LEMMA LimiterStep == LimiterInv /\ [LimiterNext]_limiterVars => LimiterInv'
<1> SUFFICES ASSUME LimiterInv, [LimiterNext]_limiterVars PROVE LimiterInv'
    OBVIOUS
<1>0. /\ LimiterTypes /\ DelaysBounded /\ Recorded
      /\ \A k \in Scopes : bucket[k] \in BucketRow /\ bucket[k].blocked \in Nat
      /\ admitted \in [Changes -> Nat] /\ tick \in Nat /\ tick >= Window
    BY DEF LimiterInv, LimiterTypes, BucketRow
<1>1. \A at \in tick - MaxDelay .. tick :
         /\ at \in Nat /\ tick - MaxDelay <= at /\ at <= tick
         /\ Blocking(at) = {} => \A k \in Scopes : bucket[k].blocked <= at
  <2> SUFFICES ASSUME NEW at \in tick - MaxDelay .. tick
               PROVE  /\ at \in Nat /\ tick - MaxDelay <= at /\ at <= tick
                      /\ Blocking(at) = {} => \A k \in Scopes : bucket[k].blocked <= at
      OBVIOUS
  <2>1. at \in Nat /\ tick - MaxDelay <= at /\ at <= tick
      BY <1>0, Numbers
  <2>2. ASSUME Blocking(at) = {}, NEW k \in Scopes PROVE bucket[k].blocked <= at
    <3>1. ~(bucket[k].blocked > at)
        BY <2>2 DEF Blocking
    <3> QED
        BY <1>0, <2>1, <3>1
  <2> QED
      BY <2>1, <2>2
<1>2. ASSUME NEW at \in tick - MaxDelay .. tick, LoginFails(at)
      PROVE  LimiterInv'
  <2>1. /\ Blocking(at) = {} /\ RecordLoginFailure(at) /\ UNCHANGED <<tick, cleared>>
        /\ admitted' = admitted
      BY <1>2 DEF LoginFails
  <2> QED
      BY <1>0, <1>1, <2>1, FailureStep
<1>3. ASSUME NEW c \in Changes, ChangeFails(c)
      PROVE  LimiterInv'
  <2>1. /\ admitted[c] # 0 /\ RecordLoginFailure(admitted[c]) /\ UNCHANGED <<tick, cleared>>
        /\ admitted' = [admitted EXCEPT ![c] = 0]
      BY <1>3 DEF ChangeFails
  <2>2. /\ admitted' \in [Changes -> Nat] /\ admitted'[c] = 0
        /\ \A x \in Changes : admitted'[x] # 0 => admitted'[x] = admitted[x]
      BY <1>0, <2>1
  <2>3. admitted[c] \in Nat /\ tick - MaxDelay <= admitted[c] /\ admitted[c] <= tick
      BY <1>0, <2>1 DEF DelaysBounded
  <2> QED
      BY <2>1, <2>2, <2>3, FailureStep
<1>4. ASSUME UNCHANGED failures, tick' \in Nat, tick' >= tick, DelaysBounded',
             admitted' \in [Changes -> Nat], cleared' \in BOOLEAN,
             bucket' \in [Scopes -> BucketRow],
             \A k \in Scopes : k = "IP" \/ ~cleared' =>
                /\ k = "IP" \/ ~cleared
                /\ bucket'[k] = bucket[k]
                /\ bucket[k].count >= MaxAttempts[k] => Early(k)' \subseteq Early(k)
      PROVE  LimiterInv'
  <2>1. LimiterTypes'
      BY <1>0, <1>4, Numbers DEF LimiterTypes
  <2>2. Recorded'
    <3>1. \A i \in 1 .. Len(failures) : failures[i] \in Nat /\ failures[i] <= tick
        BY <1>0 DEF LimiterTypes, Recorded
    <3>2. failures' = failures
        BY <1>4
    <3>3. \A i \in 1 .. Len(failures') : failures'[i] <= tick'
        BY <1>0, <1>4, <3>1, <3>2
    <3> QED
        BY <1>0, <3>2, <3>3 DEF Recorded
  <2>3. ASSUME NEW k \in Scopes, k = "IP" \/ ~cleared' PROVE KeyInv(k)'
    <3>1. KeyInv(k) /\ bucket[k].count \in Nat
        BY <1>0, <1>4, <2>3 DEF LimiterInv, BucketRow
    <3> QED
        BY <1>4, <2>3, <3>1, KeyStays
  <2> QED
      BY <1>4, <2>1, <2>2, <2>3 DEF LimiterInv
<1>5. ClearLoginIdentifierRateLimits =>
          bucket' \in [Scopes -> BucketRow] /\ bucket'["IP"] = bucket["IP"]
  <2>1. NoBucket \in BucketRow
      BY DEF NoBucket, BucketRow
  <2> QED
      BY <1>0, <2>1 DEF ClearLoginIdentifierRateLimits, Scopes, LimiterTypes
<1>6. ASSUME NEW at \in tick - MaxDelay .. tick, LoginSucceeds(at)
      PROVE  LimiterInv'
  <2>1. /\ ClearLoginIdentifierRateLimits /\ cleared' = TRUE /\ UNCHANGED <<tick, admitted, failures>>
      BY <1>6 DEF LoginSucceeds
  <2>2. Early("IP")' = Early("IP")
      BY <1>5, <2>1 DEF Early
  <2> QED
      BY <1>0, <1>4, <1>5, <2>1, <2>2 DEF DelaysBounded
<1>7. ASSUME NEW c \in Changes, NEW at \in tick - MaxDelay .. tick, AdmitChange(c, at)
      PROVE  LimiterInv'
  <2>1. /\ admitted[c] = 0 /\ Blocking(at) = {} /\ admitted' = [admitted EXCEPT ![c] = at]
        /\ UNCHANGED <<tick, bucket, failures, cleared>>
      BY <1>7 DEF AdmitChange
  <2>2. /\ admitted' \in [Changes -> Nat] /\ admitted'[c] = at
        /\ \A x \in Changes \ {c} : admitted'[x] = admitted[x]
      BY <1>0, <1>1, <2>1
  <2>3. DelaysBounded'
      BY <1>0, <1>1, <2>1, <2>2 DEF DelaysBounded
  <2>4. ASSUME NEW k \in Scopes, k = "IP" \/ ~cleared, bucket[k].count >= MaxAttempts[k]
        PROVE  Early(k)' \subseteq Early(k)
    <3>1. bucket[k].blocked = bucket[k].start + Window
        BY <2>4 DEF LimiterInv, KeyInv, WindowBlocks
    <3>2. ~(at < bucket[k].start + Window)
        BY <1>0, <1>1, <2>1, <3>1
    <3> QED
        BY <2>1, <2>2, <3>2 DEF Early
  <2> QED
      BY <1>0, <1>4, <2>1, <2>2, <2>3, <2>4 DEF LimiterTypes
<1>8. ASSUME NEW c \in Changes, ChangeEnds(c)
      PROVE  LimiterInv'
  <2>1. /\ admitted' = [admitted EXCEPT ![c] = 0] /\ UNCHANGED <<tick, failures>>
        /\ \/ ClearLoginIdentifierRateLimits /\ cleared' = TRUE
           \/ UNCHANGED <<bucket, cleared>>
      BY <1>8 DEF ChangeEnds
  <2>2. /\ admitted' \in [Changes -> Nat]
        /\ \A x \in Changes : admitted'[x] # 0 => admitted'[x] = admitted[x]
      BY <1>0, <2>1
  <2>3. DelaysBounded'
      BY <1>0, <2>1, <2>2 DEF DelaysBounded
  <2>4. \A k \in Scopes : bucket'[k] = bucket[k] => Early(k)' \subseteq Early(k)
      BY <2>2 DEF Early
  <2>5. CASE ClearLoginIdentifierRateLimits /\ cleared' = TRUE
    <3>1. \A k \in Scopes : k = "IP" \/ ~cleared' => k = "IP"
        BY <2>5
    <3> QED
        BY <1>0, <1>4, <1>5, <2>1, <2>2, <2>3, <2>4, <2>5, <3>1
  <2>6. CASE UNCHANGED <<bucket, cleared>>
      BY <1>0, <1>4, <2>1, <2>2, <2>3, <2>4, <2>6 DEF LimiterTypes
  <2> QED
      BY <2>1, <2>5, <2>6
<1>9. CASE LimiterTick
  <2>1. /\ tick' = tick + 1 /\ UNCHANGED <<bucket, admitted, failures, cleared>>
        /\ \A c \in Changes : admitted[c] # 0 => tick < admitted[c] + MaxDelay
      BY <1>9 DEF LimiterTick
  <2>2. DelaysBounded'
      BY <1>0, <2>1, Numbers DEF DelaysBounded
  <2>3. \A k \in Scopes : Early(k)' = Early(k)
      BY <2>1 DEF Early
  <2> QED
      BY <1>0, <1>4, <2>1, <2>2, <2>3 DEF LimiterTypes
<1>10. CASE UNCHANGED limiterVars
  <2>1. UNCHANGED <<tick, bucket, admitted, failures, cleared>>
      BY <1>10 DEF limiterVars
  <2>2. \A k \in Scopes : Early(k)' = Early(k)
      BY <2>1 DEF Early
  <2>3. DelaysBounded'
      BY <1>0, <2>1 DEF DelaysBounded
  <2> QED
      BY <1>0, <1>4, <2>1, <2>2, <2>3 DEF LimiterTypes
<1> QED
    BY <1>2, <1>3, <1>6, <1>7, <1>8, <1>9, <1>10 DEF LimiterNext

\* The invariant holds at the start.
LEMMA LimiterStarts == LimiterInit => LimiterInv
<1> SUFFICES ASSUME LimiterInit PROVE LimiterInv
    OBVIOUS
<1>1. NoBucket \in BucketRow /\ NoBucket.count = 0
    BY DEF NoBucket, BucketRow
<1>2. LimiterTypes /\ DelaysBounded /\ Recorded
  <2>1. failures = <<>> /\ failures \in Seq(Nat) /\ Len(failures) = 0
      BY DEF LimiterInit
  <2>2. tick \in Nat /\ tick >= Window /\ cleared \in BOOLEAN
    <3>1. tick = Window
        BY DEF LimiterInit
    <3>2. tick \in Nat /\ tick >= Window
        BY <3>1, Numbers
    <3>3. cleared \in BOOLEAN
        BY DEF LimiterInit
    <3> QED
        BY <3>2, <3>3
  <2>3. bucket \in [Scopes -> BucketRow] /\ admitted \in [Changes -> Nat]
      BY <1>1 DEF LimiterInit
  <2>4. DelaysBounded
      BY DEF LimiterInit, DelaysBounded
  <2>5. Recorded
      BY <2>1 DEF Recorded
  <2> QED
      BY <2>1, <2>2, <2>3, <2>4, <2>5 DEF LimiterTypes
<1>3. failures = <<>> /\ Len(failures) = 0 /\ DOMAIN failures = {} /\ \A k \in Scopes : bucket[k].count = 0
    BY <1>1 DEF LimiterInit
<1>4. \A t \in Int : Within(t) = {}
    BY <1>3 DEF Within
<1>5. ASSUME NEW k \in Scopes PROVE KeyInv(k)
  <2>1. bucket[k].count = 0 /\ MaxAttempts[k] >= 2 /\ MaxAttempts[k] \in Nat /\ Quota(k) \in Nat
      BY <1>3, Numbers
  <2>2. WindowCounts(k) /\ WindowBlocks(k)
      BY <1>3, <2>1 DEF WindowCounts, WindowBlocks
  <2>3. \A t \in Int : Cardinality(Within(t)) = 0
      BY <1>4, FS_EmptySet
  <2>4. 0 <= 2 * Quota(k) /\ ~(bucket[k].count > 0)
      BY <2>1
  <2> QED
      BY <2>2, <2>3, <2>4 DEF KeyInv
<1> QED
    BY <1>2, <1>5 DEF LimiterInv

\* The invariant holds always.
LEMMA LimiterInvariance == LimiterSpec => []LimiterInv
BY LimiterStarts, LimiterStep, PTL DEF LimiterSpec

\* However attempts straddle window boundaries, wait for the locks or mix with
\* successes, an interval of a window's length less the longest wait lets
\* through at most twice the quota of each key (auth/rateLimit.ts).
THEOREM AttemptsBounded == LimiterSpec => []FailuresBounded
<1>1. ASSUME LimiterInv PROVE FailuresBounded
  <2>1. tick \in Nat /\ Window \in Nat
      BY <1>1, Numbers DEF LimiterInv, LimiterTypes
  <2>2. \A t : FailuresFrom(t) = Cardinality(Within(t))
      BY DEF FailuresFrom, Within
  <2>3. \A t \in Window .. tick : t \in Int
      BY <2>1
  <2> QED
      BY <1>1, <2>2, <2>3 DEF FailuresBounded, LimiterInv, KeyInv, Quota
<1> QED
    BY <1>1, LimiterInvariance, PTL

\* A client that waits for the time in Retry-After is not refused for the same
\* blocks again: the seconds are rounded up and cover all three keys.
THEOREM RetryAfterCorrect == LimiterSpec => []RetryAfterIsEnough
<1>1. LimiterInv => RetryAfterIsEnough
    BY RetryCovers DEF LimiterInv
<1> QED
    BY <1>1, LimiterInvariance, PTL
=============================================================================
