------------------------- MODULE SpendingLimitProofs -------------------------
(***************************************************************************)
(* Proofs about limited keys, for every capacity, period, fill and cap.    *)
(***************************************************************************)
EXTENDS SpendingLimit, RateLimitProofs

-----------------------------------------------------------------------------
(* Invariants of a spending key.                                           *)

LEMMA InitialBucket ==
    ASSUME Init
    PROVE  ConfiguredBucket(bucket) /\ bucket.last_update = 0
<1>1. PICK c \in Capacities, p \in Periods, fill \in FillLevels :
          bucket = [capacity |-> c, refill_period |-> p,
                    level |-> (c * fill) \div 10000, last_update |-> 0]
  BY DEF Init
<1>2. c \in U64 /\ c > 0 /\ p \in U64 /\ p > 0 /\ fill \in Nat /\ fill <= 10000
  <2>1. c \in 1 .. MaxU64
    BY SpendingAssumption
  <2>2. p \in 1 .. MaxU64
    BY SpendingAssumption
  <2>3. fill \in 0 .. 10000
    BY SpendingAssumption
  <2> QED
    BY <2>1, <2>2, <2>3, MaxU64Assumption DEF U64
<1> DEFINE lvl == (c * fill) \div 10000
<1>3. c \in Nat /\ c * fill \in Nat /\ c * fill <= c * 10000
  BY <1>2, ProductNat, ProductMonotone DEF U64
<1>4. lvl \in Nat /\ lvl * 10000 <= c * fill
  BY <1>3, DivTimes
<1>5. lvl <= c
  BY <1>3, <1>4
<1>6. lvl \in U64
  <2> HIDE DEF lvl
  <2> QED
    BY <1>2, <1>4, <1>5, MaxU64Assumption DEF U64
<1> HIDE DEF lvl
<1>7. bucket = [capacity |-> c, refill_period |-> p,
                level |-> lvl, last_update |-> 0]
  BY <1>1 DEF lvl
<1> QED
  BY <1>2, <1>5, <1>6, <1>7 DEF ConfiguredBucket, RateBucket

(* What an accepted spend does to the bucket of the key.                   *)
LEMMA SpentKeyBucket ==
    ASSUME TypeOK, NEW amount \in Nat, BucketAllows(bucket, amount, slot)
    PROVE  /\ ConfiguredBucket(BucketAfter(bucket, amount, slot))
           /\ BucketAfter(bucket, amount, slot).capacity = bucket.capacity
           /\ BucketAfter(bucket, amount, slot).refill_period = bucket.refill_period
           /\ BucketAfter(bucket, amount, slot).last_update = slot
           /\ BucketAfter(bucket, amount, slot).level + amount <= bucket.capacity
<1>1. Filled(bucket) /\ slot \in Nat /\ bucket.last_update <= slot
  BY DEF TypeOK, ConfiguredBucket, Filled
<1> QED
  BY <1>1, SpentBucket DEF TypeOK, ConfiguredBucket, Filled

(* The type invariant holds in every reachable state, for every choice of  *)
(* the constants: the level of a KeyState bucket stays within its capacity.*)
THEOREM TypeCorrect == Spec => []TypeOK
<1>1. Init => TypeOK
  <2> SUFFICES ASSUME Init PROVE TypeOK
    OBVIOUS
  <2>1. total_limit \in U64
    <3>1. total_limit \in TotalLimits
      BY DEF Init
    <3> QED
      BY <3>1, SpendingAssumption
  <2>2. 0 \in U64 /\ 0 \in Nat
    BY MaxU64Assumption DEF U64
  <2> QED
    BY InitialBucket, <2>1, <2>2 DEF Init, TypeOK
<1>2. TypeOK /\ [Next]_vars => TypeOK'
  <2> SUFFICES ASSUME TypeOK, [Next]_vars PROVE TypeOK'
    OBVIOUS
  <2>1. ASSUME NEW amount \in 1 .. bucket.capacity, Spend(amount)
        PROVE  TypeOK'
    <3>1. bucket.capacity \in Nat
      BY DEF TypeOK, ConfiguredBucket, RateBucket, U64
    <3>2. amount \in Nat
      BY <3>1
    <3>3. ConfiguredBucket(bucket') /\ bucket'.last_update = slot
      BY <2>1, <3>2, SpentKeyBucket DEF Spend
    <3>4. total_used' \in U64
      BY <2>1, <3>2, MaxU64Assumption
      DEF Spend, TotalAllows, TotalAfter, TypeOK, U64
    <3>5. window' \in [start : Nat, spent : Nat] /\ window'.start = window.start
      BY <2>1, <3>2 DEF Spend, TypeOK
    <3> QED
      BY <2>1, <3>2, <3>3, <3>4, <3>5 DEF Spend, TypeOK
  <2>2. CASE Advance
    <3>1. slot' \in Nat /\ slot' >= slot
      <4>1. MaxSlot \in Nat
        BY SpendingAssumption
      <4> QED
        BY <2>2, <4>1 DEF Advance, TypeOK
    <3>2. bucket.last_update \in Nat /\ window.start \in Nat
      BY DEF TypeOK, ConfiguredBucket, RateBucket
    <3> QED
      BY <2>2, <3>1, <3>2 DEF Advance, TypeOK
  <2>3. CASE Observe
    BY <2>3 DEF Observe, TypeOK
  <2>4. CASE UNCHANGED vars
    BY <2>4 DEF vars, TypeOK
  <2> QED
    BY <2>1, <2>2, <2>3, <2>4 DEF Next
<1> QED
  BY <1>1, <1>2, PTL DEF Spec

(* The strengthening of WindowBound: what was spent since the observer     *)
(* started, plus what is left in the bucket, is paid for by one capacity   *)
(* and by the refills up to the last update.  A bucket last touched before *)
(* the observer started has spent nothing since.                           *)
Potential ==
    \/ /\ bucket.last_update >= window.start
       /\ PaidFor(bucket, window.spent, window.start)
    \/ /\ bucket.last_update < window.start
       /\ window.spent = 0

(* The components of a typed state, as naturals.                           *)
LEMMA TypedParts ==
    ASSUME TypeOK
    PROVE  /\ slot \in Nat /\ bucket.capacity \in Nat /\ bucket.level \in Nat
           /\ bucket.refill_period \in Nat /\ bucket.last_update \in Nat
           /\ window.spent \in Nat /\ window.start \in Nat
           /\ bucket.level <= bucket.capacity /\ bucket.last_update <= slot
           /\ window.start <= slot /\ ConfiguredBucket(bucket)
BY DEF TypeOK, ConfiguredBucket, RateBucket, U64

(* Spending keeps the potential.                                           *)
LEMMA SpendKeepsPotential ==
    ASSUME TypeOK, Potential, NEW amount \in 1 .. bucket.capacity, Spend(amount)
    PROVE  Potential'
<1>1. /\ Filled(bucket) /\ slot \in Nat /\ amount \in Nat
      /\ window.spent \in Nat /\ window.start \in Nat
      /\ bucket.last_update <= slot /\ window.start <= slot
      /\ bucket.last_update \in Nat
  BY TypedParts DEF ConfiguredBucket, Filled
<1>2. /\ bucket' = BucketAfter(bucket, amount, slot)
      /\ bucket'.last_update = slot
      /\ window'.start = window.start /\ window'.spent = window.spent + amount
  BY <1>1, SpentKeyBucket DEF Spend, TypeOK
<1>3. CASE bucket.last_update >= window.start /\ PaidFor(bucket, window.spent, window.start)
  <2>1. PaidFor(bucket', window.spent + amount, window.start)
    BY <1>1, <1>2, <1>3, SpendIsPaidFor DEF Spend
  <2> QED
    BY <1>1, <1>2, <2>1 DEF Potential
<1>4. CASE bucket.last_update < window.start /\ window.spent = 0
  <2> DEFINE C == bucket'.capacity
             P == bucket'.refill_period
             L == bucket'.level
             e == slot - window.start
  <2>1. /\ C \in Nat /\ P \in Nat /\ L \in Nat /\ e \in Nat /\ L + amount <= C
    BY <1>1, <1>2, SpentKeyBucket DEF Spend, ConfiguredBucket, RateBucket, U64
  <2>2. SUFFICES (amount + L) * P <= C * (P + e)
    BY <1>1, <1>2, <1>4 DEF Potential, PaidFor
  <2> HIDE DEF C, P, L, e
  <2>3. (amount + L) * P <= C * P
    BY <1>1, <2>1, ProductMonotone
  <2>4. C * P <= C * (P + e)
    BY <2>1, ProductMonotone
  <2>5. (amount + L) * P \in Int /\ C * P \in Int /\ C * (P + e) \in Int
    BY <1>1, <2>1
  <2> QED
    BY <2>3, <2>4, <2>5
<1> QED
  BY <1>3, <1>4 DEF Potential

LEMMA PotentialInvariant == Spec => []Potential
<1>1. Init => Potential
  <2> SUFFICES ASSUME Init PROVE Potential
    OBVIOUS
  <2>1. ConfiguredBucket(bucket) /\ bucket.last_update = 0
    BY InitialBucket
  <2>2. window.start = 0 /\ window.spent = 0
    BY DEF Init
  <2>3. /\ bucket.capacity \in Nat /\ bucket.level \in Nat /\ bucket.refill_period \in Nat
        /\ bucket.level <= bucket.capacity
    BY <2>1 DEF ConfiguredBucket, RateBucket, U64
  <2>4. bucket.level * bucket.refill_period <= bucket.capacity * bucket.refill_period
    BY <2>3, ProductMonotone
  <2> QED
    BY <2>1, <2>2, <2>3, <2>4 DEF Potential, PaidFor
<1>2. TypeOK /\ Potential /\ [Next]_vars => Potential'
  <2> SUFFICES ASSUME TypeOK, Potential, [Next]_vars PROVE Potential'
    OBVIOUS
  <2>1. ASSUME NEW amount \in 1 .. bucket.capacity, Spend(amount) PROVE Potential'
    BY <2>1, SpendKeepsPotential
  <2>2. CASE Advance
    BY <2>2 DEF Advance, Potential, PaidFor
  <2>3. CASE Observe
    <3>1. window'.start = slot /\ window'.spent = 0 /\ bucket' = bucket
      BY <2>3 DEF Observe
    <3>2. bucket.level * bucket.refill_period <= bucket.capacity * bucket.refill_period
      BY TypedParts, ProductMonotone
    <3> QED
      BY <3>1, <3>2, TypedParts DEF Potential, PaidFor
  <2>4. CASE UNCHANGED vars
    BY <2>4 DEF vars, Potential, PaidFor
  <2> QED
    BY <2>1, <2>2, <2>3, <2>4 DEF Next
<1> QED
  BY <1>1, <1>2, TypeCorrect, PTL DEF Spec

(* The rate limit: whatever the order and the size of its withdrawals (or  *)
(* borrows), a limited key takes out in any stretch of slots at most one   *)
(* capacity plus the capacity's linear share of the stretch.               *)
THEOREM RateIsBounded == Spec => []WindowBound
<1>1. TypeOK /\ Potential => WindowBound
  <2> SUFFICES ASSUME TypeOK, Potential PROVE WindowBound
    OBVIOUS
  <2> DEFINE C == bucket.capacity
             P == bucket.refill_period
             L == bucket.level
             W == window.spent
             u == bucket.last_update
             t == window.start
  <2>1. /\ C \in Nat /\ P \in Nat /\ L \in Nat /\ W \in Nat /\ u \in Nat /\ t \in Nat
        /\ slot \in Nat /\ u <= slot /\ t <= slot
    BY TypedParts
  <2>2. SUFFICES W * P <= C * (P + (slot - t))
    BY DEF WindowBound
  <2>3. CASE u >= t /\ (W + L) * P <= C * (P + (u - t))
    <3> HIDE DEF C, P, L, W, u, t
    <3>1. W * P <= (W + L) * P
      BY <2>1, ProductMonotone
    <3>2. C * (P + (u - t)) <= C * (P + (slot - t))
      BY <2>1, <2>3, ProductMonotone
    <3>3. /\ W * P \in Int /\ (W + L) * P \in Int
          /\ C * (P + (u - t)) \in Int /\ C * (P + (slot - t)) \in Int
      BY <2>1
    <3> QED
      BY <2>3, <3>1, <3>2, <3>3
  <2>4. CASE u < t /\ W = 0
    <3> HIDE DEF C, P, L, W, u, t
    <3>1. C * (P + (slot - t)) \in Nat
      BY <2>1, ProductNat
    <3>2. W * P = 0
      BY <2>1, <2>4
    <3> QED
      BY <3>1, <3>2
  <2> QED
    BY <2>3, <2>4 DEF Potential, PaidFor
<1> QED
  BY <1>1, TypeCorrect, PotentialInvariant, PTL

(* The lifetime cap: a key with a cap never spends more than it in all,    *)
(* and its KeyState carries the exact sum.                                 *)
THEOREM CapHolds == Spec => []LifetimeCap
<1>1. Init => LifetimeCap
  <2> SUFFICES ASSUME Init PROVE LifetimeCap
    OBVIOUS
  <2>1. total_limit \in TotalLimits /\ everSpent = 0 /\ total_used = 0
    BY DEF Init
  <2>2. total_limit \in U64
    BY <2>1, SpendingAssumption
  <2>3. total_limit \in Int
    BY <2>2 DEF U64
  <2> QED
    BY <2>1, <2>3 DEF LifetimeCap
<1>2. TypeOK /\ LifetimeCap /\ [Next]_vars => LifetimeCap'
  <2> SUFFICES ASSUME TypeOK, LifetimeCap, [Next]_vars PROVE LifetimeCap'
    OBVIOUS
  <2>1. ASSUME NEW amount \in 1 .. bucket.capacity, Spend(amount) PROVE LifetimeCap'
    BY <2>1 DEF Spend, TotalAllows, TotalAfter, LifetimeCap
  <2>2. CASE Advance
    BY <2>2 DEF Advance, LifetimeCap
  <2>3. CASE Observe
    BY <2>3 DEF Observe, LifetimeCap
  <2>4. CASE UNCHANGED vars
    BY <2>4 DEF vars, LifetimeCap
  <2> QED
    BY <2>1, <2>2, <2>3, <2>4 DEF Next
<1> QED
  BY <1>1, <1>2, TypeCorrect, PTL DEF Spec

(* The two copies of the refill agree: available_now quotes exactly what   *)
(* consume_rate_limit accepts in the same slot, in every reachable state.  *)
THEOREM QuoteIsExact == Spec => []QuoteExact
<1>1. TypeOK => QuoteExact
  <2> SUFFICES ASSUME TypeOK, NEW amount \in 0 .. bucket.capacity + 1
               PROVE  BucketAllows(bucket, amount, slot)
                        <=> amount <= AvailableNow(bucket, slot)
    BY DEF QuoteExact
  <2>1. Refilled(bucket, slot).level = AvailableNow(bucket, slot)
    BY TypedParts, RefilledBucket DEF AvailableNow, ConfiguredBucket, Filled
  <2>2. Refilled(bucket, slot).level \in Int
    BY TypedParts, RefilledBucket DEF ConfiguredBucket, Filled, RateBucket, U64
  <2> QED
    BY <2>1, <2>2 DEF BucketAllows
<1> QED
  BY <1>1, TypeCorrect, PTL

(* A quote keeps: what bucketAvailableNow computed in the browser at one   *)
(* slot is accepted at any later one, if the key spent nothing meanwhile.  *)
THEOREM QuoteIsKept == Spec => []QuoteKeeps
<1>1. TypeOK => QuoteKeeps
  <2> SUFFICES ASSUME TypeOK, NEW later \in slot .. MaxSlot
               PROVE  BucketAllows(bucket, BucketAvailableNowJS(bucket, slot), later)
    BY DEF QuoteKeeps
  <2>1. /\ Filled(bucket) /\ slot \in Nat /\ later \in Nat /\ slot <= later
        /\ bucket.last_update <= slot /\ bucket.last_update \in Nat
        /\ bucket.capacity \in Nat /\ bucket.capacity <= MaxU64 /\ bucket.level \in Nat
        /\ bucket.capacity > 0
    <3>1. slot \in Nat /\ MaxSlot \in Nat /\ ConfiguredBucket(bucket)
      BY TypedParts, SpendingAssumption
    <3>2. later \in Nat /\ slot <= later
      BY <3>1
    <3>3. bucket \in RateBucket /\ bucket.capacity > 0 /\ bucket.level <= bucket.capacity
      BY <3>1 DEF ConfiguredBucket
    <3>4. bucket.capacity \in 0 .. MaxU64 /\ bucket.level \in 0 .. MaxU64
      BY <3>3 DEF RateBucket, U64
    <3> QED
      BY <3>1, <3>2, <3>3, <3>4, TypedParts, MaxU64Assumption DEF Filled
  <2>2. Refill(bucket, slot) <= Refill(bucket, later)
    BY <2>1, RefillMonotone
  <2>3. Refill(bucket, slot) \in Nat /\ Refill(bucket, later) \in Nat
    BY <2>1, RefillBound
  <2>4. Refilled(bucket, later).level
          = Least(SaturatingAdd(bucket.level, Refill(bucket, later)), bucket.capacity)
    BY <2>1, RefilledBucket
  <2>5. SaturatingSub(slot, bucket.last_update)
          = IF slot > bucket.last_update THEN slot - bucket.last_update ELSE 0
    BY <2>1 DEF SaturatingSub
  <2>6. BucketAvailableNowJS(bucket, slot)
          = Least(bucket.capacity, bucket.level + Refill(bucket, slot))
    BY <2>1, <2>5 DEF BucketAvailableNowJS, Refill
  <2> QED
    BY <2>1, <2>2, <2>3, <2>4, <2>6, MaxU64Assumption
    DEF BucketAllows, Least, SaturatingAdd
<1> QED
  BY <1>1, TypeCorrect, PTL
=============================================================================
