-------------------------- MODULE RateLimitProofs --------------------------
(***************************************************************************)
(* What the arithmetic of RateLimit does to any bucket and any lifetime    *)
(* total: the lemmas the proofs of SpendingLimit and of Treasury share.    *)
(***************************************************************************)
EXTENDS RateLimit, TLAPS

(* A bucket of a KeyState, configured or not: an unlimited permission has  *)
(* one too, with capacity and period 0.                                    *)
Filled(b) == b \in RateBucket /\ b.level <= b.capacity

-----------------------------------------------------------------------------
(* Arithmetic.                                                             *)

(* A rounded-down quotient times its divisor never exceeds the dividend.   *)
LEMMA DivTimes ==
    ASSUME NEW n \in Nat, NEW d \in Nat, d > 0
    PROVE  n \div d \in Nat /\ (n \div d) * d <= n
OBVIOUS

(* Rounding down keeps the order.                                          *)
LEMMA DivMonotone ==
    ASSUME NEW m \in Nat, NEW n \in Nat, NEW d \in Nat, d > 0, m <= n
    PROVE  m \div d <= n \div d
OBVIOUS

LEMMA ProductNat ==
    ASSUME NEW a \in Nat, NEW b \in Nat
    PROVE  a * b \in Nat
OBVIOUS

LEMMA ProductMonotone ==
    ASSUME NEW a \in Nat, NEW b \in Nat, NEW c \in Nat, a <= b
    PROVE  a * c <= b * c /\ c * a <= c * b
OBVIOUS

LEMMA Distribute ==
    ASSUME NEW a \in Int, NEW b \in Int, NEW c \in Int
    PROVE  (a + b) * c = a * c + b * c /\ c * (a + b) = c * a + c * b
OBVIOUS

LEMMA Cancel ==
    ASSUME NEW a \in Nat, NEW b \in Nat, NEW c \in Nat, c > 0, a * c <= b * c
    PROVE  a <= b
<1>1. SUFFICES ASSUME a > b PROVE FALSE
  OBVIOUS
<1>2. a >= b + 1
  BY <1>1
<1>3. (b + 1) * c <= a * c
  BY <1>2, ProductMonotone
<1>4. (b + 1) * c = b * c + c
  BY Distribute
<1>5. b * c \in Nat /\ a * c \in Nat
  BY ProductNat
<1> QED
  BY <1>3, <1>4, <1>5

-----------------------------------------------------------------------------
(* The bucket.                                                             *)

(* What a refill adds is worth at most the capacity's linear share of the  *)
(* slots elapsed, and never more than the capacity.                        *)
LEMMA RefillBound ==
    ASSUME NEW b, Filled(b),
           NEW now \in Nat, b.last_update <= now
    PROVE  /\ Refill(b, now) \in Nat
           /\ Refill(b, now) <= b.capacity
           /\ Refill(b, now) * b.refill_period
                <= b.capacity * (now - b.last_update)
<1> DEFINE C == b.capacity
           P == b.refill_period
           e == now - b.last_update
<1>1. C \in Nat /\ P \in Nat /\ e \in Nat
  BY MaxU64Assumption DEF Filled, RateBucket, U64
<1>2. SaturatingSub(now, b.last_update) = e
  BY <1>1 DEF SaturatingSub, Filled, RateBucket
<1>3. Refill(b, now) = IF e >= P THEN C ELSE (C * e) \div P
  BY <1>2 DEF Refill
<1> HIDE DEF C, P, e
<1>4. CASE e >= P
  <2>1. C * P <= C * e
    BY <1>1, <1>4, ProductMonotone
  <2> QED
    BY <1>1, <1>3, <1>4, <2>1 DEF C, P, e
<1>5. CASE ~(e >= P)
  <2> DEFINE r == (C * e) \div P
  <2>1. C * e \in Nat /\ P > 0
    BY <1>1, <1>5, ProductNat
  <2>2. r \in Nat /\ r * P <= C * e
    BY <1>1, <2>1, DivTimes
  <2>3. C * e <= C * P
    BY <1>1, <1>5, ProductMonotone
  <2>4. C * P \in Nat /\ r * P \in Nat
    BY <1>1, <2>2, ProductNat
  <2>5. r * P <= C * P
    BY <2>1, <2>2, <2>3, <2>4
  <2>6. r <= C
    BY <1>1, <2>1, <2>2, <2>5, Cancel
  <2>7. Refill(b, now) = r
    BY <1>3, <1>5
  <2> HIDE DEF r
  <2> QED
    BY <2>2, <2>6, <2>7 DEF C, P, e
<1> QED
  BY <1>4, <1>5

(* Waiting never makes the refill smaller.                                 *)
LEMMA RefillMonotone ==
    ASSUME NEW b, Filled(b), NEW now \in Nat, NEW later \in Nat,
           b.last_update <= now, now <= later
    PROVE  Refill(b, now) <= Refill(b, later)
<1> DEFINE C == b.capacity
           P == b.refill_period
           e == now - b.last_update
           f == later - b.last_update
<1>1. C \in Nat /\ P \in Nat /\ e \in Nat /\ f \in Nat /\ e <= f
  BY MaxU64Assumption DEF Filled, RateBucket, U64
<1>2. /\ Refill(b, now) = IF e >= P THEN C ELSE (C * e) \div P
      /\ Refill(b, later) = IF f >= P THEN C ELSE (C * f) \div P
  BY DEF Refill, SaturatingSub, Filled, RateBucket
<1>3. Refill(b, now) <= C
  BY RefillBound
<1> HIDE DEF C, P, e, f
<1>4. CASE f >= P
  BY <1>2, <1>3, <1>4
<1>5. CASE ~(f >= P)
  <2>1. C * e <= C * f /\ C * e \in Nat /\ C * f \in Nat /\ P > 0 /\ ~(e >= P)
    BY <1>1, <1>5, ProductMonotone, ProductNat
  <2>2. (C * e) \div P <= (C * f) \div P
    BY <1>1, <2>1, DivMonotone
  <2> QED
    BY <1>2, <1>5, <2>1, <2>2
<1> QED
  BY <1>4, <1>5

(* Topping a bucket up keeps it well formed, dates it, and raises its level *)
(* by at most the refill.                                                  *)
LEMMA RefilledBucket ==
    ASSUME NEW b, Filled(b),
           NEW now \in Nat, b.last_update <= now
    PROVE  /\ Filled(Refilled(b, now))
           /\ Refilled(b, now).capacity = b.capacity
           /\ Refilled(b, now).refill_period = b.refill_period
           /\ Refilled(b, now).last_update = now
           /\ Refilled(b, now).level <= b.level + Refill(b, now)
           /\ Refilled(b, now).level
                = Least(SaturatingAdd(b.level, Refill(b, now)), b.capacity)
<1>1. Refill(b, now) \in Nat
  BY RefillBound
<1>2. b \in RateBucket /\ b.level \in Nat /\ b.capacity \in U64
  BY DEF Filled, RateBucket, U64
<1> DEFINE lvl == Least(SaturatingAdd(b.level, Refill(b, now)), b.capacity)
<1>3. lvl \in U64 /\ lvl <= b.capacity /\ lvl <= b.level + Refill(b, now)
  BY <1>1, <1>2, MaxU64Assumption DEF Least, SaturatingAdd, U64
<1>4. Refilled(b, now) = [b EXCEPT !.level = lvl, !.last_update = now]
  BY DEF Refilled
<1> HIDE DEF lvl
<1>5. /\ Refilled(b, now) \in RateBucket
      /\ Refilled(b, now).capacity = b.capacity
      /\ Refilled(b, now).refill_period = b.refill_period
      /\ Refilled(b, now).last_update = now
      /\ Refilled(b, now).level = lvl
  BY <1>2, <1>3, <1>4 DEF RateBucket
<1> QED
  BY <1>3, <1>5 DEF Filled, lvl

(* What an accepted spend does to the bucket.                              *)
LEMMA SpentBucket ==
    ASSUME NEW b, Filled(b), NEW now \in Nat, b.last_update <= now,
           NEW amount \in Nat, BucketAllows(b, amount, now)
    PROVE  /\ Filled(BucketAfter(b, amount, now))
           /\ BucketAfter(b, amount, now).capacity = b.capacity
           /\ BucketAfter(b, amount, now).refill_period = b.refill_period
           /\ BucketAfter(b, amount, now).last_update = now
           /\ BucketAfter(b, amount, now).level + amount
                <= b.level + Refill(b, now)
           /\ BucketAfter(b, amount, now).level + amount <= b.capacity
<1> DEFINE f == Refilled(b, now)
<1>1. Filled(b) /\ now \in Nat /\ b.last_update <= now
  OBVIOUS
<1>2. /\ Filled(f)
      /\ f.capacity = b.capacity
      /\ f.refill_period = b.refill_period
      /\ f.last_update = now
      /\ f.level <= b.level + Refill(b, now)
  BY <1>1, RefilledBucket
<1>3. f.level >= amount
  BY DEF BucketAllows
<1>4. BucketAfter(b, amount, now) = [f EXCEPT !.level = f.level - amount]
  BY DEF BucketAfter
<1>5. Refill(b, now) \in Nat /\ b.level \in Nat
  BY <1>1, RefillBound DEF Filled, RateBucket, U64
<1> HIDE DEF f
<1>6. f \in RateBucket /\ f.level \in 0 .. MaxU64 /\ f.level <= f.capacity
      /\ f.capacity \in Nat
  BY <1>2 DEF Filled, RateBucket, U64
<1>7. f.level - amount \in 0 .. MaxU64
  BY <1>3, <1>6, MaxU64Assumption
<1>8. /\ [f EXCEPT !.level = f.level - amount] \in RateBucket
      /\ [f EXCEPT !.level = f.level - amount].level = f.level - amount
      /\ [f EXCEPT !.level = f.level - amount].capacity = f.capacity
      /\ [f EXCEPT !.level = f.level - amount].refill_period = f.refill_period
      /\ [f EXCEPT !.level = f.level - amount].last_update = f.last_update
  BY <1>6, <1>7 DEF RateBucket, U64
<1> QED
  BY <1>2, <1>3, <1>4, <1>5, <1>6, <1>7, <1>8 DEF Filled

(* What an accepted spend does to the lifetime total.                      *)
LEMMA TotalKept ==
    ASSUME NEW used \in U64, NEW limit \in U64, NEW amount \in Nat,
           TotalAllows(used, limit, amount)
    PROVE  /\ TotalAfter(used, limit, amount) \in U64
           /\ limit > 0 => /\ TotalAfter(used, limit, amount) = used + amount
                           /\ used + amount <= limit
  BY MaxU64Assumption DEF TotalAllows, TotalAfter, U64

(* What was spent, with what is left, is paid for by one capacity and by   *)
(* the refills up to the last spend; a spend keeps that.                   *)
PaidFor(b, spent, start) ==
    (spent + b.level) * b.refill_period
        <= b.capacity * (b.refill_period + (b.last_update - start))

LEMMA SpendIsPaidFor ==
    ASSUME NEW b, Filled(b), NEW now \in Nat, b.last_update <= now,
           NEW amount \in Nat, BucketAllows(b, amount, now),
           NEW spent \in Nat, NEW start \in Nat, start <= b.last_update,
           PaidFor(b, spent, start)
    PROVE  PaidFor(BucketAfter(b, amount, now), spent + amount, start)
<1> DEFINE C == b.capacity
           P == b.refill_period
           L == b.level
           R == Refill(b, now)
           u == b.last_update
           L2 == BucketAfter(b, amount, now).level
<1>1. /\ C \in Nat /\ P \in Nat /\ L \in Nat /\ u \in Nat
  BY DEF Filled, RateBucket, U64
<1>2. R \in Nat /\ R * P <= C * (now - u)
  BY RefillBound
<1>3. /\ BucketAfter(b, amount, now).capacity = C
      /\ BucketAfter(b, amount, now).refill_period = P
      /\ BucketAfter(b, amount, now).last_update = now
      /\ L2 \in Nat /\ L2 + amount <= L + R
  BY SpentBucket DEF Filled, RateBucket, U64
<1>4. SUFFICES ((spent + amount) + L2) * P <= C * (P + (now - start))
  BY <1>3 DEF PaidFor
<1>5. (spent + L) * P <= C * (P + (u - start))
  BY DEF PaidFor
<1>6. u <= now /\ start <= u
  OBVIOUS
<1> HIDE DEF C, P, L, R, u, L2
<1>7. ((spent + amount) + L2) * P <= ((spent + L) + R) * P
  BY <1>1, <1>2, <1>3, ProductMonotone
<1>8. ((spent + L) + R) * P = (spent + L) * P + R * P
  BY <1>1, <1>2, Distribute
<1>9. C * (P + (u - start)) + C * (now - u) = C * ((P + (u - start)) + (now - u))
  BY <1>1, Distribute
<1>10. (P + (u - start)) + (now - u) = P + (now - start)
  BY <1>1
<1>11. /\ ((spent + amount) + L2) * P \in Int /\ (spent + L) * P \in Int /\ R * P \in Int
       /\ C * (P + (u - start)) \in Int /\ C * (now - u) \in Int
  BY <1>1, <1>2, <1>3
<1> QED
  BY <1>2, <1>5, <1>7, <1>8, <1>9, <1>10, <1>11

=============================================================================
