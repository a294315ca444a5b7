------------------------------ MODULE RateLimit ------------------------------
(***************************************************************************)
(* The arithmetic of a limited key: the token bucket of RateBucket and the *)
(* lifetime cap beside it, as consume_rate_limit.rs spends them, as        *)
(* RateBucket::available_now quotes them on chain, and as rateLimits.js    *)
(* quotes them in the browser.                                             *)
(*                                                                         *)
(* Amounts are u64 in the code.  MaxU64 stands for the largest of them, so *)
(* that a small instance reaches the saturating and the checked sums.      *)
(***************************************************************************)
EXTENDS Integers

CONSTANT MaxU64    \* the largest u64

ASSUME MaxU64Assumption == MaxU64 \in Nat \ {0}

U64 == 0 .. MaxU64

Least(a, b) == IF a <= b THEN a ELSE b

SaturatingAdd(a, b) == Least(a + b, MaxU64)
SaturatingSub(a, b) == IF a >= b THEN a - b ELSE 0

RateBucket ==
    [capacity : U64, refill_period : U64, level : U64, last_update : Nat]

(* A bucket validate_delegated_permissions lets through, as it stands      *)
(* after any number of spends.                                             *)
ConfiguredBucket(b) ==
    /\ b \in RateBucket
    /\ b.capacity > 0
    /\ b.refill_period > 0
    /\ b.level <= b.capacity

(* Tokens regained since the last update: all of the capacity after one    *)
(* period, a share rounded down before that (the product is a u128).       *)
Refill(b, slot) ==
    LET elapsed == SaturatingSub(slot, b.last_update)
    IN IF elapsed >= b.refill_period
       THEN b.capacity
       ELSE (b.capacity * elapsed) \div b.refill_period

(* The bucket once consume_rate_limit has topped it up.                    *)
RefilledUncapped(b, slot) ==  \* slip: min(capacity) forgotten
    [b EXCEPT !.level = SaturatingAdd(@, Refill(b, slot)), !.last_update = slot]
RefilledUndated(b, slot) ==   \* slip: last_update not advanced
    [b EXCEPT !.level = Least(SaturatingAdd(@, Refill(b, slot)), b.capacity)]
Refilled(b, slot) ==
    [b EXCEPT
        !.level = Least(SaturatingAdd(@, Refill(b, slot)), b.capacity),
        !.last_update = slot]

(* consume_rate_limit: refused when the topped-up level is short.          *)
BucketAllows(b, amount, slot) == Refilled(b, slot).level >= amount

BucketAfter(b, amount, slot) == [Refilled(b, slot) EXCEPT !.level = @ - amount]

(* consume_total_limit: 0 means no cap, and then nothing is accumulated.   *)
TotalAllowsStale(used, limit, amount) ==  \* slip: tests the old total
    limit = 0 \/ (used + amount <= MaxU64 /\ used <= limit)
TotalAllows(used, limit, amount) ==
    limit = 0 \/ (used + amount <= MaxU64 /\ used + amount <= limit)

TotalAfter(used, limit, amount) == IF limit = 0 THEN used ELSE used + amount

(* RateBucket::available_now, the read-only copy of the refill.            *)
AvailableNowIgnoresLevel(b, slot) ==  \* slip: quotes the refill alone
    IF b.capacity = 0 THEN 0 ELSE Least(Refill(b, slot), b.capacity)
AvailableNow(b, slot) ==
    IF b.capacity = 0
    THEN 0
    ELSE Least(SaturatingAdd(b.level, Refill(b, slot)), b.capacity)

(* rateLimits.js bucketAvailableNow, whose sum does not saturate.          *)
BucketAvailableNowJSUncapped(b, slot) ==  \* slip: Math.min forgotten
    IF b.capacity = 0 THEN 0 ELSE b.level + Refill(b, slot)
BucketAvailableNowJS(b, slot) ==
    LET elapsed == IF slot > b.last_update THEN slot - b.last_update ELSE 0
        refill  == IF elapsed >= b.refill_period
                   THEN b.capacity
                   ELSE (b.capacity * elapsed) \div b.refill_period
    IN IF b.capacity = 0 THEN 0 ELSE Least(b.capacity, b.level + refill)
=============================================================================
