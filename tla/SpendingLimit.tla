---------------------------- MODULE SpendingLimit ----------------------------
(***************************************************************************)
(* One delegated key with a limited permission, spending over time.        *)
(*                                                                         *)
(* withdraw and borrow take this path when the key has LIMITED_SELL (or    *)
(* LIMITED_BORROW) without the plain permission: the amount that really    *)
(* moved is charged to the bucket first and to the lifetime cap second, in *)
(* one transaction, so that a refusal by either leaves both untouched.     *)
(* The two limits of a KeyState are separate and alike; one is modelled.   *)
(*                                                                         *)
(* everSpent and window are history: what the key has spent since it was   *)
(* created, and since an observer last started to count.                   *)
(***************************************************************************)
EXTENDS RateLimit

CONSTANTS
    Capacities,    \* bucket capacities tried
    Periods,       \* refill periods tried, in slots
    FillLevels,    \* initial_fill_bps tried; 10000 is a full bucket
    TotalLimits,   \* lifetime caps tried; 0 is no cap
    MaxSlot        \* bound on the slots explored

ASSUME SpendingAssumption ==
    /\ Capacities \subseteq 1 .. MaxU64
    /\ Periods \subseteq 1 .. MaxU64
    /\ FillLevels \subseteq 0 .. 10000
    /\ TotalLimits \subseteq U64
    /\ MaxSlot \in Nat

VARIABLES
    slot,          \* Clock::slot
    bucket,        \* KeyState.sell_bucket (or borrow_bucket)
    total_limit,   \* KeyState.total_sell_limit
    total_used,    \* KeyState.total_sold
    everSpent,     \* history: spent through this key in all
    window         \* history: [start, spent] of the observer's count

vars == <<slot, bucket, total_limit, total_used, everSpent, window>>

(* authorize_key creates the bucket full; claim_promo_key fills it to      *)
(* initial_fill_bps of the capacity, rounded down.                         *)
Init ==
    /\ slot = 0
    /\ \E c \in Capacities, p \in Periods, fill \in FillLevels :
          bucket = [capacity |-> c, refill_period |-> p,
                    level |-> (c * fill) \div 10000, last_update |-> 0]
    /\ total_limit \in TotalLimits
    /\ total_used = 0
    /\ everSpent = 0
    /\ window = [start |-> 0, spent |-> 0]

(* A withdraw or a borrow of the key.                                      *)
Spend(amount) ==
    /\ BucketAllows(bucket, amount, slot)
    /\ TotalAllows(total_used, total_limit, amount)
    /\ bucket' = BucketAfter(bucket, amount, slot)
    /\ total_used' = TotalAfter(total_used, total_limit, amount)
    /\ everSpent' = everSpent + amount
    /\ window' = [window EXCEPT !.spent = @ + amount]
    /\ UNCHANGED <<slot, total_limit>>

(* The chain moves on, skipped slots included.                             *)
Advance ==
    /\ slot' \in slot + 1 .. MaxSlot
    /\ UNCHANGED <<bucket, total_limit, total_used, everSpent, window>>

(* The observer starts a new count at the current slot.                    *)
Observe ==
    /\ window' = [start |-> slot, spent |-> 0]
    /\ UNCHANGED <<slot, bucket, total_limit, total_used, everSpent>>

Next ==
    \/ \E amount \in 1 .. bucket.capacity : Spend(amount)
    \/ Advance
    \/ Observe

Spec == Init /\ [][Next]_vars
-----------------------------------------------------------------------------
(* The bucket never holds more than its capacity and never moves ahead of  *)
(* the chain, whatever sequence of spends consume_rate_limit accepts.      *)
TypeOK ==
    /\ slot \in Nat
    /\ ConfiguredBucket(bucket)
    /\ bucket.last_update <= slot
    /\ total_limit \in U64
    /\ total_used \in U64
    /\ everSpent \in Nat
    /\ window \in [start : Nat, spent : Nat]
    /\ window.start <= slot

(* The rate: over any stretch of slots, wherever it starts and however the *)
(* spends are spread in it, the key takes out at most one capacity plus    *)
(* the capacity's linear share of the stretch (hence at most twice the     *)
(* capacity in one refill period).                                         *)
WindowBound ==
    window.spent * bucket.refill_period
        <= bucket.capacity * (bucket.refill_period + (slot - window.start))

(* A lifetime cap holds over everything the key ever spent, and the stored *)
(* total is then exactly that sum.                                         *)
LifetimeCap ==
    total_limit > 0 => everSpent <= total_limit /\ total_used = everSpent

(* available_now quotes exactly what consume_rate_limit would accept in    *)
(* the same slot: nothing quoted is refused, nothing more is accepted.     *)
QuoteExact ==
    \A amount \in 0 .. bucket.capacity + 1 :
        BucketAllows(bucket, amount, slot) <=> amount <= AvailableNow(bucket, slot)

(* A quote stays good while nobody spends: the browser reads the bucket    *)
(* and the slot in two requests and the spend lands later, and waiting     *)
(* only ever adds to what bucketAvailableNow computed from them.           *)
QuoteKeeps ==
    \A later \in slot .. MaxSlot :
        BucketAllows(bucket, BucketAvailableNowJS(bucket, slot), later)
=============================================================================
