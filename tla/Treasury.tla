------------------------------ MODULE Treasury ------------------------------
(***************************************************************************)
(* The money of one Hardig position: the market instructions, the          *)
(* position's own ledger, the limits of its delegated keys, and around     *)
(* them what the code relies on of Mayflower and of the SPL token program. *)
(*                                                                         *)
(* An instruction calls Mayflower and accounts for the difference it finds *)
(* in Mayflower's PersonalPosition afterwards; whatever the market decides *)
(* (fees, price) is one of the outcomes Moved allows.  All of it is one    *)
(* transaction: an error at the end undoes the calls before it.            *)
(*                                                                         *)
(* Which wallet holds a key is Keyring's business: here a key acts when it *)
(* has the permission.  One clock stands for the slot and the timestamp.   *)
(***************************************************************************)
EXTENDS RateLimit

CONSTANTS
    Keys,          \* keys of the position
    AdminKey,      \* PositionState.current_admin_asset
    NoKeyState,    \* the optional key_state account is not passed
    Granted,       \* permissions of each key
    SellTerms,     \* sell limits of each key: [capacity, period, cap]
    BorrowTerms,   \* borrow limits of each key
    Floors,        \* floor prices tried
    Spreads,       \* max_spread_bps tried; 0 disables the check
    Scale,         \* lamports per unit of price (10^9)
    MaxFee,        \* most the market keeps of an amount
    MaxSlot        \* bound on the slots explored

Terms == [capacity : U64, period : U64, cap : U64]

ASSUME TreasuryAssumption ==
    /\ AdminKey \in Keys
    /\ NoKeyState \notin Keys
    /\ Granted \in [Keys -> SUBSET {"BUY", "SELL", "BORROW", "REPAY", "REINVEST",
                                    "MANAGE_KEYS", "LIMITED_SELL", "LIMITED_BORROW"}]
    /\ SellTerms \in [Keys -> Terms]
    /\ BorrowTerms \in [Keys -> Terms]
    /\ Floors \subseteq Nat
    /\ Spreads \subseteq Nat
    /\ Scale \in Nat \ {0}
    /\ MaxFee \in Nat
    /\ MaxSlot \in Nat

VARIABLES
    personal,   \* Mayflower PersonalPosition: [shares, debt]
    ledger,     \* PositionState: [deposited_nav, user_debt]
    ata,        \* the authority PDA's wSOL account: [open, amount]
    floor,      \* the market's floor price
    slot,       \* Clock
    sellMeter,  \* KeyState.sell_bucket, total_sold, total_sell_limit
    borrowMeter,\* KeyState.borrow_bucket, total_borrowed, total_borrow_limit
    last_admin_activity,
    taken,      \* history: what each key sold and borrowed under its limits
    lastSigned  \* history: when the admin key last signed

vars == <<personal, ledger, ata, floor, slot, sellMeter, borrowMeter,
          last_admin_activity, taken, lastSigned>>

FreshMeter(t) ==
    [bucket |-> [capacity |-> t.capacity, refill_period |-> t.period,
                 level |-> t.capacity, last_update |-> 0],
     total  |-> 0, limit |-> t.cap]

Init ==
    /\ personal = [shares |-> 0, debt |-> 0]
    /\ ledger = [deposited_nav |-> 0, user_debt |-> 0]
    /\ ata = [open |-> FALSE, amount |-> 0]
    /\ floor \in Floors
    /\ slot = 0
    /\ sellMeter = [k \in Keys |-> FreshMeter(SellTerms[k])]
    /\ borrowMeter = [k \in Keys |-> FreshMeter(BorrowTerms[k])]
    /\ last_admin_activity = 0
    /\ taken = [k \in Keys |-> [sold |-> 0, borrowed |-> 0]]
    /\ lastSigned = 0
-----------------------------------------------------------------------------
(* Mayflower and the token program, as far as the instructions can tell.   *)

(* What becomes of an amount handed to the market: it may keep a fee.      *)
Moved(amount) == {n \in 0 .. amount : n + MaxFee >= amount}

(* What arrives in the wSOL account: nothing while it does not exist.      *)
Credited(n) == IF ata.open THEN [ata EXCEPT !.amount = @ + n] ELSE ata

Closed == [open |-> FALSE, amount |-> 0]

(* floor.rs: the floor value of the shares, less what is owed.             *)
FloorValue(shares) == (shares * floor) \div Scale
BorrowCapacityIgnoresDebt == FloorValue(personal.shares)  \* slip
BorrowCapacity == SaturatingSub(FloorValue(personal.shares), personal.debt)
-----------------------------------------------------------------------------
(* What the instructions share.                                            *)

MayUse(k, permissions) == Granted[k] \cap permissions # {}

(* The admin's clock; another key leaves it alone.                         *)
SignedByAnyone(k) ==  \* slip: every key counts as the admin
    /\ last_admin_activity' = slot
    /\ lastSigned' = IF k = AdminKey THEN slot ELSE lastSigned
Signed(k) ==
    /\ last_admin_activity' = IF k = AdminKey THEN slot ELSE last_admin_activity
    /\ lastSigned' = IF k = AdminKey THEN slot ELSE lastSigned

(* A key_state, if passed, must be the one of the key that signs.          *)
KeyStateMatchesAny(k, ks) == TRUE  \* slip: anybody's KeyState will do
KeyStateMatches(k, ks) == ks \in {k, NoKeyState}

MeterAllows(m, n) ==
    BucketAllows(m.bucket, n, slot) /\ TotalAllows(m.total, m.limit, n)
MeterAfter(m, n) ==
    [m EXCEPT !.bucket = BucketAfter(@, n, slot),
              !.total = TotalAfter(@, m.limit, n)]

(* The meters once n went through k: untouched for a key with the plain    *)
(* permission, charged through the account passed for one without.         *)
MeteredSpend(meters, k, ks, plain, n) ==
    IF plain \in Granted[k]
    THEN meters
    ELSE [meters EXCEPT ![ks] = MeterAfter(@, n)]
SpendAllowed(meters, k, ks, plain, n) ==
    plain \notin Granted[k] => ks # NoKeyState /\ MeterAllows(meters[ks], n)

(* What the history counts of it.                                          *)
Metered(k, plain, n) == IF plain \in Granted[k] THEN 0 ELSE n
-----------------------------------------------------------------------------
(* wSOL in, shares out, and the ledger with them.                          *)
Bought(amount, received) ==
    /\ amount > 0
    /\ amount <= ata.amount
    /\ received \in Moved(amount)
    /\ personal.shares + received <= MaxU64
    /\ ledger.deposited_nav + received <= MaxU64
    /\ personal' = [personal EXCEPT !.shares = @ + received]
    /\ ledger' = [ledger EXCEPT !.deposited_nav = @ + received]
    /\ ata' = [ata EXCEPT !.amount = @ - amount]

Buy(k, amount, min_out, received) ==
    /\ MayUse(k, {"BUY"})
    /\ Bought(amount, received)
    /\ received >= min_out
    /\ Signed(k)
    /\ UNCHANGED <<floor, slot, sellMeter, borrowMeter, taken>>

(* claim_promo_key, step 14: a claimer without a key deposits, at whatever *)
(* price he gets.                                                          *)
ClaimDeposit(amount, received) ==
    /\ Bought(amount, received)
    /\ UNCHANGED <<floor, slot, sellMeter, borrowMeter, last_admin_activity,
                   taken, lastSigned>>

(* withdraw: shares out of the position, and the wSOL account emptied into *)
(* the signer's wallet.                                                    *)
LedgerAfterSale(amount, sold) ==
    [ledger EXCEPT !.deposited_nav = SaturatingSub(@, sold)]

Withdraw(k, ks, amount, min_out, sold, proceeds) ==
    /\ MayUse(k, {"SELL", "LIMITED_SELL"})
    /\ KeyStateMatches(k, ks)
    /\ amount > 0
    /\ amount <= personal.shares
    /\ sold \in Moved(amount)
    /\ proceeds \in Moved(sold)
    /\ SpendAllowed(sellMeter, k, ks, "SELL", sold)
    /\ Credited(proceeds).amount - ata.amount >= min_out
    /\ personal' = [personal EXCEPT !.shares = @ - sold]
    /\ sellMeter' = MeteredSpend(sellMeter, k, ks, "SELL", sold)
    /\ ata' = Closed
    /\ ledger' = LedgerAfterSale(amount, sold)
    /\ taken' = [taken EXCEPT ![k].sold = @ + Metered(k, "SELL", sold)]
    /\ Signed(k)
    /\ UNCHANGED <<floor, slot, borrowMeter>>

(* borrow: debt up, and the wSOL account emptied into the signer's wallet. *)
Borrow(k, ks, amount, borrowed, proceeds) ==
    /\ MayUse(k, {"BORROW", "LIMITED_BORROW"})
    /\ KeyStateMatches(k, ks)
    /\ amount > 0
    /\ borrowed \in Moved(amount)
    /\ personal.debt + borrowed <= MaxU64
    /\ proceeds \in Moved(borrowed)
    /\ SpendAllowed(borrowMeter, k, ks, "BORROW", borrowed)
    /\ ledger.user_debt + borrowed <= MaxU64
    /\ personal' = [personal EXCEPT !.debt = @ + borrowed]
    /\ borrowMeter' = MeteredSpend(borrowMeter, k, ks, "BORROW", borrowed)
    /\ ata' = Closed
    /\ ledger' = [ledger EXCEPT !.user_debt = @ + borrowed]
    /\ taken' = [taken EXCEPT ![k].borrowed = @ + Metered(k, "BORROW", borrowed)]
    /\ Signed(k)
    /\ UNCHANGED <<floor, slot, sellMeter>>

(* repay: wSOL in, debt down.                                              *)
Repay(k, amount, repaid) ==
    /\ MayUse(k, {"REPAY"})
    /\ amount > 0
    /\ amount <= personal.debt
    /\ amount <= ata.amount
    /\ repaid \in Moved(amount)
    /\ personal' = [personal EXCEPT !.debt = @ - repaid]
    /\ ledger' = [ledger EXCEPT !.user_debt = SaturatingSub(@, repaid)]
    /\ ata' = [ata EXCEPT !.amount = @ - amount]
    /\ Signed(k)
    /\ UNCHANGED <<floor, slot, sellMeter, borrowMeter, taken>>

(* reinvest: borrow all there is to borrow and buy with the whole wSOL     *)
(* account.  It may find nothing to borrow, or nothing to buy with, and    *)
(* returns Ok all the same, with what was done so far.                     *)
SpreadAllowed(paid, received, spread) ==
    spread > 0 /\ floor > 0 /\ received > 0 =>
        LET effective == (paid * Scale) \div received
        IN effective > floor =>
              ((effective - floor) * 10000) \div floor <= spread

LedgerAfterReinvestLate(borrowed, received) ==  \* slip: debt kept with the buy
    [deposited_nav |-> ledger.deposited_nav + received,
     user_debt     |-> ledger.user_debt + (IF received > 0 THEN borrowed ELSE 0)]
LedgerAfterReinvest(borrowed, received) ==
    [deposited_nav |-> ledger.deposited_nav + received,
     user_debt     |-> ledger.user_debt + borrowed]

ReinvestNothing == BorrowCapacity = 0 /\ UNCHANGED <<personal, ledger, ata>>

ReinvestBorrows(borrowed, proceeds) ==
    /\ BorrowCapacity > 0
    /\ borrowed \in Moved(BorrowCapacity)
    /\ personal.debt + borrowed <= MaxU64
    /\ proceeds \in Moved(borrowed)
    /\ ledger.user_debt + borrowed <= MaxU64

ReinvestBorrowOnly(borrowed, proceeds) ==
    /\ ReinvestBorrows(borrowed, proceeds)
    /\ Credited(proceeds).amount = 0
    /\ personal' = [personal EXCEPT !.debt = @ + borrowed]
    /\ ledger' = LedgerAfterReinvest(borrowed, 0)
    /\ UNCHANGED ata

ReinvestBuys(min_out, spread, borrowed, proceeds, received) ==
    LET paid == Credited(proceeds).amount IN
    /\ ReinvestBorrows(borrowed, proceeds)
    /\ paid > 0
    /\ received \in Moved(paid)
    /\ personal.shares + received <= MaxU64
    /\ received >= min_out
    /\ SpreadAllowed(paid, received, spread)
    /\ ledger.deposited_nav + received <= MaxU64
    /\ personal' = [shares |-> personal.shares + received,
                    debt   |-> personal.debt + borrowed]
    /\ ledger' = LedgerAfterReinvest(borrowed, received)
    /\ ata' = [Credited(proceeds) EXCEPT !.amount = @ - paid]

Reinvest(k, min_out, spread, borrowed, proceeds, received) ==
    /\ MayUse(k, {"REINVEST"})
    /\ Signed(k)
    /\ UNCHANGED <<floor, slot, sellMeter, borrowMeter, taken>>
    /\ \/ ReinvestNothing
       \/ ReinvestBorrowOnly(borrowed, proceeds)
       \/ ReinvestBuys(min_out, spread, borrowed, proceeds, received)

ReinvestAny(k, min_out, spread) ==
    \E borrowed \in Moved(BorrowCapacity) : \E proceeds \in Moved(borrowed) :
        \E received \in Moved(Credited(proceeds).amount) :
            Reinvest(k, min_out, spread, borrowed, proceeds, received)
-----------------------------------------------------------------------------
(* Around the program: anybody opens the wSOL account and sends wSOL to    *)
(* it, as the clients do ahead of buy and repay; the floor moves; time     *)
(* passes.                                                                 *)
Fund(n) ==
    /\ ata.amount + n <= MaxU64
    /\ ata' = [open |-> TRUE, amount |-> ata.amount + n]
    /\ UNCHANGED <<personal, ledger, floor, slot, sellMeter, borrowMeter,
                   last_admin_activity, taken, lastSigned>>

FloorMoves ==
    /\ floor' \in Floors \ {floor}
    /\ UNCHANGED <<personal, ledger, ata, slot, sellMeter, borrowMeter,
                   last_admin_activity, taken, lastSigned>>

Tick ==
    /\ slot < MaxSlot
    /\ slot' = slot + 1
    /\ UNCHANGED <<personal, ledger, ata, floor, sellMeter, borrowMeter,
                   last_admin_activity, taken, lastSigned>>

Instruction ==
    \/ \E amount \in 1 .. ata.amount : \E received \in Moved(amount) :
          ClaimDeposit(amount, received)
    \/ \E k \in Keys :
          \/ \E amount \in 1 .. ata.amount : \E received \in Moved(amount) :
                \E min_out \in {0, amount} : Buy(k, amount, min_out, received)
          \/ \E amount \in 1 .. personal.shares : \E sold \in Moved(amount) :
                \E proceeds \in Moved(sold), min_out \in {0, amount},
                   ks \in Keys \cup {NoKeyState} :
                   Withdraw(k, ks, amount, min_out, sold, proceeds)
          \/ \E amount \in 1 .. MaxU64 : \E borrowed \in Moved(amount) :
                \E proceeds \in Moved(borrowed), ks \in Keys \cup {NoKeyState} :
                   Borrow(k, ks, amount, borrowed, proceeds)
          \/ \E amount \in 1 .. personal.debt : \E repaid \in Moved(amount) :
                Repay(k, amount, repaid)
          \/ \E spread \in Spreads, min_out \in {0, 1} : ReinvestAny(k, min_out, spread)

Environment ==
    \/ \E n \in U64 : Fund(n)
    \/ FloorMoves
    \/ Tick

Next == Instruction \/ Environment

Spec == Init /\ [][Next]_vars
-----------------------------------------------------------------------------
Meter == [bucket : RateBucket, total : U64, limit : U64]

TypeOK ==
    /\ personal \in [shares : U64, debt : U64]
    /\ ledger \in [deposited_nav : U64, user_debt : U64]
    /\ ata \in [open : BOOLEAN, amount : U64]
    /\ ~ata.open => ata.amount = 0
    /\ floor \in Floors
    /\ slot \in 0 .. MaxSlot
    /\ sellMeter \in [Keys -> Meter]
    /\ borrowMeter \in [Keys -> Meter]
    /\ \A k \in Keys : \A m \in {sellMeter[k], borrowMeter[k]} :
          m.bucket.level <= m.bucket.capacity /\ m.bucket.last_update <= slot
    /\ last_admin_activity \in 0 .. slot
    /\ taken \in [Keys -> [sold : Nat, borrowed : Nat]]
    /\ lastSigned \in 0 .. slot

(* The ledger mirrors Mayflower: through fees, saturating and checked sums *)
(* and the early returns of reinvest, deposited_nav and user_debt never    *)
(* drift from the shares and the debt of the PersonalPosition.             *)
LedgerMirrors ==
    /\ ledger.deposited_nav = personal.shares
    /\ ledger.user_debt = personal.debt

(* What one key may have taken: a capacity to begin with, its linear share *)
(* of the time since, and no more than the cap if there is one.            *)
WithinTerms(amount, t) ==
    /\ amount * t.period <= t.capacity * (t.period + slot)
    /\ t.cap > 0 => amount <= t.cap

(* A limited key stays within its own terms whatever the other keys of the *)
(* position do, and whichever KeyState accounts are passed.                *)
LimitedKeysStayWithinTerms ==
    \A k \in Keys :
        /\ "SELL" \notin Granted[k] => WithinTerms(taken[k].sold, SellTerms[k])
        /\ "BORROW" \notin Granted[k] => WithinTerms(taken[k].borrowed, BorrowTerms[k])

(* The activity time is the admin's: no instruction of another key moves   *)
(* it, and none of the admin's, even one that finds nothing to do, forgets *)
(* to (state/mod.rs: "Last time the admin signed an instruction").         *)
TimerFollowsAdmin == last_admin_activity = lastSigned

ReinvestStep ==
    \E k \in Keys, min_out \in {0, 1}, spread \in Spreads : ReinvestAny(k, min_out, spread)

(* The debt a reinvest takes on is covered by the floor value of what the  *)
(* position held before it bought anything; a position already beyond its  *)
(* floor value takes on none.                                              *)
ReinvestWithinFloor ==
    [][personal'.debt > personal.debt /\ ReinvestStep =>
          personal'.debt <= FloorValue(personal.shares)]_vars
=============================================================================
