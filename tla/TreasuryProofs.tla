---------------------------- MODULE TreasuryProofs ----------------------------
(***************************************************************************)
(* The books of a position for any keys, permissions, limits, floor prices *)
(* and fees, and for any length of time.                                   *)
(***************************************************************************)
EXTENDS Treasury, RateLimitProofs

-----------------------------------------------------------------------------
(* The invariant, in three parts that no instruction mixes: the money with *)
(* its books, the clocks, and the meters with what was taken through them. *)

Money ==
    /\ personal \in [shares : U64, debt : U64]
    /\ ledger \in [deposited_nav : U64, user_debt : U64]
    /\ ata \in [open : BOOLEAN, amount : U64]
    /\ ~ata.open => ata.amount = 0
    /\ LedgerMirrors

Clocks ==
    /\ floor \in Floors
    /\ slot \in 0 .. MaxSlot
    /\ last_admin_activity \in 0 .. slot
    /\ lastSigned \in 0 .. slot
    /\ TimerFollowsAdmin

(* A meter that was charged with everything its key took: the strengthening*)
(* of LimitedKeysStayWithinTerms.                                          *)
Sound(m, spent, t) ==
    /\ m.bucket.capacity = t.capacity
    /\ m.bucket.refill_period = t.period
    /\ m.limit = t.cap
    /\ PaidFor(m.bucket, spent, 0)
    /\ m.limit > 0 => m.total = spent /\ spent <= m.limit

Running(meters) ==
    /\ meters \in [Keys -> Meter]
    /\ \A k \in Keys : /\ meters[k].bucket.level <= meters[k].bucket.capacity
                       /\ meters[k].bucket.last_update <= slot

Meters ==
    /\ Running(sellMeter)
    /\ Running(borrowMeter)
    /\ taken \in [Keys -> [sold : Nat, borrowed : Nat]]
    /\ \A k \in Keys :
          /\ "SELL" \notin Granted[k] => Sound(sellMeter[k], taken[k].sold, SellTerms[k])
          /\ "BORROW" \notin Granted[k] =>
                Sound(borrowMeter[k], taken[k].borrowed, BorrowTerms[k])

Inv == Money /\ Clocks /\ Meters

LEMMA InvIsTyped == Inv => TypeOK
<1> SUFFICES ASSUME Inv PROVE TypeOK
  OBVIOUS
<1>1. \A k \in Keys : \A m \in {sellMeter[k], borrowMeter[k]} :
          m.bucket.level <= m.bucket.capacity /\ m.bucket.last_update <= slot
  BY DEF Inv, Meters, Running
<1> QED
  BY <1>1 DEF Inv, Money, Clocks, Meters, Running, TypeOK
-----------------------------------------------------------------------------
(* The money.                                                              *)

(* The market keeps part of an amount, never adds to it.                   *)
LEMMA MovedWithin ==
    ASSUME NEW amount \in Nat, NEW n \in Moved(amount)
    PROVE  n \in Nat /\ n <= amount
  BY DEF Moved

LEMMA MoneyNats ==
    ASSUME Money
    PROVE  /\ personal.shares \in Nat /\ personal.shares <= MaxU64
           /\ personal.debt \in Nat /\ personal.debt <= MaxU64
           /\ ledger.deposited_nav = personal.shares /\ ledger.user_debt = personal.debt
           /\ ata.amount \in Nat /\ ata.amount <= MaxU64
           /\ MaxU64 \in Nat
  BY MaxU64Assumption DEF Money, LedgerMirrors, U64

(* What is credited can be spent to the last lamport and no further.       *)
LEMMA CreditedType ==
    ASSUME Money, NEW n \in Nat
    PROVE  /\ Credited(n).amount \in Nat
           /\ Credited(n).open = ata.open
           /\ ~ata.open => Credited(n).amount = 0
           /\ [Credited(n) EXCEPT !.amount = 0] \in [open : BOOLEAN, amount : U64]
  BY MaxU64Assumption DEF Money, Credited, U64

(* The books after shares and debt have moved by the same amounts in both. *)
LEMMA BooksAgree ==
    ASSUME NEW s \in Nat, NEW d \in Nat, s <= MaxU64, d <= MaxU64,
           personal' = [shares |-> s, debt |-> d],
           ledger' = [deposited_nav |-> s, user_debt |-> d],
           ata' \in [open : BOOLEAN, amount : U64], ~ata'.open => ata'.amount = 0
    PROVE  Money'
  BY MaxU64Assumption DEF Money, LedgerMirrors, U64

LEMMA BoughtBooks ==
    ASSUME Money, NEW amount \in Nat, NEW received, Bought(amount, received)
    PROVE  Money'
<1>1. received \in Nat
  BY MovedWithin DEF Bought
<1>2. /\ personal' = [shares |-> personal.shares + received, debt |-> personal.debt]
      /\ ledger' = [deposited_nav |-> personal.shares + received, user_debt |-> personal.debt]
  BY MoneyNats DEF Bought, Money
<1>3. ata' \in [open : BOOLEAN, amount : U64] /\ (~ata'.open => ata'.amount = 0)
  BY MoneyNats DEF Bought, Money, U64
<1>4. personal.shares + received <= MaxU64
  BY DEF Bought
<1> QED
  BY <1>1, <1>2, <1>3, <1>4, MoneyNats, BooksAgree

LEMMA WithdrawBooks ==
    ASSUME Money, NEW k, NEW ks, NEW amount \in Nat, NEW min_out, NEW sold, NEW proceeds,
           Withdraw(k, ks, amount, min_out, sold, proceeds)
    PROVE  Money'
<1>1. sold \in Nat /\ sold <= personal.shares
  BY MovedWithin, MoneyNats DEF Withdraw
<1>2. /\ personal' = [shares |-> personal.shares - sold, debt |-> personal.debt]
      /\ ledger' = [deposited_nav |-> personal.shares - sold, user_debt |-> personal.debt]
  BY <1>1, MoneyNats DEF Withdraw, LedgerAfterSale, SaturatingSub, Money
<1>3. ata' \in [open : BOOLEAN, amount : U64] /\ (~ata'.open => ata'.amount = 0)
  BY MaxU64Assumption DEF Withdraw, Closed, U64
<1> QED
  BY <1>1, <1>2, <1>3, MoneyNats, BooksAgree

LEMMA BorrowBooks ==
    ASSUME Money, NEW k, NEW ks, NEW amount \in Nat, NEW borrowed, NEW proceeds,
           Borrow(k, ks, amount, borrowed, proceeds)
    PROVE  Money'
<1>1. borrowed \in Nat /\ personal.debt + borrowed <= MaxU64
  BY MovedWithin DEF Borrow
<1>2. /\ personal' = [shares |-> personal.shares, debt |-> personal.debt + borrowed]
      /\ ledger' = [deposited_nav |-> personal.shares, user_debt |-> personal.debt + borrowed]
  BY <1>1, MoneyNats DEF Borrow, Money
<1>3. ata' \in [open : BOOLEAN, amount : U64] /\ (~ata'.open => ata'.amount = 0)
  BY MaxU64Assumption DEF Borrow, Closed, U64
<1> QED
  BY <1>1, <1>2, <1>3, MoneyNats, BooksAgree

LEMMA RepayBooks ==
    ASSUME Money, NEW k, NEW amount \in Nat, NEW repaid, Repay(k, amount, repaid)
    PROVE  Money'
<1>1. repaid \in Nat /\ repaid <= personal.debt
  BY MovedWithin, MoneyNats DEF Repay
<1>2. /\ personal' = [shares |-> personal.shares, debt |-> personal.debt - repaid]
      /\ ledger' = [deposited_nav |-> personal.shares, user_debt |-> personal.debt - repaid]
  BY <1>1, MoneyNats DEF Repay, SaturatingSub, Money
<1>3. ata' \in [open : BOOLEAN, amount : U64] /\ (~ata'.open => ata'.amount = 0)
  BY MoneyNats DEF Repay, Money, U64
<1> QED
  BY <1>1, <1>2, <1>3, MoneyNats, BooksAgree

(* floor.rs never goes below zero.                                         *)
LEMMA CapacityNat ==
    ASSUME Money, Clocks
    PROVE  /\ FloorValue(personal.shares) \in Nat
           /\ BorrowCapacity \in Nat
           /\ BorrowCapacity > 0 =>
                personal.debt + BorrowCapacity = FloorValue(personal.shares)
<1>1. floor \in Nat /\ Scale \in Nat /\ Scale > 0
  BY TreasuryAssumption DEF Clocks
<1>2. personal.shares * floor \in Nat
  BY <1>1, MoneyNats, ProductNat
<1>3. FloorValue(personal.shares) \in Nat
  BY <1>1, <1>2, DivTimes DEF FloorValue
<1> HIDE DEF FloorValue
<1> QED
  BY <1>3, MoneyNats DEF BorrowCapacity, SaturatingSub

LEMMA ReinvestBooks ==
    ASSUME Money, Clocks, NEW k, NEW min_out, NEW spread, NEW borrowed, NEW proceeds,
           NEW received, Reinvest(k, min_out, spread, borrowed, proceeds, received)
    PROVE  Money'
<1>1. CASE ReinvestNothing
  BY <1>1 DEF ReinvestNothing, Money, LedgerMirrors
<1>2. ASSUME ReinvestBorrows(borrowed, proceeds)
      PROVE  borrowed \in Nat /\ proceeds \in Nat /\ personal.debt + borrowed <= MaxU64
  BY <1>2, CapacityNat, MovedWithin DEF ReinvestBorrows
<1>3. CASE ReinvestBorrowOnly(borrowed, proceeds)
  <2>1. borrowed \in Nat /\ personal.debt + borrowed <= MaxU64
    BY <1>2, <1>3 DEF ReinvestBorrowOnly
  <2>2. /\ personal' = [shares |-> personal.shares, debt |-> personal.debt + borrowed]
        /\ ledger' = [deposited_nav |-> personal.shares, user_debt |-> personal.debt + borrowed]
    BY <1>3, <2>1, MoneyNats DEF ReinvestBorrowOnly, LedgerAfterReinvest, Money
  <2>3. ata' \in [open : BOOLEAN, amount : U64] /\ (~ata'.open => ata'.amount = 0)
    BY <1>3 DEF ReinvestBorrowOnly, Money
  <2> QED
    BY <2>1, <2>2, <2>3, MoneyNats, BooksAgree
<1>4. CASE ReinvestBuys(min_out, spread, borrowed, proceeds, received)
  <2> DEFINE paid == Credited(proceeds).amount
  <2>1. borrowed \in Nat /\ proceeds \in Nat /\ personal.debt + borrowed <= MaxU64
    BY <1>2, <1>4 DEF ReinvestBuys
  <2>2. /\ paid \in Nat
        /\ [Credited(proceeds) EXCEPT !.amount = 0] \in [open : BOOLEAN, amount : U64]
    BY <2>1, CreditedType
  <2>3. received \in Nat /\ personal.shares + received <= MaxU64
    BY <1>4, <2>2, MovedWithin DEF ReinvestBuys
  <2>4. /\ personal' = [shares |-> personal.shares + received,
                        debt |-> personal.debt + borrowed]
        /\ ledger' = [deposited_nav |-> personal.shares + received,
                      user_debt |-> personal.debt + borrowed]
    BY <1>4, MoneyNats DEF ReinvestBuys, LedgerAfterReinvest
  <2>5. ata' = [Credited(proceeds) EXCEPT !.amount = 0]
    BY <1>4, <2>2 DEF ReinvestBuys
  <2>6. ata' \in [open : BOOLEAN, amount : U64] /\ (~ata'.open => ata'.amount = 0)
    BY <2>2, <2>5
  <2> QED
    BY <2>1, <2>3, <2>4, <2>6, MoneyNats, BooksAgree
<1> QED
  BY <1>1, <1>3, <1>4 DEF Reinvest
-----------------------------------------------------------------------------
(* The clocks.                                                             *)

LEMMA SignedClocks ==
    ASSUME Clocks, NEW k, Signed(k), floor' = floor, slot' = slot
    PROVE  Clocks'
<1>1. slot \in 0 .. slot
  BY TreasuryAssumption DEF Clocks
<1> QED
  BY <1>1 DEF Clocks, Signed, TimerFollowsAdmin
-----------------------------------------------------------------------------
(* The meters.                                                             *)

LEMMA MeterCharged ==
    ASSUME NEW m \in Meter, m.bucket.level <= m.bucket.capacity,
           m.bucket.last_update <= slot, slot \in Nat,
           NEW n \in Nat, MeterAllows(m, n)
    PROVE  /\ MeterAfter(m, n) \in Meter
           /\ MeterAfter(m, n).bucket.level <= MeterAfter(m, n).bucket.capacity
           /\ MeterAfter(m, n).bucket.last_update <= slot
           /\ \A t, spent : spent \in Nat /\ Sound(m, spent, t) =>
                Sound(MeterAfter(m, n), spent + n, t)
<1> DEFINE b == BucketAfter(m.bucket, n, slot)
           u == TotalAfter(m.total, m.limit, n)
<1>1. /\ m.bucket \in RateBucket /\ m.total \in U64 /\ m.limit \in U64
      /\ Filled(m.bucket) /\ m.bucket.last_update \in Nat
  BY DEF Meter, Filled, RateBucket
<1>2. BucketAllows(m.bucket, n, slot) /\ TotalAllows(m.total, m.limit, n)
  BY DEF MeterAllows
<1>3. /\ Filled(b) /\ b.capacity = m.bucket.capacity
      /\ b.refill_period = m.bucket.refill_period /\ b.last_update = slot
  BY <1>1, <1>2, SpentBucket
<1>4. u \in U64 /\ (m.limit > 0 => u = m.total + n /\ m.total + n <= m.limit)
  BY <1>1, <1>2, TotalKept
<1>5. ASSUME NEW t, NEW spent \in Nat, Sound(m, spent, t)
      PROVE  PaidFor(b, spent + n, 0)
  BY <1>1, <1>2, <1>5, SpendIsPaidFor DEF Sound
<1> HIDE DEF b, u
<1>6. MeterAfter(m, n) = [m EXCEPT !.bucket = b, !.total = u]
  BY DEF MeterAfter, b, u
<1>7. /\ MeterAfter(m, n) \in Meter /\ MeterAfter(m, n).bucket = b
      /\ MeterAfter(m, n).total = u /\ MeterAfter(m, n).limit = m.limit
  BY <1>3, <1>4, <1>6 DEF Meter, Filled
<1>8. ASSUME NEW t, NEW spent \in Nat, Sound(m, spent, t)
      PROVE  Sound(MeterAfter(m, n), spent + n, t)
  BY <1>3, <1>4, <1>5, <1>7, <1>8 DEF Sound
<1>9. b.level <= b.capacity /\ slot <= slot
  BY <1>3 DEF Filled
<1> QED
  BY <1>3, <1>7, <1>8, <1>9

(* A spend charges the meter of the key that signs, and no other: the      *)
(* KeyState passed is its own.                                             *)
LEMMA SpendMetered ==
    ASSUME slot \in Nat, NEW meters, Running(meters), NEW k \in Keys, NEW ks, NEW plain,
           NEW n \in Nat, KeyStateMatches(k, ks), SpendAllowed(meters, k, ks, plain, n)
    PROVE  /\ MeteredSpend(meters, k, ks, plain, n) \in [Keys -> Meter]
           /\ \A j \in Keys :
                LET m == MeteredSpend(meters, k, ks, plain, n)[j]
                IN /\ m.bucket.level <= m.bucket.capacity
                   /\ m.bucket.last_update <= slot
           /\ \A j \in Keys : plain \notin Granted[j] =>
                \A t, spent : spent \in Nat /\ Sound(meters[j], spent, t) =>
                    Sound(MeteredSpend(meters, k, ks, plain, n)[j],
                          IF j = k THEN spent + n ELSE spent, t)
<1>1. CASE plain \in Granted[k]
  BY <1>1 DEF MeteredSpend, Running
<1>2. CASE plain \notin Granted[k]
  <2>1. ks = k /\ MeterAllows(meters[k], n)
    BY <1>2 DEF KeyStateMatches, SpendAllowed
  <2>2. MeteredSpend(meters, k, ks, plain, n) = [meters EXCEPT ![k] = MeterAfter(meters[k], n)]
    BY <1>2, <2>1 DEF MeteredSpend
  <2>3. /\ MeterAfter(meters[k], n) \in Meter
        /\ MeterAfter(meters[k], n).bucket.level <= MeterAfter(meters[k], n).bucket.capacity
        /\ MeterAfter(meters[k], n).bucket.last_update <= slot
        /\ \A t, spent : spent \in Nat /\ Sound(meters[k], spent, t) =>
                Sound(MeterAfter(meters[k], n), spent + n, t)
    BY <2>1, MeterCharged DEF Running
  <2> QED
    BY <2>2, <2>3 DEF Running
<1> QED
  BY <1>1, <1>2

LEMMA WithdrawMeters ==
    ASSUME Clocks, Meters, NEW k \in Keys, NEW ks, NEW amount \in Nat, NEW min_out,
           NEW sold, NEW proceeds, Withdraw(k, ks, amount, min_out, sold, proceeds)
    PROVE  Meters'
<1>1. slot \in Nat /\ sold \in Nat /\ slot' = slot /\ borrowMeter' = borrowMeter
  BY MovedWithin, TreasuryAssumption DEF Clocks, Withdraw
<1>2. /\ sellMeter' = MeteredSpend(sellMeter, k, ks, "SELL", sold)
      /\ KeyStateMatches(k, ks) /\ SpendAllowed(sellMeter, k, ks, "SELL", sold)
      /\ taken' = [taken EXCEPT ![k].sold = @ + Metered(k, "SELL", sold)]
  BY DEF Withdraw
<1>3. /\ sellMeter' \in [Keys -> Meter]
      /\ \A j \in Keys : /\ sellMeter'[j].bucket.level <= sellMeter'[j].bucket.capacity
                         /\ sellMeter'[j].bucket.last_update <= slot
      /\ \A j \in Keys : "SELL" \notin Granted[j] =>
            \A t, spent : spent \in Nat /\ Sound(sellMeter[j], spent, t) =>
                Sound(sellMeter'[j], IF j = k THEN spent + sold ELSE spent, t)
  BY <1>1, <1>2, SpendMetered DEF Meters
<1>4. Metered(k, "SELL", sold) \in Nat
  BY <1>1 DEF Metered
<1>5. /\ taken' \in [Keys -> [sold : Nat, borrowed : Nat]]
      /\ \A j \in Keys : /\ taken'[j].borrowed = taken[j].borrowed
                         /\ taken[j].sold \in Nat
                         /\ taken'[j].sold = IF j = k
                                             THEN taken[j].sold + Metered(k, "SELL", sold)
                                             ELSE taken[j].sold
  BY <1>2, <1>4 DEF Meters
<1>6. ASSUME NEW j \in Keys, "SELL" \notin Granted[j]
      PROVE  Sound(sellMeter'[j], taken'[j].sold, SellTerms[j])
  <2>1. Sound(sellMeter[j], taken[j].sold, SellTerms[j])
    BY <1>6 DEF Meters
  <2>2. Sound(sellMeter'[j], IF j = k THEN taken[j].sold + sold ELSE taken[j].sold,
              SellTerms[j])
    BY <1>3, <1>5, <1>6, <2>1
  <2> QED
    BY <1>5, <1>6, <2>2 DEF Metered
<1> QED
  BY <1>1, <1>3, <1>5, <1>6 DEF Meters, Running, Sound, PaidFor

LEMMA BorrowMeters ==
    ASSUME Clocks, Meters, NEW k \in Keys, NEW ks, NEW amount \in Nat, NEW borrowed,
           NEW proceeds, Borrow(k, ks, amount, borrowed, proceeds)
    PROVE  Meters'
<1>1. slot \in Nat /\ borrowed \in Nat /\ slot' = slot /\ sellMeter' = sellMeter
  BY MovedWithin, TreasuryAssumption DEF Clocks, Borrow
<1>2. /\ borrowMeter' = MeteredSpend(borrowMeter, k, ks, "BORROW", borrowed)
      /\ KeyStateMatches(k, ks) /\ SpendAllowed(borrowMeter, k, ks, "BORROW", borrowed)
      /\ taken' = [taken EXCEPT ![k].borrowed = @ + Metered(k, "BORROW", borrowed)]
  BY DEF Borrow
<1>3. /\ borrowMeter' \in [Keys -> Meter]
      /\ \A j \in Keys : /\ borrowMeter'[j].bucket.level <= borrowMeter'[j].bucket.capacity
                         /\ borrowMeter'[j].bucket.last_update <= slot
      /\ \A j \in Keys : "BORROW" \notin Granted[j] =>
            \A t, spent : spent \in Nat /\ Sound(borrowMeter[j], spent, t) =>
                Sound(borrowMeter'[j], IF j = k THEN spent + borrowed ELSE spent, t)
  BY <1>1, <1>2, SpendMetered DEF Meters
<1>4. Metered(k, "BORROW", borrowed) \in Nat
  BY <1>1 DEF Metered
<1>5. /\ taken' \in [Keys -> [sold : Nat, borrowed : Nat]]
      /\ \A j \in Keys : /\ taken'[j].sold = taken[j].sold
                         /\ taken[j].borrowed \in Nat
                         /\ taken'[j].borrowed = IF j = k
                                THEN taken[j].borrowed + Metered(k, "BORROW", borrowed)
                                ELSE taken[j].borrowed
  BY <1>2, <1>4 DEF Meters
<1>6. ASSUME NEW j \in Keys, "BORROW" \notin Granted[j]
      PROVE  Sound(borrowMeter'[j], taken'[j].borrowed, BorrowTerms[j])
  <2>1. Sound(borrowMeter[j], taken[j].borrowed, BorrowTerms[j])
    BY <1>6 DEF Meters
  <2>2. Sound(borrowMeter'[j], IF j = k THEN taken[j].borrowed + borrowed
                               ELSE taken[j].borrowed, BorrowTerms[j])
    BY <1>3, <1>5, <1>6, <2>1
  <2> QED
    BY <1>5, <1>6, <2>2 DEF Metered
<1> QED
  BY <1>1, <1>3, <1>5, <1>6 DEF Meters, Running, Sound, PaidFor

(* Whoever does not sell or borrow leaves the meters as they are.          *)
LEMMA MetersIdle ==
    ASSUME Meters, Clocks, UNCHANGED <<sellMeter, borrowMeter, taken>>,
           slot' \in Nat, slot <= slot'
    PROVE  Meters'
<1>1. slot \in Nat
  BY TreasuryAssumption DEF Clocks
<1>2. \A k \in Keys : /\ sellMeter[k].bucket.last_update \in Nat
                      /\ borrowMeter[k].bucket.last_update \in Nat
  BY DEF Meters, Running, Meter, RateBucket
<1> QED
  BY <1>1, <1>2 DEF Meters, Running
-----------------------------------------------------------------------------
(* The invariant is kept.                                                  *)

LEMMA FreshIsSound ==
    ASSUME NEW t \in Terms
    PROVE  /\ FreshMeter(t) \in Meter
           /\ FreshMeter(t).bucket.level <= FreshMeter(t).bucket.capacity
           /\ FreshMeter(t).bucket.last_update = 0
           /\ Sound(FreshMeter(t), 0, t)
<1>1. /\ t.capacity \in Nat /\ t.capacity \in U64 /\ t.period \in Nat
      /\ t.period \in U64 /\ t.cap \in U64 /\ t.cap \in Nat /\ 0 \in U64
  BY MaxU64Assumption DEF Terms, U64
<1>2. FreshMeter(t).bucket \in RateBucket
  BY <1>1 DEF FreshMeter, RateBucket
<1>3. FreshMeter(t) \in Meter
  BY <1>1, <1>2 DEF FreshMeter, Meter
<1>4. /\ (0 + t.capacity) * t.period <= t.capacity * (t.period + (0 - 0))
      /\ t.capacity <= t.capacity
  BY <1>1
<1>5. PaidFor(FreshMeter(t).bucket, 0, 0)
  BY <1>1, <1>4 DEF FreshMeter, PaidFor
<1> QED
  BY <1>1, <1>3, <1>5 DEF FreshMeter, Sound

LEMMA InvStart == Init => Inv
<1> SUFFICES ASSUME Init PROVE Inv
  OBVIOUS
<1>1. Money
  BY MaxU64Assumption DEF Init, Money, LedgerMirrors, U64
<1>2. Clocks
  BY TreasuryAssumption DEF Init, Clocks, TimerFollowsAdmin
<1>3. \A k \in Keys : SellTerms[k] \in Terms /\ BorrowTerms[k] \in Terms
  BY TreasuryAssumption
<1>4. \A k \in Keys : /\ sellMeter[k] = FreshMeter(SellTerms[k])
                      /\ borrowMeter[k] = FreshMeter(BorrowTerms[k])
                      /\ taken[k].sold = 0 /\ taken[k].borrowed = 0
  BY DEF Init
<1>5. Running(sellMeter)
  BY <1>3, <1>4, FreshIsSound DEF Init, Running
<1>6. Running(borrowMeter)
  BY <1>3, <1>4, FreshIsSound DEF Init, Running
<1>7. taken \in [Keys -> [sold : Nat, borrowed : Nat]]
  BY DEF Init
<1>8. Meters
  BY <1>3, <1>4, <1>5, <1>6, <1>7, FreshIsSound DEF Meters
<1> QED
  BY <1>1, <1>2, <1>8 DEF Inv

LEMMA InvStep == Inv /\ [Next]_vars => Inv'
<1> SUFFICES ASSUME Inv, [Next]_vars PROVE Inv'
  OBVIOUS
<1>1. Money /\ Clocks /\ Meters /\ slot \in Nat /\ slot \in 0 .. MaxSlot /\ slot <= slot
  BY TreasuryAssumption DEF Inv, Clocks
<1>2. ata.amount \in Nat /\ personal.shares \in Nat /\ personal.debt \in Nat
  BY <1>1, MoneyNats
<1>3. ASSUME NEW amount \in 1 .. ata.amount, NEW received, ClaimDeposit(amount, received)
      PROVE  Inv'
  <2>1. amount \in Nat /\ Bought(amount, received)
    BY <1>2, <1>3 DEF ClaimDeposit
  <2>2. Money'
    BY <1>1, <2>1, BoughtBooks
  <2>3. Clocks'
    BY <1>1, <1>3 DEF ClaimDeposit, Clocks, TimerFollowsAdmin
  <2>4. Meters'
    BY <1>1, <1>3, MetersIdle DEF ClaimDeposit
  <2> QED
    BY <2>2, <2>3, <2>4 DEF Inv
<1>4. ASSUME NEW k \in Keys, NEW amount \in 1 .. ata.amount, NEW received, NEW min_out,
             Buy(k, amount, min_out, received)
      PROVE  Inv'
  <2>1. amount \in Nat /\ Bought(amount, received)
    BY <1>2, <1>4 DEF Buy
  <2>2. Money'
    BY <1>1, <2>1, BoughtBooks
  <2>3. Clocks'
    BY <1>1, <1>4, SignedClocks DEF Buy
  <2>4. Meters'
    BY <1>1, <1>4, MetersIdle DEF Buy
  <2> QED
    BY <2>2, <2>3, <2>4 DEF Inv
<1>5. ASSUME NEW k \in Keys, NEW amount \in 1 .. personal.shares, NEW sold, NEW proceeds,
             NEW min_out, NEW ks, Withdraw(k, ks, amount, min_out, sold, proceeds)
      PROVE  Inv'
  <2>1. amount \in Nat
    BY <1>2
  <2>2. Money'
    BY <1>1, <1>5, <2>1, WithdrawBooks
  <2>3. Clocks'
    BY <1>1, <1>5, SignedClocks DEF Withdraw
  <2>4. Meters'
    BY <1>1, <1>5, <2>1, WithdrawMeters
  <2> QED
    BY <2>2, <2>3, <2>4 DEF Inv
<1>6. ASSUME NEW k \in Keys, NEW amount \in 1 .. MaxU64, NEW borrowed, NEW proceeds,
             NEW ks, Borrow(k, ks, amount, borrowed, proceeds)
      PROVE  Inv'
  <2>1. amount \in Nat
    BY MaxU64Assumption
  <2>2. Money'
    BY <1>1, <1>6, <2>1, BorrowBooks
  <2>3. Clocks'
    BY <1>1, <1>6, SignedClocks DEF Borrow
  <2>4. Meters'
    BY <1>1, <1>6, <2>1, BorrowMeters
  <2> QED
    BY <2>2, <2>3, <2>4 DEF Inv
<1>7. ASSUME NEW k \in Keys, NEW amount \in 1 .. personal.debt, NEW repaid,
             Repay(k, amount, repaid)
      PROVE  Inv'
  <2>1. amount \in Nat
    BY <1>2
  <2>2. Money'
    BY <1>1, <1>7, <2>1, RepayBooks
  <2>3. Clocks'
    BY <1>1, <1>7, SignedClocks DEF Repay
  <2>4. Meters'
    BY <1>1, <1>7, MetersIdle DEF Repay
  <2> QED
    BY <2>2, <2>3, <2>4 DEF Inv
<1>8. ASSUME NEW k \in Keys, NEW spread, NEW min_out, ReinvestAny(k, min_out, spread)
      PROVE  Inv'
  <2>1. PICK borrowed, proceeds, received :
            Reinvest(k, min_out, spread, borrowed, proceeds, received)
    BY <1>8 DEF ReinvestAny
  <2>2. Money'
    BY <1>1, <2>1, ReinvestBooks
  <2>3. Clocks'
    BY <1>1, <2>1, SignedClocks DEF Reinvest
  <2>4. Meters'
    BY <1>1, <2>1, MetersIdle DEF Reinvest
  <2> QED
    BY <2>2, <2>3, <2>4 DEF Inv
<1>9. ASSUME NEW n \in U64, Fund(n)
      PROVE  Inv'
  <2>1. n \in Nat /\ ata'.amount \in U64 /\ ata' \in [open : BOOLEAN, amount : U64] /\ ata'.open
    BY <1>2, <1>9, MaxU64Assumption DEF Fund, U64
  <2>2. Money'
    BY <1>1, <1>9, <2>1 DEF Fund, Money, LedgerMirrors
  <2>3. Clocks'
    BY <1>1, <1>9 DEF Fund, Clocks, TimerFollowsAdmin
  <2>4. Meters'
    BY <1>1, <1>9, MetersIdle DEF Fund
  <2> QED
    BY <2>2, <2>3, <2>4 DEF Inv
<1>10. CASE FloorMoves
  <2>1. Money'
    BY <1>1, <1>10 DEF FloorMoves, Money, LedgerMirrors
  <2>2. Clocks'
    BY <1>1, <1>10 DEF FloorMoves, Clocks, TimerFollowsAdmin
  <2>3. Meters'
    BY <1>1, <1>10, MetersIdle DEF FloorMoves
  <2> QED
    BY <2>1, <2>2, <2>3 DEF Inv
<1>11. CASE Tick
  <2>1. Money'
    BY <1>1, <1>11 DEF Tick, Money, LedgerMirrors
  <2>2. Clocks'
    BY <1>1, <1>11, TreasuryAssumption DEF Tick, Clocks, TimerFollowsAdmin
  <2>3. slot' \in Nat /\ slot <= slot'
    BY <1>1, <1>11 DEF Tick
  <2>4. Meters'
    BY <1>1, <1>11, <2>3, MetersIdle DEF Tick
  <2> QED
    BY <2>1, <2>2, <2>4 DEF Inv
<1>12. CASE UNCHANGED vars
  <2>1. Money'
    BY <1>1, <1>12 DEF vars, Money, LedgerMirrors
  <2>2. Clocks'
    BY <1>1, <1>12 DEF vars, Clocks, TimerFollowsAdmin
  <2>3. Meters'
    BY <1>1, <1>12, MetersIdle DEF vars
  <2> QED
    BY <2>1, <2>2, <2>3 DEF Inv
<1>13. CASE Instruction
  BY <1>3, <1>4, <1>5, <1>6, <1>7, <1>8, <1>13 DEF Instruction
<1>14. CASE Environment
  BY <1>9, <1>10, <1>11, <1>14 DEF Environment
<1> QED
  BY <1>12, <1>13, <1>14 DEF Next

LEMMA InvAlways == Spec => []Inv
<1> QED
  BY InvStart, InvStep, PTL DEF Spec
-----------------------------------------------------------------------------
(* The theorems.                                                           *)

(* Every account of a position keeps its type: no sum, product or charge   *)
(* of buy, withdraw, borrow, repay and reinvest leaves its 64 bits.        *)
THEOREM TypeCorrect == Spec => []TypeOK
<1> QED
  BY InvAlways, InvIsTyped, PTL

(* PositionState.deposited_nav and user_debt are what Mayflower holds,     *)
(* whatever it keeps in fees.                                              *)
THEOREM BooksMirror == Spec => []LedgerMirrors
<1>1. Inv => LedgerMirrors
  BY DEF Inv, Money
<1> QED
  BY <1>1, InvAlways, PTL

(* What a sound meter let through is within the terms of its key.          *)
LEMMA SoundIsWithin ==
    ASSUME slot \in Nat, NEW m \in Meter, m.bucket.last_update <= slot,
           NEW t \in Terms, NEW spent \in Nat, Sound(m, spent, t)
    PROVE  WithinTerms(spent, t)
<1> DEFINE c == t.capacity
           p == t.period
           l == m.bucket.level
           u == m.bucket.last_update
<1>1. c \in Nat /\ p \in Nat /\ l \in Nat /\ u \in Nat /\ u <= slot
  BY MaxU64Assumption DEF Terms, Meter, RateBucket, U64
<1>2. (spent + l) * p <= c * (p + (u - 0))
  BY DEF Sound, PaidFor
<1>3. t.cap > 0 => spent <= t.cap
  BY DEF Sound
<1> HIDE DEF c, p, l, u
<1>4. spent * p <= (spent + l) * p
  BY <1>1, ProductMonotone
<1>5. c * (p + (u - 0)) <= c * (p + slot)
  BY <1>1, ProductMonotone
<1>6. /\ spent * p \in Nat /\ (spent + l) * p \in Nat
      /\ c * (p + (u - 0)) \in Nat /\ c * (p + slot) \in Nat
  BY <1>1, ProductNat
<1>7. spent * p <= c * (p + slot)
  BY <1>2, <1>4, <1>5, <1>6
<1> QED
  BY <1>3, <1>7 DEF WithinTerms, c, p

(* A key with a limited permission never sells or borrows beyond its own   *)
(* terms, whichever KeyState accounts are passed and whatever the other    *)
(* keys of the position do.                                                *)
THEOREM KeysWithinTerms == Spec => []LimitedKeysStayWithinTerms
<1>1. ASSUME Inv PROVE LimitedKeysStayWithinTerms
  <2>1. slot \in Nat /\ Meters
    BY <1>1, TreasuryAssumption DEF Inv, Clocks
  <2>2. \A k \in Keys :
            /\ SellTerms[k] \in Terms /\ BorrowTerms[k] \in Terms
            /\ sellMeter[k] \in Meter /\ borrowMeter[k] \in Meter
            /\ sellMeter[k].bucket.last_update <= slot
            /\ borrowMeter[k].bucket.last_update <= slot
            /\ taken[k].sold \in Nat /\ taken[k].borrowed \in Nat
    BY <2>1, TreasuryAssumption DEF Meters, Running
  <2>3. ASSUME NEW k \in Keys, "SELL" \notin Granted[k]
        PROVE  WithinTerms(taken[k].sold, SellTerms[k])
    <3>1. Sound(sellMeter[k], taken[k].sold, SellTerms[k])
      BY <2>1, <2>3 DEF Meters
    <3> QED
      BY <2>1, <2>2, <3>1, SoundIsWithin
  <2>4. ASSUME NEW k \in Keys, "BORROW" \notin Granted[k]
        PROVE  WithinTerms(taken[k].borrowed, BorrowTerms[k])
    <3>1. Sound(borrowMeter[k], taken[k].borrowed, BorrowTerms[k])
      BY <2>1, <2>4 DEF Meters
    <3> QED
      BY <2>1, <2>2, <3>1, SoundIsWithin
  <2> QED
    BY <2>3, <2>4 DEF LimitedKeysStayWithinTerms
<1> QED
  BY <1>1, InvAlways, PTL

(* last_admin_activity is when the admin last signed: no delegated key     *)
(* moves it, and no instruction of the admin's forgets it.                 *)
THEOREM TimerExact == Spec => []TimerFollowsAdmin
<1>1. Inv => TimerFollowsAdmin
  BY DEF Inv, Clocks
<1> QED
  BY <1>1, InvAlways, PTL

(* The debt a reinvest takes on is covered by the floor value of what the  *)
(* position held before it.                                                *)
LEMMA ReinvestCovers ==
    Inv /\ ReinvestStep /\ personal'.debt > personal.debt =>
        personal'.debt <= FloorValue(personal.shares)
<1> SUFFICES ASSUME Inv, ReinvestStep, personal'.debt > personal.debt
             PROVE  personal'.debt <= FloorValue(personal.shares)
  OBVIOUS
<1>0. PICK k \in Keys, min_out \in {0, 1}, spread \in Spreads :
          ReinvestAny(k, min_out, spread)
  BY DEF ReinvestStep
<1>1. PICK borrowed, proceeds, received :
          Reinvest(k, min_out, spread, borrowed, proceeds, received)
  BY <1>0 DEF ReinvestAny
<1>2. /\ personal \in [shares : U64, debt : U64] /\ personal.debt \in Nat
      /\ FloorValue(personal.shares) \in Nat /\ BorrowCapacity \in Nat
      /\ BorrowCapacity > 0 =>
            personal.debt + BorrowCapacity = FloorValue(personal.shares)
  BY MoneyNats, CapacityNat DEF Inv, Money
<1>3. ~ReinvestNothing
  BY <1>2 DEF ReinvestNothing
<1>4. /\ BorrowCapacity > 0
      /\ borrowed \in Moved(BorrowCapacity)
      /\ personal'.debt = personal.debt + borrowed
  BY <1>1, <1>2, <1>3
     DEF Reinvest, ReinvestBorrowOnly, ReinvestBuys, ReinvestBorrows
<1>5. borrowed \in Nat /\ borrowed <= BorrowCapacity
  BY <1>2, <1>4, MovedWithin
<1> HIDE DEF BorrowCapacity, FloorValue
<1> QED
  BY <1>2, <1>4, <1>5

THEOREM ReinvestCovered == Spec => ReinvestWithinFloor
<1>1. Inv /\ [Next]_vars =>
        [personal'.debt > personal.debt /\ ReinvestStep =>
            personal'.debt <= FloorValue(personal.shares)]_vars
  BY ReinvestCovers
<1>2. Spec => [][Next]_vars
  BY DEF Spec
<1> QED
  BY <1>1, <1>2, InvAlways, PTL DEF ReinvestWithinFloor
=============================================================================
