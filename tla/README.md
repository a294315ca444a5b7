# Verification of Hardig

Hardig is a Solana program (`programs/hardig`) that turns a leveraged Mayflower
position into something NFTs can be keys to: one *admin key* that can do
everything, *delegated keys* with a permission mask and spending limits, and a
*recovery key* that may take the position over when the admin has been silent
for long enough.  Around it stand a web client (`web-lite`) and a terminal
client (`crates/tui`).

This directory holds TLA+ models of it, TLC configurations that check them on
small instances, and TLAPS proofs of the results that matter most for every
value of the constants.  All paths below are relative to `src/`; `instructions/`
stands for `programs/hardig/src/instructions/`.

## 1. The system

| part | state it keeps | operations | hard because |
|---|---|---|---|
| **Keyring and recovery** (`create_position`, `authorize_key`, `revoke_key`, `heartbeat`, `configure_recovery`, `execute_recovery`, `validate_key`) | a `PositionState` per position (admin asset, recovery asset, lockout, seal, time of last admin activity), a `KeyState` per delegated key, the MPL-Core assets | the six instructions; and, outside the program, owners that transfer or burn their keys, strangers that mint look-alikes, the clock | legal calls in any order; owners act behind the program's back; recovery races the admin's heartbeat |
| **Rate limits** (`consume_rate_limit.rs`, `RateBucket::available_now`, `web-lite/src/rateLimits.js`) | a token bucket and a lifetime total per direction and key | consume, quote (two copies) | rounding, u64 width, a read-only copy that drifts from the enforced one |
| **Money** (`buy`, `withdraw`, `borrow`, `repay`, `reinvest`, `mayflower/floor.rs`) | `deposited_nav` and `user_debt`, the program's wSOL account; Mayflower's own `PersonalPosition` beside them | the five instructions, the deposit of a claim | amounts are read back from the market; early returns in `reinvest`; the key state passed may be another key's |
| **Promos** (`promo/*`) | `PromoConfig`, one `ClaimReceipt` per wallet | create, update, claim | many wallets claim while the admin moves the limit; keys are minted without the admin's signature |
| **Protocol administration** (`initialize_protocol`, `migrate_config`, `create_collection`, `transfer_admin`, `accept_admin`, `create_market_config`, `add_/remove_trusted_provider`) | `ProtocolConfig` in three layouts, `MarketConfig`s, `TrustedProvider`s | the eight instructions | a migration over old bytes, a two-step hand-over |
| **Artwork** (`artwork.rs`, `set_position_artwork`) | `artwork_id` of a position; receipts and images belong to other programs | `validate_artwork_receipt` and its callers | other programs' accounts are closed and their trust is withdrawn between any two calls |
| **Web session** (`app.jsx`, `discovery.js`, `mayflower.js`, `state.js`) | module-level signals | refresh, switch of position, connect, disconnect, change of cluster, refresh after a transaction | flows overlap at every `await` and share the signals; nothing is cancelled |
| **Web transactions** (`components/ActionModal.jsx`, `instructions/*.js`) | the modal: its form, the transaction to confirm, the send under way | open, choose, submit, confirm, close; a builder per instruction | the builders read whatever the signals hold; the keyring changes under an open form; a confirmation is lost and sent again; the modal is closed while it sends |
| **Terminal client** (`crates/tui/src/app.rs`, `main.rs`) | `App`: screen, selected position and what was derived and read for it, the transaction to confirm; nothing between two processes | refresh, selection, forms, a builder per instruction, confirmation; one-shot commands that select and send without asking | requests fail one by one, a transaction may land unseen, and parts of the state outlive the selection they belong to |
| Web rendering, terminal drawing | none | components, layout | — |
| CPI accounts, metadata, mock market, scripts | none | byte layouts, formatting | — |

How they interact: every instruction but those of the protocol's admin begins
with a key; `validate_key` ties asset, position and permission together.  The
market instructions use the keyring only for that check and for
`last_admin_activity`.  A claim mints into the keyring *and* buys.  Minting
asks the artwork chain, which asks the registry of trusted providers.  The
clients read accounts and build transactions from what they last read.

Correctness, part by part:

* keyring: one admin; one role per key; no record of a dead key; control passes
  only by gift or after the agreed silence; a seal holds; positions are
  independent; a recovery that is due can be carried out;
* rate limits: a bound over *every* window; a cap over a lifetime; quotes that
  are neither too high nor too low;
* money: the local ledger equals the market's; a key never exceeds its own
  terms; reinvesting never borrows beyond the floor value;
* promos: never more keys than the limit; claimed keys are ordinary delegated keys;
* protocol: no nomination outlives its nominator; the collection never changes;
* artwork: no picture without a licence; no accident of a provider stops keys
  from being made;
* web session: the key that signs belongs to the position named; the page, once
  quiet, is about one position; the refresh button is always released;
* web transactions: what the program accepts is of the position on the screen,
  priced in its market; the key revoked is the one chosen; nothing is made twice;
* terminal: what is to be confirmed is about one position, and a command is about
  the one asked for; a refresh comes back to where it was and reads its figures.

## 2. The modules

```
RateLimit ─── SpendingLimit                                (buckets, caps)
    └──────── Treasury                                     (money)
Keyring ───── KeyringRefinement ── INSTANCE Custody        (keys, recovery; the promise)
    └──────── Promo                                        (campaigns on a keyring)
Protocol ──── Artwork                                      (admin, trust, pictures)
WebSession ── WebTransaction                               (one browser page, its modal)
TuiSession ── TuiCommand                                   (one terminal, its processes)
MC*                                                        (instances for TLC)

RateLimitProofs ── SpendingLimitProofs, TreasuryProofs
KeyringProofs (with KeyringRefinement) ── PromoProofs
ArtworkProofs (with Protocol), WebProofs (with WebSession), TuiProofs (with TuiSession)
```

An instruction is one Solana transaction and therefore one action: its
`require!`s, account constraints and early returns are the guards, its writes
the primed variables.  A failed transaction changes nothing and is not an
action.

Definitions marked `\* slip:` are not part of any specification.  They are the
plausible mistakes (a guard dropped, `>` for `>=`, a write forgotten) each
property was tried against; `PROJECT.json` pairs each with the definition it
would replace and the property that then fails.

### RateLimit, SpendingLimit

`RateLimit` holds the algorithms as operators: `Refilled` / `BucketAllows` /
`BucketAfter` for `consume_rate_limit`, `TotalAllows` / `TotalAfter` for
`consume_total_limit`, `AvailableNow` for the Rust quote, and
`BucketAvailableNowJS` for the browser's.  u64 saturation is in
`SaturatingAdd` and `SaturatingSub`; the product of the refill is computed in
u128 in the code and cannot overflow.  `SpendingLimit` is one metered key:
`Spend`, the chain's `Advance`, and `Observe`, which puts the beginning of the
window that `WindowBound` is about at any slot.  A bucket may begin less than
full, as a promo's `initial_fill_bps` makes it.

### Keyring

`asset` is the MPL-Core account at each address, `position` the
`PositionState`s (named by `authority_seed`, the first admin key, so
`Assets` is also the set of positions), `keyStates` the keys with a `KeyState`,
`now` the clock.  `lastSigned` is history.  An address is used once; a burnt
asset leaves a stub no instruction can read.  `TransferKey`, `DestroyKey` and
`ForeignMint` are what MPL-Core lets anybody do without the program.
The market instructions touch a keyring only through `last_admin_activity`;
here `Heartbeat` stands for that effect, and `Treasury` checks that each of
them has it (`TimerFollowsAdmin`).

### Custody, KeyringRefinement

`Custody` says what a keyring is for without mentioning keys: a controller, an
heir, an agreed silence.  `KeyringRefinement` maps the keyring to it by looking
at the *assets* (who holds a live key that can manage; who holds a powerless
one), not at the position's record, so that a second admin key or a leftover
recovery key would show up as a second controller or heir.  A holder who
destroys his own key leaves a position without controller or heir: in `Custody`
control, or the place of the heir, is then passed to nobody.

### Treasury

One position, its market account `personal` and the program's own `ledger`.
What Mayflower decides — fees, how much of an amount arrives — is `Moved(n)`,
any value from `n - MaxFee` to `n`; the code's comparisons of balances before
and after decide from there.  `FloorMoves` moves the floor price either way.
The key state account is an argument of `Withdraw` and `Borrow`, and may be
any key's or missing.  Which wallet holds a key is left to `Keyring`; one clock stands for
slot and timestamp.

### Promo

Extends `Keyring`: its `Next` is `Keyring`'s with the three promo instructions.
A `PromoConfig` is per position and name; a claim mints a key, its `KeyState`
and a receipt in one step.  The money side of a claim is
`Treasury!ClaimDeposit`; the two halves share no state but the key.

### Protocol, Artwork

`Protocol` is the config account in its layouts `absent`, `v0`, `v1`, `v2`
(`migrate_config` tells them by length), the collections, markets and trusted
providers.  `nominator` is history.  `Artwork` extends it with positions,
receipts and images; `Accounts` is what a caller may pass in
`remaining_accounts`, a counterfeit provider account included.  Both are
checked in one run, so that trust is withdrawn by whoever is admin by then.
`ArtworkAnswers` is `validate_artwork_receipt`: the set of pictures it returns,
empty for an error.  `CreatePosition` is strict and `MintKey` graceful, as in
the code; `RecoverKey` mints without a picture because `execute_recovery`
does.

### WebSession

`page` holds the signals that describe a position, `flows` the asynchronous
calls under way, each at one of its awaits.  Between two awaits JavaScript runs
alone: the operators `ToPosition`, `ToKeyring`, `KeyringKnown`, `ToPromos` and
`ToFigures` are those stretches, from one await to the next.  Each await is one
action with its outcomes: answered, rejected and caught (`Survives`), rejected
and not (`GivesUp`).  A flow keeps the wallet of the closure it was started
from, which need not be the one connected now.  The chain stands still: what is
shown to go wrong goes wrong although every answer is right.  `loadMarkets`,
whose answer goes to a signal of its own, shares a wait with `checkProtocol`;
RPC lists come in a fixed order, so "the first of the best" is a `CHOOSE`.

### WebTransaction

Extends `WebSession` with `modal`, the `ActionModal` from form to result, and
`sending`, a send whose modal was closed while it was under way.  `Trade` is
what the five trade builders make of the signals, whatever mixture of old and
new those are; `Accepts` is what the program's account constraints and
`validate_key` say to it, so that a property can speak of the transactions that
matter, those the program takes.  A revocation is named by a *row*: `rows` is
the keyring as listed at this moment (`Listings`: a node may list it in another
order each time), `ticked` the key the user saw in the row he chose, `target`
the one `handleSubmit` takes.  The form leaves out the authority of the account
shown (`Revocable`): the keyring lists a key once, so the filter drops one row
at most.  `Confirm` may be pressed again after an error;
`ConfirmationLost` is an error although the transaction landed.  What creates
something (position, key, promo) is one kind: its key is made when it is built,
so `spent` decides whether it can land again.  Flows of `WebSession` go on under
the modal (`UnderTheForm`); nothing disables the page below it for the keyboard
or the wallet's own window.

### TuiSession

`app` is the `App` as far as it describes a position, `existing` the positions
on the chain.  One thread waits for a key and, inside it, for the RPC node, so
a handler is one action.  A refresh is the composition its code is: `Cleared`,
`Listed` and `Discovered` for `discover_position`, `Selected` and `Reselected`
for `select_active_position` and `reselect_position`, `Routed` for the choice
of what to show, `WithFigures` for `refresh_mayflower_state`; each request in it
may be answered or fail on its own.  A builder is one action, its early returns
the guards; `pending` keeps the accounts it names.  `screen` tells a form by
its kind, and the forms that open read-only by names of their own (`settings`,
`sealed`, `viewPromo`).

A *key* is a place in a position's keyring, not an asset.  Since others may give
keys to the wallet and take them at any time, and a failed request counts as
"not mine", a refresh sees any part of the keys of the positions that exist.  A
delegated key may trade; its exact mask only takes choices away.  The typing
into forms, the cursors (a choice is any listed item), quitting and what the
screen looks like are left out, `pre_tx_snapshot` with them.

### TuiCommand

The process around the session: `Run` starts it for a session or for one
command, with or without `--position`; a command selects its position
(`Targets`, `SelectTarget`), builds with the same builders (`BuildCommand`),
sends at once (`CommandSent`, `CommandFailed`) and ends.  Each process begins
with an empty `App`; what the one before left is on the chain.  A lost answer
and a repeated command are therefore a `CommandFailed` that landed and another
`Run`.

## 3. What TLC checks

| run | instance | shows |
|---|---|---|
| `spending_limit` | capacities 2, 3; periods 1–4; fills 0, ½, 1; caps 0, 2, 4; u64 cut to 5; 6 slots | `WindowBound`, `LifetimeCap`; `QuoteExact`: the Rust quote is exact; `QuoteKeeps`: the browser's is still good when the spend lands later |
| `keyring` | 2 wallets, 4 addresses, lockouts 0, 2 and 3 with a limit of 2, clock to 2 | `SoleAdmin`, `OneRolePerKey`, `NoDangling`; the action properties `SuccessionIsEarned`, `SealHolds`, `Isolation`; `ImplementsCustody`: every instruction is one step of `Custody` or none |
| `recovery` | 2 wallets, 3 addresses, clock to 3 | liveness: `RecoveryFires` |
| `destroyed_admin_key` | as `recovery` | a counterexample, see findings |
| `treasury` | admin, a limited key, a limited key that may reinvest; u64 cut to 2; floors 1, 2; fees to 1 | `LedgerMirrors`, `LimitedKeysStayWithinTerms`, `TimerFollowsAdmin`, `ReinvestWithinFloor` |
| `promo` | 2 wallets, 3 addresses, limits 0 and 1, u32 cut to 2 | `ClaimsWithinLimit`, `ClaimedKeysAreDelegated` |
| `stale_timer` | as `promo` | a counterexample, see findings |
| `artwork` | 3 admins, 2 collections, a gallery and a forger that may be trusted and dropped, receipts for this and another position | `NominationIsCurrent`, `CollectionIsForever`, `ArtworkIsBought`, `PicturesAreLicensed`, `ClosedReceiptFallsBack` (126 504 states) |
| `web` | 3 wallets, 3 positions in 2 markets, 3 delegated keys, 2 flows at once | `KeyFitsPosition`, `ButtonIsReleased`, `UndisturbedFlowsAgree`; of what is built: `TradeIsOfTheShown`, `MinOutIsOfTheTrade`, `RevokesTheChosen`, `NothingMadeTwice` (661 020 states) |
| `web_sale` | as `web`, unbounded under the modal | a counterexample, see findings |
| `tui` | 3 positions in 2 markets, one of them yet to be created; a delegated key of the first, admin and recovery key of the second; sessions and commands | `TransactionIsOfOnePosition`; the action properties `RefreshKeepsThePosition`, `RefreshReadsItsFigures` (38 782 states) |
| `tui_floor` | as `tui` | a counterexample, see findings |

Each component has one type invariant, checked with the rest.

**Bounds.**  Four addresses are two positions with a further key each, or one
position that was recovered and has a recovery key again (`k1` admin, `k2` its
recovery key, `k3` the new admin key, `k4` the new recovery key); with a
look-alike one position has room for an admin, a delegated and a recovery key.
What happens beyond that, a second recovery for instance, is covered by the
proofs of section 4.  A clock of 2 is a lockout that just expires.  In `spending_limit` the
periods do not divide the capacities, so that the refill rounds, and the cut
width lets sums overflow.  In `treasury` a width of 2 lets checked sums
overflow, a fee take a whole amount and the reinvestment find nothing left.
Three admins let a nomination outlive the one who made it.  Two flows
are what overlap needs; three wallets are one with admin keys (and a delegated
key besides), one with delegated keys and one with none.  One of the three
positions was recovered: its first admin key is burnt.  `FewUnderTheModal` keeps
the product of page and modal small: at most one flow runs under a revocation
or a send left behind, none under a trade or a creation, there is not both a
modal and a send left behind, and the wallet with no keys opens no modal.
Nothing is lost by it: a creation reads no signal, and the properties about
trades quantify over every trade the signals would yield at any moment, with two
flows under way and no modal at all.  In `tui` two positions make a list, in two
markets so that figures can be told apart, and the third is the one created;
the second is found by either of two keys, of which one outranks the other.

**Deadlock.**  `CHECK_DEADLOCK FALSE` is in the runs of `Keyring` and
`Promo` only: addresses and clock are finite there, and once both are used up
and the keys are burnt nothing is left to do.  The others never stop.

**Symmetry** is used in runs of safety properties only, over sets whose members
are interchangeable in the instance (wallets and addresses of a keyring, admins
and collections, flows).  `recovery` and `destroyed_admin_key` use none.

**Fairness.**  `Keyring!LiveSpec` assumes that time passes (`WF` of `Tick`) and
that the holder of a recovery key that can be used at last uses it (`WF` of
`Recover(p)` per position).  The program has no scheduler: without the second
assumption nothing ever happens.  The point of the property is that *nobody
else's* cooperation is needed.  No fairness is assumed for the admin.
`ButtonIsReleased` needs no fairness: it says that no flow ends without
clearing the flag, in whichever way it ends.

## 4. What is proved

With TLAPS, for all wallets, addresses, masks, lockouts, capacities, periods,
fees, floor prices, programs, positions and numbers of flows, and with no bound
on time (`MaxTime` and `MaxSlot` are arbitrary):

| module | theorems (and the property each states) |
|---|---|
| `RateLimitProofs` | the lemmas on buckets and totals that the next two share |
| `SpendingLimitProofs` | `TypeCorrect`, `RateIsBounded` (`WindowBound`), `CapHolds` (`LifetimeCap`), `QuoteIsExact` (`QuoteExact`), `QuoteIsKept` (`QuoteKeeps`) |
| `TreasuryProofs` | `TypeCorrect`, `BooksMirror` (`LedgerMirrors`), `KeysWithinTerms` (`LimitedKeysStayWithinTerms`), `TimerExact` (`TimerFollowsAdmin`), `ReinvestCovered` (`ReinvestWithinFloor`) |
| `KeyringProofs` | `TypeCorrect`, `AdminIsSole` (`SoleAdmin`), `RolesAreDisjoint` (`OneRolePerKey`), `NothingDangles` (`NoDangling`), `SuccessionEarned` (`SuccessionIsEarned`), `SealIsKept` (`SealHolds`), `PositionsAreIsolated` (`Isolation`), `KeyringImplementsCustody` (`ImplementsCustody`) |
| `PromoProofs` | `PromoTypes` (`PromoTypeOK`), `LimitIsKept` (`ClaimsWithinLimit`), `ClaimedKeysDelegated` (`ClaimedKeysAreDelegated`) |
| `ArtworkProofs` | `TypeCorrect`, `NominationCurrent`, `CollectionForever`, `ArtworkBought`, `ClosedFallsBack`, `PicturesLicensed`, each for the property of nearly that name |
| `WebProofs` | `TypeCorrect`, `KeyFits` (`KeyFitsPosition`), `ButtonReleased` (`ButtonIsReleased`), `FlowsAgree` (`UndisturbedFlowsAgree`); of what is built: `MadeOnce` (`NothingMadeTwice`), `AcceptedTradeIsShown` (`TradeIsOfTheShown`), `MinOutBelongs` (`MinOutIsOfTheTrade`), `RevokedIsChosen` (`RevokesTheChosen`) |
| `TuiProofs` | `TypeCorrect`, `OnePositionEach` (`TransactionIsOfOnePosition`), `RefreshReturns` (`RefreshKeepsThePosition`), `FiguresBelong` (`RefreshReadsItsFigures`) |

These are all the safety properties and the refinement that the passing runs
check.  Assumptions are the named `ASSUME`s of the modules, no more: that `NoKey`
and its like are no members of the sets they mark the absence of (in the
clients: `None` is neither a transaction nor a pair of figures), that bounds are
natural numbers, that a client sees finitely many keys, that a configured bucket passed
`validate_delegated_permissions`, that a permission mask has eight bits.

**The rate.**  `WindowBound` is not inductive: it forgets how full the bucket
is.  The invariant (`PaidFor`) relates the amount spent since the window began
to the level *left* now and the time of the last update; a refill rounded down
can only take from the right side.  The products of variables are isolated in
arithmetic lemmas of their own.

**The money.**  The invariant of `Treasury` has three parts that no instruction
mixes.  `Money` is the books with their types: since the ledger mirrors the
market, the ledger's saturating subtraction never saturates and both sides move
by the same amount, whatever was kept in fees.  `Clocks` is the activity time.
`Meters` says for every limited key that its meter is `Sound`: charged, with the
`PaidFor` of the rate, for all that the history counts.  It is the same lemma as
for one bucket, and needs in addition that a spend charges the meter of the key
that signs (`SpendMetered`), which is what the comparison of the `KeyState` is
for.  `ReinvestCovered` follows from `Money` alone: what may be borrowed is the
floor value less the debt, and the market gives no more than is asked for.

**The roles.**  `SoleAdmin`, `OneRolePerKey` and `NoDangling` hold each other
up, with three more facts (`Roles`): the address that names a position is used
(`Founded`), the keys of the collection are bound to positions that exist
(`KeysBound`), and a position's admin key, its recovery key and the keys with a
KeyState are three different things (`Apart`).  Each instruction has a
lemma.  The delicate ones are `ConfigureRecovery` — the old recovery key must
be burnt in the same transaction or it would be left without a role — and
`ExecuteRecovery`, which has three assets change state at once.  `Isolation`
needs one fact more: an address on which nothing was minted belongs to no
position (`BlankFree`).

**The succession.**  `SuccessionIsEarned` speaks of when the admin last
*signed*; the program compares with the recorded time.  `TimerExact` says that
the two agree, and together with `Roles` gives the action property.  `Promo`
breaks `TimerExact`, which is the finding below.

**The custody.**  Every step of `Keyring` is one step of `Custody` or none, for
each position.  The mapping looks at the assets, so the proof first derives from
`Roles` who is *seated*: that the set of live keys that can manage is at most
the admin key the position names, and that of powerless ones at most its
recovery key; a position not yet created has neither, and only the recovery
keys are without permissions.  Then each instruction is shown to move the seats
as `Custody` allows.

**The campaigns.**  `Promo`'s invariant is `Roles` and, per campaign, that
`claims_count` is the cardinality of the claimers' receipts.  A claim is one
more way to mint a delegated key (`RolesClaim`); creating and updating a
campaign touch only the history, which is why `Roles` may not depend on
`TimerExact`, and does not.

**Trust and pictures.**  The invariant of `Artwork` carries `Protocol`'s (a
layout before the current one has no nomination; a nomination was made by the
admin now sitting; what is absent is unset) and says where an `artwork_id` comes
from.  The two action properties then follow step by step: a new picture is an
answer of `validate_artwork_receipt`, which compares program, set, position,
type and mask.

**The page.**  The invariant of `WebSession` is about *each* flow by itself
(`GoodFlow`: at every await it knows what the next answer is about) and about
the signals together (`GoodPage`: key and position are written together).  The
synchronous stretches have a lemma each, so that the number of flows never
enters.  For the button: while it is disabled some flow is under way, which
holds since the first flow to end clears the flag for all.  `NothingMadeTwice`
follows from `spent`: what landed once is marked and cannot land again.

`UndisturbedFlowsAgree` speaks of a page at rest, and nothing about single flows
explains it: a flow blanks what another has just filled in.  What holds at every
moment (`HistoryInv`) is that, while nothing failed and all flows are refreshes
of one wallet, they have found the same keys and chosen the same position
(`RefreshFlow`), and every signal *is right or some flow is still at a wait
before writing it* (`Progress`: a conjunct for the choice, the position, its
market, the keyring, the promos and the figures, in the order a refresh writes
them).  A flow that blanks a signal is itself at such a wait; one that moves on
writes it.  At rest no flow is ahead of anything, and each signal is right.  For
a wallet without keys the page is blank from the first answer on.  A switch of
position has an invariant of its own (`SwitchState`), as it is only claimed to
agree when it meets no other flow.

`MinOutIsOfTheTrade` needs `Priced` besides: with one flow at a time the figures
were read in the market that the signals still name.  After a switch alone that
may be the market of the position before, and then the program refuses the
trade, since the position belongs to another market than the one passed.
`TradeIsOfTheShown` rests on a comparison of this kind alone: the builders name
the authority of the account shown, and the program compares it with the position
they name.  For
`RevokesTheChosen` the invariant follows the row from the choice to Submit
(`ChosenInv`): while the form is open and the keyring was not read anew, the row
chosen holds the key it held then.  The types of the modal need the length of the
list after the filter, for which `LeastIsThere` obtains the least element of a set
of numbers from the well-foundedness of `<`.

**The terminal.**  What is derived for a position may outlive it: the market,
the addresses and the figures are written by different calls, and each request
may fail alone.  The invariant (`TuiInv`) says what survives all of this.  While a
position is shown, the key in use is one of its keys, the market is its own or
unknown, and the addresses are those of the position with that market or, if it
is unknown, with the default one (`Coherent`).  A builder reads these, so what it
leaves to be confirmed is of one position (`PendingFits`, a lemma per kind of
builder), and stays so because the transaction keeps its own copy.  The promos
are of the position on the screens where one can be picked (`PromosFit`): a
screen that outlives its position shows none.  A process run for one command has
a conjunct per stage (`InCommand`): with nothing asked for it acts on a position
only if that is the only one it saw; the position asked for, once selected,
stays; and unlike a session it has read the figures after that (`Fresh`).  The two
action properties are shown of each call of a refresh, and then of its
composition; where a session does anything else, the figures do not change.  The
figures a session shows *between* refreshes are not covered, which is the finding
of `tui_floor`.

Only model-checked: `RecoveryFires`, since liveness and the `ENABLED` in its
fairness are out of the prover's reach.  The operators of `RateLimit` and the
others contain no recursion, so nothing else is left to bounded inputs.

## 5. Findings

With a counterexample from TLC:

* **Not every admin transaction resets the recovery timer** (`stale_timer`).
  `docs/recovery-key-design.md:222` says "any transaction"; `create_promo` and
  `update_promo` do not touch `last_admin_activity`.
* **A burnt admin key makes a position irrecoverable**
  (`destroyed_admin_key`).  `docs/recovery-key-design.md:15` says that takes
  the loss of both keys; `execute_recovery` reads and burns the old admin
  asset, and fails for ever once its owner has burnt it.
* **A sale in the terminal may be priced in another market** (`tui_floor`).
  `app.rs:2975` says that selecting a position loads all its state, and
  `app.rs:1673` that a sale's `min_out` comes from the floor price.  Enter on
  the position list calls `reselect_position` alone, and `mf_floor_price` stays
  that of the position before (or zero, which is no protection) until `r` is
  pressed.  The one-shot mode reads the figures after selecting (`main.rs:621`).
* **The web client cannot sell or borrow for an admin key** (`web_sale`).
  `instructions/withdraw.js:32` and `borrow.js:27` say that the `KeyState` is
  included "if the key might be rate-limited"; they name it for every key, and
  an admin key has none.  An absent optional account is one whose place is taken
  by the program's own address, as the terminal passes it (`app.rs:1701`); any
  other address must exist, so the program refuses.

Met while modelling, from the source (no run of their own):

* `README.md:33`, `INTEGRATION.md:282`: revoking burns the NFT only if the admin
  holds it.  `revoke_key` burns it through the permanent burn delegate, whoever
  holds it.
* `state/mod.rs:227` describes `total_sold` as everything sold; without a
  lifetime cap `consume_total_limit` returns before adding.
* `reinvest.rs:262` says that it buys with the amount borrowed; it buys with
  the whole wSOL balance, earlier deposits included.
* `state/promo.rs:25`: 0 is unlimited.  `update_promo` refuses 0 once a key is
  claimed, so a limit cannot be lifted again.
* `artwork.rs:216`: a closed image falls back.  The owner check before it
  refuses the transaction.
* A switch of position in the web client keeps the old keyring, against the
  comment at `web-lite/src/discovery.js:410`.
* In the terminal, `pending_select_asset` is set when a creation is *built*
  (`app.rs:1307`) and survives a failed send; the next refresh then throws the
  user from his position to the list, against the comment at `app.rs:2729`, or
  to the new position if it landed after all.
* In the terminal, the screen after a creation compares the position shown
  before with the new one (`ui.rs:888`); and while no position is selected a
  refresh may still read balances at the addresses of the former one, since
  `discover_position` leaves `mayflower_initialized` alone.
* In the web client, a key to be revoked is an index into the keyring
  (`ActionModal.jsx:176`).  Open the form while a refresh is under way and choose
  the second row; the refresh stores the keyring in another order; Submit names
  whatever key is in the second row now.  The confirmation shows the shortened
  address and the permissions of that key.
* A purchase or sale whose confirmation is lost may be confirmed again, and lands
  twice (`ActionModal.jsx:285`); a repeated one-shot command too.
* While the web client reads the figures anew the floor price is zero, and a
  trade built then has a minimum output of zero, as the builders say.
* `ActionModal.jsx:201` calls `buildCreatePromo` by position with two arguments
  fewer than it takes (`createPromo.js:56`): the minimum deposit arrives as the
  total borrow limit, the maximum of claims as the total sell limit, the initial
  fill as the minimum deposit, the image URI as the maximum of claims (0,
  unlimited), the market name as the initial fill (0), and the image is empty.
  Likewise `ActionModal.jsx:170` and `authorizeKey.js:11`: the label arrives as
  the total sell limit, and no name is sent.
* The one-shot `authorize-key` fills a field "Sell/Borrow Refill Period (slots)"
  (`main.rs:819`); `build_authorize_key` reads days, hours and minutes
  (`app.rs:1364`).  A rate-limited key cannot be authorized by that command.
* `verify_markets` (`main.rs:460`) "Returns only verified entries"; when the RPC
  request fails it returns all of them.
* `--position` is compared with `authority_seed`, which after a recovery is no
  longer the admin asset that the client displays.
* A one-shot command whose transaction cannot be built prints the error and exits
  with status 0.
* After a switch in the web client, `marketConfig` stays that of the former position and the
  figures are read in its market; a wallet with an admin key is not shown the positions it has delegated
  keys of; promos that answer late overwrite those of the position chosen
  since; after a transaction on a position switched to, the refresh selects the
  best position again.
* `discovery.js` looks for admin keys at `authority_seed`, which is no longer
  the admin key after a recovery.
* `claim_promo_key.rs:426` says slippage is enforced there; no minimum is.
* `INTEGRATION.md:567` says every key-minting instruction falls back
  gracefully; `create_position` is strict, `execute_recovery` uses no artwork.
* `INTEGRATION.md:47` and `README.md:108` describe a field
  (`max_reinvest_spread_bps`) that is gone; `INTEGRATION.md:175` gives the seed
  `claim_receipt`, the code uses `claim`.

## 6. Not modelled

Left out: PDA derivation and CPI byte layouts, formatting of names and
metadata, drawing and rendering, deployment scripts, the mock market (its promise
is `Moved`).  Abstracted: lamports for rent, bumps, token accounts other than
the wSOL one; the price at which the market fills beyond its fee; the values of
form fields, in both clients; the JSON a command prints.

In the web client, the update of a promo and the two builders of the protocol's
admin are left out: they read nothing that a flow changes.  The keyring's
activity time and `Treasury`'s are two variables for one field: composing the two
modules would multiply their states without a step that involves more of both
than `validate_key` and that field, which each represents for the other.

What a next step would be: the hazards without a property (`PROJECT.json`), most of
which are arguments passed by position or comments that disagree with the code;
the terminal's cursor and form fields; and what is claimed of the page after a
refresh that failed halfway, of which only `KeyFitsPosition` and the button are
claimed now.
