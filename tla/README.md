# Verification of Kronos

Kronos is a perpetual exchange for watch prices on Solana. Traders deposit USDC, open leveraged long
and short positions against a common liquidity pool, and are liquidated, charged funding, stopped out
or paid. Around the on-chain program run a price keeper, a crank, an indexer, a web application with
its own accounts and session wallets, and the scripts by which the team lists markets and hands the
protocol to a multisig. This directory holds TLA+ specifications of all of these, the TLC
configurations that check them on small instances, and TLAPS proofs about most of them for every value
of the constants.

## 1. Inventory

### 1.1 The parts

| Part | State it keeps | Operations | Modelled by |
|---|---|---|---|
| Margin accounts (`programs/kronos/src/instructions/{deposit,withdraw}_collateral, add_margin, remove_margin, set_sl_tp, close_margin_account`) | `MarginAccount`: free collateral, up to five positions | deposit, withdraw, move margin, set triggers, delete | `KronosState`, `Margin` |
| Trading (`open_position, close_position, execute_sl_tp, admin_close_position, liquidate`) | positions, open interest, exposure, `total_user_collateral` | open; three ways to settle; liquidate | `KronosMath`, `Trading` |
| Funding (`settle_funding`) | timestamps and collateral of positions | charge one account in one market, drain what cannot pay | `FundingCrank` |
| Liquidity pool (`lp_deposit, lp_withdraw, claim_fees`) | `lp_vault`, `total_usdc`, shares, fee accumulator, debts | buy and burn shares, claim fees | `Pool` |
| Treasury and referrals | `fee_vault`, `insurance_fund`, referral accounts, trackers | admin withdrawals, registration, claims, rates | `Treasury`, `Trading!CreditReferrer` |
| Oracles, pause, parameters | oracle accounts, pause flags, parameters | push a price, pause, change a parameter | `Control` |
| Governance | admin, pending admin, timelock account | propose, wait, execute, cancel, hand over | `Governance` |
| Payout queue (`state.rs` `PayoutQueue`, `process_payouts`) | ring of sixteen debts | push, pop, pay the oldest in full or in part | `PayoutQueue`, `PayoutFifo` |
| Price pusher (`keeper/watch-keeper.js`) | believed price and target per market, transactions under way | one tick: group send, then each market alone | `PricePusher` |
| Price history (same file) | capped list of points, `history.json` | record, prune, save, reload; candles, rows | `PriceHistory` |
| Price feeds (`keeper/price-feeds.js`) | targets, disk cache, index | refresh each source, hold, fall back, save | `PriceFeeds` |
| Crank (`keeper/crank-keeper.js`) | a snapshot of the margin accounts per run | settle funding, liquidate, trigger, pause | `Crank` |
| Trade indexer (`keeper/trade-indexer.js`) | rows, cursor, two files | poll, back-fill, de-duplicate, save, reload, report | `TradeIndexer` |
| Alerts (`keeper/telegram.js`) | time of the last answer per level | send or withhold | `Alerts` |
| Account routes (`app/src/app/api`, `app/src/lib/{auth,db,crypto}.ts`) | users, reset tokens, encrypted keys, per-address limits | sign up, log in, reset, make a wallet | `Accounts` |
| Session wallet (`secure-keystore.ts`, `session-wallet.ts`, its provider) | a key in IndexedDB and in localStorage | store, load, migrate, recover, export, drop | `Wallet` |
| Data hooks (`useOracle`, `useMarginAccount`, `useProtocolState`, leaderboard, history) | last answers, price cache | poll, select, cancel | `Views`, `Tape` |
| Forms (`page.tsx`, `pool`, `positions`, landing, wallet button, send) | inputs, loading states | every handler, from press to end | `Forms`, `Handlers` |
| Trading page | rows opened out, pending open, chart bars and series | open, close, expand; load, extend, redraw | `Desk`, `Chart`, `Screens` |
| Notifications | previous positions and prices, list, toasts | compare, warn, announce, forget | `Bell` |
| Landing page, guard, header | three flags, cookie, stored key | enter, connect, reload, be let in or sent away | `Visit` |
| Market scripts (`bootstrap-watch-markets`, `init-pool`, `gen-app-markets`) | accounts on chain, manifest, two lists | make, record, generate | `Operations` |
| Hand-over scripts (`transfer-*`, `set-secondary-*`, `propose-*`, `verify-multisig-setup`) | admin, secondary and upgrade authority, votes | nominate, vote, execute, verify | `Handover` |
| One-off scripts, SDK, static and dead pages | none | | not modelled (section 6) |

`PROJECT.json` lists the parts with their files and, under `hazards`, what in them is hard to test,
each at its line.

### 1.2 How they interact

A Solana transaction is atomic and instructions run one at a time on the accounts they share, so each
instruction is one action, and concurrency on chain is the order in which anybody's calls arrive.
What makes the program hard is that a dozen handlers share running totals without looking at the
accounts the totals summarise:

* `fee_vault` holds traders' collateral, providers' and referrers' unclaimed fees and the platform's
  revenue in one token account. Who may take what is decided by `total_user_collateral`,
  `accumulated_fees - total_fees_claimed` and `total_referral_pending`.
* `lp_vault` pays profits as far as it reaches, and receives losses; `total_usdc` must follow it.
* open interest decides everybody's funding rate in a market, `exposure` the insurance fund's reserve.
* many decrements saturate at zero, so an inconsistency would be swallowed and not reported.

Everything off chain is JavaScript: one thread, but every `await` lets timers, answers and other calls
in, and between an `await` and its answer a process may stop. The timers of the keeper start a tick,
a scan, a poll or a refresh whether or not the last one has ended. The routes run as separate calls
over one database. The browser has several tabs over one store, and React effects whose answers come
after their inputs have changed. The scripts are run by hand, by several people, and stopped anywhere.

### 1.3 What makes each part correct

* Margin, trading, funding: totals are the sums over the accounts after any history
  (`CollateralLedger`, `InterestLedger`); only a price or a funding charge makes a position
  liquidatable (`HealthKept`).
* Pool: backed by its vault (`PoolBacked`), shares owned (`SharesLedger`), nobody gains by another's
  coming or going (`ShareValueKept`), no fees but those earned (`ClaimsEarned`).
* Treasury: the fee vault covers all it owes, but for losses positions did not cover and fees shared
  out beyond what was charged (`FeeVaultCovered`); referral totals and counters (`ReferralLedger`).
* Control, governance, hand-over: the admin's pause is the admin's to lift (`ManualPauseHeld`); each
  change waits for its own delay (`ChangesWait`); after the hand-over the members decide, whatever
  scripts were still running (`MembersDecide`).
* Payout queue: a FIFO of debts (`IsFifo`), each debt paid exactly (`NothingLost`).
* Keepers: prices follow targets (`UnaffectedFollow`), a due call is made (`SeenAreServed`), an event
  is stored and counted once (`PassedIsStored`, `ReportsAgree`), targets stay sound and are not
  forgotten (`TargetsSound`, `SavedIsHeld`, `IndexFollows`), candles tell what the points say
  (`CandlesFaithful`), alarms are heard again (`AlarmsGoOut`).
* Accounts and wallet: `WalletsHonoured`, `LinksAreSpent`, `FundingIsLimited`, `KeysKept`.
* Pages: own data and in the end the present data (`OnlyOwnAnswers`, `ViewsCatchUp`, `TapeSound`,
  `ChartSound`); one call at a time and a form that comes back (`OneAtATime`, `FormsReleased`,
  `PendingSettles`); closures noticed (`ClosuresNoticed`); promises kept (`PreviewsAgree`); nobody
  turned away (`NeverTurnedAway`).
* Market scripts: what is listed is on chain (`ManifestSound`).

## 2. The modules

```
KronosMath            arithmetic of lib.rs and the handlers
  KronosState         accounts, Init, types, shared updates
    Margin              the trader's own account
      Trading             opening, settling, liquidating
        FundingCrank
    Pool   Treasury   Control
      Kronos          composition: who calls what with what; ledgers, action properties
        Screens       what the pages promise before a call
          MCKronos    values for TLC       -> slots, margin, pool, shares, underwater
        KronosTypes     proofs: types, and the lemmas on arithmetic and sums
          LedgerProofs    proofs: totals, open interest, pool, shares, providers' fees
            SolvencyProofs  proofs: referrers, fee vault, health, pause, and Screens

Governance              proposals and keys
  Handover              the scripts and the multisig around it
PayoutFifo (abstract)   PayoutQueue (INSTANCE PayoutFifo)   -> PayoutProofs
Accounts   Wallet                                           -> AccountsProofs, links
Tape   Chart            (proofs in PagesProofs)
Operations              -> GovernanceProofs, with Governance and Handover
  Parts                 these parts, each alone                             -> parts

Views   Handlers, Forms   Desk   Bell   Visit
  Pages                 what a trader sees and presses                      -> pages
  PagesProofs           Views, Forms, Visit, Chart, Tape

PricePusher   TradeIndexer   PriceFeeds   PriceHistory   Alerts
  KeeperServices        MCKeeperServices                                    -> services
  KeeperProofs          PriceFeeds, TradeIndexer, PriceHistory
PricePusher             MCPricePusher                                       -> lostpush
Crank                   MCCrank                                             -> crank, misread
```

Names are the source's: `total_user_collateral`, `acc_fee_per_share`, `manual_pause` are the Rust
fields, and an action has the name of its handler (`close_position` is `ClosePosition`, `runTick` is
`Tick`'s steps, `handleOpenPosition` is `HandleOpenPosition`). Definitions marked *Mutant* are the
wrong versions that the properties are tested against; no specification uses one.

### 2.1 The program (`Kronos` and below)

`positions[u][s]` is slot `s` of `u`'s `MarginAccount`; `EmptySlot` is `Option::None`. **Kept**: every
guard, early return and state change of a handler, in its order where the order can be seen; every
rounding, with integer division as in the code (`TruncDiv` for i128 division, `SatSub` for
`saturating_sub`). **Abstracted**: 64-bit overflow, which `checked_*` turns into an abort that changes
nothing; Anchor's account constraints, by naming the account the constraint admits; events, logs and
rent. `deficit` (what settled positions failed to cover of their losses, and what fees were shared out beyond
what was charged) and the providers' `earned` sums are history variables that no action reads.
`OpenPosition` takes the referral and tracker accounts a caller may or may not pass; `set_sl_tp` takes
any oracle account, since the handler does not tie it to the position.

`Screens` adds no state. It has the formulas of `utils.ts`, the order form and the pool page as
operators, in integers with the rounding the display has, next to the actions of `Kronos`.

`Governance` is separate from `Kronos` because the two meet only in the parameters: `Kronos` lets the
admin set any admissible parameters at any moment, which includes whatever the timelock may deliver.
One parameter, `fee_bps`, stands for all that have a bound. `Handover` adds the secondary and upgrade
authorities, the scripts as processes that read, wait and send, and the Squads multisig (external) as
numbered transactions with votes.

### 2.2 The keepers

`PricePusher` has the program's oracle guard on one side and `runTick` on the other: an accepted
transaction is in `inflight` until it executes, expires or is refused. A tick is several steps because
each send is awaited. `Crank` keeps, beside each account, what its bytes show at the fixed offsets of
`parsePositions` (`view`): Borsh writes an empty option in one byte and leaves the bytes behind the end
of a shorter write as they were. Its program is reduced to which calls are due for a position.
`TradeIndexer` numbers signatures in the order of the chain; a poll is a sequence of page reads,
transaction reads and two file writes; `missed` records what the code knowingly gives up (a full page,
a transaction that could not be fetched, the cap, twin events, a torn file). `PriceHistory` is one market's list of points. `PriceFeeds` is one refresh source by source. Its file
`feeds-cache.json` is written in place: a save may write nothing or be torn, by an error or by the death of the
process, and a read at the start may fail; nothing is then in the cache (`Nothing`), a market whose source
fails gets its configured price, and the next save overwrites what there was. Any refresh may fail to read
`feeds.json`. If the first one does, the timer is set all the same, and the keeper runs without fallbacks, fixed
prices or index until a refresh has ended (`refreshed`; `/health` tells a `feed_age` of -1 meanwhile). In `Alerts` the limit
is checked when the alert is made and its clock set when the answer comes.

`KeeperServices` composes the five that share the keeper's process. They meet in the targets, the
pushed prices and the failures, for which each takes any value, so their interleaving adds nothing and
a behaviour is looked at from one of them (`service`). Resting parts start from one state.

### 2.3 Server and browser

`Accounts`: a route is a program counter over its database calls (`calls[c]`), with what it has read in
its locals; a call may end at any of them. Using a reset link is four queries, of which writing the password and
marking the link are two. Funding a new wallet is a check of the limit, a transfer, and, after its confirmation or
failure, the setting of the limit (`CheckRate`, `SendTransfer`, `EndFunding`); a call that is cut after the transfer
leaves the limit unset, and its transfer is in `lost`. `resets`, `allowed`, `funded` and `lost` are history variables. `Wallet`: two stores with every IndexedDB access awaited,
failing at will; a tab is at one access of a chain and `after` names the function that goes on.
`Views`: all polling hooks have one shape, described by a record (what restarts it, whether it cancels,
what a failure leaves); the initial state chooses the hook. `Forms`: in the same way a table of the
handlers (`Handlers`) says what offers each, what it draws on, which loading state it takes and what
it awaits; `Forms` runs any of them. `Desk`, `Chart`, `Tape`, `Bell`, `Visit` each model one group of
React states with the effects that follow an event folded into its action.

`Pages` and `Parts` compose such parts in the way of `KeeperServices`: `side` and `part` say from which
one a behaviour is looked at. Where several initial states differ only by a renaming, `Parts` starts from
one of them (an account that is there at the start has the first password and the first wallet).

### 2.4 The scripts

In `Operations` a script run by somebody is a program counter over the accounts it fetches and makes
and the files it writes; a fetch that fails is taken for a missing account, as in the code. `Handover`
is described above.

## 3. The runs

| Run | Instance | What it shows |
|---|---|---|
| `slots` | one trader, two slots, two markets, prices that liquidate and that profit, fees raised by the admin | `TypeOK`, `CollateralLedger`, `InterestLedger` through closes, liquidations, the admin's closes and funding that charges one slot and drains another (triggers are set and executed in `margin`; the theorems cover all) |
| `margin` | a referred trader, margin moves, triggers, pauses, both oracles going stale | `HealthKept`, `ManualPauseHeld`, `ReferralLedger` |
| `pool` | a trader against one provider who burns in parts, an admin who withdraws; the pool may be too small for a profit; the shares of a fee exceed the whole, as `update_params` admits | `PoolBacked`, `FeeVaultCovered`, `PreviewsAgree` |
| `shares` | a trader and two providers who come and go | `SharesLedger`, `ShareValueKept`, `ClaimsEarned` |
| `parts` | timelock: two keys, an admissible and an inadmissible fee; queue: three cells, nine owed; routes: one e-mail, two calls, one link, a cut; wallet: two keys, three faults; tape and chart: two prices; scripts: three markets, two people, two stops; hand-over: two members, two votes | `ChangesWait`, `IsFifo`, `NothingLost`, `WalletsHonoured`, `LinksAreSpent`, `FundingIsLimited`, `KeysKept`, `TapeSound`, `ChartSound`, `ManifestSound`, `MembersDecide` |
| `pages` | hooks: two wallets, two markets, two changes, two reads under way, one failed; forms: two handlers under way, two mounts; desk and bell: two slots, two positions; visit: unbounded | `OnlyOwnAnswers`, `ViewsCatchUp`, `OneAtATime`, `FormsReleased`, `PendingSettles`, `ClosuresNoticed`, `NeverTurnedAway` |
| `services` | a push group of two markets and one fault; three transactions read by two polls in pages of two; three kinds of source, two refreshes, two failures (of a save, a load, a read of the configuration, or a crash); three points; one level of alerts | `UnaffectedFollow`, `PassedIsStored`, `ReportsAgree`, `TargetsSound`, `SavedIsHeld`, `IndexFollows`, `CandlesFaithful`, `AlarmsGoOut` |
| `crank` | two overlapping runs, one account with two slots, one fault | `SeenAreServed` |
| `underwater`, `misread`, `lostpush`, `links` | see Findings | each refutes one sentence of the code's own comments or documentation |

**Why the bounds are enough.** *Program.* Prices 12 to 14 percent from the seed at leverage ten cover a
loss beyond the collateral and a profit at the cap. Two units of time give a charge, a second charge and
a stale oracle (an hour is two units). Two slots let one call settle one slot and leave, charge or drain
the other. Two providers are the least for which one's deposit or withdrawal can affect another's shares. In `pool`
80 and 50 percent of each fee are shared out, the worst the bounds of `update_params` admit.
*Queue.* Three cells and nine owed take head and tail round the ring three times and meet the full and the
empty ring with equal indices. *Pusher.* Twenty to twenty-six is two clamped steps, and one lost
transaction suffices for the guard to refuse the next. *Indexer.* Three transactions in pages of two give a
full page, an overlap and a remainder; the cap of four rows holds two full transactions and is passed by three; two polls give every order of
cursors. *Feeds.* One market of each kind of source (metals, listings, fixed price) with quotes on both
sides of the outlier bounds; two refreshes give every overlap, and two failures give a torn save that a restart
finds, and a first refresh that fails again after a restart. *Crank.* Two runs, two slots and one fault
give an aborted scan, a snapshot outdated by the other run and a slot taken again; one account suffices
because the scan treats accounts one by one and a failure of one call reaches no other. *Routes.* The
races are between two calls for one e-mail; one token, one cut and one hour's step give each of a link
used twice, a call that stops half way and a limit that expires. There is one password: nothing that is checked
tells two apart. *Wallet.* Two keys give replaced and
stale backups; three faults let one fail in the migration, its recovery and the read after it.
*Pages.* Two of everything that can be changed under an answer, and two answers, give each order of late
and failed reads. *Scripts.* Three markets give one that is rejected between two that are not; two people
stopped once each give every half-made market found by the other. *Hand-over.* Two votes of two members
and two transactions give a nomination voted while another script is under way, and one taken back.

`CHECK_DEADLOCK FALSE` stands in the runs of `parts`, `pages` and `services`, where the
system stops when the bounded inputs are spent.

**Fairness.** The program, the routes and the scripts assume none and claim safety only: nobody is obliged
to call. The rest assumes what the code's own scheduling gives:

* timers set with `setInterval` fire again and every awaited call returns or throws (`Turn` of the pusher;
  `StartRun`, `RunStep` of the crank; `Poll`, `Answer(1)` of the hooks; `Advance(1)` of the forms, whose
  RPC calls and confirmations time out; `Polled` and `Answered` of the two pages' account polls; `Passes`
  of the alerts, the passing of time);
* an accepted transaction that is not lost executes (`Land`).

Fairness names the oldest read or transaction only, so that younger ones may overtake it any finite number
of times. Faults, losses, restarts and what users do are never fair; their number is bounded. Nothing is
assumed about traders, prices or the admin, so `SeenAreServed` speaks only of a call that *stays* due
while the protocol is not paused.

Every property has a mutant in `PROJECT.json`: a plausible mistake in the code it is about (a field
forgotten, a floor rounded up, a guard dropped, two writes swapped) under which TLC finds it violated.

## 4. What is proved

| Theorem | For |
|---|---|
| `KronosTypes!TypeCorrect` | any users, markets, slots, inputs, clock: every balance, counter and collateral stays a natural number and the parameters admissible |
| `LedgerProofs!CollateralIsCounted` | `total_user_collateral` is what any number of accounts, with any number of slots, hold together |
| `LedgerProofs!InterestIsCounted` | open interest per market and exposure are those of the open positions |
| `SolvencyProofs!ReferralsAreCounted` | `total_referral_pending` and `unique_referrals` are what the accounts and trackers say |
| `SolvencyProofs!VaultIsCovered` | `FeeVaultCovered`, for all parameters that `update_params` accepts |
| `LedgerProofs!PoolIsBacked` | `total_usdc = lp_vault` always |
| `LedgerProofs!ShareValueIsKept` | value per share never falls by a deposit or a withdrawal |
| `LedgerProofs!SharesAreOwned` | the shares are the sum of what any number of providers own |
| `LedgerProofs!ProvidersEarnFees` | claims and payments together grow by the fees that come in and a unit for each provider |
| `SolvencyProofs!HealthIsKept` | `HealthKept`, if the least position size is positive (`MinimumPositive`) |
| `SolvencyProofs!ManualPauseIsHeld` | only the admin lifts the admin's pause |
| `SolvencyProofs!PreviewsDoAgree` | the figures of the pool page, the order form and a position's row are what the call brings |
| `PayoutProofs!QueueIsRing`, `RingIsFifo`, `NothingIsLost` | a ring of any size, any users and debts: `PayoutQueue` implements `PayoutFifo`, and what was pushed for a user is paid or waits |
| `GovernanceProofs!GovernanceTypes`, `OneDelay`, `ChangesDoWait`, `FeeIsBounded` | any keys, delay, bound and proposals |
| `GovernanceProofs!MembersDoDecide` | any members, threshold, delay and scripts under way |
| `GovernanceProofs!ManifestIsSound` | any list of markets, people and stops |
| `AccountsProofs!AccountsTypes`, `WalletsAreHonoured`, `LinksDoGetSpent`, `FundingDoesStayLimited` | any e-mails, passwords and concurrent calls, each cut short anywhere |
| `AccountsProofs!KeysAreKept` | one tab, any accounts, keys and failed accesses |
| `PagesProofs!OwnAnswersOnly`, `NobodyTurnedAway`, `HandlersTakeTurns` | any reads, answers and handlers under way |
| `PagesProofs!ChartStaysSound`, `TapeStaysSound` | any prices, moments, intervals, caps and order of answers |
| `KeeperProofs!PassedAreStored`, `ReportsDoAgree` | any chain, events and figures, polls, page size and cap, a crash anywhere |
| `KeeperProofs!SavedAreHeld`, `AllArePriced`, `IndexDoesFollow`, `TargetsAreSound` | any markets, weights, listings, searches, overlapping refreshes and restarts |
| `KeeperProofs!CandlesAreFaithful`, `RowsAreSpaced` | any prices, interval, cap and resolution, and any loss of what was not yet written |

The assumptions are the `ASSUME`s of the modules: numeric constants are natural numbers, scales and the seed price
are positive, inputs are natural numbers and the initial parameters are admissible. Of the other modules they say
that bounds are natural numbers, with the indexer's page, back-fill and cap and the funding gap positive as in the
code; that what stands for an absence is none of the things that may be absent (`NoRow`, `None`, "resting"); that
callers and the markets of the feeds are finitely many and no market is both a metal and a watch; that a listing
asks a natural number; that what a transaction contains is a sequence of events of the five kinds, with integers
for profits and natural numbers for notionals, which are zero unless the event is an open
(`trade-indexer.js:222-280`); that the prices of the chart are positive; and that the vault of the multisig is no
member's key and the first admin is a member's (`HandoverAssumption`).

*Types.* `TypeOK` is inductive as it stands, and is the argument that no subtraction goes below zero:
where the code subtracts with `checked_sub`, the handler's guard bounds it; where it saturates,
`SatSub` does. There is a lemma for each handler. For `SettleFunding`, which sums over slots,
`KronosTypes` proves that the recursive function `Sum` exists, is a natural number, and changes by
the change of one term; it also holds the facts on division the solvers do not find.

*Pool.* `PoolStep` first reduces every step to one of: the pool is untouched; a position is settled;
a provider deposits, burns or claims. `PoolBacked` needs `ProfitPaid <= lp_vault`, so that
`SatSub(total_usdc, ..)` is a plain subtraction exactly because the invariant held before.
`ShareValueKept` follows from two facts about integer division (`BuyingCosts`, `BurningPays`).
`SharesLedger` is an induction on the sum: `SumUpdate` for the one provider who acts.

*Collateral.* `CollateralLedger` is inductive together with `TypeOK`. `AccountMoves` reduces a step to
the one account it touches, `SlotMoves` to one slot of it. Each handler then owes an equation between
two or three numbers. Where it saturates, `TotalCovers` shows that the total is at least what the
account holds, so nothing is swallowed; for `SettleFunding`, `SumDifference` adds up what each slot lost.

*Interest.* A counter is a sum over the slots of all accounts of the notionals in a group of markets:
one market for `oi`, all of them for `exposure`. `Counted` says so for every group the program keeps and is
inductive with `TypeOK`; both counters follow from one lemma per handler. The code subtracts with
`saturating_sub`, and `InterestCovers` shows that a counter covers all that one handler takes off it, so
saturation never hides an error: `SettleFunding` needs this for the sum of the slots it drains.

*Providers' fees.* `ClaimsEarned` speaks of one step, and the step is one of four kinds (`StepsOfTheFees`).
Whatever brings fees is `FeesComeIn`: the accumulator grows by `d` with `d * total_shares` at most the fee
times the precision, which is all the proof uses of the fee splits. A provider's claim then grows by the
floor of a difference and at most one (`ClaimGrows`), and the sum over any number of providers by the fee and
`NumUsers` (`SumGrows`). The providers' own calls exchange a claim for a payment or for a debt: `OneFalls`
and `ClaimsMove` reduce the sums to the one provider who acts. `SharesLedger` ties the sum of the shares to
`total_shares`.

*Referrers.* `Tallied` counts pending fees by account and referred traders by tracker. The tracker is made
in the step that counts the trader, so the sum over trackers moves by one exactly when the counter does.

*Fee vault.* `Covered` is written as `Debit <= Credit`: what the vault was ever owed against what it holds,
has paid out and has missed (`deficit`). Each handler owes the inequality that it takes no more off the vault
than off the debts. It needs `CollateralLedger` (the total covers the position, so it does not saturate),
`Tallied` (a claim is covered by the total pending) and the equation of a settlement between loss, payout and
collateral (`SettlementBalances`). The bounds of `update_params` admit 8000 points for the providers beside 5000
for the insurance fund, which share out more than a fee. `Missed` and `OpenPosition` count that excess in `deficit`,
so nothing is supposed of the parameters; where the shares fit into the whole, the excess is zero.

*Health.* A position is liquidatable when its equity is below five percent of its notional. Opening checks
the stops but not the margin: a fresh position has no profit or loss, so that its equity is its collateral, and
leverage at most ten keeps that at ten percent. `remove_margin` checks that what it leaves keeps the margin at the
present price; adding margin only helps, and writing triggers changes nothing. The theorem supposes `MinimumPositive`:
the program lets the admin set the least position to zero, and a position without collateral is liquidatable the moment
it is opened.

*Pause.* A step that lifts the pause is `UpdateParams` or an oracle update that keeps a manual pause.

*Screens.* What a step does to one slot is one of four fates (`Fates`): it stays, opens, is settled, or goes by a
trigger, a liquidation or the funding it owes; a close within the first hour can only be a settlement. The
profit the page shows is a fraction with the entry price below it, so `EntriesPositive` is needed: no market is
ever without a price, as every accepted price is positive, and so no position is opened at zero. That the
fee of an open comes off the total in full is `TotalCoversParts` again, and `TruncBounds` says that the program's
division is within one unit of the page's.

*Payout queue.* `Ring` (the tail is the head plus the count, round the ring) is the invariant. Under it
`Waiting`, the entries from head to tail as a sequence, makes `push` an append and `process_payouts` a payment of
the head, in full or in part, wherever head and tail are. `NothingLost` needs that cells not waiting are empty
(`FreeCells`), so that the sum over the ring is the sum over those that wait.

*Governance.* `OneDelayPerProposal` is the strengthening for `ChangesWait`: execution compares the
clock with a stored deadline, and the invariant ties the deadline to its own proposal.

*Hand-over.* `Verified` says why what the verifying script saw still holds when it passes: the admin it has
found to be the vault changes only by a call of the admin (`moved`), and an upgrade authority that is the vault
never leaves it, since no proposal of the scripts hands it on (`AuthorityKept`). From then on `VoteDecides` goes
through every call and script.

*Market scripts.* `ListingSound` says of each script what it is past: the pool, and the accounts of the markets it
has seen to, are on chain, and so are those of every market in a file or about to be written to one. Accounts are
never taken off the chain (`Grows`), so that another person's script can only add to it.

*Accounts.* `AccountsSound` says for every call what it relies on while it waits (`CallSound`): that the row it will
write is there, that the wallet it will answer with is that row's, that its token exists. Each call is a lemma
(`StepOf`) that restores this for itself and otherwise only lets the tables grow (`RowsGrow`, `TokensGrow`), which is
what the others rely on. `WalletsHonoured` follows from the growth.

*Links.* Until a link is first confirmed nothing is claimed of it. `ConfirmReset` allows the writes made so far
and one for each call that has passed the check and not yet written (`Holders`). From then on the link is used, so
nobody new passes the check, and a write moves a call out of `Holders` (`SpentSound`, `WriteSpends`, `ConfirmSpends`).

*Wallets funded.* `FundingSound` says of every transfer whose call was not cut that the limit has been set since it
was made, or that its call is still under way and has yet to set it. So whoever passes the check finds no recent
transfers but those of calls under way, and the recent transfers and the calls that have passed and not yet sent are
together at most the callers. A call that is cut sets its transfer aside in `lost`.

*Wallet.* `TabSound` says for the tab's place in the chain of IndexedDB accesses what it relies on of the two
stores: a backup is dropped only when the tab has its key, a payload is put only under the key just made. `OneAbove`
says that whoever is in the secure store has put all other keys above: they were given up, or the server has
them. The argument is for one tab: with two it fails, and `KeysKeptByTabs` says how.

*Pages.* A read under way was made for the wallet or market selected now, if its hook cancels (`ViewsSound`). A
handler under way in the component that is on the page has its loading state taken, unless the state names
the handler (`FormsSound`). For the guard, a check that knows nobody has seen no wallet (`Unknown`), and the wallet that
comes while it is under way starts another.

*Chart and tape.* `ChartKept` has the bars, the series drawn and the one being built in order of time, each bar's
range around its open and its close; extending by a live price, by a load or by a change of selection keeps it.
`TapeKept` has the readings in order, and all that the keeper tells of moments up to the present; the recursive
function that merges an answer into the readings is shown to exist (`EntriesExist`) and to keep the order.

*Keeper.* `FeedsSound` has what was saved in the cache and in its file, what is in the cache never priced by the
fallback (`CacheSound`), and a price for every market that a refresh has asked (`AnsweredPriced`). What the properties say of prices and
index starts with the first refresh that ends (`refreshed`): one that cannot read its configuration has asked
nothing. `SavedIsHeld` speaks of what was saved by this process or was in the file when the process read it; a file
that is torn or cannot be read makes it start from nothing (5.1). `IndexerSound` says
that whatever a cursor has passed is stored: the memory's in memory, the file's in both, so that a crash between the
two writes of `persistStore` leaves new rows under the old cursor (`StoreSound`); a poll that works has on its page what
is not stored yet (`PollsSound`), whatever the other polls have stored meanwhile.

`OnceSound` has the rows numbered upwards and none twice, and two like events of one transaction among what was given
up once one of them is a row. So while nothing is given up, rows and events that were passed match one by one
(`RowsMatch`). The sums of the reports are folds in an order nobody knows; `PartSumsExist` and `PartSumsAdd` show
that the order does not matter, and `SumRenamed` that a sum over the rows is that over the events they match.

`WatchesFit` says of every watch that its target, its cached price and the one in the file lie within the bounds of
the outlier filter, or that there is none: all of them come out of `resolveWatchMid`, or one from the other. A page has a
listing of each rank, since there is a smallest price that a given number of listings do not exceed; the median is such a
price or the mean of two, and a mean of two that lie within bounds does. `HistorySound` has the points of the memory and of
the file in the past and apart by the interval, which bounds the rows since a time and puts every bucket's points in one
run. `MadeOf` then says of the first points, for any number of them, that their candles are what the property asks; the
recursive function that makes them is shown to exist (`PutsExist`), and an order in time of the buckets as well
(`InTimeOrders`).

**Only model-checked.** Liveness under fairness (`ViewsCatchUp`, `FormsReleased`, `PendingSettles`,
`ClosuresNoticed`, `UnaffectedFollow`, `AlarmsGoOut`, `SeenAreServed`) is out of the prover's reach.
Every safety property that a passing run checks is a theorem.

## 5. Findings

* **Losses beyond the collateral** (`underwater`). `state.rs:31-32` calls `total_user_collateral` the
  USDC of users in `fee_vault`, below which nothing may be withdrawn. `close_position.rs:291-310`
  moves the whole loss out of `fee_vault`, however much larger than the collateral.
  `FeeVaultCovered` shows that there is only one other way in which the vault comes to miss anything: fees
  shared out beyond the whole, which the bounds of `update_params` admit.
* **The crank misreads accounts** (`misread`). `crank-keeper.js:6-7` says it scans the margin accounts and
  attempts every liquidation; `parsePositions` takes every option for nine bytes where Borsh writes one for
  `None`, and looks for the next position in the wrong place. `SeenAreServed` shows that for a position it
  does see, the crank does what it says.
* **A lost push freezes a market** (`lostpush`). `watch-keeper.js:6-8` says the deviation guard never
  rejects an update; after one accepted transaction that does not execute, it rejects every one.
  `UnaffectedFollow` shows that the neighbours in the group are not held up.
* **Reset links are not single-use** (`links`). `README.md:309` and `README.md:321` call them so. Two calls with
  the same link may both pass the check before either marks it (`reset-password-with-token/route.ts`), and each
  writes its password; a call that stops between its write and the mark leaves the link usable as well.
  `LinksAreSpent` shows what does hold: once a link has been confirmed, nobody writes through it but the calls that
  had passed its check before.

### 5.1 Seen while modelling, and not the subject of a run

*Program.* `close_position.rs:312` says the keeper queues what the pool could not pay, but nothing pushes
to the payout queue. `lib.rs:185` announces timelocked withdrawals, which `withdraw_fees` and
`withdraw_insurance` never check (`WithdrawalsWait` in `Governance`). `set_sl_tp.rs:51` promises a stop
below the current price of an oracle that may be any (`StopsBehindPrice` in `Kronos`).
`open_position.rs:177` and `close_position.rs:179` describe a fixed 50/25/25 split where the parameters
decide. While `acc_fee_per_share` is zero a fee claim records nothing and can be repeated. A timelocked
proposal of the former admin survives `accept_admin`. `update_params` bounds each share of a fee but not their
sum: 8000 for the providers and 5000 for the insurance fund pay out of the vault more than was charged.

*Keepers.* `INDEXER_BACKFILL_SIGS` never exceeds one page; two events of one transaction that look alike
are one row; a torn `trades.json` loses all; falling back sets `updatedAt` to now, so the feed's age is
not what `/health` says; `settlements_24h` counts an hour. Alerts in a burst all go out, since the limit is
stamped by the answer, and a failed answer silences the next ones all the same. A `feeds-cache.json` that was
torn by a crash, or that cannot be read once, is forgotten and then overwritten (`price-feeds.js:65-68`), so that a
market that had a live price may be priced by its configured fallback. If the first refresh cannot read `feeds.json`,
the keeper still starts its timer (`price-feeds.js:364-370, 433-438`) and runs without fallback, fixed prices and
index until a later one can.

*Accounts.* A login with a legacy hash writes a hash of the password it was given, from a row read earlier
(`login/route.ts:34-38`), and so may overwrite a reset that ran meanwhile: the former password is then valid again.
Links expire after fifteen minutes (`forgot-password/route.ts:17`) where `README.md:309` and `README.md:321` say
one hour. `README.md:323` says that one wallet is made per address and hour; calls that overlap are all funded, so
is a call that is cut between its transfer and the setting of the limit, and a cold start forgets the limit
(`FundingIsLimited` bounds the overlap and sets the other two apart). `create-session-wallet` answers `funded: true`
whatever happened; `request-reset` reports success whatever happened; a sign-up may succeed on the server while the
browser fails to store the key and reports a failure.

*Wallet.* Recovery in one tab may delete the key another tab has just stored; `confirmMigration` drops a
backup without looking whose it is (`KeysKeptByTabs`); after the migration the landing page looks only in
localStorage and may overwrite a stored key; a guest with a migrated key who reloads a guarded page is sent
to the landing page before the wallet connects.

*Pages.* A confirmation to close acts on the slot, which another position may have taken; stops typed for
one row are cleared when rows open out by themselves; the pending state stays if the new position is gone
before it was seen; the pool page's `loading` names one handler, so one form frees another's button, and a
sheet shown anew has lost its loading state, so that a second transaction can be sent; the guest button
takes no state; hooks without a cancel flag show another market's answer; `useWalletUsdc` shows zero when a
read fails; a reused slot makes a false "closed" notice (`NoticesAreTrue`) and `page.tsx:159` may open out
an older position (`ExpandsNewest`); a chart drawn from bars loaded for the former selection, or seeded
with its live price (`DrawnAsSelected`, `SeededWithLivePrice`); a visitor who opens `/positions` directly
gets no liquidation warnings, since `NotificationProvider.tsx:110-115` waits for an event of the landing
page (`NavigationShown` is the corresponding fact about the header). The slider goes to a leverage of 25,
the program's limit is 10; the position size shown is not net of the fee; profits are shown uncapped; the
withdrawal preview ignores the solvency limit; the liquidation price is reckoned with two percent of maintenance
margin (`utils.ts:82-85`) where `docs.html:181-187`, `README.md:92` and the program take five, so that a position goes
before the price shown for it (`LiqPriceShown` in `Screens`, which no run checks); stops are checked against the entry price; the funding shown
uses totals of the protocol.

*Scripts.* A stop between the two writes of `gen-app-markets.js` leaves the application and the static site
with different lists. `transfer-admin-to-multisig.ts:9` calls itself irreversible, but it only nominates, no
script accepts, and its own check prints FAIL until somebody does; `rollback-admin.ts` run before the
acceptance finds nothing to do and leaves the nomination in place. Two proposing scripts that read the same
index print the same number; the second's transaction fails without its script noticing.

The definitions named in brackets are kept in the modules as statements of what one would expect; no run
checks them.

## 6. Not modelled

`migrate_referral` and `realloc_protocol` resize accounts of an earlier release. `record_raffle` and
`mint_devnet_usdc` touch nothing the program reads. `initialize*` and `init_*` are initial states here and
operations of the scripts in `Operations`. Of the keeper, the read-only routes and the parsing of the price
sources' pages; a source answers any price of a small set. `sendDailyDigest`, `useOracleRefresh`,
`fetchOracleOnChain` and the components `PositionPanel`, `TradingPanel`, `OracleChart` have no caller.
The SDK builds the same instructions and keeps nothing. `close-all-positions.js` is for the account layout of
an earlier release; `close-margin.ts`, `extend-program.ts`, `test-update-params.ts` and
`fetch-watch-images.py` make one call or none. `PnlExport` draws an image; documentation, terms, privacy and
the static site are text and a demonstration with invented figures. Layout, wording, sound and loading
indicators are left out throughout.

## 7. Plan

What would come next: the crank composed with `Kronos` itself instead of its reduction, and `ClaimsEarned` from the first unit of fees, with the legacy path of `claim_fees`.
