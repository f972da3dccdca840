# Niseko in TLA+

A specification of the Katana Perps "Niseko" system: the perpetual futures
exchange settled on chain by `contracts/Exchange_v1.sol` and its libraries, the
contracts around it (Custodian, Governance, bridge adapters, earnings escrow) and
the client library (`lib/`) with which requests are signed and contracts deployed.
An off-chain dispatcher matches orders and submits trades, liquidations and
deleveragings; the contracts check everything it submits and let users leave
without it. TLC checks the modules on small instances, and TLAPS proves what is
listed below for every instance.

## The system

| Component | State | Operations |
|---|---|---|
| `Exchange_v1` | everything down to `ManagedAccounts`, in one contract's storage | entry points with their modifiers; each call is one transaction that commits or reverts |
| `BalanceTracking` | quote balance and positions (size, cost basis, time of last funding) per wallet; list of markets with an open position per wallet | one update per operation below |
| `Depositing`, `Transferring`, `Withdrawing` | pending deposits, deposit index, hashes of completed transfers and withdrawals | deposit, apply pending deposit, transfer, withdraw |
| `Trading`, `TradeValidations`, `NonceInvalidations` | partial fills, hashes of completed orders, nonce invalidations | settle a trade, invalidate nonces |
| `WalletInMaintenance-`, `WalletExit-`, `PositionBelowMinimum-`, `PositionInDeactivatedMarketLiquidation` | | five liquidations: the Insurance Fund (in recovery the Exit Fund) takes on what is liquidated |
| `WalletInMaintenanceAcquisition-`, `WalletExitAcquisition-`, `ClosureDeleveraging` | price strategy of an exit | four deleveragings against an opposing position |
| `WalletExits`, `ExitFund` | exits, Exit Fund wallet, the clock of its withdrawal delay | exit, exit withdrawal (by anyone, by the admin, for the Exit Fund itself), clear, appoint |
| `MarketAdmin`, `Funding`, `FundingMultiplierQuartetHelper` | markets, index prices, funding multipliers packed by four | activate, deactivate, publish prices and funding, settle funding |
| `MarketHelper`, `IndexPriceMargin`, `OraclePriceMargin`, `Math`, `LiquidationValidations` | market fields and per-wallet overrides | account values, margin requirements, closing prices |
| `ManagedAccounts` | provider of each manager wallet, hashes of completed withdrawals | associate, deposit, apply, pay or cancel a withdrawal, exit |
| `Hashing`, `String`, `UUID` | | rebuild from an argument what its wallet signed |
| `lib/index.ts` | | typed data to sign and the argument to submit, from one request |
| `lib/contracts` | the process's provider, bytecode caches | deploy libraries and contracts, link them, wait for receipts |
| `Custodian` | the tokens; the Exchange, Governance and migrator it obeys | pays out what the Exchange says |
| `Governance`, `Owned` | pending upgrades with their delays | initiate, cancel, finalize |
| `EarningsEscrow` | last nonce and total paid per wallet | pay a signed distribution |
| `ExchangeLayerZeroAdapter`, `KatanaPerpsStargateForwarder` | tokens passing through, switches, fees and minimums | forward and compose deposits and withdrawals between chains |
| price adapters | the Exchange they are active for, last report | check price reports |

**How they interact.** All libraries work on the storage of `Exchange_v1`. The
links that matter are shared state: every change of a position has to be
preceded by settling funding and followed by bringing the open list in line;
margin and funding loop over that list; the Exit Fund's open list *is* the
recovery flag that closes most entry points; the Exit Fund's clock is computed
from its ledger by some handlers and only read by others; the Custodian's tokens
back all claims together. A provider of managed accounts keeps books of its own,
which the Exchange's calls must keep equal to its own. A request is hashed twice,
in two languages, and only equal hashes let anything happen. Governance sets an
Exchange that moves on while an upgrade waits. A bridged deposit meets, when it
arrives, an adapter and an Exchange that have changed since it was sent.

**What is hard.** Nothing runs concurrently inside a transaction, and a revert
undoes all of it. What is hard is the order of transactions: users, dispatcher,
admin, providers, oracle, bridges and time act in any order between two steps of a
trade, an exit, an upgrade or a transfer, and a value checked or computed at one
of them (price, override, exit status, clock, funding period, list of providers)
is stale at the next. Three places do interleave within a call: the escrow pays a
receiver that may call back, deployment gives way at each `await`, and a cross-chain
transfer is several transactions. Rounding and sign handling at closing prices, and
sums kept in two places, are the other half. `PROJECT.json` lists these hazards,
each at its line.

**What makes each part correct.**

- *Ledger*: open lists are exact; base and quote are conserved; cost basis follows the position.
- *Custody*: collateral never leaves a position that needs it; tokens move with claims.
- *Trading*: positions are what signed orders explain; growth is margined; invalidated orders stay invalid.
- *Requests*: what is signed verifies; nothing is settled that was not authorized, nor beyond its limit; positions and payments stay within the sums that were signed.
- *Liquidation and deleveraging*: conserved, within the acquirer's limits; a bankruptcy price once used stays.
- *Exits*: final exits and recovery only wind down; an exit pays at most what the account is worth; the Exit Fund's clock starts with its first position; a wallet that exits gets out, but for extreme prices and quote the Exit Fund has drawn.
- *Funding*: settled once, for the size at the time, each period at its multiplier; never outstanding for the Exit Fund.
- *Managed accounts*: provider and Exchange agree on what is pending; a withdrawal is settled once.
- *Governance*: nothing changes unannounced; the Insurance Fund is never an exited wallet.
- *Escrow*: each distribution is paid once, and one of each parent.
- *Bridge*: a transfer ends once, in one place, with its wallet unless that cannot be paid.
- *Deployment*: links and builds are those that were asked for; a call resolves to a contract of its own that is mined; what is mined is found.

## Modules

| Module | Models | Builds on |
|---|---|---|
| `PipsMath` | `Math`, closing prices of `LiquidationValidations` | |
| `Sums` | the summing loops, as a recursive function | |
| `BalanceTracking` | the ledger and its updates, `Funding`'s settlement | `PipsMath`, `Sums` |
| `Margin` | `IndexPriceMargin`, `OraclePriceMargin`, `MarketHelper` | `BalanceTracking` |
| `ExchangeState` | storage, types, modifiers and checks shared by handlers | `Margin` |
| `Custody` | `Depositing`, `Transferring`, online `Withdrawing`, the Custodian's balance | `ExchangeState` |
| `Trading` | `Trading`, `TradeValidations`, `NonceInvalidations` | `ExchangeState` |
| `Liquidation`, `Deleveraging` | the libraries of those names | `ExchangeState` |
| `WalletExits` | `WalletExits`, `ExitFund`, exit withdrawals | `ExchangeState` |
| `MarketAdmin` | `MarketAdmin`, `Funding`'s publication, overrides, oracle, time | `ExchangeState` |
| `Exchange` | the composition: initial state, `Next`, the properties | all above |
| `FundingQuartets` | `FundingMultiplierQuartetHelper`: the quartets of a history | `Exchange` |
| `ManagedAccounts` | `ManagedAccounts`, and what the other libraries do for manager wallets | `Exchange` |
| `Requests` | `lib/index.ts`: typed data and arguments of every request | `PipsMath` |
| `Hashing` | `Hashing`, `String`, `UUID`, the enums: what the contract rebuilds | `Requests` |
| `Authorizations` | *abstract*: at most its limit is settled of a request, after it was authorized | |
| `SignedRequests` | signing, and the Exchange reached only through arguments and signatures; implements `Authorizations` | `Exchange`, `Hashing` |
| `EarningsEscrow` | `EarningsEscrow` with re-entrant receivers; implements `Authorizations` | `Hashing`, `Sums` |
| `Timelock` | *abstract*: what changes was announced for its whole delay | |
| `Governance` | `Governance`, `Custodian`'s contracts, the governed settings of each Exchange; implements `Timelock` | |
| `Remittance` | *abstract*: a transfer moves and ends once, within its tolerance | |
| `Bridge` | both bridge contracts with their composing libraries; implements `Remittance` | |
| `Deployment` | `lib/contracts` | |
| `MC*` | instances for TLC; `MCClaims`, `MCOrderClaims`, `MCGovernanceClaims` state claims | |
| `SumProofs` | laws of sums, over wallets, markets and finite sets | `Sums` |
| `ExchangeProofs`, `PositionProofs`, `RequestProofs`, `EscrowProofs`, `GovernanceProofs`, `DeploymentProofs`, `BridgeProofs` | theorems | |

A handler of the code is one action, named after the entry point. Its `require`s
are the guard, in the code's terms; its storage writes are the primed variables.
A library call that changes balances is an operator from ledger to ledger, so a
handler's whole effect reads as a composition: in `ExecuteTrade`, both wallets'
funding is settled (`Funded`), then `UpdateForTrade` moves base, quote and fees.
`ledger` is one variable because the code's `BalanceTracking.Storage` and open
lists always change together. `Bridge` does the same with calls that may revert:
an operator takes the state of a chain to its next state or to `Reverted`, and
`Try` is the `try/catch` around it.

Conventions:

- *Wallets and markets* are numbered, so that totals are sums over `1..N`.
- *Signatures and hashes*: in the modules of the Exchange, `Orders`, `Transfers`, `Withdrawals` are the requests the wallets have signed, and a request is its own hash. `SignedRequests` takes that apart: a hash is the typed data it covers, a signature recovers its signer for exactly that typed data, and the dispatcher pairs any argument with any signature. An argument that does not fit its ABI type (a negative or too large number, an enum without such a member) is not submitted.
- *The dispatcher* is not trusted: it may submit any signed request with any price, quantity, fee and rounding from the configured sets, at any time.
- *Time* is one clock `now`, read as seconds for delays and as funding time; it moves only by `Tick`. Position timestamps are counted in funding periods, which they are aligned to in the code. In `Governance` a pending upgrade keeps the time left to its threshold.
- *Integers* are unbounded; a value that leaves `int64` or `uint64` reverts in the code. `Hashing` keeps `uint64` and `uint128` where the encoding does.
- *Per-market loops* of a liquidation or exit are one step on all markets: the positions are independent and the quote changes are added.
- *External calls*: the oracle's price is a variable that changes at any moment; a fee-on-transfer token may keep part of a deposit; a provider's books are variables that its calls update; bridges, vaults and pools slip, fail and delay as they like; a payout never fails if the Custodian holds enough, except to the `Blocked` wallets of `Bridge`.
- *Initial state*: markets added, funding backfilled to the start of the day, a ledger as deposits and trades leave it (`MCExchange.SeedTrade` builds it with the model's own update for trades).
- *Abstracted*: emitted events, self-trade prevention (hashed, otherwise unused), native assets and gas.

## Runs

The runs of the Exchange use ten pips to the unit and prices near ten, where
truncation, one-pip rounding and sign changes occur within a few steps; four pips
to the token unit, so payouts truncate; funding period two, withdrawal delay two,
threshold three. Wallets 1, 2, 3 are Insurance Fund, Exit Fund and fee wallet;
Alice is long against Bob with little collateral, so that each margin check can
fail. Every run takes a subset of the next-state relation, built from the same
actions, with arguments from small sets; between them they fire every action.

| Run | Interleaves | Checks |
|---|---|---|
| `MCTrading` | six orders (increase, flip, reduce-only, delegated key, Insurance Fund), partial fills, rebates, overrides, a price change, nonce invalidations under a changing propagation period | `CostBasisFollowsPosition`, `PositionsFollowOrders`, `GrowthIsMargined`, `InvalidatedOrdersStayInvalid` |
| `MCFunding` | deposits with token fee, partial application, transfers, withdrawals, trades, funding over several periods with backfill, bounded settlement by anyone; a manager's deposits, withdrawals, cancellation, liquidation and exit | `TypeOK`, `QuoteIsConserved`, `OutflowIsMargined`, `QuartetsPayEachPeriod`, `ProvidersKnowPendingDeposits`, `ManagedWithdrawalsSettleOnce`, `ManagedExitPaysAtMostEquity` |
| `MCRecovery` | online: exits, exit withdrawals by user, anyone and admin, trades before finality, funding, Exit Fund closure, its withdrawal online and by exit, moving prices; offline, with positions in two markets: exits, withdrawals, those of the Exit Fund included, extreme oracle moves, Exit Fund appointments, time | `OpenMarketsAreTracked`, `ExitFundFundingIsCurrent`, `ExitFundClockStartsWithRecovery`, `QuoteIsConserved`, `RecoveryWindsDown`, `FinalExitWindsDown`, `ExitPaysAtMostEquity`, `ExitsComplete` |
| `MCLiquidation` | price drops, stricter overrides, deactivation, all liquidations, acquisition and Insurance Fund deleveraging, submitted quotes a pip off | `QuoteIsConserved`, `PositionsAreConserved`, `GrowthIsMargined`, `BankruptcyStrategyIsSticky` |
| `MCRequests` | signing for two domains, with wallets' and delegated keys; any argument with any signature, authorization and fee, again and again | `SignedPaymentsVerify`, `OutflowsAreSigned`, `PositionsAreSigned`, `SettlesWhatIsAuthorized` |
| `MCEscrow` | distributions upon one parent, in a cycle and for another escrow; nested payments; changes of the exchange wallet | `OneOfEachParent`, `TotalsArePaid`, `PaysWhatIsSigned` |
| `MCGovernance` | upgrades of all topics pending at once under two Governances and two Exchanges; exits and positions of the wallets concerned | `InsuranceFundIsNotExited`, `ChangesAreAnnounced` |
| `MCBridge` | two transfers over every hop, with payloads of each type, undecodable, without a wallet, or for a wallet the token refuses to pay; slippage, failed sends, refusals, switches, fees, exits | `HoldsWhatIsUnderWay`, `OnlyUndeliverableGoesToOwner`, `TransfersArriveOnce`, `TransfersEnd` |
| `MCDeployment` | two calls in flight on two chains, recompilation, lagging replicas, lost responses | `ResolvedAreDeployed`, `LinkedLibrariesAreDeployed`, `OneBuildPerLibrary`, `MinedDeploymentsResolve` |

`SettlesWhatIsAuthorized`, `PaysWhatIsSigned`, `ChangesAreAnnounced` and
`TransfersArriveOnce` are refinements: each says that its module implements the
abstract one under the mapping written out in the `INSTANCE` above it.
`QuartetsPayEachPeriod` compares the packed quartets with the flat history in
every state of its run. `ExitsComplete` says that a wallet is again and again either out
or in one of two exceptions, stated by what causes them and not by what the exit
withdrawal requires: one of its positions has a negative bankruptcy price, or the Exit
Fund has been paid out what it was given for positions it still has. Without either
exception the run finds a behavior in which a wallet waits forever.

**Bounds.** `MaxTime` bounds the clock of the Exchange (the runs start at 3:
enough for two funding periods, a propagation period and the withdrawal delay;
`MCFunding` starts at 5 and so crosses from one quartet to the next, and with a
manager ends at `MaxManagedTime`; `MCRecovery` ends at 5 online and at 6 offline);
`MaxDeposits` bounds deposits; orders, requests, quantities, quotes, fees, prices,
rates and fields range over the sets in the `.cfg`. Two users are enough for the
ledger properties because every update touches at most two wallets and the fee
wallet. In `MCFunding` Alice is an ordinary wallet or a manager, chosen at the
start; in `MCRequests` a behavior signs either orders or payments. One market is
enough for all but the sign of bankruptcy prices, which needs two positions of one
wallet: `MCRecovery` has two markets, in both of which Carol and Dave have
positions, at prices between a tenth and the triple of where they start, and so
little in the Insurance Fund that the Custodian can run out. The proofs are for
any number of both. `MCGovernance` bounds what differs
from the initial state: `MaxUpgrades` (two: one may overtake the other) and
`MaxDisturbances` (one exit or position); delays are two and one, so that the
second Governance can be faster than the first. `MCDeployment` bounds retries,
lag (up to one more than the retries outlast), builds and deployments. `MCEscrow`
bounds the escrow's balance and the depth of nested calls. In `MCBridge` two
transfers are as many as can meet (an account added by one, used by the other),
losses of 0, 1 and 2 lie on both sides of the tolerance of one unit, and
`MaxChanges` is one: each fallback needs one of the switches, exits or parameters
to have changed, and those that need a second reason have a failed send or a
refusal. Deadlock checking is on except in `MCBridge`, where both transfers may
have ended and nothing is left to change; elsewhere, where time has reached its
bound, price changes or settlement that leaves the state as it is remain possible.

**Fairness.**

- `MCRecovery`, offline only: time passes, and a wallet whose exit can be withdrawn
  is eventually withdrawn. `withdrawExit` is open to anyone for any finalized exit, so
  this asks nothing of dispatcher or admin, only that the user, or someone,
  eventually calls. It is weak fairness of `WithdrawExit(w)`, with the enabling
  condition written out as `CanWithdrawExit(w)` because evaluating `ENABLED` over the
  handler is slow; the condition is the action's guard and the fact that it changes
  something. Exits are only announced while they can still become final within
  `MaxTime`.
- `MCDeployment`: time passes, and a call that has something to do does it: the
  event loop of one process. Nothing is assumed of when a transaction is mined or
  a replica catches up; `MinedDeploymentsResolve` has that as its premise.
- `MCBridge`: each transfer's bridge delivers, and its executor calls `lzCompose`, in
  the end: LayerZero lets anyone execute a message that is verified, and call again
  one whose execution failed. Nothing is assumed of what the calls decide.

### Claims the code does not keep

Each run states a sentence of the repository and finds it violated; `PROJECT.json`
quotes the sentence and the cause.

| Run | Claim | What happens |
|---|---|---|
| `MCClaims_longs_shorts` | README.md:110: longs equal shorts within a market | a partly closed market is activated again |
| `MCClaims_triggers` | Enums.sol:62-69: Last is 1, Index is 2 | the client library has them as 0 and 1: an order signed with Index is settled as one with Last |
| `MCClaims_providers` | README.md:239: providers are added but not removed | a list that is a beginning of the current one passes the comparison and drops the rest |

Further divergences and observations, met while modelling, that no run states:

*Exits and recovery.*
- An online withdrawal that empties the Exit Fund leaves its clock running, and the
  next recovery starts with the delay elapsed (Withdrawing.sol:141; README.md:295 says
  the clock starts with the first position). `ExitFundClockStartsWithRecovery` excepts
  what follows such a withdrawal.
- Nothing keeps the Exit Fund, the Insurance Fund and the fee wallet apart
  (`setExitFundWallet` and `ExitFund.validateExitFundWallet` do not look at the others,
  nor the reverse): liquidations and fees then move the Exit Fund's balances without its
  clock. The same property excepts that as well.
- Exchange_v1.sol:797 and 890 pass the clock with "Will always be 0 per modifier"; the
  modifier only looks at positions, and quote and clock may be left.
- A wallet that has exited can be appointed Exit Fund (Exchange_v1.sol:344), although
  WalletExitLiquidation.sol:40 relies on the contrary.
- A deposit pending when its wallet is appointed Exit Fund is applied afterwards: quote
  with a zero clock (Exchange_v1.sol:703; line 86 says zero only without quote).
- A bankruptcy price that would change sign is replaced by zero
  (LiquidationValidations.sol:57); with two positions the exit quote can then be
  negative by more than the threshold, and the exit reverts until the oracle moves
  (Withdrawing.sol:338; lines 333-336 say it never is). `MCRecovery` reaches this: Carol
  is long 30 and short 2, and the first price falls to a tenth while the second triples.
- The Exit Fund may withdraw quote it holds against a short position; the opposing
  exit is then not covered (Withdrawing.sol:198-207, README.md:291). `MCRecovery`
  reaches this too: Dave's exit leaves the Exit Fund his quote with his short, someone
  withdraws it, and the Custodian holds less than Carol's account is worth.

*Deployment.* `initRpcApi` replaces the provider all calls share (`utils.ts`:5-21).
A call waits for its contract with the provider it began with, but
its wrapper, created after the wait (`ExchangeV1Contract.ts`:97), loads the one that is
shared by then (16-17): if another call has configured another chain, the wrapper
has the right address of the wrong chain.

*Client library.* `conditionalOrderId` is passed to the contract as UUID text
(`lib/index.ts`:701) and signed as a number (309, 329-331).

*Governance.*
- `initiateOraclePriceAdapterUpgrade` emits the threshold of the bridge adapters'
  upgrade (Governance.sol:912-916).
- README.md:202 says index price adapters may be added, upgraded or removed; finalizing
  activates every listed adapter (Governance.sol:564), and Chainlink's (168) and
  RedStone's (113-114) refuse to be activated twice, so a list that keeps one of them
  cannot be finalized.
- Overrides for the Insurance Fund's wallet are initiated by governance and others by
  the Exchange's admin; after a change of that wallet either may finalize or cancel
  what the other announced.
- `unsetMarketOverridesForWallet` (Exchange_v1.sol:1072) clears governed overrides with no
  delay.
- A field upgrade applies to whichever Exchange is current when it is finalized, and an
  adapter whose activator is a replaced Governance cannot be activated by its successor.

*Managed accounts.*
- Withdrawals from managed accounts go on in recovery (Exchange_v1.sol:1463 asks for the
  dispatcher only); by shares, the gross quantity above the signed minimum is the
  dispatcher's choice; depositors that exited may still deposit.
- `associateManagerWallet...` accepts the Exit Fund's wallet, although a manager may not be
  appointed Exit Fund (ExitFund.sol:39-46); a manager may transfer quote out.
- Lazy migration does not carry the provider of a wallet (BalanceTracking.sol:516-523);
  with its provider dropped from the list a manager wallet's exit cannot be withdrawn.

*Bridge.*
- README.md:267 says "If the bridge call fails, funds are redeposited to the Exchange".
  While deposits are disabled, or for a wallet that exited, they are transferred; and a
  bridge that quotes no fee makes the whole withdrawal revert, since `quoteSend` is
  outside the `try` (ExchangeLayerZeroAdapter_v1.sol:254).
- The comments "Must be true or `lzCompose` will revert" and "... `withdrawQuoteAsset` will
  revert" (ExchangeLayerZeroAdapter_v1.sol:33, 35) are not what the code does: it
  transfers, or redeposits.
- ExchangeAdapterComposing_v1.sol:228-231 falls back to the wallet when adding a managed
  account fails. A payload may name a provider without code: the compiler's check of
  that is outside the `try` (308-313), the whole compose reverts, and
  ExchangeLayerZeroAdapter_v1.sol:166-168 sends the deposit to the owner. So
  `OnlyUndeliverableGoesToOwner` excepts it.
- A deposit below the minimum for adding an account is deposited for the wallet, whose
  pending deposit then refuses the account when it is tried again.
- At the forwarder, a bridge that quotes no fee sends a deposit to the owner, while one
  that quotes and fails to send gives it to the wallet.

## Proofs

TLAPS proves, for any number of wallets, markets, contracts and calls, any signed
requests, any sets of submitted quantities and any parameters that satisfy the
named assumptions:

| Theorem | Module | States |
|---|---|---|
| `OpenMarketsAlwaysTracked` | `ExchangeProofs` | `Spec => [](TypeOK /\ OpenMarketsAreTracked)` |
| `TypesAlwaysHold` | `ExchangeProofs` | `Spec => []TypeOK` |
| `InvalidationIsFinal` | `ExchangeProofs` | `Spec => InvalidatedOrdersStayInvalid` |
| `BankruptcyStrategyStays` | `ExchangeProofs` | `Spec => BankruptcyStrategyIsSticky` |
| `PositionsAlwaysConserved` | `ExchangeProofs` | `Spec => PositionsAreConserved` |
| `QuoteAlwaysConserved` | `ExchangeProofs` | `Spec => QuoteIsConserved` |
| `ExitFundFundingAlwaysCurrent` | `ExchangeProofs` | `Spec => []ExitFundFundingIsCurrent` |
| `CostBasisAlwaysFollows` | `PositionProofs` | `Spec => []CostBasisFollowsPosition` |
| `GrowthIsAlwaysMargined` | `PositionProofs` | `Spec => GrowthIsMargined` |
| `RecoveryAlwaysWindsDown` | `PositionProofs` | `Spec => RecoveryWindsDown` |
| `FinalExitAlwaysWindsDown` | `PositionProofs` | `Spec => FinalExitWindsDown` |
| `OutflowIsAlwaysMargined` | `PositionProofs` | `Spec => OutflowIsMargined` |
| `PositionsAlwaysFollowOrders` | `PositionProofs` | `OrdinarySpec => []PositionsFollowOrders`, for finitely many orders |
| `QuartetsAlwaysPayEachPeriod` | `PositionProofs` | `Spec => []QuartetsPayEachPeriod` |
| `QuartetsPayEachPeriodWithManagers` | `PositionProofs` | `ManagedSpec => []QuartetsPayEachPeriod` |
| `ExitsPayAtMostEquity` | `ExchangeProofs` | `Spec => ExitPaysAtMostEquity` |
| `OpenMarketsTrackedWithManagers` | `PositionProofs` | the first one, for the Exchange with managed accounts |
| `ProvidersAlwaysKnowPendingDeposits` | `PositionProofs` | `ManagedSpec => []ProvidersKnowPendingDeposits` |
| `WithdrawalsSettleAtMostOnce` | `PositionProofs` | `ManagedSpec => []ManagedWithdrawalsSettleOnce` |
| `ManagedExitsPayAtMostEquity` | `PositionProofs` | `ManagedSpec => ManagedExitPaysAtMostEquity` |
| `OnlyAuthorizedIsSettled` | `RequestProofs` | the Exchange with its signatures implements `Authorizations` |
| `PaymentsVerify` | `RequestProofs` | what is signed for a payment verifies |
| `SignedImplementsExchange` | `RequestProofs` | `SignedSpec => Spec`: the Exchange with its signatures implements the Exchange |
| `PositionsAreAlwaysSigned` | `RequestProofs` | `OrdinarySignedSpec => []PositionsAreSigned`, for finitely many orders |
| `OutflowsAreAlwaysSigned` | `RequestProofs` | `OrdinarySignedSpec => []OutflowsAreSigned` |
| `EscrowPaysWhatIsSigned` | `EscrowProofs` | the escrow implements `Authorizations` |
| `OneOfEachParentAlways` | `EscrowProofs` | `EscrowSpec => []OneOfEachParent` |
| `TotalsAreAlwaysPaid` | `EscrowProofs` | `EscrowSpec => []TotalsArePaid` |
| `InsuranceFundNeverExits` | `GovernanceProofs` | `Spec => []InsuranceFundIsNotExited` |
| `GovernanceImplementsTimelock` | `GovernanceProofs` | Governance implements `Timelock` |
| `WhatResolvesIsDeployed` | `DeploymentProofs` | `Spec => []ResolvedAreDeployed` |
| `LibrariesAreDeployed` | `DeploymentProofs` | `Spec => []LinkedLibrariesAreDeployed` |
| `LibrariesAreOneBuild` | `DeploymentProofs` | `Spec => []OneBuildPerLibrary` |
| `ContractsHoldWhatIsUnderWay` | `BridgeProofs` | `Spec => []HoldsWhatIsUnderWay` |
| `WalletsKeepWhatCanBeDelivered` | `BridgeProofs` | `Spec => OnlyUndeliverableGoesToOwner` |
| `BridgesImplementTheirPromise` | `BridgeProofs` | the bridge contracts implement `Remittance` |

**Arguments.** For `OpenMarketsAlwaysTracked`, the inductive invariant is
`IInv == TypeOK /\ OpenMarketsAreTracked`. The two belong together: moving a
position divides by its size or by the quantity moved, and when a fund takes over
a wallet's positions only exact tracking says that what it takes over is not
zero, so that the new cost basis is a number at all. `ExchangeProofs` begins
by showing that each ledger operator takes a *sound* ledger (typed and tracked) and typed
arguments to a sound ledger, with the laws of the summing loops in `SumProofs` (type,
congruence, change of one or two terms, bounds), by induction in the form "a nonempty set
of naturals has a least element". Then it has one lemma per action, assembled along
`Next`. `OpenMarketsTrackedWithManagers` reuses those lemmas: what managed accounts
add are compositions of the same ledger operators.

`InvalidationIsFinal` is about a short cut of the contract: of all of a wallet's
invalidations `LastInvalidated` reads the last, or the one before while the last is
pending. The strengthening `InvalidationInv` says why that is enough: timestamps
grow, and every invalidation but the last has taken effect (`invalidateNonce`
refuses a new one while one is pending, and time only moves forward, so shortening
the propagation period cannot make a later one effective first). From it
`LastInvalidatedCovers` bounds every effective invalidation, so `IsNonceValid`
refuses each covered order and delegated key, and a trade fills no order but the
two it settles.

`BankruptcyStrategyStays` needs that a wallet that is not exiting has no strategy
left over (`ExitsAreFresh`): otherwise announcing a new exit would be the step that
drops a chosen bankruptcy price. Both rest on `TypeOK`.

The three theorems on conservation share the inductive invariant `CInv`: `IInv`,
no position dated later than its market's history, and no funding outstanding for the
Exit Fund. A wallet's *worth* is its quote with the funding it has outstanding;
`Moves(l, k, h, quote, base)` says by how much the worth of all wallets and the sum of
positions in each market differ between two ledgers. Each ledger operator has a lemma
saying what it moves: settling funding, in full or in part, moves nothing, since the
payments for consecutive periods add up; a trade, liquidation or deleveraging moves base
and its price there and back. Replacing a position moves nothing only if no funding is
outstanding on it, so every handler has to settle first. The exception is the Exit Fund,
for which an exit does not: that is why its funding being current must be part of the
invariant, and why it stays so is that no funding is published while it has positions.
Each transaction is then a chain of such moves (`Conserving`), a payout adding the
fraction of a token unit and an exit the balance it forgives.

The theorems of `PositionProofs` rest on one fact about every step, `PositionsFollow`:
each position either shrinks, without changing sides, or is taken on (`MayTakeOn`):
by the Exit Fund; or, only while the Exit Fund has no
positions, by the Insurance Fund or a wallet whose exit is not final, which meets its
margin and its limits if it grew and is not the Exit Fund. Which of them a step allows
is read off the handler's modifiers: trades are closed in recovery and to wallets whose
exit is final. The inductive invariant `PInv` adds that cost bases have the sign of
their positions and that the Insurance Fund announces no exit (`exitWallet` refuses it,
and it cannot be replaced by a wallet that did). That a cost basis keeps its sign is
about rounding: the part of it that leaves with part of a position is truncated, so it
never exceeds what there was (`PartIsWithin`).

`OutflowIsAlwaysMargined` compares a wallet's worth before and after each step
(`MayPay`). Settling funding changes nobody's worth (`FundedEquals`), so a handler may be
looked at from the ledger it has settled. A wallet that is no party to it is *spared*:
it keeps its positions and loses no quote. A party's positions change, or nothing is left
of it (a liquidation and an exit sweep what remains), or its margin was checked, and
that check read funding that was settled, so that the property, which settles first,
sees the same figures (`MarginedMayPay`). An empty exiting wallet is the case that falls
under none of them: its liquidation costs it nothing, since the sum over no market is zero.

`ExitsPayAtMostEquity` is about rounding and signs. At the exit price a position is never
closed for more than it is worth (`ExitPriceIsWorse`), nor at the bankruptcy price of a
solvent account. At the bankruptcy price of an insolvent account each position gains its
share of the deficit over its value, rounded by less than a pip; the shares, in proportion
to maintenance margins, add up to at most the deficit (`SharesAddUp`), so what is left is
at most a pip for each position. That the property needs those pips, and needs the
maintenance requirement of an open position to be positive to divide by, is why prices
and maintenance fractions are typed as positive, which adapters and
`Validations.sol:66-69` ensure. The Exit Fund's own exit is excepted by the property: when
the admin has appointed a wallet that has exited already, its exit pays all of its quote
and leaves it the positions, which it would take over from itself. A manager's
exit (`ManagedExitsPayAtMostEquity`) rests on the same lemma.

`PositionsAlwaysFollowOrders` adds up fills over all signed orders. A trade adds its base
to what exactly two of them have filled (`TradeFills`), which are different because one buys
and one sells; that an order completed by it moves from `partiallyFilled` to
`completedOrders` at its full quantity keeps its fill. The same trade moves exactly the two
positions in its market by that base (`TradeMovesPositions`), as no wallet trades with
itself. It is stated of `OrdinarySpec`, which leaves out liquidations, deleveragings and
payouts of exits and of the Exit Fund: they move positions that nobody ordered. The sum
needs finitely many orders, its only hypothesis.

`QuartetsAlwaysPayEachPeriod` first says what the packed quartets are: the multiplier of
period `p` is at index `(p - 1) \div 4` and offset `(p - 1) % 4`, and what is left of the last quartet is
the sentinel (`QuartetsStore`, by least counterexample over the published multipliers).
That the place of a period can be found from its time alone (`PlaceOfPeriod`) is division
by four of a count back from the last time; the payments of a range, padded with zeros to
whole quartets, are then summed by four (`SumByFour`). The invariant is `NoSentinel`: no
stored multiplier reads as a free place, since what is backfilled is zero and all others
come from a published price and a rate.

`ProvidersAlwaysKnowPendingDeposits` is strengthened by `PendingInv`: a provider also
holds nothing for a wallet that is *not* a manager, which is what association, by its
check that nothing is pending, needs in order to start equal. One lemma shows which
actions of the Exchange leave a manager's pending deposits alone, the others are the
ones that tell the provider. `WithdrawalsSettleAtMostOnce` counts a settlement exactly
for the hashes remembered (`SettledInv`).

`OnlyAuthorizedIsSettled` shows of each submission that it is accepted only with a
signature over exactly the typed data the contract rebuilds, by the wallet it debits
or a delegated key that wallet authorized, and that what is recorded as settled has the
same hash; every other step leaves both alone. `FilledInv` only says that fills are
numbers.

`SignedImplementsExchange` shows that what is decoded of any accepted submission is a
request, a trade and a fee that the Exchange can be given (`RepresentationAssumption`), so
that a submission is a step of `Exchange`, and carries every theorem about `Spec` over.
`OrdinarySignedSpec` is the part of it in which nobody is liquidated, deleveraged or paid
out on an exit: only there are positions and quote what the wallets' own texts explain.

`PositionsAreAlwaysSigned` takes from `PositionsAlwaysFollowOrders` that a position is the
sum of its orders' fills, and bounds that by a sum over signed texts. `SettlementsInv` says
that what is filled of an order is at most what a text says that was signed for it, and
`Says` that a text says one order only: a submission under another authorization, or signed
by wallet and key, is the same hash. So the fills map to texts one to one, and a sum over
the first is at most that over the second (`SumOnInjection`).

`OutflowsAreAlwaysSigned` rests on `PaidInv`: a wallet that began without positions and has
not traded has none, and has lost at most the gross quantities of its completed transfers
and withdrawals. Every step takes no more from such a wallet than the request it completes
(`Loses`): others' trades, deposits and fees only add, and settling funding is nothing
without positions. A request completes once, each by a text of its own; only the texts need
be finitely many, and they are.

The theorems of `EscrowProofs` rest on `NoncesAscend`, the inductive part of `EInv`. What a
wallet was paid is no later than the last nonce it used and later than its own parent, and
of two payments the later one has a parent that is not zero and is no earlier than the
nonce of the former one: a receiver that is called while it is paid meets a `lastNonce`
that is already written. Two payments upon one parent would put that parent's time
before itself; two payments of one distribution are upon one parent; and a nonce of zero,
which would let a wallet start over, is never used, since only a nonce of a later time
than its parent is, or one that differs from a parent of zero. `SignersAreExchangeWallets`
covers what was signed before the exchange wallet changed. `TotalsArePaid` needs no more
than types and the two laws of `QuantityOf` for a sequence that grows or shrinks by its
last element. `DistributionIsRepresented` says that the contract hashes what the client
library has the exchange sign.

`InsuranceFundNeverExits` rests on the Exchange's own checks at finalization and at each
exit, whatever was announced and whichever Exchange it hits. `GovernanceImplementsTimelock`
maps each upgrade that is pending to a notice: a finalized value is that of a notice
whose wait is over, and no step shortens a wait but time.

`LibrariesAreDeployed`, `WhatResolvesIsDeployed` and `LibrariesAreOneBuild` share `DeployedInv`. What makes it
inductive although every call reads at one time and uses what it read at another is
that nothing read is ever changed: chains only grow and a transaction keeps its name
and build and stays mined (`ChainsGrow`), and bytecode is read once and kept
(`libraryNameToBytecodeMap`). `Linked` follows an address from the wrapper's arguments
to the transaction; that the names agree with those the compiler asks for is a fact
about `ExchangeV1Contract` and the names of the libraries (`WrappersLinkByName`).

The theorems of `BridgeProofs` rest on `BridgeInv`: types, parameters the setter lets
through, what the tokens' whereabouts say of a transfer at each stage, and
`HoldsWhatIsUnderWay`. Every call on Katana that does not revert makes one payment, or two
when a managed account costs a fee, and leaves the adapter with exactly that much less
(`PaysOnce`, `Delivers`), through every `try`. Since the adapter holds the sum of what
waits in it, it holds at least each transfer's part, and the transfer to the owner in
`lzCompose` cannot fail: so each step moves one transfer with its tokens (`Moved`), which
keeps the sums and is a step of `Remittance`. That fees are within the minimums is needed for
`OnlyUndeliverableGoesToOwner`: otherwise the net quantity underflows, the call reverts,
and the owner gets the deposit.

**Assumptions**, each evaluated by TLC in the runs that extend their modules:
`PipMultiplierAssumption`, `LedgerSizeAssumption`, `RequestAssumption`,
`ParameterAssumption`, `CustodyAssumption`, `TradingAssumption`,
`LiquidationAssumption`, `DeleveragingAssumption`, `ExitAssumption`,
`MarketAssumption`, `InitialAssumption`, `ManagedAssumption`, `PipsAssumption`,
`HashingAssumption`, `RepresentationAssumption`, `SentinelAssumption`, `EscrowAssumption`,
`GovernanceAssumption`, `DeploymentAssumption` and `BridgeAssumption`. They give the types of parameters and require a well-formed
initial state: among others that the clock starts after zero (a clock of zero means
that there is none), that initial cost bases have their positions' signs, and that
`None` is not a bytecode. `SentinelAssumption` says that no price times rate is the
sentinel: nothing in the contracts asks that, but the sentinel is `type(int64).min`
(FundingMultiplierQuartetHelper.sol:13), so a multiplier equal to it would need a product of
2^63 pips. `RepresentationAssumption` says that the sets the Exchange draws requests, trades
and fees from contain what the client library makes of clients' requests.

**Only model-checked**: the properties of the runs that no theorem above names, which are
the liveness properties `ExitsComplete`, `MinedDeploymentsResolve` and `TransfersEnd`, and
`ExitFundClockStartsWithRecovery`: liveness under fairness and `ENABLED` are out of the
prover's reach, and the clock is set by some handlers and forgotten by others, so that what
holds of it holds only under exceptions. All other safety properties of the passing runs
are proved. No module that a theorem reaches
declares a `RECURSIVE` operator.

## Not modelled

- *Migration* from an earlier Exchange and of the quote token, and `skim`: they read
  another contract's storage or move tokens the Exchange does not account for.
- `addMarket` after the start, and the roles of dispatcher, fee wallet, admin and owner.
- *Price adapters' report checking*: signatures, feed ids and ages of reports. The
  Exchange sees a price that was accepted.
- *Native assets and gas* of the bridge: fees, drops, their withdrawal, and composes that
  run out of gas; `LayerZeroFeeEstimation`, which only reads; `composeForLoopback`, which
  nothing in the repository calls.
- *Providers of managed accounts*, which are not in the repository: of them only what the
  Exchange calls.
- Hash functions, ABI encoding and the plain text of a delegated key's authorization:
  a hash stands for what it covers.
- Views, events and error texts, build and lint configuration, the badge script, and
  the tests.

What would come next: composition of `Bridge` with `ManagedAccounts`, whose association
and deposits it now models by their conditions.
