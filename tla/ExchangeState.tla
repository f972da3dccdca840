----------------------------- MODULE ExchangeState -----------------------------
(***************************************************************************)
(* The storage of contract Exchange_v1 and what its handlers share: the    *)
(* modifiers, the exit and nonce checks, fees, and the Exit Fund clock.    *)
(* The handlers themselves are in the modules that extend this one, one    *)
(* per group of libraries, and Exchange puts them together.                *)
(*                                                                         *)
(* Every handler is one transaction: it commits all of its updates or,     *)
(* when a `require` fails, none.  So a handler is one action, and its      *)
(* requires are the action's guard.  What interleaves is the order of the  *)
(* transactions of users, dispatcher and admin, and the passing of time.   *)
(***************************************************************************)
EXTENDS Margin, Sequences

CONSTANTS
    InsuranceFund,          \* changed only through Governance
    FeeWallet,
    Orders,                 \* the orders the wallets have signed, with their authorizations
    OrderDetails,           \* values of the hashed fields that settlement does not look at
    Transfers,              \* the transfers the wallets have signed
    Withdrawals,            \* the withdrawals the wallets have signed
    WithdrawalRoutes,       \* bridge adapters with their payloads, or straight to the wallet
    UnitSize,               \* pips in one unit of the quote token
    ExitFundWithdrawDelay,  \* Constants.EXIT_FUND_WITHDRAW_DELAY_IN_S
    OneDay,                 \* how far in the future timestamps may lie
    FundingPeriod,          \* Constants.FUNDING_PERIOD_IN_MS
    MaxFeeMultiplier,       \* Constants.MAX_FEE_MULTIPLIER
    QuoteThreshold,         \* Constants.MINIMUM_QUOTE_QUANTITY_VALIDATION_THRESHOLD
    DelegateKeyPeriod,      \* delegateKeyExpirationPeriodInMs
    NoOverride              \* a market's default fields apply to the wallet

VARIABLES
    ledger,                    \* _balanceTracking and the open position lists
    pendingDepositQuantity,    \* pips deposited and not yet applied
    custodianBalance,          \* token units the Custodian holds
    depositIndex, isDepositEnabled,
    walletExits,
    exitFundWallet, exitFundPositionOpenedAt,
    markets, marketFields, overrides,
    oraclePrice,               \* of the on-chain Oracle Price Adapter
    history,                   \* the funding multipliers of each market
    partiallyFilled, completedOrders,
    completedTransfers, completedWithdrawals,
    nonceInvalidations,
    chainPropagationPeriod,
    now                        \* block.timestamp

custodyVars == <<pendingDepositQuantity, custodianBalance, depositIndex, isDepositEnabled>>
fundVars    == <<exitFundWallet, exitFundPositionOpenedAt>>
marketVars  == <<markets, marketFields, overrides, oraclePrice, history>>
requestVars == <<partiallyFilled, completedOrders, completedTransfers, completedWithdrawals>>
clockVars   == <<chainPropagationPeriod, now>>

vars == <<ledger, custodyVars, walletExits, fundVars, marketVars, requestVars,
          nonceInvalidations, clockVars>>

\* The value of an unset deposit index, and of an order without a delegated key.
DepositIndexNotSet == -1
NoDelegatedKey     == -1

-----------------------------------------------------------------------------
(* Types. *)

Order == [wallet : Wallets, side : {"Buy", "Sell"}, market : Markets,
          quantity : Nat, limitPrice : Nat,           \* 0 for a market order
          timeInForce : {"gtc", "gtx", "ioc", "fok"},
          isReduceOnly : BOOLEAN, isLiquidationAcquisitionOnly : BOOLEAN,
          nonce : Nat,                                \* the time in the order's UUID
          details : OrderDetails,
          delegatedKey : Nat \cup {NoDelegatedKey}]   \* when its key was authorized

\* Mutant of OrderHash: every authorization makes another order.
OrderWithKey(o) == o

\* The hash covers the delegated key, but not when it was authorized, nor that
\* it signed: an order submitted under two authorizations is the same order.
OrderHash(o) == [o EXCEPT !.delegatedKey = NoDelegatedKey]

OrderHashes == {OrderHash(o) : o \in Orders}

Transfer == [source : Wallets, destination : Wallets, grossQuantity : Nat, nonce : Nat]

Withdrawal == [wallet : Wallets, grossQuantity : Nat, maximumGasFee : Nat, nonce : Nat,
               route : WithdrawalRoutes]

WalletExit == [exists : BOOLEAN, effectiveAt : Nat,
               strategy : {"None", "ExitPrice", "BankruptcyPrice"}]

NoExit == [exists |-> FALSE, effectiveAt |-> 0, strategy |-> "None"]

Market == [isActive : BOOLEAN, indexPrice : Nat, indexPriceAt : Nat, priceAtDeactivation : Nat]

NonceInvalidation == [timestamp : Nat, effectiveAt : Nat]

ASSUME RequestAssumption ==
    /\ Orders \subseteq Order
    /\ Transfers \subseteq Transfer
    /\ Withdrawals \subseteq Withdrawal

ASSUME ParameterAssumption ==
    /\ InsuranceFund \in Wallets /\ FeeWallet \in Wallets
    /\ UnitSize \in Nat \ {0} /\ FundingPeriod \in Nat \ {0}
    /\ ExitFundWithdrawDelay \in Nat /\ OneDay \in Nat
    /\ MaxFeeMultiplier \in Nat /\ QuoteThreshold \in Nat /\ DelegateKeyPeriod \in Nat
    /\ NoOverride \notin MarketFields

TypeOK ==
    /\ ledger \in Ledger
    /\ pendingDepositQuantity \in [Wallets -> Nat]
    /\ custodianBalance \in Nat
    /\ depositIndex \in Nat \cup {DepositIndexNotSet}
    /\ isDepositEnabled \in BOOLEAN
    /\ walletExits \in [Wallets -> WalletExit]
    /\ exitFundWallet \in Wallets
    /\ exitFundPositionOpenedAt \in Nat
    /\ markets \in [Markets -> Market]
    /\ marketFields \in [Markets -> MarketFields]
    /\ overrides \in [Markets -> [Wallets -> MarketFields \cup {NoOverride}]]
    /\ oraclePrice \in [Markets -> Nat \ {0}]
    /\ history \in [Markets -> Seq(Int)]
    /\ partiallyFilled \in [OrderHashes -> Nat]
    /\ completedOrders \subseteq OrderHashes
    /\ completedTransfers \subseteq Transfers
    /\ completedWithdrawals \subseteq Withdrawals
    /\ nonceInvalidations \in [Wallets -> Seq(NonceInvalidation)]
    /\ chainPropagationPeriod \in Nat
    /\ now \in Nat

-----------------------------------------------------------------------------
(* What the handlers share. *)

ExitFundHasPositions == ledger.open[exitFundWallet] # {}

\* Mutant of IsExitFinalized: final only after the effective time.
IsExitOverdue(w) == walletExits[w].exists /\ walletExits[w].effectiveAt < now

IsExitFinalized(w) == walletExits[w].exists /\ walletExits[w].effectiveAt <= now

\* Mutant of LastInvalidated: a pending invalidation suspends the one before.
LastInvalidatedUnlessPending(w) ==
    LET s == nonceInvalidations[w]
        n == Len(s)
    IN  IF n > 0 /\ s[n].effectiveAt <= now THEN s[n].timestamp ELSE 0

\* A second, pending invalidation leaves the one before it in force.
LastInvalidated(w) ==
    LET s == nonceInvalidations[w]
        n == Len(s)
    IN  IF n > 0 /\ s[n].effectiveAt <= now THEN s[n].timestamp
        ELSE IF n > 1 THEN s[n - 1].timestamp
        ELSE 0

IsFeeQuantityValid(fee, total) ==
    /\ total > 0
    /\ MultiplyPipsByFraction(fee, PipMultiplier, total) <= MaxFeeMultiplier

\* Per market: the index price, the wallet's fields, the last funding period.
IndexPrice == [m \in Markets |-> markets[m].indexPrice]

FieldsFor(w) ==
    [m \in Markets |-> IF overrides[m][w] = NoOverride THEN marketFields[m]
                                                       ELSE overrides[m][w]]

\* Mutant of Published: off by one period.
PublishedBefore == [m \in Markets |-> Len(history[m]) - 1]

Published == [m \in Markets |-> Len(history[m])]

\* The ledger with the wallet's outstanding funding settled.
Funded(l, w) == ApplyOutstandingWalletFunding(l, w, history)

\* Mutant of NextExitFundPositionOpenedAt: an Exit Fund in debt stops it.
ClockStoppedByDebt(l) ==
    IF exitFundPositionOpenedAt = 0 /\ l.open[exitFundWallet] # {} THEN now
    ELSE IF exitFundPositionOpenedAt > 0 /\ l.quote[exitFundWallet] <= 0 THEN 0
    ELSE exitFundPositionOpenedAt

\* Exit Fund clock after a change of the ledger to l: it starts with the first
\* position and stops when neither a position nor positive quote is left.
NextExitFundPositionOpenedAt(l) ==
    LET hasPosition == l.open[exitFundWallet] # {}
        hasQuote    == l.quote[exitFundWallet] > 0
    IN  IF exitFundPositionOpenedAt = 0 /\ hasPosition THEN now
        ELSE IF exitFundPositionOpenedAt > 0 /\ ~hasPosition /\ ~hasQuote THEN 0
        ELSE exitFundPositionOpenedAt

ExitFundWithdrawDelayElapsed == now >= exitFundPositionOpenedAt + ExitFundWithdrawDelay

===============================================================================
