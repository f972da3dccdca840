------------------------------ MODULE MarketAdmin ------------------------------
(***************************************************************************)
(* What happens to markets: libraries MarketAdmin and Funding, the         *)
(* overrides governance sets, and, outside the Exchange, the price of the  *)
(* on-chain oracle and the time.  Index prices and funding rates arrive    *)
(* one by one; a call with several index prices is that many steps.        *)
(***************************************************************************)
EXTENDS ExchangeState

CONSTANTS
    IndexPrices,          \* prices the index price adapters may validate
    OraclePrices,         \* prices the oracle price adapter may return
    FundingRates,
    FieldOptions,         \* the fields governance may set for a market or a wallet
    PropagationPeriods,   \* the chain propagation periods the admin may set
    MaxFundingPeriods,    \* periods settled per applyOutstandingWalletFundingForMarket
    MaxTime               \* bound: block.timestamp

ASSUME MarketAssumption ==
    /\ IndexPrices \subseteq Nat \ {0} /\ OraclePrices \subseteq Nat \ {0}
    /\ FundingRates \subseteq Int /\ FieldOptions \subseteq MarketFields
    /\ PropagationPeriods \subseteq Nat
    /\ MaxFundingPeriods \in Nat /\ MaxTime \in Nat

ActivateMarket(m) ==
    /\ ~ExitFundHasPositions
    /\ ~markets[m].isActive
    /\ markets' = [markets EXCEPT ![m].isActive = TRUE, ![m].priceAtDeactivation = 0]
    /\ UNCHANGED <<ledger, custodyVars, walletExits, fundVars, marketFields, overrides,
                   oraclePrice, history, requestVars, nonceInvalidations, clockVars>>

DeactivateMarket(m) ==
    /\ ~ExitFundHasPositions
    /\ markets[m].isActive
    /\ markets' = [markets EXCEPT ![m].isActive = FALSE,
                                  ![m].priceAtDeactivation = markets[m].indexPrice]
    /\ UNCHANGED <<ledger, custodyVars, walletExits, fundVars, marketFields, overrides,
                   oraclePrice, history, requestVars, nonceInvalidations, clockVars>>

\* Allowed in recovery too: the Exit Fund's positions are closed by these prices.
PublishIndexPrice(m, price, at) ==
    /\ at < now + OneDay
    /\ markets[m].isActive
    /\ markets[m].indexPriceAt < at
    /\ markets' = [markets EXCEPT ![m].indexPrice = price, ![m].indexPriceAt = at]
    /\ UNCHANGED <<ledger, custodyVars, walletExits, fundVars, marketFields, overrides,
                   oraclePrice, history, requestVars, nonceInvalidations, clockVars>>

-----------------------------------------------------------------------------
(* Funding.  Period k of a market starts at time (k - 1) * FundingPeriod.  *)

NextPublishTime(m) == Len(history[m]) * FundingPeriod

\* Periods missed since the last one published, told by the index price's time.
PeriodsToBackfill(m) ==
    IF markets[m].indexPriceAt > NextPublishTime(m) + FundingPeriod \div 2
    THEN DivideRoundNearest(markets[m].indexPriceAt - NextPublishTime(m), FundingPeriod)
    ELSE 0

IsIndexPriceRecent(m) ==
    markets[m].indexPriceAt < NextPublishTime(m) =>
        NextPublishTime(m) - markets[m].indexPriceAt < FundingPeriod \div 2

\* Longs pay a positive rate.
FundingMultiplier(m, rate) == QuoteValue(markets[m].indexPrice, -rate)

PublishFundingMultiplier(m, rate) ==
    /\ ~ExitFundHasPositions
    /\ markets[m].isActive
    /\ Abs(rate) < marketFields[m].maintenanceMarginFraction
    /\ IsIndexPriceRecent(m)
    /\ history' = [history EXCEPT
                     ![m] = @ \o Append([i \in 1..PeriodsToBackfill(m) |-> 0],
                                        FundingMultiplier(m, rate))]
    /\ UNCHANGED <<ledger, custodyVars, walletExits, fundVars, markets, marketFields, overrides,
                   oraclePrice, requestVars, nonceInvalidations, clockVars>>

\* Anyone may settle a bounded part of what one position has outstanding.
ApplyOutstandingWalletFundingForMarket(w, m) ==
    LET p    == ledger.position[w][m]
        last == Smaller(p.lastUpdate + 1 + MaxFundingPeriods, Len(history[m]))
    IN  /\ m \in ledger.open[w]
        /\ ledger' = AddQuote(SetPositions(ledger, w,
                                           [ledger.position[w] EXCEPT ![m] = FundedPosition(p, last)],
                                           ledger.open[w]),
                              w, FundingPayment(p, history[m], last))
        /\ UNCHANGED <<custodyVars, walletExits, fundVars, marketVars, requestVars,
                       nonceInvalidations, clockVars>>

-----------------------------------------------------------------------------
(* Parameters. *)

\* By governance; for one wallet, or as the market's default.
SetMarketOverrides(m, fields, w) ==
    /\ overrides' = [overrides EXCEPT ![m][w] = fields]
    /\ UNCHANGED <<ledger, custodyVars, walletExits, fundVars, markets, marketFields,
                   oraclePrice, history, requestVars, nonceInvalidations, clockVars>>

SetMarketDefaults(m, fields) ==
    /\ marketFields' = [marketFields EXCEPT ![m] = fields]
    /\ UNCHANGED <<ledger, custodyVars, walletExits, fundVars, markets, overrides,
                   oraclePrice, history, requestVars, nonceInvalidations, clockVars>>

UnsetMarketOverridesForWallet(m, w) ==
    /\ overrides[m][w] # NoOverride
    /\ overrides' = [overrides EXCEPT ![m][w] = NoOverride]
    /\ UNCHANGED <<ledger, custodyVars, walletExits, fundVars, markets, marketFields,
                   oraclePrice, history, requestVars, nonceInvalidations, clockVars>>

SetChainPropagationPeriod(period) ==
    /\ chainPropagationPeriod' = period
    /\ UNCHANGED <<ledger, custodyVars, walletExits, fundVars, marketVars, requestVars,
                   nonceInvalidations, now>>

-----------------------------------------------------------------------------
(* The environment. *)

OraclePriceChange(m, price) ==
    /\ oraclePrice[m] # price
    /\ oraclePrice' = [oraclePrice EXCEPT ![m] = price]
    /\ UNCHANGED <<ledger, custodyVars, walletExits, fundVars, markets, marketFields, overrides,
                   history, requestVars, nonceInvalidations, clockVars>>

Tick ==
    /\ now < MaxTime
    /\ now' = now + 1
    /\ UNCHANGED <<ledger, custodyVars, walletExits, fundVars, marketVars, requestVars,
                   nonceInvalidations, chainPropagationPeriod>>

ParameterNext ==
    \/ \E m \in Markets, w \in Wallets, fields \in FieldOptions : SetMarketOverrides(m, fields, w)
    \/ \E m \in Markets, fields \in FieldOptions : SetMarketDefaults(m, fields)
    \/ \E m \in Markets, w \in Wallets : UnsetMarketOverridesForWallet(m, w)
    \/ \E period \in PropagationPeriods : SetChainPropagationPeriod(period)

PriceNext ==
    \/ \E m \in Markets, price \in IndexPrices, at \in 0..(now + OneDay) :
          PublishIndexPrice(m, price, at)
    \/ \E m \in Markets, price \in OraclePrices : OraclePriceChange(m, price)

FundingNext ==
    \/ \E m \in Markets, rate \in FundingRates : PublishFundingMultiplier(m, rate)
    \/ \E w \in Wallets, m \in Markets : ApplyOutstandingWalletFundingForMarket(w, m)

MarketAdminNext ==
    \/ \E m \in Markets : ActivateMarket(m)
    \/ \E m \in Markets : DeactivateMarket(m)
    \/ PriceNext
    \/ FundingNext
    \/ ParameterNext

===============================================================================
