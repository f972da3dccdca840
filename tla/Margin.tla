-------------------------------- MODULE Margin --------------------------------
(***************************************************************************)
(* Account values and margin requirements: libraries MarketHelper,         *)
(* IndexPriceMargin and OraclePriceMargin.  The two margin libraries run   *)
(* the same loops over a wallet's open positions; they differ in where the *)
(* price of a market comes from, so the price is a parameter here.         *)
(***************************************************************************)
EXTENDS BalanceTracking

\* The overridable fields of a market that margin depends on.
MarketFields == [initialMarginFraction : Nat,
                 maintenanceMarginFraction : Nat \ {0},
                 incrementalInitialMarginFraction : Nat,
                 baselinePositionSize : Nat,
                 incrementalPositionSize : Nat \ {0},
                 maximumPositionSize : Nat,
                 minimumPositionSize : Nat]

\* Large positions need more initial margin, in increments.
InitialMarginFraction(fields, positionSize) ==
    IF Abs(positionSize) <= fields.baselinePositionSize
    THEN fields.initialMarginFraction
    ELSE fields.initialMarginFraction
           + DivideRoundUp(Abs(positionSize) - fields.baselinePositionSize,
                           fields.incrementalPositionSize)
             * fields.incrementalInitialMarginFraction

MarginRequirement(fraction, price, positionSize) ==
    QuoteValue(QuoteValue(Abs(positionSize), price), fraction)

\* Sum of value[m] over the wallet's open markets.
OverOpen(l, w, value) ==
    SumTo([m \in Markets |-> IF m \in l.open[w] THEN value[m] ELSE 0], NumMarkets)

-----------------------------------------------------------------------------
(* price[m] is the index or oracle price of market m; fields[m] are the    *)
(* market's fields as overridden for the wallet.                           *)

TotalAccountValue(l, w, price) ==
    l.quote[w] + OverOpen(l, w, [m \in Markets |->
                                   QuoteValue(l.position[w][m].balance, price[m])])

TotalInitialMarginRequirement(l, w, price, fields) ==
    OverOpen(l, w, [m \in Markets |->
        MarginRequirement(InitialMarginFraction(fields[m], l.position[w][m].balance),
                          price[m], l.position[w][m].balance)])

TotalMaintenanceMarginRequirement(l, w, price, fields) ==
    OverOpen(l, w, [m \in Markets |->
        MarginRequirement(fields[m].maintenanceMarginFraction,
                          price[m], l.position[w][m].balance)])

MeetsInitialMargin(l, w, price, fields) ==
    TotalAccountValue(l, w, price) >= TotalInitialMarginRequirement(l, w, price, fields)

MeetsMaintenanceMargin(l, w, price, fields) ==
    TotalAccountValue(l, w, price) >= TotalMaintenanceMarginRequirement(l, w, price, fields)

\* Without rounding: in double and triple pips.
TotalAccountValueInDoublePips(l, w, price) ==
    l.quote[w] * PipMultiplier
      + OverOpen(l, w, [m \in Markets |-> l.position[w][m].balance * price[m]])

TotalMaintenanceMarginRequirementInTriplePips(l, w, price, fields) ==
    OverOpen(l, w, [m \in Markets |->
        Abs(l.position[w][m].balance) * price[m] * fields[m].maintenanceMarginFraction])

\* Liquidatable: both totals are rounded to pips only when they are compared.
IsInMaintenance(l, w, price, fields) ==
    TruncDiv(TotalAccountValueInDoublePips(l, w, price), PipMultiplier)
      < (TotalMaintenanceMarginRequirementInTriplePips(l, w, price, fields) \div PipMultiplier)
          \div PipMultiplier

\* The account value with each position at the worse of entry and current price.
TotalExitAccountValue(l, w, price) ==
    l.quote[w] + OverOpen(l, w, [m \in Markets |->
        LET p     == l.position[w][m]
            quote == QuoteQuantityAtExitPrice(p.costBasis, price[m], p.balance)
        IN  IF p.balance < 0 THEN -quote ELSE quote])

\* The quote quantity at which base, signed like the wallet's position in market
\* m, is closed at the bankruptcy price.
BankruptcyQuoteQuantity(l, w, m, base, price, fields) ==
    QuoteQuantityAtBankruptcyPrice(
      price[m], fields[m].maintenanceMarginFraction, base,
      TotalAccountValueInDoublePips(l, w, price),
      TotalMaintenanceMarginRequirementInTriplePips(l, w, price, fields))

BankruptcyQuoteQuantities(l, w, price, fields) ==
    [m \in Markets |->
       BankruptcyQuoteQuantity(l, w, m, l.position[w][m].balance, price, fields)]

\* Mutant of ExitQuoteQuantities: an insolvent wallet exits like any other.
QuotesAtExitPriceOnly(l, w, price, fields) ==
    [m \in Markets |-> QuoteQuantityAtExitPrice(l.position[w][m].costBasis, price[m],
                                                l.position[w][m].balance)]

\* What an exiting wallet gets for its position in each market.
ExitQuoteQuantities(l, w, price, fields) ==
    IF TotalExitAccountValue(l, w, price) <= 0
    THEN BankruptcyQuoteQuantities(l, w, price, fields)
    ELSE [m \in Markets |->
            LET p == l.position[w][m]
            IN  QuoteQuantityAtExitPrice(p.costBasis, price[m], p.balance)]

===============================================================================
