------------------------------ MODULE Liquidation ------------------------------
(***************************************************************************)
(* Liquidations by the dispatcher: libraries WalletInMaintenanceLiquidation,*)
(* WalletExitLiquidation, PositionBelowMinimumLiquidation and              *)
(* PositionInDeactivatedMarketLiquidation.  The Insurance Fund, or during  *)
(* recovery the Exit Fund, takes on what is liquidated; the dispatcher     *)
(* submits the quote quantities and the contract checks them.              *)
(***************************************************************************)
EXTENDS ExchangeState

CONSTANTS
    Roundings,                \* by how many pips submitted quantities are off
    LiquidationQuotes,        \* quote quantities submitted for single positions
    LiquidationFees,          \* fees for positions in deactivated markets
    BelowMinimumTolerance     \* positionBelowMinimumLiquidationPriceToleranceMultiplier

ASSUME LiquidationAssumption ==
    /\ Roundings \subseteq {-1, 0, 1}
    /\ LiquidationQuotes \subseteq Nat /\ LiquidationFees \subseteq Nat
    /\ BelowMinimumTolerance \in Nat

\* Mutant of CanTakeOn: no maximum size for any acquirer.
CanTakeOnAnySize(l, acquirer, m, delta) == TRUE

\* Only the Exit Fund may hold positions beyond the maximum size.
CanTakeOn(l, acquirer, m, delta) ==
    acquirer # exitFundWallet =>
        LET size == l.position[acquirer][m].balance
        IN  BelowMaximumOrReduced(size, size + delta, FieldsFor(acquirer)[m].maximumPositionSize)

CanTakeOnAll(l, w, acquirer) ==
    \A m \in l.open[w] :
        /\ markets[m].isActive
        /\ CanTakeOn(l, acquirer, m, l.position[w][m].balance)

Submitted(expected, rounding) == [m \in Markets |-> expected[m] + rounding[m]]

AreQuotesValid(l, w, expected, quoteFor) ==
    \A m \in l.open[w] : quoteFor[m] \in WithinOnePip(expected[m])

-----------------------------------------------------------------------------
(* Whole wallets. *)

\* Everything the wallet has goes to the counterparty at the bankruptcy price,
\* the quote that rounding leaves included.
LiquidateAtBankruptcyPrice(w, counterparty, rounding) ==
    LET funded   == Funded(Funded(ledger, w), counterparty)
        expected == BankruptcyQuoteQuantities(funded, w, IndexPrice, FieldsFor(w))
        quoteFor == Submitted(expected, rounding)
        closed   == UpdatePositionsForLiquidation(funded, w, counterparty, quoteFor, Published)
    IN  /\ w \notin {exitFundWallet, InsuranceFund}
        /\ IsInMaintenance(funded, w, IndexPrice, FieldsFor(w))
        /\ CanTakeOnAll(funded, w, counterparty)
        /\ AreQuotesValid(funded, w, expected, quoteFor)
        /\ ledger' = UpdateRemainingQuoteAfterLiquidation(closed, w, counterparty)

LiquidateWalletInMaintenance(w, rounding) ==
    /\ ~ExitFundHasPositions
    /\ LiquidateAtBankruptcyPrice(w, InsuranceFund, rounding)
    /\ MeetsInitialMargin(ledger', InsuranceFund, IndexPrice, FieldsFor(InsuranceFund))
    /\ UNCHANGED <<custodyVars, walletExits, fundVars, marketVars, requestVars,
                   nonceInvalidations, clockVars>>

LiquidateWalletInMaintenanceDuringSystemRecovery(w, rounding) ==
    /\ ExitFundHasPositions
    /\ LiquidateAtBankruptcyPrice(w, exitFundWallet, rounding)
    /\ exitFundPositionOpenedAt' = NextExitFundPositionOpenedAt(ledger')
    /\ UNCHANGED <<custodyVars, walletExits, exitFundWallet, marketVars, requestVars,
                   nonceInvalidations, clockVars>>

\* The positions of an exited wallet.  Quote is swept only at the bankruptcy
\* price: a solvent wallet keeps its quote to withdraw.
LiquidateWalletExit(w, rounding) ==
    LET funded   == Funded(Funded(ledger, w), InsuranceFund)
        expected == ExitQuoteQuantities(funded, w, IndexPrice, FieldsFor(w))
        quoteFor == Submitted(expected, rounding)
        closed   == UpdatePositionsForLiquidation(funded, w, InsuranceFund, quoteFor, Published)
        after    == IF TotalExitAccountValue(funded, w, IndexPrice) <= 0
                    THEN UpdateRemainingQuoteAfterLiquidation(closed, w, InsuranceFund)
                    ELSE closed
    IN  /\ ~ExitFundHasPositions
        /\ walletExits[w].exists
        /\ CanTakeOnAll(funded, w, InsuranceFund)
        /\ AreQuotesValid(funded, w, expected, quoteFor)
        /\ MeetsInitialMargin(after, InsuranceFund, IndexPrice, FieldsFor(InsuranceFund))
        /\ ledger' = after
        /\ UNCHANGED <<custodyVars, walletExits, fundVars, marketVars, requestVars,
                       nonceInvalidations, clockVars>>

-----------------------------------------------------------------------------
(* Single positions. *)

\* Near the index price, or anything at all when both values are tiny.
IsBelowMinimumQuoteValid(expected, quote) ==
    LET tolerance == MultiplyPipsByFraction(BelowMinimumTolerance, expected, PipMultiplier)
    IN  \/ expected < QuoteThreshold /\ quote < QuoteThreshold
        \/ expected - tolerance <= quote /\ quote <= expected + tolerance

LiquidatePositionBelowMinimum(w, m, quote) ==
    LET funded == Funded(Funded(ledger, w), InsuranceFund)
        size   == funded.position[w][m].balance
        after  == UpdatePositionsForDeleverage(funded, w, InsuranceFund, m, Abs(size), quote, Published)
    IN  /\ ~ExitFundHasPositions
        /\ w \notin {exitFundWallet, InsuranceFund}
        /\ markets[m].isActive /\ m \in ledger.open[w]
        /\ Abs(size) < FieldsFor(w)[m].minimumPositionSize
        /\ IsBelowMinimumQuoteValid(QuoteValue(Abs(size), markets[m].indexPrice), quote)
        /\ CanTakeOn(funded, InsuranceFund, m, size)
        /\ MeetsInitialMargin(after, InsuranceFund, IndexPrice, FieldsFor(InsuranceFund))
        /\ ledger' = after
        /\ UNCHANGED <<custodyVars, walletExits, fundVars, marketVars, requestVars,
                       nonceInvalidations, clockVars>>

\* Closed without a counterparty, at the price the market was deactivated at.
LiquidatePositionInDeactivatedMarket(w, m, quote, fee) ==
    LET funded == Funded(ledger, w)
        size   == funded.position[w][m].balance
    IN  /\ ~ExitFundHasPositions
        /\ ~markets[m].isActive /\ m \in ledger.open[w]
        /\ quote \in WithinOnePip(QuoteValue(Abs(size), markets[m].priceAtDeactivation))
        /\ IsFeeQuantityValid(fee, quote)
        /\ ledger' = UpdateForDeactivatedMarketLiquidation(funded, w, m, quote, fee, FeeWallet)
        /\ UNCHANGED <<custodyVars, walletExits, fundVars, marketVars, requestVars,
                       nonceInvalidations, clockVars>>

LiquidationNext ==
    \/ \E w \in Wallets, rounding \in [Markets -> Roundings] :
          LiquidateWalletInMaintenance(w, rounding)
    \/ \E w \in Wallets, rounding \in [Markets -> Roundings] :
          LiquidateWalletInMaintenanceDuringSystemRecovery(w, rounding)
    \/ \E w \in Wallets, rounding \in [Markets -> Roundings] : LiquidateWalletExit(w, rounding)
    \/ \E w \in Wallets, m \in Markets, quote \in LiquidationQuotes :
          LiquidatePositionBelowMinimum(w, m, quote)
    \/ \E w \in Wallets, m \in Markets, quote \in LiquidationQuotes, fee \in LiquidationFees :
          LiquidatePositionInDeactivatedMarket(w, m, quote, fee)

===============================================================================
