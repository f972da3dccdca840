------------------------------ MODULE Deleveraging ------------------------------
(***************************************************************************)
(* Automatic deleveraging: libraries WalletInMaintenanceAcquisition-,      *)
(* WalletExitAcquisition- and ClosureDeleveraging.  When a fund cannot or  *)
(* should not hold a position, the dispatcher closes part of it against    *)
(* the opposing position of a counterparty wallet.                         *)
(***************************************************************************)
EXTENDS ExchangeState

CONSTANTS
    DeleverageQuantities,     \* base quantities the dispatcher may close
    DeleverageQuotes          \* quote quantities the dispatcher may submit

ASSUME DeleveragingAssumption ==
    /\ DeleverageQuantities \subseteq Nat \ {0} /\ DeleverageQuotes \subseteq Nat

FundedForDeleverage(w, counterparty) == Funded(Funded(ledger, counterparty), w)

\* The base quantity with the sign of the wallet's position.
SignedBase(l, w, m, base) == IF l.position[w][m].balance < 0 THEN -base ELSE base

\* Common to all: both positions shrink toward zero and the counterparty still
\* meets its maintenance requirement.
Deleverage(w, counterparty, m, base, quote) ==
    LET funded == FundedForDeleverage(w, counterparty)
        after  == UpdatePositionsForDeleverage(funded, w, counterparty, m, base, quote, Published)
    IN  /\ w # counterparty
        /\ counterparty \notin {exitFundWallet, InsuranceFund}
        /\ markets[m].isActive /\ m \in ledger.open[w]
        /\ \A x \in {w, counterparty} :
              UpdatedTowardsZero(funded.position[x][m].balance, after.position[x][m].balance)
        /\ MeetsMaintenanceMargin(after, counterparty, IndexPrice, FieldsFor(counterparty))
        /\ ledger' = after

DeleverageInMaintenanceAcquisition(w, counterparty, m, base, quote) ==
    LET funded == FundedForDeleverage(w, counterparty)
    IN  /\ ~ExitFundHasPositions
        /\ w \notin {exitFundWallet, InsuranceFund}
        /\ IsInMaintenance(funded, w, IndexPrice, FieldsFor(w))
        /\ quote \in WithinOnePip(
             BankruptcyQuoteQuantity(funded, w, m, SignedBase(funded, w, m, base),
                                     IndexPrice, FieldsFor(w)))
        /\ Deleverage(w, counterparty, m, base, quote)
        /\ UNCHANGED <<custodyVars, walletExits, fundVars, marketVars, requestVars,
                       nonceInvalidations, clockVars>>

\* Mutant of NextStrategy: chosen anew each time.
StrategyByValue(w, exitAccountValue) ==
    IF exitAccountValue <= 0 THEN "BankruptcyPrice" ELSE "ExitPrice"

\* Once the bankruptcy price is chosen for an exit, it stays.
NextStrategy(w, exitAccountValue) ==
    IF walletExits[w].strategy = "BankruptcyPrice" \/ exitAccountValue <= 0
    THEN "BankruptcyPrice"
    ELSE "ExitPrice"

\* The price of the closed part: its share of the cost basis, or bankruptcy.
ExitAcquisitionQuote(l, w, m, base, strategy) ==
    LET p      == l.position[w][m]
        signed == SignedBase(l, w, m, base)
    IN  IF strategy = "ExitPrice"
        THEN QuoteQuantityAtExitPrice(
               MultiplyPipsByFraction(p.costBasis, signed, Abs(p.balance)),
               markets[m].indexPrice, signed)
        ELSE BankruptcyQuoteQuantity(l, w, m, signed, IndexPrice, FieldsFor(w))

DeleverageExitAcquisition(w, counterparty, m, base, quote) ==
    LET funded   == FundedForDeleverage(w, counterparty)
        strategy == NextStrategy(w, TotalExitAccountValue(funded, w, IndexPrice))
    IN  /\ ~ExitFundHasPositions
        /\ walletExits[w].exists
        /\ Deleverage(w, counterparty, m, base, quote)
        /\ quote \in WithinOnePip(ExitAcquisitionQuote(funded, w, m, base, strategy))
        /\ walletExits' = [walletExits EXCEPT ![w].strategy = strategy]
        /\ UNCHANGED <<custodyVars, fundVars, marketVars, requestVars, nonceInvalidations,
                       clockVars>>

\* The Insurance Fund gives up a position at its entry price.
DeleverageInsuranceFundClosure(counterparty, m, base, quote) ==
    LET funded == FundedForDeleverage(InsuranceFund, counterparty)
        p      == funded.position[InsuranceFund][m]
    IN  /\ ~ExitFundHasPositions
        /\ Deleverage(InsuranceFund, counterparty, m, base, quote)
        /\ quote \in WithinOnePip(QuoteQuantityForInsuranceFundClosure(base, p.costBasis, p.balance))
        /\ UNCHANGED <<custodyVars, walletExits, fundVars, marketVars, requestVars,
                       nonceInvalidations, clockVars>>

\* The markets' own fields apply to the Exit Fund, whose margin fraction is zero.
IsExitFundClosureQuoteValid(l, m, base, quote) ==
    LET size     == l.position[exitFundWallet][m].balance
        fields   == marketFields
        expected == QuoteQuantityForExitFundClosure(
                      markets[m].indexPrice, fields[m].maintenanceMarginFraction,
                      SignedBase(l, exitFundWallet, m, base),
                      TotalAccountValueInDoublePips(l, exitFundWallet, IndexPrice),
                      TotalMaintenanceMarginRequirementInTriplePips(
                        l, exitFundWallet, IndexPrice, fields))
    IN  \/ quote \in WithinOnePip(expected)
        \/ /\ Abs(size) < fields[m].minimumPositionSize
           /\ expected < QuoteThreshold /\ quote < QuoteThreshold

\* The way out of recovery: the Exit Fund's positions are closed one by one.
DeleverageExitFundClosure(counterparty, m, base, quote) ==
    /\ ExitFundHasPositions
    /\ Deleverage(exitFundWallet, counterparty, m, base, quote)
    /\ IsExitFundClosureQuoteValid(FundedForDeleverage(exitFundWallet, counterparty), m, base, quote)
    /\ exitFundPositionOpenedAt' = NextExitFundPositionOpenedAt(ledger')
    /\ UNCHANGED <<custodyVars, walletExits, exitFundWallet, marketVars, requestVars,
                   nonceInvalidations, clockVars>>

DeleveragingNext ==
    \E counterparty \in Wallets, m \in Markets, base \in DeleverageQuantities,
       quote \in DeleverageQuotes :
        \/ \E w \in Wallets : DeleverageInMaintenanceAcquisition(w, counterparty, m, base, quote)
        \/ \E w \in Wallets : DeleverageExitAcquisition(w, counterparty, m, base, quote)
        \/ DeleverageInsuranceFundClosure(counterparty, m, base, quote)
        \/ DeleverageExitFundClosure(counterparty, m, base, quote)

===============================================================================
