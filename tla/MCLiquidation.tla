------------------------------ MODULE MCLiquidation ------------------------------
(***************************************************************************)
(* Liquidation and deleveraging in normal operation: prices move, margin   *)
(* requirements change, wallets exit, the market is deactivated and        *)
(* activated again, and every way of closing a position competes for the   *)
(* same two positions and the Insurance Fund's capacity.                   *)
(***************************************************************************)
EXTENDS MCExchange

MCRoundings == {-1, 0}

\* The Insurance Fund may be limited to small positions.
MCFieldOptions == {StricterFields}

Users == {Alice, Bob}

LiquidationSpecNext ==
    \/ \E w \in Users, rounding \in [Markets -> Roundings] :
          LiquidateWalletInMaintenance(w, rounding)
    \/ \E w \in Users, rounding \in [Markets -> Roundings] : LiquidateWalletExit(w, rounding)
    \/ \E w \in Users, quote \in LiquidationQuotes : LiquidatePositionBelowMinimum(w, 1, quote)
    \/ \E w \in Users, quote \in LiquidationQuotes, fee \in LiquidationFees :
          LiquidatePositionInDeactivatedMarket(w, 1, quote, fee)
    \/ \E w, counterparty \in Users, base \in DeleverageQuantities, quote \in DeleverageQuotes :
          DeleverageInMaintenanceAcquisition(w, counterparty, 1, base, quote)
    \/ \E w, counterparty \in Users, base \in DeleverageQuantities, quote \in DeleverageQuotes :
          DeleverageExitAcquisition(w, counterparty, 1, base, quote)
    \/ \E counterparty \in Users, base \in DeleverageQuantities, quote \in DeleverageQuotes :
          DeleverageInsuranceFundClosure(counterparty, 1, base, quote)
    \/ ExitWallet(Alice)
    \/ ActivateMarket(1)
    \/ DeactivateMarket(1)
    \/ \E price \in IndexPrices : PublishIndexPrice(1, price, now)
    \/ \E fields \in FieldOptions : SetMarketOverrides(1, fields, InsuranceFund)
    \/ \E fields \in FieldOptions : SetMarketDefaults(1, fields)
    \/ UnsetMarketOverridesForWallet(1, InsuranceFund)
    \/ Tick

LiquidationSpec == Init /\ [][LiquidationSpecNext]_vars

===============================================================================
