-------------------------------- MODULE MCClaims --------------------------------
(***************************************************************************)
(* A market is deactivated, some of its positions are closed, and it is    *)
(* activated again: what the README says of markets does not hold then.    *)
(***************************************************************************)
EXTENDS MCExchange

MarketNext ==
    \/ ActivateMarket(1) \/ DeactivateMarket(1)
    \/ \E w \in {Alice, Bob}, quote \in LiquidationQuotes :
          LiquidatePositionInDeactivatedMarket(w, 1, quote, 1)
    \/ Tick

MarketSpec == Init /\ [][MarketNext]_vars

-----------------------------------------------------------------------------
\* Invariant.  "Total long and short position quantities are always equal within
\* a market" (README.md:110), while it is active.
LongsEqualShorts == \A m \in Markets : markets[m].isActive => PositionSum(ledger, m) = 0

===============================================================================
