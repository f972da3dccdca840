------------------------------- MODULE MCTrading -------------------------------
(***************************************************************************)
(* Trades, nonce invalidations and wallet exits racing each other, with    *)
(* margin that changes under the orders' feet.                             *)
(***************************************************************************)
EXTENDS MCExchange

\* Alice may buy, then sell more than she bought with a delegated key she has
\* authorized twice; Bob, who is short, may sell more or only reduce.  The Insurance Fund, long from
\* a liquidation, reduces against an order of Alice's made for that.
MCOrders ==
    {Signed(Alice, "Buy", 20, 11, 3),
     [Signed(Alice, "Sell", 30, 0, 4) EXCEPT !.timeInForce = "ioc", !.delegatedKey = 3],
     [Signed(Alice, "Sell", 30, 0, 4) EXCEPT !.timeInForce = "ioc", !.delegatedKey = 2],
     [Signed(Bob, "Sell", 10, 9, 3) EXCEPT !.timeInForce = "gtx"],
     [Signed(Bob, "Buy", 20, 0, 4) EXCEPT !.isReduceOnly = TRUE],
     [Signed(InsuranceFund, "Sell", 10, 0, 4) EXCEPT
        !.isReduceOnly = TRUE, !.isLiquidationAcquisitionOnly = TRUE, !.delegatedKey = 3],
     [Signed(Alice, "Buy", 10, 0, 4) EXCEPT !.isLiquidationAcquisitionOnly = TRUE]}

MCLedger == SeedTrade(Funds, InsuranceFund, Bob, 1, 10, 10)

MCFieldOptions == {StricterFields}
MCMakerFees == {-1, 1}

\* The nonces of Alice's orders, and of keys and orders of both, are at 3 and 4.
MCNext ==
    \/ \E buy, sell \in Orders, base \in BaseQuantities, quote \in QuoteQuantities,
          makerSide \in {"Buy", "Sell"}, makerFee \in MakerFees, takerFee \in TakerFees :
          ExecuteTrade([market |-> buy.market, base |-> base, quote |-> quote,
                        makerSide |-> makerSide, makerFee |-> makerFee, takerFee |-> takerFee],
                       buy, sell)
    \/ \E timestamp \in NonceTimes : InvalidateNonce(Alice, timestamp)
    \/ \E price \in IndexPrices : PublishIndexPrice(1, price, now)
    \/ \E fields \in FieldOptions : SetMarketOverrides(1, fields, Alice)
    \/ UnsetMarketOverridesForWallet(1, Alice)
    \/ \E period \in PropagationPeriods : SetChainPropagationPeriod(period)
    \/ Tick

TradingSpec == Init /\ [][MCNext]_vars

===============================================================================
