------------------------------ MODULE MCOrderClaims ------------------------------
(***************************************************************************)
(* What the client library and the contract are meant to agree on, and do  *)
(* not: which price triggers an order.                                     *)
(***************************************************************************)
EXTENDS MCOrders

BobWaits == OrderOf(Bob, OrderSide.Sell, OrderType.Limit, 1, 20, Canonical(10))

\* Alice buys when the index price has reached 9.
AliceIsTriggered ==
    [OrderOf(Alice, OrderSide.Buy, OrderType.StopLossMarket, 1, 20, Undefined)
        EXCEPT !.triggerPrice = Canonical(9), !.triggerType = OrderTriggerType.Index]

TriggerRequests == {BobWaits, AliceIsTriggered}

ClaimsNext ==
    \/ \E o \in OrderRequests : Sign(o.wallet, OrderTypedData(o, DomainSeparator))
    \/ \E baseSymbol \in Markets : \E buy, sell \in Sides(baseSymbol), trade \in TradeTexts :
          SubmitTrade(baseSymbol, buy, sell, trade)

ClaimsSpec == SignedInit /\ [][ClaimsNext]_signedVars

NameOf(triggerType) == CHOOSE name \in DOMAIN OrderTriggerType : OrderTriggerType[name] = triggerType

\* Invariant.  An order is settled as triggered by the price its client chose:
\* the last trade price, or the index price (Enums.sol, OrderTriggerType).
TriggersAreAsChosen ==
    \A o \in OrderRequests :
        LET signature == Signature(o.wallet, OrderTypedData(o, DomainSeparator))
            h == OrderHash(AsOrder(orderToArgumentStruct(o, signature, Undefined), o.market[1]))
        IN  signature \in signatures /\ o.triggerType # Undefined /\ Filled(h) > 0 =>
                OrderTriggerTypes[h.details.triggerType + 1] = NameOf(o.triggerType)

===============================================================================
