-------------------------------- MODULE MCOrders --------------------------------
(***************************************************************************)
(* Orders signed with the client library by wallets and by a delegated key *)
(* that several wallets authorize, more than once, and submitted with any  *)
(* signature and authorization.                                            *)
(***************************************************************************)
EXTENDS MCExchange, SignedRequests

Key == 11

\* Four UUIDs share a time here.
UuidAt(time) == Uuid(4 * time)

\* Only what has to be given.
OrderOf(wallet, side, type, market, quantity, price) ==
    [nonce |-> UuidAt(4), wallet |-> wallet, market |-> <<market, "USD">>, type |-> type, side |-> side,
     quantity |-> Canonical(quantity), price |-> price,
     triggerPrice |-> Undefined, triggerType |-> Undefined, callbackRate |-> Undefined,
     conditionalOrderId |-> Undefined, isReduceOnly |-> Undefined, timeInForce |-> Undefined,
     selfTradePrevention |-> Undefined, isLiquidationAcquisitionOnly |-> Undefined,
     delegatedPublicKey |-> Undefined, clientOrderId |-> Undefined]

AliceBuys == [OrderOf(Alice, OrderSide.Buy, OrderType.Market, 1, 20, Undefined)
                EXCEPT !.delegatedPublicKey = Key, !.clientOrderId = "mine"]

BobSells == [OrderOf(Bob, OrderSide.Sell, OrderType.Limit, 1, 40, Canonical(9))
                EXCEPT !.timeInForce = OrderTimeInForce.GTX]

\* For another market, where nobody sells.
AliceBuysElsewhere == OrderOf(Alice, OrderSide.Buy, OrderType.Limit, 2, 20, Canonical(11))

MCOrderRequests == {AliceBuys, BobSells, AliceBuysElsewhere}

\* The same key, authorized twice.
MCAuthorizations == {[nonce |-> UuidAt(time), delegatedPublicKey |-> Key] : time \in {2, 3}}

MCTrade == [baseAssetSymbol |-> "base", baseQuantity |-> Text(1, 0), quoteQuantity |-> Canonical(10),
            makerFeeQuantity |-> Text(-1, 1), takerFeeQuantity |-> Text(18, 2),
            price |-> Canonical(10), makerSide |-> OrderSide.Sell]

MCTrades == {MCTrade, [MCTrade EXCEPT !.baseQuantity = Text(2, 0), !.quoteQuantity = Canonical(20)]}

MCBaseQuantities  == {decimalToPips(t.baseQuantity) : t \in TradeTexts}
MCQuoteQuantities == {decimalToPips(t.quoteQuantity) : t \in TradeTexts}
MCMakerFees       == {decimalToPips(t.makerFeeQuantity) : t \in TradeTexts}
MCTakerFees       == {decimalToPips(t.takerFeeQuantity) : t \in TradeTexts}

\* Every order as every market, signer and authorization would make it.
Structs ==
    {orderToArgumentStruct(o, NoSignature, a) : o \in OrderRequests,
        a \in {Undefined} \cup {Unsigned(r) : r \in AuthorizationRequests}}

MCOrderSet == {AsOrder(struct, m) : struct \in {x \in Structs : IsOrderEncodable(x)}, m \in Markets}

MCOrderDetails == {o.details : o \in MCOrderSet}

MCFunds == Deposits(<<0, 0, 0, 40, 40>>)

\* Bob also authorizes the key, and signs his order for another exchange.
MCSign ==
    \/ \E a \in AuthorizationRequests : Sign(Alice, DelegatedKeyAuthorizationTypedData(a, DomainSeparator))
    \/ \E a \in {x \in AuthorizationRequests : x.nonce = UuidAt(2)} :
          Sign(Bob, DelegatedKeyAuthorizationTypedData(a, DomainSeparator))
    \/ \E o \in OrderRequests :
          \E signer \in {o.wallet} \cup ({o.delegatedPublicKey} \cap DelegatedKeys) :
              Sign(signer, OrderTypedData(o, DomainSeparator))
    \/ \E domain \in Domains : Sign(Bob, OrderTypedData(BobSells, domain))

OrdersNext ==
    \/ MCSign
    \/ \E baseSymbol \in Markets : \E buy, sell \in Sides(baseSymbol), trade \in TradeTexts :
          SubmitTrade(baseSymbol, buy, sell, trade)
    \/ \E timestamp \in NonceTimes : InvalidateNonce(Alice, timestamp) /\ UNCHANGED signatures

===============================================================================
