-------------------------------- MODULE Trading --------------------------------
(***************************************************************************)
(* Settlement of trades matched off-chain: libraries Trading and           *)
(* TradeValidations, with the invalidation of order nonces that bounds     *)
(* which orders may still be settled (NonceInvalidations).                 *)
(*                                                                         *)
(* Signatures are abstracted by the constant Orders: only a signed order   *)
(* can be submitted, and an order without its authorization is its own     *)
(* hash.  SignedRequests has the signatures and the trigger fields.        *)
(***************************************************************************)
EXTENDS ExchangeState

CONSTANTS
    BaseQuantities, QuoteQuantities,   \* what the dispatcher may settle
    MakerFees, TakerFees,              \* a maker fee may be a rebate
    NonceTimes                         \* the times in the UUIDs wallets invalidate

ASSUME TradingAssumption ==
    /\ BaseQuantities \subseteq Nat \ {0} /\ QuoteQuantities \subseteq Nat \ {0}
    /\ MakerFees \subseteq Int /\ TakerFees \subseteq Nat
    /\ NonceTimes \subseteq Nat

Trade == [market : Markets, base : Nat \ {0}, quote : Nat \ {0},
          makerSide : {"Buy", "Sell"}, makerFee : Int, takerFee : Nat]

WithinLimitPrice(order, trade) ==
    order.limitPrice # 0 =>
        LET implied == QuoteValue(trade.base, order.limitPrice)
        IN  IF order.side = "Buy" THEN implied >= trade.quote ELSE implied <= trade.quote

IsTimeInForceValid(order, trade) ==
    LET isMaker == trade.makerSide = order.side
    IN  /\ order.timeInForce = "gtx" => order.limitPrice # 0 /\ isMaker
        /\ order.timeInForce \in {"ioc", "fok"} => ~isMaker

MayTrade(order) ==
    /\ order.wallet # exitFundWallet
    /\ order.wallet = InsuranceFund =>
          order.isReduceOnly /\ order.delegatedKey # NoDelegatedKey

\* The Insurance Fund's acquisitions are traded against each other only.
IsLiquidationAcquisitionValid(buy, sell) ==
    buy.isLiquidationAcquisitionOnly \/ sell.isLiquidationAcquisitionOnly =>
        /\ buy.isLiquidationAcquisitionOnly /\ sell.isLiquidationAcquisitionOnly
        /\ InsuranceFund \in {buy.wallet, sell.wallet}

IsNonceValid(order) ==
    /\ order.nonce > LastInvalidated(order.wallet)
    /\ order.delegatedKey # NoDelegatedKey =>
          /\ order.delegatedKey > LastInvalidated(order.wallet)
          /\ order.delegatedKey + DelegateKeyPeriod > order.nonce
          /\ order.nonce > order.delegatedKey

AreFeesValid(trade) ==
    /\ IF trade.makerFee < 0 THEN -trade.makerFee <= trade.takerFee
                             ELSE IsFeeQuantityValid(trade.makerFee, trade.quote)
    /\ IsFeeQuantityValid(trade.takerFee, trade.quote)

\* Mutant of IsFillable: a completed order can be filled again.
IsFillableAgain(order, base) ==
    partiallyFilled[OrderHash(order)] + base <= order.quantity

\* The order is still open and has the quantity left.
IsFillable(order, base) ==
    /\ OrderHash(order) \notin completedOrders
    /\ partiallyFilled[OrderHash(order)] + base <= order.quantity

Completes(order, base) == partiallyFilled[OrderHash(order)] + base = order.quantity

\* Mutant of MeetsMarginAfterTrade: any trade is held to maintenance only.
MeetsMaintenanceAfterTrade(before, after, w, m) ==
    MeetsMaintenanceMargin(after, w, IndexPrice, FieldsFor(w))

\* A reduced position is held to the maintenance requirement, any other to
\* the initial one.
MeetsMarginAfterTrade(before, after, w, m) ==
    IF WasReduced(before.position[w][m].balance, after.position[w][m].balance)
    THEN MeetsMaintenanceMargin(after, w, IndexPrice, FieldsFor(w))
    ELSE MeetsInitialMargin(after, w, IndexPrice, FieldsFor(w))

IsPositionUpdateValid(order, before, after) ==
    LET m   == order.market
        old == before.position[order.wallet][m].balance
        new == after.position[order.wallet][m].balance
    IN  /\ order.isReduceOnly => UpdatedTowardsZero(old, new)
        /\ BelowMaximumOrReduced(old, new, FieldsFor(order.wallet)[m].maximumPositionSize)
        /\ MeetsMarginAfterTrade(before, after, order.wallet, m)

ExecuteTrade(trade, buy, sell) ==
    LET buyFee  == IF trade.makerSide = "Buy" THEN trade.makerFee ELSE trade.takerFee
        sellFee == IF trade.makerSide = "Buy" THEN trade.takerFee ELSE trade.makerFee
        funded  == Funded(Funded(ledger, buy.wallet), sell.wallet)
        after   == UpdateForTrade(funded, buy.wallet, sell.wallet, trade.market, trade.base,
                                  trade.quote, buyFee, sellFee, FeeWallet, Published)
        traded  == {OrderHash(buy), OrderHash(sell)}
        filled  == {OrderHash(o) : o \in {x \in {buy, sell} : Completes(x, trade.base)}}
    IN  /\ ~ExitFundHasPositions
        /\ ~IsExitFinalized(buy.wallet) /\ ~IsExitFinalized(sell.wallet)
        /\ buy.side = "Buy" /\ sell.side = "Sell"
        /\ buy.market = trade.market /\ sell.market = trade.market
        /\ buy.wallet # sell.wallet
        /\ markets[trade.market].isActive
        /\ WithinLimitPrice(buy, trade) /\ WithinLimitPrice(sell, trade)
        /\ IsTimeInForceValid(buy, trade) /\ IsTimeInForceValid(sell, trade)
        /\ MayTrade(buy) /\ MayTrade(sell)
        /\ IsLiquidationAcquisitionValid(buy, sell)
        /\ IsNonceValid(buy) /\ IsNonceValid(sell)
        /\ AreFeesValid(trade)
        /\ IsFillable(buy, trade.base) /\ IsFillable(sell, trade.base)
        /\ IsPositionUpdateValid(buy, funded, after) /\ IsPositionUpdateValid(sell, funded, after)
        /\ ledger' = after
        /\ partiallyFilled' = [h \in OrderHashes |->
                                 IF h \in filled THEN 0
                                 ELSE IF h \in traded THEN partiallyFilled[h] + trade.base
                                 ELSE partiallyFilled[h]]
        /\ completedOrders' = completedOrders \cup filled
        /\ UNCHANGED <<custodyVars, walletExits, fundVars, marketVars, completedTransfers,
                       completedWithdrawals, nonceInvalidations, clockVars>>

\* Takes effect once the chain propagation period has passed.
InvalidateNonce(w, timestamp) ==
    LET s == nonceInvalidations[w]
        n == Len(s)
    IN  /\ timestamp < now + OneDay
        /\ n > 0 => s[n].timestamp < timestamp /\ s[n].effectiveAt <= now
        /\ nonceInvalidations' =
             [nonceInvalidations EXCEPT
                ![w] = Append(s, [timestamp |-> timestamp,
                                  effectiveAt |-> now + chainPropagationPeriod])]
        /\ UNCHANGED <<ledger, custodyVars, walletExits, fundVars, marketVars, requestVars, clockVars>>

TradingNext ==
    \/ \E buy, sell \in Orders, base \in BaseQuantities, quote \in QuoteQuantities,
          makerSide \in {"Buy", "Sell"}, makerFee \in MakerFees, takerFee \in TakerFees :
          ExecuteTrade([market |-> buy.market, base |-> base, quote |-> quote,
                        makerSide |-> makerSide, makerFee |-> makerFee, takerFee |-> takerFee],
                       buy, sell)
    \/ \E w \in Wallets, timestamp \in NonceTimes : InvalidateNonce(w, timestamp)

===============================================================================
