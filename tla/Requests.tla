-------------------------------- MODULE Requests --------------------------------
(***************************************************************************)
(* The client library (lib/index.ts): what a client has its wallet sign    *)
(* for a request, and the contract argument it is turned into.  The two    *)
(* are built apart, from the same request, and the contract only accepts   *)
(* the argument if it can rebuild from it what was signed.                 *)
(*                                                                         *)
(* A decimal string is its digits and the number of them after the point,  *)
(* so that "1.5" and "1.50" are different texts of one number.  A UUID is  *)
(* its 128 bits and the form they are written in.  Payloads, addresses and *)
(* asset symbols are opaque; typed data is its domain, type and message.   *)
(***************************************************************************)
EXTENDS PipsMath, Sequences, TLC

CONSTANTS
    PipsDecimals,     \* pipsDecimals
    Undefined         \* the value of an optional field that is left out

ASSUME PipsAssumption ==
    PipsDecimals \in Nat /\ PipMultiplier = 10 ^ PipsDecimals

ZeroAddress  == 0
EmptyPayload == "0x"
NoSignature  == [signer |-> ZeroAddress, typedData |-> "none"]

-----------------------------------------------------------------------------
(* Texts. *)

Decimal == [digits : Int, scale : Nat]

Text(digits, scale) == [digits |-> digits, scale |-> scale]

\* With all of its decimals, as in '1.50000000'.
Canonical(pips) == Text(pips, PipsDecimals)

\* '0.00000000'
EmptyPipString == Canonical(0)

\* Truncates what is beyond the last decimal, toward zero.
decimalToPips(decimal) ==
    IF decimal.scale <= PipsDecimals
    THEN decimal.digits * 10 ^ (PipsDecimals - decimal.scale)
    ELSE TruncDiv(decimal.digits, 10 ^ (decimal.scale - PipsDecimals))

Uuid(bits) == [bits |-> bits, form |-> "uuid"]

ZeroUuid == Uuid(0)

uuidToHexString(uuid) == [uuid EXCEPT !.form = "hex"]

uuidToUint128(uuid) == uuidToHexString(uuid).bits

\* `value || default`
Or(value, default) == IF value = Undefined THEN default ELSE value

-----------------------------------------------------------------------------
(* The enums are the positions of their names. *)

OrderSide == [Buy |-> 0, Sell |-> 1]

OrderTimeInForce == [GTC |-> 0, GTX |-> 1, IOC |-> 2, FOK |-> 3]

OrderType == [Market |-> 0, Limit |-> 1, StopLossMarket |-> 2, StopLossLimit |-> 3,
              TakeProfitMarket |-> 4, TakeProfitLimit |-> 5, TrailingStop |-> 6]

OrderTriggerType == [Last |-> 0, Index |-> 1]

OrderSelfTradePrevention == [DecreaseAndCancel |-> 0, CancelOldest |-> 1,
                             CancelNewest |-> 2, CancelBoth |-> 3]

ManagedAccountWithdrawalType == [ByQuantity |-> 0, ByShares |-> 1]

-----------------------------------------------------------------------------
(* The interfaces: the fields of a request, Undefined where it leaves them out. *)

AssetDistributionFields == {"nonce", "parentNonce", "walletAddress", "assetAddress", "quantity"}

SignedAssetDistributionFields == AssetDistributionFields \cup {"exchangeSignature"}

DelegatedKeyAuthorizationFields == {"nonce", "delegatedPublicKey", "signature"}

OrderFields ==
    {"nonce", "wallet", "market", "type", "side", "quantity", "price", "triggerPrice", "triggerType",
     "callbackRate", "conditionalOrderId", "isReduceOnly", "timeInForce", "selfTradePrevention",
     "isLiquidationAcquisitionOnly", "delegatedPublicKey", "clientOrderId"}

IndexPriceFields == {"baseAssetSymbol", "timestampInMs", "price", "signature"}

TradeFields ==
    {"baseAssetSymbol", "baseQuantity", "quoteQuantity", "makerFeeQuantity", "takerFeeQuantity",
     "price", "makerSide"}

TransferFields == {"nonce", "sourceWallet", "destinationWallet", "quantity"}

WithdrawalFields ==
    {"nonce", "wallet", "quantity", "maximumGasFee", "bridgeAdapter", "bridgeAdapterPayload"}

WithdrawalFromManagedAccountFields ==
    {"nonce", "managerWallet", "depositorWallet", "maximumGasFee", "managedAccountProvider",
     "managedAccountProviderPayload", "bridgeAdapter", "bridgeAdapterPayload"}

WithdrawalFromManagedAccountByQuantityFields ==
    WithdrawalFromManagedAccountFields \cup {"quantity", "maxShares"}

WithdrawalFromManagedAccountBySharesFields ==
    WithdrawalFromManagedAccountFields \cup {"shares", "minimumQuantity"}

AreOf(interface, requests) == \A request \in requests : DOMAIN request = interface

-----------------------------------------------------------------------------
(* What a wallet signs.  The domain is the contract and its chain. *)

TypedData(domain, type, message) == [domain |-> domain, type |-> type, message |-> message]

DelegatedKeyAuthorizationTypedData(authorization, domain) ==
    TypedData(domain, "DelegatedKeyAuthorization",
        [nonce |-> uuidToUint128(authorization.nonce),
         delegatedPublicKey |-> authorization.delegatedPublicKey])

IndexPriceTypedData(indexPrice, quoteAssetSymbol, domain) ==
    TypedData(domain, "IndexPrice",
        [baseAssetSymbol |-> indexPrice.baseAssetSymbol, quoteAssetSymbol |-> quoteAssetSymbol,
         timestampInMs |-> indexPrice.timestampInMs, price |-> indexPrice.price])

OrderTypedData(order, domain) ==
    TypedData(domain, "Order",
        [nonce |-> uuidToUint128(order.nonce),
         wallet |-> order.wallet,
         marketSymbol |-> order.market,
         orderType |-> order.type,
         orderSide |-> order.side,
         quantity |-> order.quantity,
         limitPrice |-> Or(order.price, EmptyPipString),
         triggerPrice |-> Or(order.triggerPrice, EmptyPipString),
         triggerType |-> Or(order.triggerType, 0),
         callbackRate |-> Or(order.callbackRate, EmptyPipString),
         conditionalOrderId |-> IF order.conditionalOrderId = Undefined THEN 0
                                ELSE uuidToUint128(order.conditionalOrderId),
         isReduceOnly |-> Or(order.isReduceOnly, FALSE),
         timeInForce |-> Or(order.timeInForce, 0),
         selfTradePrevention |-> Or(order.selfTradePrevention, 0),
         isLiquidationAcquisitionOnly |-> Or(order.isLiquidationAcquisitionOnly, FALSE),
         delegatedPublicKey |-> Or(order.delegatedPublicKey, ZeroAddress),
         clientOrderId |-> Or(order.clientOrderId, "")])

\* getStakingDistributionHash: a packed hash, bound to the escrow instead of a domain.
StakingDistributionTypedData(escrowAddress, distribution) ==
    TypedData(escrowAddress, "AssetDistribution",
        [nonce |-> uuidToUint128(distribution.nonce),
         parentNonce |-> uuidToUint128(distribution.parentNonce),
         walletAddress |-> distribution.walletAddress,
         assetAddress |-> distribution.assetAddress,
         quantity |-> distribution.quantity])

TransferTypedData(transfer, domain) ==
    TypedData(domain, "Transfer",
        [nonce |-> uuidToUint128(transfer.nonce),
         sourceWallet |-> transfer.sourceWallet,
         destinationWallet |-> transfer.destinationWallet,
         quantity |-> transfer.quantity])

WithdrawalTypedData(withdrawal, domain) ==
    TypedData(domain, "Withdrawal",
        [nonce |-> uuidToUint128(withdrawal.nonce),
         wallet |-> withdrawal.wallet,
         quantity |-> withdrawal.quantity,
         maximumGasFee |-> withdrawal.maximumGasFee,
         bridgeAdapter |-> withdrawal.bridgeAdapter,
         bridgeAdapterPayload |-> withdrawal.bridgeAdapterPayload])

\* What both forms of a withdrawal from a managed account sign alike.
ManagedWithdrawalMessage(withdrawal) ==
    [nonce |-> uuidToUint128(withdrawal.nonce),
     managerWallet |-> withdrawal.managerWallet,
     depositorWallet |-> withdrawal.depositorWallet,
     maximumGasFee |-> withdrawal.maximumGasFee,
     managedAccountProvider |-> withdrawal.managedAccountProvider,
     managedAccountProviderPayload |-> withdrawal.managedAccountProviderPayload,
     bridgeAdapter |-> withdrawal.bridgeAdapter,
     bridgeAdapterPayload |-> withdrawal.bridgeAdapterPayload]

WithdrawalByQuantityTypedData(withdrawal, domain) ==
    TypedData(domain, "WithdrawalFromManagedAccountByQuantity",
        [quantity |-> withdrawal.quantity, maxShares |-> withdrawal.maxShares]
          @@ ManagedWithdrawalMessage(withdrawal))

WithdrawalBySharesTypedData(withdrawal, domain) ==
    TypedData(domain, "WithdrawalFromManagedAccountByShares",
        [shares |-> withdrawal.shares, minimumQuantity |-> withdrawal.minimumQuantity]
          @@ ManagedWithdrawalMessage(withdrawal))

-----------------------------------------------------------------------------
(* The contract arguments.  Gas fees, and all of a trade, are added by who   *)
(* submits them and signed by no one.                                        *)

NoAuthorizationStruct ==
    [nonce |-> uuidToHexString(ZeroUuid), delegatedPublicKey |-> ZeroAddress, signature |-> NoSignature]

AuthorizationStruct(authorization) ==
    [nonce |-> uuidToHexString(authorization.nonce),
     delegatedPublicKey |-> authorization.delegatedPublicKey,
     signature |-> authorization.signature]

\* The delegated key is the authorization's, not the one the order names, and
\* the conditional order's UUID is passed as it is written.
orderToArgumentStruct(order, walletSignature, authorization) ==
    [nonce |-> uuidToHexString(order.nonce),
     wallet |-> order.wallet,
     orderType |-> order.type,
     side |-> order.side,
     quantity |-> decimalToPips(order.quantity),
     limitPrice |-> decimalToPips(Or(order.price, EmptyPipString)),
     triggerPrice |-> decimalToPips(Or(order.triggerPrice, EmptyPipString)),
     triggerType |-> Or(order.triggerType, 0),
     callbackRate |-> decimalToPips(Or(order.callbackRate, EmptyPipString)),
     conditionalOrderId |-> Or(order.conditionalOrderId, uuidToHexString(ZeroUuid)),
     clientOrderId |-> Or(order.clientOrderId, ""),
     isReduceOnly |-> Or(order.isReduceOnly, FALSE),
     timeInForce |-> Or(order.timeInForce, 0),
     selfTradePrevention |-> Or(order.selfTradePrevention, 0),
     isLiquidationAcquisitionOnly |-> Or(order.isLiquidationAcquisitionOnly, FALSE),
     walletSignature |-> walletSignature,
     isSignedByDelegatedKey |-> authorization # Undefined,
     delegatedKeyAuthorization |->
        IF authorization = Undefined THEN NoAuthorizationStruct
        ELSE AuthorizationStruct(authorization)]

\* The market is the buy order's; a market symbol is split at its dashes.
tradeToArgumentStruct(trade, order) ==
    [baseAssetSymbol |-> order.market[1],
     quoteAssetSymbol |-> order.market[2],
     baseQuantity |-> decimalToPips(trade.baseQuantity),
     quoteQuantity |-> decimalToPips(trade.quoteQuantity),
     makerFeeQuantity |-> decimalToPips(trade.makerFeeQuantity),
     takerFeeQuantity |-> decimalToPips(trade.takerFeeQuantity),
     price |-> decimalToPips(trade.price),
     makerSide |-> trade.makerSide]

\* Each side is an order with its signature and, or Undefined, the delegated
\* key's authorization.
getExecuteTradeArguments(buy, sell, trade) ==
    [trade |-> tradeToArgumentStruct(trade, buy.order),
     buy   |-> orderToArgumentStruct(buy.order, buy.signature, buy.authorization),
     sell  |-> orderToArgumentStruct(sell.order, sell.signature, sell.authorization)]

getStakingEscrowDistributeArguments(distribution) ==
    [nonce |-> uuidToHexString(distribution.nonce),
     parentNonce |-> uuidToHexString(distribution.parentNonce),
     walletAddress |-> distribution.walletAddress,
     assetAddress |-> distribution.assetAddress,
     quantity |-> distribution.quantity,
     exchangeSignature |-> distribution.exchangeSignature]

getTransferArguments(transfer, gasFee, walletSignature) ==
    [nonce |-> uuidToHexString(transfer.nonce),
     sourceWallet |-> transfer.sourceWallet,
     destinationWallet |-> transfer.destinationWallet,
     grossQuantity |-> decimalToPips(transfer.quantity),
     gasFee |-> decimalToPips(gasFee),
     walletSignature |-> walletSignature]

getWithdrawArguments(withdrawal, gasFee, walletSignature) ==
    [nonce |-> uuidToHexString(withdrawal.nonce),
     wallet |-> withdrawal.wallet,
     grossQuantity |-> decimalToPips(withdrawal.quantity),
     maximumGasFee |-> decimalToPips(withdrawal.maximumGasFee),
     bridgeAdapter |-> withdrawal.bridgeAdapter,
     bridgeAdapterPayload |-> withdrawal.bridgeAdapterPayload,
     gasFee |-> decimalToPips(gasFee),
     walletSignature |-> walletSignature]

\* What both forms of a withdrawal from a managed account pass on alike.
ManagedWithdrawalStruct(withdrawal, gasFee, walletSignature) ==
    [nonce |-> uuidToHexString(withdrawal.nonce),
     managerWallet |-> withdrawal.managerWallet,
     depositorWallet |-> withdrawal.depositorWallet,
     maximumGasFee |-> decimalToPips(withdrawal.maximumGasFee),
     managedAccountProvider |-> withdrawal.managedAccountProvider,
     managedAccountProviderPayload |-> withdrawal.managedAccountProviderPayload,
     bridgeAdapter |-> withdrawal.bridgeAdapter,
     bridgeAdapterPayload |-> withdrawal.bridgeAdapterPayload,
     gasFee |-> decimalToPips(gasFee),
     walletSignature |-> walletSignature]

\* The form that is not used is filled with zeros.
NoManagedWithdrawalStruct ==
    [nonce |-> uuidToHexString(ZeroUuid),
     managerWallet |-> ZeroAddress, depositorWallet |-> ZeroAddress, maximumGasFee |-> 0, managedAccountProvider |-> ZeroAddress,
     managedAccountProviderPayload |-> EmptyPayload, bridgeAdapter |-> ZeroAddress,
     bridgeAdapterPayload |-> EmptyPayload, gasFee |-> 0, walletSignature |-> NoSignature]

getWithdrawFromManagedAccountByQuantityArguments(withdrawal, gasFee, walletSignature) ==
    [withdrawalType |-> ManagedAccountWithdrawalType.ByQuantity,
     withdrawalByQuantity |->
        [grossQuantity |-> decimalToPips(withdrawal.quantity),
         maxShares |-> decimalToPips(withdrawal.maxShares)]
          @@ ManagedWithdrawalStruct(withdrawal, gasFee, walletSignature),
     withdrawalByShares |->
        [shares |-> 0, minimumQuantity |-> 0, grossQuantity |-> 0] @@ NoManagedWithdrawalStruct]

\* The gross quantity is what the shares are worth to who submits it.
getWithdrawFromManagedAccountByShareArguments(withdrawal, grossQuantity, gasFee, walletSignature) ==
    [withdrawalType |-> ManagedAccountWithdrawalType.ByShares,
     withdrawalByQuantity |->
        [grossQuantity |-> 0, maxShares |-> 0] @@ NoManagedWithdrawalStruct,
     withdrawalByShares |->
        [shares |-> decimalToPips(withdrawal.shares),
         minimumQuantity |-> decimalToPips(withdrawal.minimumQuantity),
         grossQuantity |-> decimalToPips(grossQuantity)]
          @@ ManagedWithdrawalStruct(withdrawal, gasFee, walletSignature)]

indexPriceToArgumentPayload(indexPrice) ==
    [baseAssetSymbol |-> indexPrice.baseAssetSymbol,
     timestampInMs |-> indexPrice.timestampInMs,
     price |-> decimalToPips(indexPrice.price),
     signature |-> indexPrice.signature]

indexPriceToArgumentStruct(indexPriceAdapter, indexPrice) ==
    [indexPriceAdapter |-> indexPriceAdapter,
     payload |-> indexPriceToArgumentPayload(indexPrice)]

===============================================================================
