-------------------------------- MODULE Hashing --------------------------------
(***************************************************************************)
(* What the contract makes of its arguments: libraries Hashing and String, *)
(* the enums the ABI decodes numbers to, and the time in a UUID.  A hash   *)
(* stands for what it covers, so the hash of a struct is the typed data    *)
(* the contract rebuilds from it, and it recovers from a signature the     *)
(* signer of that typed data in its own domain, or nobody.                 *)
(***************************************************************************)
EXTENDS Requests

CONSTANTS
    DomainSeparator,     \* this contract's, on its chain
    QuoteAssetSymbol,    \* Constants.QUOTE_ASSET_SYMBOL
    MaxUint64,
    NodesPerTime         \* UUIDs with the same time

ASSUME HashingAssumption == MaxUint64 \in Nat /\ NodesPerTime \in Nat \ {0}

-----------------------------------------------------------------------------
(* Enums.sol, in the order of their numbers. *)

OrderSides                == <<"Buy", "Sell">>
OrderTimesInForce         == <<"gtc", "gtx", "ioc", "fok">>
OrderTriggerTypes         == <<"None", "Last", "Index">>
OrderSelfTradePreventions == <<"dc", "co", "cn", "cb">>
OrderTypes                == <<"Market", "Limit", "StopLossMarket", "StopLossLimit",
                               "TakeProfitMarket", "TakeProfitLimit", "TrailingStop">>

-----------------------------------------------------------------------------
(* ABI encoding: only these arguments reach the contract. *)

IsUint64(n) == n \in 0..MaxUint64

IsInt64(n) == n \in -(MaxUint64 \div 2) - 1..MaxUint64 \div 2

\* A number, or a text that reads as one: hexadecimal digits after 0x.
IsUint128(text) == text.form = "hex"

AsUint128(text) == text.bits

\* A number that has no name in the enum is not decoded.
IsEnum(n, names) == n \in 0..(Len(names) - 1)

IsOrderEncodable(struct) ==
    /\ IsUint128(struct.nonce) /\ IsUint128(struct.conditionalOrderId)
    /\ \A n \in {struct.quantity, struct.limitPrice, struct.triggerPrice, struct.callbackRate} :
          IsUint64(n)
    /\ IsEnum(struct.side, OrderSides) /\ IsEnum(struct.orderType, OrderTypes)
    /\ IsEnum(struct.timeInForce, OrderTimesInForce)
    /\ IsEnum(struct.triggerType, OrderTriggerTypes)
    /\ IsEnum(struct.selfTradePrevention, OrderSelfTradePreventions)

\* Only the maker fee may be negative.
IsTradeEncodable(struct) ==
    /\ \A n \in {struct.baseQuantity, struct.quoteQuantity, struct.takerFeeQuantity, struct.price} :
          IsUint64(n)
    /\ IsInt64(struct.makerFeeQuantity)
    /\ IsEnum(struct.makerSide, OrderSides)

IsTransferEncodable(struct) ==
    IsUint128(struct.nonce) /\ IsUint64(struct.grossQuantity) /\ IsUint64(struct.gasFee)

IsWithdrawalEncodable(struct) ==
    /\ IsUint128(struct.nonce)
    /\ \A n \in {struct.grossQuantity, struct.maximumGasFee, struct.gasFee} : IsUint64(n)

\* The time of a version 1 UUID; the rest tells UUIDs of one time apart.
TimestampOf(bits) == bits \div NodesPerTime

-----------------------------------------------------------------------------
(* Hashes. *)

\* Mutant of pipsToDecimalString: no zero before the point.
PipsToShortString(pips) == [digits |-> pips, scale |-> 0]

pipsToDecimalString(pips) == Canonical(pips)

\* Mutant of isSignatureValid: the domain is not part of the hash.
SignatureOfAnyDomain(typedData, signature, signer) ==
    /\ signature.signer = signer
    /\ [signature.typedData EXCEPT !.domain = DomainSeparator] = typedData

isSignatureValid(typedData, signature, signer) ==
    signature = [signer |-> signer, typedData |-> typedData]

getDelegatedKeyAuthorizationHash(struct) ==
    TypedData(DomainSeparator, "DelegatedKeyAuthorization",
        [nonce |-> AsUint128(struct.nonce), delegatedPublicKey |-> struct.delegatedPublicKey])

\* Does not cover whether the delegated key signed, or since when it may.
getOrderHash(struct, baseSymbol) ==
    TypedData(DomainSeparator, "Order",
        [nonce |-> AsUint128(struct.nonce),
         wallet |-> struct.wallet,
         marketSymbol |-> <<baseSymbol, QuoteAssetSymbol>>,
         orderType |-> struct.orderType,
         orderSide |-> struct.side,
         quantity |-> pipsToDecimalString(struct.quantity),
         limitPrice |-> pipsToDecimalString(struct.limitPrice),
         triggerPrice |-> pipsToDecimalString(struct.triggerPrice),
         triggerType |-> struct.triggerType,
         callbackRate |-> pipsToDecimalString(struct.callbackRate),
         conditionalOrderId |-> AsUint128(struct.conditionalOrderId),
         isReduceOnly |-> struct.isReduceOnly,
         timeInForce |-> struct.timeInForce,
         selfTradePrevention |-> struct.selfTradePrevention,
         isLiquidationAcquisitionOnly |-> struct.isLiquidationAcquisitionOnly,
         delegatedPublicKey |-> struct.delegatedKeyAuthorization.delegatedPublicKey,
         clientOrderId |-> struct.clientOrderId])

getTransferHash(struct) ==
    TypedData(DomainSeparator, "Transfer",
        [nonce |-> AsUint128(struct.nonce),
         sourceWallet |-> struct.sourceWallet,
         destinationWallet |-> struct.destinationWallet,
         quantity |-> pipsToDecimalString(struct.grossQuantity)])

getWithdrawalHash(struct) ==
    TypedData(DomainSeparator, "Withdrawal",
        [nonce |-> AsUint128(struct.nonce),
         wallet |-> struct.wallet,
         quantity |-> pipsToDecimalString(struct.grossQuantity),
         maximumGasFee |-> pipsToDecimalString(struct.maximumGasFee),
         bridgeAdapter |-> struct.bridgeAdapter,
         bridgeAdapterPayload |-> struct.bridgeAdapterPayload])

\* What both forms of a withdrawal from a managed account hash alike.
ManagedWithdrawalHash(struct) ==
    [nonce |-> AsUint128(struct.nonce),
     managerWallet |-> struct.managerWallet,
     depositorWallet |-> struct.depositorWallet,
     maximumGasFee |-> pipsToDecimalString(struct.maximumGasFee),
     managedAccountProvider |-> struct.managedAccountProvider,
     managedAccountProviderPayload |-> struct.managedAccountProviderPayload,
     bridgeAdapter |-> struct.bridgeAdapter,
     bridgeAdapterPayload |-> struct.bridgeAdapterPayload]

getWithdrawalFromManagedAccountByQuantityHash(struct) ==
    TypedData(DomainSeparator, "WithdrawalFromManagedAccountByQuantity",
        [quantity |-> pipsToDecimalString(struct.grossQuantity),
         maxShares |-> pipsToDecimalString(struct.maxShares)] @@ ManagedWithdrawalHash(struct))

\* Does not cover the gross quantity.
getWithdrawalFromManagedAccountBySharesHash(struct) ==
    TypedData(DomainSeparator, "WithdrawalFromManagedAccountByShares",
        [shares |-> pipsToDecimalString(struct.shares),
         minimumQuantity |-> pipsToDecimalString(struct.minimumQuantity)]
          @@ ManagedWithdrawalHash(struct))

===============================================================================
