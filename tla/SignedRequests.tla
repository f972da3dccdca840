----------------------------- MODULE SignedRequests -----------------------------
(***************************************************************************)
(* The exchange with its signatures: wallets sign typed data with the      *)
(* client library, and the dispatcher hands arguments built by the same    *)
(* library to the contract, which rebuilds from them what was signed.      *)
(*                                                                         *)
(* Nothing ties a signature to the request it was made for but the hash,   *)
(* so the dispatcher may pair any request with any signature, submit it    *)
(* any number of times and in any order, and choose the gas fee, the trade *)
(* and the authorization of a delegated key.                               *)
(***************************************************************************)
EXTENDS Exchange, Hashing

CONSTANTS
    Domains,                \* of this contract and of others
    DelegatedKeys,
    TransferRequests, WithdrawalRequests, OrderRequests,   \* of clients
    AuthorizationRequests,  \* the keys wallets authorize: nonce and public key
    TradeTexts,             \* what the dispatcher matches
    GasFeeTexts

VARIABLE signatures     \* made so far

signedVars == <<vars, signatures>>

Signature(signer, typedData) == [signer |-> signer, typedData |-> typedData]

-----------------------------------------------------------------------------
(* Signing. *)

Sign(signer, typedData) ==
    /\ signatures' = signatures \cup {Signature(signer, typedData)}
    /\ UNCHANGED vars

\* An order is signed by its wallet or by the delegated key it names.
SignNext ==
    \E domain \in Domains :
        \/ \E r \in TransferRequests : Sign(r.sourceWallet, TransferTypedData(r, domain))
        \/ \E r \in WithdrawalRequests : Sign(r.wallet, WithdrawalTypedData(r, domain))
        \/ \E w \in Wallets, a \in AuthorizationRequests :
              Sign(w, DelegatedKeyAuthorizationTypedData(a, domain))
        \/ \E o \in OrderRequests :
              \E signer \in {o.wallet} \cup ({o.delegatedPublicKey} \cap DelegatedKeys) :
                  Sign(signer, OrderTypedData(o, domain))

-----------------------------------------------------------------------------
(* What the contract decodes the arguments to. *)

AsTransfer(struct) ==
    [source |-> struct.sourceWallet, destination |-> struct.destinationWallet,
     grossQuantity |-> struct.grossQuantity, nonce |-> AsUint128(struct.nonce)]

AsWithdrawal(struct) ==
    [wallet |-> struct.wallet, grossQuantity |-> struct.grossQuantity,
     maximumGasFee |-> struct.maximumGasFee, nonce |-> AsUint128(struct.nonce),
     route |-> <<struct.bridgeAdapter, struct.bridgeAdapterPayload>>]

\* Settlement looks at the time in the nonce; what else is hashed only tells
\* orders apart.
AsOrder(struct, baseSymbol) ==
    [wallet |-> struct.wallet, side |-> OrderSides[struct.side + 1], market |-> baseSymbol,
     quantity |-> struct.quantity, limitPrice |-> struct.limitPrice,
     timeInForce |-> OrderTimesInForce[struct.timeInForce + 1],
     isReduceOnly |-> struct.isReduceOnly,
     isLiquidationAcquisitionOnly |-> struct.isLiquidationAcquisitionOnly,
     nonce |-> TimestampOf(AsUint128(struct.nonce)),
     details |-> [nonce |-> AsUint128(struct.nonce),
                  orderType |-> struct.orderType,
                  triggerPrice |-> struct.triggerPrice,
                  triggerType |-> struct.triggerType,
                  callbackRate |-> struct.callbackRate,
                  conditionalOrderId |-> AsUint128(struct.conditionalOrderId),
                  selfTradePrevention |-> struct.selfTradePrevention,
                  delegatedPublicKey |-> struct.delegatedKeyAuthorization.delegatedPublicKey,
                  clientOrderId |-> struct.clientOrderId],
     delegatedKey |-> IF struct.isSignedByDelegatedKey
                      THEN TimestampOf(AsUint128(struct.delegatedKeyAuthorization.nonce))
                      ELSE NoDelegatedKey]

AsTrade(struct) ==
    [market |-> struct.baseAssetSymbol, base |-> struct.baseQuantity, quote |-> struct.quoteQuantity,
     makerSide |-> OrderSides[struct.makerSide + 1],
     makerFee |-> struct.makerFeeQuantity, takerFee |-> struct.takerFeeQuantity]

IsLimitOrderType(type) == type \in {"Limit", "StopLossLimit", "TakeProfitLimit"}

IsTriggerPriceRequired(type) ==
    type \in {"StopLossMarket", "StopLossLimit", "TakeProfitMarket", "TakeProfitLimit"}

AreTriggerFieldsValid(struct) ==
    LET type == OrderTypes[struct.orderType + 1]
    IN  /\ IsTriggerPriceRequired(type) => struct.triggerPrice > 0
        /\ ~IsTriggerPriceRequired(type) /\ type # "TrailingStop" => struct.triggerPrice = 0
        /\ struct.callbackRate > 0 <=> type = "TrailingStop"
        /\ struct.triggerPrice = 0 <=> OrderTriggerTypes[struct.triggerType + 1] = "None"

IsLimitPriceValid(struct) ==
    struct.limitPrice > 0 <=> IsLimitOrderType(OrderTypes[struct.orderType + 1])

\* Mutant of IsOrderSignatureValid: whoever holds the key may name any wallet.
IsKeySignatureValid(struct, baseSymbol) ==
    isSignatureValid(getOrderHash(struct, baseSymbol), struct.walletSignature,
                     IF struct.isSignedByDelegatedKey
                     THEN struct.delegatedKeyAuthorization.delegatedPublicKey
                     ELSE struct.wallet)

\* The wallet signed, or a delegated key did that the wallet has authorized.
IsOrderSignatureValid(struct, baseSymbol) ==
    IF struct.isSignedByDelegatedKey
    THEN /\ isSignatureValid(getDelegatedKeyAuthorizationHash(struct.delegatedKeyAuthorization),
                             struct.delegatedKeyAuthorization.signature, struct.wallet)
         /\ isSignatureValid(getOrderHash(struct, baseSymbol), struct.walletSignature,
                             struct.delegatedKeyAuthorization.delegatedPublicKey)
    ELSE isSignatureValid(getOrderHash(struct, baseSymbol), struct.walletSignature, struct.wallet)

-----------------------------------------------------------------------------
(* The dispatcher. *)

SubmitTransfer(request, gasFee, signature) ==
    LET struct == getTransferArguments(request, gasFee, signature)
    IN  /\ IsTransferEncodable(struct)
        /\ isSignatureValid(getTransferHash(struct), struct.walletSignature, struct.sourceWallet)
        /\ TransferQuote(AsTransfer(struct), struct.gasFee)
        /\ UNCHANGED signatures

SubmitWithdrawal(request, gasFee, signature) ==
    LET struct == getWithdrawArguments(request, gasFee, signature)
    IN  /\ IsWithdrawalEncodable(struct)
        /\ isSignatureValid(getWithdrawalHash(struct), struct.walletSignature, struct.wallet)
        /\ Withdraw(AsWithdrawal(struct), struct.gasFee)
        /\ UNCHANGED signatures

SignedAuthorizations ==
    {[nonce |-> a.nonce, delegatedPublicKey |-> a.delegatedPublicKey, signature |-> s] :
        a \in AuthorizationRequests, s \in signatures}

IsAccepted(struct, baseSymbol) ==
    /\ IsOrderEncodable(struct)
    /\ IsLimitPriceValid(struct)
    /\ AreTriggerFieldsValid(struct)
    /\ IsOrderSignatureValid(struct, baseSymbol)

\* An order with a signature and an authorization that the contract accepts.
Sides(baseSymbol) ==
    {side \in [order : OrderRequests, signature : signatures,
               authorization : SignedAuthorizations \cup {Undefined}] :
        IsAccepted(orderToArgumentStruct(side.order, side.signature, side.authorization),
                   baseSymbol)}

\* Two sides of a market, the buy order's.
SubmitTrade(baseSymbol, buy, sell, trade) ==
    LET arguments == getExecuteTradeArguments(buy, sell, trade)
    IN  /\ IsTradeEncodable(arguments.trade)
        /\ arguments.trade.baseAssetSymbol = baseSymbol
        /\ arguments.trade.baseQuantity > 0 /\ arguments.trade.quoteQuantity > 0
        /\ ExecuteTrade(AsTrade(arguments.trade),
                        AsOrder(arguments.buy, baseSymbol), AsOrder(arguments.sell, baseSymbol))
        /\ UNCHANGED signatures

SubmitNext ==
    \/ \E request \in TransferRequests, gasFee \in GasFeeTexts, signature \in signatures :
          SubmitTransfer(request, gasFee, signature)
    \/ \E request \in WithdrawalRequests, gasFee \in GasFeeTexts, signature \in signatures :
          SubmitWithdrawal(request, gasFee, signature)
    \/ \E baseSymbol \in Markets : \E buy, sell \in Sides(baseSymbol), trade \in TradeTexts :
          SubmitTrade(baseSymbol, buy, sell, trade)

\* Transactions that need no signature of a wallet, but its own or none, as long
\* as nobody is liquidated, deleveraged or paid out on an exit, ...
UnsignedOrdinaryNext ==
    \/ SetDepositIndex
    \/ \E isEnabled \in BOOLEAN : SetDepositEnabled(isEnabled)
    \/ \E source, depositor \in Wallets, units \in DepositUnits, tokenFee \in TokenFees :
          Deposit(source, depositor, units, tokenFee)
    \/ \E w \in Wallets : \E quantity \in 1..pendingDepositQuantity[w] :
          ApplyPendingDeposits(w, quantity)
    \/ \E w \in Wallets, timestamp \in NonceTimes : InvalidateNonce(w, timestamp)
    \/ \E w \in Wallets : ExitWallet(w) \/ ClearWalletExit(w)
    \/ MarketAdminNext
    \/ Tick

\* ... and all of them.
UnsignedNext == UnsignedOrdinaryNext \/ LiquidationNext \/ DeleveragingNext \/ WalletExitsNext

SignedInit == Init /\ signatures = {}

SignedNext ==
    \/ SignNext
    \/ SubmitNext
    \/ UnsignedNext /\ UNCHANGED signatures

SignedSpec == SignedInit /\ [][SignedNext]_signedVars

OrdinarySignedNext ==
    \/ SignNext
    \/ SubmitNext
    \/ UnsignedOrdinaryNext /\ UNCHANGED signatures

OrdinarySignedSpec == SignedInit /\ [][OrdinarySignedNext]_signedVars

Unsigned(authorization) ==
    [nonce |-> authorization.nonce, delegatedPublicKey |-> authorization.delegatedPublicKey,
     signature |-> NoSignature]

\* What the dispatcher may submit is in the domain of the exchange's records; a
\* route is a bridge adapter with its payload.
ASSUME RepresentationAssumption ==
    /\ AreOf(TransferFields, TransferRequests) /\ AreOf(WithdrawalFields, WithdrawalRequests)
    /\ AreOf(OrderFields, OrderRequests) /\ AreOf(TradeFields, TradeTexts)
    /\ AreOf(DelegatedKeyAuthorizationFields \ {"signature"}, AuthorizationRequests)
    /\ \A r \in TransferRequests :
          AsTransfer(getTransferArguments(r, EmptyPipString, NoSignature)) \in Transfers
    /\ \A r \in WithdrawalRequests :
          AsWithdrawal(getWithdrawArguments(r, EmptyPipString, NoSignature)) \in Withdrawals
    /\ \A o \in OrderRequests, m \in Markets :
          \A a \in {Undefined} \cup {Unsigned(r) : r \in AuthorizationRequests} :
              IsOrderEncodable(orderToArgumentStruct(o, NoSignature, a)) =>
                  AsOrder(orderToArgumentStruct(o, NoSignature, a), m) \in Orders
    /\ \A r \in AuthorizationRequests : Unsigned(r) # Undefined
    /\ \A t \in TradeTexts, o \in OrderRequests :
          LET struct == tradeToArgumentStruct(t, o)
              trade  == AsTrade(struct)
          IN  IsTradeEncodable(struct) /\ trade.base > 0 /\ trade.quote > 0 =>
                /\ trade.base \in BaseQuantities /\ trade.quote \in QuoteQuantities
                /\ trade.makerFee \in MakerFees /\ trade.takerFee \in TakerFees
    /\ \A text \in GasFeeTexts :
          IsUint64(decimalToPips(text)) => decimalToPips(text) \in GasFees
    /\ \A route \in WithdrawalRoutes : route = <<route[1], route[2]>>

-----------------------------------------------------------------------------
(* Who has authorized what: said of the signatures alone, not of how the   *)
(* contract checks them.                                                   *)

HasSigned(signer, type, message) ==
    Signature(signer, [domain |-> DomainSeparator, type |-> type, message |-> message]) \in signatures

IsTransferAuthorized(t) ==
    HasSigned(t.source, "Transfer",
              [nonce |-> t.nonce, sourceWallet |-> t.source,
               destinationWallet |-> t.destination, quantity |-> Canonical(t.grossQuantity)])

IsWithdrawalAuthorized(r) ==
    HasSigned(r.wallet, "Withdrawal",
              [nonce |-> r.nonce, wallet |-> r.wallet, quantity |-> Canonical(r.grossQuantity),
               maximumGasFee |-> Canonical(r.maximumGasFee),
               bridgeAdapter |-> r.route[1], bridgeAdapterPayload |-> r.route[2]])

\* Whole pips, with all of their decimals.
IsPipString(decimal) == decimal.digits \in Nat /\ decimal = Canonical(decimal.digits)

\* What the text of an order says, to whoever reads it.
OrderSaid(message) ==
    [wallet |-> message.wallet, side |-> OrderSides[message.orderSide + 1],
     market |-> message.marketSymbol[1],
     quantity |-> message.quantity.digits, limitPrice |-> message.limitPrice.digits,
     timeInForce |-> OrderTimesInForce[message.timeInForce + 1],
     isReduceOnly |-> message.isReduceOnly,
     isLiquidationAcquisitionOnly |-> message.isLiquidationAcquisitionOnly,
     nonce |-> TimestampOf(message.nonce),
     details |-> [nonce |-> message.nonce, orderType |-> message.orderType,
                  triggerPrice |-> message.triggerPrice.digits,
                  triggerType |-> message.triggerType,
                  callbackRate |-> message.callbackRate.digits,
                  conditionalOrderId |-> message.conditionalOrderId,
                  selfTradePrevention |-> message.selfTradePrevention,
                  delegatedPublicKey |-> message.delegatedPublicKey,
                  clientOrderId |-> message.clientOrderId],
     delegatedKey |-> NoDelegatedKey]

\* The signed text says exactly what the order is settled as.
Says(message, h) ==
    /\ h = OrderSaid(message)
    /\ message.orderSide = OrderSide[h.side]
    /\ message.marketSymbol = <<h.market, QuoteAssetSymbol>>
    /\ \A decimal \in {message.quantity, message.limitPrice, message.triggerPrice,
                       message.callbackRate} : IsPipString(decimal)

HasAuthorizedKey(wallet, key) ==
    \E a \in AuthorizationRequests :
        /\ a.delegatedPublicKey = key
        /\ HasSigned(wallet, "DelegatedKeyAuthorization",
                     [nonce |-> uuidToUint128(a.nonce), delegatedPublicKey |-> key])

\* The texts of orders that the wallet signed, or a key it has authorized.
OrderTexts(w) ==
    {s.typedData : s \in {x \in signatures :
        /\ x.typedData.domain = DomainSeparator /\ x.typedData.type = "Order"
        /\ x.typedData.message.wallet = w
        /\ \/ x.signer = w
           \/ /\ x.signer = x.typedData.message.delegatedPublicKey
              /\ HasAuthorizedKey(w, x.signer)}}

IsOrderAuthorized(h) == \E t \in OrderTexts(h.wallet) : Says(t.message, h)

Authorized ==
    {t \in Transfers : IsTransferAuthorized(t)} \cup
    {r \in Withdrawals : IsWithdrawalAuthorized(r)} \cup
    {h \in OrderHashes : IsOrderAuthorized(h)}

LimitOf(r) == IF r \in OrderHashes THEN r.quantity ELSE r.grossQuantity

SettledOf(r) ==
    IF r \in OrderHashes THEN Filled(r)
    ELSE IF r \in completedTransfers \cup completedWithdrawals THEN r.grossQuantity
    ELSE 0

AllRequests == Transfers \cup Withdrawals \cup OrderHashes

Promise ==
    INSTANCE Authorizations WITH
        Requests   <- AllRequests,
        Limit      <- [r \in AllRequests |-> LimitOf(r)],
        authorized <- Authorized,
        settled    <- [r \in AllRequests |-> SettledOf(r)]

\* Temporal property.  Whatever the dispatcher pairs, repeats or reorders, what
\* is settled of a request was authorized before, by a signature for this
\* exchange over exactly that amount, side, market and route, its delegated
\* key's authorization included, and stays within it.
SettlesWhatIsAuthorized == Promise!Spec

\* Invariant.  A request whose amounts are written with all decimals verifies
\* once it is signed for this exchange: what the client library has the wallet
\* sign and what the contract rebuilds from the library's arguments agree.
SignedPaymentsVerify ==
    /\ \A r \in TransferRequests :
          LET signature == Signature(r.sourceWallet, TransferTypedData(r, DomainSeparator))
              struct    == getTransferArguments(r, EmptyPipString, signature)
          IN  signature \in signatures /\ r.quantity = Canonical(struct.grossQuantity) =>
                isSignatureValid(getTransferHash(struct), struct.walletSignature, struct.sourceWallet)
    /\ \A r \in WithdrawalRequests :
          LET signature == Signature(r.wallet, WithdrawalTypedData(r, DomainSeparator))
              struct    == getWithdrawArguments(r, EmptyPipString, signature)
          IN  /\ signature \in signatures
              /\ r.quantity = Canonical(struct.grossQuantity)
              /\ r.maximumGasFee = Canonical(struct.maximumGasFee)
              => isSignatureValid(getWithdrawalHash(struct), struct.walletSignature, struct.wallet)

-----------------------------------------------------------------------------
(* The amounts that have been signed, each text counted once. *)

PaymentTexts(w, type) ==
    {s.typedData : s \in {x \in signatures :
        x.signer = w /\ x.typedData.domain = DomainSeparator /\ x.typedData.type = type}}

\* A text with any other amount settles nothing.
SignedSum(texts) ==
    SumFunctionOnSet([t \in texts |-> IF IsPipString(t.message.quantity)
                                      THEN t.message.quantity.digits ELSE 0], texts)

SignedAway(w) ==
    SignedSum(PaymentTexts(w, "Transfer")) + SignedSum(PaymentTexts(w, "Withdrawal"))

SignedQuantity(w, m, side) ==
    SignedSum({t \in OrderTexts(w) : /\ t.message.orderSide = side
                                     /\ t.message.marketSymbol = <<m, QuoteAssetSymbol>>})

HasOrdered(w) == OrderTexts(w) # {}

\* Invariant, as long as quote is only paid and traded.  However often and with
\* whichever signatures its requests are submitted, a wallet that has no position
\* and orders none loses no more quote than it has signed away, gas fees included.
OutflowsAreSigned ==
    \A w \in Wallets : InitialLedger.open[w] = {} /\ ~HasOrdered(w) =>
        ledger.quote[w] + SignedAway(w) >= InitialLedger.quote[w]

\* Invariant, as long as positions are only traded.  A wallet's position moves
\* within what was signed for it, by the wallet or by keys it authorizes: an order
\* submitted with each of its key's authorizations, or with the signatures of
\* both wallet and key, is filled once.
PositionsAreSigned ==
    \A w \in Wallets, m \in Markets :
        ledger.position[w][m].balance - InitialLedger.position[w][m].balance \in
            -SignedQuantity(w, m, OrderSide.Sell)..SignedQuantity(w, m, OrderSide.Buy)

===============================================================================
