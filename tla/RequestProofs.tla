------------------------------ MODULE RequestProofs ------------------------------
(***************************************************************************)
(* For any requests, signatures and submissions, the exchange keeps the    *)
(* promise of Authorizations: a submission is accepted only with a         *)
(* signature over what the contract rebuilds from it, and what is signed   *)
(* is recorded as settled by the same hash.                                *)
(*                                                                         *)
(* The exchange with its signatures implements the Exchange, so what is    *)
(* proved of the Exchange holds of it.  Together with the promise that     *)
(* bounds what leaves a wallet, and how its positions move, by the sums    *)
(* over the texts it has signed.                                           *)
(***************************************************************************)
EXTENDS SignedRequests, PositionProofs

\* The inductive invariant of the promise: what has been filled is a number.
FilledInv == partiallyFilled \in [OrderHashes -> Nat]

-----------------------------------------------------------------------------
(* What an accepted signature says. *)

\* An accepted transfer was signed by the wallet it debits.
LEMMA AcceptedTransferIsAuthorized ==
    ASSUME NEW request \in TransferRequests, NEW gasFee, NEW signature \in signatures,
           SubmitTransfer(request, gasFee, signature)
    PROVE  IsTransferAuthorized(AsTransfer(getTransferArguments(request, gasFee, signature)))
<1> DEFINE struct == getTransferArguments(request, gasFee, signature)
<1>1. isSignatureValid(getTransferHash(struct), struct.walletSignature, struct.sourceWallet)
  BY DEF SubmitTransfer
<1>2. struct.walletSignature = signature
  BY DEF getTransferArguments
<1>3. signature = [signer |-> struct.sourceWallet, typedData |-> getTransferHash(struct)]
  BY <1>1, <1>2 DEF isSignatureValid
<1> HIDE DEF struct
<1>4. Signature(struct.sourceWallet, getTransferHash(struct)) \in signatures
  BY <1>3 DEF Signature
<1>5. QED
  BY <1>4 DEF IsTransferAuthorized, HasSigned, AsTransfer, getTransferHash, TypedData,
     pipsToDecimalString, struct

\* An accepted withdrawal was signed by the wallet it debits, for its route.
LEMMA AcceptedWithdrawalIsAuthorized ==
    ASSUME NEW request \in WithdrawalRequests, NEW gasFee, NEW signature \in signatures,
           SubmitWithdrawal(request, gasFee, signature)
    PROVE  IsWithdrawalAuthorized(AsWithdrawal(getWithdrawArguments(request, gasFee, signature)))
<1> DEFINE struct == getWithdrawArguments(request, gasFee, signature)
<1>1. isSignatureValid(getWithdrawalHash(struct), struct.walletSignature, struct.wallet)
  BY DEF SubmitWithdrawal
<1>2. struct.walletSignature = signature
  BY DEF getWithdrawArguments
<1>3. signature = [signer |-> struct.wallet, typedData |-> getWithdrawalHash(struct)]
  BY <1>1, <1>2 DEF isSignatureValid
<1> HIDE DEF struct
<1>4. Signature(struct.wallet, getWithdrawalHash(struct)) \in signatures
  BY <1>3 DEF Signature
<1>5. QED
  BY <1>4 DEF IsWithdrawalAuthorized, HasSigned, AsWithdrawal, getWithdrawalHash, TypedData,
     pipsToDecimalString, struct

\* Of an order that is said, the wallet and the key are those of its text.
LEMMA SaidOfMessage ==
    ASSUME NEW message, NEW h, Says(message, h)
    PROVE  /\ h.wallet = message.wallet
           /\ h.details.delegatedPublicKey = message.delegatedPublicKey
           /\ h.quantity = message.quantity.digits
BY DEF Says, OrderSaid

\* The text of an order's hash says what the order is settled as.
LEMMA HashSaysOrder ==
    ASSUME NEW struct, NEW baseSymbol, IsOrderEncodable(struct)
    PROVE  /\ getOrderHash(struct, baseSymbol).domain = DomainSeparator
           /\ getOrderHash(struct, baseSymbol).type = "Order"
           /\ Says(getOrderHash(struct, baseSymbol).message, OrderHash(AsOrder(struct, baseSymbol)))
<1> DEFINE text    == getOrderHash(struct, baseSymbol)
           message == text.message
           h       == OrderHash(AsOrder(struct, baseSymbol))
<1>1. text.domain = DomainSeparator /\ text.type = "Order"
  BY DEF getOrderHash, TypedData
<1>2. /\ message.nonce = AsUint128(struct.nonce)
      /\ message.wallet = struct.wallet
      /\ message.marketSymbol = <<baseSymbol, QuoteAssetSymbol>>
      /\ message.orderType = struct.orderType
      /\ message.orderSide = struct.side
      /\ message.quantity = Canonical(struct.quantity)
      /\ message.limitPrice = Canonical(struct.limitPrice)
      /\ message.triggerPrice = Canonical(struct.triggerPrice)
      /\ message.triggerType = struct.triggerType
      /\ message.callbackRate = Canonical(struct.callbackRate)
      /\ message.conditionalOrderId = AsUint128(struct.conditionalOrderId)
      /\ message.isReduceOnly = struct.isReduceOnly
      /\ message.timeInForce = struct.timeInForce
      /\ message.selfTradePrevention = struct.selfTradePrevention
      /\ message.isLiquidationAcquisitionOnly = struct.isLiquidationAcquisitionOnly
      /\ message.delegatedPublicKey = struct.delegatedKeyAuthorization.delegatedPublicKey
      /\ message.clientOrderId = struct.clientOrderId
  BY DEF getOrderHash, TypedData, pipsToDecimalString
<1>3. \A n : Canonical(n).digits = n
  BY DEF Canonical, Text
<1>4. message.marketSymbol[1] = baseSymbol
  BY <1>2
<1> HIDE DEF text, message
<1>5. h = OrderSaid(message)
  BY <1>2, <1>3, <1>4 DEF OrderHash, AsOrder, OrderSaid
<1>6. message.orderSide = OrderSide[h.side]
  <2>1. struct.side \in {0, 1}
    BY DEF IsOrderEncodable, IsEnum, OrderSides
  <2>2. h.side = OrderSides[struct.side + 1]
    BY DEF OrderHash, AsOrder
  <2> QED BY <1>2, <2>1, <2>2 DEF OrderSides, OrderSide
<1>7. message.marketSymbol = <<h.market, QuoteAssetSymbol>>
  BY <1>2 DEF OrderHash, AsOrder
<1>8. \A decimal \in {message.quantity, message.limitPrice, message.triggerPrice,
                      message.callbackRate} : IsPipString(decimal)
  <2>1. \A n \in {struct.quantity, struct.limitPrice, struct.triggerPrice, struct.callbackRate} :
           n \in Nat
    BY HashingAssumption DEF IsOrderEncodable, IsUint64
  <2> QED BY <1>2, <1>3, <2>1 DEF IsPipString
<1> HIDE DEF h
<1>9. Says(message, h)
  BY <1>5, <1>6, <1>7, <1>8 DEF Says
<1>10. QED
  BY <1>1, <1>9 DEF text, message, h

\* An accepted order was signed by its wallet, or by a key its wallet authorized.
LEMMA AcceptedOrderIsAuthorized ==
    ASSUME NEW baseSymbol, NEW side \in Sides(baseSymbol)
    PROVE  IsOrderAuthorized(OrderHash(AsOrder(
              orderToArgumentStruct(side.order, side.signature, side.authorization), baseSymbol)))
<1> DEFINE struct == orderToArgumentStruct(side.order, side.signature, side.authorization)
           text   == getOrderHash(struct, baseSymbol)
           h      == OrderHash(AsOrder(struct, baseSymbol))
<1>1. /\ side.signature \in signatures
      /\ side.authorization \in SignedAuthorizations \cup {Undefined}
      /\ IsOrderSignatureValid(struct, baseSymbol) /\ IsOrderEncodable(struct)
  BY DEF Sides, IsAccepted
<1>2. struct.walletSignature = side.signature
  BY DEF orderToArgumentStruct
<1>3. h.wallet = struct.wallet
  BY DEF OrderHash, AsOrder
<1>4. h.details.delegatedPublicKey = struct.delegatedKeyAuthorization.delegatedPublicKey
  BY DEF OrderHash, AsOrder
<1>5. text.domain = DomainSeparator /\ text.type = "Order" /\ Says(text.message, h)
  BY <1>1, HashSaysOrder
<1>6. struct.isSignedByDelegatedKey <=> side.authorization # Undefined
  BY DEF orderToArgumentStruct
<1>7. CASE side.authorization = Undefined
  <2>1. side.signature = [signer |-> h.wallet, typedData |-> text]
    BY <1>1, <1>2, <1>3, <1>6, <1>7 DEF IsOrderSignatureValid, isSignatureValid
  <2> HIDE DEF text, h, struct
  <2>2. side.signature.signer = h.wallet /\ side.signature.typedData = text
    BY <2>1
  <2>3. text \in OrderTexts(h.wallet)
    BY <1>1, <1>5, <2>2, SaidOfMessage DEF OrderTexts
  <2> QED BY <1>5, <2>3 DEF IsOrderAuthorized, h, struct
<1>8. CASE side.authorization # Undefined
  <2>1. PICK a \in AuthorizationRequests, s \in signatures :
             side.authorization = [nonce |-> a.nonce, delegatedPublicKey |-> a.delegatedPublicKey,
                                   signature |-> s]
    BY <1>1, <1>8 DEF SignedAuthorizations
  <2>2. struct.delegatedKeyAuthorization =
          [nonce |-> uuidToHexString(a.nonce), delegatedPublicKey |-> a.delegatedPublicKey,
           signature |-> s]
    BY <1>8, <2>1 DEF orderToArgumentStruct, AuthorizationStruct
  <2>3. /\ isSignatureValid(getDelegatedKeyAuthorizationHash(struct.delegatedKeyAuthorization),
                            struct.delegatedKeyAuthorization.signature, struct.wallet)
        /\ isSignatureValid(text, side.signature, struct.delegatedKeyAuthorization.delegatedPublicKey)
    BY <1>1, <1>2, <1>6, <1>8 DEF IsOrderSignatureValid
  <2> HIDE DEF text, struct, h
  <2>4. s = Signature(h.wallet, getDelegatedKeyAuthorizationHash(struct.delegatedKeyAuthorization))
    BY <1>3, <2>2, <2>3 DEF isSignatureValid, Signature
  <2>5. getDelegatedKeyAuthorizationHash(struct.delegatedKeyAuthorization) =
          [domain |-> DomainSeparator, type |-> "DelegatedKeyAuthorization",
           message |-> [nonce |-> uuidToUint128(a.nonce), delegatedPublicKey |-> a.delegatedPublicKey]]
    BY <2>2 DEF getDelegatedKeyAuthorizationHash, TypedData, AsUint128, uuidToUint128
  <2>6. HasAuthorizedKey(h.wallet, a.delegatedPublicKey)
    BY <2>4, <2>5 DEF HasAuthorizedKey, HasSigned
  <2>7. side.signature.signer = a.delegatedPublicKey /\ side.signature.typedData = text
    BY <2>2, <2>3 DEF isSignatureValid
  <2>8. h.details.delegatedPublicKey = a.delegatedPublicKey
    BY <1>4, <2>2
  <2>9. text \in OrderTexts(h.wallet)
    BY <1>1, <1>5, <2>6, <2>7, <2>8, SaidOfMessage DEF OrderTexts
  <2> QED BY <1>5, <2>9 DEF IsOrderAuthorized, h, struct
<1>9. QED
  BY <1>7, <1>8

-----------------------------------------------------------------------------
(* What is submitted is what the exchange keeps records of. *)

\* A transfer does not depend on the gas fee or the signature.
LEMMA TransferIsRepresented ==
    ASSUME NEW request \in TransferRequests, NEW gasFee, NEW signature
    PROVE  AsTransfer(getTransferArguments(request, gasFee, signature)) \in Transfers
<1>1. AsTransfer(getTransferArguments(request, gasFee, signature))
        = AsTransfer(getTransferArguments(request, EmptyPipString, NoSignature))
  BY DEF AsTransfer, getTransferArguments
<1>2. QED
  BY <1>1, RepresentationAssumption

\* Nor does a withdrawal.
LEMMA WithdrawalIsRepresented ==
    ASSUME NEW request \in WithdrawalRequests, NEW gasFee, NEW signature
    PROVE  AsWithdrawal(getWithdrawArguments(request, gasFee, signature)) \in Withdrawals
<1>1. AsWithdrawal(getWithdrawArguments(request, gasFee, signature))
        = AsWithdrawal(getWithdrawArguments(request, EmptyPipString, NoSignature))
  BY DEF AsWithdrawal, getWithdrawArguments
<1>2. QED
  BY <1>1, RepresentationAssumption

\* Nor does an order depend on its signature or that of its authorization.
LEMMA SignaturesAreNotDecoded ==
    ASSUME NEW o, NEW s, NEW t, NEW a, NEW b, NEW baseSymbol,
           a = Undefined <=> b = Undefined,
           a # Undefined => a.nonce = b.nonce /\ a.delegatedPublicKey = b.delegatedPublicKey
    PROVE  /\ AsOrder(orderToArgumentStruct(o, s, a), baseSymbol)
                = AsOrder(orderToArgumentStruct(o, t, b), baseSymbol)
           /\ IsOrderEncodable(orderToArgumentStruct(o, s, a))
                => IsOrderEncodable(orderToArgumentStruct(o, t, b))
<1> DEFINE x == orderToArgumentStruct(o, s, a)
           y == orderToArgumentStruct(o, t, b)
<1>1. /\ x.nonce = y.nonce /\ x.wallet = y.wallet /\ x.orderType = y.orderType
      /\ x.side = y.side /\ x.quantity = y.quantity /\ x.limitPrice = y.limitPrice
      /\ x.triggerPrice = y.triggerPrice /\ x.triggerType = y.triggerType
      /\ x.callbackRate = y.callbackRate /\ x.conditionalOrderId = y.conditionalOrderId
      /\ x.clientOrderId = y.clientOrderId /\ x.isReduceOnly = y.isReduceOnly
      /\ x.timeInForce = y.timeInForce /\ x.selfTradePrevention = y.selfTradePrevention
      /\ x.isLiquidationAcquisitionOnly = y.isLiquidationAcquisitionOnly
  BY DEF orderToArgumentStruct
<1>2. x.isSignedByDelegatedKey = y.isSignedByDelegatedKey
  BY DEF orderToArgumentStruct
<1>3. /\ x.delegatedKeyAuthorization.nonce = y.delegatedKeyAuthorization.nonce
      /\ x.delegatedKeyAuthorization.delegatedPublicKey
           = y.delegatedKeyAuthorization.delegatedPublicKey
  <2>1. CASE a = Undefined
    BY <2>1 DEF orderToArgumentStruct
  <2>2. CASE a # Undefined
    BY <2>2 DEF orderToArgumentStruct, AuthorizationStruct
  <2> QED BY <2>1, <2>2
<1> HIDE DEF x, y
<1>4. AsOrder(x, baseSymbol) = AsOrder(y, baseSymbol)
  BY <1>1, <1>2, <1>3 DEF AsOrder
<1>5. IsOrderEncodable(x) => IsOrderEncodable(y)
  BY <1>1 DEF IsOrderEncodable
<1>6. QED
  BY <1>4, <1>5 DEF x, y

\* An accepted order is one the Exchange can be given, as its text says it.
LEMMA OrderIsRepresented ==
    ASSUME NEW baseSymbol \in Markets, NEW side \in Sides(baseSymbol)
    PROVE  AsOrder(orderToArgumentStruct(side.order, side.signature, side.authorization), baseSymbol)
             \in Orders
<1>1. /\ side.order \in OrderRequests
      /\ side.authorization \in SignedAuthorizations \cup {Undefined}
      /\ IsOrderEncodable(orderToArgumentStruct(side.order, side.signature, side.authorization))
  BY DEF Sides, IsAccepted
<1>2. CASE side.authorization = Undefined
  <2> DEFINE bare == orderToArgumentStruct(side.order, NoSignature, Undefined)
  <2>1. /\ AsOrder(orderToArgumentStruct(side.order, side.signature, side.authorization), baseSymbol)
             = AsOrder(bare, baseSymbol)
        /\ IsOrderEncodable(bare)
    BY <1>1, <1>2, SignaturesAreNotDecoded
  <2>2. IsOrderEncodable(bare) => AsOrder(bare, baseSymbol) \in Orders
    BY <1>1, RepresentationAssumption
  <2> QED BY <2>1, <2>2
<1>3. CASE side.authorization # Undefined
  <2>1. PICK r \in AuthorizationRequests, s \in signatures :
             side.authorization = [nonce |-> r.nonce, delegatedPublicKey |-> r.delegatedPublicKey,
                                   signature |-> s]
    BY <1>1, <1>3 DEF SignedAuthorizations
  <2>2. /\ Unsigned(r) # Undefined
        /\ side.authorization.nonce = Unsigned(r).nonce
        /\ side.authorization.delegatedPublicKey = Unsigned(r).delegatedPublicKey
    BY <2>1, RepresentationAssumption DEF Unsigned
  <2> DEFINE u    == Unsigned(r)
             bare == orderToArgumentStruct(side.order, NoSignature, u)
  <2> HIDE DEF u
  <2>3. /\ AsOrder(orderToArgumentStruct(side.order, side.signature, side.authorization), baseSymbol)
             = AsOrder(bare, baseSymbol)
        /\ IsOrderEncodable(bare)
    BY <1>1, <1>3, <2>2, SignaturesAreNotDecoded DEF u
  <2>4. IsOrderEncodable(bare) => AsOrder(bare, baseSymbol) \in Orders
    BY <1>1, RepresentationAssumption DEF u
  <2> QED BY <2>3, <2>4
<1>4. QED
  BY <1>2, <1>3

-----------------------------------------------------------------------------
(* The steps of the promise. *)

\* Within what is authorized, settling a request or two and nothing else.
LEMMA SettlingIsPromised ==
    ASSUME NEW S \in SUBSET Authorized, UNCHANGED Authorized,
           \A r \in AllRequests :
              IF r \in S THEN SettledOf(r) <= SettledOf(r)' /\ SettledOf(r)' <= LimitOf(r)
                         ELSE SettledOf(r)' = SettledOf(r)
    PROVE  Promise!Next
<1>1. ASSUME NEW r \in AllRequests
      PROVE  \/ SettledOf(r)' = SettledOf(r)
             \/ /\ r \in Authorized
                /\ SettledOf(r) <= SettledOf(r)' /\ SettledOf(r)' <= LimitOf(r)
  BY DEF AllRequests
<1>2. Promise!Settle
  BY <1>1 DEF Promise!Settle
<1>3. QED
  BY <1>2 DEF Promise!Next

\* A transfer or withdrawal that is recorded was settled for the first time.
LEMMA RecordingIsPromised ==
    ASSUME NEW r \in Transfers \cup Withdrawals, r \in Authorized, ~IsCompleted(r),
           UNCHANGED <<Authorized, partiallyFilled, completedOrders>>,
           (completedTransfers \cup completedWithdrawals)'
              = (completedTransfers \cup completedWithdrawals) \cup {r}
    PROVE  Promise!Next
<1>1. r.grossQuantity \in Nat
  BY RequestAssumption DEF Transfer, Withdrawal
<1>2. ASSUME NEW h \in OrderHashes
      PROVE  SettledOf(h)' = SettledOf(h)
  BY <1>2 DEF SettledOf, Filled
<1>3. ASSUME NEW q, q \notin OrderHashes, q # r
      PROVE  SettledOf(q)' = SettledOf(q)
  BY <1>3 DEF SettledOf
<1>4. r \notin OrderHashes =>
        SettledOf(r) = 0 /\ SettledOf(r)' = r.grossQuantity /\ LimitOf(r) = r.grossQuantity
  BY DEF SettledOf, LimitOf, IsCompleted
<1> DEFINE S == {r} \ OrderHashes
<1>5. S \in SUBSET Authorized
  OBVIOUS
<1>6. \A q \in AllRequests :
         IF q \in S THEN SettledOf(q) <= SettledOf(q)' /\ SettledOf(q)' <= LimitOf(q)
                    ELSE SettledOf(q)' = SettledOf(q)
  BY <1>1, <1>2, <1>3, <1>4
<1>7. QED
  BY <1>5, <1>6, SettlingIsPromised

\* Nothing is authorized by a step that leaves the signatures alone.
LEMMA AuthorizedBySignatures ==
    ASSUME UNCHANGED signatures
    PROVE  UNCHANGED Authorized
<1>1. ASSUME NEW t PROVE IsTransferAuthorized(t)' <=> IsTransferAuthorized(t)
  BY DEF IsTransferAuthorized, HasSigned
<1>2. ASSUME NEW r PROVE IsWithdrawalAuthorized(r)' <=> IsWithdrawalAuthorized(r)
  BY DEF IsWithdrawalAuthorized, HasSigned
<1>3. ASSUME NEW h PROVE IsOrderAuthorized(h)' <=> IsOrderAuthorized(h)
  BY DEF IsOrderAuthorized, OrderTexts, HasAuthorizedKey, HasSigned
<1>4. QED
  BY <1>1, <1>2, <1>3 DEF Authorized

\* A signature takes no authorization back.
LEMMA SigningIsPromised ==
    ASSUME NEW signer, NEW typedData, Sign(signer, typedData)
    PROVE  Promise!Next
<1>1. signatures \subseteq signatures'
  BY DEF Sign
<1>2. ASSUME NEW w, NEW type, NEW message, HasSigned(w, type, message)
      PROVE  HasSigned(w, type, message)'
  BY <1>1, <1>2 DEF HasSigned
<1>3. ASSUME NEW t, IsTransferAuthorized(t) PROVE IsTransferAuthorized(t)'
  BY <1>2, <1>3 DEF IsTransferAuthorized
<1>4. ASSUME NEW r, IsWithdrawalAuthorized(r) PROVE IsWithdrawalAuthorized(r)'
  BY <1>2, <1>4 DEF IsWithdrawalAuthorized
<1>5. ASSUME NEW w, NEW key, HasAuthorizedKey(w, key) PROVE HasAuthorizedKey(w, key)'
  BY <1>2, <1>5 DEF HasAuthorizedKey
<1>6. ASSUME NEW h, IsOrderAuthorized(h) PROVE IsOrderAuthorized(h)'
  <2>1. OrderTexts(h.wallet) \subseteq OrderTexts(h.wallet)'
    BY <1>1, <1>5 DEF OrderTexts
  <2> QED BY <1>6, <2>1 DEF IsOrderAuthorized
<1>7. Authorized \subseteq Authorized' /\ Authorized' \subseteq AllRequests
  BY <1>3, <1>4, <1>6 DEF Authorized, AllRequests
<1>8. ASSUME NEW r \in AllRequests PROVE SettledOf(r)' = SettledOf(r)
  BY DEF Sign, vars, requestVars, SettledOf, Filled
<1>9. Promise!Authorize
  BY <1>7, <1>8 DEF Promise!Authorize
<1>10. QED
  BY <1>7, <1>9 DEF Promise!Next

\* A trade fills its two orders by its base quantity, up to theirs.
LEMMA TradingIsPromised ==
    ASSUME FilledInv, UNCHANGED Authorized, NEW buy \in Orders, NEW sell \in Orders, NEW trade,
           trade.base \in Nat, ExecuteTrade(trade, buy, sell),
           OrderHash(buy) \in Authorized, OrderHash(sell) \in Authorized
    PROVE  Promise!Next /\ FilledInv'
<1> DEFINE traded == {OrderHash(buy), OrderHash(sell)}
           filled == {OrderHash(o) : o \in {x \in {buy, sell} : Completes(x, trade.base)}}
<1>1. /\ partiallyFilled' = [h \in OrderHashes |->
                               IF h \in filled THEN 0
                               ELSE IF h \in traded THEN partiallyFilled[h] + trade.base
                               ELSE partiallyFilled[h]]
      /\ completedOrders' = completedOrders \cup filled
      /\ UNCHANGED <<completedTransfers, completedWithdrawals>>
  BY DEF ExecuteTrade
<1>2. /\ \A o \in {buy, sell} : IsFillable(o, trade.base)
      /\ buy.side = "Buy" /\ sell.side = "Sell"
  BY DEF ExecuteTrade
<1>3. /\ traded \subseteq OrderHashes
      /\ \A o \in {buy, sell} : OrderHash(o).quantity = o.quantity /\ o.quantity \in Nat
  BY RequestAssumption DEF OrderHashes, OrderHash, Order
<1>4. \A h \in traded : /\ h \notin completedOrders
                        /\ partiallyFilled[h] + trade.base <= h.quantity
                        /\ h \in filled => partiallyFilled[h] + trade.base = h.quantity
                        /\ h.quantity \in Nat
  BY <1>2, <1>3 DEF IsFillable, Completes
<1>5. filled \subseteq traded
  OBVIOUS
<1> HIDE DEF filled, traded
<1>6. \A h \in OrderHashes : partiallyFilled[h] \in Nat
  BY DEF FilledInv
<1>7. FilledInv'
  BY <1>1, <1>6 DEF FilledInv
<1>8. ASSUME NEW h \in traded
      PROVE  SettledOf(h) <= SettledOf(h)' /\ SettledOf(h)' <= LimitOf(h)
  <2>1. /\ h \in OrderHashes /\ partiallyFilled[h] \in Nat
        /\ SettledOf(h) = partiallyFilled[h] /\ LimitOf(h) = h.quantity
    BY <1>3, <1>4, <1>6 DEF SettledOf, Filled, LimitOf
  <2>2. CASE h \in filled
    <3>1. SettledOf(h)' = h.quantity
      BY <1>1, <2>1, <2>2 DEF SettledOf, Filled
    <3> QED BY <1>4, <2>1, <3>1
  <2>3. CASE h \notin filled
    <3>1. SettledOf(h)' = partiallyFilled[h] + trade.base
      BY <1>1, <1>4, <2>1, <2>3 DEF SettledOf, Filled
    <3> QED BY <1>4, <2>1, <3>1
  <2> QED BY <2>2, <2>3
<1>9. ASSUME NEW r \in AllRequests, r \notin traded
      PROVE  SettledOf(r)' = SettledOf(r)
  BY <1>1, <1>5, <1>9 DEF SettledOf, Filled
<1>10. traded \in SUBSET Authorized
  BY DEF traded
<1>11. QED
  BY <1>7, <1>8, <1>9, <1>10, SettlingIsPromised

\* What is submitted is settled as promised.
LEMMA SubmittingIsPromised ==
    ASSUME FilledInv, SubmitNext
    PROVE  Promise!Next /\ FilledInv'
<1>1. ASSUME NEW request \in TransferRequests, NEW gasFee \in GasFeeTexts, NEW signature \in signatures,
             SubmitTransfer(request, gasFee, signature)
      PROVE  Promise!Next /\ FilledInv'
  <2> DEFINE struct == getTransferArguments(request, gasFee, signature)
             t      == AsTransfer(struct)
  <2>1. t \in Transfers /\ IsTransferAuthorized(t)
    BY <1>1, TransferIsRepresented, AcceptedTransferIsAuthorized
  <2>2. TransferQuote(t, struct.gasFee) /\ UNCHANGED Authorized
    BY <1>1, AuthorizedBySignatures DEF SubmitTransfer
  <2> HIDE DEF t, struct
  <2>3. /\ ~IsCompleted(t) /\ UNCHANGED <<partiallyFilled, completedOrders>>
        /\ completedTransfers' = completedTransfers \cup {t}
        /\ completedWithdrawals' = completedWithdrawals
    BY <2>2 DEF TransferQuote
  <2>4. t \in Authorized
    BY <2>1 DEF Authorized
  <2>5. Promise!Next
    BY <2>1, <2>2, <2>3, <2>4, RecordingIsPromised
  <2> QED BY <2>3, <2>5 DEF FilledInv
<1>2. ASSUME NEW request \in WithdrawalRequests, NEW gasFee \in GasFeeTexts, NEW signature \in signatures,
             SubmitWithdrawal(request, gasFee, signature)
      PROVE  Promise!Next /\ FilledInv'
  <2> DEFINE struct == getWithdrawArguments(request, gasFee, signature)
             r      == AsWithdrawal(struct)
  <2>1. r \in Withdrawals /\ IsWithdrawalAuthorized(r)
    BY <1>2, WithdrawalIsRepresented, AcceptedWithdrawalIsAuthorized
  <2>2. Withdraw(r, struct.gasFee) /\ UNCHANGED Authorized
    BY <1>2, AuthorizedBySignatures DEF SubmitWithdrawal
  <2> HIDE DEF r, struct
  <2>3. /\ ~IsCompleted(r) /\ UNCHANGED <<partiallyFilled, completedOrders>>
        /\ completedWithdrawals' = completedWithdrawals \cup {r}
        /\ completedTransfers' = completedTransfers
    BY <2>2 DEF Withdraw
  <2>4. r \in Authorized
    BY <2>1 DEF Authorized
  <2>5. Promise!Next
    BY <2>1, <2>2, <2>3, <2>4, RecordingIsPromised
  <2> QED BY <2>3, <2>5 DEF FilledInv
<1>3. ASSUME NEW baseSymbol \in Markets, NEW buy \in Sides(baseSymbol), NEW sell \in Sides(baseSymbol),
             NEW text \in TradeTexts, SubmitTrade(baseSymbol, buy, sell, text)
      PROVE  Promise!Next /\ FilledInv'
  <2> DEFINE arguments == getExecuteTradeArguments(buy, sell, text)
             bought == AsOrder(arguments.buy, baseSymbol)
             sold   == AsOrder(arguments.sell, baseSymbol)
             trade  == AsTrade(arguments.trade)
  <2>1. /\ arguments.buy = orderToArgumentStruct(buy.order, buy.signature, buy.authorization)
        /\ arguments.sell = orderToArgumentStruct(sell.order, sell.signature, sell.authorization)
    BY DEF getExecuteTradeArguments
  <2>2. bought \in Orders /\ sold \in Orders
    BY <2>1, OrderIsRepresented
  <2>3. IsOrderAuthorized(OrderHash(bought)) /\ IsOrderAuthorized(OrderHash(sold))
    BY <2>1, AcceptedOrderIsAuthorized
  <2>4. /\ IsTradeEncodable(arguments.trade) /\ ExecuteTrade(trade, bought, sold)
        /\ UNCHANGED Authorized
    BY <1>3, AuthorizedBySignatures DEF SubmitTrade
  <2>5. trade.base \in Nat
    BY <2>4, HashingAssumption DEF IsTradeEncodable, IsUint64, AsTrade
  <2> HIDE DEF arguments, bought, sold, trade
  <2>6. OrderHash(bought) \in Authorized /\ OrderHash(sold) \in Authorized
    BY <2>2, <2>3 DEF Authorized, OrderHashes
  <2> QED BY <2>2, <2>4, <2>5, <2>6, TradingIsPromised
<1>4. QED
  BY <1>1, <1>2, <1>3 DEF SubmitNext

\* No other transaction settles a request.
LEMMA UnsignedOrdinaryFrame ==
    ASSUME UnsignedOrdinaryNext
    PROVE  UNCHANGED requestVars
<1>1. CASE MarketAdminNext
  BY <1>1 DEF MarketAdminNext, ActivateMarket, DeactivateMarket, PriceNext, FundingNext,
     ParameterNext, PublishIndexPrice, OraclePriceChange, PublishFundingMultiplier,
     ApplyOutstandingWalletFundingForMarket, SetMarketOverrides, SetMarketDefaults,
     UnsetMarketOverridesForWallet, SetChainPropagationPeriod
<1>2. QED
  BY <1>1 DEF UnsignedOrdinaryNext, SetDepositIndex, SetDepositEnabled, Deposit,
     ApplyPendingDeposits, InvalidateNonce, ExitWallet, ClearWalletExit, Tick

LEMMA UnsignedFrame ==
    ASSUME UnsignedNext
    PROVE  UNCHANGED requestVars
<1>1. CASE LiquidationNext
  BY <1>1 DEF LiquidationNext, LiquidateWalletInMaintenance,
     LiquidateWalletInMaintenanceDuringSystemRecovery, LiquidateWalletExit,
     LiquidatePositionBelowMinimum, LiquidatePositionInDeactivatedMarket
<1>2. CASE DeleveragingNext
  BY <1>2 DEF DeleveragingNext, DeleverageInMaintenanceAcquisition, DeleverageExitAcquisition,
     DeleverageInsuranceFundClosure, DeleverageExitFundClosure
<1>3. CASE WalletExitsNext
  BY <1>3 DEF WalletExitsNext, ExitWallet, ClearWalletExit, WithdrawExit, WithdrawExitAdmin,
     WithdrawPositions, WithdrawExitFund, SetExitFundWallet
<1>4. QED
  BY <1>1, <1>2, <1>3, UnsignedOrdinaryFrame DEF UnsignedNext

\* Requests, signatures and records that stay as they are promise nothing new.
LEMMA Stuttering ==
    ASSUME UNCHANGED signatures, UNCHANGED requestVars
    PROVE  /\ UNCHANGED <<Authorized, [r \in AllRequests |-> SettledOf(r)]>>
           /\ FilledInv => FilledInv'
<1>1. ASSUME NEW r PROVE SettledOf(r)' = SettledOf(r)
  BY DEF requestVars, SettledOf, Filled
<1>2. UNCHANGED Authorized
  BY AuthorizedBySignatures
<1>3. FilledInv => FilledInv'
  BY DEF FilledInv, requestVars
<1>4. QED
  BY <1>1, <1>2, <1>3

\* At first nothing is signed and nothing settled.
LEMMA PromiseInit ==
    ASSUME SignedInit
    PROVE  Promise!Init /\ FilledInv
<1>1. signatures = {} /\ partiallyFilled = [h \in OrderHashes |-> 0] /\ completedOrders = {}
      /\ completedTransfers = {} /\ completedWithdrawals = {}
  BY DEF SignedInit, Init
<1>2. Authorized = {}
  BY <1>1 DEF Authorized, IsTransferAuthorized, IsWithdrawalAuthorized, IsOrderAuthorized,
     OrderTexts, HasSigned
<1>3. ASSUME NEW r \in AllRequests PROVE SettledOf(r) = 0
  BY <1>1 DEF SettledOf, Filled
<1>4. FilledInv
  BY <1>1 DEF FilledInv
<1>5. QED
  BY <1>2, <1>3, <1>4 DEF Promise!Init

\* Every step keeps the promise.
LEMMA PromiseNext ==
    ASSUME FilledInv, [SignedNext]_signedVars
    PROVE  /\ [Promise!Next]_<<Authorized, [r \in AllRequests |-> SettledOf(r)]>>
           /\ FilledInv'
<1>1. CASE SignNext
  <2>1. PICK signer, typedData : Sign(signer, typedData)
    BY <1>1 DEF SignNext
  <2>2. FilledInv'
    BY <2>1 DEF Sign, vars, requestVars, FilledInv
  <2> QED BY <2>1, <2>2, SigningIsPromised
<1>2. CASE SubmitNext
  BY <1>2, SubmittingIsPromised
<1>3. CASE UnsignedNext /\ UNCHANGED signatures
  <2>1. UNCHANGED requestVars
    BY <1>3, UnsignedFrame
  <2> QED BY <1>3, <2>1, Stuttering
<1>4. CASE UNCHANGED signedVars
  <2>1. UNCHANGED signatures /\ UNCHANGED requestVars
    BY <1>4 DEF signedVars, vars
  <2> QED BY <2>1, Stuttering
<1>5. QED
  BY <1>1, <1>2, <1>3, <1>4 DEF SignedNext

\* The exchange with its signatures implements Authorizations: for any set of
\* requests, keys and domains, only what is authorized is settled, and no
\* more of it than was signed.
THEOREM OnlyAuthorizedIsSettled == SignedSpec => SettlesWhatIsAuthorized
<1>1. SignedInit => Promise!Init /\ FilledInv
  BY PromiseInit
<1>2. FilledInv /\ [SignedNext]_signedVars =>
        FilledInv' /\ [Promise!Next]_<<Authorized, [r \in AllRequests |-> SettledOf(r)]>>
  BY PromiseNext
<1>3. QED
  BY <1>1, <1>2, PTL DEF SignedSpec, SettlesWhatIsAuthorized, Promise!Spec

-----------------------------------------------------------------------------
(* The client library and the contract. *)

\* The arguments of a transfer written with all decimals hash to what was signed.
LEMMA TransferHashesAgree ==
    ASSUME NEW r, NEW signature,
           r.quantity = Canonical(getTransferArguments(r, EmptyPipString, signature).grossQuantity)
    PROVE  getTransferHash(getTransferArguments(r, EmptyPipString, signature))
             = TransferTypedData(r, DomainSeparator)
<1> DEFINE struct == getTransferArguments(r, EmptyPipString, signature)
<1>1. /\ struct.sourceWallet = r.sourceWallet /\ struct.destinationWallet = r.destinationWallet
      /\ struct.nonce = uuidToHexString(r.nonce)
  BY DEF getTransferArguments
<1> HIDE DEF struct
<1>2. getTransferHash(struct) = TransferTypedData(r, DomainSeparator)
  BY <1>1 DEF getTransferHash, TransferTypedData, TypedData, pipsToDecimalString, AsUint128,
     uuidToUint128, struct
<1>3. QED
  BY <1>2 DEF struct

\* So do those of a withdrawal.
LEMMA WithdrawalHashesAgree ==
    ASSUME NEW r, NEW signature,
           r.quantity = Canonical(getWithdrawArguments(r, EmptyPipString, signature).grossQuantity),
           r.maximumGasFee
             = Canonical(getWithdrawArguments(r, EmptyPipString, signature).maximumGasFee)
    PROVE  getWithdrawalHash(getWithdrawArguments(r, EmptyPipString, signature))
             = WithdrawalTypedData(r, DomainSeparator)
<1> DEFINE struct == getWithdrawArguments(r, EmptyPipString, signature)
<1>1. /\ struct.wallet = r.wallet /\ struct.nonce = uuidToHexString(r.nonce)
      /\ struct.bridgeAdapter = r.bridgeAdapter
      /\ struct.bridgeAdapterPayload = r.bridgeAdapterPayload
  BY DEF getWithdrawArguments
<1> HIDE DEF struct
<1>2. getWithdrawalHash(struct) = WithdrawalTypedData(r, DomainSeparator)
  BY <1>1 DEF getWithdrawalHash, WithdrawalTypedData, TypedData, pipsToDecimalString, AsUint128,
     uuidToUint128, struct
<1>3. QED
  BY <1>2 DEF struct

\* Whatever transfers and withdrawals clients make, the signature over one
\* written with all decimals verifies against the arguments made of it.
THEOREM PaymentsVerify == SignedSpec => []SignedPaymentsVerify
<1>1. ASSUME NEW r, NEW signature, signature = Signature(r.sourceWallet, TransferTypedData(r, DomainSeparator)),
             r.quantity = Canonical(getTransferArguments(r, EmptyPipString, signature).grossQuantity)
      PROVE  isSignatureValid(getTransferHash(getTransferArguments(r, EmptyPipString, signature)),
                              getTransferArguments(r, EmptyPipString, signature).walletSignature,
                              getTransferArguments(r, EmptyPipString, signature).sourceWallet)
  <2>1. /\ getTransferArguments(r, EmptyPipString, signature).walletSignature = signature
        /\ getTransferArguments(r, EmptyPipString, signature).sourceWallet = r.sourceWallet
    BY DEF getTransferArguments
  <2>2. getTransferHash(getTransferArguments(r, EmptyPipString, signature))
          = TransferTypedData(r, DomainSeparator)
    BY <1>1, TransferHashesAgree
  <2> QED BY <1>1, <2>1, <2>2 DEF isSignatureValid, Signature
<1>2. ASSUME NEW r, NEW signature, signature = Signature(r.wallet, WithdrawalTypedData(r, DomainSeparator)),
             r.quantity = Canonical(getWithdrawArguments(r, EmptyPipString, signature).grossQuantity),
             r.maximumGasFee
               = Canonical(getWithdrawArguments(r, EmptyPipString, signature).maximumGasFee)
      PROVE  isSignatureValid(getWithdrawalHash(getWithdrawArguments(r, EmptyPipString, signature)),
                              getWithdrawArguments(r, EmptyPipString, signature).walletSignature,
                              getWithdrawArguments(r, EmptyPipString, signature).wallet)
  <2>1. /\ getWithdrawArguments(r, EmptyPipString, signature).walletSignature = signature
        /\ getWithdrawArguments(r, EmptyPipString, signature).wallet = r.wallet
    BY DEF getWithdrawArguments
  <2>2. getWithdrawalHash(getWithdrawArguments(r, EmptyPipString, signature))
          = WithdrawalTypedData(r, DomainSeparator)
    BY <1>2, WithdrawalHashesAgree
  <2> QED BY <1>2, <2>1, <2>2 DEF isSignatureValid, Signature
<1>3. SignedPaymentsVerify
  BY <1>1, <1>2 DEF SignedPaymentsVerify
<1>4. QED
  BY <1>3, PTL

-----------------------------------------------------------------------------
(* The exchange with its signatures is the Exchange. *)

\* What is submitted is a step of the Exchange, of what the wallets have signed.
LEMMA SubmittedTransferIsExchanged ==
    ASSUME NEW request \in TransferRequests, NEW gasFee \in GasFeeTexts, NEW signature \in signatures,
           SubmitTransfer(request, gasFee, signature)
    PROVE  \E t \in Transfers, fee \in GasFees : TransferQuote(t, fee) /\ IsTransferAuthorized(t)
<1> DEFINE struct == getTransferArguments(request, gasFee, signature)
           t      == AsTransfer(struct)
<1>1. t \in Transfers /\ IsTransferAuthorized(t)
  BY TransferIsRepresented, AcceptedTransferIsAuthorized
<1>2. TransferQuote(t, struct.gasFee) /\ IsUint64(struct.gasFee)
  BY DEF SubmitTransfer, IsTransferEncodable
<1>3. struct.gasFee = decimalToPips(gasFee)
  BY DEF getTransferArguments
<1> HIDE DEF t, struct
<1>4. struct.gasFee \in GasFees
  BY <1>2, <1>3, RepresentationAssumption
<1>5. QED
  BY <1>1, <1>2, <1>4

\* So for withdrawals, ...
LEMMA SubmittedWithdrawalIsExchanged ==
    ASSUME NEW request \in WithdrawalRequests, NEW gasFee \in GasFeeTexts, NEW signature \in signatures,
           SubmitWithdrawal(request, gasFee, signature)
    PROVE  \E r \in Withdrawals, fee \in GasFees : Withdraw(r, fee) /\ IsWithdrawalAuthorized(r)
<1> DEFINE struct == getWithdrawArguments(request, gasFee, signature)
           r      == AsWithdrawal(struct)
<1>1. r \in Withdrawals /\ IsWithdrawalAuthorized(r)
  BY WithdrawalIsRepresented, AcceptedWithdrawalIsAuthorized
<1>2. Withdraw(r, struct.gasFee) /\ IsUint64(struct.gasFee)
  BY DEF SubmitWithdrawal, IsWithdrawalEncodable
<1>3. struct.gasFee = decimalToPips(gasFee)
  BY DEF getWithdrawArguments
<1> HIDE DEF r, struct
<1>4. struct.gasFee \in GasFees
  BY <1>2, <1>3, RepresentationAssumption
<1>5. QED
  BY <1>1, <1>2, <1>4

\* ... and for trades: both orders, the trade and its fees are ones the
\* Exchange can be given.
LEMMA SubmittedTradeIsExchanged ==
    ASSUME NEW baseSymbol \in Markets, NEW buy \in Sides(baseSymbol), NEW sell \in Sides(baseSymbol),
           NEW text \in TradeTexts, SubmitTrade(baseSymbol, buy, sell, text)
    PROVE  TradingNext
<1> DEFINE arguments == getExecuteTradeArguments(buy, sell, text)
           struct == arguments.trade
           trade  == AsTrade(struct)
           bought == AsOrder(arguments.buy, baseSymbol)
           sold   == AsOrder(arguments.sell, baseSymbol)
<1>1. /\ arguments.buy = orderToArgumentStruct(buy.order, buy.signature, buy.authorization)
      /\ arguments.sell = orderToArgumentStruct(sell.order, sell.signature, sell.authorization)
      /\ struct = tradeToArgumentStruct(text, buy.order)
  BY DEF getExecuteTradeArguments
<1>2. bought \in Orders /\ sold \in Orders
  BY <1>1, OrderIsRepresented
<1>3. buy.order \in OrderRequests
  BY DEF Sides
<1>4. /\ IsTradeEncodable(struct) /\ struct.baseQuantity > 0 /\ struct.quoteQuantity > 0
      /\ ExecuteTrade(trade, bought, sold)
  BY DEF SubmitTrade
<1> HIDE DEF arguments
<1>5. trade.base = struct.baseQuantity /\ trade.quote = struct.quoteQuantity
  BY DEF AsTrade
<1>6. /\ trade.base \in BaseQuantities /\ trade.quote \in QuoteQuantities
      /\ trade.makerFee \in MakerFees /\ trade.takerFee \in TakerFees
  <2> HIDE DEF struct
  <2>1. IsTradeEncodable(struct) /\ AsTrade(struct).base > 0 /\ AsTrade(struct).quote > 0
    BY <1>4, <1>5
  <2> QED BY <1>1, <1>3, <2>1, RepresentationAssumption
<1>7. trade.makerSide \in {"Buy", "Sell"}
  <2>1. struct.makerSide \in {0, 1}
    BY <1>4 DEF IsTradeEncodable, IsEnum, OrderSides
  <2>2. trade.makerSide = OrderSides[struct.makerSide + 1]
    BY DEF AsTrade
  <2> QED BY <2>1, <2>2 DEF OrderSides
<1>8. trade.market = bought.market
  BY <1>4 DEF ExecuteTrade
<1>9. trade = [market |-> trade.market, base |-> trade.base, quote |-> trade.quote,
               makerSide |-> trade.makerSide, makerFee |-> trade.makerFee,
               takerFee |-> trade.takerFee]
  BY DEF AsTrade
<1> HIDE DEF trade, bought, sold, struct
<1>10. ExecuteTrade([market |-> bought.market, base |-> trade.base, quote |-> trade.quote,
                     makerSide |-> trade.makerSide, makerFee |-> trade.makerFee,
                     takerFee |-> trade.takerFee], bought, sold)
  BY <1>4, <1>8, <1>9
<1>11. QED
  BY <1>2, <1>6, <1>7, <1>10 DEF TradingNext

\* Each step is one of the Exchange, or signs.
LEMMA SignedStep ==
    ASSUME [SignedNext]_signedVars
    PROVE  [Next]_vars
<1>1. CASE SignNext
  <2>1. UNCHANGED vars
    BY <1>1 DEF SignNext, Sign
  <2> QED BY <2>1
<1>2. CASE SubmitNext
  <2>1. CustodyNext \/ TradingNext
    BY <1>2, SubmittedTransferIsExchanged, SubmittedWithdrawalIsExchanged, SubmittedTradeIsExchanged
       DEF SubmitNext, CustodyNext
  <2> QED BY <2>1 DEF Next
<1>3. CASE UnsignedNext
  BY <1>3 DEF UnsignedNext, UnsignedOrdinaryNext, Next, CustodyNext, TradingNext, WalletExitsNext
<1>4. CASE UNCHANGED signedVars
  BY <1>4 DEF signedVars
<1>5. QED
  BY <1>1, <1>2, <1>3, <1>4 DEF SignedNext

\* As long as nobody is liquidated, deleveraged or paid out, the steps are ordinary.
LEMMA OrdinarySignedStep ==
    ASSUME [OrdinarySignedNext]_signedVars
    PROVE  [SignedNext]_signedVars /\ [OrdinaryNext]_vars
<1>1. CASE SignNext
  <2>1. UNCHANGED vars
    BY <1>1 DEF SignNext, Sign
  <2> QED BY <1>1, <2>1 DEF SignedNext
<1>2. CASE SubmitNext
  <2>1. CustodyNext \/ TradingNext
    BY <1>2, SubmittedTransferIsExchanged, SubmittedWithdrawalIsExchanged, SubmittedTradeIsExchanged
       DEF SubmitNext, CustodyNext
  <2> QED BY <1>2, <2>1 DEF OrdinaryNext, SignedNext
<1>3. CASE UnsignedOrdinaryNext /\ UNCHANGED signatures
  <2>1. OrdinaryNext
    BY <1>3 DEF UnsignedOrdinaryNext, OrdinaryNext, CustodyNext, TradingNext
  <2>2. SignedNext
    BY <1>3 DEF SignedNext, UnsignedNext
  <2> QED BY <2>1, <2>2
<1>4. CASE UNCHANGED signedVars
  BY <1>4 DEF signedVars
<1>5. QED
  BY <1>1, <1>2, <1>3, <1>4 DEF OrdinarySignedNext

\* The exchange with its signatures is the Exchange: every theorem about the
\* Exchange holds of it, whatever its wallets sign and the dispatcher submits.
THEOREM SignedImplementsExchange == SignedSpec => Spec
<1>1. SignedInit => Init
  BY DEF SignedInit
<1>2. [SignedNext]_signedVars => [Next]_vars
  BY SignedStep
<1>3. QED
  BY <1>1, <1>2, PTL DEF SignedSpec, Spec

\* So it is while quote is only paid and traded.
THEOREM OrdinarySignedImplements == OrdinarySignedSpec => SignedSpec /\ OrdinarySpec
<1>1. SignedInit => Init
  BY DEF SignedInit
<1>2. [OrdinarySignedNext]_signedVars => [SignedNext]_signedVars /\ [OrdinaryNext]_vars
  BY OrdinarySignedStep
<1>3. QED
  BY <1>1, <1>2, PTL DEF SignedSpec, OrdinarySignedSpec, OrdinarySpec

-----------------------------------------------------------------------------
(* What is settled is signed. *)

\* The inductive invariant of what is settled: it was authorized, and the
\* signatures can be counted.
SettlementsInv ==
    /\ IsFiniteSet(signatures)
    /\ \A r \in AllRequests : SettledOf(r) > 0 => r \in Authorized /\ SettledOf(r) <= LimitOf(r)

\* At the start nothing is settled or signed.
LEMMA SettlementsInit ==
    ASSUME SignedInit
    PROVE  SettlementsInv
<1>1. IsFiniteSet(signatures)
  BY FS_EmptySet DEF SignedInit
<1>2. ASSUME NEW r \in AllRequests PROVE SettledOf(r) = 0
  BY DEF SignedInit, Init, SettledOf, Filled
<1>3. QED
  BY <1>1, <1>2 DEF SettlementsInv

\* Each step keeps the promise and makes at most one signature.
LEMMA SettlementsNext ==
    ASSUME FilledInv, SettlementsInv, [SignedNext]_signedVars
    PROVE  SettlementsInv'
<1> DEFINE was == [r \in AllRequests |-> SettledOf(r)]
           is  == [r \in AllRequests |-> SettledOf(r)']
<1>1. [Promise!Next]_<<Authorized, [r \in AllRequests |-> SettledOf(r)]>>
  BY PromiseNext
<1>2. IsFiniteSet(signatures')
  <2>1. CASE SignNext
    <3>1. PICK signer, typedData : Sign(signer, typedData)
      BY <2>1 DEF SignNext
    <3>2. signatures' = signatures \cup {Signature(signer, typedData)}
      BY <3>1 DEF Sign
    <3> QED BY <3>2, FS_AddElement DEF SettlementsInv
  <2>2. CASE UNCHANGED signatures
    BY <2>2 DEF SettlementsInv
  <2>3. CASE SubmitNext
    <3>1. UNCHANGED signatures
      BY <2>3 DEF SubmitNext, SubmitTransfer, SubmitWithdrawal, SubmitTrade
    <3> QED BY <3>1, <2>2
  <2> QED BY <2>1, <2>2, <2>3 DEF SignedNext, signedVars
<1>3. ASSUME NEW r \in AllRequests
      PROVE  \/ SettledOf(r)' = SettledOf(r) /\ (r \in Authorized => r \in Authorized')
             \/ r \in Authorized' /\ SettledOf(r)' <= LimitOf(r)
  <2>1. CASE Promise!Authorize
    <3>1. Authorized \subseteq Authorized' /\ [q \in AllRequests |-> SettledOf(q)]' = [q \in AllRequests |-> SettledOf(q)]
      BY <2>1 DEF Promise!Authorize
    <3>2. [q \in AllRequests |-> SettledOf(q)][r] = SettledOf(r) /\ [q \in AllRequests |-> SettledOf(q)]'[r] = SettledOf(r)'
      OBVIOUS
    <3> QED BY <3>1, <3>2
  <2>2. CASE Promise!Settle
    BY <2>2 DEF Promise!Settle
  <2>3. CASE UNCHANGED <<Authorized, [q \in AllRequests |-> SettledOf(q)]>>
    <3>1. [q \in AllRequests |-> SettledOf(q)][r] = SettledOf(r) /\ [q \in AllRequests |-> SettledOf(q)]'[r] = SettledOf(r)'
      OBVIOUS
    <3> QED BY <2>3, <3>1
  <2> QED BY <1>1, <2>1, <2>2, <2>3 DEF Promise!Next
<1>4. ASSUME NEW r \in AllRequests, SettledOf(r)' > 0
      PROVE  r \in Authorized' /\ SettledOf(r)' <= LimitOf(r)'
  <2>1. LimitOf(r)' = LimitOf(r)
    BY DEF LimitOf
  <2> QED BY <1>3, <1>4, <2>1 DEF SettlementsInv
<1>5. QED
  BY <1>2, <1>4 DEF SettlementsInv

\* Requests of different kinds are different records.
LEMMA KindsDiffer ==
    /\ \A h \in OrderHashes : h \notin Transfers /\ h \notin Withdrawals
    /\ \A t \in Transfers : t \notin Withdrawals
<1>1. ASSUME NEW h \in OrderHashes PROVE "side" \in DOMAIN h
  <2>1. PICK o \in Orders : h = OrderHash(o)
    BY DEF OrderHashes
  <2>2. o \in Order
    BY <2>1, RequestAssumption
  <2>3. DOMAIN o = {"wallet", "side", "market", "quantity", "limitPrice", "timeInForce",
                    "isReduceOnly", "isLiquidationAcquisitionOnly", "nonce", "details",
                    "delegatedKey"}
    BY <2>2 DEF Order
  <2>4. DOMAIN h = DOMAIN o
    BY <2>1 DEF OrderHash
  <2> QED BY <2>3, <2>4
<1>2. ASSUME NEW t \in Transfers
      PROVE  DOMAIN t = {"source", "destination", "grossQuantity", "nonce"}
  BY RequestAssumption DEF Transfer
<1>3. ASSUME NEW r \in Withdrawals
      PROVE  DOMAIN r = {"wallet", "grossQuantity", "maximumGasFee", "nonce", "route"}
  BY RequestAssumption DEF Withdrawal
<1>4. "side" \notin {"source", "destination", "grossQuantity", "nonce"}
  OBVIOUS
<1>5. "side" \notin {"wallet", "grossQuantity", "maximumGasFee", "nonce", "route"}
  OBVIOUS
<1>6. "source" \notin {"wallet", "grossQuantity", "maximumGasFee", "nonce", "route"}
      /\ "source" \in {"source", "destination", "grossQuantity", "nonce"}
  OBVIOUS
<1> QED BY <1>1, <1>2, <1>3, <1>4, <1>5, <1>6

\* An order that is filled was signed, in a text that says it and no more of it.
LEMMA FilledIsSigned ==
    ASSUME SettlementsInv, NEW h \in OrderHashes, Filled(h) > 0
    PROVE  IsOrderAuthorized(h) /\ Filled(h) <= h.quantity
<1>1. h \in AllRequests /\ SettledOf(h) = Filled(h) /\ LimitOf(h) = h.quantity
  BY DEF AllRequests, SettledOf, LimitOf
<1>2. h \in Authorized /\ Filled(h) <= h.quantity
  BY <1>1 DEF SettlementsInv
<1>3. QED
  BY <1>2, KindsDiffer DEF Authorized

\* The texts that are counted are finitely many.
LEMMA TextsAreFinite ==
    ASSUME IsFiniteSet(signatures), NEW w
    PROVE  IsFiniteSet(OrderTexts(w)) /\ \A type : IsFiniteSet(PaymentTexts(w, type))
<1> DEFINE data  == [s \in signatures |-> s.typedData]
           texts == {s.typedData : s \in signatures}
<1>1. IsFiniteSet(texts)
  <2>1. data \in Surjection(signatures, texts)
    BY DEF Surjection
  <2> HIDE DEF data, texts
  <2> QED BY <2>1, FS_Surjection
<1>2. OrderTexts(w) \subseteq texts /\ \A type : PaymentTexts(w, type) \subseteq texts
  BY DEF OrderTexts, PaymentTexts
<1> HIDE DEF texts
<1>3. QED
  BY <1>1, <1>2, FS_Subset

\* What a signed text counts for.
SignedOf(t) == IF IsPipString(t.message.quantity) THEN t.message.quantity.digits ELSE 0

\* The sum of the signed amounts, as a sum over a function.
LEMMA SignedSumIs ==
    ASSUME NEW texts
    PROVE  SignedSum(texts) = SumFunctionOnSet([t \in texts |-> SignedOf(t)], texts)
BY DEF SignedSum, SignedOf

\* It is a natural: a text with no whole pips counts for nothing.
LEMMA SignedSumType ==
    ASSUME NEW texts, IsFiniteSet(texts)
    PROVE  SignedSum(texts) \in Nat
<1> DEFINE g == [t \in texts |-> SignedOf(t)]
<1>1. \A t \in texts : g[t] \in Nat
  BY DEF SignedOf, IsPipString
<1> HIDE DEF g
<1>2. SumFunctionOnSet(g, texts) \in Nat
  BY <1>1, SumOnNat
<1> QED BY <1>2, SignedSumIs DEF g

\* What is counted of finitely many requests, each settled within a text of
\* its own, is within what the texts add up to.
LEMMA SignedSumBounds ==
    ASSUME NEW texts, IsFiniteSet(texts), NEW S, IsFiniteSet(S), NEW f, \A x \in S : f[x] \in Int,
           NEW e, \A x \in S : f[x] > 0 => /\ e[x] \in texts
                                           /\ IsPipString(e[x].message.quantity)
                                           /\ f[x] <= e[x].message.quantity.digits,
           \A x, y \in S : f[x] > 0 /\ f[y] > 0 /\ e[x] = e[y] => x = y
    PROVE  SumFunctionOnSet(f, S) <= SignedSum(texts)
<1> DEFINE g == [t \in texts |-> SignedOf(t)]
<1>1. \A t \in texts : g[t] \in Nat
  BY DEF SignedOf, IsPipString
<1>2. \A x \in S : f[x] > 0 => e[x] \in texts /\ f[x] <= g[e[x]]
  BY DEF SignedOf
<1> HIDE DEF g
<1>3. SumFunctionOnSet(f, S) <= SumFunctionOnSet(g, texts)
  BY <1>1, <1>2, SumOnInjection
<1> QED BY <1>3, SignedSumIs DEF g

\* The text that an order is filled by.
TextOf(h) == CHOOSE t \in OrderTexts(h.wallet) : Says(t.message, h)

\* A wallet's orders on one side of a market, each filled within a text of its own.
LEMMA SideIsSigned ==
    ASSUME IsFiniteSet(OrderHashes), SettlementsInv, NEW w, NEW m, NEW side \in {"Buy", "Sell"},
           NEW f, \A h \in OrderHashes :
                    /\ f[h] \in Int
                    /\ f[h] > 0 => /\ h.wallet = w /\ h.market = m /\ h.side = side
                                   /\ f[h] = Filled(h)
    PROVE  SumFunctionOnSet(f, OrderHashes) <= SignedQuantity(w, m, OrderSide[side])
<1> DEFINE texts == {t \in OrderTexts(w) : /\ t.message.orderSide = OrderSide[side]
                                           /\ t.message.marketSymbol = <<m, QuoteAssetSymbol>>}
           e     == [h \in OrderHashes |-> TextOf(h)]
<1>1. IsFiniteSet(texts)
  BY TextsAreFinite, FS_Subset DEF SettlementsInv
<1>2. ASSUME NEW h \in OrderHashes, f[h] > 0
      PROVE  e[h] \in OrderTexts(w) /\ Says(e[h].message, h) /\ f[h] <= h.quantity
             /\ h.market = m /\ h.side = side
  <2>1. h.wallet = w /\ h.market = m /\ h.side = side /\ f[h] = Filled(h)
    BY <1>2
  <2>2. IsOrderAuthorized(h) /\ Filled(h) <= h.quantity
    BY <1>2, <2>1, FilledIsSigned
  <2>3. TextOf(h) \in OrderTexts(h.wallet) /\ Says(TextOf(h).message, h)
    BY <2>2 DEF IsOrderAuthorized, TextOf
  <2> QED BY <2>1, <2>2, <2>3
<1> HIDE DEF e
<1>3. ASSUME NEW h \in OrderHashes, f[h] > 0
      PROVE  /\ e[h] \in texts /\ IsPipString(e[h].message.quantity)
             /\ f[h] <= e[h].message.quantity.digits
  <2>1. h.quantity = e[h].message.quantity.digits
    BY <1>2, <1>3, SaidOfMessage
  <2>2. /\ e[h].message.orderSide = OrderSide[h.side]
        /\ e[h].message.marketSymbol = <<h.market, QuoteAssetSymbol>>
        /\ IsPipString(e[h].message.quantity)
    BY <1>2, <1>3 DEF Says
  <2> QED BY <1>2, <1>3, <2>1, <2>2
<1>4. ASSUME NEW x \in OrderHashes, NEW y \in OrderHashes, f[x] > 0, f[y] > 0, e[x] = e[y]
      PROVE  x = y
  BY <1>2, <1>4 DEF Says
<1> HIDE DEF texts
<1>5. SumFunctionOnSet(f, OrderHashes) <= SignedSum(texts)
  BY <1>1, <1>3, <1>4, SignedSumBounds
<1> QED BY <1>5 DEF SignedQuantity, texts

\* What is filled of a wallet's orders is within what was signed for it.
LEMMA FillsAreSigned ==
    ASSUME IsFiniteSet(OrderHashes), TypeOK, SettlementsInv, NEW w \in Wallets, NEW m \in Markets
    PROVE  /\ FillsOf(w, m) \in Int
           /\ FillsOf(w, m) <= SignedQuantity(w, m, OrderSide.Buy)
           /\ -FillsOf(w, m) <= SignedQuantity(w, m, OrderSide.Sell)
           /\ SignedQuantity(w, m, OrderSide.Buy) \in Nat
           /\ SignedQuantity(w, m, OrderSide.Sell) \in Nat
<1> DEFINE f == [h \in OrderHashes |-> SignedFills(w, m, h)]
           g == [h \in OrderHashes |-> -SignedFills(w, m, h)]
<1>1. ASSUME NEW h \in OrderHashes
      PROVE  /\ f[h] \in Int /\ g[h] = -f[h] /\ g[h] \in Int
             /\ f[h] > 0 => /\ h.wallet = w /\ h.market = m /\ h.side = "Buy" /\ f[h] = Filled(h)
             /\ g[h] > 0 => /\ h.wallet = w /\ h.market = m /\ h.side = "Sell" /\ g[h] = Filled(h)
  <2>1. Filled(h) \in Nat /\ SignedFills(w, m, h) \in Int
    BY FilledType
  <2>2. h.side \in {"Buy", "Sell"}
    BY RequestAssumption DEF OrderHashes, OrderHash, Order
  <2> QED BY <2>1, <2>2 DEF SignedFills
<1>2. FillsOf(w, m) = SumFunctionOnSet(f, OrderHashes)
  BY DEF FillsOf
<1> HIDE DEF f, g
<1>3. SumFunctionOnSet(g, OrderHashes) = -SumFunctionOnSet(f, OrderHashes)
  BY <1>1, SumOnNegated
<1>4. /\ SumFunctionOnSet(f, OrderHashes) <= SignedQuantity(w, m, OrderSide["Buy"])
      /\ SumFunctionOnSet(g, OrderHashes) <= SignedQuantity(w, m, OrderSide["Sell"])
  BY <1>1, SideIsSigned
<1>5. OrderSide["Buy"] = OrderSide.Buy /\ OrderSide["Sell"] = OrderSide.Sell
  BY DEF OrderSide
<1>6. ASSUME NEW side PROVE SignedQuantity(w, m, side) \in Nat
  <2> DEFINE texts == {t \in OrderTexts(w) : /\ t.message.orderSide = side
                                             /\ t.message.marketSymbol = <<m, QuoteAssetSymbol>>}
  <2>1. IsFiniteSet(texts)
    BY TextsAreFinite, FS_Subset DEF SettlementsInv
  <2> HIDE DEF texts
  <2> QED BY <2>1, SignedSumType DEF SignedQuantity, texts
<1>7. FillsOf(w, m) \in Int
  BY FillsType
<1>8. QED
  BY <1>2, <1>3, <1>4, <1>5, <1>6, <1>7

\* Whoever submits which orders with which signatures and authorizations, and
\* however often: while positions are only traded, each wallet's stay within what
\* was signed for it, every signed text counted once.
THEOREM PositionsAreAlwaysSigned ==
    ASSUME IsFiniteSet(OrderHashes)
    PROVE  OrdinarySignedSpec => []PositionsAreSigned
<1>0. IsFiniteSet(OrderHashes)
  OBVIOUS
<1>1. OrdinarySignedSpec => []PositionsFollowOrders
  BY <1>0, OrdinarySignedImplements, PositionsAlwaysFollowOrders, PTL
<1>2. SignedInit => IInv /\ FilledInv /\ SettlementsInv
  BY InitSound, PromiseInit, SettlementsInit DEF SignedInit
<1>3. IInv /\ FilledInv /\ SettlementsInv /\ [OrdinarySignedNext]_signedVars
        => IInv' /\ FilledInv' /\ SettlementsInv'
  <2> SUFFICES ASSUME IInv, FilledInv, SettlementsInv, [OrdinarySignedNext]_signedVars
               PROVE  IInv' /\ FilledInv' /\ SettlementsInv'
    OBVIOUS
  <2>1. [SignedNext]_signedVars
    BY OrdinarySignedStep
  <2>2. [Next]_vars
    BY <2>1, SignedStep
  <2> QED BY <2>1, <2>2, NextSound, PromiseNext, SettlementsNext
<1>4. IInv /\ SettlementsInv /\ PositionsFollowOrders => PositionsAreSigned
  <2> SUFFICES ASSUME IInv, SettlementsInv, PositionsFollowOrders, NEW w \in Wallets, NEW m \in Markets
               PROVE  ledger.position[w][m].balance - InitialLedger.position[w][m].balance \in
                        -SignedQuantity(w, m, OrderSide.Sell)..SignedQuantity(w, m, OrderSide.Buy)
    BY DEF PositionsAreSigned
  <2>1. /\ ledger.position[w][m].balance = InitialLedger.position[w][m].balance + FillsOf(w, m)
        /\ InitialLedger.position[w][m].balance \in Int
    BY InitialAssumption DEF PositionsFollowOrders, Ledger, Position
  <2>2. TypeOK
    BY DEF IInv
  <2> DEFINE bought == SignedQuantity(w, m, OrderSide.Buy)
             sold   == SignedQuantity(w, m, OrderSide.Sell)
  <2>3. /\ FillsOf(w, m) \in Int /\ FillsOf(w, m) <= bought /\ -FillsOf(w, m) <= sold
        /\ bought \in Nat /\ sold \in Nat
    BY <1>0, <2>2, FillsAreSigned
  <2> HIDE DEF bought, sold
  <2>4. ledger.position[w][m].balance - InitialLedger.position[w][m].balance \in -sold..bought
    BY <2>1, <2>3
  <2> QED BY <2>4 DEF bought, sold
<1>5. QED
  BY <1>1, <1>2, <1>3, <1>4, PTL DEF OrdinarySignedSpec

-----------------------------------------------------------------------------
(* What leaves a wallet that does not trade. *)

\* A wallet without positions has none afterwards and loses at most an amount.
Loses(v, amount) ==
    ledger.open[v] = {} => ledger'.open[v] = {} /\ ledger'.quote[v] >= ledger.quote[v] - amount

\* Settling the funding of others does not touch a wallet without positions.
LEMMA BareWallet ==
    ASSUME CInv, NEW l, SoundLedger(l), SameExposure(ledger, l), NEW v \in Wallets,
           Worth(l, v, history) = Worth(ledger, v, history), ledger.open[v] = {}
    PROVE  l.open[v] = {} /\ l.quote[v] = ledger.quote[v]
<1>1. SoundLedger(ledger) /\ history \in [Markets -> Seq(Int)]
  BY LedgerDated
<1>2. \A m \in Markets : ledger.position[v][m].balance = 0
  BY <1>1, LedgerTypes
<1>3. \A m \in Markets : l.position[v][m].balance = 0
  BY <1>2 DEF SameExposure
<1>4. l.open[v] = {}
  BY <1>3, LedgerTypes
<1>5. ASSUME NEW k, k.open[v] = {} PROVE OutstandingWalletFunding(k, v, history) = 0
  <2> DEFINE f == [m \in Markets |-> IF m \in k.open[v]
                                     THEN FundingPayment(k.position[v][m], history[m], Len(history[m]))
                                     ELSE 0]
  <2>1. \A m \in 1..NumMarkets : f[m] = 0
    BY <1>5 DEF Markets
  <2>2. OutstandingWalletFunding(k, v, history) = SumTo(f, NumMarkets)
    BY DEF OutstandingWalletFunding
  <2> HIDE DEF f
  <2> QED BY <2>1, <2>2, SumToZeros, LedgerSizeAssumption
<1>6. l.quote[v] \in Int /\ ledger.quote[v] \in Int
  BY <1>1, LedgerTypes
<1>7. l.quote[v] + 0 = ledger.quote[v] + 0
  BY <1>4, <1>5 DEF Worth
<1>8. QED
  BY <1>4, <1>6, <1>7

\* What a handler leaves alone after settling funding loses nothing.
LEMMA SparedLoses ==
    ASSUME CInv, NEW l, Equals(l), NEW v \in Wallets, SoundLedger(ledger'), Spared(l, ledger', v)
    PROVE  Loses(v, 0)
<1>1. SUFFICES ASSUME ledger.open[v] = {}
               PROVE  ledger'.open[v] = {} /\ ledger'.quote[v] >= ledger.quote[v] - 0
  BY DEF Loses
<1>2. l.open[v] = {} /\ l.quote[v] = ledger.quote[v]
  BY <1>1, BareWallet DEF Equals
<1>3. ledger.quote[v] \in Int
  BY LedgerDated, LedgerTypes
<1>4. QED
  BY <1>2, <1>3 DEF Spared

\* Nor does anyone when the ledger stays.
LEMMA SameLedgerLoses ==
    ASSUME CInv, ledger' = ledger, NEW v \in Wallets
    PROVE  Loses(v, 0)
<1>1. ledger.quote[v] \in Int
  BY LedgerDated, LedgerTypes
<1>2. QED
  BY <1>1 DEF Loses

\* The source of a transfer loses no more than its gross quantity, gas fee included.
LEMMA PayerLoses ==
    ASSUME NEW l, Shaped(l), NEW source \in Wallets, NEW destination \in Wallets,
           NEW feeWallet \in Wallets, NEW grossQuantity \in Nat, NEW gasFee \in Nat,
           gasFee <= grossQuantity
    PROVE  LET k == UpdateForTransfer(l, source, destination, grossQuantity, gasFee, feeWallet)
           IN  k.open[source] = l.open[source] /\ k.quote[source] >= l.quote[source] - grossQuantity
<1> DEFINE a == AddQuote(l, source, -grossQuantity)
           b == AddQuote(a, destination, grossQuantity - gasFee)
           k == AddQuote(b, feeWallet, gasFee)
<1>1. UpdateForTransfer(l, source, destination, grossQuantity, gasFee, feeWallet) = k
  BY DEF UpdateForTransfer
<1>2. /\ -grossQuantity \in Int /\ grossQuantity - gasFee \in Int
      /\ grossQuantity - gasFee >= 0 /\ gasFee \in Int /\ gasFee >= 0
  OBVIOUS
<1>3. Shaped(a)
  BY <1>2, AddQuoteSpares
<1>4. a.open[source] = l.open[source] /\ a.quote[source] = l.quote[source] - grossQuantity
  <2>1. l.quote[source] \in Int
    BY DEF Shaped
  <2>2. a.open = l.open /\ a.quote = [l.quote EXCEPT ![source] = l.quote[source] + -grossQuantity]
    BY DEF AddQuote, SetQuote
  <2> HIDE DEF a
  <2> QED BY <2>1, <2>2 DEF Shaped
<1> HIDE DEF a
<1>5. Shaped(b) /\ Spared(a, b, source)
  BY <1>2, <1>3, AddQuoteSpares
<1> HIDE DEF b
<1>6. Shaped(k) /\ Spared(b, k, source)
  BY <1>2, <1>5, AddQuoteSpares
<1> HIDE DEF k
<1>7. Spared(a, k, source)
  BY <1>3, <1>5, <1>6, SparedAgain
<1>8. QED
  BY <1>1, <1>4, <1>7 DEF Spared

\* So does who withdraws.
LEMMA WithdrawerLoses ==
    ASSUME NEW l, Shaped(l), NEW w \in Wallets, NEW feeWallet \in Wallets,
           NEW grossQuantity \in Nat, NEW gasFee \in Nat
    PROVE  LET k == UpdateForWithdrawal(l, w, grossQuantity, gasFee, feeWallet)
           IN  k.open[w] = l.open[w] /\ k.quote[w] >= l.quote[w] - grossQuantity
<1> DEFINE a == AddQuote(l, w, -grossQuantity)
           k == AddQuote(a, feeWallet, gasFee)
<1>1. UpdateForWithdrawal(l, w, grossQuantity, gasFee, feeWallet) = k
  BY DEF UpdateForWithdrawal
<1>2. -grossQuantity \in Int /\ gasFee \in Int /\ gasFee >= 0
  OBVIOUS
<1>3. Shaped(a)
  BY <1>2, AddQuoteSpares
<1>4. a.open[w] = l.open[w] /\ a.quote[w] = l.quote[w] - grossQuantity
  <2>1. l.quote[w] \in Int
    BY DEF Shaped
  <2>2. a.open = l.open /\ a.quote = [l.quote EXCEPT ![w] = l.quote[w] + -grossQuantity]
    BY DEF AddQuote, SetQuote
  <2> HIDE DEF a
  <2> QED BY <2>1, <2>2 DEF Shaped
<1> HIDE DEF a
<1>5. Spared(a, k, w)
  BY <1>2, <1>3, AddQuoteSpares
<1>6. QED
  BY <1>1, <1>4, <1>5 DEF Spared

\* A transfer takes its gross quantity from its source and nothing from others.
LEMMA TransferLoses ==
    ASSUME CInv, NEW t \in Transfers, NEW gasFee \in GasFees, TransferQuote(t, gasFee),
           SoundLedger(ledger'), NEW v \in Wallets
    PROVE  Loses(v, IF v = t.source THEN t.grossQuantity ELSE 0)
<1> DEFINE funded == Funded(Funded(ledger, t.source), t.destination)
<1>1. /\ t.source \in Wallets /\ t.destination \in Wallets /\ t.grossQuantity \in Nat
      /\ gasFee \in Nat /\ gasFee <= t.grossQuantity /\ FeeWallet \in Wallets
  BY RequestAssumption, CustodyAssumption, ParameterAssumption DEF Transfer, TransferQuote
<1>2. Equals(funded)
  BY <1>1, FundedEquals
<1>3. ledger' = UpdateForTransfer(funded, t.source, t.destination, t.grossQuantity, gasFee,
                                  FeeWallet)
  BY DEF TransferQuote
<1> HIDE DEF funded
<1>4. Shaped(funded)
  BY <1>2, SoundIsShaped DEF Equals
<1>5. CASE v = t.source
  <2>1. /\ ledger'.open[v] = funded.open[v]
        /\ ledger'.quote[v] >= funded.quote[v] - t.grossQuantity
    BY <1>1, <1>3, <1>4, <1>5, PayerLoses
  <2>2. ledger.open[v] = {} => funded.open[v] = {} /\ funded.quote[v] = ledger.quote[v]
    BY <1>2, BareWallet DEF Equals
  <2> QED BY <1>5, <2>1, <2>2 DEF Loses
<1>6. CASE v # t.source
  <2>1. Spared(funded, ledger', v)
    BY <1>1, <1>3, <1>4, <1>6, TransferSpares
  <2> QED BY <1>2, <1>6, <2>1, SparedLoses
<1>7. QED
  BY <1>5, <1>6

\* A withdrawal takes its gross quantity from its wallet and nothing from others.
LEMMA WithdrawalLoses ==
    ASSUME CInv, NEW r \in Withdrawals, NEW gasFee \in GasFees, Withdraw(r, gasFee),
           SoundLedger(ledger'), NEW v \in Wallets
    PROVE  Loses(v, IF v = r.wallet THEN r.grossQuantity ELSE 0)
<1> DEFINE funded == Funded(ledger, r.wallet)
<1>1. r.wallet \in Wallets /\ r.grossQuantity \in Nat /\ gasFee \in Nat /\ FeeWallet \in Wallets
  BY RequestAssumption, CustodyAssumption, ParameterAssumption DEF Withdrawal
<1>2. Equals(funded)
  BY <1>1, FundedEquals
<1>3. ledger' = UpdateForWithdrawal(funded, r.wallet, r.grossQuantity, gasFee, FeeWallet)
  BY DEF Withdraw
<1> HIDE DEF funded
<1>4. Shaped(funded)
  BY <1>2, SoundIsShaped DEF Equals
<1>5. CASE v = r.wallet
  <2>1. /\ ledger'.open[v] = funded.open[v]
        /\ ledger'.quote[v] >= funded.quote[v] - r.grossQuantity
    BY <1>1, <1>3, <1>4, <1>5, WithdrawerLoses
  <2>2. ledger.open[v] = {} => funded.open[v] = {} /\ funded.quote[v] = ledger.quote[v]
    BY <1>2, BareWallet DEF Equals
  <2> QED BY <1>5, <2>1, <2>2 DEF Loses
<1>6. CASE v # r.wallet
  <2>1. Spared(funded, ledger', v)
    BY <1>1, <1>3, <1>4, <1>6, WithdrawalSpares
  <2> QED BY <1>2, <1>6, <2>1, SparedLoses
<1>7. QED
  BY <1>5, <1>6

\* A trade takes nothing from who is no party to it.
LEMMA TradeLoses ==
    ASSUME CInv, NEW trade \in Trade, NEW buy \in Orders, NEW sell \in Orders,
           ExecuteTrade(trade, buy, sell), SoundLedger(ledger'),
           NEW v \in Wallets \ {buy.wallet, sell.wallet}
    PROVE  Loses(v, 0)
<1> DEFINE buyFee  == IF trade.makerSide = "Buy" THEN trade.makerFee ELSE trade.takerFee
           sellFee == IF trade.makerSide = "Buy" THEN trade.takerFee ELSE trade.makerFee
           funded  == Funded(Funded(ledger, buy.wallet), sell.wallet)
<1>1. /\ buy.wallet \in Wallets /\ sell.wallet \in Wallets /\ FeeWallet \in Wallets
      /\ trade.makerFee \in Int /\ trade.takerFee \in Nat /\ trade.quote \in Int
  BY RequestAssumption, ParameterAssumption DEF Order, Trade
<1>2. buyFee \in Int /\ sellFee \in Int /\ buyFee + sellFee >= 0
  <2>1. trade.makerFee < 0 => -trade.makerFee <= trade.takerFee
    BY DEF ExecuteTrade, AreFeesValid
  <2>2. trade.makerFee + trade.takerFee >= 0
    <3>1. CASE trade.makerFee < 0
      BY <1>1, <2>1, <3>1
    <3>2. CASE ~(trade.makerFee < 0)
      BY <1>1, <3>2
    <3> QED BY <3>1, <3>2
  <2> QED BY <1>1, <2>2
<1>3. Equals(funded)
  BY <1>1, FundedEquals
<1>4. ledger' = UpdateForTrade(funded, buy.wallet, sell.wallet, trade.market, trade.base,
                               trade.quote, buyFee, sellFee, FeeWallet, Published)
  BY DEF ExecuteTrade
<1> HIDE DEF buyFee, sellFee, funded
<1>5. Shaped(funded)
  BY <1>3, SoundIsShaped DEF Equals
<1>6. Spared(funded, ledger', v)
  BY <1>1, <1>2, <1>4, <1>5, UpdateForTradeSpares
<1>7. QED
  BY <1>3, <1>6, SparedLoses

-----------------------------------------------------------------------------
(* What a wallet has paid. *)

HasTraded(w) == \E h \in OrderHashes : h.wallet = w /\ Filled(h) > 0

Sent(w)      == {t \in completedTransfers : t.source = w}
Withdrawn(w) == {r \in completedWithdrawals : r.wallet = w}

GrossSum(S) == SumFunctionOnSet([r \in S |-> r.grossQuantity], S)

PaidBy(w) == GrossSum(Sent(w)) + GrossSum(Withdrawn(w))

\* A wallet that began without positions and has not traded.
OnlyPays(w) == InitialLedger.open[w] = {} /\ ~HasTraded(w)

PaysWhatItLoses(w) ==
    OnlyPays(w) =>
        ledger.open[w] = {} /\ ledger.quote[w] + PaidBy(w) >= InitialLedger.quote[w]

\* The inductive invariant: a wallet that only pays has lost no more than the
\* requests it paid amount to.
PaidInv ==
    /\ IsFiniteSet(completedTransfers) /\ IsFiniteSet(completedWithdrawals)
    /\ \A w \in Wallets : PaysWhatItLoses(w)

\* What is paid is a natural, ...
LEMMA GrossTypes ==
    ASSUME NEW S, IsFiniteSet(S), \A x \in S : x.grossQuantity \in Nat
    PROVE  GrossSum(S) \in Nat
<1> DEFINE f == [r \in S |-> r.grossQuantity]
<1>1. \A x \in S : f[x] \in Nat
  OBVIOUS
<1> HIDE DEF f
<1>2. SumFunctionOnSet(f, S) \in Nat
  BY <1>1, SumOnNat
<1> QED BY <1>2 DEF GrossSum, f

\* ... and a request more adds its gross quantity.
LEMMA GrossAdds ==
    ASSUME NEW S, IsFiniteSet(S), NEW a, a \notin S, \A x \in S \cup {a} : x.grossQuantity \in Nat
    PROVE  GrossSum(S \cup {a}) = GrossSum(S) + a.grossQuantity
<1> DEFINE T == S \cup {a}
           f == [r \in S |-> r.grossQuantity]
           g == [r \in T |-> r.grossQuantity]
<1>1. IsFiniteSet(T) /\ S \ {a} = T \ {a} /\ a \in T
  BY FS_AddElement
<1>2. /\ \A x \in S : f[x] \in Int
      /\ \A x \in T : g[x] \in Int
      /\ \A x \in S \ {a} : g[x] = f[x]
      /\ g[a] = a.grossQuantity
  OBVIOUS
<1>3. GrossSum(S) = SumFunctionOnSet(f, S) /\ GrossSum(T) = SumFunctionOnSet(g, T)
  BY DEF GrossSum
<1> HIDE DEF f, g, T
<1>4. SumFunctionOnSet(g, T) = SumFunctionOnSet(f, S) - (IF a \in S THEN f[a] ELSE 0)
                                                      + (IF a \in T THEN g[a] ELSE 0)
  BY <1>1, <1>2, SumOnChange
<1>5. SumFunctionOnSet(f, S) \in Int /\ g[a] \in Int
  BY <1>1, <1>2, SumOnType
<1>6. SumFunctionOnSet(g, T) = SumFunctionOnSet(f, S) + g[a]
  BY <1>1, <1>4, <1>5
<1> QED BY <1>2, <1>3, <1>6 DEF T

\* What is completed are the Exchange's requests, finitely many.
LEMMA PaidTypes ==
    ASSUME TypeOK, PaidInv, NEW w \in Wallets
    PROVE  /\ IsFiniteSet(Sent(w)) /\ \A t \in Sent(w) : t.grossQuantity \in Nat
           /\ IsFiniteSet(Withdrawn(w)) /\ \A r \in Withdrawn(w) : r.grossQuantity \in Nat
           /\ GrossSum(Sent(w)) \in Nat /\ GrossSum(Withdrawn(w)) \in Nat /\ PaidBy(w) \in Nat
<1>1. IsFiniteSet(Sent(w)) /\ IsFiniteSet(Withdrawn(w))
  BY FS_Subset DEF PaidInv, Sent, Withdrawn
<1>2. /\ \A t \in Sent(w) : t.grossQuantity \in Nat
      /\ \A r \in Withdrawn(w) : r.grossQuantity \in Nat
  BY RequestAssumption DEF TypeOK, Sent, Withdrawn, Transfer, Withdrawal
<1>3. GrossSum(Sent(w)) \in Nat /\ GrossSum(Withdrawn(w)) \in Nat
  BY <1>1, <1>2, GrossTypes
<1>4. PaidBy(w) \in Nat
  BY <1>3 DEF PaidBy
<1> QED BY <1>1, <1>2, <1>3, <1>4

\* A transfer that completes is paid by its source.
LEMMA TransferPaid ==
    ASSUME TypeOK, PaidInv, NEW w \in Wallets, NEW t \in Transfers, t \notin completedTransfers,
           completedTransfers' = completedTransfers \cup {t}, UNCHANGED completedWithdrawals
    PROVE  PaidBy(w)' = PaidBy(w) + (IF w = t.source THEN t.grossQuantity ELSE 0)
<1>1. t.grossQuantity \in Nat
  BY RequestAssumption DEF Transfer
<1>2. GrossSum(Sent(w)) \in Nat /\ GrossSum(Withdrawn(w)) \in Nat
  BY PaidTypes
<1>3. Withdrawn(w)' = Withdrawn(w)
  BY DEF Withdrawn
<1>4. CASE w = t.source
  <2>1. Sent(w)' = Sent(w) \cup {t} /\ t \notin Sent(w)
    BY <1>4 DEF Sent
  <2>2. IsFiniteSet(Sent(w)) /\ \A x \in Sent(w) \cup {t} : x.grossQuantity \in Nat
    BY <1>1, PaidTypes
  <2>3. GrossSum(Sent(w) \cup {t}) = GrossSum(Sent(w)) + t.grossQuantity
    BY <2>1, <2>2, GrossAdds
  <2>4. PaidBy(w)' = GrossSum(Sent(w) \cup {t}) + GrossSum(Withdrawn(w))
    BY <1>3, <2>1 DEF PaidBy, GrossSum
  <2> QED BY <1>1, <1>2, <1>4, <2>3, <2>4 DEF PaidBy
<1>5. CASE w # t.source
  <2>1. Sent(w)' = Sent(w)
    BY <1>5 DEF Sent
  <2>2. PaidBy(w)' = PaidBy(w)
    BY <1>3, <2>1 DEF PaidBy, GrossSum
  <2>3. PaidBy(w) \in Nat
    BY PaidTypes
  <2> QED BY <1>5, <2>2, <2>3
<1> QED BY <1>4, <1>5

\* A withdrawal that completes is paid by its wallet.
LEMMA WithdrawalPaid ==
    ASSUME TypeOK, PaidInv, NEW w \in Wallets, NEW r \in Withdrawals, r \notin completedWithdrawals,
           completedWithdrawals' = completedWithdrawals \cup {r}, UNCHANGED completedTransfers
    PROVE  PaidBy(w)' = PaidBy(w) + (IF w = r.wallet THEN r.grossQuantity ELSE 0)
<1>1. r.grossQuantity \in Nat
  BY RequestAssumption DEF Withdrawal
<1>2. GrossSum(Sent(w)) \in Nat /\ GrossSum(Withdrawn(w)) \in Nat
  BY PaidTypes
<1>3. Sent(w)' = Sent(w)
  BY DEF Sent
<1>4. CASE w = r.wallet
  <2>1. Withdrawn(w)' = Withdrawn(w) \cup {r} /\ r \notin Withdrawn(w)
    BY <1>4 DEF Withdrawn
  <2>2. IsFiniteSet(Withdrawn(w)) /\ \A x \in Withdrawn(w) \cup {r} : x.grossQuantity \in Nat
    BY <1>1, PaidTypes
  <2>3. GrossSum(Withdrawn(w) \cup {r}) = GrossSum(Withdrawn(w)) + r.grossQuantity
    BY <2>1, <2>2, GrossAdds
  <2>4. PaidBy(w)' = GrossSum(Sent(w)) + GrossSum(Withdrawn(w) \cup {r})
    BY <1>3, <2>1 DEF PaidBy, GrossSum
  <2> QED BY <1>1, <1>2, <1>4, <2>3, <2>4 DEF PaidBy
<1>5. CASE w # r.wallet
  <2>1. Withdrawn(w)' = Withdrawn(w)
    BY <1>5 DEF Withdrawn
  <2>2. PaidBy(w)' = PaidBy(w)
    BY <1>3, <2>1 DEF PaidBy, GrossSum
  <2>3. PaidBy(w) \in Nat
    BY PaidTypes
  <2> QED BY <1>5, <2>2, <2>3
<1> QED BY <1>4, <1>5

\* A step of which a wallet comes out with no less than it paid in it.
LEMMA LosesWhatItPays ==
    ASSUME CInv, PaidInv, SoundLedger(ledger'), NEW w \in Wallets, NEW amount \in Nat,
           Loses(w, amount), PaidBy(w)' = PaidBy(w) + amount, HasTraded(w) => HasTraded(w)'
    PROVE  PaysWhatItLoses(w)'
<1>1. /\ ledger.quote[w] \in Int /\ ledger'.quote[w] \in Int /\ PaidBy(w) \in Nat
      /\ InitialLedger.quote[w] \in Int
  BY LedgerDated, LedgerTypes, PaidTypes, InitialAssumption DEF CInv, IInv, Ledger
<1>2. SUFFICES ASSUME OnlyPays(w)'
               PROVE  ledger'.open[w] = {} /\ ledger'.quote[w] + PaidBy(w)' >= InitialLedger.quote[w]
  BY DEF PaysWhatItLoses
<1>3. OnlyPays(w)
  BY <1>2 DEF OnlyPays
<1>4. ledger.open[w] = {} /\ ledger.quote[w] + PaidBy(w) >= InitialLedger.quote[w]
  BY <1>3 DEF PaidInv, PaysWhatItLoses
<1>5. ledger'.open[w] = {} /\ ledger'.quote[w] >= ledger.quote[w] - amount
  BY <1>4 DEF Loses
<1> QED BY <1>1, <1>4, <1>5

\* A step that completes nothing, of which the wallet loses nothing unless it trades.
Idle(w) ==
    /\ UNCHANGED <<completedTransfers, completedWithdrawals>>
    /\ HasTraded(w) => HasTraded(w)'
    /\ Loses(w, 0) \/ HasTraded(w)'

\* A step that is idle for everyone keeps the invariant.
LEMMA IdleStep ==
    ASSUME CInv, PaidInv, SoundLedger(ledger'), \A w \in Wallets : Idle(w)
    PROVE  PaidInv'
<1>1. ASSUME NEW w \in Wallets
      PROVE  PaysWhatItLoses(w)'
  <2>1. CASE HasTraded(w)'
    BY <2>1 DEF PaysWhatItLoses, OnlyPays
  <2>2. CASE ~HasTraded(w)'
    <3>1. /\ Loses(w, 0) /\ HasTraded(w) => HasTraded(w)'
          /\ UNCHANGED <<completedTransfers, completedWithdrawals>>
      BY <2>2 DEF Idle
    <3>2. PaidBy(w) \in Nat
      BY PaidTypes DEF CInv, IInv
    <3>3. PaidBy(w)' = PaidBy(w) + 0
      BY <3>1, <3>2 DEF PaidBy, GrossSum, Sent, Withdrawn
    <3>4. Loses(w, 0) /\ (HasTraded(w) => HasTraded(w)')
      BY <2>2 DEF Idle
    <3> QED BY <3>3, <3>4, LosesWhatItPays
  <2> QED BY <2>1, <2>2
<1>2. IsFiniteSet(completedTransfers') /\ IsFiniteSet(completedWithdrawals')
  <2>1. PICK w \in Wallets : TRUE
    BY ParameterAssumption
  <2>2. UNCHANGED <<completedTransfers, completedWithdrawals>>
    BY <2>1 DEF Idle
  <2> QED BY <2>2 DEF PaidInv
<1>3. QED
  BY <1>1, <1>2 DEF PaidInv

\* What keeps the requests and their fills.
LEMMA KeptIsIdle ==
    ASSUME UNCHANGED requestVars, NEW w, Loses(w, 0)
    PROVE  Idle(w)
<1>1. HasTraded(w)' = HasTraded(w)
  BY DEF HasTraded, Filled, requestVars
<1> QED BY <1>1 DEF Idle, requestVars

\* A trade is idle: its sides have traded, and the others lose nothing.
LEMMA TradeIsIdle ==
    ASSUME CInv, SoundLedger(ledger'), NEW trade \in Trade, NEW buy \in Orders, NEW sell \in Orders,
           ExecuteTrade(trade, buy, sell), NEW w \in Wallets
    PROVE  Idle(w)
<1>1. UNCHANGED <<completedTransfers, completedWithdrawals>>
  BY DEF ExecuteTrade
<1>2. TypeOK /\ trade.base \in Nat \ {0}
  BY DEF CInv, IInv, Trade
<1>3. ASSUME NEW h \in OrderHashes
      PROVE  /\ Filled(h) \in Nat /\ Filled(h)' >= Filled(h)
             /\ h \in {OrderHash(buy), OrderHash(sell)} => Filled(h)' > 0
  <2>1. Filled(h) \in Nat
    BY <1>2, FilledType
  <2>2. Filled(h)' = IF h \in {OrderHash(buy), OrderHash(sell)} THEN Filled(h) + trade.base
                                                                ELSE Filled(h)
    BY <1>2, TradeFills
  <2> QED BY <1>2, <2>1, <2>2
<1>4. HasTraded(w) => HasTraded(w)'
  <2>1. ASSUME NEW h \in OrderHashes, Filled(h) > 0
        PROVE  Filled(h)' > 0
    <3>1. Filled(h) \in Nat /\ Filled(h)' >= Filled(h)
      BY <1>3
    <3>2. Filled(h)' \in Int
      <4>1. Filled(h)' = IF h \in {OrderHash(buy), OrderHash(sell)} THEN Filled(h) + trade.base
                                                                    ELSE Filled(h)
        BY <1>2, TradeFills
      <4> QED BY <1>2, <3>1, <4>1
    <3> QED BY <2>1, <3>1, <3>2
  <2> QED BY <2>1 DEF HasTraded
<1>5. CASE w \in {buy.wallet, sell.wallet}
  <2>1. PICK o \in {buy, sell} : o.wallet = w
    BY <1>5
  <2>2. OrderHash(o) \in OrderHashes /\ OrderHash(o).wallet = w
    BY <2>1, RequestAssumption DEF OrderHashes, OrderHash, Order
  <2>3. HasTraded(w)'
    BY <1>3, <2>2 DEF HasTraded
  <2> QED BY <1>1, <2>3 DEF Idle
<1>6. CASE w \notin {buy.wallet, sell.wallet}
  BY <1>1, <1>4, <1>6, TradeLoses DEF Idle
<1> QED BY <1>5, <1>6

\* Deposits cost nothing; a transfer or a withdrawal costs what it completes.
LEMMA CustodyPaid ==
    ASSUME CInv, PaidInv, CustodyNext, SoundLedger(ledger')
    PROVE  PaidInv'
<1>1. CASE \/ SetDepositIndex
           \/ \E isEnabled \in BOOLEAN : SetDepositEnabled(isEnabled)
           \/ \E source, depositor \in Wallets, units \in DepositUnits, tokenFee \in TokenFees :
                 Deposit(source, depositor, units, tokenFee)
  <2>1. ledger' = ledger /\ UNCHANGED requestVars
    BY <1>1 DEF SetDepositIndex, SetDepositEnabled, Deposit
  <2> QED BY <2>1, SameLedgerLoses, KeptIsIdle, IdleStep
<1>2. ASSUME NEW v \in Wallets, NEW quantity \in 1..pendingDepositQuantity[v],
             ApplyPendingDeposits(v, quantity)
      PROVE  PaidInv'
  <2>1. quantity \in Int /\ quantity >= 0 /\ SoundLedger(ledger) /\ Shaped(ledger)
    BY LedgerDated, SoundIsShaped
  <2>2. ledger' = AddQuote(ledger, v, quantity) /\ UNCHANGED requestVars
    BY <1>2 DEF ApplyPendingDeposits, UpdateForDeposit
  <2>3. Equals(ledger)
    BY <2>1 DEF Equals, SameExposure
  <2>4. ASSUME NEW w \in Wallets PROVE Idle(w)
    <3>1. Spared(ledger, ledger', w)
      BY <2>1, <2>2, AddQuoteSpares
    <3> QED BY <2>2, <2>3, <3>1, SparedLoses, KeptIsIdle
  <2> QED BY <2>4, IdleStep
<1>3. ASSUME NEW t \in Transfers, NEW gasFee \in GasFees, TransferQuote(t, gasFee)
      PROVE  PaidInv'
  <2>1. /\ t \notin completedTransfers /\ completedTransfers' = completedTransfers \cup {t}
        /\ UNCHANGED <<completedWithdrawals, partiallyFilled, completedOrders>>
    BY <1>3 DEF TransferQuote, IsCompleted
  <2>2. t.grossQuantity \in Nat /\ TypeOK
    BY RequestAssumption DEF Transfer, CInv, IInv
  <2>3. ASSUME NEW w \in Wallets PROVE PaysWhatItLoses(w)'
    <3> DEFINE amount == IF w = t.source THEN t.grossQuantity ELSE 0
    <3>1. amount \in Nat
      BY <2>2
    <3>2. Loses(w, amount)
      BY <1>3, TransferLoses
    <3>3. PaidBy(w)' = PaidBy(w) + amount
      BY <2>1, <2>2, TransferPaid
    <3>4. HasTraded(w)' = HasTraded(w)
      BY <2>1 DEF HasTraded, Filled
    <3> HIDE DEF amount
    <3> QED BY <3>1, <3>2, <3>3, <3>4, LosesWhatItPays
  <2>4. IsFiniteSet(completedTransfers') /\ IsFiniteSet(completedWithdrawals')
    BY <2>1, FS_AddElement DEF PaidInv
  <2> QED BY <2>3, <2>4 DEF PaidInv
<1>4. ASSUME NEW r \in Withdrawals, NEW gasFee \in GasFees, Withdraw(r, gasFee)
      PROVE  PaidInv'
  <2>1. /\ r \notin completedWithdrawals /\ completedWithdrawals' = completedWithdrawals \cup {r}
        /\ UNCHANGED <<completedTransfers, partiallyFilled, completedOrders>>
    BY <1>4 DEF Withdraw, IsCompleted
  <2>2. r.grossQuantity \in Nat /\ TypeOK
    BY RequestAssumption DEF Withdrawal, CInv, IInv
  <2>3. ASSUME NEW w \in Wallets PROVE PaysWhatItLoses(w)'
    <3> DEFINE amount == IF w = r.wallet THEN r.grossQuantity ELSE 0
    <3>1. amount \in Nat
      BY <2>2
    <3>2. Loses(w, amount)
      BY <1>4, WithdrawalLoses
    <3>3. PaidBy(w)' = PaidBy(w) + amount
      BY <2>1, <2>2, WithdrawalPaid
    <3>4. HasTraded(w)' = HasTraded(w)
      BY <2>1 DEF HasTraded, Filled
    <3> HIDE DEF amount
    <3> QED BY <3>1, <3>2, <3>3, <3>4, LosesWhatItPays
  <2>4. IsFiniteSet(completedTransfers') /\ IsFiniteSet(completedWithdrawals')
    BY <2>1, FS_AddElement DEF PaidInv
  <2> QED BY <2>3, <2>4 DEF PaidInv
<1>5. QED
  BY <1>1, <1>2, <1>3, <1>4 DEF CustodyNext

\* The invariant is inductive.
LEMMA PaidNext ==
    ASSUME CInv, PaidInv, [OrdinaryNext]_vars
    PROVE  CInv' /\ PaidInv'
<1>1. [Next]_vars
  BY DEF OrdinaryNext, Next, WalletExitsNext
<1>2. CInv'
  BY <1>1, NextCurrent
<1>3. SoundLedger(ledger')
  BY <1>2 DEF CInv, IInv, TypeOK, OpenMarketsAreTracked, SoundLedger
<1> SUFFICES PaidInv'
  BY <1>2
<1>4. CASE CustodyNext
  BY <1>3, <1>4, CustodyPaid
<1>5. CASE TradingNext
  <2>1. ASSUME NEW w, NEW timestamp, InvalidateNonce(w, timestamp)
        PROVE  PaidInv'
    <3>1. ledger' = ledger /\ UNCHANGED requestVars
      BY <2>1 DEF InvalidateNonce
    <3> QED BY <1>3, <3>1, SameLedgerLoses, KeptIsIdle, IdleStep
  <2>2. ASSUME NEW buy \in Orders, NEW sell \in Orders, NEW base \in BaseQuantities,
               NEW quote \in QuoteQuantities, NEW makerSide \in {"Buy", "Sell"},
               NEW makerFee \in MakerFees, NEW takerFee \in TakerFees,
               ExecuteTrade([market |-> buy.market, base |-> base, quote |-> quote,
                             makerSide |-> makerSide, makerFee |-> makerFee,
                             takerFee |-> takerFee], buy, sell)
        PROVE  PaidInv'
    <3> DEFINE trade == [market |-> buy.market, base |-> base, quote |-> quote,
                         makerSide |-> makerSide, makerFee |-> makerFee, takerFee |-> takerFee]
    <3>1. /\ buy.market \in Markets /\ base \in Nat \ {0} /\ quote \in Nat \ {0}
          /\ makerFee \in Int /\ takerFee \in Nat
      BY TradingAssumption, RequestAssumption DEF Order
    <3>2. trade \in Trade
      BY <3>1 DEF Trade
    <3>3. ExecuteTrade(trade, buy, sell)
      BY <2>2
    <3> HIDE DEF trade
    <3> QED BY <1>3, <3>2, <3>3, TradeIsIdle, IdleStep
  <2> QED BY <1>5, <2>1, <2>2 DEF TradingNext
<1>6. CASE MarketAdminNext
  <2>1. ASSUME NEW v \in Wallets, NEW m \in Markets, ApplyOutstandingWalletFundingForMarket(v, m)
        PROVE  PaidInv'
    <3>1. UNCHANGED requestVars
      BY <2>1 DEF ApplyOutstandingWalletFundingForMarket
    <3>2. SameExposure(ledger, ledger')
      BY <2>1, LedgerDated, ApplyFundingForMarketExposure
    <3>3. ASSUME NEW w \in Wallets PROVE Idle(w)
      <4>1. Worth(ledger', w, history) = Worth(ledger, w, history)
        BY <1>3, <2>1, ApplyFundingForMarketWorth
      <4>2. ledger.open[w] = {} => ledger'.open[w] = {} /\ ledger'.quote[w] = ledger.quote[w]
        BY <1>3, <3>2, <4>1, BareWallet
      <4>3. ledger.quote[w] \in Int
        BY LedgerDated, LedgerTypes
      <4>4. Loses(w, 0)
        BY <4>2, <4>3 DEF Loses
      <4> QED BY <3>1, <4>4, KeptIsIdle
    <3> QED BY <1>3, <3>3, IdleStep
  <2>2. CASE ~\E w \in Wallets, m \in Markets : ApplyOutstandingWalletFundingForMarket(w, m)
    <3>1. ledger' = ledger /\ UNCHANGED requestVars
      BY <1>6, <2>2 DEF MarketAdminNext, ActivateMarket, DeactivateMarket, PriceNext,
         FundingNext, ParameterNext, PublishIndexPrice, OraclePriceChange,
         PublishFundingMultiplier, SetMarketOverrides, SetMarketDefaults,
         UnsetMarketOverridesForWallet, SetChainPropagationPeriod
    <3> QED BY <1>3, <3>1, SameLedgerLoses, KeptIsIdle, IdleStep
  <2> QED BY <2>1, <2>2
<1>7. CASE \/ \E w \in Wallets : ExitWallet(w) \/ ClearWalletExit(w)
           \/ Tick \/ UNCHANGED vars
  <2>1. ledger' = ledger /\ UNCHANGED requestVars
    BY <1>7 DEF ExitWallet, ClearWalletExit, Tick, vars
  <2> QED BY <1>3, <2>1, SameLedgerLoses, KeptIsIdle, IdleStep
<1>8. QED
  BY <1>4, <1>5, <1>6, <1>7 DEF OrdinaryNext

\* At the start nothing is paid.
LEMMA PaidInit ==
    ASSUME Init
    PROVE  PaidInv
<1>1. completedTransfers = {} /\ completedWithdrawals = {} /\ ledger = InitialLedger
  BY DEF Init
<1>2. ASSUME NEW w \in Wallets
      PROVE  PaysWhatItLoses(w)
  <2>1. Sent(w) = {} /\ Withdrawn(w) = {}
    BY <1>1 DEF Sent, Withdrawn
  <2>2. GrossSum({}) = 0
    BY SumOnEmpty DEF GrossSum
  <2>3. PaidBy(w) = 0
    BY <2>1, <2>2 DEF PaidBy
  <2>4. InitialLedger.quote[w] \in Int
    BY InitialAssumption DEF Ledger
  <2> QED BY <1>1, <2>3, <2>4 DEF PaysWhatItLoses, OnlyPays
<1>3. QED
  BY <1>1, <1>2, FS_EmptySet DEF PaidInv

TransferText(t) ==
    [domain |-> DomainSeparator, type |-> "Transfer",
     message |-> [nonce |-> t.nonce, sourceWallet |-> t.source,
                  destinationWallet |-> t.destination, quantity |-> Canonical(t.grossQuantity)]]

WithdrawalText(r) ==
    [domain |-> DomainSeparator, type |-> "Withdrawal",
     message |-> [nonce |-> r.nonce, wallet |-> r.wallet, quantity |-> Canonical(r.grossQuantity),
                  maximumGasFee |-> Canonical(r.maximumGasFee),
                  bridgeAdapter |-> r.route[1], bridgeAdapterPayload |-> r.route[2]]]

\* Canonical texts are whole pips.
LEMMA PipStrings ==
    ASSUME NEW n \in Nat
    PROVE  IsPipString(Canonical(n)) /\ Canonical(n).digits = n
BY DEF IsPipString, Canonical, Text

\* A wallet's completed transfers, each within a signed text of its own: the
\* text says source, destination, nonce and amount.
LEMMA TransfersAreSigned ==
    ASSUME TypeOK, PaidInv, SettlementsInv, NEW w \in Wallets
    PROVE  GrossSum(Sent(w)) <= SignedSum(PaymentTexts(w, "Transfer"))
<1> DEFINE texts == PaymentTexts(w, "Transfer")
           S == Sent(w)
           f == [t \in S |-> t.grossQuantity]
           e == [t \in S |-> TransferText(t)]
<1>1. IsFiniteSet(texts) /\ IsFiniteSet(S)
  BY TextsAreFinite, PaidTypes DEF SettlementsInv
<1>2. ASSUME NEW t \in S
      PROVE  /\ t \in Transfers /\ t \in Transfer /\ t \in completedTransfers /\ t.source = w
             /\ t.grossQuantity \in Nat
  BY RequestAssumption, PaidTypes DEF TypeOK, Sent
<1>3. ASSUME NEW t \in S, t.grossQuantity > 0
      PROVE  TransferText(t) \in texts
  <2>1. t \in AllRequests /\ SettledOf(t) = t.grossQuantity
    BY <1>2, KindsDiffer DEF AllRequests, SettledOf
  <2>2. t \in Authorized
    BY <1>3, <2>1 DEF SettlementsInv
  <2>3. IsTransferAuthorized(t)
    BY <1>2, <2>2, KindsDiffer DEF Authorized
  <2>4. Signature(t.source, TransferText(t)) \in signatures
    BY <2>3 DEF IsTransferAuthorized, HasSigned, TransferText
  <2> QED BY <1>2, <2>4 DEF PaymentTexts, Signature, TransferText
<1>4. \A t \in S : f[t] = t.grossQuantity /\ e[t] = TransferText(t)
  OBVIOUS
<1>5. GrossSum(S) = SumFunctionOnSet(f, S)
  BY DEF GrossSum
<1> HIDE DEF f, e, S
<1>6. ASSUME NEW t \in S, f[t] > 0
      PROVE  /\ e[t] \in texts /\ IsPipString(e[t].message.quantity)
             /\ f[t] <= e[t].message.quantity.digits
  <2>1. t.grossQuantity > 0 /\ t.grossQuantity \in Nat /\ f[t] = t.grossQuantity
    BY <1>2, <1>4, <1>6
  <2>2. e[t] \in texts
    BY <1>3, <1>4, <2>1
  <2>3. e[t].message.quantity = Canonical(t.grossQuantity)
    <3>1. TransferText(t).message.quantity = Canonical(t.grossQuantity)
      BY DEF TransferText
    <3>2. e[t] = TransferText(t)
      BY <1>4
    <3> QED BY <3>1, <3>2
  <2>4. IsPipString(Canonical(t.grossQuantity)) /\ Canonical(t.grossQuantity).digits = t.grossQuantity
    BY <2>1, PipStrings
  <2> QED BY <2>1, <2>2, <2>3, <2>4
<1>7. ASSUME NEW x \in S, NEW y \in S, f[x] > 0, f[y] > 0, e[x] = e[y]
      PROVE  x = y
  <2>1. TransferText(x).message = TransferText(y).message
    BY <1>4, <1>7
  <2>2. /\ x.nonce = y.nonce /\ x.source = y.source /\ x.destination = y.destination
        /\ Canonical(x.grossQuantity) = Canonical(y.grossQuantity)
    BY <2>1 DEF TransferText
  <2>3. x.grossQuantity = y.grossQuantity
    BY <1>2, <2>2, PipStrings
  <2>4. \A t \in Transfer : t = [source |-> t.source, destination |-> t.destination,
                               grossQuantity |-> t.grossQuantity, nonce |-> t.nonce]
    BY DEF Transfer
  <2>5. x \in Transfer /\ y \in Transfer
    BY <1>2
  <2> QED BY <2>2, <2>3, <2>4, <2>5, Zenon
<1> HIDE DEF texts
<1>8. \A x \in S : f[x] \in Int
  BY <1>2, <1>4
<1>9. SumFunctionOnSet(f, S) <= SignedSum(texts)
  BY <1>1, <1>6, <1>7, <1>8, SignedSumBounds
<1> QED BY <1>5, <1>9 DEF S, texts

\* So are its completed withdrawals; a route is told by its adapter and payload.
LEMMA WithdrawalsAreSigned ==
    ASSUME TypeOK, PaidInv, SettlementsInv, NEW w \in Wallets
    PROVE  GrossSum(Withdrawn(w)) <= SignedSum(PaymentTexts(w, "Withdrawal"))
<1> DEFINE texts == PaymentTexts(w, "Withdrawal")
           S == Withdrawn(w)
           f == [r \in S |-> r.grossQuantity]
           e == [r \in S |-> WithdrawalText(r)]
<1>1. IsFiniteSet(texts) /\ IsFiniteSet(S)
  BY TextsAreFinite, PaidTypes DEF SettlementsInv
<1>2. ASSUME NEW r \in S
      PROVE  /\ r \in Withdrawals /\ r \in Withdrawal /\ r \in completedWithdrawals /\ r.wallet = w
             /\ r.grossQuantity \in Nat /\ r.maximumGasFee \in Nat
             /\ r.route = <<r.route[1], r.route[2]>>
  BY RequestAssumption, RepresentationAssumption, PaidTypes DEF TypeOK, Withdrawn, Withdrawal
<1>3. ASSUME NEW r \in S, r.grossQuantity > 0
      PROVE  WithdrawalText(r) \in texts
  <2>1. r \in AllRequests /\ SettledOf(r) = r.grossQuantity
    BY <1>2, KindsDiffer DEF AllRequests, SettledOf
  <2>2. r \in Authorized
    BY <1>3, <2>1 DEF SettlementsInv
  <2>3. IsWithdrawalAuthorized(r)
    BY <1>2, <2>2, KindsDiffer DEF Authorized
  <2>4. Signature(r.wallet, WithdrawalText(r)) \in signatures
    BY <2>3 DEF IsWithdrawalAuthorized, HasSigned, WithdrawalText
  <2> QED BY <1>2, <2>4 DEF PaymentTexts, Signature, WithdrawalText
<1>4. \A r \in S : f[r] = r.grossQuantity /\ e[r] = WithdrawalText(r)
  OBVIOUS
<1>5. GrossSum(S) = SumFunctionOnSet(f, S)
  BY DEF GrossSum
<1> HIDE DEF f, e, S
<1>6. ASSUME NEW r \in S, f[r] > 0
      PROVE  /\ e[r] \in texts /\ IsPipString(e[r].message.quantity)
             /\ f[r] <= e[r].message.quantity.digits
  <2>1. r.grossQuantity > 0 /\ r.grossQuantity \in Nat /\ f[r] = r.grossQuantity
    BY <1>2, <1>4, <1>6
  <2>2. e[r] \in texts
    BY <1>3, <1>4, <2>1
  <2>3. e[r].message.quantity = Canonical(r.grossQuantity)
    <3>1. WithdrawalText(r).message.quantity = Canonical(r.grossQuantity)
      BY DEF WithdrawalText
    <3>2. e[r] = WithdrawalText(r)
      BY <1>4
    <3> QED BY <3>1, <3>2
  <2>4. IsPipString(Canonical(r.grossQuantity)) /\ Canonical(r.grossQuantity).digits = r.grossQuantity
    BY <2>1, PipStrings
  <2> QED BY <2>1, <2>2, <2>3, <2>4
<1>7. ASSUME NEW x \in S, NEW y \in S, f[x] > 0, f[y] > 0, e[x] = e[y]
      PROVE  x = y
  <2>1. WithdrawalText(x).message = WithdrawalText(y).message
    BY <1>4, <1>7
  <2>2. /\ x.nonce = y.nonce /\ x.wallet = y.wallet
        /\ Canonical(x.grossQuantity) = Canonical(y.grossQuantity)
        /\ Canonical(x.maximumGasFee) = Canonical(y.maximumGasFee)
        /\ x.route[1] = y.route[1] /\ x.route[2] = y.route[2]
    BY <2>1 DEF WithdrawalText
  <2>3. x.grossQuantity = y.grossQuantity /\ x.maximumGasFee = y.maximumGasFee
    BY <1>2, <2>2, PipStrings
  <2>4. x.route = y.route
    BY <1>2, <2>2
  <2>5. \A r \in Withdrawal : r = [wallet |-> r.wallet, grossQuantity |-> r.grossQuantity,
                                 maximumGasFee |-> r.maximumGasFee, nonce |-> r.nonce,
                                 route |-> r.route]
    BY DEF Withdrawal
  <2>6. x \in Withdrawal /\ y \in Withdrawal
    BY <1>2
  <2> QED BY <2>2, <2>3, <2>4, <2>5, <2>6, Zenon
<1> HIDE DEF texts
<1>8. \A x \in S : f[x] \in Int
  BY <1>2, <1>4
<1>9. SumFunctionOnSet(f, S) <= SignedSum(texts)
  BY <1>1, <1>6, <1>7, <1>8, SignedSumBounds
<1> QED BY <1>5, <1>9 DEF S, texts

\* However often and with whichever signatures its requests are submitted, a
\* wallet that starts without positions and orders none loses no more quote than
\* it has signed away, gas fees included.
THEOREM OutflowsAreAlwaysSigned == OrdinarySignedSpec => []OutflowsAreSigned
<1>1. SignedInit => CInv /\ PaidInv /\ FilledInv /\ SettlementsInv
  BY InitCurrent, PaidInit, PromiseInit, SettlementsInit DEF SignedInit
<1>2. CInv /\ PaidInv /\ FilledInv /\ SettlementsInv /\ [OrdinarySignedNext]_signedVars
        => CInv' /\ PaidInv' /\ FilledInv' /\ SettlementsInv'
  <2> SUFFICES ASSUME CInv, PaidInv, FilledInv, SettlementsInv, [OrdinarySignedNext]_signedVars
               PROVE  CInv' /\ PaidInv' /\ FilledInv' /\ SettlementsInv'
    OBVIOUS
  <2>1. [SignedNext]_signedVars /\ [OrdinaryNext]_vars
    BY OrdinarySignedStep
  <2>2. [Next]_vars
    BY <2>1, SignedStep
  <2> QED BY <2>1, <2>2, PaidNext, PromiseNext, SettlementsNext
<1>3. CInv /\ PaidInv /\ SettlementsInv => OutflowsAreSigned
  <2> SUFFICES ASSUME CInv, PaidInv, SettlementsInv, NEW w \in Wallets,
                      InitialLedger.open[w] = {}, ~HasOrdered(w)
               PROVE  ledger.quote[w] + SignedAway(w) >= InitialLedger.quote[w]
    BY DEF OutflowsAreSigned
  <2>1. TypeOK
    BY DEF CInv, IInv
  <2>2. ~HasTraded(w)
    <3>1. SUFFICES ASSUME NEW h \in OrderHashes, h.wallet = w, Filled(h) > 0
                   PROVE  FALSE
      BY DEF HasTraded
    <3>2. IsOrderAuthorized(h)
      BY <3>1, FilledIsSigned
    <3> QED BY <3>1, <3>2 DEF IsOrderAuthorized, HasOrdered
  <2>3. ledger.quote[w] + PaidBy(w) >= InitialLedger.quote[w]
    BY <2>2 DEF PaidInv, PaysWhatItLoses, OnlyPays
  <2> DEFINE sent      == GrossSum(Sent(w))
             withdrawn == GrossSum(Withdrawn(w))
             a         == SignedSum(PaymentTexts(w, "Transfer"))
             b         == SignedSum(PaymentTexts(w, "Withdrawal"))
  <2>4. sent <= a /\ withdrawn <= b
    BY <2>1, TransfersAreSigned, WithdrawalsAreSigned
  <2>5. sent \in Nat /\ withdrawn \in Nat
    BY <2>1, PaidTypes
  <2>6. a \in Nat /\ b \in Nat
    BY TextsAreFinite, SignedSumType DEF SettlementsInv
  <2>7. PaidBy(w) = sent + withdrawn /\ SignedAway(w) = a + b
    BY DEF PaidBy, SignedAway
  <2>8. ledger.quote[w] \in Int /\ InitialLedger.quote[w] \in Int
    BY LedgerDated, LedgerTypes, InitialAssumption DEF Ledger
  <2> HIDE DEF sent, withdrawn, a, b
  <2> QED BY <2>3, <2>4, <2>5, <2>6, <2>7, <2>8
<1>4. QED
  BY <1>1, <1>2, <1>3, PTL DEF OrdinarySignedSpec

===============================================================================
