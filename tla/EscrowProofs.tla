------------------------------ MODULE EscrowProofs ------------------------------
(***************************************************************************)
(* What the earnings escrow pays, for any wallets, any distributions that  *)
(* the exchange signs, in whatever order they are presented and however    *)
(* deep receivers nest their calls.  The nonces a wallet has collected     *)
(* ascend, each no earlier than the one before it was: from this one fact  *)
(* follows that a distribution is paid once and one of each parent.  The   *)
(* laws of SumTo, in which totals are stated, are those of SumProofs.      *)
(***************************************************************************)
EXTENDS EarningsEscrow, SumProofs, SequenceTheorems

-----------------------------------------------------------------------------
(* Distributions and nonces. *)

\* The time of a nonce.
LEMMA TimestampType ==
    ASSUME NEW n \in Nat
    PROVE  TimestampOf(n) \in Nat /\ TimestampOf(0) = 0
BY HashingAssumption DEF TimestampOf

\* What the contract makes of a distribution is what the exchange signs of it.
LEMMA DistributionIsRepresented ==
    ASSUME NEW d \in Distributions, NEW signature
    PROVE  LET struct == getStakingEscrowDistributeArguments(SignedAssetDistribution(d, signature))
           IN  /\ getDistributionHash(struct) = StakingDistributionTypedData(ThisEscrow, d)
               /\ AsDistribution(struct) \in AllDistributions
               /\ struct.exchangeSignature = signature
<1> DEFINE signed == SignedAssetDistribution(d, signature)
           struct == getStakingEscrowDistributeArguments(signed)
<1>1. /\ signed.nonce = d.nonce /\ signed.parentNonce = d.parentNonce
      /\ signed.walletAddress = d.walletAddress /\ signed.assetAddress = d.assetAddress
      /\ signed.quantity = d.quantity /\ signed.exchangeSignature = signature
  BY DEF SignedAssetDistribution, SignedAssetDistributionFields, AssetDistributionFields
<1> HIDE DEF signed
<1>2. /\ struct.nonce = uuidToHexString(d.nonce) /\ struct.parentNonce = uuidToHexString(d.parentNonce)
      /\ struct.walletAddress = d.walletAddress /\ struct.assetAddress = d.assetAddress
      /\ struct.quantity = d.quantity /\ struct.exchangeSignature = signature
  BY <1>1 DEF getStakingEscrowDistributeArguments
<1> HIDE DEF struct
<1>3. getDistributionHash(struct) = StakingDistributionTypedData(ThisEscrow, d)
  BY <1>2 DEF getDistributionHash, StakingDistributionTypedData, AsUint128, uuidToUint128
<1>4. AsDistribution(struct) \in AllDistributions
  BY <1>3 DEF AsDistribution, AllDistributions
<1>5. QED
  BY <1>2, <1>3, <1>4 DEF struct, signed

\* What is in a distribution.
LEMMA DistributionTypes ==
    ASSUME NEW d \in AllDistributions
    PROVE  /\ d.nonce \in Nat /\ d.parentNonce \in Nat /\ d.quantity \in Nat
           /\ d.walletAddress \in Claimants
<1>1. PICK request \in Distributions : d = StakingDistributionTypedData(ThisEscrow, request).message
  BY DEF AllDistributions
<1>2. /\ request.nonce \in [bits : Nat, form : {"uuid"}]
      /\ request.parentNonce \in [bits : Nat, form : {"uuid"}]
      /\ request.quantity \in Nat
  BY EscrowAssumption
<1>3. /\ d.nonce = request.nonce.bits /\ d.parentNonce = request.parentNonce.bits
      /\ d.quantity = request.quantity /\ d.walletAddress = request.walletAddress
  BY <1>1, <1>2 DEF StakingDistributionTypedData, TypedData, uuidToUint128, uuidToHexString
<1>4. QED
  BY <1>2, <1>3 DEF Claimants

-----------------------------------------------------------------------------
(* Totals of payments. *)

\* What a payment is to a wallet.
AmountOf(d, w) == IF d.walletAddress = w THEN d.quantity ELSE 0

\* What QuantityOf adds up.
LEMMA AmountTypes ==
    ASSUME NEW s \in Seq(AllDistributions), NEW w
    PROVE  /\ Len(s) \in Nat /\ DOMAIN s = 1..Len(s)
           /\ \A i \in 1..Len(s) : s[i] \in AllDistributions /\ AmountOf(s[i], w) \in Nat
           /\ QuantityOf(s, w) = SumTo([i \in 1..Len(s) |-> AmountOf(s[i], w)], Len(s))
<1>1. Len(s) \in Nat /\ DOMAIN s = 1..Len(s) /\ \A i \in 1..Len(s) : s[i] \in AllDistributions
  BY LenProperties
<1>2. \A i \in 1..Len(s) : AmountOf(s[i], w) \in Nat
  BY <1>1, DistributionTypes DEF AmountOf
<1>3. QED
  BY <1>1, <1>2 DEF QuantityOf, AmountOf

\* A total is that of all payments but the last, and the last one.
LEMMA QuantityOfLast ==
    ASSUME NEW s \in Seq(AllDistributions), NEW t \in Seq(AllDistributions), NEW w,
           Len(s) = Len(t) + 1, \A i \in 1..Len(t) : t[i] = s[i]
    PROVE  /\ QuantityOf(s, w) = QuantityOf(t, w) + AmountOf(s[Len(s)], w)
           /\ QuantityOf(s, w) \in Int /\ QuantityOf(t, w) \in Int
<1> DEFINE n == Len(s)
           f == [i \in 1..Len(s) |-> AmountOf(s[i], w)]
           g == [i \in 1..Len(t) |-> AmountOf(t[i], w)]
<1>1. /\ n \in Nat \ {0} /\ n - 1 = Len(t) /\ n - 1 \in Nat /\ n \in 1..n
      /\ QuantityOf(s, w) = SumTo(f, n) /\ QuantityOf(t, w) = SumTo(g, n - 1)
  BY AmountTypes
<1>2. \A i \in 1..n : f[i] \in Int /\ f[i] = AmountOf(s[i], w)
  <2>1. \A i \in 1..Len(s) : AmountOf(s[i], w) \in Nat
    BY AmountTypes, Zenon
  <2> QED BY <2>1
<1>3. \A i \in 1..(n - 1) : f[i] \in Int /\ g[i] = f[i]
  BY <1>1, <1>2
<1> HIDE DEF f, g, n
<1>4. SumTo(f, n) = SumTo(f, n - 1) + f[n] /\ SumTo(f, n) \in Int
  BY <1>1, <1>2, SumToStep, SumToType
<1>5. SumTo(g, n - 1) = SumTo(f, n - 1) /\ SumTo(f, n - 1) \in Int
  BY <1>1, <1>3, SumToEqual, SumToType
<1>6. f[n] = AmountOf(s[Len(s)], w)
  BY <1>1, <1>2 DEF n
<1>7. QED
  BY <1>1, <1>4, <1>5, <1>6

\* Nothing is paid at first.
LEMMA QuantityOfNone ==
    ASSUME NEW w
    PROVE  QuantityOf(<<>>, w) = 0
BY SumToZero DEF QuantityOf

-----------------------------------------------------------------------------
(* The inductive invariant. *)

EscrowTypeOK ==
    /\ lastNonce \in [Claimants -> Nat]
    /\ totalDistributed \in [Claimants -> Nat]
    /\ paid \in Seq(AllDistributions)
    /\ frames \in Seq(AllDistributions)

SignersAreExchangeWallets == \A s \in signatures : s.signer \in ExchangeWallets

\* What a wallet was paid is no later than the last nonce it used, and later than its parent.
IsPast(d, last) ==
    /\ last[d.walletAddress] # 0
    /\ TimestampOf(d.nonce) <= TimestampOf(last[d.walletAddress])
    /\ d.parentNonce # 0 => TimestampOf(d.parentNonce) < TimestampOf(d.nonce)

\* A distribution that was paid after another one descends from it.
Follows(d, e) ==
    d.walletAddress = e.walletAddress =>
        d.parentNonce # 0 /\ TimestampOf(e.nonce) <= TimestampOf(d.parentNonce)

NoncesAscend ==
    /\ \A i \in 1..Len(paid) : IsPast(paid[i], lastNonce)
    /\ \A i, j \in 1..Len(paid) : i < j => Follows(paid[j], paid[i])

EInv == EscrowTypeOK /\ SignersAreExchangeWallets /\ NoncesAscend

\* What distribute does, in terms of the distribution that was signed.
Pays(d) ==
    /\ IsNext(d) /\ IsLaterThanParent(d)
    /\ [signer |-> exchangeWallet, typedData |-> TypedData(ThisEscrow, "AssetDistribution", d)] \in signatures
    /\ lastNonce' = [lastNonce EXCEPT ![d.walletAddress] = d.nonce]
    /\ paid' = Append(paid, d)
    /\ frames' = Append(frames, d)
    /\ UNCHANGED <<signatures, totalDistributed>>

LEMMA DistributePays ==
    ASSUME NEW request \in Distributions, NEW signature \in signatures, Distribute(request, signature)
    PROVE  \E d \in AllDistributions : Pays(d)
<1> DEFINE struct == getStakingEscrowDistributeArguments(SignedAssetDistribution(request, signature))
           d      == AsDistribution(struct)
<1>1. d \in AllDistributions /\ struct.exchangeSignature = signature
  BY DistributionIsRepresented
<1>2. getDistributionHash(struct) = TypedData(ThisEscrow, "AssetDistribution", d)
  BY DEF getDistributionHash, AsDistribution, TypedData
<1>3. /\ isSignatureValid(getDistributionHash(struct), struct.exchangeSignature, exchangeWallet)
      /\ IsNext(d) /\ IsLaterThanParent(d)
      /\ lastNonce' = [lastNonce EXCEPT ![d.walletAddress] = d.nonce]
      /\ paid' = Append(paid, d)
      /\ frames' = Append(frames, d)
      /\ UNCHANGED <<signatures, totalDistributed>>
  BY DEF Distribute
<1> HIDE DEF struct, d
<1>4. signature = [signer |-> exchangeWallet, typedData |-> TypedData(ThisEscrow, "AssetDistribution", d)]
  BY <1>1, <1>2, <1>3 DEF isSignatureValid
<1>5. QED
  BY <1>1, <1>3, <1>4 DEF Pays

\* Appending to the payments or the frames.
LEMMA AppendPayment ==
    ASSUME NEW s \in Seq(AllDistributions), NEW d \in AllDistributions
    PROVE  /\ Append(s, d) \in Seq(AllDistributions) /\ Len(Append(s, d)) = Len(s) + 1
           /\ Append(s, d)[Len(s) + 1] = d /\ Len(s) \in Nat
           /\ \A i \in 1..Len(s) : Append(s, d)[i] = s[i]
BY AppendProperties, LenProperties

\* The nonce that is used is of a later time than every one before.
LEMMA PayingAscends ==
    ASSUME EInv, NEW d \in AllDistributions, Pays(d)
    PROVE  NoncesAscend'
<1> DEFINE w == d.walletAddress
           n == Len(paid)
<1>1. /\ w \in Claimants /\ d.nonce \in Nat /\ d.parentNonce \in Nat
      /\ lastNonce[w] = d.parentNonce /\ d.parentNonce # d.nonce
      /\ lastNonce'[w] = d.nonce
      /\ \A v \in Claimants : v # w => lastNonce'[v] = lastNonce[v]
  BY DistributionTypes DEF Pays, IsNext, EInv, EscrowTypeOK
<1>2. d.parentNonce # 0 => TimestampOf(d.parentNonce) < TimestampOf(d.nonce)
  BY DEF Pays, IsLaterThanParent
<1>3. /\ TimestampOf(d.nonce) \in Nat /\ TimestampOf(d.parentNonce) \in Nat /\ TimestampOf(0) = 0
  BY <1>1, TimestampType
<1>4. d.nonce # 0
  BY <1>1, <1>2, <1>3
<1>5. /\ n \in Nat /\ Len(paid') = n + 1 /\ paid'[n + 1] = d
      /\ \A i \in 1..n : paid'[i] = paid[i] /\ paid[i] \in AllDistributions
  BY AppendPayment, LenProperties DEF Pays, EInv, EscrowTypeOK
<1>6. \A i \in 1..n : IsPast(paid[i], lastNonce)
  BY DEF EInv, NoncesAscend
<1> HIDE DEF n
<1>7. ASSUME NEW i \in 1..n
      PROVE  IsPast(paid[i], lastNonce') /\ Follows(d, paid[i])
  <2> DEFINE e == paid[i]
  <2>1. e \in AllDistributions /\ IsPast(e, lastNonce) /\ paid'[i] = e
    BY <1>5, <1>6
  <2>2. e.nonce \in Nat /\ TimestampOf(e.nonce) \in Nat /\ e.walletAddress \in Claimants
    BY <2>1, DistributionTypes, TimestampType
  <2> HIDE DEF e, w
  <2>3. CASE e.walletAddress = w
    <3>1. d.parentNonce # 0 /\ TimestampOf(e.nonce) <= TimestampOf(d.parentNonce)
      BY <1>1, <2>1, <2>3 DEF IsPast
    <3>2. TimestampOf(e.nonce) <= TimestampOf(d.nonce)
      BY <1>2, <1>3, <2>2, <3>1
    <3> QED BY <1>1, <1>4, <2>1, <2>3, <3>1, <3>2 DEF IsPast, Follows, e
  <2>4. CASE e.walletAddress # w
    BY <1>1, <2>1, <2>2, <2>4 DEF IsPast, Follows, e, w
  <2> QED BY <2>3, <2>4
<1>8. IsPast(d, lastNonce')
  <2>1. TimestampOf(d.nonce) <= TimestampOf(d.nonce)
    BY <1>3
  <2> QED BY <1>1, <1>2, <1>4, <2>1 DEF IsPast
<1>9. \A i \in 1..(n + 1) : IsPast(paid'[i], lastNonce')
  <2>1. \A i \in 1..n : IsPast(paid'[i], lastNonce')
    BY <1>5, <1>7
  <2> QED BY <1>5, <1>8, <2>1
<1>10. \A i, j \in 1..(n + 1) : i < j => Follows(paid'[j], paid'[i])
  <2>1. SUFFICES ASSUME NEW i \in 1..(n + 1), NEW j \in 1..(n + 1), i < j
                 PROVE  Follows(paid'[j], paid'[i])
    OBVIOUS
  <2>2. i \in 1..n
    BY <1>5, <2>1
  <2>3. CASE j = n + 1
    BY <1>5, <1>7, <2>2, <2>3
  <2>4. CASE j # n + 1
    <3>1. j \in 1..n
      BY <1>5, <2>4
    <3>2. Follows(paid[j], paid[i])
      BY <2>1, <2>2, <3>1 DEF EInv, NoncesAscend, n
    <3> QED BY <1>5, <2>2, <3>1, <3>2
  <2> QED BY <2>3, <2>4
<1>11. QED
  BY <1>5, <1>9, <1>10 DEF NoncesAscend

-----------------------------------------------------------------------------
(* Each step. *)

LEMMA EscrowInitial ==
    ASSUME EscrowInit
    PROVE  EInv
<1>1. EscrowTypeOK
  BY DEF EscrowInit, EscrowTypeOK
<1>2. SignersAreExchangeWallets
  BY DEF EscrowInit, SignersAreExchangeWallets
<1>3. NoncesAscend
  BY DEF EscrowInit, NoncesAscend
<1>4. QED
  BY <1>1, <1>2, <1>3 DEF EInv

\* The receiver of the innermost call returns.
LEMMA FinishCounts ==
    ASSUME EInv, FinishDistribution
    PROVE  /\ UNCHANGED <<signatures, lastNonce, paid>>
           /\ totalDistributed' \in [Claimants -> Nat] /\ frames' \in Seq(AllDistributions)
           /\ \A w \in Claimants :
                 totalDistributed'[w] = totalDistributed[w] + AmountOf(frames[Len(frames)], w)
           /\ Len(frames) = Len(frames') + 1 /\ \A i \in 1..Len(frames') : frames'[i] = frames[i]
<1> DEFINE n == Len(frames)
           d == frames[n]
<1>1. frames \in Seq(AllDistributions) /\ frames # <<>> /\ totalDistributed \in [Claimants -> Nat]
  BY DEF EInv, EscrowTypeOK, FinishDistribution
<1>2. n \in Nat \ {0} /\ n \in 1..n /\ d \in AllDistributions
  BY <1>1, LenProperties, EmptySeq
<1>3. /\ totalDistributed' = [totalDistributed EXCEPT ![d.walletAddress] = totalDistributed[d.walletAddress] + d.quantity]
      /\ frames' = SubSeq(frames, 1, n - 1)
      /\ UNCHANGED <<signatures, lastNonce, paid>>
  BY DEF FinishDistribution, TotalAfter
<1>4. d.walletAddress \in Claimants /\ d.quantity \in Nat
  BY <1>2, DistributionTypes
<1>5. /\ frames' \in Seq(AllDistributions) /\ Len(frames') = n - 1
      /\ \A i \in 1..(n - 1) : frames'[i] = frames[i]
  <2>1. \A i \in 1..(n - 1) : frames[i] \in AllDistributions
    BY <1>1, <1>2, LenProperties
  <2> HIDE DEF n
  <2> QED BY <1>1, <1>2, <1>3, <2>1
<1> HIDE DEF n, d
<1>6. totalDistributed' \in [Claimants -> Nat]
  BY <1>1, <1>3, <1>4
<1>7. \A w \in Claimants : totalDistributed'[w] = totalDistributed[w] + AmountOf(d, w)
  BY <1>1, <1>3, <1>4 DEF AmountOf
<1>8. QED
  BY <1>2, <1>3, <1>5, <1>6, <1>7 DEF n, d

\* Signatures of exchange wallets, whoever the exchange wallet is now.
LEMMA SigningKeeps ==
    ASSUME EInv, NEW offer \in Offers, SignDistribution(offer[1], offer[2], offer[3])
    PROVE  EInv'
<1>1. /\ signatures' = signatures \cup
           {[signer |-> offer[1], typedData |-> StakingDistributionTypedData(offer[2], offer[3])]}
      /\ UNCHANGED <<lastNonce, totalDistributed, frames, paid>>
  BY DEF SignDistribution
<1>2. offer[1] \in ExchangeWallets
  BY EscrowAssumption
<1>3. SignersAreExchangeWallets'
  BY <1>1, <1>2 DEF EInv, SignersAreExchangeWallets
<1>4. EscrowTypeOK' /\ NoncesAscend'
  BY <1>1 DEF EInv, EscrowTypeOK, NoncesAscend
<1>5. QED
  BY <1>3, <1>4 DEF EInv

LEMMA PayingKeeps ==
    ASSUME EInv, NEW d \in AllDistributions, Pays(d)
    PROVE  EInv'
<1>1. d.walletAddress \in Claimants /\ d.nonce \in Nat
  BY DistributionTypes
<1>2. paid' \in Seq(AllDistributions) /\ frames' \in Seq(AllDistributions)
  BY AppendPayment DEF Pays, EInv, EscrowTypeOK
<1>3. EscrowTypeOK'
  BY <1>1, <1>2 DEF Pays, EInv, EscrowTypeOK
<1>4. SignersAreExchangeWallets'
  BY DEF Pays, EInv, SignersAreExchangeWallets
<1>5. QED
  BY <1>3, <1>4, PayingAscends DEF EInv

\* What the other steps leave alone.
promiseVars == <<signatures, lastNonce, totalDistributed, frames, paid>>

LEMMA OtherSteps ==
    ASSUME [EscrowNext]_escrowVars
    PROVE  \/ \E offer \in Offers : SignDistribution(offer[1], offer[2], offer[3])
           \/ \E d \in AllDistributions : Pays(d)
           \/ FinishDistribution
           \/ UNCHANGED promiseVars
<1>1. ASSUME NEW quantity, Fund(quantity) \/ WithdrawEscrow(quantity)
      PROVE  UNCHANGED promiseVars
  BY <1>1 DEF Fund, WithdrawEscrow, promiseVars
<1>2. ASSUME NEW w, SetExchange(w) \/ RemoveExchange
      PROVE  UNCHANGED promiseVars
  BY <1>2 DEF SetExchange, RemoveExchange, promiseVars
<1>3. CASE UNCHANGED escrowVars
  BY <1>3 DEF escrowVars, promiseVars
<1>4. QED
  BY <1>1, <1>2, <1>3, DistributePays DEF EscrowNext

LEMMA EscrowStep ==
    ASSUME EInv, [EscrowNext]_escrowVars
    PROVE  EInv'
<1>1. ASSUME FinishDistribution PROVE EInv'
  <2>1. EscrowTypeOK'
    BY <1>1, FinishCounts DEF EInv, EscrowTypeOK
  <2>2. SignersAreExchangeWallets' /\ NoncesAscend'
    BY <1>1, FinishCounts DEF EInv, SignersAreExchangeWallets, NoncesAscend
  <2> QED BY <2>1, <2>2 DEF EInv
<1>2. ASSUME UNCHANGED promiseVars PROVE EInv'
  BY <1>2 DEF promiseVars, EInv, EscrowTypeOK, SignersAreExchangeWallets, NoncesAscend
<1>3. QED
  BY <1>1, <1>2, OtherSteps, SigningKeeps, PayingKeeps

LEMMA EscrowInvariant == EscrowSpec => []EInv
<1>1. QED
  BY EscrowInitial, EscrowStep, PTL DEF EscrowSpec

-----------------------------------------------------------------------------
(* What a wallet collects. *)

LEMMA AscendingParents ==
    ASSUME EInv
    PROVE  OneOfEachParent
<1>1. Len(paid) \in Nat /\ DOMAIN paid = 1..Len(paid)
      /\ \A i \in 1..Len(paid) : paid[i] \in AllDistributions
  BY LenProperties DEF EInv, EscrowTypeOK
<1>2. ASSUME NEW i \in 1..Len(paid), NEW j \in 1..Len(paid), i < j,
             paid[i].walletAddress = paid[j].walletAddress,
             paid[i].parentNonce = paid[j].parentNonce
      PROVE  FALSE
  <2> DEFINE d == paid[i]
             e == paid[j]
  <2>1. /\ e.parentNonce # 0 /\ TimestampOf(d.nonce) <= TimestampOf(e.parentNonce)
        /\ d.parentNonce # 0 => TimestampOf(d.parentNonce) < TimestampOf(d.nonce)
    BY <1>2 DEF EInv, NoncesAscend, IsPast, Follows
  <2>2. TimestampOf(d.nonce) \in Nat /\ TimestampOf(e.parentNonce) \in Nat
    BY <1>1, DistributionTypes, TimestampType
  <2>3. d.parentNonce = e.parentNonce
    BY <1>2
  <2> HIDE DEF d, e
  <2> QED BY <2>1, <2>2, <2>3
<1>3. \A i, j \in 1..Len(paid) :
         paid[i].walletAddress = paid[j].walletAddress /\ paid[i].parentNonce = paid[j].parentNonce
         => ~(i < j) /\ ~(j < i)
  BY <1>2
<1>4. QED
  BY <1>1, <1>3 DEF OneOfEachParent

\* For any distributions, in any order and nested in any way: of those signed
\* upon one parent a wallet collects one.
THEOREM OneOfEachParentAlways == EscrowSpec => []OneOfEachParent
<1>1. EInv => OneOfEachParent
  BY AscendingParents
<1>2. QED
  BY <1>1, EscrowInvariant, PTL

-----------------------------------------------------------------------------
(* What is counted. *)

\* The totals rest on the types.
TInv == EInv /\ TotalsArePaid

LEMMA TotalsInitial ==
    ASSUME EscrowInit
    PROVE  TotalsArePaid
BY QuantityOfNone DEF EscrowInit, TotalsArePaid

LEMMA TotalsStep ==
    ASSUME TInv, [EscrowNext]_escrowVars
    PROVE  TotalsArePaid'
<1>1. /\ \A w \in Claimants : totalDistributed[w] + QuantityOf(frames, w) = QuantityOf(paid, w)
      /\ totalDistributed \in [Claimants -> Nat]
      /\ paid \in Seq(AllDistributions) /\ frames \in Seq(AllDistributions)
  BY DEF TInv, EInv, EscrowTypeOK, TotalsArePaid
<1>2. ASSUME NEW d \in AllDistributions, Pays(d) PROVE TotalsArePaid'
  <2>1. /\ paid' = Append(paid, d) /\ frames' = Append(frames, d)
        /\ totalDistributed' = totalDistributed
    BY <1>2 DEF Pays
  <2>2. /\ paid' \in Seq(AllDistributions) /\ Len(paid') = Len(paid) + 1 /\ paid'[Len(paid')] = d
        /\ \A i \in 1..Len(paid) : paid[i] = paid'[i]
    BY <1>1, <1>2, <2>1, AppendPayment
  <2>3. /\ frames' \in Seq(AllDistributions) /\ Len(frames') = Len(frames) + 1 /\ frames'[Len(frames')] = d
        /\ \A i \in 1..Len(frames) : frames[i] = frames'[i]
    BY <1>1, <1>2, <2>1, AppendPayment
  <2>4. ASSUME NEW w \in Claimants
        PROVE  totalDistributed'[w] + QuantityOf(frames', w) = QuantityOf(paid', w)
    <3>1. QuantityOf(paid', w) = QuantityOf(paid, w) + AmountOf(d, w) /\ QuantityOf(paid, w) \in Int
      BY <1>1, <2>2, QuantityOfLast
    <3>2. QuantityOf(frames', w) = QuantityOf(frames, w) + AmountOf(d, w) /\ QuantityOf(frames, w) \in Int
      BY <1>1, <2>3, QuantityOfLast
    <3>3. AmountOf(d, w) \in Int /\ totalDistributed[w] \in Int
      BY <1>1, DistributionTypes DEF AmountOf
    <3> QED BY <1>1, <2>1, <3>1, <3>2, <3>3
  <2> QED BY <2>4 DEF TotalsArePaid
<1>3. ASSUME FinishDistribution PROVE TotalsArePaid'
  <2>1. /\ paid' = paid /\ frames' \in Seq(AllDistributions)
        /\ totalDistributed' \in [Claimants -> Nat]
        /\ \A w \in Claimants :
              totalDistributed'[w] = totalDistributed[w] + AmountOf(frames[Len(frames)], w)
        /\ Len(frames) = Len(frames') + 1 /\ \A i \in 1..Len(frames') : frames'[i] = frames[i]
    BY <1>3, FinishCounts DEF TInv
  <2>2. ASSUME NEW w \in Claimants
        PROVE  totalDistributed'[w] + QuantityOf(frames', w) = QuantityOf(paid', w)
    <3> DEFINE amount == AmountOf(frames[Len(frames)], w)
    <3>1. /\ QuantityOf(frames, w) = QuantityOf(frames', w) + amount
          /\ QuantityOf(frames, w) \in Int /\ QuantityOf(frames', w) \in Int
      BY <1>1, <2>1, QuantityOfLast
    <3>2. totalDistributed'[w] = totalDistributed[w] + amount /\ QuantityOf(paid', w) = QuantityOf(paid, w)
      BY <2>1
    <3>3. amount \in Int /\ totalDistributed[w] \in Int
      <4>1. Len(frames) \in 1..Len(frames)
        BY <1>1, <2>1, LenProperties
      <4>2. \A i \in 1..Len(frames) : AmountOf(frames[i], w) \in Nat
        BY <1>1, AmountTypes, Zenon
      <4>3. amount \in Nat
        BY <4>1, <4>2
      <4> HIDE DEF amount
      <4> QED BY <1>1, <4>3
    <3> HIDE DEF amount
    <3> QED BY <1>1, <3>1, <3>2, <3>3
  <2> QED BY <2>2 DEF TotalsArePaid
<1>4. ASSUME UNCHANGED <<totalDistributed, frames, paid>> PROVE TotalsArePaid'
  BY <1>1, <1>4 DEF TotalsArePaid
<1>5. ASSUME NEW offer \in Offers, SignDistribution(offer[1], offer[2], offer[3]) PROVE TotalsArePaid'
  BY <1>4, <1>5 DEF SignDistribution
<1>6. ASSUME UNCHANGED promiseVars PROVE TotalsArePaid'
  BY <1>4, <1>6 DEF promiseVars
<1>7. QED
  BY <1>2, <1>3, <1>5, <1>6, OtherSteps

\* For any distributions and any nesting of calls: a wallet's total is what it
\* was paid, but for the calls that are still paying.
THEOREM TotalsAreAlwaysPaid == EscrowSpec => []TotalsArePaid
<1>1. EscrowInit => TInv
  BY EscrowInitial, TotalsInitial DEF TInv
<1>2. TInv /\ [EscrowNext]_escrowVars => TInv'
  BY EscrowStep, TotalsStep DEF TInv
<1>3. TInv => TotalsArePaid
  BY DEF TInv
<1>4. QED
  BY <1>1, <1>2, <1>3, PTL DEF EscrowSpec

-----------------------------------------------------------------------------
(* The promise: of every distribution that was signed, at most its         *)
(* quantity is paid.                                                       *)

\* As Promise instantiates settled and authorized.
PaidOf(d) == TimesPaid(d) * d.quantity

\* A distribution that is not paid now was paid as often before.
LEMMA PaidBefore ==
    ASSUME EInv, NEW d \in AllDistributions, Pays(d), NEW e \in AllDistributions, e # d
    PROVE  PaidOf(e)' = PaidOf(e)
<1>1. /\ Len(paid) \in Nat /\ Len(paid') = Len(paid) + 1 /\ paid'[Len(paid) + 1] = d
      /\ \A i \in 1..Len(paid) : paid'[i] = paid[i]
      /\ DOMAIN paid = 1..Len(paid) /\ DOMAIN paid' = 1..Len(paid')
  BY AppendPayment, LenProperties DEF Pays, EInv, EscrowTypeOK
<1>2. {i \in DOMAIN paid' : paid'[i] = e} = {i \in DOMAIN paid : paid[i] = e}
  BY <1>1
<1>3. QED
  BY <1>2 DEF PaidOf, TimesPaid

\* The one that is paid now is paid for the first time.
LEMMA PaidOnce ==
    ASSUME EInv, NEW d \in AllDistributions, Pays(d)
    PROVE  PaidOf(d) = 0 /\ PaidOf(d)' = d.quantity
<1> DEFINE n == Len(paid)
<1>1. /\ n \in Nat /\ Len(paid') = n + 1 /\ paid'[n + 1] = d
      /\ \A i \in 1..n : paid'[i] = paid[i]
      /\ DOMAIN paid = 1..n /\ DOMAIN paid' = 1..(n + 1)
  BY AppendPayment, LenProperties DEF Pays, EInv, EscrowTypeOK
<1>2. OneOfEachParent'
  <2>1. EInv'
    BY PayingKeeps
  <2> QED BY <2>1, AscendingParents, PTL
<1> HIDE DEF n
<1>3. \A i \in 1..n : paid[i] # d
  <2>1. \A i, j \in 1..(n + 1) : paid'[i] = paid'[j] => i = j
    BY <1>1, <1>2 DEF OneOfEachParent
  <2> QED BY <1>1, <2>1
<1>4. {i \in DOMAIN paid : paid[i] = d} = {} /\ {i \in DOMAIN paid' : paid'[i] = d} = {n + 1}
  BY <1>1, <1>3
<1>5. TimesPaid(d) = 0 /\ TimesPaid(d)' = 1
  BY <1>4, FS_EmptySet, FS_Singleton DEF TimesPaid
<1>6. d.quantity \in Nat
  BY DistributionTypes
<1>7. QED
  BY <1>5, <1>6 DEF PaidOf

LEMMA EscrowPromiseInit ==
    ASSUME EscrowInit
    PROVE  Promise!Init
<1>1. AuthorizedDistributions = {}
  BY DEF EscrowInit, AuthorizedDistributions
<1>2. ASSUME NEW d \in AllDistributions PROVE TimesPaid(d) * d.quantity = 0
  <2>1. {i \in DOMAIN paid : paid[i] = d} = {}
    BY DEF EscrowInit
  <2>2. TimesPaid(d) = 0 /\ d.quantity \in Nat
    BY <2>1, FS_EmptySet, DistributionTypes DEF TimesPaid
  <2> QED BY <2>2
<1>3. QED
  BY <1>1, <1>2 DEF Promise!Init

LEMMA EscrowPromiseNext ==
    ASSUME EInv, [EscrowNext]_escrowVars
    PROVE  [Promise!Next]_<<AuthorizedDistributions, [d \in AllDistributions |-> PaidOf(d)]>>
<1>1. ASSUME UNCHANGED signatures PROVE UNCHANGED AuthorizedDistributions
  BY <1>1 DEF AuthorizedDistributions
<1>2. ASSUME UNCHANGED paid PROVE UNCHANGED [d \in AllDistributions |-> PaidOf(d)]
  BY <1>2 DEF PaidOf, TimesPaid
<1>3. ASSUME NEW offer \in Offers, SignDistribution(offer[1], offer[2], offer[3])
      PROVE  Promise!Next
  <2>1. signatures \subseteq signatures' /\ UNCHANGED paid
    BY <1>3 DEF SignDistribution
  <2>2. AuthorizedDistributions \subseteq AuthorizedDistributions'
    BY <2>1 DEF AuthorizedDistributions
  <2>3. AuthorizedDistributions' \subseteq AllDistributions
    BY DEF AuthorizedDistributions
  <2>4. UNCHANGED [d \in AllDistributions |-> TimesPaid(d) * d.quantity]
    BY <1>2, <2>1 DEF PaidOf
  <2>5. Promise!Authorize
    BY <2>2, <2>3, <2>4 DEF Promise!Authorize
  <2> QED BY <2>5 DEF Promise!Next
<1>4. ASSUME NEW d \in AllDistributions, Pays(d)
      PROVE  Promise!Next
  <2>1. UNCHANGED AuthorizedDistributions
    BY <1>1, <1>4 DEF Pays
  <2>2. d \in AuthorizedDistributions /\ d.quantity \in Nat
    <3>1. exchangeWallet \in ExchangeWallets
      BY <1>4 DEF Pays, EInv, SignersAreExchangeWallets
    <3> QED BY <1>4, <3>1, DistributionTypes DEF Pays, AuthorizedDistributions
  <2>3. ASSUME NEW e \in AllDistributions
        PROVE  \/ PaidOf(e)' = PaidOf(e)
               \/ /\ e \in AuthorizedDistributions
                  /\ PaidOf(e) <= PaidOf(e)' /\ PaidOf(e)' <= e.quantity
    <3>1. CASE e # d
      BY <1>4, <3>1, PaidBefore
    <3>2. CASE e = d
      <4>1. PaidOf(d) = 0 /\ PaidOf(d)' = d.quantity
        BY <1>4, PaidOnce
      <4> QED BY <2>2, <3>2, <4>1
    <3> QED BY <3>1, <3>2
  <2>4. Promise!Settle
    BY <2>1, <2>3 DEF Promise!Settle, PaidOf
  <2> QED BY <2>4 DEF Promise!Next
<1>5. ASSUME FinishDistribution \/ UNCHANGED promiseVars
      PROVE  UNCHANGED <<AuthorizedDistributions, [d \in AllDistributions |-> PaidOf(d)]>>
  <2>1. UNCHANGED signatures /\ UNCHANGED paid
    BY <1>5 DEF FinishDistribution, promiseVars
  <2> QED BY <1>1, <1>2, <2>1
<1>6. QED
  BY <1>3, <1>4, <1>5, OtherSteps

\* For any distributions and whatever receivers do while they are paid: each
\* distribution is paid at most once, in full, after the exchange signed it for
\* this escrow.
THEOREM EscrowPaysWhatIsSigned == EscrowSpec => PaysWhatIsSigned
<1>1. EscrowInit => Promise!Init
  BY EscrowPromiseInit
<1>2. EInv /\ [EscrowNext]_escrowVars
        => [Promise!Next]_<<AuthorizedDistributions, [d \in AllDistributions |-> TimesPaid(d) * d.quantity]>>
  BY EscrowPromiseNext DEF PaidOf
<1>3. QED
  BY <1>1, <1>2, EscrowInvariant, PTL DEF EscrowSpec, PaysWhatIsSigned, Promise!Spec

===============================================================================
