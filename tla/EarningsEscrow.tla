----------------------------- MODULE EarningsEscrow -----------------------------
(***************************************************************************)
(* The escrow that pays earnings (EarningsEscrow.sol).  The exchange       *)
(* wallet signs distributions, each naming the one before it, and the      *)
(* wallet they are for presents them.  Paying a native asset calls the     *)
(* receiver, which may call the escrow again before the first call has     *)
(* counted its payment: a call is a start, a frame and an end.  A call     *)
(* that reverts undoes what was nested in it, and is left out.             *)
(***************************************************************************)
EXTENDS Hashing, Sums, FiniteSets

CONSTANTS
    ThisEscrow, Escrows,      \* by their addresses
    EscrowAsset, IsNative,
    ExchangeWallets,
    Distributions,            \* of the exchange: nonce, parentNonce, ..., quantity
    Offers,                   \* what it may sign: its wallet, an escrow and a distribution
    OtherVersions,            \* UUIDs that are not of version 1
    EscrowQuantities, MaxEscrow, MaxDepth    \* bounds

ASSUME EscrowAssumption ==
    /\ AreOf(AssetDistributionFields, Distributions)
    /\ \A d \in Distributions :
          d.quantity \in Nat /\ {d.nonce, d.parentNonce} \subseteq [bits : Nat, form : {"uuid"}]
    /\ Offers \subseteq ExchangeWallets \X Escrows \X Distributions
    /\ ThisEscrow \in Escrows /\ ZeroAddress \notin ExchangeWallets

VARIABLES
    signatures,         \* made so far
    exchangeWallet,
    lastNonce,
    totalDistributed,
    frames,             \* calls of distribute that are paying, innermost last
    balance,            \* of the escrow
    paid                \* what it has paid, in order

escrowVars == <<signatures, exchangeWallet, lastNonce, totalDistributed, frames, balance, paid>>

Claimants == {d.walletAddress : d \in Distributions}

-----------------------------------------------------------------------------
SignDistribution(signer, escrow, distribution) ==
    /\ signatures' = signatures \cup
           {[signer |-> signer, typedData |-> StakingDistributionTypedData(escrow, distribution)]}
    /\ UNCHANGED <<exchangeWallet, lastNonce, totalDistributed, frames, balance, paid>>

\* Bound to this contract's address, but to no chain.
getDistributionHash(struct) ==
    TypedData(ThisEscrow, "AssetDistribution",
        [nonce |-> AsUint128(struct.nonce), parentNonce |-> AsUint128(struct.parentNonce),
         walletAddress |-> struct.walletAddress, assetAddress |-> struct.assetAddress,
         quantity |-> struct.quantity])

AsDistribution(struct) == getDistributionHash(struct).message

\* Mutant of IsLaterThanParent: the order of nonces is that of their parents.
IsAnyTime(d) == TRUE

\* The parent must be of version 1 as well, unless there is none.
IsLaterThanParent(d) ==
    d.parentNonce # 0 =>
        /\ {d.parentNonce, d.nonce} \cap OtherVersions = {}
        /\ TimestampOf(d.parentNonce) < TimestampOf(d.nonce)

\* Mutant of IsNext: only the time is compared with the last one's.
IsNextInTime(d) == d.parentNonce # d.nonce

IsNext(d) == d.parentNonce # d.nonce /\ d.parentNonce = lastNonce[d.walletAddress]

\* A distribution as the wallet holds it.
SignedAssetDistribution(distribution, signature) ==
    [field \in SignedAssetDistributionFields |->
        IF field = "exchangeSignature" THEN signature ELSE distribution[field]]

\* Up to the payment.
Distribute(distribution, signature) ==
    LET struct == getStakingEscrowDistributeArguments(SignedAssetDistribution(distribution, signature))
        d      == AsDistribution(struct)
    IN  /\ Len(frames) < IF IsNative THEN MaxDepth ELSE 1
        /\ IsUint128(struct.nonce) /\ IsUint128(struct.parentNonce)
        /\ IsNext(d)
        /\ IsLaterThanParent(d)
        /\ d.assetAddress = EscrowAsset
        /\ isSignatureValid(getDistributionHash(struct), struct.exchangeSignature, exchangeWallet)
        /\ d.quantity <= balance
        /\ lastNonce' = [lastNonce EXCEPT ![d.walletAddress] = d.nonce]
        /\ balance' = balance - d.quantity
        /\ paid' = Append(paid, d)
        /\ frames' = Append(frames, d)
        /\ UNCHANGED <<signatures, exchangeWallet, totalDistributed>>

\* Mutant of TotalAfter: forgets what was distributed before.
TotalOfLast(d) == d.quantity

TotalAfter(d) == totalDistributed[d.walletAddress] + d.quantity

\* The receiver returns.
FinishDistribution ==
    /\ frames # <<>>
    /\ LET d == frames[Len(frames)]
       IN  totalDistributed' = [totalDistributed EXCEPT ![d.walletAddress] = TotalAfter(d)]
    /\ frames' = SubSeq(frames, 1, Len(frames) - 1)
    /\ UNCHANGED <<signatures, exchangeWallet, lastNonce, balance, paid>>

\* Assets are sent to the escrow, or taken out by its admin.
Fund(quantity) ==
    /\ balance + quantity <= MaxEscrow
    /\ balance' = balance + quantity
    /\ UNCHANGED <<signatures, exchangeWallet, lastNonce, totalDistributed, frames, paid>>

WithdrawEscrow(quantity) ==
    /\ quantity <= balance
    /\ balance' = balance - quantity
    /\ UNCHANGED <<signatures, exchangeWallet, lastNonce, totalDistributed, frames, paid>>

SetExchange(newExchangeWallet) ==
    /\ newExchangeWallet # exchangeWallet
    /\ exchangeWallet' = newExchangeWallet
    /\ UNCHANGED <<signatures, lastNonce, totalDistributed, frames, balance, paid>>

RemoveExchange ==
    /\ exchangeWallet' = ZeroAddress
    /\ UNCHANGED <<signatures, lastNonce, totalDistributed, frames, balance, paid>>

-----------------------------------------------------------------------------
EscrowInit ==
    /\ signatures = {}
    /\ exchangeWallet \in ExchangeWallets
    /\ lastNonce = [w \in Claimants |-> 0]
    /\ totalDistributed = [w \in Claimants |-> 0]
    /\ frames = <<>>
    /\ balance = 0
    /\ paid = <<>>

EscrowNext ==
    \/ \E offer \in Offers : SignDistribution(offer[1], offer[2], offer[3])
    \/ \E d \in Distributions, signature \in signatures : Distribute(d, signature)
    \/ FinishDistribution
    \/ \E quantity \in EscrowQuantities : Fund(quantity) \/ WithdrawEscrow(quantity)
    \/ \E w \in ExchangeWallets : SetExchange(w)
    \/ RemoveExchange

EscrowSpec == EscrowInit /\ [][EscrowNext]_escrowVars

-----------------------------------------------------------------------------
(* What it promises, in terms of the signatures and the payments.          *)

AllDistributions == {StakingDistributionTypedData(ThisEscrow, d).message : d \in Distributions}

AuthorizedDistributions ==
    {d \in AllDistributions :
        \E w \in ExchangeWallets :
            [signer |-> w, typedData |-> TypedData(ThisEscrow, "AssetDistribution", d)] \in signatures}

TimesPaid(d) == Cardinality({i \in DOMAIN paid : paid[i] = d})

Promise ==
    INSTANCE Authorizations WITH
        Requests   <- AllDistributions,
        Limit      <- [d \in AllDistributions |-> d.quantity],
        authorized <- AuthorizedDistributions,
        settled    <- [d \in AllDistributions |-> TimesPaid(d) * d.quantity]

\* Temporal property.  Whatever receivers do while they are paid, a distribution
\* is paid at most once, in full, and after the exchange signed it for this
\* escrow.
PaysWhatIsSigned == Promise!Spec

\* Invariant.  Of the distributions signed upon one parent, which may be as many
\* as the exchange likes, a wallet collects one: a superseded one stays so.
OneOfEachParent ==
    \A i, j \in DOMAIN paid :
        /\ paid[i].walletAddress = paid[j].walletAddress
        /\ paid[i].parentNonce = paid[j].parentNonce
        => i = j

QuantityOf(payments, w) ==
    SumTo([i \in DOMAIN payments |-> IF payments[i].walletAddress = w THEN payments[i].quantity ELSE 0],
          Len(payments))

\* Invariant.  A wallet's total is what it was paid, but for the calls that are
\* still paying, in whatever order nested calls end.
TotalsArePaid ==
    \A w \in Claimants :
        totalDistributed[w] + QuantityOf(frames, w) = QuantityOf(paid, w)

===============================================================================
