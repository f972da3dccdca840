-------------------------------- MODULE MCEscrow --------------------------------
(***************************************************************************)
(* Two wallets with a native asset, one of which is given a cycle of       *)
(* nonces, two distributions upon one parent and one for another escrow.   *)
(***************************************************************************)
EXTENDS EarningsEscrow

Alice == 21
Bob   == 22

DistributionOf(w, parentNonce, nonce, quantity) ==
    [nonce |-> Uuid(nonce), parentNonce |-> Uuid(parentNonce), walletAddress |-> w,
     assetAddress |-> EscrowAsset, quantity |-> quantity]

First  == DistributionOf(Alice, 0, 4, 2)
Second == DistributionOf(Alice, 4, 8, 1)
Back   == DistributionOf(Alice, 8, 4, 1)
Other  == DistributionOf(Alice, 4, 12, 3)
Random == DistributionOf(Bob, 0, 13, 1)
Stuck  == DistributionOf(Bob, 13, 16, 1)

MCDistributions == {First, Second, Back, Other, Random, Stuck}

MCOffers ==
    ({31} \X {ThisEscrow} \X MCDistributions) \cup
    {<<31, "elsewhere", First>>, <<32, ThisEscrow, Second>>}

===============================================================================
