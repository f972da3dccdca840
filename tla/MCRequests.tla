------------------------------- MODULE MCRequests -------------------------------
(***************************************************************************)
(* Orders, or transfers and withdrawals, signed with the client library,   *)
(* for this exchange and for another one, and submitted in any pairing and *)
(* any number of times.  A decimal has one place here.  In one behavior    *)
(* wallets sign either orders or payments, a bound on the instance: that a *)
(* payment's margin depends on trades is the subject of other runs.        *)
(***************************************************************************)
EXTENDS MCOrders

FromAliceToBob(nonce, quantity) ==
    [nonce |-> Uuid(nonce), sourceWallet |-> Alice, destinationWallet |-> Bob, quantity |-> quantity]

\* The same transfer twice, with nonces of their own, and one whose text has
\* a decimal more.
MCTransferRequests ==
    {FromAliceToBob(1, Canonical(10)), FromAliceToBob(2, Canonical(10)),
     FromAliceToBob(2, Text(105, 2))}

ByAlice(payload) ==
    [nonce |-> Uuid(1), wallet |-> Alice, quantity |-> Canonical(9), maximumGasFee |-> Canonical(1),
     bridgeAdapter |-> 20, bridgeAdapterPayload |-> payload]

MCWithdrawalRequests == {ByAlice("0x"), ByAlice("0xb0b")}

MCTransfers == {AsTransfer(getTransferArguments(r, EmptyPipString, NoSignature)) : r \in TransferRequests}

MCWithdrawals ==
    {AsWithdrawal(getWithdrawArguments(r, EmptyPipString, NoSignature)) : r \in WithdrawalRequests}

MCRoutes == {<<20, "0x">>, <<20, "0xb0b">>}

\* What the dispatcher charges is cut to whole pips.
MCGasFeeTexts == {Text(0, 0), Text(19, 2)}

MCGasFees == {decimalToPips(text) : text \in GasFeeTexts}

SignedTypes == {s.typedData.type : s \in signatures}

PaymentsNext ==
    \/ \E r \in TransferRequests, domain \in Domains : Sign(r.sourceWallet, TransferTypedData(r, domain))
    \/ \E r \in WithdrawalRequests, domain \in Domains : Sign(r.wallet, WithdrawalTypedData(r, domain))
    \/ \E request \in TransferRequests, gasFee \in GasFeeTexts, signature \in signatures :
          SubmitTransfer(request, gasFee, signature)
    \/ \E request \in WithdrawalRequests, gasFee \in GasFeeTexts, signature \in signatures :
          SubmitWithdrawal(request, gasFee, signature)

MCNext ==
    \/ SignedTypes \subseteq {"Order", "DelegatedKeyAuthorization"} /\ OrdersNext
    \/ SignedTypes \subseteq {"Transfer", "Withdrawal"} /\ PaymentsNext

RequestsSpec == SignedInit /\ [][MCNext]_signedVars

===============================================================================
