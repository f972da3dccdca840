-------------------------------- MODULE MCBridge --------------------------------
(***************************************************************************)
(* Two transfers at a time, of wallets one of which the tokens refuse to   *)
(* pay, with payloads of every type, well formed or not, for a provider    *)
(* that is a contract and for one that is not.                             *)
(***************************************************************************)
EXTENDS Bridge

CONSTANTS Alice, Bob, Fund

MCWallets == {Alice, Bob, Fund}

PayloadOf(type, wallet, manager) ==
    [type |-> type, wallet |-> wallet, manager |-> manager, isProviderContract |-> TRUE]

WithoutProvider(payload) == [payload EXCEPT !.isProviderContract = FALSE]

DepositOf(destination, payload) ==
    [type |-> "DepositToKatana", destinationWallet |-> destination, payload |-> payload,
     isFromAdapter |-> FALSE, isToEthereum |-> FALSE]

WithdrawalOf(destination, isFromAdapter, isToEthereum) ==
    [type |-> "WithdrawFromKatana", destinationWallet |-> destination,
     payload |-> PayloadOf("Undecodable", None, None),
     isFromAdapter |-> isFromAdapter, isToEthereum |-> isToEthereum]

MCMessages ==
    {DepositOf(Alice, PayloadOf("DepositToWallet", Alice, None)),
     DepositOf(Alice, PayloadOf("AddManagedAccount", Alice, None)),
     DepositOf(Alice, WithoutProvider(PayloadOf("AddManagedAccount", Alice, None))),
     DepositOf(Bob, PayloadOf("DepositToManagedAccount", Bob, Alice)),
     DepositOf(None, WithoutProvider(PayloadOf("DepositToManagedAccount", Fund, Alice))),
     DepositOf(Alice, PayloadOf("Undecodable", None, None)),
     WithdrawalOf(Alice, TRUE, FALSE),
     WithdrawalOf(Bob, TRUE, TRUE),
     WithdrawalOf(Bob, FALSE, FALSE),
     WithdrawalOf(None, FALSE, TRUE)}

MCInitialBalances == [w \in MCWallets |-> IF w = Bob THEN 4 ELSE 0]

ParametersOf(addFee, addMinimum, depositFee, depositMinimum) ==
    [addManagedAccountFee |-> addFee, minimumAddManagedAccount |-> addMinimum,
     depositToManagedAccountFee |-> depositFee, minimumDepositToManagedAccount |-> depositMinimum]

MCComposeParameters ==
    {ParametersOf(1, 4, 1, 4), ParametersOf(3, 3, 2, 3), ParametersOf(5, 4, 1, 2)}

===============================================================================
