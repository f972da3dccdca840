-------------------------------- MODULE Custody --------------------------------
(***************************************************************************)
(* Quote coming in, moving between wallets and going out: libraries        *)
(* Depositing, Transferring and the online part of Withdrawing, with the   *)
(* Custodian's token balance.  Bridge adapters only forward what the       *)
(* Custodian pays out.                                                     *)
(***************************************************************************)
EXTENDS ExchangeState

CONSTANTS
    DepositUnits,   \* token units a wallet may send
    TokenFees,      \* token units a fee-on-transfer token may keep
    GasFees,        \* pips the dispatcher may charge
    MaxDeposits     \* bound: deposits made

ASSUME CustodyAssumption ==
    /\ DepositUnits \subseteq Nat /\ TokenFees \subseteq Nat /\ GasFees \subseteq Nat
    /\ MaxDeposits \in Nat

\* Only the admin; the index may be set once.
SetDepositIndex ==
    /\ depositIndex = DepositIndexNotSet
    /\ depositIndex' = 0
    /\ UNCHANGED <<ledger, pendingDepositQuantity, custodianBalance, isDepositEnabled,
                   walletExits, fundVars, marketVars, requestVars, nonceInvalidations, clockVars>>

SetDepositEnabled(isEnabled) ==
    /\ isDepositEnabled # isEnabled
    /\ isDepositEnabled' = isEnabled
    /\ UNCHANGED <<ledger, pendingDepositQuantity, custodianBalance, depositIndex,
                   walletExits, fundVars, marketVars, requestVars, nonceInvalidations, clockVars>>

\* The depositor is credited with what the Custodian received, in pending.
Deposit(source, depositor, units, tokenFee) ==
    /\ depositIndex # DepositIndexNotSet /\ isDepositEnabled
    /\ depositor # exitFundWallet
    /\ ~walletExits[source].exists /\ ~walletExits[depositor].exists
    /\ units > 0 /\ tokenFee <= units
    /\ depositIndex < MaxDeposits
    /\ custodianBalance' = custodianBalance + (units - tokenFee)
    /\ pendingDepositQuantity' =
         [pendingDepositQuantity EXCEPT ![depositor] = @ + (units - tokenFee) * UnitSize]
    /\ depositIndex' = depositIndex + 1
    /\ UNCHANGED <<ledger, isDepositEnabled, walletExits, fundVars, marketVars, requestVars,
                   nonceInvalidations, clockVars>>

\* Mutant of ApplyPendingDeposits: more than what is pending may be credited.
ApplyAnyDeposit(w, quantity) ==
    /\ pendingDepositQuantity' = [pendingDepositQuantity EXCEPT ![w] = @ - quantity]
    /\ ledger' = UpdateForDeposit(ledger, w, quantity)
    /\ UNCHANGED <<custodianBalance, depositIndex, isDepositEnabled, walletExits, fundVars,
                   marketVars, requestVars, nonceInvalidations, clockVars>>

\* The dispatcher credits all or part of what is pending.
ApplyPendingDeposits(w, quantity) ==
    /\ quantity <= pendingDepositQuantity[w]
    /\ pendingDepositQuantity' = [pendingDepositQuantity EXCEPT ![w] = @ - quantity]
    /\ ledger' = UpdateForDeposit(ledger, w, quantity)
    /\ UNCHANGED <<custodianBalance, depositIndex, isDepositEnabled, walletExits, fundVars,
                   marketVars, requestVars, nonceInvalidations, clockVars>>

\* Mutant of IsCompleted: replays are not prevented.
IsForgotten(request) == FALSE

\* By its hash, which covers everything but the gas fee.
IsCompleted(request) == request \in completedTransfers \cup completedWithdrawals

\* Only the source wallet has to meet its margin requirement afterwards.
TransferQuote(t, gasFee) ==
    LET funded == Funded(Funded(ledger, t.source), t.destination)
        after  == UpdateForTransfer(funded, t.source, t.destination,
                                    t.grossQuantity, gasFee, FeeWallet)
    IN  /\ ~ExitFundHasPositions
        /\ ~IsExitFinalized(t.source) /\ ~IsExitFinalized(t.destination)
        /\ t.source # t.destination
        /\ t.source \notin {exitFundWallet, InsuranceFund}
        /\ t.destination # exitFundWallet
        /\ IsFeeQuantityValid(gasFee, t.grossQuantity)
        /\ gasFee <= t.grossQuantity
        /\ ~IsCompleted(t)
        /\ MeetsInitialMargin(after, t.source, IndexPrice, FieldsFor(t.source))
        /\ ledger' = after
        /\ completedTransfers' = completedTransfers \cup {t}
        /\ UNCHANGED <<custodyVars, walletExits, fundVars, marketVars, partiallyFilled,
                       completedOrders, completedWithdrawals, nonceInvalidations, clockVars>>

\* Mutant of HasCollateralFor: margin is checked before the withdrawal.
HadCollateralFor(r, before, after) ==
    MeetsInitialMargin(before, r.wallet, IndexPrice, FieldsFor(r.wallet))

\* The Exit Fund's own balance must cover it; any other wallet still has to
\* meet its margin requirement afterwards.
HasCollateralFor(r, before, after) ==
    IF r.wallet = exitFundWallet
    THEN before.quote[r.wallet] >= r.grossQuantity
    ELSE MeetsInitialMargin(after, r.wallet, IndexPrice, FieldsFor(r.wallet))

\* The Custodian pays whole token units.  The Exit Fund clock is read here but
\* never recomputed.
Withdraw(r, gasFee) ==
    LET funded == Funded(ledger, r.wallet)
        after  == UpdateForWithdrawal(funded, r.wallet, r.grossQuantity, gasFee, FeeWallet)
        units  == (r.grossQuantity - gasFee) \div UnitSize
    IN  /\ ~ExitFundHasPositions
        /\ ~IsExitFinalized(r.wallet)
        /\ r.wallet = exitFundWallet => ExitFundWithdrawDelayElapsed
        /\ gasFee <= r.maximumGasFee /\ r.maximumGasFee <= r.grossQuantity
        /\ ~IsCompleted(r)
        /\ HasCollateralFor(r, funded, after)
        /\ units <= custodianBalance
        /\ ledger' = after
        /\ custodianBalance' = custodianBalance - units
        /\ completedWithdrawals' = completedWithdrawals \cup {r}
        /\ UNCHANGED <<pendingDepositQuantity, depositIndex, isDepositEnabled, walletExits,
                       fundVars, marketVars, partiallyFilled, completedOrders,
                       completedTransfers, nonceInvalidations, clockVars>>

CustodyNext ==
    \/ SetDepositIndex
    \/ \E isEnabled \in BOOLEAN : SetDepositEnabled(isEnabled)
    \/ \E source, depositor \in Wallets, units \in DepositUnits, tokenFee \in TokenFees :
          Deposit(source, depositor, units, tokenFee)
    \/ \E w \in Wallets : \E quantity \in 1..pendingDepositQuantity[w] :
          ApplyPendingDeposits(w, quantity)
    \/ \E t \in Transfers, gasFee \in GasFees : TransferQuote(t, gasFee)
    \/ \E r \in Withdrawals, gasFee \in GasFees : Withdraw(r, gasFee)

===============================================================================
