----------------------------- MODULE ManagedAccounts -----------------------------
(***************************************************************************)
(* Accounts that a manager wallet trades with and whose owners a Managed   *)
(* Account provider keeps: library ManagedAccounts, and what the other     *)
(* libraries do differently for the manager wallets associated with one.   *)
(*                                                                         *)
(* A provider is a contract of its own.  Of it the model keeps what the    *)
(* Exchange has called it with: the deposits it has been told of and not   *)
(* yet told to apply, and the withdrawals it has been told to pay or to    *)
(* cancel.  Deposits come in and payments go out through it.               *)
(***************************************************************************)
EXTENDS Exchange

CONSTANTS
    Providers,
    InitialProviders,       \* which provider each wallet may start with, or None
    ProviderLists,          \* the whitelists that governance may set
    ManagedWithdrawals,     \* the withdrawals that depositors have signed
    GrossQuantities,        \* what the dispatcher says the signed shares are worth
    ExitQuantities,         \* what a provider asks for at an exit
    None

VARIABLES
    managedAccountProviders,      \* the whitelist
    managedAccountProvider,       \* of each wallet
    completedManagedWithdrawals,  \* _completedWithdrawalFromManagedAccountHashes
    toldPending,                  \* deposits the provider has queued for each wallet
    toldResolved                  \* how often it was told to pay or cancel each withdrawal

providerVars == <<managedAccountProviders, managedAccountProvider>>
toldVars     == <<toldPending, toldResolved>>
managedVars  == <<providerVars, completedManagedWithdrawals, toldVars>>
allVars      == <<vars, managedVars>>

ManagedWithdrawal ==
    [type : {"ByQuantity", "ByShares"}, managerWallet : Wallets, depositorWallet : Wallets,
     provider : Providers,
     quantity : Nat,          \* the gross quantity, or at least what the shares must be worth
     maximumGasFee : Nat, nonce : Nat]

ASSUME ManagedAssumption ==
    /\ InitialProviders \subseteq [Wallets -> Providers \cup {None}] /\ None \notin Providers
    /\ ProviderLists \subseteq SUBSET Providers
    /\ ManagedWithdrawals \subseteq ManagedWithdrawal
    /\ GrossQuantities \subseteq Nat /\ ExitQuantities \subseteq Nat

IsManaged(w) == managedAccountProvider[w] # None

-----------------------------------------------------------------------------
(* Association and deposits. *)

\* By the provider.  Neither an exited wallet nor one that has anything may be.
AssociateManagerWalletWithManagedAccount(provider, w) ==
    /\ provider \in managedAccountProviders
    /\ ~walletExits[w].exists
    /\ ledger.open[w] = {} /\ pendingDepositQuantity[w] = 0 /\ ledger.quote[w] = 0
    /\ ~IsManaged(w)
    /\ managedAccountProvider' = [managedAccountProvider EXCEPT ![w] = provider]
    /\ UNCHANGED <<vars, managedAccountProviders, completedManagedWithdrawals, toldVars>>

\* Through the provider or a bridge adapter.  The depositor may not be a manager,
\* other than of this account.
DepositToManagedAccount(depositor, manager, units, tokenFee) ==
    /\ managedAccountProvider[manager] \in managedAccountProviders
    /\ IsManaged(depositor) => depositor = manager
    /\ Deposit(manager, manager, units, tokenFee)
    /\ toldPending' = [toldPending EXCEPT ![manager] = @ + (units - tokenFee) * UnitSize]
    /\ UNCHANGED <<providerVars, completedManagedWithdrawals, toldResolved>>

ApplyPendingDepositToManagedAccount(manager, quantity) ==
    /\ ~IsExitFinalized(manager)
    /\ IsManaged(manager)
    /\ ApplyPendingDeposits(manager, quantity)
    /\ toldPending' = [toldPending EXCEPT ![manager] = @ - quantity]
    /\ UNCHANGED <<providerVars, completedManagedWithdrawals, toldResolved>>

-----------------------------------------------------------------------------
(* Withdrawals, which are pending with the provider until they are settled. *)

\* Mutant of IsPending: what is paid is not remembered.
IsSigned(r) == r \in ManagedWithdrawals

IsPending(r) == r \in ManagedWithdrawals \ completedManagedWithdrawals

\* What both settlements of a withdrawal require.
CanSettle(r, gasFee) ==
    /\ ~IsExitFinalized(r.depositorWallet) /\ ~IsExitFinalized(r.managerWallet)
    /\ r.depositorWallet # exitFundWallet
    /\ gasFee <= r.maximumGasFee
    /\ r.provider \in managedAccountProviders
    /\ r.provider = managedAccountProvider[r.managerWallet]
    /\ IsPending(r)

\* The manager wallet gives the gross quantity, of which the fee wallet gets the
\* fee, and still has to meet its margin requirement.
SettleManagedWithdrawal(r, grossQuantity, gasFee) ==
    LET manager == r.managerWallet
        funded  == Funded(ledger, manager)
        after   == UpdateForWithdrawal(funded, manager, grossQuantity, gasFee, FeeWallet)
    IN  /\ CanSettle(r, gasFee)
        /\ MeetsInitialMargin(after, manager, IndexPrice, FieldsFor(manager))
        /\ ledger' = after
        /\ completedManagedWithdrawals' = completedManagedWithdrawals \cup {r}
        /\ toldResolved' = [toldResolved EXCEPT ![r] = @ + 1]
        /\ UNCHANGED <<pendingDepositQuantity, depositIndex, isDepositEnabled, walletExits,
                       fundVars, marketVars, requestVars, nonceInvalidations, clockVars,
                       providerVars, toldPending>>

\* The net quantity goes to the provider, in whole token units.  Unlike other
\* withdrawals these go on in recovery.
ApplyPendingWithdrawalFromManagedAccount(r, grossQuantity, gasFee) ==
    LET units == (grossQuantity - gasFee) \div UnitSize
    IN  /\ r.maximumGasFee <= grossQuantity
        /\ \/ r.type = "ByQuantity" /\ grossQuantity = r.quantity
           \/ r.type = "ByShares" /\ grossQuantity >= r.quantity
        /\ SettleManagedWithdrawal(r, grossQuantity, gasFee)
        /\ units <= custodianBalance
        /\ custodianBalance' = custodianBalance - units

\* Only the fee is taken.
CancelPendingWithdrawalFromManagedAccount(r, gasFee) ==
    /\ SettleManagedWithdrawal(r, gasFee, gasFee)
    /\ UNCHANGED custodianBalance

-----------------------------------------------------------------------------
(* Liquidation and exit of a manager wallet. *)

\* Mutant of RefundPendingDeposits: the provider is paid and not told.
RefundUntold(w) ==
    LET units == pendingDepositQuantity[w] \div UnitSize
    IN  /\ units <= custodianBalance
        /\ custodianBalance' = custodianBalance - units
        /\ pendingDepositQuantity' = [pendingDepositQuantity EXCEPT ![w] = 0]
        /\ UNCHANGED <<depositIndex, isDepositEnabled, toldPending>>

\* The provider gets the deposits that were not applied in time and is told that
\* its manager was liquidated.
RefundPendingDeposits(w) ==
    LET units == pendingDepositQuantity[w] \div UnitSize
    IN  /\ units <= custodianBalance
        /\ custodianBalance' = custodianBalance - units
        /\ pendingDepositQuantity' = [pendingDepositQuantity EXCEPT ![w] = 0]
        /\ toldPending' = [toldPending EXCEPT ![w] = 0]
        /\ UNCHANGED <<depositIndex, isDepositEnabled>>

LiquidateManagerWalletInMaintenance(w, rounding) ==
    /\ IsManaged(w)
    /\ ~ExitFundHasPositions
    /\ LiquidateAtBankruptcyPrice(w, InsuranceFund, rounding)
    /\ MeetsInitialMargin(ledger', InsuranceFund, IndexPrice, FieldsFor(InsuranceFund))
    /\ RefundPendingDeposits(w)
    /\ UNCHANGED <<walletExits, fundVars, marketVars, requestVars, nonceInvalidations, clockVars,
                   providerVars, completedManagedWithdrawals, toldResolved>>

LiquidateManagerWalletInMaintenanceDuringSystemRecovery(w, rounding) ==
    /\ IsManaged(w)
    /\ ExitFundHasPositions
    /\ LiquidateAtBankruptcyPrice(w, exitFundWallet, rounding)
    /\ exitFundPositionOpenedAt' = NextExitFundPositionOpenedAt(ledger')
    /\ RefundPendingDeposits(w)
    /\ UNCHANGED <<walletExits, exitFundWallet, marketVars, requestVars, nonceInvalidations,
                   clockVars, providerVars, completedManagedWithdrawals, toldResolved>>

\* A manager that loses its last position to deleveraging counts as liquidated.
DeleverageManagerInMaintenanceAcquisition(w, counterparty, m, base, quote) ==
    LET funded == FundedForDeleverage(w, counterparty)
    IN  /\ IsManaged(w)
        /\ ~ExitFundHasPositions
        /\ w \notin {exitFundWallet, InsuranceFund}
        /\ IsInMaintenance(funded, w, IndexPrice, FieldsFor(w))
        /\ quote \in WithinOnePip(
             BankruptcyQuoteQuantity(funded, w, m, SignedBase(funded, w, m, base),
                                     IndexPrice, FieldsFor(w)))
        /\ Deleverage(w, counterparty, m, base, quote)
        /\ ledger'.open[w] = {}
        /\ RefundPendingDeposits(w)
        /\ UNCHANGED <<walletExits, fundVars, marketVars, requestVars, nonceInvalidations, clockVars,
                       providerVars, completedManagedWithdrawals, toldResolved>>

\* Mutant of Withdrawable: the pending deposits are available, and stay pending.
WithdrawableAtCost(w, remaining) == Larger(0, remaining) + 2 * pendingDepositQuantity[w]

\* The quote of an exited manager wallet without its positions, with its pending
\* deposits.
Withdrawable(w, remaining) ==
    (IF ToleratesAsZero(w, remaining) THEN 0 ELSE remaining) + pendingDepositQuantity[w]

\* By the provider, for one depositor after the other: the first call moves the
\* positions to the Exit Fund, and what is not asked for stays with the manager.
WithdrawExitFromManagedAccount(w, quantity) ==
    LET funded    == Funded(ledger, w)
        prices    == ExitQuoteQuantities(funded, w, oraclePrice, FieldsFor(w))
        change    == AcquisitionQuoteChange(funded, w, prices)
        remaining == RemainingQuote(funded, w, change)
        acquired  == AddQuote(AcquirePositions(funded, w, exitFundWallet, prices, Published),
                              exitFundWallet, change)
        after     == SetQuote(acquired, w, Withdrawable(w, remaining) - quantity)
        units     == quantity \div UnitSize
    IN  /\ managedAccountProvider[w] \in managedAccountProviders
        /\ IsExitFinalized(w)
        /\ remaining >= 0 \/ ToleratesAsZero(w, remaining)
        /\ quantity <= Withdrawable(w, remaining)
        /\ units <= custodianBalance
        /\ ledger' = after
        /\ pendingDepositQuantity' = [pendingDepositQuantity EXCEPT ![w] = 0]
        /\ toldPending' = [toldPending EXCEPT ![w] = 0]
        /\ custodianBalance' = custodianBalance - units
        /\ exitFundPositionOpenedAt' = NextExitFundPositionOpenedAt(after)
        /\ UNCHANGED <<depositIndex, isDepositEnabled, walletExits, exitFundWallet, marketVars,
                       requestVars, nonceInvalidations, clockVars, providerVars,
                       completedManagedWithdrawals, toldResolved>>

\* By governance.
SetManagedAccountProviders(providers) ==
    /\ managedAccountProviders' = providers
    /\ UNCHANGED <<vars, managedAccountProvider, completedManagedWithdrawals, toldVars>>

-----------------------------------------------------------------------------
(* The other operations, which turn manager wallets down or leave them alone. *)

\* Each of them but the last is closed to manager wallets: these have the
\* actions above, and their exits cannot be cleared.
ForOtherWallets(w) ==
    \/ /\ ~IsManaged(w)
       /\ \/ \E source \in Wallets, units \in DepositUnits, tokenFee \in TokenFees :
                Deposit(source, w, units, tokenFee)
          \/ \E quantity \in 1..pendingDepositQuantity[w] : ApplyPendingDeposits(w, quantity)
          \/ \E r \in Withdrawals, gasFee \in GasFees : r.wallet = w /\ Withdraw(r, gasFee)
          \/ ClearWalletExit(w)
          \/ WithdrawExit(w)
          \/ WithdrawExitAdmin(w)
          \/ w \in ExitFundWallets /\ SetExitFundWallet(w)
          \/ \E rounding \in [Markets -> Roundings] :
                \/ LiquidateWalletInMaintenance(w, rounding)
                \/ LiquidateWalletInMaintenanceDuringSystemRecovery(w, rounding)
    \/ /\ \E counterparty \in Wallets, m \in Markets, base \in DeleverageQuantities,
             quote \in DeleverageQuotes :
             DeleverageInMaintenanceAcquisition(w, counterparty, m, base, quote)
       /\ ~IsManaged(w) \/ ledger'.open[w] # {}

\* Trading, transfers and the rest know nothing of managed accounts.
ForAnyWallet ==
    \/ SetDepositIndex
    \/ \E isEnabled \in BOOLEAN : SetDepositEnabled(isEnabled)
    \/ \E t \in Transfers, gasFee \in GasFees : TransferQuote(t, gasFee)
    \/ TradingNext
    \/ \E w \in Wallets, rounding \in [Markets -> Roundings] : LiquidateWalletExit(w, rounding)
    \/ \E w \in Wallets, m \in Markets, quote \in LiquidationQuotes :
          \/ LiquidatePositionBelowMinimum(w, m, quote)
          \/ \E fee \in LiquidationFees : LiquidatePositionInDeactivatedMarket(w, m, quote, fee)
    \/ \E w, counterparty \in Wallets, m \in Markets, base \in DeleverageQuantities,
          quote \in DeleverageQuotes :
          \/ DeleverageExitAcquisition(w, counterparty, m, base, quote)
          \/ DeleverageInsuranceFundClosure(counterparty, m, base, quote)
          \/ DeleverageExitFundClosure(counterparty, m, base, quote)
    \/ \E w \in Wallets : ExitWallet(w)
    \/ WithdrawExitFund
    \/ MarketAdminNext
    \/ Tick

ManagedInit ==
    /\ Init
    /\ managedAccountProviders = Providers
    /\ managedAccountProvider \in InitialProviders
    /\ completedManagedWithdrawals = {}
    /\ toldPending = [w \in Wallets |-> 0]
    /\ toldResolved = [r \in ManagedWithdrawals |-> 0]

ManagedAccountsNext ==
    \/ \E provider \in Providers, w \in Wallets :
          AssociateManagerWalletWithManagedAccount(provider, w)
    \/ \E depositor, manager \in Wallets, units \in DepositUnits, tokenFee \in TokenFees :
          DepositToManagedAccount(depositor, manager, units, tokenFee)
    \/ \E w \in Wallets : \E quantity \in 1..pendingDepositQuantity[w] :
          ApplyPendingDepositToManagedAccount(w, quantity)
    \/ \E r \in ManagedWithdrawals, gasFee \in GasFees :
          \/ \E grossQuantity \in GrossQuantities :
                ApplyPendingWithdrawalFromManagedAccount(r, grossQuantity, gasFee)
          \/ CancelPendingWithdrawalFromManagedAccount(r, gasFee)
    \/ \E w \in Wallets, rounding \in [Markets -> Roundings] :
          \/ LiquidateManagerWalletInMaintenance(w, rounding)
          \/ LiquidateManagerWalletInMaintenanceDuringSystemRecovery(w, rounding)
    \/ \E w, counterparty \in Wallets, m \in Markets, base \in DeleverageQuantities,
          quote \in DeleverageQuotes :
          DeleverageManagerInMaintenanceAcquisition(w, counterparty, m, base, quote)
    \/ \E w \in Wallets, quantity \in ExitQuantities : WithdrawExitFromManagedAccount(w, quantity)
    \/ \E providers \in ProviderLists : SetManagedAccountProviders(providers)

ManagedNext ==
    \/ ManagedAccountsNext
    \/ (ForAnyWallet \/ \E w \in Wallets : ForOtherWallets(w)) /\ UNCHANGED managedVars

ManagedSpec == ManagedInit /\ [][ManagedNext]_allVars

-----------------------------------------------------------------------------
(* Properties. *)

\* Invariant.  What the Exchange holds as pending for a manager wallet is what
\* its provider holds as not yet applied, whichever way the deposits leave:
\* applied in parts, refunded because the manager was liquidated or lost its
\* last position to deleveraging, or paid out at its exit.
ProvidersKnowPendingDeposits ==
    \A w \in Wallets : IsManaged(w) => toldPending[w] = pendingDepositQuantity[w]

\* Invariant.  A withdrawal is pending in two contracts, yet a provider is told
\* at most once to pay or to cancel it, the fee of a cancellation included.
ManagedWithdrawalsSettleOnce == \A r \in ManagedWithdrawals : toldResolved[r] <= 1

\* Action property.  However a provider splits the payments to its depositors,
\* an exited manager wallet gives them its pending deposits once and at most
\* what its account is worth at the oracle's prices: what is paid and what is
\* left exceed neither, one pip of rounding for each position aside.  As for
\* the exits of other wallets, the Exit Fund's own is left out.
ManagedExitPaysAtMostEquity ==
    [][\A w \in Wallets \ {exitFundWallet}, quantity \in ExitQuantities :
          WithdrawExitFromManagedAccount(w, quantity) =>
            quantity + ledger'.quote[w] + pendingDepositQuantity'[w]
              <= pendingDepositQuantity[w] + Cardinality(ledger.open[w])
                   + Larger(0, TotalAccountValue(Funded(ledger, w), w, oraclePrice))]_allVars

===============================================================================
