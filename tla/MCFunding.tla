------------------------------- MODULE MCFunding -------------------------------
(***************************************************************************)
(* Quote coming in, going out and changing hands while funding accrues, is *)
(* settled in parts by anyone, and positions are resized.  Alice is either *)
(* an ordinary wallet or the manager of an account that provider P keeps,  *)
(* which prices may then turn against and which may leave; Bob, who is     *)
(* short, may leave too and return as a manager.                           *)
(***************************************************************************)
EXTENDS MCExchange, ManagedAccounts, FundingQuartets

CONSTANT P

\* Alice may sell a third of her long position to Bob, who is short.
MCOrders == {Signed(Alice, "Sell", 10, 0, 4), Signed(Bob, "Buy", 10, 0, 4)}

MCTransfers == {[source |-> Alice, destination |-> Bob, grossQuantity |-> 4, nonce |-> 4]}

MCWithdrawals == {Requested(Alice, 3, 1), Requested(Bob, 6, 1)}

MCRates == {2}

Sentinel == -100

Nobody == [w \in Wallets |-> None]
MCInitialProviders == {Nobody, [Nobody EXCEPT ![Alice] = P]}

\* Depositor Bob may ask for a quantity or for what his shares are worth.
FromAlice(type, quantity) ==
    [type |-> type, managerWallet |-> Alice, depositorWallet |-> Bob, provider |-> P,
     quantity |-> quantity, maximumGasFee |-> 1, nonce |-> 4]
MCManagedWithdrawals == {FromAlice("ByQuantity", 6), FromAlice("ByShares", 5)}

UnmanagedNext ==
    \/ SetDepositIndex
    \/ \E isEnabled \in BOOLEAN : SetDepositEnabled(isEnabled)
    \/ \E units \in DepositUnits, tokenFee \in TokenFees : Deposit(Bob, Alice, units, tokenFee)
    \/ \E quantity \in {5, 8} : ApplyPendingDeposits(Alice, quantity)
    \/ \E r \in Withdrawals, gasFee \in GasFees : Withdraw(r, gasFee)
    \/ \E t \in Transfers, gasFee \in GasFees : TransferQuote(t, gasFee)
    \/ \E buy, sell \in Orders, quote \in QuoteQuantities :
          ExecuteTrade([market |-> 1, base |-> 10, quote |-> quote,
                        makerSide |-> "Buy", makerFee |-> 1, takerFee |-> 1], buy, sell)
    \/ PublishIndexPrice(1, 10, now)
    \/ FundingNext
    \/ Tick

\* Bound: while Alice is a manager the markets stay open for one funding period.
MaxManagedTime == 6

ManagerNext ==
    \/ \E units \in DepositUnits : DepositToManagedAccount(Bob, Alice, units, 0)
    \/ \E quantity \in {5, 8} : ApplyPendingDepositToManagedAccount(Alice, quantity)
    \/ \E r \in ManagedWithdrawals, gasFee \in GasFees :
          \/ \E grossQuantity \in GrossQuantities :
                ApplyPendingWithdrawalFromManagedAccount(r, grossQuantity, gasFee)
          \/ CancelPendingWithdrawalFromManagedAccount(r, gasFee)
    \/ LiquidateManagerWalletInMaintenance(Alice, [m \in Markets |-> 0])
    \/ LiquidateManagerWalletInMaintenanceDuringSystemRecovery(Alice, [m \in Markets |-> 0])
    \/ \E base \in DeleverageQuantities, quote \in DeleverageQuotes :
          DeleverageManagerInMaintenanceAcquisition(Alice, Bob, 1, base, quote)
    \/ \E quantity \in ExitQuantities : WithdrawExitFromManagedAccount(Alice, quantity)
    \/ \E providers \in ProviderLists : SetManagedAccountProviders(providers)
    \/ AssociateManagerWalletWithManagedAccount(P, Bob)
    \/ /\ \/ SetDepositIndex
          \/ SetDepositEnabled(TRUE)
          \/ now < MaxManagedTime /\ Tick
          \/ \E rate \in FundingRates : PublishFundingMultiplier(1, rate)
          \/ \E price \in IndexPrices : PublishIndexPrice(1, price, now)
          \/ ExitWallet(Alice)
          \/ ExitWallet(Bob)
          \/ ~IsManaged(Bob) /\ (WithdrawExit(Bob) \/ ClearWalletExit(Bob))
       /\ UNCHANGED managedVars

FundingSpecNext ==
    \/ ~IsManaged(Alice) /\ UnmanagedNext /\ UNCHANGED managedVars
    \/ IsManaged(Alice) /\ ManagerNext

FundingSpec == ManagedInit /\ [][FundingSpecNext]_allVars

===============================================================================
