------------------------------- MODULE MCRecovery -------------------------------
(***************************************************************************)
(* Wallets exit, with or without the dispatcher.  With it, Alice and Bob   *)
(* trade and exit, prices move, the Exit Fund takes over positions,        *)
(* recovery closes them again and what the Exit Fund is left with is       *)
(* withdrawn.  When it is gone, Carol and Dave, who are long in one market *)
(* and short in the other, exit on their own, the oracle moves to extreme  *)
(* prices and back, anyone may withdraw what the Exit Fund was paid, the   *)
(* admin may appoint another Exit Fund, and time passes.                   *)
(***************************************************************************)
EXTENDS MCExchange

\* TRUE in all of a behavior, or never.
VARIABLE isOnline

MCOrders == {Signed(Alice, "Buy", 10, 0, 4), Signed(Bob, "Sell", 10, 0, 4)}

\* The Exit Fund may withdraw like any wallet once it has only quote.
MCWithdrawals == {Requested(2, 4, 0)}

MCRates == {1}

Carol == 6
Dave  == 7

\* Alice and Bob as before; Carol is long of Dave in the first market and short
\* of him in the second, each with the initial margin that takes.
FourUsers ==
    LET first  == SeedTrade(Deposits(<<4, 0, 0, 8, 8, 16, 16, 0>>), Alice, Bob, 1, 20, 20)
        second == SeedTrade(first, Carol, Dave, 1, 30, 30)
    IN  SeedTrade(second, Dave, Carol, 2, 2, 2)

Users == IF isOnline THEN {Alice, Bob} ELSE {Carol, Dave}

OnlineNext ==
    \/ \E w \in Users : ExitWallet(w)
    \/ \E w \in Users : WithdrawExitAdmin(w)
    \/ WithdrawExitFund
    \/ \E r \in Withdrawals : Withdraw(r, 0)
    \/ \E w \in Users, rounding \in [Markets -> Roundings] :
          LiquidateWalletInMaintenanceDuringSystemRecovery(w, rounding)
    \/ \E w \in Users, base \in DeleverageQuantities, quote \in DeleverageQuotes :
          DeleverageExitFundClosure(w, 1, base, quote)
    \/ \E buy, sell \in Orders :
          ExecuteTrade([market |-> 1, base |-> 10, quote |-> 10,
                        makerSide |-> "Buy", makerFee |-> 0, takerFee |-> 0], buy, sell)
    \/ \E price \in IndexPrices : PublishIndexPrice(1, price, now)
    \/ OraclePriceChange(1, 6)
    \/ \E rate \in FundingRates : PublishFundingMultiplier(1, rate)
    \/ now < 5 /\ Tick

OfflineNext ==
    \/ \E w \in Users : /\ now + chainPropagationPeriod <= MaxTime   \* or it is never final
                       /\ ExitWallet(w)
    \/ WithdrawExitFund
    \/ \E price \in {1, 10, 20} : OraclePriceChange(1, price)
    \/ \E price \in {10, 30} : OraclePriceChange(2, price)
    \/ \E w \in ExitFundWallets : SetExitFundWallet(w)
    \/ Tick

RecoveryNext ==
    /\ \/ isOnline /\ OnlineNext
       \/ ~isOnline /\ OfflineNext
       \/ \E w \in Users : ClearWalletExit(w)
       \/ \E w \in Users : WithdrawExit(w)
       \/ \E period \in PropagationPeriods : SetChainPropagationPeriod(period)
    /\ UNCHANGED isOnline

\* An exit withdrawal of the wallet is possible and changes something.
CanWithdrawExit(w) ==
    LET funded == Funded(ledger, w)
        prices == ExitQuoteQuantities(funded, w, oraclePrice, FieldsFor(w))
    IN  /\ w # exitFundWallet
        /\ IsExitFinalized(w)
        /\ ledger.open[w] # {} \/ ledger.quote[w] # 0 \/ pendingDepositQuantity[w] # 0
        /\ IsPayable(w, RemainingQuote(funded, w, AcquisitionQuoteChange(funded, w, prices)))

\* Without the dispatcher time passes, and a user whose exit can be withdrawn
\* eventually does so (or anyone else: withdrawExit is open to all).  Nothing is
\* asked of dispatcher or admin.  The second conjunct is weak fairness of
\* WithdrawExit(w) with the condition that implies ENABLED written out, which
\* TLC evaluates faster.
Fairness ==
    isOnline \/ /\ WF_vars(Tick)
                /\ \A w \in {Carol, Dave} :
                      []<>~CanWithdrawExit(w) \/ []<><<WithdrawExit(w)>>_vars

RecoverySpec == Init /\ isOnline \in BOOLEAN /\ [][RecoveryNext]_<<vars, isOnline>> /\ Fairness

\* The wallet is insolvent, and one of its positions would take more than all of
\* its value to carry its share of the deficit (or leave less than nothing of its
\* share of a surplus): its bankruptcy price is negative.
HasNegativePrice(w) ==
    LET l     == Funded(ledger, w)
        value == TotalAccountValueInDoublePips(l, w, oraclePrice)
    IN  /\ TotalExitAccountValue(l, w, oraclePrice) <= 0
        /\ \E m \in l.open[w] :
              /\ l.position[w][m].balance < 0 <=> value < 0
              /\ FieldsFor(w)[m].maintenanceMarginFraction * Abs(value)
                   > TotalMaintenanceMarginRequirementInTriplePips(l, w, oraclePrice, FieldsFor(w))

\* The Exit Fund was paid out what it was given for positions it still has.
ExitFundOwes ==
    ledger.quote[exitFundWallet]
      + OverOpen(ledger, exitFundWallet,
                 [m \in Markets |-> ledger.position[exitFundWallet][m].costBasis]) < 0

IsOut(w) == ledger.open[w] = {} /\ ledger.quote[w] = 0 /\ pendingDepositQuantity[w] = 0

\* Liveness.  A wallet that exits gets all the way out without the dispatcher,
\* its positions taken over and nothing of it left, insolvent or not and
\* whoever exits before it, with two exceptions.  While one of its positions
\* has a negative bankruptcy price, which the code takes as zero, what is left
\* of its quote may be negative and its exit reverts, whatever the comment at
\* Withdrawing.sol:333-336 says; it has to wait for the oracle.  And once
\* somebody has had the Exit Fund's quote withdrawn, the Custodian may hold too
\* little for those who have not left yet.
ExitsComplete ==
    \A w \in {Carol, Dave} : walletExits[w].exists /\ ~isOnline ~>
        (IsOut(w) \/ HasNegativePrice(w) \/ ExitFundOwes)

===============================================================================
