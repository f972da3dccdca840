------------------------------ MODULE WalletExits ------------------------------
(***************************************************************************)
(* Wallets leaving the Exchange on their own, without the dispatcher:      *)
(* libraries WalletExits, ExitFund and the exit part of Withdrawing.  An   *)
(* exiting wallet announces itself, waits out the chain propagation period *)
(* and then withdraws; the Exit Fund takes its positions at the exit or    *)
(* bankruptcy price.  While the Exit Fund has positions, the Exchange is   *)
(* in recovery and most of the dispatcher's operations are closed.         *)
(***************************************************************************)
EXTENDS ExchangeState

CONSTANT ExitFundWallets    \* the wallets the admin may designate as Exit Fund

ASSUME ExitAssumption == ExitFundWallets \subseteq Wallets

ExitWallet(w) ==
    /\ ~walletExits[w].exists
    /\ w \notin {exitFundWallet, InsuranceFund}
    /\ walletExits' = [walletExits EXCEPT
                         ![w] = [exists |-> TRUE, effectiveAt |-> now + chainPropagationPeriod,
                                 strategy |-> "None"]]
    /\ UNCHANGED <<ledger, custodyVars, fundVars, marketVars, requestVars, nonceInvalidations,
                   clockVars>>

ClearWalletExit(w) ==
    /\ IsExitFinalized(w)
    /\ ledger.open[w] = {} /\ ledger.quote[w] = 0
    /\ walletExits' = [walletExits EXCEPT ![w] = NoExit]
    /\ UNCHANGED <<ledger, custodyVars, fundVars, marketVars, requestVars, nonceInvalidations,
                   clockVars>>

\* Rounding may leave a wallet slightly negative: within the threshold that
\* counts as zero, for any wallet but the Exit Fund.
ToleratesAsZero(w, quantity) ==
    w # exitFundWallet /\ quantity < 0 /\ Abs(quantity) <= QuoteThreshold

\* What is left of the wallet's quote after the Exit Fund's changed by change.
\* The Exit Fund's own exit, which the code does not rule out, is no change.
RemainingQuote(l, w, change) == l.quote[w] - (IF w = exitFundWallet THEN 0 ELSE change)

\* The token units paid out, for that and for the pending deposits.
ExitUnits(w, remaining) ==
    ((IF ToleratesAsZero(w, remaining) THEN 0 ELSE remaining) + pendingDepositQuantity[w])
      \div UnitSize

IsPayable(w, remaining) ==
    /\ remaining >= 0 \/ ToleratesAsZero(w, remaining)
    /\ ExitUnits(w, remaining) <= custodianBalance

\* All positions go to the Exit Fund, priced by the on-chain oracle; the quote
\* that is left and the pending deposits are paid out.
WithdrawPositions(w) ==
    LET funded    == Funded(ledger, w)
        prices    == ExitQuoteQuantities(funded, w, oraclePrice, FieldsFor(w))
        change    == AcquisitionQuoteChange(funded, w, prices)
        remaining == RemainingQuote(funded, w, change)
        acquired  == AddQuote(AcquirePositions(funded, w, exitFundWallet, prices, Published),
                              exitFundWallet, change)
        after     == SetQuote(acquired, w, 0)
    IN  /\ IsPayable(w, remaining)
        /\ ledger' = after
        /\ pendingDepositQuantity' = [pendingDepositQuantity EXCEPT ![w] = 0]
        /\ custodianBalance' = custodianBalance - ExitUnits(w, remaining)
        /\ exitFundPositionOpenedAt' = NextExitFundPositionOpenedAt(after)
        /\ UNCHANGED <<depositIndex, isDepositEnabled, walletExits, exitFundWallet, marketVars,
                       requestVars, nonceInvalidations, clockVars>>

\* Anyone may call this for a wallet whose exit is final.
WithdrawExit(w) ==
    /\ w # exitFundWallet
    /\ IsExitFinalized(w)
    /\ WithdrawPositions(w)

\* The Exit Fund's positive quote balance, after its own delay.
WithdrawExitFund ==
    LET funded   == Funded(ledger, exitFundWallet)
        quantity == funded.quote[exitFundWallet]
        units    == quantity \div UnitSize
        after    == SetQuote(funded, exitFundWallet, 0)
    IN  /\ ExitFundWithdrawDelayElapsed
        /\ quantity >= 0
        /\ units <= custodianBalance
        /\ ledger' = after
        /\ custodianBalance' = custodianBalance - units
        /\ exitFundPositionOpenedAt' = NextExitFundPositionOpenedAt(after)
        /\ UNCHANGED <<pendingDepositQuantity, depositIndex, isDepositEnabled, walletExits,
                       exitFundWallet, marketVars, requestVars, nonceInvalidations, clockVars>>

\* During recovery the admin or dispatcher need not wait for the exit to be final.
WithdrawExitAdmin(w) ==
    /\ ExitFundHasPositions
    /\ walletExits[w].exists
    /\ WithdrawPositions(w)

HasOpenBalance(w) == ledger.open[w] # {} \/ ledger.quote[w] > 0

SetExitFundWallet(w) ==
    /\ w # exitFundWallet
    /\ ~HasOpenBalance(exitFundWallet) /\ ~HasOpenBalance(w)
    /\ exitFundWallet' = w
    /\ UNCHANGED <<ledger, custodyVars, walletExits, exitFundPositionOpenedAt, marketVars,
                   requestVars, nonceInvalidations, clockVars>>

WalletExitsNext ==
    \/ \E w \in Wallets : ExitWallet(w)
    \/ \E w \in Wallets : ClearWalletExit(w)
    \/ \E w \in Wallets : WithdrawExit(w)
    \/ \E w \in Wallets : WithdrawExitAdmin(w)
    \/ WithdrawExitFund
    \/ \E w \in ExitFundWallets : SetExitFundWallet(w)

===============================================================================
