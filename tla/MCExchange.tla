------------------------------- MODULE MCExchange -------------------------------
(***************************************************************************)
(* The small instance the runs share: wallets by role, prices around 10    *)
(* (1.0 at ten pips to the unit), and starting ledgers reached by deposits *)
(* and trades.  Each run's module picks the transactions it interleaves;   *)
(* what it never submits is left out by an empty set of arguments.         *)
(***************************************************************************)
EXTENDS Exchange

\* The wallets by role; 1, 2 and 3 are the Insurance Fund, the Exit Fund and
\* the fee wallet in every configuration.
Alice == 4
Bob   == 5

Fields == [initialMarginFraction |-> 4, maintenanceMarginFraction |-> 3,
           incrementalInitialMarginFraction |-> 1,
           baselinePositionSize |-> 20, incrementalPositionSize |-> 10,
           maximumPositionSize |-> 30, minimumPositionSize |-> 11]

NoRates == {0}

AllFields == [m \in Markets |-> Fields]
FlatPrices == [m \in Markets |-> 10]

\* A wallet may be asked for more margin, or be allowed larger positions.
StricterFields == [Fields EXCEPT !.initialMarginFraction = 6, !.maximumPositionSize = 10]

Deposits(quote) == [EmptyLedger EXCEPT !.quote = quote]

SeedTrade(l, buyer, seller, m, base, quote) ==
    UpdateForTrade(l, buyer, seller, m, base, quote, 0, 0, FeeWallet,
                   [x \in Markets |-> BackfilledPeriods])

\* Alice long and Bob short 20 at entry price 10, with little collateral.
Funds == Deposits(<<40, 0, 0, 8, 8>>)
LongShort == SeedTrade(Funds, Alice, Bob, 1, 20, 20)

\* One order each way for Alice and Bob, of which part may remain.
Signed(wallet, side, quantity, price, nonce) ==
    [wallet |-> wallet, side |-> side, market |-> 1, quantity |-> quantity,
     limitPrice |-> price, timeInForce |-> "gtc",
     isReduceOnly |-> FALSE, isLiquidationAcquisitionOnly |-> FALSE,
     nonce |-> nonce, details |-> "none", delegatedKey |-> NoDelegatedKey]

\* A withdrawal paid straight to the wallet.
Requested(wallet, grossQuantity, maximumGasFee) ==
    [wallet |-> wallet, grossQuantity |-> grossQuantity, maximumGasFee |-> maximumGasFee, nonce |-> 4,
     route |-> "local"]

===============================================================================
