-------------------------------- MODULE Exchange --------------------------------
(***************************************************************************)
(* Contract Exchange_v1 as a whole: where it starts, every transaction it  *)
(* takes, and what must hold however the transactions of users, dispatcher *)
(* and admin interleave.  The properties that hold are in this module; the *)
(* claims of the repository that do not are in MCClaims.                   *)
(***************************************************************************)
EXTENDS Custody, Trading, Liquidation, Deleveraging, WalletExits, MarketAdmin, FiniteSets, Functions

CONSTANTS
    InitialExitFund, InitialLedger, InitialUnits,
    InitialPrices, InitialFields,
    InitiallyActive,      \* the markets activated before the exploration starts
    StartTime             \* seconds since midnight

\* Markets are added, and their funding backfilled, at StartTime.
BackfilledPeriods == 1 + StartTime \div FundingPeriod

\* The cost basis has the position's sign, and a closed position has none.
CostHasSign(p) ==
    /\ p.balance > 0 => p.costBasis >= 0
    /\ p.balance < 0 => p.costBasis <= 0
    /\ p.balance = 0 => p = ZeroPosition

ASSUME InitialAssumption ==
    /\ InitialExitFund \in Wallets
    /\ InitialLedger \in Ledger /\ IsTracked(InitialLedger)
    /\ InitialLedger.open[InitialExitFund] = {}
    /\ \A w \in Wallets, m \in Markets :
          LET p == InitialLedger.position[w][m]
          IN  CostHasSign(p) /\ (p.balance # 0 => p.lastUpdate = BackfilledPeriods)
    /\ InitialUnits \in Nat
    /\ InitialPrices \in [Markets -> Nat \ {0}]
    /\ InitialFields \in [Markets -> MarketFields]
    /\ InitiallyActive \subseteq Markets
    /\ StartTime \in Nat \ {0}     \* a clock of 0 is one that does not run

Init ==
    /\ ledger = InitialLedger
    /\ pendingDepositQuantity = [w \in Wallets |-> 0]
    /\ custodianBalance = InitialUnits
    /\ depositIndex = DepositIndexNotSet
    /\ isDepositEnabled = FALSE
    /\ walletExits = [w \in Wallets |-> NoExit]
    /\ exitFundWallet = InitialExitFund
    /\ exitFundPositionOpenedAt = 0
    /\ markets = [m \in Markets |-> [isActive |-> m \in InitiallyActive,
                                     indexPrice |-> InitialPrices[m],
                                     indexPriceAt |-> StartTime,
                                     priceAtDeactivation |-> 0]]
    /\ marketFields = InitialFields
    /\ overrides = [m \in Markets |-> [w \in Wallets |-> NoOverride]]
    /\ oraclePrice = InitialPrices
    /\ history = [m \in Markets |-> [i \in 1..BackfilledPeriods |-> 0]]
    /\ partiallyFilled = [h \in OrderHashes |-> 0]
    /\ completedOrders = {}
    /\ completedTransfers = {}
    /\ completedWithdrawals = {}
    /\ nonceInvalidations = [w \in Wallets |-> <<>>]
    /\ chainPropagationPeriod = 0
    /\ now = StartTime

Next ==
    \/ CustodyNext
    \/ TradingNext
    \/ LiquidationNext
    \/ DeleveragingNext
    \/ WalletExitsNext
    \/ MarketAdminNext
    \/ Tick

Spec == Init /\ [][Next]_vars

-----------------------------------------------------------------------------
(* The state of a position. *)

\* Invariant.  The list of open markets that every margin and funding loop
\* runs over has exactly the markets in which the wallet has a position: no
\* handler hides a position from the loops or leaves an empty one in them.
OpenMarketsAreTracked == IsTracked(ledger)

\* Invariant.  However positions are opened, increased, reduced, flipped and
\* taken over, rounding included, the cost basis keeps the position's sign,
\* and a position that is closed leaves nothing behind for the next one.
CostBasisFollowsPosition ==
    \A w \in Wallets, m \in Markets : CostHasSign(ledger.position[w][m])

-----------------------------------------------------------------------------
(* Conservation. *)

PositionSum(l, m) == SumTo([w \in Wallets |-> l.position[w][m].balance], NumWallets)

\* Action property.  In an active market every trade, liquidation,
\* deleveraging and exit moves base between two wallets and creates none; only
\* the one-sided closing of positions in a deactivated market changes the sum.
PositionsAreConserved ==
    [][\A m \in Markets :
          PositionSum(ledger, m)' # PositionSum(ledger, m) => ~markets[m].isActive]_vars

\* What the wallets are owed, the funding they have not settled included.
Claims ==
    SumTo([w \in Wallets |-> ledger.quote[w] + OutstandingWalletFunding(ledger, w, history)
                               + pendingDepositQuantity[w]], NumWallets)

Backing == custodianBalance * UnitSize - Claims

\* Action property.  Unless funding is published or a position is closed
\* without a counterparty, no transaction creates or destroys quote: what the
\* Custodian holds moves with what the wallets are owed, except that a payout
\* keeps the fraction of a token unit and an exit may forgive a negative
\* balance within the threshold.  It fails if a position is resized before
\* its funding is settled, or if funding is settled twice or for other sizes.
QuoteIsConserved ==
    [][(/\ history' = history
        /\ \A m \in Markets : PositionSum(ledger, m)' = PositionSum(ledger, m))
       => Backing' - Backing \in -QuoteThreshold..(UnitSize - 1)]_vars

-----------------------------------------------------------------------------
(* Funding. *)

\* Invariant.  The Exit Fund's positions never have funding outstanding: its
\* funding is not settled when it acquires a position, which is right only
\* because no funding is published while it has one.
ExitFundFundingIsCurrent ==
    \A m \in ledger.open[exitFundWallet] :
        ledger.position[exitFundWallet][m].lastUpdate = Len(history[m])

-----------------------------------------------------------------------------
(* Risk. *)

HasGrown(w, m) ==
    /\ ledger'.position[w][m] # ledger.position[w][m]
    /\ Abs(ledger'.position[w][m].balance) > Abs(ledger.position[w][m].balance)

\* Action property.  Whatever the transaction, a wallet other than the Exit
\* Fund ends up with a larger position only in an active market, within its
\* maximum size there, and with its initial margin requirement met.
GrowthIsMargined ==
    [][\A w \in Wallets \ {exitFundWallet}, m \in Markets : HasGrown(w, m) =>
          /\ markets[m].isActive
          /\ Abs(ledger'.position[w][m].balance) <= FieldsFor(w)[m].maximumPositionSize
          /\ MeetsInitialMargin(ledger', w, IndexPrice, FieldsFor(w))]_vars

\* Action property.  A wallet other than the Exit Fund that ends up with less
\* quote and the same positions, its outstanding funding counted, still meets
\* its initial margin requirement: collateral never leaves an open position.
OutflowIsMargined ==
    [][\A w \in Wallets \ {exitFundWallet} :
          (/\ history' = history
           /\ \A m \in Markets :
                 ledger'.position[w][m].balance = ledger.position[w][m].balance
           /\ ledger'.quote[w] + OutstandingWalletFunding(ledger', w, history)
                < ledger.quote[w] + OutstandingWalletFunding(ledger, w, history))
          => MeetsInitialMargin(Funded(ledger', w), w, IndexPrice, FieldsFor(w))]_vars

HasShrunk(w, m) ==
    LET old == ledger.position[w][m].balance
        new == ledger'.position[w][m].balance
    IN  Abs(new) <= Abs(old) /\ (old >= 0 => new >= 0) /\ (old <= 0 => new <= 0)

\* Action property.  While the Exit Fund has positions, no other wallet takes
\* on any: recovery only winds positions down.
RecoveryWindsDown ==
    [][ExitFundHasPositions =>
          \A w \in Wallets \ {exitFundWallet}, m \in Markets : HasShrunk(w, m)]_vars

\* Action property.  From the time its exit is final, nothing the dispatcher
\* submits gives a wallet new exposure, and its exit is undone only when it
\* has nothing left.
FinalExitWindsDown ==
    [][\A w \in Wallets \ {exitFundWallet} :
          walletExits[w].exists /\ walletExits[w].effectiveAt <= now =>
          /\ \A m \in Markets : HasShrunk(w, m)
          /\ ~walletExits'[w].exists => ledger.open[w] = {} /\ ledger.quote[w] = 0]_vars

-----------------------------------------------------------------------------
(* Exits. *)

\* All wallets that are, were or may be Exit Fund.
ExitFunds == ExitFundWallets \cup {InitialExitFund}

\* Action property.  The Exit Fund's delay counts from the time it first took on
\* a position, to which README.md:295 dates it: the clock is set to the time of
\* the transaction in which an empty Exit Fund takes on a position, and once it
\* runs not touched while the Exit Fund has a position or quote.  Not so in two
\* cases, in which the code dates it otherwise: after an Exit Fund has withdrawn
\* quote like any wallet, which leaves the clock running for the next recovery,
\* and if an Exit Fund is also the Insurance Fund or the fee wallet, whose
\* balances move without the clock.
ExitFundClockStartsWithRecovery ==
    [][{InsuranceFund, FeeWallet} \cap ExitFunds = {}
       /\ (\A r \in completedWithdrawals : r.wallet \notin ExitFunds) =>
          /\ ~HasOpenBalance(exitFundWallet) /\ ExitFundHasPositions'
             => exitFundPositionOpenedAt' = now
          /\ exitFundPositionOpenedAt > 0 /\ HasOpenBalance(exitFundWallet)'
             => exitFundPositionOpenedAt' = exitFundPositionOpenedAt]_vars

PaidOut == (custodianBalance - custodianBalance') * UnitSize

\* Action property.  An exit pays the wallet its pending deposits and at most
\* what its account is worth at the oracle's prices, one pip of rounding for
\* each position aside.  Not so the Exit Fund's own exit, which the admin can
\* make after appointing a wallet that has exited: it pays all of the quote and
\* keeps the positions.
ExitPaysAtMostEquity ==
    [][\A w \in Wallets \ {exitFundWallet} : WithdrawExit(w) \/ WithdrawExitAdmin(w) =>
          PaidOut <= pendingDepositQuantity[w] + Cardinality(ledger.open[w])
                       + Larger(0, TotalAccountValue(Funded(ledger, w), w, oraclePrice))]_vars

\* Action property.  An exit deleveraged at the bankruptcy price once is not
\* continued at the exit price, whatever prices do in between.
BankruptcyStrategyIsSticky ==
    [][\A w \in Wallets : walletExits[w].strategy = "BankruptcyPrice" =>
          walletExits'[w] = NoExit \/ walletExits'[w] = walletExits[w]]_vars

-----------------------------------------------------------------------------
(* Orders. *)

Filled(h) == IF h \in completedOrders THEN h.quantity ELSE partiallyFilled[h]

SignedFills(w, m, h) ==
    IF h.wallet # w \/ h.market # m THEN 0
    ELSE IF h.side = "Buy" THEN Filled(h) ELSE -Filled(h)

FillsOf(w, m) ==
    SumFunctionOnSet([h \in OrderHashes |-> SignedFills(w, m, h)], OrderHashes)

\* Invariant, as long as positions are only traded.  A wallet's position is what
\* its own signed orders explain: no order fills beyond its quantity, fills
\* twice, or for another wallet.
PositionsFollowOrders ==
    \A w \in Wallets, m \in Markets :
        ledger.position[w][m].balance = InitialLedger.position[w][m].balance + FillsOf(w, m)

\* The Exchange as long as nobody is liquidated, deleveraged or paid out on an exit.
OrdinaryNext ==
    \/ CustodyNext
    \/ TradingNext
    \/ \E w \in Wallets : ExitWallet(w) \/ ClearWalletExit(w)
    \/ MarketAdminNext
    \/ Tick

OrdinarySpec == Init /\ [][OrdinaryNext]_vars

\* An invalidation covers an order when it covers its nonce, or the nonces of
\* all authorizations it could be submitted with.
Covers(invalidation, h) ==
    \A o \in Orders : OrderHash(o) = h =>
        \/ o.nonce <= invalidation.timestamp
        \/ o.delegatedKey \in 0..invalidation.timestamp

\* Action property.  Once an invalidation has taken effect, no order it covers,
\* by its own nonce or by those of its delegated keys, is ever settled again,
\* although only the last two invalidations of a wallet are consulted and the
\* last may be pending.
InvalidatedOrdersStayInvalid ==
    [][\A h \in OrderHashes : \A i \in 1..Len(nonceInvalidations[h.wallet]) :
          LET invalidation == nonceInvalidations[h.wallet][i]
          IN  invalidation.effectiveAt <= now /\ Covers(invalidation, h)
              => Filled(h)' = Filled(h)]_vars

===============================================================================
