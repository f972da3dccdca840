---------------------------- MODULE BalanceTracking ----------------------------
(***************************************************************************)
(* The wallets' balances and how each operation of the Exchange moves      *)
(* them: library BalanceTracking.  A ledger holds, for each wallet, its    *)
(* quote balance, its position in each market and the set of markets it    *)
(* tracks as open (baseAssetSymbolsWithOpenPositionsByWallet).  Operators  *)
(* take a ledger and return the updated one, so that a handler is the      *)
(* composition of the calls it makes; checks that revert are separate      *)
(* predicates, used as guards.                                             *)
(*                                                                         *)
(* Wallets and markets are numbered so that totals over them are sums.     *)
(* Position timestamps are period-aligned in the code; here they are the   *)
(* number of funding periods published for the market, 0 for none.         *)
(***************************************************************************)
EXTENDS PipsMath, Sums, Sequences

CONSTANTS NumWallets, NumMarkets

ASSUME LedgerSizeAssumption ==
    NumWallets \in Nat \ {0} /\ NumMarkets \in Nat \ {0}

Wallets == 1..NumWallets
Markets == 1..NumMarkets

Position == [balance : Int, costBasis : Int, lastUpdate : Nat]

Ledger == [quote : [Wallets -> Int],
           position : [Wallets -> [Markets -> Position]],
           open : [Wallets -> SUBSET Markets]]

ZeroPosition == [balance |-> 0, costBasis |-> 0, lastUpdate |-> 0]

EmptyLedger == [quote |-> [w \in Wallets |-> 0],
                position |-> [w \in Wallets |-> [m \in Markets |-> ZeroPosition]],
                open |-> [w \in Wallets |-> {}]]

\* The open set is exactly where the wallet has a position.
IsTracked(l) ==
    \A w \in Wallets, m \in Markets : m \in l.open[w] <=> l.position[w][m].balance # 0

-----------------------------------------------------------------------------
(* Checks. *)

WasReduced(oldSize, newSize) == Abs(newSize) < Abs(oldSize)

BelowMaximumOrReduced(oldSize, newSize, maximumPositionSize) ==
    Abs(newSize) > maximumPositionSize => WasReduced(oldSize, newSize)

\* Mutant of UpdatedTowardsZero: a position may pass zero.
UpdatedBeyondZero(oldSize, newSize) ==
    \/ oldSize < 0 /\ oldSize < newSize
    \/ oldSize > 0 /\ newSize < oldSize

UpdatedTowardsZero(oldSize, newSize) ==
    \/ oldSize < 0 /\ oldSize < newSize /\ newSize <= 0
    \/ oldSize > 0 /\ newSize < oldSize /\ newSize >= 0

-----------------------------------------------------------------------------
(* Single balances. *)

SetQuote(l, w, quantity) ==
    [quote |-> [l.quote EXCEPT ![w] = quantity], position |-> l.position, open |-> l.open]

AddQuote(l, w, quantity) == SetQuote(l, w, l.quote[w] + quantity)

SetPositions(l, w, positions, open) ==
    [quote    |-> l.quote,
     position |-> [l.position EXCEPT ![w] = positions],
     open     |-> [l.open EXCEPT ![w] = open]]

\* Mutant of SetPosition: a closed position stays in the open set.
SetPositionOpen(l, w, m, p) ==
    SetPositions(l, w, [l.position[w] EXCEPT ![m] = p], l.open[w] \cup {m})

\* Writes a position and brings the wallet's open set in line with it.
SetPosition(l, w, m, p) ==
    SetPositions(l, w, [l.position[w] EXCEPT ![m] = p],
                 IF p.balance = 0 THEN l.open[w] \ {m} ELSE l.open[w] \cup {m})

\* A position takes on delta of base, negative when it gives, for a quote.
IsIncreased(p, delta) == (delta > 0 /\ p.balance >= 0) \/ (delta < 0 /\ p.balance <= 0)

IsFlipped(p, delta) ==
    \/ p.balance < 0 /\ p.balance + delta > 0
    \/ p.balance > 0 /\ p.balance + delta < 0

\* Mutant of MovedCostBasis: the sign is lost on a flip.
UnsignedFlip(p, delta, quote) ==
    IF IsIncreased(p, delta)
    THEN p.costBasis + (IF delta > 0 THEN quote ELSE -quote)
    ELSE IF IsFlipped(p, delta)
    THEN MultiplyPipsByFraction(quote, Abs(p.balance + delta), Abs(delta))
    ELSE p.costBasis + MultiplyPipsByFraction(p.costBasis, delta, p.balance)

\* A reduced position keeps the proportional part of its cost basis, a flipped
\* one has the cost of what is beyond zero.
MovedCostBasis(p, delta, quote) ==
    IF IsIncreased(p, delta)
    THEN p.costBasis + (IF delta > 0 THEN quote ELSE -quote)
    ELSE IF IsFlipped(p, delta)
    THEN MultiplyPipsByFraction(quote, p.balance + delta, Abs(delta))
    ELSE p.costBasis + MultiplyPipsByFraction(p.costBasis, delta, p.balance)

MovedPosition(p, delta, quote, published) ==
    IF p.balance + delta = 0
    THEN ZeroPosition
    ELSE [balance    |-> p.balance + delta,
          costBasis  |-> MovedCostBasis(p, delta, quote),
          lastUpdate |-> IF p.balance = 0 THEN published ELSE p.lastUpdate]

\* The wallet buys (delta > 0) or sells (delta < 0) base for the given quote.
ExchangeBase(l, w, m, delta, quote, published) ==
    AddQuote(SetPosition(l, w, m,
                         MovedPosition(l.position[w][m], delta, quote, published[m])),
             w, IF delta > 0 THEN -quote ELSE quote)

-----------------------------------------------------------------------------
(* One operator per update of the library. *)

UpdateForDeposit(l, w, quantity) == AddQuote(l, w, quantity)

UpdateForTrade(l, buyer, seller, m, base, quote, buyFee, sellFee, feeWallet, published) ==
    LET sold   == AddQuote(ExchangeBase(l, seller, m, -base, quote, published), seller, -sellFee)
        bought == AddQuote(ExchangeBase(sold, buyer, m, base, quote, published), buyer, -buyFee)
    IN  AddQuote(bought, feeWallet, buyFee + sellFee)

UpdateForTransfer(l, source, destination, grossQuantity, gasFee, feeWallet) ==
    AddQuote(AddQuote(AddQuote(l, source, -grossQuantity),
                      destination, grossQuantity - gasFee),
             feeWallet, gasFee)

UpdateForWithdrawal(l, w, grossQuantity, gasFee, feeWallet) ==
    AddQuote(AddQuote(l, w, -grossQuantity), feeWallet, gasFee)

\* The signed change of the liquidating wallet's base that closes the quantity.
ClosingDelta(l, w, m, base) == IF l.position[w][m].balance < 0 THEN base ELSE -base

\* Mutants of UpdatePositionsForDeleverage: all of the counterparty's position
\* is closed, or the counterparty is not paid.
CloseWholeCounterparty(l, w, counterparty, m, base, quote, published) ==
    ExchangeBase(ExchangeBase(l, w, m, ClosingDelta(l, w, m, base), quote, published),
                 counterparty, m, -l.position[counterparty][m].balance, quote, published)

DoNotPayCounterparty(l, w, counterparty, m, base, quote, published) ==
    LET delta == ClosingDelta(l, w, m, base)
    IN  ExchangeBase(ExchangeBase(l, w, m, delta, quote, published),
                     counterparty, m, -delta, 0, published)

\* Part of the wallet's position moves to the counterparty.
UpdatePositionsForDeleverage(l, w, counterparty, m, base, quote, published) ==
    LET delta == ClosingDelta(l, w, m, base)
    IN  ExchangeBase(ExchangeBase(l, w, m, delta, quote, published),
                     counterparty, m, -delta, quote, published)

UpdateRemainingQuoteAfterLiquidation(l, w, counterparty) ==
    AddQuote(SetQuote(l, w, 0), counterparty, l.quote[w])

UpdateForDeactivatedMarketLiquidation(l, w, m, quote, fee, feeWallet) ==
    AddQuote(AddQuote(SetPosition(l, w, m, ZeroPosition), w,
                      IF l.position[w][m].balance < 0 THEN -(quote + fee) ELSE quote - fee),
             feeWallet, fee)

\* Another wallet takes on every open position of wallet w, each at
\* quoteFor[m].  The quote balances are updated by the caller, once.
AcquirePositions(l, w, acquirer, quoteFor, published) ==
    LET closed   == l.open[w]
        emptied  == SetPositions(l, w, [m \in Markets |-> IF m \in closed THEN ZeroPosition
                                                          ELSE l.position[w][m]], {})
        acquired == [m \in Markets |->
                       IF m \in closed
                       THEN MovedPosition(emptied.position[acquirer][m], l.position[w][m].balance,
                                          quoteFor[m], published[m])
                       ELSE emptied.position[acquirer][m]]
    IN  SetPositions(emptied, acquirer, acquired,
                     (emptied.open[acquirer] \ closed)
                       \cup {m \in closed : acquired[m].balance # 0})

\* What taking on those positions adds to the acquirer's quote balance.
AcquisitionQuoteChange(l, w, quoteFor) ==
    SumTo([m \in Markets |->
             IF m \notin l.open[w] THEN 0
             ELSE IF l.position[w][m].balance < 0 THEN quoteFor[m]
             ELSE -quoteFor[m]], NumMarkets)

\* Mutant of UpdatePositionsForLiquidation: the counterparty does not pay.
LiquidateUnpaid(l, w, counterparty, quoteFor, published) ==
    AddQuote(AcquirePositions(l, w, counterparty, quoteFor, published),
             w, -AcquisitionQuoteChange(l, w, quoteFor))

\* A liquidation of all positions, market by market: the positions are
\* independent and the quote balances are sums, so the order is immaterial.
UpdatePositionsForLiquidation(l, w, counterparty, quoteFor, published) ==
    LET change == AcquisitionQuoteChange(l, w, quoteFor)
    IN  AddQuote(AddQuote(AcquirePositions(l, w, counterparty, quoteFor, published),
                          w, -change),
                 counterparty, change)

-----------------------------------------------------------------------------
(* Funding. *)

\* The payments a position of this size owes or is owed for the multipliers
\* published in periods first to last of a market's history.
AggregatePayment(history, first, last, size) ==
    SumTo([i \in 1..(last - first + 1) |-> QuoteValue(size, history[first + i - 1])],
          last - first + 1)

\* What a position has to settle up to the given period.
FundingPayment(p, history, last) ==
    IF p.balance # 0 /\ p.lastUpdate < last
    THEN AggregatePayment(history, p.lastUpdate + 1, last, p.balance)
    ELSE 0

\* Mutant of FundedPosition: a payment can be settled again.
NeverFunded(p, last) == p

FundedPosition(p, last) ==
    IF p.balance # 0 /\ p.lastUpdate < last
    THEN [balance |-> p.balance, costBasis |-> p.costBasis, lastUpdate |-> last]
    ELSE p

\* Outstanding funding of the wallet over all its open positions.
OutstandingWalletFunding(l, w, history) ==
    SumTo([m \in Markets |->
             IF m \in l.open[w]
             THEN FundingPayment(l.position[w][m], history[m], Len(history[m]))
             ELSE 0], NumMarkets)

ApplyOutstandingWalletFunding(l, w, history) ==
    AddQuote(SetPositions(l, w, [m \in Markets |->
                                   IF m \in l.open[w]
                                   THEN FundedPosition(l.position[w][m], Len(history[m]))
                                   ELSE l.position[w][m]], l.open[w]),
             w, OutstandingWalletFunding(l, w, history))

===============================================================================
