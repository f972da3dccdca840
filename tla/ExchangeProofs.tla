----------------------------- MODULE ExchangeProofs -----------------------------
(***************************************************************************)
(* Theorems about the Exchange, for any number of wallets and markets, any *)
(* signed requests and any parameters.                                     *)
(*                                                                         *)
(* First the laws of the ledger operators.  A sound ledger has the right   *)
(* types and tracks exactly the markets in which a wallet has a position;  *)
(* every update of BalanceTracking and of Funding takes sound ledgers to   *)
(* sound ledgers, with no assumption on the quantities it is given beyond  *)
(* their being integers.  Each handler is a composition of these: so the   *)
(* types hold, and no transaction hides a position from the loops over a   *)
(* wallet's open markets.  Then two things a wallet can rely on: once its  *)
(* exit has been deleveraged at the bankruptcy price it is never continued *)
(* at the exit price, and an order that is invalidated stays so.           *)
(*                                                                         *)
(* Last, conservation of base and quote.  Each operation on the ledger is  *)
(* shown to change what all wallets are worth together, and what they hold *)
(* of each market, by what its arguments say: the two sides of a trade     *)
(* cancel, however positions are rounded.  That needs the wallets it       *)
(* touches to have no funding outstanding, which every handler sees to by  *)
(* settling it first, except for the Exit Fund: that its funding is never  *)
(* outstanding is part of the inductive invariant.                         *)
(*                                                                         *)
(* And what an exit pays.  The exit price of a position is never better    *)
(* than the oracle's; the bankruptcy prices of a wallet share out its      *)
(* account value in proportion to maintenance margins, which must then be  *)
(* positive.                                                               *)
(***************************************************************************)
EXTENDS Exchange, SumProofs, SequenceTheorems

-----------------------------------------------------------------------------
(* Arithmetic. *)

\* Truncating division and what is built on it stays in the integers.
LEMMA TruncDivType ==
    ASSUME NEW a \in Int, NEW b \in Int, b # 0
    PROVE  TruncDiv(a, b) \in Int
<1>1. Abs(a) \in Nat /\ Abs(b) \in Nat \ {0}
  BY DEF Abs
<1>2. Abs(a) \div Abs(b) \in Int
  BY <1>1
<1>3. QED
  BY <1>2 DEF TruncDiv

\* Truncating division has the sign of the dividend.
LEMMA TruncDivSign ==
    ASSUME NEW a \in Int, NEW b \in Nat \ {0}
    PROVE  /\ TruncDiv(a, b) \in Int
           /\ a >= 0 => TruncDiv(a, b) >= 0
           /\ a <= 0 => TruncDiv(a, b) <= 0
<1>1. Abs(a) \in Nat /\ Abs(b) = b
  BY DEF Abs
<1>2. Abs(a) \div b \in Nat
  BY <1>1
<1>3. a = 0 => Abs(a) \div b = 0
  <2>1. 0 \div b = 0
    OBVIOUS
  <2> QED BY <2>1 DEF Abs
<1>4. TruncDiv(a, b) = IF a >= 0 THEN Abs(a) \div b ELSE -(Abs(a) \div b)
  BY <1>1 DEF TruncDiv
<1> DEFINE q == Abs(a) \div b
<1> HIDE DEF q
<1>5. QED
  BY <1>2, <1>3, <1>4 DEF q

\* The quote value of a quantity at a price is an integer.
LEMMA QuoteValueType ==
    ASSUME NEW quantity \in Int, NEW price \in Int
    PROVE  QuoteValue(quantity, price) \in Int
<1>1. PipMultiplier \in Int /\ PipMultiplier # 0 /\ quantity * price \in Int
  BY PipMultiplierAssumption
<1>2. QED
  BY <1>1, TruncDivType DEF QuoteValue, MultiplyPipsByFraction

\* The exit price quote quantity is an integer that is not negative.
LEMMA ExitPriceType ==
    ASSUME NEW costBasis \in Int, NEW price \in Nat, NEW positionSize \in Int
    PROVE  QuoteQuantityAtExitPrice(costBasis, price, positionSize) \in Nat
<1> DEFINE product == Abs(positionSize) * price
<1>1. Abs(positionSize) \in Nat /\ Abs(costBasis) \in Nat
  BY DEF Abs
<1>2. product \in Nat
  BY <1>1
<1>3. QuoteValue(Abs(positionSize), price) = TruncDiv(product, PipMultiplier)
  BY DEF QuoteValue, MultiplyPipsByFraction
<1> HIDE DEF product
<1>4. QuoteValue(Abs(positionSize), price) \in Nat
  BY <1>2, <1>3, TruncDivSign, PipMultiplierAssumption
<1>5. QED
  BY <1>1, <1>4 DEF QuoteQuantityAtExitPrice, Larger, Smaller

\* The bankruptcy price quote quantity is never negative, nor a division by zero.
LEMMA BankruptcyPriceType ==
    ASSUME NEW price \in Nat, NEW mmf \in Nat, NEW positionSize \in Int,
           NEW accountValue \in Int, NEW mmr \in Nat
    PROVE  QuoteQuantityAtBankruptcyPrice(price, mmf, positionSize, accountValue, mmr) \in Nat
<1> DEFINE atPrice == positionSize * price
           share   == (Abs(atPrice) * mmf * Abs(accountValue)) \div mmr
           signed  == IF accountValue < 0 THEN share ELSE -share
           quantity == TruncDiv(atPrice + signed, PipMultiplier)
<1>1. CASE mmr = 0
  BY <1>1 DEF QuoteQuantityAtBankruptcyPrice
<1>2. CASE mmr # 0
  <2>1. atPrice \in Int
    OBVIOUS
  <2>2. Abs(atPrice) \in Int /\ Abs(accountValue) \in Int
    BY <2>1 DEF Abs
  <2>3. Abs(atPrice) * mmf * Abs(accountValue) \in Int
    <3> HIDE DEF atPrice
    <3> QED BY <2>2
  <2>4. share \in Int
    <3> DEFINE dividend == Abs(atPrice) * mmf * Abs(accountValue)
    <3>1. dividend \in Int
      BY <2>3
    <3> HIDE DEF dividend
    <3>2. dividend \div mmr \in Int
      BY <3>1, <1>2
    <3> QED BY <3>2 DEF dividend
  <2>5. atPrice + signed \in Int
    <3> HIDE DEF atPrice, share
    <3> QED BY <2>1, <2>4
  <2>6. quantity \in Int
    <3> HIDE DEF atPrice, signed
    <3> QED BY <2>5, TruncDivType, PipMultiplierAssumption
  <2>7. Abs(quantity) \in Nat
    <3> HIDE DEF quantity
    <3> QED BY <2>6 DEF Abs
  <2>8. QuoteQuantityAtBankruptcyPrice(price, mmf, positionSize, accountValue, mmr)
          \in {0, Abs(quantity)}
    BY DEF QuoteQuantityAtBankruptcyPrice
  <2> QED
    <3> HIDE DEF quantity
    <3> QED BY <2>7, <2>8
<1>3. QED
  BY <1>1, <1>2

-----------------------------------------------------------------------------
(* Sound ledgers. *)

SoundLedger(l) == l \in Ledger /\ IsTracked(l)

\* The quote balances are any integers.
LEMMA SetQuoteSound ==
    ASSUME NEW l, SoundLedger(l), NEW w \in Wallets, NEW quantity \in Int
    PROVE  SoundLedger(SetQuote(l, w, quantity))
BY DEF SoundLedger, Ledger, IsTracked, SetQuote

\* Adding to a quote balance keeps a ledger sound.
LEMMA AddQuoteSound ==
    ASSUME NEW l, SoundLedger(l), NEW w \in Wallets, NEW quantity \in Int
    PROVE  SoundLedger(AddQuote(l, w, quantity))
<1>1. l.quote[w] + quantity \in Int
  BY DEF SoundLedger, Ledger
<1>2. QED
  BY <1>1, SetQuoteSound DEF AddQuote

\* A wallet's positions may be replaced together with its open set.
LEMMA SetPositionsSound ==
    ASSUME NEW l, SoundLedger(l), NEW w \in Wallets,
           NEW positions \in [Markets -> Position], NEW open \in SUBSET Markets,
           \A m \in Markets : m \in open <=> positions[m].balance # 0
    PROVE  SoundLedger(SetPositions(l, w, positions, open))
BY DEF SoundLedger, Ledger, IsTracked, SetPositions

\* Writing a position keeps the open set in line with it.
LEMMA SetPositionSound ==
    ASSUME NEW l, SoundLedger(l), NEW w \in Wallets, NEW m \in Markets, NEW p \in Position
    PROVE  SoundLedger(SetPosition(l, w, m, p))
<1> DEFINE positions == [l.position[w] EXCEPT ![m] = p]
           open == IF p.balance = 0 THEN l.open[w] \ {m} ELSE l.open[w] \cup {m}
<1>1. positions \in [Markets -> Position] /\ open \in SUBSET Markets
  BY DEF SoundLedger, Ledger
<1>2. \A x \in Markets : x \in open <=> positions[x].balance # 0
  BY DEF SoundLedger, Ledger, IsTracked
<1>3. QED
  <2> HIDE DEF positions, open
  <2>1. SoundLedger(SetPositions(l, w, positions, open))
    BY <1>1, <1>2, SetPositionsSound
  <2> QED BY <2>1 DEF SetPosition, positions, open

\* However a position is moved, the result is a position of the moved size.
LEMMA MovedPositionType ==
    ASSUME NEW p \in Position, NEW delta \in Int, NEW quote \in Int, NEW published \in Nat
    PROVE  /\ MovedPosition(p, delta, quote, published) \in Position
           /\ MovedPosition(p, delta, quote, published).balance = p.balance + delta
<1> DEFINE balance == p.balance + delta
           crossed == MultiplyPipsByFraction(quote, balance, Abs(delta))
           reduced == p.costBasis + MultiplyPipsByFraction(p.costBasis, delta, p.balance)
           opened  == p.costBasis + (IF delta > 0 THEN quote ELSE -quote)
           cost    == MovedCostBasis(p, delta, quote)
           since   == IF p.balance = 0 THEN published ELSE p.lastUpdate
<1>1. p.balance \in Int /\ p.costBasis \in Int /\ p.lastUpdate \in Nat /\ balance \in Int
  BY DEF Position
<1>2. opened \in Int
  BY <1>1
<1>3. IsFlipped(p, delta) => crossed \in Int
  <2>1. SUFFICES ASSUME IsFlipped(p, delta) PROVE crossed \in Int
    OBVIOUS
  <2>2. Abs(delta) \in Int /\ Abs(delta) # 0
    BY <1>1, <2>1 DEF Abs, IsFlipped
  <2>3. quote * balance \in Int
    <3> HIDE DEF balance
    <3> QED BY <1>1
  <2> QED BY <2>2, <2>3, TruncDivType DEF MultiplyPipsByFraction
<1>4. p.balance # 0 => reduced \in Int
  <2>1. SUFFICES ASSUME p.balance # 0 PROVE reduced \in Int
    OBVIOUS
  <2>2. p.costBasis * delta \in Int
    BY <1>1
  <2>3. MultiplyPipsByFraction(p.costBasis, delta, p.balance) \in Int
    BY <1>1, <2>1, <2>2, TruncDivType DEF MultiplyPipsByFraction
  <2> QED BY <1>1, <2>3
<1>5. balance # 0 => cost \in Int
  <2>1. balance # 0 /\ p.balance = 0 => IsIncreased(p, delta)
    BY <1>1 DEF IsIncreased
  <2>2. cost = IF IsIncreased(p, delta) THEN opened
               ELSE IF IsFlipped(p, delta) THEN crossed ELSE reduced
    BY DEF MovedCostBasis
  <2> HIDE DEF opened, crossed, reduced, balance, cost
  <2> QED BY <1>2, <1>3, <1>4, <2>1, <2>2
<1>6. since \in Nat
  BY <1>1
<1>7. MovedPosition(p, delta, quote, published)
        = IF balance = 0 THEN ZeroPosition
          ELSE [balance |-> balance, costBasis |-> cost, lastUpdate |-> since]
  BY DEF MovedPosition
<1>8. QED
  <2> HIDE DEF balance, cost, since
  <2>1. CASE balance = 0
    BY <1>7, <2>1 DEF Position, ZeroPosition, balance
  <2>2. CASE balance # 0
    <3>1. cost \in Int
      BY <1>5, <2>2
    <3>2. MovedPosition(p, delta, quote, published)
            = [balance |-> balance, costBasis |-> cost, lastUpdate |-> since]
      BY <1>7, <2>2
    <3>3. [balance |-> balance, costBasis |-> cost, lastUpdate |-> since] \in Position
      BY <1>1, <1>6, <3>1 DEF Position
    <3> QED BY <3>2, <3>3 DEF balance
  <2> QED BY <2>1, <2>2

-----------------------------------------------------------------------------
(* The updates of BalanceTracking. *)

\* Buying or selling base.
LEMMA ExchangeBaseSound ==
    ASSUME NEW l, SoundLedger(l), NEW w \in Wallets, NEW m \in Markets,
           NEW delta \in Int, NEW quote \in Int, NEW published \in [Markets -> Nat]
    PROVE  SoundLedger(ExchangeBase(l, w, m, delta, quote, published))
<1> DEFINE p == MovedPosition(l.position[w][m], delta, quote, published[m])
<1>1. l.position[w][m] \in Position /\ published[m] \in Nat
  BY DEF SoundLedger, Ledger
<1>2. p \in Position
  BY <1>1, MovedPositionType
<1> HIDE DEF p
<1>3. SoundLedger(SetPosition(l, w, m, p))
  BY <1>2, SetPositionSound
<1>4. (IF delta > 0 THEN -quote ELSE quote) \in Int
  OBVIOUS
<1>5. QED
  BY <1>3, <1>4, AddQuoteSound DEF ExchangeBase, p

\* A trade, with both fees.
LEMMA UpdateForTradeSound ==
    ASSUME NEW l, SoundLedger(l), NEW buyer \in Wallets, NEW seller \in Wallets,
           NEW m \in Markets, NEW base \in Int, NEW quote \in Int,
           NEW buyFee \in Int, NEW sellFee \in Int, NEW feeWallet \in Wallets,
           NEW published \in [Markets -> Nat]
    PROVE  SoundLedger(UpdateForTrade(l, buyer, seller, m, base, quote, buyFee, sellFee,
                                      feeWallet, published))
<1>0. -base \in Int /\ -buyFee \in Int /\ -sellFee \in Int /\ buyFee + sellFee \in Int
  OBVIOUS
<1> DEFINE sold   == AddQuote(ExchangeBase(l, seller, m, -base, quote, published),
                              seller, -sellFee)
           bought == AddQuote(ExchangeBase(sold, buyer, m, base, quote, published),
                              buyer, -buyFee)
<1>1. SoundLedger(sold)
  BY <1>0, ExchangeBaseSound, AddQuoteSound
<1>2. SoundLedger(bought)
  <2> HIDE DEF sold
  <2> QED BY <1>0, <1>1, ExchangeBaseSound, AddQuoteSound
<1>3. UpdateForTrade(l, buyer, seller, m, base, quote, buyFee, sellFee, feeWallet, published)
        = AddQuote(bought, feeWallet, buyFee + sellFee)
  BY DEF UpdateForTrade
<1>4. QED
  <2> HIDE DEF bought
  <2> QED BY <1>0, <1>2, <1>3, AddQuoteSound

\* A transfer's update keeps a ledger sound.
LEMMA UpdateForTransferSound ==
    ASSUME NEW l, SoundLedger(l), NEW source \in Wallets, NEW destination \in Wallets,
           NEW grossQuantity \in Int, NEW gasFee \in Int, NEW feeWallet \in Wallets
    PROVE  SoundLedger(UpdateForTransfer(l, source, destination, grossQuantity, gasFee, feeWallet))
<1>1. -grossQuantity \in Int /\ grossQuantity - gasFee \in Int
  OBVIOUS
<1>2. QED
  BY <1>1, AddQuoteSound DEF UpdateForTransfer

\* A withdrawal's update keeps a ledger sound.
LEMMA UpdateForWithdrawalSound ==
    ASSUME NEW l, SoundLedger(l), NEW w \in Wallets,
           NEW grossQuantity \in Int, NEW gasFee \in Int, NEW feeWallet \in Wallets
    PROVE  SoundLedger(UpdateForWithdrawal(l, w, grossQuantity, gasFee, feeWallet))
<1>1. -grossQuantity \in Int
  OBVIOUS
<1>2. QED
  BY <1>1, AddQuoteSound DEF UpdateForWithdrawal

\* Part of a position moves to a counterparty.
LEMMA UpdatePositionsForDeleverageSound ==
    ASSUME NEW l, SoundLedger(l), NEW w \in Wallets, NEW counterparty \in Wallets,
           NEW m \in Markets, NEW base \in Int, NEW quote \in Int,
           NEW published \in [Markets -> Nat]
    PROVE  SoundLedger(UpdatePositionsForDeleverage(l, w, counterparty, m, base, quote, published))
<1> DEFINE delta == ClosingDelta(l, w, m, base)
<1>1. delta \in Int /\ -delta \in Int
  BY DEF ClosingDelta
<1> HIDE DEF delta
<1>2. SoundLedger(ExchangeBase(l, w, m, delta, quote, published))
  BY <1>1, ExchangeBaseSound
<1>3. SoundLedger(ExchangeBase(ExchangeBase(l, w, m, delta, quote, published),
                               counterparty, m, -delta, quote, published))
  BY <1>1, <1>2, ExchangeBaseSound
<1>4. QED
  BY <1>3 DEF UpdatePositionsForDeleverage, delta

\* Sweeping a liquidated wallet's quote keeps a ledger sound.
LEMMA UpdateRemainingQuoteSound ==
    ASSUME NEW l, SoundLedger(l), NEW w \in Wallets, NEW counterparty \in Wallets
    PROVE  SoundLedger(UpdateRemainingQuoteAfterLiquidation(l, w, counterparty))
<1>1. l.quote[w] \in Int
  BY DEF SoundLedger, Ledger
<1>2. SoundLedger(SetQuote(l, w, 0))
  BY SetQuoteSound
<1>3. QED
  BY <1>1, <1>2, AddQuoteSound DEF UpdateRemainingQuoteAfterLiquidation

\* A closure without a counterparty keeps a ledger sound.
LEMMA UpdateForDeactivatedMarketSound ==
    ASSUME NEW l, SoundLedger(l), NEW w \in Wallets, NEW m \in Markets,
           NEW quote \in Int, NEW fee \in Int, NEW feeWallet \in Wallets
    PROVE  SoundLedger(UpdateForDeactivatedMarketLiquidation(l, w, m, quote, fee, feeWallet))
<1>1. ZeroPosition \in Position
  BY DEF ZeroPosition, Position
<1>2. SoundLedger(SetPosition(l, w, m, ZeroPosition))
  BY <1>1, SetPositionSound
<1>3. (IF l.position[w][m].balance < 0 THEN -(quote + fee) ELSE quote - fee) \in Int
  OBVIOUS
<1>4. QED
  BY <1>2, <1>3, AddQuoteSound DEF UpdateForDeactivatedMarketLiquidation

\* Another wallet, or even the same one, takes on all positions.
LEMMA AcquirePositionsSound ==
    ASSUME NEW l, SoundLedger(l), NEW w \in Wallets, NEW acquirer \in Wallets,
           NEW quoteFor \in [Markets -> Int], NEW published \in [Markets -> Nat]
    PROVE  SoundLedger(AcquirePositions(l, w, acquirer, quoteFor, published))
<1> DEFINE closed   == l.open[w]
           zeroed   == [m \in Markets |-> IF m \in closed THEN ZeroPosition
                                                         ELSE l.position[w][m]]
           emptied  == SetPositions(l, w, zeroed, {})
           moved(m) == MovedPosition(emptied.position[acquirer][m], l.position[w][m].balance,
                                     quoteFor[m], published[m])
           acquired == [m \in Markets |-> IF m \in closed THEN moved(m)
                                           ELSE emptied.position[acquirer][m]]
           open     == (emptied.open[acquirer] \ closed)
                         \cup {m \in closed : acquired[m].balance # 0}
<1>1. ZeroPosition \in Position /\ ZeroPosition.balance = 0
  BY DEF ZeroPosition, Position
<1>2. SoundLedger(emptied)
  <2>1. zeroed \in [Markets -> Position]
    BY <1>1 DEF SoundLedger, Ledger
  <2>2. \A m \in Markets : m \in {} <=> zeroed[m].balance # 0
    BY <1>1 DEF SoundLedger, Ledger, IsTracked
  <2> HIDE DEF zeroed
  <2> QED BY <2>1, <2>2, SetPositionsSound
<1>3. closed \in SUBSET Markets
  BY DEF SoundLedger, Ledger
<1> HIDE DEF zeroed, emptied, closed
<1>4. ASSUME NEW m \in Markets
      PROVE  /\ emptied.position[acquirer][m] \in Position
             /\ m \in emptied.open[acquirer] <=> emptied.position[acquirer][m].balance # 0
             /\ l.position[w][m].balance \in Int
             /\ quoteFor[m] \in Int /\ published[m] \in Nat
  BY <1>2 DEF SoundLedger, Ledger, IsTracked, Position
<1>5. \A m \in Markets : moved(m) \in Position
  BY <1>4, MovedPositionType
<1> HIDE DEF moved
<1>6. acquired \in [Markets -> Position]
  BY <1>4, <1>5
<1>7. open \in SUBSET Markets
  BY <1>2, <1>3 DEF SoundLedger, Ledger
<1>8. \A m \in Markets : m \in open <=> acquired[m].balance # 0
  BY <1>4
<1> HIDE DEF acquired, open
<1>9. SoundLedger(SetPositions(emptied, acquirer, acquired, open))
  BY <1>2, <1>6, <1>7, <1>8, SetPositionsSound
<1>10. QED
  BY <1>9 DEF AcquirePositions, acquired, open, moved, emptied, zeroed, closed

\* The acquirer's quote changes by an integer.
LEMMA AcquisitionQuoteChangeType ==
    ASSUME NEW l, SoundLedger(l), NEW w \in Wallets, NEW quoteFor \in [Markets -> Int]
    PROVE  AcquisitionQuoteChange(l, w, quoteFor) \in Int
<1> DEFINE f == [m \in Markets |->
                   IF m \notin l.open[w] THEN 0
                   ELSE IF l.position[w][m].balance < 0 THEN quoteFor[m]
                   ELSE -quoteFor[m]]
<1>1. NumMarkets \in Nat /\ \A i \in 1..NumMarkets : f[i] \in Int
  BY LedgerSizeAssumption DEF Markets
<1> HIDE DEF f
<1>2. SumTo(f, NumMarkets) \in Int
  BY <1>1, SumToType
<1>3. QED
  BY <1>2 DEF AcquisitionQuoteChange, f

\* A liquidation of a whole wallet.
LEMMA UpdatePositionsForLiquidationSound ==
    ASSUME NEW l, SoundLedger(l), NEW w \in Wallets, NEW counterparty \in Wallets,
           NEW quoteFor \in [Markets -> Int], NEW published \in [Markets -> Nat]
    PROVE  SoundLedger(UpdatePositionsForLiquidation(l, w, counterparty, quoteFor, published))
<1> DEFINE change == AcquisitionQuoteChange(l, w, quoteFor)
<1>1. change \in Int
  BY AcquisitionQuoteChangeType
<1> HIDE DEF change
<1>2. -change \in Int
  BY <1>1
<1>3. SoundLedger(AcquirePositions(l, w, counterparty, quoteFor, published))
  BY AcquirePositionsSound
<1>4. SoundLedger(AddQuote(AddQuote(AcquirePositions(l, w, counterparty, quoteFor, published),
                                    w, -change), counterparty, change))
  BY <1>1, <1>2, <1>3, AddQuoteSound
<1>5. QED
  BY <1>4 DEF UpdatePositionsForLiquidation, change

-----------------------------------------------------------------------------
(* Funding. *)

\* A position settles an integer amount.
LEMMA FundingPaymentType ==
    ASSUME NEW p \in Position, NEW multipliers \in Seq(Int), NEW last \in Nat, last <= Len(multipliers)
    PROVE  FundingPayment(p, multipliers, last) \in Int
<1>0. p.balance \in Int /\ p.lastUpdate \in Nat
  BY DEF Position
<1>1. CASE p.balance # 0 /\ p.lastUpdate < last
  <2> DEFINE since == p.lastUpdate
             first == since + 1
             n == last - first + 1
             f == [i \in 1..n |-> QuoteValue(p.balance, multipliers[first + i - 1])]
  <2>0. since \in Nat /\ since < last
    BY <1>0, <1>1
  <2> HIDE DEF since
  <2>1. first \in Nat /\ n \in Nat /\ n = last - since
    BY <2>0
  <2>2. ASSUME NEW i \in 1..n
        PROVE  f[i] \in Int
    <3>1. first + i - 1 \in 1..Len(multipliers)
      <4>1. Len(multipliers) \in Nat
        BY LenProperties
      <4> QED BY <2>0, <4>1
    <3>2. multipliers[first + i - 1] \in Int
      BY <3>1, ElementOfSeq
    <3>3. f[i] = QuoteValue(p.balance, multipliers[first + i - 1])
      BY <2>2
    <3> HIDE DEF f, first
    <3> QED BY <1>0, <3>2, <3>3, QuoteValueType
  <2>3. SumTo(f, n) \in Int
    <3> HIDE DEF f, n
    <3> QED BY <2>1, <2>2, SumToType
  <2>4. FundingPayment(p, multipliers, last) = SumTo(f, n)
    BY <1>1 DEF FundingPayment, AggregatePayment, since
  <2> QED BY <2>3, <2>4
<1>2. CASE ~(p.balance # 0 /\ p.lastUpdate < last)
  BY <1>2 DEF FundingPayment
<1>3. QED
  BY <1>1, <1>2

\* Settling moves the position's time and nothing else.
LEMMA FundedPositionType ==
    ASSUME NEW p \in Position, NEW last \in Nat
    PROVE  /\ FundedPosition(p, last) \in Position
           /\ FundedPosition(p, last).balance = p.balance
BY DEF FundedPosition, Position

\* What a wallet has to settle is an integer.
LEMMA OutstandingFundingType ==
    ASSUME NEW l, SoundLedger(l), NEW w \in Wallets, NEW multipliers \in [Markets -> Seq(Int)]
    PROVE  OutstandingWalletFunding(l, w, multipliers) \in Int
<1> DEFINE due == [m \in Markets |->
                     IF m \in l.open[w]
                     THEN FundingPayment(l.position[w][m], multipliers[m], Len(multipliers[m]))
                     ELSE 0]
<1>1. ASSUME NEW m \in Markets
      PROVE  due[m] \in Int
  <2>1. multipliers[m] \in Seq(Int)
    OBVIOUS
  <2>2. l.position[w][m] \in Position /\ Len(multipliers[m]) \in Nat
    BY <2>1, LenProperties DEF SoundLedger, Ledger
  <2>3. Len(multipliers[m]) <= Len(multipliers[m])
    BY <2>2
  <2>4. FundingPayment(l.position[w][m], multipliers[m], Len(multipliers[m])) \in Int
    BY <2>1, <2>2, <2>3, FundingPaymentType
  <2> QED BY <2>4
<1> HIDE DEF due
<1>2. SumTo(due, NumMarkets) \in Int
  BY <1>1, SumToType, LedgerSizeAssumption DEF Markets
<1>3. QED
  BY <1>2 DEF OutstandingWalletFunding, due

\* Settling all of a wallet's positions.
LEMMA FundingSound ==
    ASSUME NEW l, SoundLedger(l), NEW w \in Wallets, NEW multipliers \in [Markets -> Seq(Int)]
    PROVE  SoundLedger(ApplyOutstandingWalletFunding(l, w, multipliers))
<1> DEFINE funded == [m \in Markets |->
                        IF m \in l.open[w]
                        THEN FundedPosition(l.position[w][m], Len(multipliers[m]))
                        ELSE l.position[w][m]]
<1>1. ASSUME NEW m \in Markets
      PROVE  /\ l.position[w][m] \in Position
             /\ m \in l.open[w] <=> l.position[w][m].balance # 0
             /\ multipliers[m] \in Seq(Int) /\ Len(multipliers[m]) \in Nat
  <2>1. multipliers[m] \in Seq(Int)
    OBVIOUS
  <2> QED BY <2>1, LenProperties DEF SoundLedger, Ledger, IsTracked
<1>2. ASSUME NEW m \in Markets
      PROVE  /\ FundedPosition(l.position[w][m], Len(multipliers[m])) \in Position
             /\ FundedPosition(l.position[w][m], Len(multipliers[m])).balance
                  = l.position[w][m].balance
  BY <1>1, FundedPositionType
<1>3. funded \in [Markets -> Position] /\ l.open[w] \in SUBSET Markets
  BY <1>1, <1>2 DEF SoundLedger, Ledger
<1>4. \A m \in Markets : m \in l.open[w] <=> funded[m].balance # 0
  BY <1>1, <1>2
<1>5. OutstandingWalletFunding(l, w, multipliers) \in Int
  BY OutstandingFundingType
<1>6. SoundLedger(SetPositions(l, w, funded, l.open[w]))
  <2> HIDE DEF funded
  <2> QED BY <1>3, <1>4, SetPositionsSound
<1>7. QED
  BY <1>5, <1>6, AddQuoteSound DEF ApplyOutstandingWalletFunding

-----------------------------------------------------------------------------
(* Closing prices. *)

\* What a wallet's positions are closed at is an integer in every market.
LEMMA BankruptcyQuoteType ==
    ASSUME NEW l, SoundLedger(l), NEW w \in Wallets, NEW m \in Markets, NEW base \in Int,
           NEW price \in [Markets -> Nat], NEW fields \in [Markets -> MarketFields]
    PROVE  BankruptcyQuoteQuantity(l, w, m, base, price, fields) \in Nat
<1> DEFINE value == TotalAccountValueInDoublePips(l, w, price)
           required == TotalMaintenanceMarginRequirementInTriplePips(l, w, price, fields)
<1>1. ASSUME NEW x \in Markets
      PROVE  /\ l.position[w][x].balance \in Int
             /\ price[x] \in Nat /\ fields[x].maintenanceMarginFraction \in Nat
  BY DEF SoundLedger, Ledger, Position, MarketFields
<1>2. value \in Int
  <2> DEFINE notional == [x \in Markets |-> l.position[w][x].balance * price[x]]
             f == [x \in Markets |-> IF x \in l.open[w] THEN notional[x] ELSE 0]
  <2>1. \A x \in Markets : f[x] \in Int
    BY <1>1
  <2>2. SumTo(f, NumMarkets) \in Int
    <3> HIDE DEF f
    <3> QED BY <2>1, SumToType, LedgerSizeAssumption DEF Markets
  <2>3. l.quote[w] * PipMultiplier \in Int
    BY PipMultiplierAssumption DEF SoundLedger, Ledger
  <2>4. value = l.quote[w] * PipMultiplier + SumTo(f, NumMarkets)
    BY DEF TotalAccountValueInDoublePips, OverOpen
  <2> QED
    <3> HIDE DEF f, value
    <3> QED BY <2>2, <2>3, <2>4
<1>3. required \in Nat
  <2> DEFINE g == [x \in Markets |-> Abs(l.position[w][x].balance) * price[x]
                                       * fields[x].maintenanceMarginFraction]
             f == [x \in Markets |-> IF x \in l.open[w] THEN g[x] ELSE 0]
  <2>1. \A x \in Markets : f[x] \in Nat
    <3>1. ASSUME NEW x \in Markets
          PROVE  g[x] \in Nat
      <4>1. Abs(l.position[w][x].balance) \in Nat
        BY <1>1 DEF Abs
      <4>2. Abs(l.position[w][x].balance) * price[x] \in Nat
        BY <1>1, <4>1
      <4> QED BY <1>1, <4>2
    <3> QED BY <3>1
  <2>2. SumTo(f, NumMarkets) \in Nat
    <3> HIDE DEF f
    <3> QED BY <2>1, SumToNat, LedgerSizeAssumption DEF Markets
  <2>3. required = SumTo(f, NumMarkets)
    BY DEF TotalMaintenanceMarginRequirementInTriplePips, OverOpen
  <2> QED BY <2>2, <2>3
<1>4. QED
  <2> HIDE DEF value, required
  <2>1. QuoteQuantityAtBankruptcyPrice(price[m], fields[m].maintenanceMarginFraction, base,
                                       value, required) \in Nat
    BY <1>1, <1>2, <1>3, BankruptcyPriceType
  <2> QED BY <2>1 DEF BankruptcyQuoteQuantity, value, required

\* The quote quantities of a closed wallet are integers, and not negative.
LEMMA ClosingQuotesType ==
    ASSUME NEW l, SoundLedger(l), NEW w \in Wallets,
           NEW price \in [Markets -> Nat], NEW fields \in [Markets -> MarketFields]
    PROVE  /\ BankruptcyQuoteQuantities(l, w, price, fields) \in [Markets -> Int]
           /\ ExitQuoteQuantities(l, w, price, fields) \in [Markets -> Int]
           /\ \A m \in Markets : ExitQuoteQuantities(l, w, price, fields)[m] \in Nat
<1>1. ASSUME NEW m \in Markets
      PROVE  /\ l.position[w][m].balance \in Int
             /\ l.position[w][m].costBasis \in Int
             /\ price[m] \in Nat
  BY DEF SoundLedger, Ledger, Position
<1>2. BankruptcyQuoteQuantities(l, w, price, fields) \in [Markets -> Nat]
  <2>1. \A m \in Markets :
           BankruptcyQuoteQuantity(l, w, m, l.position[w][m].balance, price, fields) \in Nat
    BY <1>1, BankruptcyQuoteType
  <2> QED BY <2>1 DEF BankruptcyQuoteQuantities
<1>3. \A m \in Markets :
        QuoteQuantityAtExitPrice(l.position[w][m].costBasis, price[m],
                                 l.position[w][m].balance) \in Nat
  BY <1>1, ExitPriceType
<1>4. ExitQuoteQuantities(l, w, price, fields) \in [Markets -> Nat]
  BY <1>2, <1>3 DEF ExitQuoteQuantities
<1>5. ASSUME NEW quotes \in [Markets -> Nat]
      PROVE  quotes \in [Markets -> Int] /\ \A m \in Markets : quotes[m] \in Nat
  OBVIOUS
<1>6. QED
  BY <1>2, <1>4, <1>5

-----------------------------------------------------------------------------

\* The types and the tracking of open markets are inductive together.
IInv == TypeOK /\ OpenMarketsAreTracked

-----------------------------------------------------------------------------
(* What the handlers share, in a state that satisfies the invariant. *)

\* The arguments the handlers pass to the ledger operators.
LEMMA ParameterTypes ==
    ASSUME TypeOK
    PROVE  /\ Published \in [Markets -> Nat]
           /\ IndexPrice \in [Markets -> Nat]
           /\ \A w \in Wallets : FieldsFor(w) \in [Markets -> MarketFields]
<1>1. Published \in [Markets -> Nat]
  <2>1. ASSUME NEW m \in Markets
        PROVE  Len(history[m]) \in Nat
    <3>1. history[m] \in Seq(Int)
      BY DEF TypeOK
    <3> QED BY <3>1, LenProperties
  <2> QED BY <2>1 DEF Published
<1>2. IndexPrice \in [Markets -> Nat]
  BY DEF TypeOK, IndexPrice, Market
<1>3. ASSUME NEW w \in Wallets
      PROVE  FieldsFor(w) \in [Markets -> MarketFields]
  BY DEF TypeOK, FieldsFor
<1>4. QED
  BY <1>1, <1>2, <1>3

\* Settling funding keeps a ledger sound.
LEMMA FundedSound ==
    ASSUME TypeOK, NEW l, SoundLedger(l), NEW w \in Wallets
    PROVE  SoundLedger(Funded(l, w))
<1>1. history \in [Markets -> Seq(Int)]
  BY DEF TypeOK
<1>2. QED
  BY <1>1, FundingSound DEF Funded

\* The invariant says that the ledger is sound.
LEMMA LedgerSound ==
    ASSUME IInv
    PROVE  SoundLedger(ledger)
BY DEF IInv, TypeOK, OpenMarketsAreTracked, SoundLedger

\* The Exit Fund clock holds a time.
LEMMA ClockType ==
    ASSUME TypeOK, NEW l
    PROVE  NextExitFundPositionOpenedAt(l) \in Nat
BY DEF TypeOK, NextExitFundPositionOpenedAt

\* A handler that writes a sound ledger, and none of the other variables the
\* types are about, preserves the invariant.
LEMMA LedgerStep ==
    ASSUME IInv, SoundLedger(ledger'),
           UNCHANGED <<custodyVars, walletExits, exitFundWallet, marketVars, requestVars,
                       nonceInvalidations, clockVars>>,
           exitFundPositionOpenedAt' \in Nat
    PROVE  IInv'
BY DEF IInv, TypeOK, OpenMarketsAreTracked, SoundLedger, custodyVars, marketVars, requestVars,
       clockVars

-----------------------------------------------------------------------------
(* Custody. *)

\* Setting the deposit index leaves types and open markets as they are.
LEMMA SetDepositIndexStep ==
    ASSUME IInv, SetDepositIndex
    PROVE  IInv'
BY DEF IInv, TypeOK, OpenMarketsAreTracked, SetDepositIndex, DepositIndexNotSet, fundVars,
       marketVars, requestVars, clockVars

\* Opening or closing deposits leaves types and open markets as they are.
LEMMA SetDepositEnabledStep ==
    ASSUME IInv, NEW isEnabled \in BOOLEAN, SetDepositEnabled(isEnabled)
    PROVE  IInv'
BY DEF IInv, TypeOK, OpenMarketsAreTracked, SetDepositEnabled, fundVars,
       marketVars, requestVars, clockVars

\* A deposit adds to what is pending and held, and touches no position.
LEMMA DepositStep ==
    ASSUME IInv, NEW source \in Wallets, NEW depositor \in Wallets,
           NEW units \in DepositUnits, NEW tokenFee \in TokenFees,
           Deposit(source, depositor, units, tokenFee)
    PROVE  IInv'
<1>1. units \in Nat /\ tokenFee \in Nat /\ tokenFee <= units /\ UnitSize \in Nat
  BY CustodyAssumption, ParameterAssumption DEF Deposit
<1>2. units - tokenFee \in Nat /\ (units - tokenFee) * UnitSize \in Nat
  BY <1>1
<1>3. custodianBalance' \in Nat /\ depositIndex' \in Nat
  BY <1>2 DEF IInv, TypeOK, Deposit
<1>4. pendingDepositQuantity' \in [Wallets -> Nat]
  <2> DEFINE received == (units - tokenFee) * UnitSize
  <2>1. received \in Nat
    BY <1>2
  <2>2. pendingDepositQuantity' = [pendingDepositQuantity EXCEPT ![depositor] = @ + received]
    BY DEF Deposit
  <2> HIDE DEF received
  <2> QED BY <2>1, <2>2 DEF IInv, TypeOK
<1>5. QED
  BY <1>3, <1>4 DEF IInv, TypeOK, OpenMarketsAreTracked, Deposit, fundVars, marketVars,
     requestVars, clockVars

\* Crediting a deposit takes no more than is pending and touches no position.
LEMMA ApplyPendingDepositsStep ==
    ASSUME IInv, NEW w \in Wallets, NEW quantity \in 1..pendingDepositQuantity[w],
           ApplyPendingDeposits(w, quantity)
    PROVE  IInv'
<1>1. quantity \in Nat /\ pendingDepositQuantity' \in [Wallets -> Nat]
  BY DEF IInv, TypeOK, ApplyPendingDeposits
<1>2. SoundLedger(ledger')
  BY <1>1, LedgerSound, AddQuoteSound DEF ApplyPendingDeposits, UpdateForDeposit
<1>3. QED
  BY <1>1, <1>2 DEF IInv, TypeOK, OpenMarketsAreTracked, SoundLedger, ApplyPendingDeposits,
     fundVars, marketVars, requestVars, clockVars

\* A transfer settles funding and moves quote; the open markets stay tracked.
LEMMA TransferQuoteStep ==
    ASSUME IInv, NEW t \in Transfers, NEW gasFee \in GasFees, TransferQuote(t, gasFee)
    PROVE  IInv'
<1>1. /\ t.source \in Wallets /\ t.destination \in Wallets /\ t.grossQuantity \in Int
      /\ gasFee \in Int /\ FeeWallet \in Wallets
  BY RequestAssumption, CustodyAssumption, ParameterAssumption DEF Transfer
<1>2. SoundLedger(Funded(Funded(ledger, t.source), t.destination))
  BY <1>1, LedgerSound, FundedSound DEF IInv
<1>3. SoundLedger(ledger')
  BY <1>1, <1>2, UpdateForTransferSound DEF TransferQuote
<1>4. QED
  BY <1>3 DEF IInv, TypeOK, OpenMarketsAreTracked, SoundLedger, TransferQuote, custodyVars,
     fundVars, marketVars, clockVars

\* A withdrawal is covered by the Custodian, and the open markets stay tracked.
LEMMA WithdrawStep ==
    ASSUME IInv, NEW r \in Withdrawals, NEW gasFee \in GasFees, Withdraw(r, gasFee)
    PROVE  IInv'
<1> DEFINE units == (r.grossQuantity - gasFee) \div UnitSize
<1>1. /\ r.wallet \in Wallets /\ r.grossQuantity \in Int /\ gasFee \in Int
      /\ FeeWallet \in Wallets /\ UnitSize \in Nat \ {0}
  BY RequestAssumption, CustodyAssumption, ParameterAssumption DEF Withdrawal
<1>2. SoundLedger(Funded(ledger, r.wallet))
  BY <1>1, LedgerSound, FundedSound DEF IInv
<1>3. SoundLedger(ledger')
  BY <1>1, <1>2, UpdateForWithdrawalSound DEF Withdraw
<1>4. units \in Int
  BY <1>1
<1>5. units <= custodianBalance /\ custodianBalance' = custodianBalance - units
  BY DEF Withdraw
<1>6. custodianBalance' \in Nat
  <2> HIDE DEF units
  <2> QED BY <1>4, <1>5 DEF IInv, TypeOK
<1>7. QED
  BY <1>3, <1>6 DEF IInv, TypeOK, OpenMarketsAreTracked, SoundLedger, Withdraw,
     fundVars, marketVars, clockVars

\* Deposits, transfers and withdrawals.
LEMMA CustodyStep ==
    ASSUME IInv, CustodyNext
    PROVE  IInv'
BY SetDepositIndexStep, SetDepositEnabledStep, DepositStep, ApplyPendingDepositsStep,
   TransferQuoteStep, WithdrawStep DEF CustodyNext

-----------------------------------------------------------------------------
(* Trading. *)

\* A trade keeps both wallets' open markets tracked and its orders' fills typed.
LEMMA ExecuteTradeStep ==
    ASSUME IInv, NEW trade, NEW buy \in Orders, NEW sell \in Orders,
           trade.base \in Nat, trade.quote \in Int, trade.makerFee \in Int,
           trade.takerFee \in Int, ExecuteTrade(trade, buy, sell)
    PROVE  IInv'
<1> DEFINE buyFee  == IF trade.makerSide = "Buy" THEN trade.makerFee ELSE trade.takerFee
           sellFee == IF trade.makerSide = "Buy" THEN trade.takerFee ELSE trade.makerFee
           funded  == Funded(Funded(ledger, buy.wallet), sell.wallet)
           traded  == {OrderHash(buy), OrderHash(sell)}
           filled  == {OrderHash(o) : o \in {x \in {buy, sell} : Completes(x, trade.base)}}
<1>1. buy.wallet \in Wallets /\ sell.wallet \in Wallets /\ trade.market \in Markets
  BY RequestAssumption DEF Order, ExecuteTrade
<1>2. /\ buyFee \in Int /\ sellFee \in Int /\ FeeWallet \in Wallets
      /\ trade.base \in Int /\ trade.quote \in Int
  BY ParameterAssumption
<1>3. SoundLedger(funded)
  BY <1>1, LedgerSound, FundedSound DEF IInv
<1>4. Published \in [Markets -> Nat]
  BY ParameterTypes DEF IInv
<1>5. ledger' = UpdateForTrade(funded, buy.wallet, sell.wallet, trade.market, trade.base,
                               trade.quote, buyFee, sellFee, FeeWallet, Published)
  BY DEF ExecuteTrade
<1>6. SoundLedger(ledger')
  <2> HIDE DEF buyFee, sellFee, funded
  <2>1. SoundLedger(UpdateForTrade(funded, buy.wallet, sell.wallet, trade.market, trade.base,
                                   trade.quote, buyFee, sellFee, FeeWallet, Published))
    BY <1>1, <1>2, <1>3, <1>4, UpdateForTradeSound
  <2> QED BY <1>5, <2>1
<1>7. partiallyFilled' \in [OrderHashes -> Nat]
  <2>1. partiallyFilled' = [h \in OrderHashes |->
                              IF h \in filled THEN 0
                              ELSE IF h \in traded THEN partiallyFilled[h] + trade.base
                              ELSE partiallyFilled[h]]
    BY DEF ExecuteTrade
  <2> HIDE DEF filled, traded
  <2> QED BY <2>1 DEF IInv, TypeOK
<1>8. completedOrders' \subseteq OrderHashes
  <2>1. filled \subseteq OrderHashes
    BY DEF OrderHashes
  <2>2. completedOrders' = completedOrders \cup filled
    BY DEF ExecuteTrade
  <2> QED BY <2>1, <2>2 DEF IInv, TypeOK
<1>9. UNCHANGED <<custodyVars, walletExits, fundVars, marketVars, completedTransfers,
                  completedWithdrawals, nonceInvalidations, clockVars>>
  BY DEF ExecuteTrade
<1>10. QED
  BY <1>6, <1>7, <1>8, <1>9 DEF IInv, TypeOK, OpenMarketsAreTracked, SoundLedger, custodyVars,
     fundVars, marketVars, clockVars

\* Invalidating a nonce appends to the wallet's list and changes nothing else.
LEMMA InvalidateNonceStep ==
    ASSUME IInv, NEW w \in Wallets, NEW timestamp \in NonceTimes, InvalidateNonce(w, timestamp)
    PROVE  IInv'
<1> DEFINE next == [timestamp |-> timestamp, effectiveAt |-> now + chainPropagationPeriod]
<1>1. next \in NonceInvalidation
  BY TradingAssumption DEF IInv, TypeOK, NonceInvalidation
<1>2. nonceInvalidations' =
        [nonceInvalidations EXCEPT ![w] = Append(nonceInvalidations[w], next)]
  BY DEF InvalidateNonce
<1>3. Append(nonceInvalidations[w], next) \in Seq(NonceInvalidation)
  <2> HIDE DEF next
  <2>1. nonceInvalidations[w] \in Seq(NonceInvalidation)
    BY DEF IInv, TypeOK
  <2> QED BY <1>1, <2>1, AppendProperties
<1>4. nonceInvalidations' \in [Wallets -> Seq(NonceInvalidation)]
  <2> HIDE DEF next
  <2> QED BY <1>2, <1>3 DEF IInv, TypeOK
<1>5. QED
  BY <1>4 DEF IInv, TypeOK, OpenMarketsAreTracked, InvalidateNonce, custodyVars, fundVars,
     marketVars, requestVars, clockVars

\* Trades and nonce invalidations.
LEMMA TradingStep ==
    ASSUME IInv, TradingNext
    PROVE  IInv'
<1>1. ASSUME NEW buy \in Orders, NEW sell \in Orders, NEW base \in BaseQuantities,
             NEW quote \in QuoteQuantities, NEW makerSide \in {"Buy", "Sell"},
             NEW makerFee \in MakerFees, NEW takerFee \in TakerFees,
             ExecuteTrade([market |-> buy.market, base |-> base, quote |-> quote,
                           makerSide |-> makerSide, makerFee |-> makerFee,
                           takerFee |-> takerFee], buy, sell)
      PROVE  IInv'
  <2> DEFINE trade == [market |-> buy.market, base |-> base, quote |-> quote,
                       makerSide |-> makerSide, makerFee |-> makerFee, takerFee |-> takerFee]
  <2>1. /\ trade.base \in Nat /\ trade.quote \in Int
        /\ trade.makerFee \in Int /\ trade.takerFee \in Int
    BY TradingAssumption
  <2>2. ExecuteTrade(trade, buy, sell)
    BY <1>1
  <2> HIDE DEF trade
  <2> QED BY <2>1, <2>2, ExecuteTradeStep
<1>2. QED
  BY <1>1, InvalidateNonceStep DEF TradingNext

-----------------------------------------------------------------------------
(* Liquidation. *)

\* What the dispatcher submits for each market is an integer.
LEMMA SubmittedType ==
    ASSUME NEW expected \in [Markets -> Int], NEW rounding \in [Markets -> Roundings]
    PROVE  Submitted(expected, rounding) \in [Markets -> Int]
<1>1. \A r \in Roundings : r \in Int
  BY LiquidationAssumption
<1>2. \A m \in Markets : expected[m] \in Int /\ rounding[m] \in Int
  BY <1>1
<1>3. QED
  BY <1>2 DEF Submitted

\* A liquidation of a whole wallet, by either fund, leaves a sound ledger.
LEMMA LiquidateAtBankruptcyPriceSound ==
    ASSUME IInv, NEW w \in Wallets, NEW counterparty \in Wallets,
           NEW rounding \in [Markets -> Roundings],
           LiquidateAtBankruptcyPrice(w, counterparty, rounding)
    PROVE  SoundLedger(ledger')
<1> DEFINE funded   == Funded(Funded(ledger, w), counterparty)
           expected == BankruptcyQuoteQuantities(funded, w, IndexPrice, FieldsFor(w))
           quoteFor == Submitted(expected, rounding)
           closed   == UpdatePositionsForLiquidation(funded, w, counterparty, quoteFor, Published)
<1>1. SoundLedger(funded)
  BY LedgerSound, FundedSound DEF IInv
<1>2. /\ Published \in [Markets -> Nat] /\ IndexPrice \in [Markets -> Nat]
      /\ FieldsFor(w) \in [Markets -> MarketFields]
  BY ParameterTypes DEF IInv
<1>3. quoteFor \in [Markets -> Int]
  <2> HIDE DEF funded
  <2>1. expected \in [Markets -> Int]
    BY <1>1, <1>2, ClosingQuotesType
  <2> HIDE DEF expected
  <2> QED BY <2>1, SubmittedType
<1>4. SoundLedger(closed)
  <2> HIDE DEF funded, quoteFor
  <2> QED BY <1>1, <1>2, <1>3, UpdatePositionsForLiquidationSound
<1>5. ledger' = UpdateRemainingQuoteAfterLiquidation(closed, w, counterparty)
  BY DEF LiquidateAtBankruptcyPrice
<1>6. QED
  <2> HIDE DEF closed
  <2> QED BY <1>4, <1>5, UpdateRemainingQuoteSound

\* A maintenance liquidation by the Insurance Fund keeps the invariant.
LEMMA LiquidateWalletInMaintenanceStep ==
    ASSUME IInv, NEW w \in Wallets, NEW rounding \in [Markets -> Roundings],
           LiquidateWalletInMaintenance(w, rounding)
    PROVE  IInv'
<1>1. SoundLedger(ledger')
  BY ParameterAssumption, LiquidateAtBankruptcyPriceSound DEF LiquidateWalletInMaintenance
<1>2. QED
  BY <1>1, LedgerStep DEF LiquidateWalletInMaintenance, fundVars, IInv, TypeOK

\* A maintenance liquidation by the Exit Fund keeps it, clock included.
LEMMA LiquidateDuringSystemRecoveryStep ==
    ASSUME IInv, NEW w \in Wallets, NEW rounding \in [Markets -> Roundings],
           LiquidateWalletInMaintenanceDuringSystemRecovery(w, rounding)
    PROVE  IInv'
<1>1. exitFundWallet \in Wallets
  BY DEF IInv, TypeOK
<1>2. SoundLedger(ledger')
  BY <1>1, LiquidateAtBankruptcyPriceSound DEF LiquidateWalletInMaintenanceDuringSystemRecovery
<1>3. exitFundPositionOpenedAt' \in Nat
  BY ClockType DEF LiquidateWalletInMaintenanceDuringSystemRecovery, IInv
<1>4. QED
  BY <1>2, <1>3, LedgerStep DEF LiquidateWalletInMaintenanceDuringSystemRecovery

\* A liquidation of an exited wallet keeps the invariant.
LEMMA LiquidateWalletExitStep ==
    ASSUME IInv, NEW w \in Wallets, NEW rounding \in [Markets -> Roundings],
           LiquidateWalletExit(w, rounding)
    PROVE  IInv'
<1> DEFINE funded   == Funded(Funded(ledger, w), InsuranceFund)
           expected == ExitQuoteQuantities(funded, w, IndexPrice, FieldsFor(w))
           quoteFor == Submitted(expected, rounding)
           closed   == UpdatePositionsForLiquidation(funded, w, InsuranceFund, quoteFor, Published)
<1>1. InsuranceFund \in Wallets
  BY ParameterAssumption
<1>2. SoundLedger(funded)
  BY <1>1, LedgerSound, FundedSound DEF IInv
<1>3. /\ Published \in [Markets -> Nat] /\ IndexPrice \in [Markets -> Nat]
      /\ FieldsFor(w) \in [Markets -> MarketFields]
  BY ParameterTypes DEF IInv
<1>4. quoteFor \in [Markets -> Int]
  <2> HIDE DEF funded
  <2>1. expected \in [Markets -> Int]
    BY <1>2, <1>3, ClosingQuotesType
  <2> HIDE DEF expected
  <2> QED BY <2>1, SubmittedType
<1>5. SoundLedger(closed)
  <2> HIDE DEF funded, quoteFor
  <2> QED BY <1>1, <1>2, <1>3, <1>4, UpdatePositionsForLiquidationSound
<1>6. ledger' \in {closed, UpdateRemainingQuoteAfterLiquidation(closed, w, InsuranceFund)}
  BY DEF LiquidateWalletExit
<1>7. SoundLedger(ledger')
  <2> HIDE DEF closed
  <2> QED BY <1>1, <1>5, <1>6, UpdateRemainingQuoteSound
<1>8. UNCHANGED <<custodyVars, walletExits, fundVars, marketVars, requestVars,
                  nonceInvalidations, clockVars>>
  BY DEF LiquidateWalletExit
<1>9. QED
  BY <1>7, <1>8, LedgerStep DEF fundVars, IInv, TypeOK

\* A liquidation of a position below the minimum keeps the invariant.
LEMMA LiquidatePositionBelowMinimumStep ==
    ASSUME IInv, NEW w \in Wallets, NEW m \in Markets, NEW quote \in LiquidationQuotes,
           LiquidatePositionBelowMinimum(w, m, quote)
    PROVE  IInv'
<1> DEFINE funded == Funded(Funded(ledger, w), InsuranceFund)
           size   == Abs(funded.position[w][m].balance)
<1>1. InsuranceFund \in Wallets /\ quote \in Int
  BY ParameterAssumption, LiquidationAssumption
<1>2. SoundLedger(funded)
  BY <1>1, LedgerSound, FundedSound DEF IInv
<1>3. size \in Int
  <2> HIDE DEF funded
  <2> QED BY <1>2 DEF SoundLedger, Ledger, Position, Abs
<1>4. Published \in [Markets -> Nat]
  BY ParameterTypes DEF IInv
<1>5. ledger' = UpdatePositionsForDeleverage(funded, w, InsuranceFund, m, size, quote, Published)
  BY DEF LiquidatePositionBelowMinimum
<1>6. SoundLedger(ledger')
  <2> HIDE DEF funded, size
  <2> QED BY <1>1, <1>2, <1>3, <1>4, <1>5, UpdatePositionsForDeleverageSound
<1>7. UNCHANGED <<custodyVars, walletExits, fundVars, marketVars, requestVars,
                  nonceInvalidations, clockVars>>
  BY DEF LiquidatePositionBelowMinimum
<1>8. QED
  BY <1>6, <1>7, LedgerStep DEF fundVars, IInv, TypeOK

\* A closure without a counterparty removes the market from the open set.
LEMMA LiquidateInDeactivatedMarketStep ==
    ASSUME IInv, NEW w \in Wallets, NEW m \in Markets, NEW quote \in LiquidationQuotes,
           NEW fee \in LiquidationFees, LiquidatePositionInDeactivatedMarket(w, m, quote, fee)
    PROVE  IInv'
<1>1. FeeWallet \in Wallets /\ quote \in Int /\ fee \in Int
  BY ParameterAssumption, LiquidationAssumption
<1>2. SoundLedger(Funded(ledger, w))
  BY LedgerSound, FundedSound DEF IInv
<1>3. SoundLedger(ledger')
  BY <1>1, <1>2, UpdateForDeactivatedMarketSound DEF LiquidatePositionInDeactivatedMarket
<1>4. QED
  BY <1>3, LedgerStep DEF LiquidatePositionInDeactivatedMarket, fundVars, IInv, TypeOK

\* Liquidations of every kind.
LEMMA LiquidationStep ==
    ASSUME IInv, LiquidationNext
    PROVE  IInv'
BY LiquidateWalletInMaintenanceStep, LiquidateDuringSystemRecoveryStep, LiquidateWalletExitStep,
   LiquidatePositionBelowMinimumStep, LiquidateInDeactivatedMarketStep DEF LiquidationNext

-----------------------------------------------------------------------------
(* Deleveraging. *)

\* What the four deleveragings share leaves a sound ledger.
LEMMA DeleverageSound ==
    ASSUME IInv, NEW w \in Wallets, NEW counterparty \in Wallets, NEW m \in Markets,
           NEW base \in DeleverageQuantities, NEW quote \in DeleverageQuotes,
           Deleverage(w, counterparty, m, base, quote)
    PROVE  SoundLedger(ledger')
<1> DEFINE funded == FundedForDeleverage(w, counterparty)
<1>1. base \in Int /\ quote \in Int
  BY DeleveragingAssumption
<1>2. SoundLedger(funded)
  BY LedgerSound, FundedSound DEF IInv, FundedForDeleverage
<1>3. Published \in [Markets -> Nat]
  BY ParameterTypes DEF IInv
<1>4. ledger' = UpdatePositionsForDeleverage(funded, w, counterparty, m, base, quote, Published)
  BY DEF Deleverage
<1>5. QED
  <2> HIDE DEF funded
  <2> QED BY <1>1, <1>2, <1>3, <1>4, UpdatePositionsForDeleverageSound

\* Deleveraging an exited wallet keeps the invariant, strategy included.
LEMMA DeleverageExitAcquisitionStep ==
    ASSUME IInv, NEW w \in Wallets, NEW counterparty \in Wallets, NEW m \in Markets,
           NEW base \in DeleverageQuantities, NEW quote \in DeleverageQuotes,
           DeleverageExitAcquisition(w, counterparty, m, base, quote)
    PROVE  IInv'
<1>1. SoundLedger(ledger')
  BY DeleverageSound DEF DeleverageExitAcquisition
<1>2. PICK strategy \in {"ExitPrice", "BankruptcyPrice"} :
        walletExits' = [walletExits EXCEPT ![w].strategy = strategy]
  BY DEF DeleverageExitAcquisition, NextStrategy
<1>3. walletExits' \in [Wallets -> WalletExit]
  BY <1>2 DEF IInv, TypeOK, WalletExit
<1>4. UNCHANGED <<custodyVars, fundVars, marketVars, requestVars, nonceInvalidations, clockVars>>
  BY DEF DeleverageExitAcquisition
<1>5. QED
  BY <1>1, <1>3, <1>4 DEF IInv, TypeOK, OpenMarketsAreTracked, SoundLedger, custodyVars,
     fundVars, marketVars, requestVars, clockVars

\* Deleveraging of every kind.
LEMMA DeleveragingStep ==
    ASSUME IInv, DeleveragingNext
    PROVE  IInv'
<1>1. PICK counterparty \in Wallets, m \in Markets, base \in DeleverageQuantities,
           quote \in DeleverageQuotes :
        \/ \E w \in Wallets : DeleverageInMaintenanceAcquisition(w, counterparty, m, base, quote)
        \/ \E w \in Wallets : DeleverageExitAcquisition(w, counterparty, m, base, quote)
        \/ DeleverageInsuranceFundClosure(counterparty, m, base, quote)
        \/ DeleverageExitFundClosure(counterparty, m, base, quote)
  BY DEF DeleveragingNext
<1>2. InsuranceFund \in Wallets /\ exitFundWallet \in Wallets /\ exitFundPositionOpenedAt \in Nat
  BY ParameterAssumption DEF IInv, TypeOK
<1>3. ASSUME NEW w \in Wallets, DeleverageInMaintenanceAcquisition(w, counterparty, m, base, quote)
      PROVE  IInv'
  <2>1. SoundLedger(ledger')
    BY <1>3, DeleverageSound DEF DeleverageInMaintenanceAcquisition
  <2> QED BY <1>2, <1>3, <2>1, LedgerStep DEF DeleverageInMaintenanceAcquisition, fundVars
<1>4. CASE DeleverageInsuranceFundClosure(counterparty, m, base, quote)
  <2>1. SoundLedger(ledger')
    BY <1>2, <1>4, DeleverageSound DEF DeleverageInsuranceFundClosure
  <2> QED BY <1>2, <1>4, <2>1, LedgerStep DEF DeleverageInsuranceFundClosure, fundVars
<1>5. CASE DeleverageExitFundClosure(counterparty, m, base, quote)
  <2>1. SoundLedger(ledger')
    BY <1>2, <1>5, DeleverageSound DEF DeleverageExitFundClosure
  <2>2. exitFundPositionOpenedAt' \in Nat
    BY <1>5, ClockType DEF DeleverageExitFundClosure, IInv
  <2> QED BY <1>5, <2>1, <2>2, LedgerStep DEF DeleverageExitFundClosure
<1>6. QED
  BY <1>1, <1>3, <1>4, <1>5, DeleverageExitAcquisitionStep

-----------------------------------------------------------------------------
(* Exits. *)

\* Announcing and clearing an exit.
LEMMA ExitWalletStep ==
    ASSUME IInv, NEW w \in Wallets, ExitWallet(w) \/ ClearWalletExit(w)
    PROVE  IInv'
<1>1. NoExit \in WalletExit
  BY DEF NoExit, WalletExit
<1>2. [exists |-> TRUE, effectiveAt |-> now + chainPropagationPeriod, strategy |-> "None"]
        \in WalletExit
  BY DEF IInv, TypeOK, WalletExit
<1>3. walletExits' \in [Wallets -> WalletExit]
  BY <1>1, <1>2 DEF IInv, TypeOK, ExitWallet, ClearWalletExit
<1>4. UNCHANGED <<ledger, custodyVars, fundVars, marketVars, requestVars, nonceInvalidations,
                  clockVars>>
  BY DEF ExitWallet, ClearWalletExit
<1>5. QED
  BY <1>3, <1>4 DEF IInv, TypeOK, OpenMarketsAreTracked, custodyVars, fundVars, marketVars,
     requestVars, clockVars

\* The Exit Fund takes over an exiting wallet's positions.
LEMMA WithdrawPositionsStep ==
    ASSUME IInv, NEW w \in Wallets, WithdrawPositions(w)
    PROVE  IInv'
<1> DEFINE funded    == Funded(ledger, w)
           prices    == ExitQuoteQuantities(funded, w, oraclePrice, FieldsFor(w))
           change    == AcquisitionQuoteChange(funded, w, prices)
           acquired  == AddQuote(AcquirePositions(funded, w, exitFundWallet, prices, Published),
                                 exitFundWallet, change)
           remaining == RemainingQuote(funded, w, change)
           units     == ExitUnits(w, remaining)
           after     == SetQuote(acquired, w, 0)
<1>1. /\ exitFundWallet \in Wallets /\ oraclePrice \in [Markets -> Nat]
      /\ Published \in [Markets -> Nat] /\ FieldsFor(w) \in [Markets -> MarketFields]
  BY ParameterTypes DEF IInv, TypeOK
<1>2. SoundLedger(funded)
  BY LedgerSound, FundedSound DEF IInv
<1>3. prices \in [Markets -> Int]
  <2> HIDE DEF funded
  <2> QED BY <1>1, <1>2, ClosingQuotesType
<1>4. change \in Int
  <2> HIDE DEF funded, prices
  <2> QED BY <1>2, <1>3, AcquisitionQuoteChangeType
<1>5. SoundLedger(acquired)
  <2> HIDE DEF funded, prices, change
  <2> QED BY <1>1, <1>2, <1>3, <1>4, AcquirePositionsSound, AddQuoteSound
<1>6. SoundLedger(after)
  <2> HIDE DEF acquired
  <2> QED BY <1>5, SetQuoteSound
<1>7. units \in Int
  <2>1. remaining \in Int
    <3> HIDE DEF funded, change
    <3> QED BY <1>2, <1>4 DEF RemainingQuote, SoundLedger, Ledger
  <2> HIDE DEF remaining
  <2>2. (IF ToleratesAsZero(w, remaining) THEN 0 ELSE remaining) + pendingDepositQuantity[w] \in Int
    BY <2>1 DEF IInv, TypeOK
  <2> QED BY <2>2, ParameterAssumption DEF ExitUnits
<1>8. /\ units <= custodianBalance /\ custodianBalance' = custodianBalance - units
      /\ ledger' = after
      /\ pendingDepositQuantity' = [pendingDepositQuantity EXCEPT ![w] = 0]
      /\ exitFundPositionOpenedAt' = NextExitFundPositionOpenedAt(after)
      /\ UNCHANGED <<depositIndex, isDepositEnabled, walletExits, exitFundWallet, marketVars,
                     requestVars, nonceInvalidations, clockVars>>
  BY DEF WithdrawPositions, IsPayable
<1> HIDE DEF units, after
<1>9. custodianBalance' \in Nat
  BY <1>7, <1>8 DEF IInv, TypeOK
<1>10. pendingDepositQuantity' \in [Wallets -> Nat] /\ exitFundPositionOpenedAt' \in Nat
  BY <1>8, ClockType DEF IInv, TypeOK
<1>11. QED
  BY <1>6, <1>8, <1>9, <1>10 DEF IInv, TypeOK, OpenMarketsAreTracked, SoundLedger, marketVars,
     requestVars, clockVars

\* The Exit Fund's own withdrawal is covered and touches no position.
LEMMA WithdrawExitFundStep ==
    ASSUME IInv, WithdrawExitFund
    PROVE  IInv'
<1> DEFINE funded   == Funded(ledger, exitFundWallet)
           units    == funded.quote[exitFundWallet] \div UnitSize
           after    == SetQuote(funded, exitFundWallet, 0)
<1>1. exitFundWallet \in Wallets
  BY DEF IInv, TypeOK
<1>2. SoundLedger(funded)
  BY <1>1, LedgerSound, FundedSound DEF IInv
<1>3. SoundLedger(after) /\ units \in Int
  <2> HIDE DEF funded
  <2>1. funded.quote[exitFundWallet] \in Int
    BY <1>1, <1>2 DEF SoundLedger, Ledger
  <2> QED BY <1>1, <1>2, <2>1, SetQuoteSound, ParameterAssumption
<1>4. /\ units <= custodianBalance /\ custodianBalance' = custodianBalance - units
      /\ ledger' = after
      /\ exitFundPositionOpenedAt' = NextExitFundPositionOpenedAt(after)
      /\ UNCHANGED <<pendingDepositQuantity, depositIndex, isDepositEnabled, walletExits,
                     exitFundWallet, marketVars, requestVars, nonceInvalidations, clockVars>>
  BY DEF WithdrawExitFund
<1> HIDE DEF units, after
<1>5. custodianBalance' \in Nat /\ exitFundPositionOpenedAt' \in Nat
  BY <1>3, <1>4, ClockType DEF IInv, TypeOK
<1>6. QED
  BY <1>3, <1>4, <1>5 DEF IInv, TypeOK, OpenMarketsAreTracked, SoundLedger, marketVars,
     requestVars, clockVars

\* Appointing another Exit Fund changes no balance.
LEMMA SetExitFundWalletStep ==
    ASSUME IInv, NEW w \in ExitFundWallets, SetExitFundWallet(w)
    PROVE  IInv'
BY ExitAssumption DEF IInv, TypeOK, OpenMarketsAreTracked, SetExitFundWallet, custodyVars,
   marketVars, requestVars, clockVars

\* Exits and the Exit Fund.
LEMMA WalletExitsStep ==
    ASSUME IInv, WalletExitsNext
    PROVE  IInv'
BY ExitWalletStep, WithdrawPositionsStep, WithdrawExitFundStep, SetExitFundWalletStep
   DEF WalletExitsNext, WithdrawExit, WithdrawExitAdmin

-----------------------------------------------------------------------------
(* Markets. *)

\* Activation and deactivation.
LEMMA ActivationStep ==
    ASSUME IInv, NEW m \in Markets, ActivateMarket(m) \/ DeactivateMarket(m)
    PROVE  IInv'
<1>1. markets[m].indexPrice \in Nat
  BY DEF IInv, TypeOK, Market
<1>2. CASE ActivateMarket(m)
  <2>1. markets' = [markets EXCEPT ![m].isActive = TRUE, ![m].priceAtDeactivation = 0]
    BY <1>2 DEF ActivateMarket
  <2>2. markets' \in [Markets -> Market]
    BY <2>1 DEF IInv, TypeOK, Market
  <2> QED BY <1>2, <2>2 DEF IInv, TypeOK, OpenMarketsAreTracked, ActivateMarket, custodyVars,
             fundVars, requestVars, clockVars
<1>3. CASE DeactivateMarket(m)
  <2>1. markets' = [markets EXCEPT ![m].isActive = FALSE,
                                   ![m].priceAtDeactivation = markets[m].indexPrice]
    BY <1>3 DEF DeactivateMarket
  <2>2. markets' \in [Markets -> Market]
    BY <1>1, <2>1, ZenonT(30) DEF IInv, TypeOK, Market
  <2> QED BY <1>3, <2>2 DEF IInv, TypeOK, OpenMarketsAreTracked, DeactivateMarket, custodyVars,
             fundVars, requestVars, clockVars
<1>4. QED
  BY <1>2, <1>3

\* Prices, on the Exchange and on the oracle.
LEMMA PriceStep ==
    ASSUME IInv, PriceNext
    PROVE  IInv'
<1>1. ASSUME NEW m \in Markets, NEW price \in IndexPrices, NEW at \in 0..(now + OneDay),
             PublishIndexPrice(m, price, at)
      PROVE  IInv'
  <2>1. price \in Nat /\ at \in Nat
    BY MarketAssumption
  <2>2. markets' = [markets EXCEPT ![m].indexPrice = price, ![m].indexPriceAt = at]
    BY <1>1 DEF PublishIndexPrice
  <2>3. markets' \in [Markets -> Market]
    BY <2>1, <2>2, ZenonT(30) DEF IInv, TypeOK, Market
  <2> QED BY <1>1, <2>3 DEF IInv, TypeOK, OpenMarketsAreTracked, PublishIndexPrice, custodyVars,
             fundVars, requestVars, clockVars
<1>2. ASSUME NEW m \in Markets, NEW price \in OraclePrices, OraclePriceChange(m, price)
      PROVE  IInv'
  BY <1>2, MarketAssumption DEF IInv, TypeOK, OpenMarketsAreTracked, OraclePriceChange,
     custodyVars, fundVars, requestVars, clockVars
<1>3. QED
  BY <1>1, <1>2 DEF PriceNext

\* A market's history grows by the missed periods and the new multiplier.
LEMMA PublishFundingMultiplierStep ==
    ASSUME IInv, NEW m \in Markets, NEW rate \in FundingRates, PublishFundingMultiplier(m, rate)
    PROVE  IInv'
<1> DEFINE k     == PeriodsToBackfill(m)
           zeros == [i \in 1..k |-> 0]
           new   == FundingMultiplier(m, rate)
<1>1. history[m] \in Seq(Int) /\ Len(history[m]) \in Nat
  BY LenProperties DEF IInv, TypeOK
<1>2. markets[m].indexPrice \in Nat /\ markets[m].indexPriceAt \in Nat
  BY DEF IInv, TypeOK, Market
<1>3. k \in Nat
  <2> DEFINE next == NextPublishTime(m)
             at   == markets[m].indexPriceAt
             p    == FundingPeriod
  <2>1. next \in Nat /\ at \in Nat /\ p \in Nat \ {0}
    BY <1>1, <1>2, ParameterAssumption DEF NextPublishTime
  <2>2. k = IF at > next + p \div 2 THEN DivideRoundNearest(at - next, p) ELSE 0
    BY DEF PeriodsToBackfill
  <2> HIDE DEF next, at, p, k
  <2>3. at > next + p \div 2 => at - next \in Nat
    BY <2>1
  <2>4. \A a \in Nat : DivideRoundNearest(a, p) \in Nat
    BY <2>1 DEF DivideRoundNearest
  <2> QED BY <2>2, <2>3, <2>4
<1>4. new \in Int
  <2>1. rate \in Int /\ -rate \in Int /\ markets[m].indexPrice \in Int
    BY <1>2, MarketAssumption
  <2> QED BY <2>1, QuoteValueType DEF FundingMultiplier
<1>5. zeros \in Seq(Int)
  <2> HIDE DEF k
  <2>1. zeros \in [1..k -> Int]
    OBVIOUS
  <2> HIDE DEF zeros
  <2> QED BY <1>3, <2>1, SeqDef
<1>6. history[m] \o Append(zeros, new) \in Seq(Int)
  <2> HIDE DEF zeros, new
  <2>1. Append(zeros, new) \in Seq(Int)
    BY <1>4, <1>5, AppendProperties
  <2> QED BY <1>1, <2>1, ConcatProperties
<1>7. history' = [history EXCEPT ![m] = history[m] \o Append(zeros, new)]
  BY DEF PublishFundingMultiplier
<1>8. history' \in [Markets -> Seq(Int)]
  <2> HIDE DEF zeros, new
  <2> QED BY <1>6, <1>7 DEF IInv, TypeOK
<1>9. UNCHANGED <<ledger, custodyVars, walletExits, fundVars, markets, marketFields, overrides,
                  oraclePrice, requestVars, nonceInvalidations, clockVars>>
  BY DEF PublishFundingMultiplier
<1>10. QED
  BY <1>8, <1>9 DEF IInv, TypeOK, OpenMarketsAreTracked, custodyVars, fundVars, requestVars,
     clockVars

\* Settling part of a position's funding.
LEMMA ApplyFundingForMarketStep ==
    ASSUME IInv, NEW w \in Wallets, NEW m \in Markets,
           ApplyOutstandingWalletFundingForMarket(w, m)
    PROVE  IInv'
<1> DEFINE p    == ledger.position[w][m]
           last == Smaller(p.lastUpdate + 1 + MaxFundingPeriods, Len(history[m]))
           positions == [ledger.position[w] EXCEPT ![m] = FundedPosition(p, last)]
           due  == FundingPayment(p, history[m], last)
<1>1. /\ SoundLedger(ledger)
      /\ history[m] \in Seq(Int) /\ Len(history[m]) \in Nat
  BY LedgerSound, LenProperties DEF IInv, TypeOK
<1>2. p \in Position /\ p.lastUpdate \in Nat /\ ledger.open[w] \in SUBSET Markets
  BY <1>1 DEF SoundLedger, Ledger, Position
<1>3. last \in Nat /\ last <= Len(history[m])
  <2> HIDE DEF p
  <2> QED BY <1>1, <1>2, MarketAssumption DEF Smaller
<1>4. FundedPosition(p, last) \in Position /\ FundedPosition(p, last).balance = p.balance
  <2> HIDE DEF p, last
  <2> QED BY <1>2, <1>3, FundedPositionType
<1>5. due \in Int
  <2> HIDE DEF p, last
  <2> QED BY <1>1, <1>2, <1>3, FundingPaymentType
<1>6. positions \in [Markets -> Position]
  <2> HIDE DEF last
  <2> QED BY <1>1, <1>4 DEF SoundLedger, Ledger
<1>7. \A x \in Markets : x \in ledger.open[w] <=> positions[x].balance # 0
  <2> HIDE DEF last
  <2> QED BY <1>1, <1>4 DEF SoundLedger, Ledger, IsTracked
<1>8. SoundLedger(SetPositions(ledger, w, positions, ledger.open[w]))
  <2> HIDE DEF positions
  <2> QED BY <1>1, <1>2, <1>6, <1>7, SetPositionsSound
<1>9. ledger' = AddQuote(SetPositions(ledger, w, positions, ledger.open[w]), w, due)
  BY DEF ApplyOutstandingWalletFundingForMarket
<1>10. SoundLedger(ledger')
  <2> HIDE DEF positions, due
  <2> QED BY <1>5, <1>8, <1>9, AddQuoteSound
<1>11. UNCHANGED <<custodyVars, walletExits, fundVars, marketVars, requestVars,
                   nonceInvalidations, clockVars>>
  BY DEF ApplyOutstandingWalletFundingForMarket
<1>12. QED
  BY <1>10, <1>11, LedgerStep DEF fundVars, IInv, TypeOK

\* The parameters that governance and the admin set.
LEMMA ParameterStep ==
    ASSUME IInv, ParameterNext
    PROVE  IInv'
<1>1. ASSUME NEW m \in Markets, NEW w \in Wallets, NEW fields \in FieldOptions,
             SetMarketOverrides(m, fields, w)
      PROVE  IInv'
  BY <1>1, MarketAssumption DEF IInv, TypeOK, OpenMarketsAreTracked, SetMarketOverrides,
     custodyVars, fundVars, requestVars, clockVars
<1>2. ASSUME NEW m \in Markets, NEW fields \in FieldOptions, SetMarketDefaults(m, fields)
      PROVE  IInv'
  BY <1>2, MarketAssumption DEF IInv, TypeOK, OpenMarketsAreTracked, SetMarketDefaults,
     custodyVars, fundVars, requestVars, clockVars
<1>3. ASSUME NEW m \in Markets, NEW w \in Wallets, UnsetMarketOverridesForWallet(m, w)
      PROVE  IInv'
  BY <1>3 DEF IInv, TypeOK, OpenMarketsAreTracked, UnsetMarketOverridesForWallet,
     custodyVars, fundVars, requestVars, clockVars
<1>4. ASSUME NEW period \in PropagationPeriods, SetChainPropagationPeriod(period)
      PROVE  IInv'
  BY <1>4, MarketAssumption DEF IInv, TypeOK, OpenMarketsAreTracked, SetChainPropagationPeriod,
     custodyVars, fundVars, marketVars, requestVars
<1>5. QED
  BY <1>1, <1>2, <1>3, <1>4 DEF ParameterNext

\* Everything that is done to markets.
LEMMA MarketAdminStep ==
    ASSUME IInv, MarketAdminNext
    PROVE  IInv'
BY ActivationStep, PriceStep, PublishFundingMultiplierStep, ApplyFundingForMarketStep,
   ParameterStep DEF MarketAdminNext, FundingNext

-----------------------------------------------------------------------------
(* The Exchange. *)

\* The Exchange starts with the types right and open markets tracked.
LEMMA InitSound ==
    ASSUME Init
    PROVE  IInv
<1>1. StartTime \in Nat /\ FundingPeriod \in Nat \ {0}
  BY InitialAssumption, ParameterAssumption
<1>2. BackfilledPeriods \in Nat
  BY <1>1 DEF BackfilledPeriods
<1>3. history \in [Markets -> Seq(Int)]
  <2> DEFINE zeros == [i \in 1..BackfilledPeriods |-> 0]
  <2>1. zeros \in [1..BackfilledPeriods -> Int]
    OBVIOUS
  <2>2. zeros \in Seq(Int)
    <3> HIDE DEF zeros
    <3> QED BY <1>2, <2>1, SeqDef
  <2>3. history = [m \in Markets |-> zeros]
    BY DEF Init
  <2> HIDE DEF zeros
  <2> QED BY <2>2, <2>3
<1>4. markets \in [Markets -> Market]
  BY <1>1, InitialAssumption DEF Init, Market
<1>5. nonceInvalidations \in [Wallets -> Seq(NonceInvalidation)]
  BY EmptySeq DEF Init
<1>6. walletExits \in [Wallets -> WalletExit]
  BY DEF Init, NoExit, WalletExit
<1>7. QED
  BY <1>1, <1>3, <1>4, <1>5, <1>6, InitialAssumption
     DEF Init, IInv, TypeOK, OpenMarketsAreTracked, DepositIndexNotSet

\* No transaction breaks the invariant.
LEMMA NextSound ==
    ASSUME IInv, [Next]_vars
    PROVE  IInv'
<1>1. CASE Tick
  BY <1>1 DEF IInv, TypeOK, OpenMarketsAreTracked, Tick, custodyVars, fundVars, marketVars,
     requestVars
<1>2. CASE UNCHANGED vars
  BY <1>2 DEF IInv, TypeOK, OpenMarketsAreTracked, vars, custodyVars, fundVars, marketVars,
     requestVars, clockVars
<1>3. QED
  BY <1>1, <1>2, CustodyStep, TradingStep, LiquidationStep, DeleveragingStep, WalletExitsStep,
     MarketAdminStep DEF Next

\* Every part of the storage keeps its type after any transactions whatsoever: the
\* sums that the handlers subtract from unsigned integers never go below zero.
THEOREM TypesAlwaysHold == Spec => []TypeOK
<1>1. Init => IInv
  BY InitSound
<1>2. IInv /\ [Next]_vars => IInv'
  BY NextSound
<1>3. IInv => TypeOK
  BY DEF IInv
<1>4. QED
  BY <1>1, <1>2, <1>3, PTL DEF Spec

\* The types hold, and the list of open markets over which a wallet's margin
\* and funding are computed has, after any transactions whatsoever, exactly
\* the markets in which the wallet has a position.
THEOREM OpenMarketsAlwaysTracked == Spec => [](TypeOK /\ OpenMarketsAreTracked)
<1>1. Init => IInv
  BY InitSound
<1>2. IInv /\ [Next]_vars => IInv'
  BY NextSound
<1>3. IInv => TypeOK /\ OpenMarketsAreTracked
  BY DEF IInv
<1>4. QED
  BY <1>1, <1>2, <1>3, PTL DEF Spec

-----------------------------------------------------------------------------
(* The strategy of an exit. *)

\* A wallet that has not announced an exit has nothing left of an earlier one.
ExitsAreFresh == \A w \in Wallets : walletExits[w].exists \/ walletExits[w] = NoExit

\* The inductive invariant.
EInv == IInv /\ ExitsAreFresh

\* Whatever the prices, a chosen bankruptcy price stays the next strategy.
LEMMA NextStrategyIsSticky ==
    ASSUME NEW w \in Wallets, NEW value, walletExits[w].strategy = "BankruptcyPrice"
    PROVE  NextStrategy(w, value) = "BankruptcyPrice"
BY DEF NextStrategy

\* Deleveraging an exit changes its strategy and nothing else of it.
LEMMA DeleverageExitKeeps ==
    ASSUME TypeOK, ExitsAreFresh, NEW w \in Wallets, NEW counterparty \in Wallets,
           NEW m \in Markets, NEW base, NEW quote,
           DeleverageExitAcquisition(w, counterparty, m, base, quote)
    PROVE  /\ ExitsAreFresh'
           /\ \A v \in Wallets : walletExits[v].strategy = "BankruptcyPrice" =>
                 walletExits'[v] = walletExits[v]
<1> DEFINE strategy == NextStrategy(w, TotalExitAccountValue(FundedForDeleverage(w, counterparty),
                                                             w, IndexPrice))
<1>1. /\ walletExits[w].exists
      /\ walletExits' = [walletExits EXCEPT ![w].strategy = strategy]
  BY DEF DeleverageExitAcquisition
<1>2. walletExits[w].strategy = "BankruptcyPrice" => strategy = "BankruptcyPrice"
  BY NextStrategyIsSticky
<1> HIDE DEF strategy
<1>3. walletExits \in [Wallets -> WalletExit]
  BY DEF TypeOK
<1>4. /\ walletExits'[w] = [walletExits[w] EXCEPT !.strategy = strategy]
      /\ \A v \in Wallets \ {w} : walletExits'[v] = walletExits[v]
  BY <1>1, <1>3
<1>5. walletExits'[w].exists
  BY <1>1, <1>3, <1>4 DEF WalletExit
<1>6. walletExits[w].strategy = "BankruptcyPrice" => walletExits'[w] = walletExits[w]
  BY <1>2, <1>3, <1>4 DEF WalletExit
<1>7. ExitsAreFresh'
  BY <1>4, <1>5 DEF ExitsAreFresh
<1>8. QED
  BY <1>4, <1>6, <1>7

\* Announcing an exit, or clearing one that has nothing left, starts afresh.
LEMMA ExitWalletKeeps ==
    ASSUME TypeOK, ExitsAreFresh, NEW w \in Wallets, ExitWallet(w) \/ ClearWalletExit(w)
    PROVE  /\ ExitsAreFresh'
           /\ \A v \in Wallets : walletExits[v].strategy = "BankruptcyPrice" =>
                 walletExits'[v] = NoExit \/ walletExits'[v] = walletExits[v]
<1>1. walletExits \in [Wallets -> WalletExit]
  BY DEF TypeOK
<1>2. NoExit.strategy = "None"
  BY DEF NoExit
<1>3. CASE ExitWallet(w)
  <2> DEFINE new == [exists |-> TRUE, effectiveAt |-> now + chainPropagationPeriod,
                     strategy |-> "None"]
  <2>1. ~walletExits[w].exists /\ walletExits' = [walletExits EXCEPT ![w] = new]
    BY <1>3 DEF ExitWallet
  <2>2. walletExits[w].strategy = "None"
    BY <1>2, <2>1 DEF ExitsAreFresh
  <2>3. new.exists
    OBVIOUS
  <2> HIDE DEF new
  <2>4. \A v \in Wallets : walletExits'[v] = IF v = w THEN new ELSE walletExits[v]
    BY <1>1, <2>1
  <2>5. ExitsAreFresh'
    BY <2>3, <2>4 DEF ExitsAreFresh
  <2> QED BY <2>2, <2>4, <2>5
<1>4. CASE ClearWalletExit(w)
  <2>1. walletExits' = [walletExits EXCEPT ![w] = NoExit]
    BY <1>4 DEF ClearWalletExit
  <2>2. \A v \in Wallets : walletExits'[v] = IF v = w THEN NoExit ELSE walletExits[v]
    BY <1>1, <2>1
  <2>3. ExitsAreFresh'
    BY <2>2 DEF ExitsAreFresh
  <2> QED BY <2>2, <2>3
<1>5. QED
  BY <1>3, <1>4

\* No other transaction touches the announced exits.
LEMMA ExitFrame ==
    ASSUME [Next]_vars
    PROVE  \/ walletExits' = walletExits
           \/ \E w \in Wallets : ExitWallet(w) \/ ClearWalletExit(w)
           \/ \E w, counterparty \in Wallets, m \in Markets, base \in DeleverageQuantities,
                 quote \in DeleverageQuotes :
                 DeleverageExitAcquisition(w, counterparty, m, base, quote)
<1>1. CASE CustodyNext
  <2>1. walletExits' = walletExits
    BY <1>1 DEF CustodyNext, SetDepositIndex, SetDepositEnabled, Deposit, ApplyPendingDeposits,
       TransferQuote, Withdraw
  <2> QED BY <2>1
<1>2. CASE TradingNext
  <2>1. ASSUME NEW trade, NEW buy, NEW sell, ExecuteTrade(trade, buy, sell)
        PROVE  walletExits' = walletExits
    BY <2>1 DEF ExecuteTrade
  <2>2. ASSUME NEW w, NEW timestamp, InvalidateNonce(w, timestamp)
        PROVE  walletExits' = walletExits
    BY <2>2 DEF InvalidateNonce
  <2> QED BY <1>2, <2>1, <2>2 DEF TradingNext
<1>3. CASE LiquidationNext
  <2>1. walletExits' = walletExits
    BY <1>3 DEF LiquidationNext, LiquidateWalletInMaintenance,
       LiquidateWalletInMaintenanceDuringSystemRecovery, LiquidateWalletExit,
       LiquidatePositionBelowMinimum, LiquidatePositionInDeactivatedMarket
  <2> QED BY <2>1
<1>4. CASE DeleveragingNext
  <2>1. \/ walletExits' = walletExits
        \/ \E w, counterparty \in Wallets, m \in Markets, base \in DeleverageQuantities,
              quote \in DeleverageQuotes :
              DeleverageExitAcquisition(w, counterparty, m, base, quote)
    BY <1>4 DEF DeleveragingNext, DeleverageInMaintenanceAcquisition,
       DeleverageInsuranceFundClosure, DeleverageExitFundClosure
  <2> QED BY <2>1
<1>5. CASE WalletExitsNext
  <2>1. \/ walletExits' = walletExits
        \/ \E w \in Wallets : ExitWallet(w) \/ ClearWalletExit(w)
    BY <1>5 DEF WalletExitsNext, WithdrawExit, WithdrawExitAdmin, WithdrawPositions,
       WithdrawExitFund, SetExitFundWallet
  <2> QED BY <2>1
<1>6. CASE MarketAdminNext
  <2>1. walletExits' = walletExits
    BY <1>6 DEF MarketAdminNext, ActivateMarket, DeactivateMarket, PriceNext, FundingNext,
       ParameterNext, PublishIndexPrice, OraclePriceChange, PublishFundingMultiplier,
       ApplyOutstandingWalletFundingForMarket, SetMarketOverrides, SetMarketDefaults,
       UnsetMarketOverridesForWallet, SetChainPropagationPeriod
  <2> QED BY <2>1
<1>7. CASE Tick
  BY <1>7 DEF Tick
<1>8. CASE UNCHANGED vars
  BY <1>8 DEF vars
<1>9. QED
  BY <1>1, <1>2, <1>3, <1>4, <1>5, <1>6, <1>7, <1>8 DEF Next

\* The invariant is inductive, and every step has the property.
LEMMA ExitStep ==
    ASSUME EInv, [Next]_vars
    PROVE  /\ EInv'
           /\ \A w \in Wallets : walletExits[w].strategy = "BankruptcyPrice" =>
                 walletExits'[w] = NoExit \/ walletExits'[w] = walletExits[w]
<1>1. IInv' /\ TypeOK
  BY NextSound DEF EInv, IInv
<1>2. CASE walletExits' = walletExits
  BY <1>1, <1>2 DEF EInv, ExitsAreFresh
<1>3. ASSUME NEW w \in Wallets, ExitWallet(w) \/ ClearWalletExit(w)
      PROVE  /\ EInv'
             /\ \A v \in Wallets : walletExits[v].strategy = "BankruptcyPrice" =>
                   walletExits'[v] = NoExit \/ walletExits'[v] = walletExits[v]
  BY <1>1, <1>3, ExitWalletKeeps DEF EInv
<1>4. ASSUME NEW w \in Wallets, NEW counterparty \in Wallets, NEW m \in Markets,
             NEW base \in DeleverageQuantities, NEW quote \in DeleverageQuotes,
             DeleverageExitAcquisition(w, counterparty, m, base, quote)
      PROVE  /\ EInv'
             /\ \A v \in Wallets : walletExits[v].strategy = "BankruptcyPrice" =>
                   walletExits'[v] = NoExit \/ walletExits'[v] = walletExits[v]
  BY <1>1, <1>4, DeleverageExitKeeps DEF EInv
<1>5. QED
  BY <1>2, <1>3, <1>4, ExitFrame

\* An exit once deleveraged at the bankruptcy price stays at that price until
\* it is over, whatever prices, deposits and other transactions do in between.
THEOREM BankruptcyStrategyStays == Spec => BankruptcyStrategyIsSticky
<1>1. Init => EInv
  <2>1. Init => ExitsAreFresh
    BY DEF Init, ExitsAreFresh
  <2> QED BY <2>1, InitSound DEF EInv
<1>2. EInv /\ [Next]_vars => EInv'
  BY ExitStep
<1> DEFINE Step == \A w \in Wallets : walletExits[w].strategy = "BankruptcyPrice" =>
              walletExits'[w] = NoExit \/ walletExits'[w] = walletExits[w]
<1>3. EInv /\ [Next]_vars => [Step]_vars
  BY ExitStep
<1>4. QED
  BY <1>1, <1>2, <1>3, PTL DEF Spec, BankruptcyStrategyIsSticky

-----------------------------------------------------------------------------
(* What a wallet can rely on once it has invalidated orders: for any       *)
(* orders, delegated keys and propagation periods, an invalidation that    *)
(* took effect is final.  The contract consults only a wallet's last two   *)
(* invalidations, and ignores the last while it is pending; the invariant  *)
(* below is why that is enough.                                            *)

\* A wallet's invalidations grow, and only the last one can be pending.
InvalidationsInOrder(s, t) ==
    /\ \A i, j \in 1..Len(s) : i < j => s[i].timestamp < s[j].timestamp
    /\ \A i \in 1..Len(s) : i < Len(s) => s[i].effectiveAt <= t

InvalidationInv == \A w \in Wallets : InvalidationsInOrder(nonceInvalidations[w], now)

\* The inductive invariant.
OInv == IInv /\ InvalidationInv

-----------------------------------------------------------------------------
(* The law of the nonces. *)

\* The nonce up to which a wallet's orders are refused covers every one of its
\* invalidations that has taken effect, not only the two it is read from.
LEMMA LastInvalidatedCovers ==
    ASSUME TypeOK, InvalidationInv, NEW w \in Wallets,
           NEW i \in 1..Len(nonceInvalidations[w]),
           nonceInvalidations[w][i].effectiveAt <= now
    PROVE  nonceInvalidations[w][i].timestamp <= LastInvalidated(w)
<1> DEFINE s == nonceInvalidations[w]
           n == Len(s)
<1>1. s \in Seq(NonceInvalidation) /\ n \in Nat /\ now \in Nat
  BY LenProperties DEF TypeOK
<1>2. InvalidationsInOrder(s, now)
  BY DEF InvalidationInv
<1>3. \A k \in 1..n : s[k] \in NonceInvalidation
  <2> HIDE DEF s
  <2> QED BY <1>1, ElementOfSeq
<1>4. \A k \in 1..n : s[k].timestamp \in Nat /\ s[k].effectiveAt \in Nat
  BY <1>3 DEF NonceInvalidation
<1>5. LastInvalidated(w) = IF n > 0 /\ s[n].effectiveAt <= now THEN s[n].timestamp
                           ELSE IF n > 1 THEN s[n - 1].timestamp
                           ELSE 0
  BY DEF LastInvalidated
<1>6. s[i].effectiveAt <= now /\ i \in 1..n
  OBVIOUS
<1> HIDE DEF s
<1>7. s[n].effectiveAt <= now => s[i].timestamp <= LastInvalidated(w)
  <2>1. n > 0 /\ n \in 1..n
    BY <1>1, <1>6
  <2>2. i = n \/ s[i].timestamp < s[n].timestamp
    BY <1>1, <1>2, <1>6, <2>1 DEF InvalidationsInOrder
  <2>3. s[i].timestamp <= s[n].timestamp
    BY <1>4, <1>6, <2>1, <2>2
  <2> QED BY <1>5, <2>1, <2>3
<1>8. ~(s[n].effectiveAt <= now) => s[i].timestamp <= LastInvalidated(w)
  <2> SUFFICES ASSUME ~(s[n].effectiveAt <= now)
               PROVE  s[i].timestamp <= LastInvalidated(w)
    OBVIOUS
  <2>1. i # n
    BY <1>6
  <2>2. n > 1 /\ n - 1 \in 1..n /\ i <= n - 1
    BY <1>1, <1>6, <2>1
  <2>3. i = n - 1 \/ s[i].timestamp < s[n - 1].timestamp
    BY <1>1, <1>2, <1>6, <2>2 DEF InvalidationsInOrder
  <2>4. s[i].timestamp <= s[n - 1].timestamp
    BY <1>4, <1>6, <2>2, <2>3, SMTT(30)
  <2> QED BY <1>5, <2>2, <2>4
<1>9. QED
  BY <1>7, <1>8 DEF s

-----------------------------------------------------------------------------
(* The invariant. *)

\* There are no invalidations at first.
LEMMA InvalidationInvInit ==
    ASSUME Init
    PROVE  InvalidationInv
<1>1. ASSUME NEW w \in Wallets
      PROVE  InvalidationsInOrder(nonceInvalidations[w], now)
  <2>1. nonceInvalidations[w] = <<>> /\ Len(<<>>) = 0
    BY EmptySeq DEF Init
  <2> QED BY <2>1 DEF InvalidationsInOrder
<1>2. QED
  BY <1>1 DEF InvalidationInv

\* A wallet invalidates a later nonce than before, and none while one is pending.
LEMMA InvalidateNonceKeeps ==
    ASSUME TypeOK, InvalidationInv, NEW w \in Wallets, NEW timestamp \in Nat,
           InvalidateNonce(w, timestamp)
    PROVE  InvalidationInv'
<1> DEFINE s   == nonceInvalidations[w]
           n   == Len(s)
           new == [timestamp |-> timestamp, effectiveAt |-> now + chainPropagationPeriod]
           t   == Append(s, new)
<1>1. s \in Seq(NonceInvalidation) /\ n \in Nat /\ now \in Nat
  BY LenProperties DEF TypeOK
<1>2. InvalidationsInOrder(s, now)
  BY DEF InvalidationInv
<1>3. new \in NonceInvalidation
  BY DEF TypeOK, NonceInvalidation
<1>4. Len(t) = n + 1 /\ t[n + 1] = new /\ \A k \in 1..n : t[k] = s[k]
  <2> HIDE DEF s, new
  <2> QED BY <1>1, <1>3, AppendProperties
<1>5. /\ n > 0 => s[n].timestamp < timestamp /\ s[n].effectiveAt <= now
      /\ nonceInvalidations' = [nonceInvalidations EXCEPT ![w] = t]
      /\ now' = now
  BY DEF InvalidateNonce, clockVars
<1>6. \A k \in 1..n : s[k].timestamp \in Nat
  <2>1. \A k \in 1..n : s[k] \in NonceInvalidation
    <3> HIDE DEF s
    <3> QED BY <1>1, ElementOfSeq
  <2> QED BY <2>1 DEF NonceInvalidation
<1>7. new.timestamp = timestamp
  OBVIOUS
<1> HIDE DEF s, new, t
<1>8. ASSUME NEW i \in 1..n
      PROVE  s[i].timestamp < timestamp /\ s[i].effectiveAt <= now
  <2>1. n > 0 /\ n \in 1..n
    BY <1>1
  <2>2. s[n].timestamp < timestamp /\ s[n].effectiveAt <= now
    BY <1>5, <2>1
  <2>3. CASE i = n
    BY <2>2, <2>3
  <2>4. CASE i < n
    <3>1. s[i].timestamp < s[n].timestamp /\ s[i].effectiveAt <= now
      BY <1>2, <2>1, <2>4 DEF InvalidationsInOrder
    <3> QED BY <1>6, <2>1, <2>2, <3>1
  <2> QED BY <1>1, <2>3, <2>4
<1>9. InvalidationsInOrder(t, now)
  <2>1. ASSUME NEW i \in 1..Len(t), NEW j \in 1..Len(t), i < j
        PROVE  t[i].timestamp < t[j].timestamp
    <3>1. i \in 1..n /\ t[i] = s[i]
      BY <1>1, <1>4, <2>1
    <3>2. CASE j = n + 1
      BY <1>4, <1>7, <1>8, <3>1, <3>2
    <3>3. CASE j \in 1..n
      BY <1>2, <1>4, <2>1, <3>1, <3>3 DEF InvalidationsInOrder
    <3> QED BY <1>1, <1>4, <3>2, <3>3
  <2>2. ASSUME NEW i \in 1..Len(t), i < Len(t)
        PROVE  t[i].effectiveAt <= now
    <3>1. i \in 1..n /\ t[i] = s[i]
      BY <1>1, <1>4, <2>2
    <3> QED BY <1>8, <3>1
  <2> QED BY <2>1, <2>2 DEF InvalidationsInOrder
<1>10. ASSUME NEW v \in Wallets
       PROVE  InvalidationsInOrder(nonceInvalidations'[v], now')
  <2>1. v # w => nonceInvalidations'[v] = nonceInvalidations[v]
    BY <1>5 DEF TypeOK
  <2>2. v = w => nonceInvalidations'[v] = t
    BY <1>5 DEF TypeOK
  <2> QED BY <1>5, <1>9, <2>1, <2>2 DEF InvalidationInv
<1>11. QED
  BY <1>10 DEF InvalidationInv

\* Time makes no invalidation pending again.
LEMMA TickKeeps ==
    ASSUME TypeOK, InvalidationInv, Tick
    PROVE  InvalidationInv'
<1>1. now \in Nat /\ now' = now + 1 /\ nonceInvalidations' = nonceInvalidations
  BY DEF TypeOK, Tick
<1>2. ASSUME NEW w \in Wallets
      PROVE  InvalidationsInOrder(nonceInvalidations'[w], now')
  <2> DEFINE s == nonceInvalidations[w]
  <2>1. s \in Seq(NonceInvalidation) /\ Len(s) \in Nat
    BY LenProperties DEF TypeOK
  <2>2. InvalidationsInOrder(s, now)
    BY DEF InvalidationInv
  <2>3. \A k \in 1..Len(s) : s[k].effectiveAt \in Nat
    <3>1. \A k \in 1..Len(s) : s[k] \in NonceInvalidation
      <4> HIDE DEF s
      <4> QED BY <2>1, ElementOfSeq
    <3> QED BY <3>1 DEF NonceInvalidation
  <2> HIDE DEF s
  <2>4. \A k \in 1..Len(s) : k < Len(s) => s[k].effectiveAt <= now + 1
    BY <1>1, <2>2, <2>3 DEF InvalidationsInOrder
  <2>5. InvalidationsInOrder(s, now + 1)
    BY <2>2, <2>4 DEF InvalidationsInOrder
  <2> QED BY <1>1, <2>5 DEF s
<1>3. QED
  BY <1>2 DEF InvalidationInv

\* Every other transaction leaves invalidations and time alone, and only a
\* trade touches what orders have been filled.
LEMMA RequestFrame ==
    ASSUME Next \/ UNCHANGED vars
    PROVE  \/ \E w \in Wallets, timestamp \in NonceTimes : InvalidateNonce(w, timestamp)
           \/ Tick
           \/ /\ UNCHANGED <<nonceInvalidations, now>>
              /\ \/ UNCHANGED <<partiallyFilled, completedOrders>>
                 \/ \E buy, sell \in Orders, trade \in Trade : ExecuteTrade(trade, buy, sell)
<1> DEFINE Idle == UNCHANGED <<nonceInvalidations, now, partiallyFilled, completedOrders>>
<1>1. CASE CustodyNext
  <2>1. Idle
    BY <1>1 DEF CustodyNext, SetDepositIndex, SetDepositEnabled, Deposit, ApplyPendingDeposits,
       TransferQuote, Withdraw, requestVars, clockVars
  <2> QED BY <2>1
<1>2. CASE TradingNext
  <2>1. ASSUME NEW buy \in Orders, NEW sell \in Orders, NEW base \in BaseQuantities,
               NEW quote \in QuoteQuantities, NEW makerSide \in {"Buy", "Sell"},
               NEW makerFee \in MakerFees, NEW takerFee \in TakerFees
        PROVE  [market |-> buy.market, base |-> base, quote |-> quote, makerSide |-> makerSide,
                makerFee |-> makerFee, takerFee |-> takerFee] \in Trade
    BY TradingAssumption, RequestAssumption DEF Trade, Order
  <2>2. ASSUME NEW buy \in Orders, NEW sell \in Orders, NEW trade, ExecuteTrade(trade, buy, sell)
        PROVE  UNCHANGED <<nonceInvalidations, now>>
    BY <2>2 DEF ExecuteTrade, clockVars
  <2> QED BY <1>2, <2>1, <2>2 DEF TradingNext
<1>3. CASE LiquidationNext
  <2>1. Idle
    BY <1>3 DEF LiquidationNext, LiquidateWalletInMaintenance,
       LiquidateWalletInMaintenanceDuringSystemRecovery, LiquidateWalletExit,
       LiquidatePositionBelowMinimum, LiquidatePositionInDeactivatedMarket, requestVars, clockVars
  <2> QED BY <2>1
<1>4. CASE DeleveragingNext
  <2>1. Idle
    BY <1>4 DEF DeleveragingNext, DeleverageInMaintenanceAcquisition, DeleverageExitAcquisition,
       DeleverageInsuranceFundClosure, DeleverageExitFundClosure, requestVars, clockVars
  <2> QED BY <2>1
<1>5. CASE WalletExitsNext
  <2>1. Idle
    BY <1>5 DEF WalletExitsNext, ExitWallet, ClearWalletExit, WithdrawExit, WithdrawExitAdmin,
       WithdrawPositions, WithdrawExitFund, SetExitFundWallet, requestVars, clockVars
  <2> QED BY <2>1
<1>6. CASE MarketAdminNext
  <2>1. Idle
    BY <1>6 DEF MarketAdminNext, ActivateMarket, DeactivateMarket, PriceNext, FundingNext,
       ParameterNext, PublishIndexPrice, OraclePriceChange, PublishFundingMultiplier,
       ApplyOutstandingWalletFundingForMarket, SetMarketOverrides, SetMarketDefaults,
       UnsetMarketOverridesForWallet, SetChainPropagationPeriod, requestVars, clockVars
  <2> QED BY <2>1
<1>7. CASE UNCHANGED vars
  BY <1>7 DEF vars, requestVars, clockVars
<1>8. QED
  BY <1>1, <1>2, <1>3, <1>4, <1>5, <1>6, <1>7 DEF Next

\* The invariant is inductive.
LEMMA InvalidationInvNext ==
    ASSUME OInv, [Next]_vars
    PROVE  OInv'
<1>1. IInv' /\ TypeOK
  BY NextSound DEF OInv, IInv
<1>2. InvalidationInv'
  <2>1. ASSUME NEW w \in Wallets, NEW timestamp \in NonceTimes, InvalidateNonce(w, timestamp)
        PROVE  InvalidationInv'
    BY <1>1, <2>1, InvalidateNonceKeeps, TradingAssumption DEF OInv
  <2>2. CASE Tick
    BY <1>1, <2>2, TickKeeps DEF OInv
  <2>3. CASE UNCHANGED <<nonceInvalidations, now>>
    BY <2>3 DEF OInv, InvalidationInv
  <2> QED BY <2>1, <2>2, <2>3, RequestFrame
<1>3. QED
  BY <1>1, <1>2 DEF OInv

-----------------------------------------------------------------------------
(* The property. *)

\* An order so submitted is covered by an invalidation that has taken effect.
IsInvalidated(o) ==
    \E i \in 1..Len(nonceInvalidations[o.wallet]) :
        LET invalidation == nonceInvalidations[o.wallet][i]
        IN  /\ invalidation.effectiveAt <= now
            /\ \/ o.nonce <= invalidation.timestamp
               \/ o.delegatedKey \in 0..invalidation.timestamp

\* The order is covered however it is submitted.
IsHashInvalidated(h) ==
    \E i \in 1..Len(nonceInvalidations[h.wallet]) :
        /\ nonceInvalidations[h.wallet][i].effectiveAt <= now
        /\ Covers(nonceInvalidations[h.wallet][i], h)

\* Every way to submit an order has the wallet its hash names.
LEMMA HashKeepsWallet ==
    ASSUME NEW o \in Orders
    PROVE  OrderHash(o).wallet = o.wallet
  BY RequestAssumption DEF Order, OrderHash

\* An order that is covered is covered in each of its submissions.
LEMMA SubmissionIsInvalidated ==
    ASSUME NEW o \in Orders, IsHashInvalidated(OrderHash(o))
    PROVE  IsInvalidated(o)
<1>1. OrderHash(o).wallet = o.wallet
  BY HashKeepsWallet
<1>2. PICK i \in 1..Len(nonceInvalidations[o.wallet]) :
           /\ nonceInvalidations[o.wallet][i].effectiveAt <= now
           /\ Covers(nonceInvalidations[o.wallet][i], OrderHash(o))
  BY <1>1 DEF IsHashInvalidated
<1>3. \/ o.nonce <= nonceInvalidations[o.wallet][i].timestamp
      \/ o.delegatedKey \in 0..nonceInvalidations[o.wallet][i].timestamp
  BY <1>2 DEF Covers
<1>4. QED
  BY <1>2, <1>3 DEF IsInvalidated

\* The contract accepts the nonce of no such order.
LEMMA InvalidatedIsRefused ==
    ASSUME OInv, NEW o \in Orders, IsInvalidated(o)
    PROVE  ~IsNonceValid(o)
<1> DEFINE s    == nonceInvalidations[o.wallet]
           last == LastInvalidated(o.wallet)
<1>1. o.wallet \in Wallets /\ o.nonce \in Nat /\ o.delegatedKey \in Nat \cup {-1}
  BY RequestAssumption DEF Order, NoDelegatedKey
<1>2. PICK i \in 1..Len(s) : /\ s[i].effectiveAt <= now
                             /\ \/ o.nonce <= s[i].timestamp
                                \/ o.delegatedKey \in 0..s[i].timestamp
  BY DEF IsInvalidated
<1>3. s[i].timestamp <= last
  BY <1>1, <1>2, LastInvalidatedCovers DEF OInv, IInv
<1>4. \A k \in 1..Len(s) : s[k].timestamp \in Nat
  <2>1. s \in Seq(NonceInvalidation)
    BY <1>1 DEF OInv, IInv, TypeOK
  <2>2. \A k \in 1..Len(s) : s[k] \in NonceInvalidation
    <3> HIDE DEF s
    <3> QED BY <2>1, ElementOfSeq
  <2> QED BY <2>2 DEF NonceInvalidation
<1>5. last \in Nat
  <2>1. Len(s) \in Nat
    BY <1>1, LenProperties DEF OInv, IInv, TypeOK
  <2>2. last = IF Len(s) > 0 /\ s[Len(s)].effectiveAt <= now THEN s[Len(s)].timestamp
               ELSE IF Len(s) > 1 THEN s[Len(s) - 1].timestamp
               ELSE 0
    BY DEF LastInvalidated
  <2> HIDE DEF s, last
  <2> QED BY <1>4, <2>1, <2>2
<1>6. CASE o.nonce <= s[i].timestamp
  <2>1. ~(o.nonce > last)
    <3> HIDE DEF s, last
    <3> QED BY <1>1, <1>3, <1>4, <1>5, <1>6
  <2> QED BY <2>1 DEF IsNonceValid
<1>7. CASE o.delegatedKey \in 0..s[i].timestamp
  <2>1. o.delegatedKey # -1 /\ ~(o.delegatedKey > last)
    <3> HIDE DEF s, last
    <3> QED BY <1>1, <1>3, <1>4, <1>5, <1>7
  <2> QED BY <2>1 DEF IsNonceValid, NoDelegatedKey
<1>8. QED
  BY <1>2, <1>6, <1>7

\* A trade fills the two orders it settles and no other.
LEMMA TradeFillsItsOrders ==
    ASSUME TypeOK, NEW buy \in Orders, NEW sell \in Orders, NEW trade \in Trade,
           ExecuteTrade(trade, buy, sell), NEW h \in OrderHashes,
           h # OrderHash(buy), h # OrderHash(sell)
    PROVE  Filled(h)' = Filled(h)
<1> DEFINE traded == {OrderHash(buy), OrderHash(sell)}
           filled == {OrderHash(o) : o \in {x \in {buy, sell} : Completes(x, trade.base)}}
<1>1. /\ partiallyFilled' = [x \in OrderHashes |->
                               IF x \in filled THEN 0
                               ELSE IF x \in traded THEN partiallyFilled[x] + trade.base
                               ELSE partiallyFilled[x]]
      /\ completedOrders' = completedOrders \cup filled
  BY DEF ExecuteTrade
<1>2. h \notin filled /\ h \notin traded
  OBVIOUS
<1> HIDE DEF filled, traded
<1>3. partiallyFilled'[h] = partiallyFilled[h]
  BY <1>1, <1>2
<1>4. h \in completedOrders' <=> h \in completedOrders
  BY <1>1, <1>2
<1>5. QED
  BY <1>3, <1>4 DEF Filled

\* No step settles an order that an effective invalidation covers.
LEMMA InvalidatedIsNotFilled ==
    ASSUME OInv, [Next]_vars, NEW h \in OrderHashes, IsHashInvalidated(h)
    PROVE  Filled(h)' = Filled(h)
<1>1. CASE UNCHANGED <<partiallyFilled, completedOrders>>
  BY <1>1 DEF Filled
<1>2. ASSUME NEW buy \in Orders, NEW sell \in Orders, NEW trade \in Trade,
             ExecuteTrade(trade, buy, sell)
      PROVE  Filled(h)' = Filled(h)
  <2>1. IsNonceValid(buy) /\ IsNonceValid(sell)
    BY <1>2 DEF ExecuteTrade
  <2>2. h # OrderHash(buy) /\ h # OrderHash(sell)
    BY <2>1, InvalidatedIsRefused, SubmissionIsInvalidated
  <2> QED BY <1>2, <2>2, TradeFillsItsOrders DEF OInv, IInv
<1>3. Tick \/ (\E w \in Wallets, t \in NonceTimes : InvalidateNonce(w, t))
        => UNCHANGED <<partiallyFilled, completedOrders>>
  BY DEF Tick, InvalidateNonce, requestVars
<1>4. QED
  BY <1>1, <1>2, <1>3, RequestFrame

\* Once an invalidation has taken effect, no order or delegated key it covers
\* is ever settled again, however often the wallet invalidates afterwards and
\* whatever the propagation period is set to.
THEOREM InvalidationIsFinal == Spec => InvalidatedOrdersStayInvalid
<1>1. Init => OInv
  BY InitSound, InvalidationInvInit DEF OInv
<1>2. OInv /\ [Next]_vars => OInv'
  BY InvalidationInvNext
<1> DEFINE Step == \A h \in OrderHashes : \A i \in 1..Len(nonceInvalidations[h.wallet]) :
              LET invalidation == nonceInvalidations[h.wallet][i]
              IN  invalidation.effectiveAt <= now /\ Covers(invalidation, h)
                  => Filled(h)' = Filled(h)
<1>3. OInv /\ [Next]_vars => [Step]_vars
  <2>1. ASSUME OInv, [Next]_vars
        PROVE  Step
    BY <2>1, InvalidatedIsNotFilled DEF IsHashInvalidated
  <2> QED BY <2>1
<1>4. QED
  BY <1>1, <1>2, <1>3, PTL DEF Spec, InvalidatedOrdersStayInvalid

-----------------------------------------------------------------------------
(* What a wallet is worth, and ledgers in which no position is from the    *)
(* future.                                                                 *)

IsDated(l, h) ==
    \A w \in Wallets, m \in Markets : l.position[w][m].lastUpdate <= Len(h[m])

DatedLedger(l, h) == SoundLedger(l) /\ IsDated(l, h)

\* The wallet has no funding outstanding.
IsCurrent(l, w, h) ==
    \A m \in Markets : l.position[w][m].balance # 0 =>
        l.position[w][m].lastUpdate = Len(h[m])

Worth(l, w, h) == l.quote[w] + OutstandingWalletFunding(l, w, h)

TotalWorth(l, h) == SumTo([w \in Wallets |-> Worth(l, w, h)], NumWallets)

\* From l to k the wallets' worth grows by quote in total and the sum of
\* positions in each market m by base[m], and no funding becomes outstanding.
Moves(l, k, h, quote, base) ==
    /\ DatedLedger(k, h)
    /\ TotalWorth(k, h) = TotalWorth(l, h) + quote
    /\ \A m \in Markets : PositionSum(k, m) = PositionSum(l, m) + base[m]
    /\ \A w \in Wallets : IsCurrent(l, w, h) => IsCurrent(k, w, h)

Nothing == [m \in Markets |-> 0]

Only(m, base) == [x \in Markets |-> IF x = m THEN base ELSE 0]

\* No wallet but w differs.
DifferOnlyFor(l, k, w) ==
    \A v \in Wallets \ {w} :
        /\ k.quote[v] = l.quote[v]
        /\ k.position[v] = l.position[v]
        /\ k.open[v] = l.open[v]

\* What a sound ledger holds.
LEMMA LedgerTypes ==
    ASSUME NEW l, SoundLedger(l)
    PROVE  \A w \in Wallets :
             /\ l.quote[w] \in Int
             /\ l.open[w] \in SUBSET Markets
             /\ \A m \in Markets :
                   /\ l.position[w][m] \in Position
                   /\ l.position[w][m].balance \in Int
                   /\ l.position[w][m].lastUpdate \in Nat
                   /\ m \in l.open[w] <=> l.position[w][m].balance # 0
<1>1. ASSUME NEW w \in Wallets, NEW m \in Markets
      PROVE  l.position[w][m] \in Position
  BY DEF SoundLedger, Ledger
<1>2. QED
  BY <1>1 DEF SoundLedger, Ledger, IsTracked, Position

\* The length of a market's history.
LEMMA HistoryTypes ==
    ASSUME NEW h \in [Markets -> Seq(Int)], NEW m \in Markets
    PROVE  h[m] \in Seq(Int) /\ Len(h[m]) \in Nat
<1>1. h[m] \in Seq(Int)
  OBVIOUS
<1>2. QED
  BY <1>1, LenProperties

\* Sums over the wallets of a sound ledger are integers.
LEMMA TotalTypes ==
    ASSUME NEW l, SoundLedger(l), NEW h \in [Markets -> Seq(Int)]
    PROVE  /\ \A w \in Wallets : Worth(l, w, h) \in Int
           /\ TotalWorth(l, h) \in Int
           /\ \A m \in Markets : PositionSum(l, m) \in Int
<1>1. ASSUME NEW w \in Wallets
      PROVE  Worth(l, w, h) \in Int
  <2>1. OutstandingWalletFunding(l, w, h) \in Int /\ l.quote[w] \in Int
    BY OutstandingFundingType, LedgerTypes
  <2> QED BY <2>1 DEF Worth
<1>2. NumWallets \in Nat
  BY LedgerSizeAssumption
<1>3. TotalWorth(l, h) \in Int
  <2> DEFINE f == [w \in Wallets |-> Worth(l, w, h)]
  <2>1. \A i \in 1..NumWallets : f[i] \in Int
    BY <1>1 DEF Wallets
  <2> HIDE DEF f
  <2>2. SumTo(f, NumWallets) \in Int
    BY <1>2, <2>1, SumToType
  <2> QED BY <2>2 DEF TotalWorth, f
<1>4. ASSUME NEW m \in Markets
      PROVE  PositionSum(l, m) \in Int
  <2> DEFINE f == [w \in Wallets |-> l.position[w][m].balance]
  <2>1. \A i \in 1..NumWallets : f[i] \in Int
    BY LedgerTypes DEF Wallets
  <2> HIDE DEF f
  <2>2. SumTo(f, NumWallets) \in Int
    BY <1>2, <2>1, SumToType
  <2> QED BY <2>2 DEF PositionSum, f
<1>5. QED
  BY <1>1, <1>3, <1>4

\* Nothing is outstanding for a wallet whose positions are all up to date.
LEMMA CurrentOwesNothing ==
    ASSUME NEW l, SoundLedger(l), NEW w \in Wallets, NEW h \in [Markets -> Seq(Int)],
           IsCurrent(l, w, h)
    PROVE  OutstandingWalletFunding(l, w, h) = 0
<1> DEFINE f == [m \in Markets |->
                   IF m \in l.open[w]
                   THEN FundingPayment(l.position[w][m], h[m], Len(h[m]))
                   ELSE 0]
<1>1. \A m \in Markets : f[m] = 0
  BY HistoryTypes, LedgerTypes DEF IsCurrent, FundingPayment
<1>2. OutstandingWalletFunding(l, w, h) = SumTo(f, NumMarkets)
  BY DEF OutstandingWalletFunding
<1> HIDE DEF f
<1>3. SumTo(f, NumMarkets) = 0
  BY <1>1, SumToZeros, LedgerSizeAssumption DEF Markets
<1>4. QED
  BY <1>2, <1>3

\* The sums change with the one wallet that does.
LEMMA OneWalletMoves ==
    ASSUME NEW l, NEW k, NEW w \in Wallets, NEW h \in [Markets -> Seq(Int)],
           NEW quote \in Int, NEW base \in [Markets -> Int],
           DatedLedger(l, h), DatedLedger(k, h), DifferOnlyFor(l, k, w),
           Worth(k, w, h) = Worth(l, w, h) + quote,
           \A m \in Markets : k.position[w][m].balance = l.position[w][m].balance + base[m],
           IsCurrent(l, w, h) => IsCurrent(k, w, h)
    PROVE  Moves(l, k, h, quote, base)
<1>1. SoundLedger(l) /\ SoundLedger(k) /\ NumWallets \in Nat /\ w \in 1..NumWallets
  BY LedgerSizeAssumption DEF DatedLedger, Wallets
<1>2. ASSUME NEW v \in Wallets, v # w
      PROVE  /\ Worth(k, v, h) = Worth(l, v, h)
             /\ k.position[v] = l.position[v]
             /\ IsCurrent(l, v, h) => IsCurrent(k, v, h)
  BY <1>2 DEF DifferOnlyFor, Worth, OutstandingWalletFunding, IsCurrent
<1>3. TotalWorth(k, h) = TotalWorth(l, h) + quote
  <2> DEFINE f == [v \in Wallets |-> Worth(l, v, h)]
             g == [v \in Wallets |-> Worth(k, v, h)]
  <2>1. \A i \in 1..NumWallets : f[i] \in Int /\ g[i] \in Int
    BY <1>1, TotalTypes DEF Wallets
  <2>2. \A i \in 1..NumWallets : i # w => g[i] = f[i]
    BY <1>2 DEF Wallets
  <2>3. g[w] = f[w] + quote
    OBVIOUS
  <2>4. TotalWorth(l, h) = SumTo(f, NumWallets) /\ TotalWorth(k, h) = SumTo(g, NumWallets)
    BY DEF TotalWorth
  <2> HIDE DEF f, g
  <2>5. SumTo(g, NumWallets) = SumTo(f, NumWallets) + g[w] - f[w]
    BY <1>1, <2>1, <2>2, SumToChange
  <2>6. SumTo(f, NumWallets) \in Int /\ f[w] \in Int
    BY <1>1, <2>1, SumToType
  <2> QED BY <2>3, <2>4, <2>5, <2>6
<1>4. ASSUME NEW m \in Markets
      PROVE  PositionSum(k, m) = PositionSum(l, m) + base[m]
  <2> DEFINE f == [v \in Wallets |-> l.position[v][m].balance]
             g == [v \in Wallets |-> k.position[v][m].balance]
  <2>1. \A i \in 1..NumWallets : f[i] \in Int /\ g[i] \in Int
    BY <1>1, LedgerTypes DEF Wallets
  <2>2. \A i \in 1..NumWallets : i # w => g[i] = f[i]
    BY <1>2 DEF Wallets
  <2>3. g[w] = f[w] + base[m] /\ base[m] \in Int
    OBVIOUS
  <2>4. PositionSum(l, m) = SumTo(f, NumWallets) /\ PositionSum(k, m) = SumTo(g, NumWallets)
    BY DEF PositionSum
  <2> HIDE DEF f, g
  <2>5. SumTo(g, NumWallets) = SumTo(f, NumWallets) + g[w] - f[w]
    BY <1>1, <2>1, <2>2, SumToChange
  <2>6. SumTo(f, NumWallets) \in Int /\ f[w] \in Int
    BY <1>1, <2>1, SumToType
  <2> QED BY <2>3, <2>4, <2>5, <2>6
<1>5. QED
  BY <1>2, <1>3, <1>4 DEF Moves

\* What two operations move, one after the other, adds up.
LEMMA MovesAddUp ==
    ASSUME NEW l, NEW j, NEW k, NEW h \in [Markets -> Seq(Int)], SoundLedger(l),
           NEW q1 \in Int, NEW q2 \in Int,
           NEW b1 \in [Markets -> Int], NEW b2 \in [Markets -> Int], NEW base,
           Moves(l, j, h, q1, b1), Moves(j, k, h, q2, b2),
           \A m \in Markets : base[m] = b1[m] + b2[m]
    PROVE  Moves(l, k, h, q1 + q2, base)
<1>1. TotalWorth(l, h) \in Int /\ \A m \in Markets : PositionSum(l, m) \in Int
  BY TotalTypes
<1>2. TotalWorth(k, h) = TotalWorth(l, h) + (q1 + q2)
  BY <1>1 DEF Moves
<1>3. ASSUME NEW m \in Markets
      PROVE  PositionSum(k, m) = PositionSum(l, m) + base[m]
  <2>1. b1[m] \in Int /\ b2[m] \in Int /\ base[m] = b1[m] + b2[m]
    OBVIOUS
  <2>2. PositionSum(j, m) = PositionSum(l, m) + b1[m] /\ PositionSum(k, m) = PositionSum(j, m) + b2[m]
    BY DEF Moves
  <2> QED BY <1>1, <2>1, <2>2
<1>4. QED
  BY <1>2, <1>3 DEF Moves

\* What moves there and back has not moved.
LEMMA MovesCancel ==
    ASSUME NEW l, NEW j, NEW k, NEW h \in [Markets -> Seq(Int)], SoundLedger(l),
           NEW b1 \in [Markets -> Int], NEW b2 \in [Markets -> Int],
           Moves(l, j, h, 0, b1), Moves(j, k, h, 0, b2),
           \A m \in Markets : b1[m] + b2[m] = 0
    PROVE  Moves(l, k, h, 0, Nothing)
<1>1. TotalWorth(l, h) \in Int /\ \A m \in Markets : PositionSum(l, m) \in Int
  BY TotalTypes
<1>2. TotalWorth(k, h) = TotalWorth(l, h) + 0
  BY <1>1 DEF Moves
<1>3. ASSUME NEW m \in Markets
      PROVE  PositionSum(k, m) = PositionSum(l, m) + Nothing[m]
  <2>1. b1[m] \in Int /\ b2[m] \in Int /\ b1[m] + b2[m] = 0 /\ Nothing[m] = 0
    BY DEF Nothing
  <2>2. PositionSum(j, m) = PositionSum(l, m) + b1[m] /\ PositionSum(k, m) = PositionSum(j, m) + b2[m]
    BY DEF Moves
  <2> QED BY <1>1, <2>1, <2>2
<1>4. QED
  BY <1>2, <1>3 DEF Moves

\* Nothing moves when nothing happens.
LEMMA NothingMoves ==
    ASSUME NEW l, NEW h \in [Markets -> Seq(Int)], DatedLedger(l, h)
    PROVE  Moves(l, l, h, 0, Nothing)
<1>1. TotalWorth(l, h) \in Int /\ \A m \in Markets : PositionSum(l, m) \in Int
  BY TotalTypes DEF DatedLedger
<1>2. QED
  BY <1>1 DEF Moves, Nothing

-----------------------------------------------------------------------------
(* The updates of BalanceTracking. *)

\* Adding to a quote balance adds as much to what the wallets are worth.
LEMMA AddQuoteMoves ==
    ASSUME NEW l, NEW h \in [Markets -> Seq(Int)], DatedLedger(l, h),
           NEW w \in Wallets, NEW quantity \in Int
    PROVE  Moves(l, AddQuote(l, w, quantity), h, quantity, Nothing)
<1> DEFINE k == AddQuote(l, w, quantity)
<1>1. SoundLedger(l) /\ SoundLedger(k)
  BY AddQuoteSound DEF DatedLedger
<1>2. k.position = l.position /\ k.open = l.open
  BY DEF AddQuote, SetQuote
<1>3. /\ k.quote[w] = l.quote[w] + quantity
      /\ \A v \in Wallets \ {w} : k.quote[v] = l.quote[v]
  BY <1>1 DEF AddQuote, SetQuote, SoundLedger, Ledger
<1> HIDE DEF k
<1>4. DatedLedger(k, h)
  BY <1>1, <1>2 DEF DatedLedger, IsDated
<1>5. DifferOnlyFor(l, k, w)
  BY <1>2, <1>3 DEF DifferOnlyFor
<1>6. Worth(k, w, h) = Worth(l, w, h) + quantity
  <2>1. OutstandingWalletFunding(k, w, h) = OutstandingWalletFunding(l, w, h)
    BY <1>2 DEF OutstandingWalletFunding
  <2>2. OutstandingWalletFunding(l, w, h) \in Int /\ l.quote[w] \in Int
    BY <1>1, OutstandingFundingType, LedgerTypes
  <2> QED BY <1>3, <2>1, <2>2 DEF Worth
<1>7. \A m \in Markets : k.position[w][m].balance = l.position[w][m].balance + Nothing[m]
  BY <1>1, <1>2, LedgerTypes DEF Nothing
<1>8. IsCurrent(l, w, h) => IsCurrent(k, w, h)
  BY <1>2 DEF IsCurrent
<1>9. Nothing \in [Markets -> Int]
  BY DEF Nothing
<1>10. Moves(l, k, h, quantity, Nothing)
  BY <1>4, <1>5, <1>6, <1>7, <1>8, <1>9, OneWalletMoves
<1>11. QED
  BY <1>10 DEF k

\* Setting a quote balance adds the difference.
LEMMA SetQuoteMoves ==
    ASSUME NEW l, NEW h \in [Markets -> Seq(Int)], DatedLedger(l, h),
           NEW w \in Wallets, NEW quantity \in Int
    PROVE  Moves(l, SetQuote(l, w, quantity), h, quantity - l.quote[w], Nothing)
<1>1. l.quote[w] \in Int /\ quantity - l.quote[w] \in Int
  BY LedgerTypes DEF DatedLedger
<1>2. l.quote[w] + (quantity - l.quote[w]) = quantity
  BY <1>1
<1>3. SetQuote(l, w, quantity) = AddQuote(l, w, quantity - l.quote[w])
  BY <1>2 DEF AddQuote
<1>4. QED
  BY <1>1, <1>3, AddQuoteMoves

\* Up-to-date positions may be replaced by up-to-date positions.
LEMMA SetPositionsMoves ==
    ASSUME NEW l, NEW h \in [Markets -> Seq(Int)], DatedLedger(l, h),
           NEW w \in Wallets, IsCurrent(l, w, h),
           NEW positions \in [Markets -> Position], NEW open \in SUBSET Markets,
           NEW base \in [Markets -> Int],
           \A m \in Markets :
              /\ m \in open <=> positions[m].balance # 0
              /\ positions[m].balance = l.position[w][m].balance + base[m]
              /\ positions[m].lastUpdate <= Len(h[m])
              /\ positions[m].balance # 0 => positions[m].lastUpdate = Len(h[m])
    PROVE  Moves(l, SetPositions(l, w, positions, open), h, 0, base)
<1> DEFINE k == SetPositions(l, w, positions, open)
<1>1. SoundLedger(l) /\ SoundLedger(k)
  BY SetPositionsSound DEF DatedLedger
<1>2. k.quote = l.quote /\ k.position[w] = positions /\ k.open[w] = open
  BY <1>1 DEF SetPositions, SoundLedger, Ledger
<1>3. \A v \in Wallets \ {w} : k.position[v] = l.position[v] /\ k.open[v] = l.open[v]
  BY <1>1 DEF SetPositions, SoundLedger, Ledger
<1> HIDE DEF k
<1>4. DatedLedger(k, h)
  <2>1. ASSUME NEW v \in Wallets, NEW m \in Markets
        PROVE  k.position[v][m].lastUpdate <= Len(h[m])
    <3>1. CASE v = w
      BY <1>2, <3>1
    <3>2. CASE v # w
      BY <1>3, <3>2 DEF DatedLedger, IsDated
    <3> QED BY <3>1, <3>2
  <2> QED BY <1>1, <2>1 DEF DatedLedger, IsDated
<1>5. DifferOnlyFor(l, k, w)
  BY <1>2, <1>3 DEF DifferOnlyFor
<1>6. IsCurrent(k, w, h)
  BY <1>2 DEF IsCurrent
<1>7. Worth(k, w, h) = Worth(l, w, h) + 0
  <2>1. OutstandingWalletFunding(k, w, h) = 0 /\ OutstandingWalletFunding(l, w, h) = 0
    BY <1>1, <1>6, CurrentOwesNothing
  <2>2. l.quote[w] \in Int /\ k.quote[w] = l.quote[w]
    BY <1>1, <1>2, LedgerTypes
  <2> QED BY <2>1, <2>2 DEF Worth
<1>8. \A m \in Markets : k.position[w][m].balance = l.position[w][m].balance + base[m]
  BY <1>2
<1>9. Moves(l, k, h, 0, base)
  <2>1. 0 \in Int
    OBVIOUS
  <2> QED BY <2>1, <1>4, <1>5, <1>6, <1>7, <1>8, OneWalletMoves
<1>10. QED
  BY <1>9 DEF k

\* The same for a single position.
LEMMA SetPositionMoves ==
    ASSUME NEW l, NEW h \in [Markets -> Seq(Int)], DatedLedger(l, h),
           NEW w \in Wallets, IsCurrent(l, w, h), NEW m \in Markets,
           NEW p \in Position, p.lastUpdate <= Len(h[m]),
           p.balance # 0 => p.lastUpdate = Len(h[m])
    PROVE  Moves(l, SetPosition(l, w, m, p), h, 0, Only(m, p.balance - l.position[w][m].balance))
<1> DEFINE positions == [l.position[w] EXCEPT ![m] = p]
           open      == IF p.balance = 0 THEN l.open[w] \ {m} ELSE l.open[w] \cup {m}
           change    == p.balance - l.position[w][m].balance
<1>1. SoundLedger(l) /\ p.balance \in Int
  BY DEF DatedLedger, Position
<1>2. positions \in [Markets -> Position] /\ open \in SUBSET Markets
  BY <1>1 DEF SoundLedger, Ledger
<1>3. \A x \in Markets : positions[x] = IF x = m THEN p ELSE l.position[w][x]
  BY <1>1 DEF SoundLedger, Ledger
<1>4. change \in Int /\ l.position[w][m].balance + change = p.balance
  BY <1>1, LedgerTypes
<1>5. Only(m, change) \in [Markets -> Int]
  BY <1>4 DEF Only
<1>6. ASSUME NEW x \in Markets
      PROVE  /\ x \in open <=> positions[x].balance # 0
             /\ positions[x].balance = l.position[w][x].balance + Only(m, change)[x]
             /\ positions[x].lastUpdate <= Len(h[x])
             /\ positions[x].balance # 0 => positions[x].lastUpdate = Len(h[x])
  <2>1. CASE x = m
    <3>1. positions[x] = p /\ Only(m, change)[x] = change
      BY <1>3, <2>1 DEF Only
    <3>2. x \in open <=> p.balance # 0
      BY <2>1
    <3> HIDE DEF positions, open, change
    <3> QED BY <1>4, <2>1, <3>1, <3>2
  <2>2. CASE x # m
    <3>1. positions[x] = l.position[w][x] /\ Only(m, change)[x] = 0
      BY <1>3, <2>2 DEF Only
    <3>2. x \in open <=> x \in l.open[w]
      BY <2>2
    <3>3. l.position[w][x].balance \in Int /\ (x \in l.open[w] <=> l.position[w][x].balance # 0)
      BY <1>1, LedgerTypes
    <3> HIDE DEF positions, open, change
    <3> QED BY <3>1, <3>2, <3>3 DEF DatedLedger, IsDated, IsCurrent
  <2> QED BY <2>1, <2>2
<1>7. Moves(l, SetPositions(l, w, positions, open), h, 0, Only(m, change))
  <2> HIDE DEF positions, open, change
  <2> QED BY <1>2, <1>5, <1>6, SetPositionsMoves
<1>8. QED
  BY <1>7 DEF SetPosition

\* A moved position is up to date if it was, and when it is opened.
LEMMA MovedPositionTime ==
    ASSUME NEW p \in Position, NEW delta \in Int, NEW quote \in Int, NEW n \in Nat,
           p.lastUpdate <= n, p.balance # 0 => p.lastUpdate = n
    PROVE  LET moved == MovedPosition(p, delta, quote, n)
           IN  moved.lastUpdate <= n /\ (moved.balance # 0 => moved.lastUpdate = n)
BY DEF MovedPosition, ZeroPosition, Position

\* The history's lengths, as the handlers pass them on.
Lengths(h) == [m \in Markets |-> Len(h[m])]

\* What a wallet pays for its base.
Price(delta, quote) == IF delta > 0 THEN -quote ELSE quote

\* Buying or selling base moves both by the given quantities.
LEMMA ExchangeBaseMoves ==
    ASSUME NEW l, NEW h \in [Markets -> Seq(Int)], DatedLedger(l, h),
           NEW w \in Wallets, IsCurrent(l, w, h), NEW m \in Markets,
           NEW delta \in Int, NEW quote \in Int
    PROVE  Moves(l, ExchangeBase(l, w, m, delta, quote, Lengths(h)), h,
                 Price(delta, quote), Only(m, delta))
<1> DEFINE old   == l.position[w][m]
           n     == Len(h[m])
           p     == MovedPosition(old, delta, quote, n)
           moved == SetPosition(l, w, m, p)
           price == Price(delta, quote)
<1>1. SoundLedger(l) /\ n \in Nat /\ Lengths(h)[m] = n
  BY HistoryTypes DEF DatedLedger, Lengths
<1>2. old \in Position /\ old.balance \in Int
  BY <1>1, LedgerTypes
<1>3. old.lastUpdate <= n /\ (old.balance # 0 => old.lastUpdate = n)
  BY DEF DatedLedger, IsDated, IsCurrent
<1>4. p \in Position /\ p.balance = old.balance + delta
  <2> HIDE DEF old, n
  <2> QED BY <1>1, <1>2, MovedPositionType
<1>5. p.lastUpdate <= n /\ (p.balance # 0 => p.lastUpdate = n)
  <2> HIDE DEF old, n
  <2> QED BY <1>1, <1>2, <1>3, MovedPositionTime
<1>6. p.balance - old.balance = delta
  <2> HIDE DEF p, old
  <2> QED BY <1>2, <1>4
<1>7. Moves(l, moved, h, 0, Only(m, delta))
  <2> HIDE DEF p
  <2>1. Moves(l, moved, h, 0, Only(m, p.balance - l.position[w][m].balance))
    BY <1>4, <1>5, SetPositionMoves
  <2> QED BY <1>6, <2>1
<1>8. price \in Int
  BY DEF Price
<1>9. ExchangeBase(l, w, m, delta, quote, Lengths(h)) = AddQuote(moved, w, price)
  BY <1>1 DEF ExchangeBase, Price
<1> HIDE DEF moved, price
<1>10. Moves(moved, AddQuote(moved, w, price), h, price, Nothing)
  BY <1>7, <1>8, AddQuoteMoves DEF Moves
<1>11. /\ 0 \in Int /\ 0 + price = price
       /\ Only(m, delta) \in [Markets -> Int] /\ Nothing \in [Markets -> Int]
       /\ \A x \in Markets : Only(m, delta)[x] = Only(m, delta)[x] + Nothing[x]
  BY <1>8 DEF Only, Nothing
<1>12. Moves(l, AddQuote(moved, w, price), h, 0 + price, Only(m, delta))
  BY <1>1, <1>7, <1>8, <1>10, <1>11, MovesAddUp
<1>13. QED
  BY <1>9, <1>11, <1>12 DEF price

\* Adding to quote balances afterwards moves only quote.
LEMMA MovesQuote ==
    ASSUME NEW l, NEW k, NEW h \in [Markets -> Seq(Int)], SoundLedger(l),
           NEW moved \in Int, NEW base \in [Markets -> Int], Moves(l, k, h, moved, base),
           NEW w \in Wallets, NEW quantity \in Int
    PROVE  Moves(l, AddQuote(k, w, quantity), h, moved + quantity, base)
<1>1. Moves(k, AddQuote(k, w, quantity), h, quantity, Nothing)
  BY AddQuoteMoves DEF Moves
<1>2. Nothing \in [Markets -> Int] /\ \A x \in Markets : base[x] = base[x] + Nothing[x]
  BY DEF Nothing
<1>3. QED
  BY <1>1, <1>2, MovesAddUp

\* A trade moves nothing: what the buyer pays, the seller and the fee wallet get.
LEMMA UpdateForTradeMoves ==
    ASSUME NEW l, NEW h \in [Markets -> Seq(Int)], DatedLedger(l, h),
           NEW buyer \in Wallets, NEW seller \in Wallets, NEW feeWallet \in Wallets,
           IsCurrent(l, buyer, h), IsCurrent(l, seller, h),
           NEW m \in Markets, NEW base \in Nat \ {0}, NEW quote \in Int,
           NEW buyFee \in Int, NEW sellFee \in Int
    PROVE  Moves(l, UpdateForTrade(l, buyer, seller, m, base, quote, buyFee, sellFee,
                                   feeWallet, Lengths(h)), h, 0, Nothing)
<1> DEFINE a == ExchangeBase(l, seller, m, -base, quote, Lengths(h))
           b == AddQuote(a, seller, -sellFee)
           c == ExchangeBase(b, buyer, m, base, quote, Lengths(h))
           d == AddQuote(c, buyer, -buyFee)
           e == AddQuote(d, feeWallet, buyFee + sellFee)
<1>1. /\ SoundLedger(l) /\ -base \in Int /\ base \in Int
      /\ Price(-base, quote) = quote /\ Price(base, quote) = -quote
      /\ -sellFee \in Int /\ -buyFee \in Int /\ buyFee + sellFee \in Int
      /\ quote - sellFee \in Int /\ -quote \in Int /\ -sellFee - buyFee \in Int
  BY DEF DatedLedger, Price
<1>2. /\ Only(m, -base) \in [Markets -> Int] /\ Only(m, base) \in [Markets -> Int]
      /\ Nothing \in [Markets -> Int]
      /\ \A x \in Markets : Nothing[x] = Only(m, -base)[x] + Only(m, base)[x]
  BY <1>1 DEF Only, Nothing
<1>3. Moves(l, a, h, quote, Only(m, -base))
  BY <1>1, ExchangeBaseMoves
<1> HIDE DEF a
<1>4. Moves(l, b, h, quote + (-sellFee), Only(m, -base))
  BY <1>1, <1>2, <1>3, MovesQuote
<1> HIDE DEF b
<1>5. Moves(b, c, h, -quote, Only(m, base))
  <2>1. DatedLedger(b, h) /\ IsCurrent(b, buyer, h)
    BY <1>4 DEF Moves
  <2> QED BY <1>1, <2>1, ExchangeBaseMoves
<1> HIDE DEF c
<1>6. Moves(l, c, h, -sellFee, Nothing)
  <2>1. quote + (-sellFee) \in Int /\ (quote + (-sellFee)) + (-quote) = -sellFee
    BY <1>1
  <2>2. Moves(l, c, h, (quote + (-sellFee)) + (-quote), Nothing)
    BY <1>1, <1>2, <1>4, <1>5, <2>1, MovesAddUp
  <2> QED BY <2>1, <2>2
<1>7. Moves(l, d, h, -sellFee + (-buyFee), Nothing)
  BY <1>1, <1>2, <1>6, MovesQuote
<1> HIDE DEF d
<1>8. Moves(l, e, h, 0, Nothing)
  <2>1. -sellFee + (-buyFee) \in Int /\ (-sellFee + (-buyFee)) + (buyFee + sellFee) = 0
    BY <1>1
  <2>2. Moves(l, e, h, (-sellFee + (-buyFee)) + (buyFee + sellFee), Nothing)
    BY <1>1, <1>2, <1>7, <2>1, MovesQuote
  <2> QED BY <2>1, <2>2
<1>9. QED
  BY <1>8 DEF UpdateForTrade, a, b, c, d

\* Adding to quote balances only.
LEMMA QuoteAdds ==
    ASSUME NEW l, NEW h \in [Markets -> Seq(Int)], DatedLedger(l, h),
           NEW v \in Wallets, NEW w \in Wallets, NEW first \in Int, NEW second \in Int
    PROVE  Moves(l, AddQuote(AddQuote(l, v, first), w, second), h, first + second, Nothing)
<1>1. Moves(l, AddQuote(l, v, first), h, first, Nothing)
  BY AddQuoteMoves
<1>2. SoundLedger(l) /\ Nothing \in [Markets -> Int]
  BY DEF DatedLedger, Nothing
<1>3. QED
  BY <1>1, <1>2, MovesQuote

\* A transfer moves nothing: the source pays the destination and the fee wallet.
LEMMA UpdateForTransferMoves ==
    ASSUME NEW l, NEW h \in [Markets -> Seq(Int)], DatedLedger(l, h),
           NEW source \in Wallets, NEW destination \in Wallets, NEW feeWallet \in Wallets,
           NEW grossQuantity \in Int, NEW gasFee \in Int
    PROVE  Moves(l, UpdateForTransfer(l, source, destination, grossQuantity, gasFee, feeWallet),
                 h, 0, Nothing)
<1> DEFINE k == AddQuote(AddQuote(l, source, -grossQuantity), destination, grossQuantity - gasFee)
<1>1. /\ -grossQuantity \in Int /\ grossQuantity - gasFee \in Int
      /\ -grossQuantity + (grossQuantity - gasFee) = -gasFee /\ -gasFee \in Int
      /\ -gasFee + gasFee = 0
      /\ SoundLedger(l) /\ Nothing \in [Markets -> Int]
  BY DEF DatedLedger, Nothing
<1>2. Moves(l, k, h, -gasFee, Nothing)
  <2>1. Moves(l, k, h, -grossQuantity + (grossQuantity - gasFee), Nothing)
    BY <1>1, QuoteAdds
  <2> QED BY <1>1, <2>1
<1> HIDE DEF k
<1>3. Moves(l, AddQuote(k, feeWallet, gasFee), h, -gasFee + gasFee, Nothing)
  BY <1>1, <1>2, MovesQuote
<1>4. QED
  BY <1>1, <1>3 DEF UpdateForTransfer, k

\* A withdrawal takes what the wallet receives.
LEMMA UpdateForWithdrawalMoves ==
    ASSUME NEW l, NEW h \in [Markets -> Seq(Int)], DatedLedger(l, h),
           NEW w \in Wallets, NEW feeWallet \in Wallets,
           NEW grossQuantity \in Int, NEW gasFee \in Int
    PROVE  Moves(l, UpdateForWithdrawal(l, w, grossQuantity, gasFee, feeWallet), h,
                 -grossQuantity + gasFee, Nothing)
<1>1. -grossQuantity \in Int
  OBVIOUS
<1>2. QED
  BY <1>1, QuoteAdds DEF UpdateForWithdrawal

\* Sweeping a liquidated wallet's quote moves nothing.
LEMMA UpdateRemainingQuoteMoves ==
    ASSUME NEW l, NEW h \in [Markets -> Seq(Int)], DatedLedger(l, h),
           NEW w \in Wallets, NEW counterparty \in Wallets
    PROVE  Moves(l, UpdateRemainingQuoteAfterLiquidation(l, w, counterparty), h, 0, Nothing)
<1> DEFINE q == l.quote[w]
<1>1. q \in Int /\ SoundLedger(l)
  BY LedgerTypes DEF DatedLedger
<1> HIDE DEF q
<1>2. 0 - q \in Int /\ (0 - q) + q = 0 /\ 0 \in Int /\ Nothing \in [Markets -> Int]
  BY <1>1 DEF Nothing
<1>3. Moves(l, SetQuote(l, w, 0), h, 0 - q, Nothing)
  BY <1>2, SetQuoteMoves DEF q
<1>4. Moves(l, AddQuote(SetQuote(l, w, 0), counterparty, q), h, (0 - q) + q, Nothing)
  BY <1>1, <1>2, <1>3, MovesQuote
<1>5. QED
  BY <1>2, <1>4 DEF UpdateRemainingQuoteAfterLiquidation, q

\* What one wallet gives up, the counterparty takes on, and pays for.
LEMMA UpdatePositionsForDeleverageMoves ==
    ASSUME NEW l, NEW h \in [Markets -> Seq(Int)], DatedLedger(l, h),
           NEW w \in Wallets, NEW counterparty \in Wallets,
           IsCurrent(l, w, h), IsCurrent(l, counterparty, h),
           NEW m \in Markets, NEW base \in Nat \ {0}, NEW quote \in Int
    PROVE  Moves(l, UpdatePositionsForDeleverage(l, w, counterparty, m, base, quote, Lengths(h)),
                 h, 0, Nothing)
<1> DEFINE delta == ClosingDelta(l, w, m, base)
           a     == ExchangeBase(l, w, m, delta, quote, Lengths(h))
           b     == ExchangeBase(a, counterparty, m, -delta, quote, Lengths(h))
<1>1. delta \in Int /\ delta # 0
  BY DEF ClosingDelta
<1> HIDE DEF delta
<1>2. /\ -delta \in Int /\ SoundLedger(l)
      /\ Price(delta, quote) \in Int /\ Price(-delta, quote) \in Int
      /\ Price(delta, quote) + Price(-delta, quote) = 0
  BY <1>1 DEF DatedLedger, Price
<1>3. /\ Only(m, delta) \in [Markets -> Int] /\ Only(m, -delta) \in [Markets -> Int]
      /\ \A x \in Markets : Nothing[x] = Only(m, delta)[x] + Only(m, -delta)[x]
  BY <1>1 DEF Only, Nothing
<1>4. Moves(l, a, h, Price(delta, quote), Only(m, delta))
  BY <1>1, ExchangeBaseMoves
<1> HIDE DEF a
<1>5. Moves(a, b, h, Price(-delta, quote), Only(m, -delta))
  <2>1. DatedLedger(a, h) /\ IsCurrent(a, counterparty, h)
    BY <1>4 DEF Moves
  <2> QED BY <1>2, <2>1, ExchangeBaseMoves
<1> HIDE DEF b
<1>6. Moves(l, b, h, Price(delta, quote) + Price(-delta, quote), Nothing)
  BY <1>2, <1>3, <1>4, <1>5, MovesAddUp
<1>7. QED
  BY <1>2, <1>6 DEF UpdatePositionsForDeleverage, delta, a, b

\* A closure without a counterparty takes the position out of its market's sum.
LEMMA UpdateForDeactivatedMarketMoves ==
    ASSUME NEW l, NEW h \in [Markets -> Seq(Int)], DatedLedger(l, h),
           NEW w \in Wallets, IsCurrent(l, w, h), NEW m \in Markets,
           NEW quote \in Int, NEW fee \in Int, NEW feeWallet \in Wallets
    PROVE  \E moved \in Int :
              Moves(l, UpdateForDeactivatedMarketLiquidation(l, w, m, quote, fee, feeWallet), h,
                    moved, Only(m, -l.position[w][m].balance))
<1> DEFINE size   == l.position[w][m].balance
           closed == SetPosition(l, w, m, ZeroPosition)
           paid   == IF size < 0 THEN -(quote + fee) ELSE quote - fee
<1>1. SoundLedger(l) /\ size \in Int /\ Len(h[m]) \in Nat
  BY LedgerTypes, HistoryTypes DEF DatedLedger
<1>2. /\ ZeroPosition \in Position /\ ZeroPosition.balance = 0
      /\ ZeroPosition.lastUpdate <= Len(h[m])
  BY <1>1 DEF ZeroPosition, Position
<1>3. 0 - size = -size /\ paid \in Int /\ 0 + paid \in Int /\ 0 + paid + fee \in Int /\ 0 \in Int
  BY <1>1
<1>4. Only(m, -size) \in [Markets -> Int]
  BY <1>1 DEF Only
<1>5. Moves(l, closed, h, 0, Only(m, -size))
  <2>1. Moves(l, closed, h, 0, Only(m, ZeroPosition.balance - l.position[w][m].balance))
    BY <1>2, SetPositionMoves
  <2> QED BY <1>2, <1>3, <2>1
<1>6. UpdateForDeactivatedMarketLiquidation(l, w, m, quote, fee, feeWallet)
        = AddQuote(AddQuote(closed, w, paid), feeWallet, fee)
  BY DEF UpdateForDeactivatedMarketLiquidation
<1> HIDE DEF closed, paid
<1>7. Moves(l, AddQuote(closed, w, paid), h, 0 + paid, Only(m, -size))
  <2> HIDE DEF size
  <2> QED BY <1>1, <1>3, <1>4, <1>5, MovesQuote
<1>8. Moves(l, AddQuote(AddQuote(closed, w, paid), feeWallet, fee), h, 0 + paid + fee, Only(m, -size))
  <2> HIDE DEF size
  <2> QED BY <1>1, <1>3, <1>4, <1>7, MovesQuote
<1>9. QED
  BY <1>3, <1>6, <1>8

\* Taking over positions moves nothing, even if a wallet takes over its own.
LEMMA AcquirePositionsMoves ==
    ASSUME NEW l, NEW h \in [Markets -> Seq(Int)], DatedLedger(l, h),
           NEW w \in Wallets, NEW acquirer \in Wallets,
           IsCurrent(l, w, h), IsCurrent(l, acquirer, h),
           NEW quoteFor \in [Markets -> Int]
    PROVE  Moves(l, AcquirePositions(l, w, acquirer, quoteFor, Lengths(h)), h, 0, Nothing)
<1> DEFINE closed   == l.open[w]
           zeroed   == [m \in Markets |-> IF m \in closed THEN ZeroPosition
                                                         ELSE l.position[w][m]]
           emptied  == SetPositions(l, w, zeroed, {})
           moved(m) == MovedPosition(emptied.position[acquirer][m], l.position[w][m].balance,
                                     quoteFor[m], Lengths(h)[m])
           acquired == [m \in Markets |-> IF m \in closed THEN moved(m)
                                           ELSE emptied.position[acquirer][m]]
           open     == (emptied.open[acquirer] \ closed)
                         \cup {m \in closed : acquired[m].balance # 0}
           given    == [m \in Markets |-> -l.position[w][m].balance]
           taken    == [m \in Markets |-> l.position[w][m].balance]
<1>1. SoundLedger(l) /\ closed \in SUBSET Markets
  BY LedgerTypes DEF DatedLedger
<1>2. ASSUME NEW m \in Markets
      PROVE  /\ l.position[w][m] \in Position /\ l.position[w][m].balance \in Int
             /\ m \in closed <=> l.position[w][m].balance # 0
             /\ l.position[w][m].lastUpdate <= Len(h[m])
             /\ Len(h[m]) \in Nat /\ Lengths(h)[m] = Len(h[m])
  BY <1>1, LedgerTypes, HistoryTypes DEF DatedLedger, IsDated, Lengths
<1>3. given \in [Markets -> Int] /\ taken \in [Markets -> Int]
  BY <1>2
<1>4. ZeroPosition \in Position /\ ZeroPosition.balance = 0 /\ ZeroPosition.lastUpdate = 0
  BY DEF ZeroPosition, Position
<1>5. \A m \in Markets : Nothing[m] = given[m] + taken[m]
  BY <1>2 DEF Nothing
<1>6. Moves(l, emptied, h, 0, given)
  <2>1. zeroed \in [Markets -> Position] /\ {} \in SUBSET Markets
    BY <1>2, <1>4
  <2>2. ASSUME NEW m \in Markets
        PROVE  /\ m \in {} <=> zeroed[m].balance # 0
               /\ zeroed[m].balance = l.position[w][m].balance + given[m]
               /\ zeroed[m].lastUpdate <= Len(h[m])
               /\ zeroed[m].balance # 0 => zeroed[m].lastUpdate = Len(h[m])
    BY <1>2, <1>4
  <2> HIDE DEF zeroed, given
  <2> QED BY <1>3, <2>1, <2>2, SetPositionsMoves
<1> HIDE DEF zeroed, emptied, closed, given
<1>7. /\ DatedLedger(emptied, h) /\ SoundLedger(emptied) /\ IsCurrent(emptied, acquirer, h)
      /\ emptied.open[acquirer] \in SUBSET Markets
  BY <1>6, LedgerTypes DEF Moves, DatedLedger
<1>8. ASSUME NEW m \in Markets
      PROVE  /\ emptied.position[acquirer][m] \in Position
             /\ emptied.position[acquirer][m].balance \in Int
             /\ m \in emptied.open[acquirer] <=> emptied.position[acquirer][m].balance # 0
             /\ emptied.position[acquirer][m].lastUpdate <= Len(h[m])
             /\ emptied.position[acquirer][m].balance # 0 =>
                  emptied.position[acquirer][m].lastUpdate = Len(h[m])
             /\ quoteFor[m] \in Int
  BY <1>7, LedgerTypes DEF DatedLedger, IsDated, IsCurrent
<1>9. ASSUME NEW m \in Markets
      PROVE  /\ moved(m) \in Position
             /\ moved(m).balance = emptied.position[acquirer][m].balance + l.position[w][m].balance
             /\ moved(m).lastUpdate <= Len(h[m])
             /\ moved(m).balance # 0 => moved(m).lastUpdate = Len(h[m])
  <2> DEFINE p == emptied.position[acquirer][m]
             q == MovedPosition(p, l.position[w][m].balance, quoteFor[m], Len(h[m]))
  <2>1. moved(m) = q
    BY <1>2
  <2>2. /\ p \in Position /\ l.position[w][m].balance \in Int /\ quoteFor[m] \in Int
        /\ Len(h[m]) \in Nat /\ p.lastUpdate <= Len(h[m])
        /\ p.balance # 0 => p.lastUpdate = Len(h[m])
    BY <1>2, <1>8
  <2> HIDE DEF p, moved
  <2>3. q \in Position /\ q.balance = p.balance + l.position[w][m].balance
    BY <2>2, MovedPositionType
  <2>4. q.lastUpdate <= Len(h[m]) /\ (q.balance # 0 => q.lastUpdate = Len(h[m]))
    BY <2>2, MovedPositionTime
  <2> HIDE DEF q
  <2> QED BY <2>1, <2>3, <2>4 DEF p
<1> HIDE DEF moved
<1>10. Moves(emptied, SetPositions(emptied, acquirer, acquired, open), h, 0, taken)
  <2>1. acquired \in [Markets -> Position] /\ open \in SUBSET Markets
    BY <1>1, <1>7, <1>8, <1>9
  <2>2. ASSUME NEW m \in Markets
        PROVE  /\ m \in open <=> acquired[m].balance # 0
               /\ acquired[m].balance = emptied.position[acquirer][m].balance + taken[m]
               /\ acquired[m].lastUpdate <= Len(h[m])
               /\ acquired[m].balance # 0 => acquired[m].lastUpdate = Len(h[m])
    <3>1. CASE m \in closed
      BY <1>9, <3>1
    <3>2. CASE m \notin closed
      <4>1. /\ acquired[m] = emptied.position[acquirer][m]
            /\ m \in open <=> m \in emptied.open[acquirer]
        BY <3>2
      <4>2. taken[m] = 0 /\ emptied.position[acquirer][m].balance + 0
                              = emptied.position[acquirer][m].balance
        BY <1>2, <1>8, <3>2
      <4> HIDE DEF acquired, open, taken
      <4> QED BY <1>8, <4>1, <4>2
    <3> QED BY <3>1, <3>2
  <2> HIDE DEF acquired, open, taken
  <2> QED BY <1>3, <1>7, <2>1, <2>2, SetPositionsMoves
<1>11. Moves(l, SetPositions(emptied, acquirer, acquired, open), h, 0, Nothing)
  <2>1. \A m \in Markets : given[m] + taken[m] = 0
    BY <1>5 DEF Nothing
  <2> HIDE DEF acquired, open, taken
  <2> QED BY <1>1, <1>3, <1>6, <1>10, <2>1, MovesCancel, SMTT(30)
<1>12. QED
  BY <1>11 DEF AcquirePositions, acquired, open, moved, emptied, zeroed, closed

\* A liquidation moves nothing: the counterparty pays for what it takes over.
LEMMA UpdatePositionsForLiquidationMoves ==
    ASSUME NEW l, NEW h \in [Markets -> Seq(Int)], DatedLedger(l, h),
           NEW w \in Wallets, NEW counterparty \in Wallets,
           IsCurrent(l, w, h), IsCurrent(l, counterparty, h),
           NEW quoteFor \in [Markets -> Int]
    PROVE  Moves(l, UpdatePositionsForLiquidation(l, w, counterparty, quoteFor, Lengths(h)), h,
                 0, Nothing)
<1> DEFINE change   == AcquisitionQuoteChange(l, w, quoteFor)
           acquired == AcquirePositions(l, w, counterparty, quoteFor, Lengths(h))
<1>1. SoundLedger(l) /\ change \in Int
  BY AcquisitionQuoteChangeType DEF DatedLedger
<1>2. Moves(l, acquired, h, 0, Nothing)
  BY AcquirePositionsMoves
<1> HIDE DEF change, acquired
<1>3. /\ 0 \in Int /\ -change \in Int /\ 0 + (-change) \in Int /\ 0 + (-change) + change = 0
      /\ Nothing \in [Markets -> Int]
  BY <1>1 DEF Nothing
<1>4. Moves(l, AddQuote(acquired, w, -change), h, 0 + (-change), Nothing)
  BY <1>1, <1>2, <1>3, MovesQuote
<1>5. Moves(l, AddQuote(AddQuote(acquired, w, -change), counterparty, change), h,
            0 + (-change) + change, Nothing)
  BY <1>1, <1>3, <1>4, MovesQuote
<1>6. QED
  BY <1>3, <1>5 DEF UpdatePositionsForLiquidation, change, acquired

-----------------------------------------------------------------------------
(* Funding. *)

\* Settling a wallet's funding leaves its worth as it is and nothing outstanding.
LEMMA FundingMoves ==
    ASSUME NEW l, NEW h \in [Markets -> Seq(Int)], DatedLedger(l, h), NEW w \in Wallets
    PROVE  /\ Moves(l, ApplyOutstandingWalletFunding(l, w, h), h, 0, Nothing)
           /\ IsCurrent(ApplyOutstandingWalletFunding(l, w, h), w, h)
<1> DEFINE due    == OutstandingWalletFunding(l, w, h)
           funded == [m \in Markets |-> IF m \in l.open[w]
                                        THEN FundedPosition(l.position[w][m], Len(h[m]))
                                        ELSE l.position[w][m]]
           k      == ApplyOutstandingWalletFunding(l, w, h)
<1>1. SoundLedger(l) /\ due \in Int /\ l.quote[w] \in Int
  BY OutstandingFundingType, LedgerTypes DEF DatedLedger
<1>2. SoundLedger(k)
  BY <1>1, FundingSound
<1>3. k = AddQuote(SetPositions(l, w, funded, l.open[w]), w, due)
  BY DEF ApplyOutstandingWalletFunding
<1>4. /\ k.quote[w] = l.quote[w] + due /\ k.position[w] = funded
      /\ DifferOnlyFor(l, k, w)
  <2> HIDE DEF funded, due, k
  <2> QED BY <1>1, <1>3
          DEF DifferOnlyFor, AddQuote, SetQuote, SetPositions, SoundLedger, Ledger
<1>5. ASSUME NEW m \in Markets
      PROVE  /\ funded[m].balance = l.position[w][m].balance
             /\ l.position[w][m].balance \in Int
             /\ funded[m].lastUpdate <= Len(h[m])
             /\ funded[m].balance # 0 => funded[m].lastUpdate = Len(h[m])
  <2>1. /\ l.position[w][m] \in Position /\ l.position[w][m].balance \in Int
        /\ l.position[w][m].lastUpdate \in Nat
        /\ m \in l.open[w] <=> l.position[w][m].balance # 0
        /\ l.position[w][m].lastUpdate <= Len(h[m]) /\ Len(h[m]) \in Nat
    BY <1>1, LedgerTypes, HistoryTypes DEF DatedLedger, IsDated
  <2>2. FundedPosition(l.position[w][m], Len(h[m])).balance = l.position[w][m].balance
    BY <2>1, FundedPositionType
  <2> QED BY <2>1, <2>2 DEF FundedPosition
<1> HIDE DEF k, due, funded
<1>6. DatedLedger(k, h)
  <2>1. ASSUME NEW v \in Wallets, NEW m \in Markets
        PROVE  k.position[v][m].lastUpdate <= Len(h[m])
    <3>1. CASE v = w
      BY <1>4, <1>5, <3>1
    <3>2. CASE v # w
      BY <1>4, <3>2 DEF DatedLedger, IsDated, DifferOnlyFor
    <3> QED BY <3>1, <3>2
  <2> QED BY <1>2, <2>1 DEF DatedLedger, IsDated
<1>7. IsCurrent(k, w, h)
  BY <1>4, <1>5 DEF IsCurrent
<1>8. Worth(k, w, h) = Worth(l, w, h) + 0
  <2>1. OutstandingWalletFunding(k, w, h) = 0
    BY <1>2, <1>7, CurrentOwesNothing
  <2> QED BY <1>1, <1>4, <2>1 DEF Worth, due
<1>9. \A m \in Markets : k.position[w][m].balance = l.position[w][m].balance + Nothing[m]
  BY <1>4, <1>5 DEF Nothing
<1>10. Moves(l, k, h, 0, Nothing)
  <2>1. 0 \in Int /\ Nothing \in [Markets -> Int]
    BY DEF Nothing
  <2> QED BY <2>1, <1>4, <1>6, <1>7, <1>8, <1>9, OneWalletMoves
<1>11. QED
  BY <1>7, <1>10 DEF k

\* The payments for n periods after the given one, as terms of a sum.
Payments(s, size, since, n) == [i \in 1..n |-> QuoteValue(size, s[since + i])]

\* They are integers as far as the history goes.
LEMMA PaymentsType ==
    ASSUME NEW s \in Seq(Int), NEW size \in Int, NEW since \in Nat, NEW n \in Nat,
           since + n <= Len(s), NEW i \in 1..n
    PROVE  Payments(s, size, since, n)[i] \in Int
<1>1. Len(s) \in Nat
  BY LenProperties
<1>2. since + i \in 1..Len(s)
  BY <1>1
<1>3. s[since + i] \in Int
  BY <1>2, ElementOfSeq
<1>4. QED
  BY <1>3, QuoteValueType DEF Payments

\* What a position settles is the sum of the payments since its last update.
LEMMA FundingPaymentIsSum ==
    ASSUME NEW p \in Position, NEW s \in Seq(Int), NEW last \in Nat, last <= Len(s),
           p.balance # 0, p.lastUpdate <= last
    PROVE  FundingPayment(p, s, last)
             = SumTo(Payments(s, p.balance, p.lastUpdate, last - p.lastUpdate),
                     last - p.lastUpdate)
<1> DEFINE since == p.lastUpdate
           size  == p.balance
           n     == last - since
           terms == Payments(s, size, since, n)
<1>1. since \in Nat /\ size \in Int /\ size # 0 /\ since <= last
  BY DEF Position
<1>2. n \in Nat /\ since + n = last
  <2> HIDE DEF since
  <2> QED BY <1>1
<1>3. CASE since < last
  <2> DEFINE first == since + 1
             f     == [i \in 1..(last - first + 1) |-> QuoteValue(size, s[first + i - 1])]
  <2>1. last - first + 1 = n
    <3> HIDE DEF since
    <3> QED BY <1>1
  <2>2. ASSUME NEW i \in 1..n
        PROVE  terms[i] \in Int /\ f[i] = terms[i]
    <3>1. first + i - 1 = since + i
      <4> HIDE DEF since
      <4> QED BY <1>1, <1>2
    <3>2. terms[i] \in Int
      <4> HIDE DEF since, size, n
      <4> QED BY <1>1, <1>2, PaymentsType
    <3>3. f[i] = QuoteValue(size, s[since + i])
      <4> HIDE DEF since, size, n, first
      <4> QED BY <2>1, <3>1
    <3>4. terms[i] = QuoteValue(size, s[since + i])
      <4> HIDE DEF since, size, n
      <4> QED BY DEF Payments
    <3> QED BY <3>2, <3>3, <3>4
  <2>3. FundingPayment(p, s, last) = SumTo(f, last - first + 1)
    BY <1>1, <1>3 DEF FundingPayment, AggregatePayment
  <2>4. FundingPayment(p, s, last) = SumTo(f, n)
    <3> HIDE DEF f, n, first
    <3> QED BY <2>1, <2>3
  <2>5. SumTo(f, n) = SumTo(terms, n)
    <3> HIDE DEF f, n, terms
    <3> QED BY <1>2, <2>2, SumToEqual
  <2> QED BY <2>4, <2>5
<1>4. CASE since = last
  <2>1. n = 0
    BY <1>1, <1>4
  <2>2. SumTo(terms, 0) = 0
    BY SumToZero
  <2>3. FundingPayment(p, s, last) = 0
    BY <1>1, <1>4 DEF FundingPayment
  <2> QED
    <3> HIDE DEF terms, n
    <3>1. SumTo(terms, n) = 0
      BY <2>1, <2>2
    <3> QED BY <2>3, <3>1 DEF terms, n
<1>5. QED
  BY <1>1, <1>3, <1>4

\* Settling a part first and the rest later settles the same.
LEMMA FundingPaymentSplits ==
    ASSUME NEW p \in Position, NEW s \in Seq(Int), NEW last \in Nat, last <= Len(s)
    PROVE  FundingPayment(p, s, Len(s))
             = FundingPayment(p, s, last) + FundingPayment(FundedPosition(p, last), s, Len(s))
<1> DEFINE since == p.lastUpdate
           size  == p.balance
           end   == Len(s)
           q     == FundedPosition(p, last)
<1>1. since \in Nat /\ size \in Int /\ end \in Nat /\ last <= end
  BY LenProperties DEF Position
<1>2. FundingPayment(p, s, end) \in Int
  BY <1>1, FundingPaymentType
<1>3. CASE ~(size # 0 /\ since < last)
  <2>1. q = p /\ FundingPayment(p, s, last) = 0
    BY <1>3 DEF FundedPosition, FundingPayment
  <2> QED BY <1>2, <2>1
<1>4. CASE size # 0 /\ since < last
  <2> DEFINE k     == last - since
             n     == end - last
             all   == Payments(s, size, since, end - since)
             part  == Payments(s, size, since, k)
             rest  == Payments(s, size, last, n)
  <2>1. q \in Position /\ q.balance = size /\ q.lastUpdate = last
    BY <1>4, FundedPositionType DEF FundedPosition
  <2>2. /\ FundingPayment(p, s, end) = SumTo(all, end - since)
        /\ FundingPayment(p, s, last) = SumTo(part, k)
        /\ FundingPayment(q, s, end) = SumTo(rest, n)
    <3>1. since <= end /\ since <= last /\ end <= end
      <4> HIDE DEF since, end
      <4> QED BY <1>1, <1>4
    <3>2. FundingPayment(p, s, end) = SumTo(all, end - since)
      BY <1>1, <1>4, <3>1, FundingPaymentIsSum
    <3>3. FundingPayment(p, s, last) = SumTo(part, k)
      BY <1>1, <1>4, <3>1, FundingPaymentIsSum
    <3>4. FundingPayment(q, s, end) = SumTo(rest, n)
      <4> HIDE DEF q
      <4> QED BY <1>1, <1>4, <2>1, FundingPaymentIsSum, SMTT(30)
    <3> QED BY <3>2, <3>3, <3>4
  <2> HIDE DEF since, size, end, q
  <2>3. k \in Nat /\ n \in Nat /\ end - since = k + n /\ since + k = last
    BY <1>1, <1>4
  <2>4. \A i \in 1..(k + n) : all[i] \in Int
    <3>1. since + (k + n) <= Len(s)
      BY <1>1, <2>3 DEF end
    <3>2. all = Payments(s, size, since, k + n) /\ k + n \in Nat
      BY <2>3
    <3> HIDE DEF all, k, n
    <3> QED BY <1>1, <3>1, <3>2, PaymentsType
  <2>5. ASSUME NEW i \in 1..k
        PROVE  part[i] = all[i]
    <3>1. i \in 1..(end - since)
      BY <1>1, <1>4
    <3> HIDE DEF k
    <3> QED BY <3>1 DEF Payments
  <2>6. ASSUME NEW i \in 1..n
        PROVE  rest[i] = all[k + i]
    <3>1. k + i \in 1..(end - since) /\ since + (k + i) = last + i
      BY <1>1, <1>4
    <3> HIDE DEF k, n
    <3> QED BY <3>1 DEF Payments
  <2> HIDE DEF all, part, rest, k, n
  <2>7. SumTo(all, k + n) = SumTo(all, k) + SumTo(rest, n)
    BY <2>3, <2>4, <2>6, SumToSplit
  <2>8. SumTo(part, k) = SumTo(all, k)
    <3>1. \A i \in 1..k : all[i] \in Int
      BY <2>3, <2>4
    <3> QED BY <2>3, <2>5, <3>1, SumToEqual
  <2> QED BY <2>2, <2>3, <2>7, <2>8 DEF end, q
<1>5. QED
  BY <1>3, <1>4

\* Settling part of one position's funding leaves its wallet's worth as it is.
LEMMA PartialFundingMoves ==
    ASSUME NEW l, NEW h \in [Markets -> Seq(Int)], DatedLedger(l, h),
           NEW w \in Wallets, NEW m \in Markets, NEW last \in Nat, last <= Len(h[m]),
           NEW k, SoundLedger(k),
           k = AddQuote(SetPositions(l, w,
                                     [l.position[w] EXCEPT ![m] = FundedPosition(@, last)],
                                     l.open[w]),
                        w, FundingPayment(l.position[w][m], h[m], last))
    PROVE  Moves(l, k, h, 0, Nothing)
<1> DEFINE p         == l.position[w][m]
           q         == FundedPosition(p, last)
           paid      == FundingPayment(p, h[m], last)
           positions == [l.position[w] EXCEPT ![m] = q]
           f == [x \in Markets |-> IF x \in l.open[w]
                                   THEN FundingPayment(l.position[w][x], h[x], Len(h[x])) ELSE 0]
           g == [x \in Markets |-> IF x \in k.open[w]
                                   THEN FundingPayment(k.position[w][x], h[x], Len(h[x])) ELSE 0]
<1>1. /\ SoundLedger(l) /\ p \in Position /\ p.balance \in Int /\ l.quote[w] \in Int
      /\ h[m] \in Seq(Int) /\ Len(h[m]) \in Nat
      /\ p.lastUpdate \in Nat /\ p.lastUpdate <= Len(h[m])
  BY LedgerTypes, HistoryTypes DEF DatedLedger, IsDated
<1>2. paid \in Int
  <2> HIDE DEF p
  <2> QED BY <1>1, FundingPaymentType
<1>3. /\ k.quote[w] = l.quote[w] + paid /\ k.open = l.open
      /\ \A x \in Markets : k.position[w][x] = IF x = m THEN q ELSE l.position[w][x]
      /\ \A v \in Wallets \ {w} : k.quote[v] = l.quote[v] /\ k.position[v] = l.position[v]
  <2> HIDE DEF p, q, paid
  <2>1. k = AddQuote(SetPositions(l, w, [l.position[w] EXCEPT ![m] = q], l.open[w]), w, paid)
    BY DEF p, q, paid
  <2> QED BY <1>1, <2>1 DEF AddQuote, SetQuote, SetPositions, SoundLedger, Ledger
<1>4. /\ q.balance = p.balance /\ q.lastUpdate <= Len(h[m])
      /\ p.lastUpdate = Len(h[m]) => q = p
  <2> HIDE DEF p
  <2> QED BY <1>1, FundedPositionType DEF FundedPosition
<1>5. DatedLedger(k, h)
  <2>1. ASSUME NEW v \in Wallets, NEW x \in Markets
        PROVE  k.position[v][x].lastUpdate <= Len(h[x])
    <3>1. CASE v = w /\ x = m
      BY <1>3, <1>4, <3>1
    <3>2. CASE ~(v = w /\ x = m)
      <4>1. k.position[v][x] = l.position[v][x]
        BY <1>3, <3>2
      <4> QED BY <4>1 DEF DatedLedger, IsDated
    <3> QED BY <3>1, <3>2
  <2> QED BY <2>1 DEF DatedLedger, IsDated
<1>6. DifferOnlyFor(l, k, w)
  BY <1>3 DEF DifferOnlyFor
<1>7. ASSUME NEW x \in Markets
      PROVE  /\ f[x] \in Int /\ g[x] \in Int
             /\ x # m => g[x] = f[x]
             /\ x = m => f[x] = paid + g[x]
  <2>1. /\ h[x] \in Seq(Int) /\ Len(h[x]) \in Nat /\ Len(h[x]) <= Len(h[x])
        /\ l.position[w][x] \in Position /\ k.position[w][x] \in Position
    BY <1>1, HistoryTypes, LedgerTypes, SMTT(30)
  <2>2. f[x] \in Int /\ g[x] \in Int
    BY <2>1, FundingPaymentType, SMTT(60)
  <2>3. x # m => g[x] = f[x]
    BY <1>3
  <2>4. CASE x = m
    <3>1. FundingPayment(p, h[m], Len(h[m])) = paid + FundingPayment(q, h[m], Len(h[m]))
      <4> HIDE DEF p
      <4> QED BY <1>1, FundingPaymentSplits
    <3>2. CASE m \in l.open[w]
      <4>1. f[x] = FundingPayment(p, h[m], Len(h[m]))
        BY <2>4, <3>2
      <4>2. k.position[w][m] = q /\ m \in k.open[w]
        BY <1>3, <3>2
      <4>3. g[x] = FundingPayment(q, h[m], Len(h[m]))
        <5> HIDE DEF q
        <5> QED BY <2>4, <4>2
      <4> HIDE DEF f, g, p, q, paid
      <4> QED BY <2>2, <2>4, <3>1, <4>1, <4>3
    <3>3. CASE m \notin l.open[w]
      <4>1. p.balance = 0
        BY <1>1, <3>3, LedgerTypes
      <4>2. paid = 0
        BY <4>1 DEF FundingPayment
      <4>3. f[x] = 0 /\ g[x] = 0
        BY <1>3, <2>4, <3>3
      <4> QED BY <2>3, <2>4, <4>2, <4>3, SMTT(60)
    <3> QED BY <2>2, <2>4, <3>2, <3>3
  <2> QED BY <2>2, <2>3, <2>4
<1> HIDE DEF f, g, paid
<1>8. Worth(k, w, h) = Worth(l, w, h) + 0
  <2>1. NumMarkets \in Nat /\ m \in 1..NumMarkets
    BY LedgerSizeAssumption DEF Markets
  <2>2. SumTo(g, NumMarkets) = SumTo(f, NumMarkets) + g[m] - f[m]
    BY <1>7, <2>1, SumToChange DEF Markets
  <2>3. SumTo(f, NumMarkets) \in Int
    BY <1>7, <2>1, SumToType DEF Markets
  <2>4. /\ OutstandingWalletFunding(l, w, h) = SumTo(f, NumMarkets)
        /\ OutstandingWalletFunding(k, w, h) = SumTo(g, NumMarkets)
    BY DEF OutstandingWalletFunding, f, g
  <2>5. f[m] = paid + g[m] /\ g[m] \in Int
    BY <1>7
  <2> DEFINE before == SumTo(f, NumMarkets)
             after  == SumTo(g, NumMarkets)
  <2>6. Worth(l, w, h) = l.quote[w] + before /\ Worth(k, w, h) = l.quote[w] + paid + after
    BY <1>3, <2>4 DEF Worth
  <2>7. after = before - paid /\ before \in Int
    <3>1. before \in Int /\ after = before + g[m] - f[m]
      BY <2>2, <2>3
    <3> HIDE DEF before, after
    <3> QED BY <1>2, <2>5, <3>1
  <2> HIDE DEF before, after
  <2> QED BY <1>1, <1>2, <2>6, <2>7
<1>9. ASSUME NEW x \in Markets
      PROVE  k.position[w][x].balance = l.position[w][x].balance + Nothing[x]
  <2>1. k.position[w][x].balance = l.position[w][x].balance
    <3> HIDE DEF q
    <3> QED BY <1>3, <1>4
  <2>2. l.position[w][x].balance \in Int /\ Nothing[x] = 0
    BY <1>1, LedgerTypes DEF Nothing
  <2> QED BY <2>1, <2>2, SMTT(60)
<1>10. IsCurrent(l, w, h) => IsCurrent(k, w, h)
  <2>1. SUFFICES ASSUME IsCurrent(l, w, h), NEW x \in Markets, k.position[w][x].balance # 0
                 PROVE  k.position[w][x].lastUpdate = Len(h[x])
    BY DEF IsCurrent
  <2>2. CASE x # m
    BY <1>3, <2>1, <2>2 DEF IsCurrent
  <2>3. CASE x = m
    <3>1. k.position[w][x] = q /\ p.balance # 0
      BY <1>3, <1>4, <2>1, <2>3
    <3>2. p.lastUpdate = Len(h[m])
      BY <2>1, <3>1 DEF IsCurrent
    <3> QED BY <1>4, <2>3, <3>1, <3>2
  <2> QED BY <2>2, <2>3
<1>11. 0 \in Int /\ Nothing \in [Markets -> Int]
  BY DEF Nothing
<1>12. QED
  BY <1>5, <1>6, <1>8, <1>9, <1>10, <1>11, OneWalletMoves

-----------------------------------------------------------------------------
(* The Exchange's books. *)

PendingSum == SumTo(pendingDepositQuantity, NumWallets)

\* The inductive invariant: no funding is outstanding for the Exit Fund.
CInv ==
    /\ IInv
    /\ IsDated(ledger, history)
    /\ IsCurrent(ledger, exitFundWallet, history)

\* A transaction that publishes no funding moves base only out of inactive
\* markets, and quote as the Custodian's tokens and the pending deposits do.
Conserving ==
    /\ history' = history /\ exitFundWallet' = exitFundWallet
    /\ \E quote \in Int, base \in [Markets -> Int] :
          /\ Moves(ledger, ledger', history, quote, base)
          /\ \A m \in Markets : base[m] # 0 => ~markets[m].isActive
          /\ (\A m \in Markets : base[m] = 0) =>
                (custodianBalance' - custodianBalance) * UnitSize
                    - (quote + (PendingSum' - PendingSum))
                  \in -QuoteThreshold..(UnitSize - 1)

\* Claims are what the wallets are worth and what is pending.
LEMMA ClaimsAddUp ==
    ASSUME NEW l, SoundLedger(l), NEW h \in [Markets -> Seq(Int)],
           NEW pending \in [Wallets -> Nat]
    PROVE  /\ SumTo([w \in Wallets |-> l.quote[w] + OutstandingWalletFunding(l, w, h)
                                         + pending[w]], NumWallets)
                = TotalWorth(l, h) + SumTo(pending, NumWallets)
           /\ TotalWorth(l, h) \in Int /\ SumTo(pending, NumWallets) \in Int
<1> DEFINE worth == [w \in Wallets |-> Worth(l, w, h)]
           both  == [w \in Wallets |-> l.quote[w] + OutstandingWalletFunding(l, w, h) + pending[w]]
<1>1. \A i \in 1..NumWallets : worth[i] \in Int /\ pending[i] \in Int /\ both[i] = worth[i] + pending[i]
  <2>1. ASSUME NEW w \in Wallets
        PROVE  worth[w] \in Int /\ pending[w] \in Int /\ both[w] = worth[w] + pending[w]
    BY TotalTypes DEF Worth
  <2> QED BY <2>1 DEF Wallets
<1>2. TotalWorth(l, h) = SumTo(worth, NumWallets)
  BY DEF TotalWorth
<1> HIDE DEF worth, both
<1>3. NumWallets \in Nat
  BY LedgerSizeAssumption
<1>4. SumTo(both, NumWallets) = SumTo(worth, NumWallets) + SumTo(pending, NumWallets)
  BY <1>1, <1>3, SumToPlus
<1>5. TotalWorth(l, h) \in Int /\ SumTo(pending, NumWallets) \in Int
  BY <1>1, <1>3, TotalTypes, SumToType
<1>6. QED
  BY <1>2, <1>4, <1>5 DEF both

\* One wallet's pending deposits change their sum.
LEMMA PendingChange ==
    ASSUME NEW pending \in [Wallets -> Nat], NEW w \in Wallets, NEW quantity \in Nat
    PROVE  SumTo([pending EXCEPT ![w] = quantity], NumWallets)
             = SumTo(pending, NumWallets) + quantity - pending[w]
<1> DEFINE before  == pending
           changed == [pending EXCEPT ![w] = quantity]
<1>1. \A i \in 1..NumWallets : before[i] \in Int /\ changed[i] \in Int
  BY DEF Wallets
<1>2. \A i \in 1..NumWallets : i # w => changed[i] = before[i]
  BY DEF Wallets
<1>3. NumWallets \in Nat /\ w \in 1..NumWallets
  BY LedgerSizeAssumption DEF Wallets
<1>4. changed[w] = quantity
  OBVIOUS
<1> HIDE DEF before, changed
<1>5. SumTo(changed, NumWallets) = SumTo(before, NumWallets) + changed[w] - before[w]
  BY <1>1, <1>2, <1>3, SumToChange
<1>6. QED
  BY <1>4, <1>5 DEF before, changed

\* What the invariant says of the ledger.
LEMMA LedgerDated ==
    ASSUME CInv
    PROVE  /\ DatedLedger(ledger, history) /\ SoundLedger(ledger)
           /\ history \in [Markets -> Seq(Int)]
           /\ exitFundWallet \in Wallets /\ IsCurrent(ledger, exitFundWallet, history)
           /\ Published = Lengths(history)
           /\ pendingDepositQuantity \in [Wallets -> Nat] /\ custodianBalance \in Nat
           /\ UnitSize \in Nat \ {0} /\ QuoteThreshold \in Nat
<1>1. SoundLedger(ledger)
  BY LedgerSound DEF CInv
<1>2. Published = Lengths(history)
  BY DEF Published, Lengths
<1>3. QED
  BY <1>1, <1>2, ParameterAssumption DEF CInv, IInv, TypeOK, DatedLedger

\* Two updates that move nothing, one after the other.
LEMMA NothingMovesTwice ==
    ASSUME NEW l, NEW j, NEW k, NEW h \in [Markets -> Seq(Int)], SoundLedger(l),
           Moves(l, j, h, 0, Nothing), Moves(j, k, h, 0, Nothing)
    PROVE  Moves(l, k, h, 0, Nothing)
<1>1. Nothing \in [Markets -> Int] /\ \A m \in Markets : Nothing[m] + Nothing[m] = 0
  BY DEF Nothing
<1>2. QED
  BY <1>1, MovesCancel

\* Settling funding first adds nothing to what an update moves.
LEMMA NothingMovesBefore ==
    ASSUME NEW l, NEW j, NEW k, NEW h \in [Markets -> Seq(Int)], SoundLedger(l),
           NEW quote \in Int, NEW base \in [Markets -> Int],
           Moves(l, j, h, 0, Nothing), Moves(j, k, h, quote, base)
    PROVE  Moves(l, k, h, quote, base)
<1>1. TotalWorth(l, h) \in Int /\ \A m \in Markets : PositionSum(l, m) \in Int
  BY TotalTypes
<1>2. TotalWorth(k, h) = TotalWorth(l, h) + quote
  BY <1>1 DEF Moves
<1>3. ASSUME NEW m \in Markets
      PROVE  PositionSum(k, m) = PositionSum(l, m) + base[m]
  <2>1. PositionSum(j, m) = PositionSum(l, m) + 0 /\ PositionSum(k, m) = PositionSum(j, m) + base[m]
    BY DEF Moves, Nothing
  <2> QED BY <1>1, <2>1
<1>4. QED
  BY <1>2, <1>3 DEF Moves

\* Settling funding opens and closes nothing.
LEMMA FundedKeepsOpen ==
    ASSUME NEW l, SoundLedger(l), NEW v \in Wallets, NEW w \in Wallets
    PROVE  Funded(l, v).open[w] = l.open[w]
BY DEF Funded, ApplyOutstandingWalletFunding, AddQuote, SetQuote, SetPositions, SoundLedger, Ledger

\* A transaction that only moves quote and base between wallets.
LEMMA MovesNothingStep ==
    ASSUME CInv, Moves(ledger, ledger', history, 0, Nothing),
           UNCHANGED <<pendingDepositQuantity, custodianBalance, history, exitFundWallet>>
    PROVE  Conserving
<1>1. /\ custodianBalance \in Nat /\ UnitSize \in Nat \ {0} /\ QuoteThreshold \in Nat
      /\ PendingSum \in Int
  BY LedgerDated, ClaimsAddUp DEF PendingSum
<1>2. PendingSum' = PendingSum
  BY DEF PendingSum
<1>3. (custodianBalance' - custodianBalance) * UnitSize - (0 + (PendingSum' - PendingSum)) = 0
  BY <1>1, <1>2
<1>4. 0 \in -QuoteThreshold..(UnitSize - 1)
  BY <1>1
<1>5. 0 \in Int /\ Nothing \in [Markets -> Int] /\ \A m \in Markets : Nothing[m] = 0
  BY DEF Nothing
<1>6. QED
  BY <1>3, <1>4, <1>5 DEF Conserving

\* A transaction that touches neither the ledger nor the Custodian.
LEMMA QuietStep ==
    ASSUME CInv,
           UNCHANGED <<ledger, pendingDepositQuantity, custodianBalance, history, exitFundWallet>>
    PROVE  Conserving
<1>1. Moves(ledger, ledger', history, 0, Nothing)
  BY LedgerDated, NothingMoves
<1>2. QED
  BY <1>1, MovesNothingStep

\* Settling the funding of one wallet, and then of another.
LEMMA FundedMoves ==
    ASSUME CInv, NEW w \in Wallets
    PROVE  /\ Moves(ledger, Funded(ledger, w), history, 0, Nothing)
           /\ DatedLedger(Funded(ledger, w), history)
           /\ IsCurrent(Funded(ledger, w), w, history)
           /\ IsCurrent(Funded(ledger, w), exitFundWallet, history)
<1>1. /\ Moves(ledger, Funded(ledger, w), history, 0, Nothing)
      /\ IsCurrent(Funded(ledger, w), w, history)
  BY LedgerDated, FundingMoves DEF Funded
<1>2. QED
  BY <1>1, LedgerDated DEF Moves

\* Settling two wallets' funding moves nothing and leaves both current.
LEMMA FundedTwiceMoves ==
    ASSUME CInv, NEW v \in Wallets, NEW w \in Wallets
    PROVE  LET l == Funded(Funded(ledger, v), w)
           IN  /\ Moves(ledger, l, history, 0, Nothing)
               /\ DatedLedger(l, history)
               /\ IsCurrent(l, v, history) /\ IsCurrent(l, w, history)
<1> DEFINE j == Funded(ledger, v)
           k == Funded(j, w)
<1>1. Moves(ledger, j, history, 0, Nothing) /\ DatedLedger(j, history) /\ IsCurrent(j, v, history)
  BY FundedMoves
<1> HIDE DEF j
<1>2. Moves(j, k, history, 0, Nothing) /\ IsCurrent(k, w, history)
  BY <1>1, LedgerDated, FundingMoves DEF Funded
<1> HIDE DEF k
<1>3. Moves(ledger, k, history, 0, Nothing)
  BY <1>1, <1>2, LedgerDated, NothingMovesTwice
<1>4. IsCurrent(k, v, history) /\ DatedLedger(k, history)
  BY <1>1, <1>2 DEF Moves
<1>5. QED
  BY <1>2, <1>3, <1>4 DEF j, k

-----------------------------------------------------------------------------
(* Custody. *)

\* A payout of the whole units in a quantity keeps less than a unit.
LEMMA WholeUnits ==
    ASSUME NEW quantity \in Int, NEW unit \in Nat \ {0}
    PROVE  /\ quantity \div unit \in Int
           /\ quantity - (quantity \div unit) * unit \in 0..(unit - 1)
OBVIOUS

\* A deposit adds what the Custodian received to what is pending.
LEMMA DepositConserves ==
    ASSUME CInv, NEW source \in Wallets, NEW depositor \in Wallets,
           NEW units \in DepositUnits, NEW tokenFee \in TokenFees,
           Deposit(source, depositor, units, tokenFee)
    PROVE  Conserving
<1> DEFINE received == (units - tokenFee) * UnitSize
           old      == pendingDepositQuantity[depositor]
<1>1. /\ units \in Nat /\ tokenFee \in Nat /\ tokenFee <= units
      /\ UnitSize \in Nat \ {0} /\ QuoteThreshold \in Nat /\ custodianBalance \in Nat
      /\ pendingDepositQuantity \in [Wallets -> Nat] /\ PendingSum \in Int
  BY CustodyAssumption, LedgerDated, ClaimsAddUp DEF Deposit, PendingSum
<1>2. received \in Nat /\ units - tokenFee \in Nat /\ old \in Nat
  BY <1>1
<1>3. /\ custodianBalance' = custodianBalance + (units - tokenFee)
      /\ pendingDepositQuantity' = [pendingDepositQuantity EXCEPT ![depositor] = old + received]
      /\ UNCHANGED <<ledger, history, exitFundWallet>>
  BY <1>1 DEF Deposit, marketVars, fundVars
<1>4. PendingSum' = PendingSum + received
  <2> HIDE DEF received
  <2>0. old + received \in Nat
    <3> HIDE DEF old
    <3> QED BY <1>2
  <2>1. PendingSum' = PendingSum + (old + received) - old
    BY <1>1, <1>2, <1>3, <2>0, PendingChange DEF PendingSum
  <2> HIDE DEF old
  <2> QED BY <1>1, <1>2, <2>1
<1>5. (custodianBalance' - custodianBalance) * UnitSize - (0 + (PendingSum' - PendingSum)) = 0
  <2>1. custodianBalance' - custodianBalance = units - tokenFee
    BY <1>1, <1>2, <1>3
  <2>2. 0 + (PendingSum' - PendingSum) = received
    <3> HIDE DEF received
    <3> QED BY <1>1, <1>2, <1>4
  <2>3. received - received = 0
    <3> HIDE DEF received
    <3> QED BY <1>2
  <2> QED BY <2>1, <2>2, <2>3
<1>6. 0 \in -QuoteThreshold..(UnitSize - 1)
  BY <1>1
<1>7. Moves(ledger, ledger', history, 0, Nothing)
  BY <1>3, LedgerDated, NothingMoves
<1>8. 0 \in Int /\ Nothing \in [Markets -> Int] /\ \A m \in Markets : Nothing[m] = 0
  BY DEF Nothing
<1>9. QED
  BY <1>3, <1>5, <1>6, <1>7, <1>8 DEF Conserving

\* Crediting a deposit adds to the wallet what was pending.
LEMMA ApplyPendingDepositsConserves ==
    ASSUME CInv, NEW w \in Wallets, NEW quantity \in 1..pendingDepositQuantity[w],
           ApplyPendingDeposits(w, quantity)
    PROVE  Conserving
<1> DEFINE old == pendingDepositQuantity[w]
<1>1. /\ UnitSize \in Nat \ {0} /\ QuoteThreshold \in Nat /\ custodianBalance \in Nat
      /\ pendingDepositQuantity \in [Wallets -> Nat] /\ PendingSum \in Int
  BY LedgerDated, ClaimsAddUp DEF PendingSum
<1>2. quantity \in Int /\ old \in Nat /\ old - quantity \in Nat
  BY <1>1
<1>3. /\ pendingDepositQuantity' = [pendingDepositQuantity EXCEPT ![w] = old - quantity]
      /\ ledger' = AddQuote(ledger, w, quantity)
      /\ UNCHANGED <<custodianBalance, history, exitFundWallet>>
  BY <1>1 DEF ApplyPendingDeposits, UpdateForDeposit, marketVars, fundVars
<1>4. PendingSum' = PendingSum + (old - quantity) - old
  BY <1>1, <1>2, <1>3, PendingChange DEF PendingSum
<1>5. (custodianBalance' - custodianBalance) * UnitSize - (quantity + (PendingSum' - PendingSum)) = 0
  <2> HIDE DEF old
  <2>1. custodianBalance' - custodianBalance = 0 /\ quantity + (PendingSum' - PendingSum) = 0
    BY <1>1, <1>2, <1>3, <1>4
  <2> QED BY <1>1, <2>1
<1>6. 0 \in -QuoteThreshold..(UnitSize - 1)
  BY <1>1
<1>7. Moves(ledger, ledger', history, quantity, Nothing)
  BY <1>2, <1>3, LedgerDated, AddQuoteMoves
<1>8. Nothing \in [Markets -> Int] /\ \A m \in Markets : Nothing[m] = 0
  BY DEF Nothing
<1>9. QED
  BY <1>2, <1>3, <1>5, <1>6, <1>7, <1>8 DEF Conserving

\* A transfer moves nothing.
LEMMA TransferQuoteConserves ==
    ASSUME CInv, NEW t \in Transfers, NEW gasFee \in GasFees, TransferQuote(t, gasFee)
    PROVE  Conserving
<1> DEFINE funded == Funded(Funded(ledger, t.source), t.destination)
<1>1. /\ t.source \in Wallets /\ t.destination \in Wallets /\ t.grossQuantity \in Int
      /\ gasFee \in Int /\ FeeWallet \in Wallets
  BY RequestAssumption, CustodyAssumption, ParameterAssumption DEF Transfer
<1>2. Moves(ledger, funded, history, 0, Nothing) /\ DatedLedger(funded, history)
  BY <1>1, FundedTwiceMoves
<1>3. ledger' = UpdateForTransfer(funded, t.source, t.destination, t.grossQuantity, gasFee, FeeWallet)
  BY DEF TransferQuote
<1> HIDE DEF funded
<1>4. Moves(funded, ledger', history, 0, Nothing)
  BY <1>1, <1>2, <1>3, LedgerDated, UpdateForTransferMoves
<1>5. Moves(ledger, ledger', history, 0, Nothing)
  BY <1>2, <1>4, LedgerDated, NothingMovesTwice
<1>6. UNCHANGED <<pendingDepositQuantity, custodianBalance, history, exitFundWallet>>
  BY DEF TransferQuote, custodyVars, fundVars, marketVars
<1>7. QED
  BY <1>5, <1>6, MovesNothingStep

\* A withdrawal pays out whole units of what the wallet gives up.
LEMMA WithdrawConserves ==
    ASSUME CInv, NEW r \in Withdrawals, NEW gasFee \in GasFees, Withdraw(r, gasFee)
    PROVE  Conserving
<1> DEFINE funded == Funded(ledger, r.wallet)
           net    == r.grossQuantity - gasFee
           units  == net \div UnitSize
           moved  == -r.grossQuantity + gasFee
<1>1. /\ r.wallet \in Wallets /\ r.grossQuantity \in Int /\ gasFee \in Int
      /\ FeeWallet \in Wallets
  BY RequestAssumption, CustodyAssumption, ParameterAssumption DEF Withdrawal
<1>2. /\ UnitSize \in Nat \ {0} /\ QuoteThreshold \in Nat /\ custodianBalance \in Nat
      /\ PendingSum \in Int
  BY LedgerDated, ClaimsAddUp DEF PendingSum
<1>3. net \in Int /\ moved \in Int /\ moved = -net
  BY <1>1
<1>4. units \in Int /\ net - units * UnitSize \in 0..(UnitSize - 1)
  <2> HIDE DEF net
  <2> QED BY <1>2, <1>3, WholeUnits
<1>5. Moves(ledger, funded, history, 0, Nothing) /\ DatedLedger(funded, history)
  BY <1>1, FundedMoves
<1>6. /\ ledger' = UpdateForWithdrawal(funded, r.wallet, r.grossQuantity, gasFee, FeeWallet)
      /\ custodianBalance' = custodianBalance - units
      /\ UNCHANGED <<pendingDepositQuantity, history, exitFundWallet>>
  BY DEF Withdraw, fundVars, marketVars
<1> HIDE DEF funded
<1>7. Moves(ledger, ledger', history, moved, Nothing)
  <2>1. Moves(funded, ledger', history, moved, Nothing)
    BY <1>1, <1>5, <1>6, LedgerDated, UpdateForWithdrawalMoves
  <2>2. Nothing \in [Markets -> Int]
    BY DEF Nothing
  <2> HIDE DEF moved
  <2> QED BY <1>3, <1>5, <2>1, <2>2, LedgerDated, NothingMovesBefore
<1>8. PendingSum' = PendingSum
  BY <1>6 DEF PendingSum
<1> HIDE DEF net, units, moved
<1>9. (custodianBalance' - custodianBalance) * UnitSize - (moved + (PendingSum' - PendingSum))
        = net - units * UnitSize
  <2>1. custodianBalance' - custodianBalance = -units /\ moved + (PendingSum' - PendingSum) = -net
    BY <1>2, <1>3, <1>4, <1>6, <1>8
  <2>2. (-units) * UnitSize = -(units * UnitSize) /\ units * UnitSize \in Int
    BY <1>2, <1>4
  <2> QED BY <1>3, <2>1, <2>2
<1>10. net - units * UnitSize \in -QuoteThreshold..(UnitSize - 1)
  <2> DEFINE rest == net - units * UnitSize
  <2>1. rest \in 0..(UnitSize - 1)
    BY <1>4
  <2> HIDE DEF rest
  <2>2. rest \in -QuoteThreshold..(UnitSize - 1)
    BY <1>2, <2>1
  <2> QED BY <2>2 DEF rest
<1>11. Nothing \in [Markets -> Int] /\ \A m \in Markets : Nothing[m] = 0
  BY DEF Nothing
<1>12. QED
  BY <1>3, <1>6, <1>7, <1>9, <1>10, <1>11 DEF Conserving


\* A transaction that settles funding first and then moves between wallets.
LEMMA SettledStep ==
    ASSUME CInv, NEW l, Moves(ledger, l, history, 0, Nothing),
           Moves(l, ledger', history, 0, Nothing),
           UNCHANGED <<pendingDepositQuantity, custodianBalance, history, exitFundWallet>>
    PROVE  Conserving
<1>1. Moves(ledger, ledger', history, 0, Nothing)
  BY LedgerDated, NothingMovesTwice
<1>2. QED
  BY <1>1, MovesNothingStep

-----------------------------------------------------------------------------
(* Trading. *)

\* A trade's two sides, fees included, cancel.
LEMMA ExecuteTradeConserves ==
    ASSUME CInv, NEW trade, NEW buy \in Orders, NEW sell \in Orders,
           trade.base \in Nat \ {0}, trade.quote \in Int, trade.makerFee \in Int,
           trade.takerFee \in Int, ExecuteTrade(trade, buy, sell)
    PROVE  Conserving
<1> DEFINE buyFee  == IF trade.makerSide = "Buy" THEN trade.makerFee ELSE trade.takerFee
           sellFee == IF trade.makerSide = "Buy" THEN trade.takerFee ELSE trade.makerFee
           funded  == Funded(Funded(ledger, buy.wallet), sell.wallet)
<1>1. buy.wallet \in Wallets /\ sell.wallet \in Wallets /\ trade.market \in Markets
  BY RequestAssumption DEF Order, ExecuteTrade
<1>2. buyFee \in Int /\ sellFee \in Int /\ FeeWallet \in Wallets
  BY ParameterAssumption
<1>3. /\ Moves(ledger, funded, history, 0, Nothing) /\ DatedLedger(funded, history)
      /\ IsCurrent(funded, buy.wallet, history) /\ IsCurrent(funded, sell.wallet, history)
  BY <1>1, FundedTwiceMoves
<1>4. ledger' = UpdateForTrade(funded, buy.wallet, sell.wallet, trade.market, trade.base,
                               trade.quote, buyFee, sellFee, FeeWallet, Lengths(history))
  BY LedgerDated DEF ExecuteTrade
<1> HIDE DEF buyFee, sellFee, funded
<1>5. history \in [Markets -> Seq(Int)]
  BY LedgerDated
<1>6. Moves(funded, UpdateForTrade(funded, buy.wallet, sell.wallet, trade.market, trade.base,
                                   trade.quote, buyFee, sellFee, FeeWallet, Lengths(history)),
            history, 0, Nothing)
  BY <1>1, <1>2, <1>3, <1>5, UpdateForTradeMoves
<1>7. UNCHANGED <<pendingDepositQuantity, custodianBalance, history, exitFundWallet>>
  BY DEF ExecuteTrade, custodyVars, fundVars, marketVars
<1>8. QED
  BY <1>3, <1>4, <1>6, <1>7, SettledStep

\* Trades, and the nonces that bound them.
LEMMA TradingConserves ==
    ASSUME CInv, TradingNext
    PROVE  Conserving
<1>1. ASSUME NEW buy \in Orders, NEW sell \in Orders, NEW base \in BaseQuantities,
             NEW quote \in QuoteQuantities, NEW makerSide \in {"Buy", "Sell"},
             NEW makerFee \in MakerFees, NEW takerFee \in TakerFees,
             ExecuteTrade([market |-> buy.market, base |-> base, quote |-> quote,
                           makerSide |-> makerSide, makerFee |-> makerFee,
                           takerFee |-> takerFee], buy, sell)
      PROVE  Conserving
  <2> DEFINE trade == [market |-> buy.market, base |-> base, quote |-> quote,
                       makerSide |-> makerSide, makerFee |-> makerFee, takerFee |-> takerFee]
  <2>1. /\ trade.base \in Nat \ {0} /\ trade.quote \in Int
        /\ trade.makerFee \in Int /\ trade.takerFee \in Int
    BY TradingAssumption
  <2>2. ExecuteTrade(trade, buy, sell)
    BY <1>1
  <2> HIDE DEF trade
  <2> QED BY <2>1, <2>2, ExecuteTradeConserves
<1>2. ASSUME NEW w \in Wallets, NEW timestamp \in NonceTimes, InvalidateNonce(w, timestamp)
      PROVE  Conserving
  BY <1>2, QuietStep DEF InvalidateNonce, custodyVars, fundVars, marketVars
<1>3. QED
  BY <1>1, <1>2 DEF TradingNext

-----------------------------------------------------------------------------
(* Liquidation. *)

\* Positions and remaining quote move from one wallet to the other.
LEMMA LiquidateAtBankruptcyPriceConserves ==
    ASSUME CInv, NEW w \in Wallets, NEW counterparty \in Wallets,
           NEW rounding \in [Markets -> Roundings],
           LiquidateAtBankruptcyPrice(w, counterparty, rounding),
           UNCHANGED <<pendingDepositQuantity, custodianBalance, history, exitFundWallet>>
    PROVE  Conserving
<1> DEFINE funded   == Funded(Funded(ledger, w), counterparty)
           expected == BankruptcyQuoteQuantities(funded, w, IndexPrice, FieldsFor(w))
           quoteFor == Submitted(expected, rounding)
           closed   == UpdatePositionsForLiquidation(funded, w, counterparty, quoteFor,
                                                     Lengths(history))
<1>1. /\ Moves(ledger, funded, history, 0, Nothing) /\ DatedLedger(funded, history)
      /\ IsCurrent(funded, w, history) /\ IsCurrent(funded, counterparty, history)
  BY FundedTwiceMoves
<1>2. /\ IndexPrice \in [Markets -> Nat] /\ FieldsFor(w) \in [Markets -> MarketFields]
      /\ history \in [Markets -> Seq(Int)]
  BY ParameterTypes, LedgerDated DEF IInv, CInv
<1>3. quoteFor \in [Markets -> Int]
  <2> HIDE DEF funded
  <2>1. SoundLedger(funded)
    BY <1>1 DEF DatedLedger
  <2>2. expected \in [Markets -> Int]
    BY <1>2, <2>1, ClosingQuotesType
  <2> HIDE DEF expected
  <2> QED BY <2>2, SubmittedType
<1>4. ledger' = UpdateRemainingQuoteAfterLiquidation(closed, w, counterparty)
  BY LedgerDated DEF LiquidateAtBankruptcyPrice
<1> HIDE DEF funded, quoteFor
<1>5. Moves(funded, closed, history, 0, Nothing)
  BY <1>1, <1>2, <1>3, UpdatePositionsForLiquidationMoves
<1> HIDE DEF closed
<1>6. DatedLedger(closed, history)
  BY <1>5 DEF Moves
<1>7. Moves(closed, ledger', history, 0, Nothing)
  BY <1>2, <1>4, <1>6, UpdateRemainingQuoteMoves
<1>8. Moves(funded, ledger', history, 0, Nothing)
  BY <1>1, <1>2, <1>5, <1>7, NothingMovesTwice DEF DatedLedger
<1>9. QED
  BY <1>1, <1>8, SettledStep

\* The positions of an exited wallet move to the Insurance Fund.
LEMMA LiquidateWalletExitConserves ==
    ASSUME CInv, NEW w \in Wallets, NEW rounding \in [Markets -> Roundings],
           LiquidateWalletExit(w, rounding)
    PROVE  Conserving
<1> DEFINE funded   == Funded(Funded(ledger, w), InsuranceFund)
           expected == ExitQuoteQuantities(funded, w, IndexPrice, FieldsFor(w))
           quoteFor == Submitted(expected, rounding)
           closed   == UpdatePositionsForLiquidation(funded, w, InsuranceFund, quoteFor,
                                                     Lengths(history))
<1>0. InsuranceFund \in Wallets
  BY ParameterAssumption
<1>1. /\ Moves(ledger, funded, history, 0, Nothing) /\ DatedLedger(funded, history)
      /\ IsCurrent(funded, w, history) /\ IsCurrent(funded, InsuranceFund, history)
  BY <1>0, FundedTwiceMoves
<1>2. /\ IndexPrice \in [Markets -> Nat] /\ FieldsFor(w) \in [Markets -> MarketFields]
      /\ history \in [Markets -> Seq(Int)]
  BY ParameterTypes, LedgerDated DEF IInv, CInv
<1>3. quoteFor \in [Markets -> Int]
  <2> HIDE DEF funded
  <2>1. SoundLedger(funded)
    BY <1>1 DEF DatedLedger
  <2>2. expected \in [Markets -> Int]
    BY <1>2, <2>1, ClosingQuotesType
  <2> HIDE DEF expected
  <2> QED BY <2>2, SubmittedType
<1>4. ledger' \in {closed, UpdateRemainingQuoteAfterLiquidation(closed, w, InsuranceFund)}
  BY LedgerDated DEF LiquidateWalletExit
<1> HIDE DEF funded, quoteFor
<1>5. Moves(funded, closed, history, 0, Nothing)
  BY <1>0, <1>1, <1>2, <1>3, UpdatePositionsForLiquidationMoves
<1> HIDE DEF closed
<1>6. DatedLedger(closed, history)
  BY <1>5 DEF Moves
<1>7. Moves(closed, UpdateRemainingQuoteAfterLiquidation(closed, w, InsuranceFund), history,
            0, Nothing)
  BY <1>0, <1>2, <1>6, UpdateRemainingQuoteMoves
<1>8. Moves(funded, UpdateRemainingQuoteAfterLiquidation(closed, w, InsuranceFund), history,
            0, Nothing)
  BY <1>1, <1>2, <1>5, <1>7, NothingMovesTwice DEF DatedLedger
<1>9. Moves(funded, ledger', history, 0, Nothing)
  BY <1>4, <1>5, <1>8
<1>10. UNCHANGED <<pendingDepositQuantity, custodianBalance, history, exitFundWallet>>
  BY DEF LiquidateWalletExit, custodyVars, fundVars, marketVars
<1>11. QED
  BY <1>1, <1>9, <1>10, SettledStep

\* A position too small to keep moves to the Insurance Fund.
LEMMA LiquidatePositionBelowMinimumConserves ==
    ASSUME CInv, NEW w \in Wallets, NEW m \in Markets, NEW quote \in LiquidationQuotes,
           LiquidatePositionBelowMinimum(w, m, quote)
    PROVE  Conserving
<1> DEFINE funded == Funded(Funded(ledger, w), InsuranceFund)
           size   == Abs(funded.position[w][m].balance)
<1>1. InsuranceFund \in Wallets /\ quote \in Int
  BY ParameterAssumption, LiquidationAssumption
<1>2. /\ Moves(ledger, funded, history, 0, Nothing) /\ DatedLedger(funded, history)
      /\ IsCurrent(funded, w, history) /\ IsCurrent(funded, InsuranceFund, history)
  BY <1>1, FundedTwiceMoves
<1>3. history \in [Markets -> Seq(Int)] /\ SoundLedger(ledger)
  BY LedgerDated
<1>4. size \in Nat \ {0}
  <2>1. SoundLedger(Funded(ledger, w)) /\ SoundLedger(funded)
    BY <1>1, LedgerSound, FundedSound DEF IInv, CInv
  <2>2. funded.open[w] = ledger.open[w]
    BY <1>1, <1>3, <2>1, FundedKeepsOpen
  <2>3. m \in ledger.open[w]
    BY DEF LiquidatePositionBelowMinimum
  <2> HIDE DEF funded
  <2>4. funded.position[w][m].balance \in Int /\ funded.position[w][m].balance # 0
    BY <2>1, <2>2, <2>3, LedgerTypes
  <2> QED BY <2>4 DEF Abs
<1>5. ledger' = UpdatePositionsForDeleverage(funded, w, InsuranceFund, m, size, quote,
                                             Lengths(history))
  BY LedgerDated DEF LiquidatePositionBelowMinimum
<1> HIDE DEF funded, size
<1>6. Moves(funded, ledger', history, 0, Nothing)
  BY <1>1, <1>2, <1>3, <1>4, <1>5, UpdatePositionsForDeleverageMoves
<1>7. UNCHANGED <<pendingDepositQuantity, custodianBalance, history, exitFundWallet>>
  BY DEF LiquidatePositionBelowMinimum, custodyVars, fundVars, marketVars
<1>8. QED
  BY <1>2, <1>6, <1>7, SettledStep

\* A closure without a counterparty changes the sum of positions, in a market
\* that is not active.
LEMMA LiquidateInDeactivatedMarketConserves ==
    ASSUME CInv, NEW w \in Wallets, NEW m \in Markets, NEW quote \in LiquidationQuotes,
           NEW fee \in LiquidationFees, LiquidatePositionInDeactivatedMarket(w, m, quote, fee)
    PROVE  Conserving
<1> DEFINE funded == Funded(ledger, w)
           size   == funded.position[w][m].balance
<1>1. FeeWallet \in Wallets /\ quote \in Int /\ fee \in Int
  BY ParameterAssumption, LiquidationAssumption
<1>2. /\ Moves(ledger, funded, history, 0, Nothing) /\ DatedLedger(funded, history)
      /\ IsCurrent(funded, w, history)
  BY FundedMoves
<1>3. history \in [Markets -> Seq(Int)] /\ SoundLedger(ledger)
  BY LedgerDated
<1>4. size \in Int /\ size # 0
  <2>1. SoundLedger(funded)
    BY <1>2 DEF DatedLedger
  <2>2. funded.open[w] = ledger.open[w]
    BY <1>3, FundedKeepsOpen
  <2>3. m \in ledger.open[w]
    BY DEF LiquidatePositionInDeactivatedMarket
  <2> HIDE DEF funded
  <2> QED BY <2>1, <2>2, <2>3, LedgerTypes
<1>5. /\ ledger' = UpdateForDeactivatedMarketLiquidation(funded, w, m, quote, fee, FeeWallet)
      /\ ~markets[m].isActive
      /\ UNCHANGED <<pendingDepositQuantity, custodianBalance, history, exitFundWallet>>
  BY DEF LiquidatePositionInDeactivatedMarket, custodyVars, fundVars, marketVars
<1> HIDE DEF funded
<1>6. PICK moved \in Int : Moves(funded, ledger', history, moved, Only(m, -size))
  BY <1>1, <1>2, <1>3, <1>5, UpdateForDeactivatedMarketMoves
<1> HIDE DEF size
<1>7. /\ Only(m, -size) \in [Markets -> Int]
      /\ \A x \in Markets : Only(m, -size)[x] # 0 => x = m
      /\ Only(m, -size)[m] # 0
  BY <1>4 DEF Only
<1>8. Moves(ledger, ledger', history, moved, Only(m, -size))
  BY <1>2, <1>3, <1>6, <1>7, NothingMovesBefore
<1>9. QED
  BY <1>5, <1>7, <1>8 DEF Conserving

\* Liquidations of every kind.
LEMMA LiquidationConserves ==
    ASSUME CInv, LiquidationNext
    PROVE  Conserving
<1>1. ASSUME NEW w \in Wallets, NEW rounding \in [Markets -> Roundings],
             LiquidateWalletInMaintenance(w, rounding)
      PROVE  Conserving
  <2>1. InsuranceFund \in Wallets
    BY ParameterAssumption
  <2>2. LiquidateAtBankruptcyPrice(w, InsuranceFund, rounding)
    BY <1>1 DEF LiquidateWalletInMaintenance
  <2>3. UNCHANGED <<pendingDepositQuantity, custodianBalance, history, exitFundWallet>>
    BY <1>1 DEF LiquidateWalletInMaintenance, custodyVars, fundVars, marketVars
  <2> QED BY <2>1, <2>2, <2>3, LiquidateAtBankruptcyPriceConserves
<1>2. ASSUME NEW w \in Wallets, NEW rounding \in [Markets -> Roundings],
             LiquidateWalletInMaintenanceDuringSystemRecovery(w, rounding)
      PROVE  Conserving
  <2>1. exitFundWallet \in Wallets
    BY LedgerDated
  <2>2. LiquidateAtBankruptcyPrice(w, exitFundWallet, rounding)
    BY <1>2 DEF LiquidateWalletInMaintenanceDuringSystemRecovery
  <2>3. UNCHANGED <<pendingDepositQuantity, custodianBalance, history, exitFundWallet>>
    BY <1>2 DEF LiquidateWalletInMaintenanceDuringSystemRecovery, custodyVars, marketVars
  <2> QED BY <2>1, <2>2, <2>3, LiquidateAtBankruptcyPriceConserves
<1>3. QED
  BY <1>1, <1>2, LiquidateWalletExitConserves, LiquidatePositionBelowMinimumConserves,
     LiquidateInDeactivatedMarketConserves DEF LiquidationNext


-----------------------------------------------------------------------------
(* Deleveraging. *)

\* Part of a position moves to the counterparty, for what the counterparty pays.
LEMMA DeleverageConserves ==
    ASSUME CInv, NEW w \in Wallets, NEW counterparty \in Wallets, NEW m \in Markets,
           NEW base \in DeleverageQuantities, NEW quote \in DeleverageQuotes,
           Deleverage(w, counterparty, m, base, quote),
           UNCHANGED <<pendingDepositQuantity, custodianBalance, history, exitFundWallet>>
    PROVE  Conserving
<1> DEFINE funded == FundedForDeleverage(w, counterparty)
<1>1. base \in Nat \ {0} /\ quote \in Int
  BY DeleveragingAssumption
<1>2. /\ Moves(ledger, funded, history, 0, Nothing) /\ DatedLedger(funded, history)
      /\ IsCurrent(funded, w, history) /\ IsCurrent(funded, counterparty, history)
  BY FundedTwiceMoves DEF FundedForDeleverage
<1>3. /\ ledger' = UpdatePositionsForDeleverage(funded, w, counterparty, m, base, quote,
                                                Lengths(history))
      /\ history \in [Markets -> Seq(Int)]
  BY LedgerDated DEF Deleverage
<1> HIDE DEF funded
<1>4. Moves(funded, ledger', history, 0, Nothing)
  BY <1>1, <1>2, <1>3, UpdatePositionsForDeleverageMoves
<1>5. QED
  BY <1>2, <1>4, SettledStep

\* Deleveraging of every kind.
LEMMA DeleveragingConserves ==
    ASSUME CInv, DeleveragingNext
    PROVE  Conserving
<1>1. PICK counterparty \in Wallets, m \in Markets, base \in DeleverageQuantities,
           quote \in DeleverageQuotes :
        \/ \E w \in Wallets : DeleverageInMaintenanceAcquisition(w, counterparty, m, base, quote)
        \/ \E w \in Wallets : DeleverageExitAcquisition(w, counterparty, m, base, quote)
        \/ DeleverageInsuranceFundClosure(counterparty, m, base, quote)
        \/ DeleverageExitFundClosure(counterparty, m, base, quote)
  BY DEF DeleveragingNext
<1>2. PICK w \in Wallets : Deleverage(w, counterparty, m, base, quote)
  <2>1. InsuranceFund \in Wallets /\ exitFundWallet \in Wallets
    BY ParameterAssumption, LedgerDated
  <2> QED BY <1>1, <2>1 DEF DeleverageInMaintenanceAcquisition, DeleverageExitAcquisition,
             DeleverageInsuranceFundClosure, DeleverageExitFundClosure
<1>3. UNCHANGED <<pendingDepositQuantity, custodianBalance, history, exitFundWallet>>
  BY <1>1 DEF DeleverageInMaintenanceAcquisition, DeleverageExitAcquisition,
     DeleverageInsuranceFundClosure, DeleverageExitFundClosure, custodyVars, fundVars, marketVars
<1>4. QED
  BY <1>2, <1>3, DeleverageConserves

-----------------------------------------------------------------------------
(* Exits. *)

\* What an exit leaves unpaid: a fraction of a unit, less what it forgives.
LEMMA ExitRemainder ==
    ASSUME NEW w \in Wallets, NEW remaining \in Int, pendingDepositQuantity[w] \in Nat,
           UnitSize \in Nat \ {0}, QuoteThreshold \in Nat
    PROVE  /\ ExitUnits(w, remaining) \in Int
           /\ remaining + pendingDepositQuantity[w] - ExitUnits(w, remaining) * UnitSize
                \in -QuoteThreshold..(UnitSize - 1)
<1> DEFINE pending == pendingDepositQuantity[w]
           kept    == IF ToleratesAsZero(w, remaining) THEN 0 ELSE remaining
           payout  == kept + pending
           units   == payout \div UnitSize
           rest    == payout - units * UnitSize
<1>1. payout \in Int /\ pending \in Nat /\ kept \in Int
  BY DEF ToleratesAsZero
<1>2. remaining - kept \in -QuoteThreshold..0
  BY DEF ToleratesAsZero, Abs
<1>3. units = ExitUnits(w, remaining)
  BY DEF ExitUnits
<1>4. units \in Int /\ rest \in 0..(UnitSize - 1)
  <2> HIDE DEF payout
  <2> QED BY <1>1, WholeUnits
<1>5. units * UnitSize \in Int
  <2> HIDE DEF units
  <2> QED BY <1>4
<1>6. remaining + pending - units * UnitSize = (remaining - kept) + rest
  <2> HIDE DEF kept, pending, units
  <2> QED BY <1>1, <1>5
<1>7. (remaining - kept) + rest \in -QuoteThreshold..(UnitSize - 1)
  <2> DEFINE forgiven == remaining - kept
  <2> HIDE DEF rest
  <2>1. forgiven \in -QuoteThreshold..0
    BY <1>2
  <2> HIDE DEF forgiven
  <2>2. forgiven + rest \in -QuoteThreshold..(UnitSize - 1)
    BY <1>4, <2>1
  <2> QED BY <2>2 DEF forgiven
<1> HIDE DEF units, rest, kept
<1>8. QED
  BY <1>3, <1>4, <1>6, <1>7

\* An exit moves the wallet's positions and their price to the Exit Fund and
\* the rest of its quote, with its pending deposits, out.
LEMMA WithdrawPositionsConserves ==
    ASSUME CInv, NEW w \in Wallets, WithdrawPositions(w)
    PROVE  Conserving
<1> DEFINE fund      == exitFundWallet
           funded    == Funded(ledger, w)
           prices    == ExitQuoteQuantities(funded, w, oraclePrice, FieldsFor(w))
           change    == AcquisitionQuoteChange(funded, w, prices)
           moved     == AcquirePositions(funded, w, fund, prices, Lengths(history))
           acquired  == AddQuote(moved, fund, change)
           remaining == RemainingQuote(funded, w, change)
           units     == ExitUnits(w, remaining)
           pending   == pendingDepositQuantity[w]
           rest      == remaining + pending - units * UnitSize
<1>1. /\ fund \in Wallets /\ history \in [Markets -> Seq(Int)] /\ SoundLedger(ledger)
      /\ UnitSize \in Nat \ {0} /\ QuoteThreshold \in Nat /\ custodianBalance \in Nat
      /\ pendingDepositQuantity \in [Wallets -> Nat] /\ PendingSum \in Int
      /\ pending \in Nat /\ Nothing \in [Markets -> Int]
  <2>1. Nothing \in [Markets -> Int]
    BY DEF Nothing
  <2>2. PendingSum \in Int
    BY LedgerDated, ClaimsAddUp DEF PendingSum
  <2> QED BY <2>1, <2>2, LedgerDated
<1>2. /\ Moves(ledger, funded, history, 0, Nothing) /\ DatedLedger(funded, history)
      /\ IsCurrent(funded, w, history) /\ IsCurrent(funded, fund, history)
  BY FundedMoves
<1>3. SoundLedger(funded)
  BY <1>2 DEF DatedLedger
<1>4. /\ ledger' = SetQuote(acquired, w, 0)
      /\ custodianBalance' = custodianBalance - units
      /\ pendingDepositQuantity' = [pendingDepositQuantity EXCEPT ![w] = 0]
      /\ UNCHANGED <<history, exitFundWallet>>
  BY LedgerDated DEF WithdrawPositions, marketVars
<1> HIDE DEF funded
<1>5. prices \in [Markets -> Int]
  <2>1. oraclePrice \in [Markets -> Nat] /\ FieldsFor(w) \in [Markets -> MarketFields]
    BY ParameterTypes DEF CInv, IInv, TypeOK
  <2> QED BY <1>3, <2>1, ClosingQuotesType
<1> HIDE DEF prices
<1>6. change \in Int
  BY <1>3, <1>5, AcquisitionQuoteChangeType
<1> HIDE DEF change
<1>7. Moves(funded, moved, history, 0, Nothing)
  BY <1>1, <1>2, <1>5, AcquirePositionsMoves
<1>8. moved.quote = funded.quote
  BY DEF AcquirePositions, SetPositions
<1> HIDE DEF moved
<1>9. DatedLedger(moved, history)
  BY <1>7 DEF Moves
<1>10. Moves(moved, acquired, history, change, Nothing)
  BY <1>1, <1>6, <1>9, AddQuoteMoves
<1>11. acquired.quote[w] = funded.quote[w] + (IF w = fund THEN change ELSE 0)
  <2>1. moved.quote \in [Wallets -> Int]
    BY <1>9 DEF DatedLedger, SoundLedger, Ledger
  <2>2. moved.quote[w] \in Int
    BY <2>1
  <2> HIDE DEF fund
  <2> QED BY <1>1, <1>6, <1>8, <2>1, <2>2 DEF AddQuote, SetQuote
<1> HIDE DEF acquired
<1>12. DatedLedger(acquired, history)
  BY <1>10 DEF Moves
<1>13. Moves(acquired, ledger', history, 0 - acquired.quote[w], Nothing)
  BY <1>1, <1>4, <1>12, SetQuoteMoves, SMTT(30)
<1>14. remaining \in Int /\ change + (0 - acquired.quote[w]) = -remaining
       /\ 0 - acquired.quote[w] \in Int
  <2>1. funded.quote[w] \in Int
    BY <1>3, LedgerTypes
  <2> QED BY <1>6, <1>11, <2>1 DEF RemainingQuote
<1> HIDE DEF remaining
<1>15. Moves(ledger, ledger', history, -remaining, Nothing)
  <2>1. Moves(ledger, moved, history, 0, Nothing)
    BY <1>1, <1>2, <1>7, NothingMovesTwice
  <2>2. Moves(ledger, acquired, history, change, Nothing)
    BY <1>1, <1>6, <1>10, <2>1, NothingMovesBefore
  <2>3. \A m \in Markets : Nothing[m] = Nothing[m] + Nothing[m]
    BY DEF Nothing
  <2>4. Moves(ledger, ledger', history, change + (0 - acquired.quote[w]), Nothing)
    <3> DEFINE swept == 0 - acquired.quote[w]
    <3>1. swept \in Int /\ Moves(acquired, ledger', history, swept, Nothing)
      BY <1>13, <1>14
    <3> HIDE DEF swept
    <3>2. Moves(ledger, ledger', history, change + swept, Nothing)
      BY <1>1, <1>6, <2>2, <2>3, <3>1, MovesAddUp
    <3> QED BY <3>2 DEF swept
  <2> QED BY <1>14, <2>4
<1>16. units \in Int /\ rest \in -QuoteThreshold..(UnitSize - 1)
  BY <1>1, <1>14, ExitRemainder
<1> HIDE DEF units
<1>17. PendingSum' = PendingSum - pending
  <2>1. PendingSum' = PendingSum + 0 - pending
    BY <1>1, <1>4, PendingChange DEF PendingSum
  <2> HIDE DEF pending
  <2> QED BY <1>1, <2>1
<1> HIDE DEF pending
<1>18. (custodianBalance' - custodianBalance) * UnitSize - (-remaining + (PendingSum' - PendingSum))
         = rest
  <2>1. custodianBalance' - custodianBalance = -units /\ PendingSum' - PendingSum = -pending
    BY <1>1, <1>4, <1>16, <1>17
  <2>2. (-units) * UnitSize = -(units * UnitSize) /\ units * UnitSize \in Int
    BY <1>1, <1>16
  <2> QED BY <1>1, <1>14, <2>1, <2>2
<1> HIDE DEF rest
<1>19. -remaining \in Int /\ \A m \in Markets : Nothing[m] = 0
  BY <1>14 DEF Nothing
<1>20. QED
  BY <1>1, <1>4, <1>15, <1>16, <1>18, <1>19 DEF Conserving

\* The Exit Fund's withdrawal keeps the fraction of a unit.
LEMMA WithdrawExitFundConserves ==
    ASSUME CInv, WithdrawExitFund
    PROVE  Conserving
<1> DEFINE fund     == exitFundWallet
           funded   == Funded(ledger, fund)
           quantity == funded.quote[fund]
           units    == quantity \div UnitSize
           rest     == quantity - units * UnitSize
<1>1. /\ fund \in Wallets /\ history \in [Markets -> Seq(Int)] /\ SoundLedger(ledger)
      /\ UnitSize \in Nat \ {0} /\ QuoteThreshold \in Nat /\ custodianBalance \in Nat
      /\ PendingSum \in Int /\ Nothing \in [Markets -> Int]
  <2>1. Nothing \in [Markets -> Int]
    BY DEF Nothing
  <2>2. PendingSum \in Int
    BY LedgerDated, ClaimsAddUp DEF PendingSum
  <2> QED BY <2>1, <2>2, LedgerDated
<1>2. Moves(ledger, funded, history, 0, Nothing) /\ DatedLedger(funded, history)
  BY <1>1, FundedMoves
<1>3. /\ ledger' = SetQuote(funded, fund, 0)
      /\ custodianBalance' = custodianBalance - units
      /\ UNCHANGED <<pendingDepositQuantity, history, exitFundWallet>>
  BY DEF WithdrawExitFund, marketVars
<1> HIDE DEF funded
<1>4. quantity \in Int
  BY <1>1, <1>2, LedgerTypes DEF DatedLedger
<1>5. Moves(funded, ledger', history, 0 - quantity, Nothing)
  BY <1>1, <1>2, <1>3, SetQuoteMoves, SMTT(30)
<1> HIDE DEF quantity
<1>6. 0 - quantity \in Int
  BY <1>4
<1>7. Moves(ledger, ledger', history, 0 - quantity, Nothing)
  BY <1>1, <1>2, <1>5, <1>6, NothingMovesBefore
<1>8. units \in Int /\ rest \in 0..(UnitSize - 1)
  BY <1>1, <1>4, WholeUnits
<1> HIDE DEF units
<1>9. PendingSum' = PendingSum
  BY <1>3 DEF PendingSum
<1>10. (custodianBalance' - custodianBalance) * UnitSize - (0 - quantity + (PendingSum' - PendingSum))
         = rest
  <2>1. custodianBalance' - custodianBalance = -units /\ PendingSum' - PendingSum = 0
    BY <1>1, <1>3, <1>8, <1>9
  <2>2. (-units) * UnitSize = -(units * UnitSize) /\ units * UnitSize \in Int
    BY <1>1, <1>8
  <2> QED BY <1>4, <2>1, <2>2
<1> HIDE DEF rest
<1>11. rest \in -QuoteThreshold..(UnitSize - 1)
  BY <1>1, <1>8
<1>12. \A m \in Markets : Nothing[m] = 0
  BY DEF Nothing
<1>13. QED
  BY <1>1, <1>3, <1>6, <1>7, <1>10, <1>11, <1>12 DEF Conserving

\* Exits of every kind; another Exit Fund is a step of its own.
LEMMA WalletExitsConserve ==
    ASSUME CInv, WalletExitsNext, ~ \E w \in ExitFundWallets : SetExitFundWallet(w)
    PROVE  Conserving
<1>1. ASSUME NEW w \in Wallets, ExitWallet(w) \/ ClearWalletExit(w)
      PROVE  Conserving
  BY <1>1, QuietStep DEF ExitWallet, ClearWalletExit, custodyVars, fundVars, marketVars
<1>2. QED
  BY <1>1, WithdrawPositionsConserves, WithdrawExitFundConserves
     DEF WalletExitsNext, WithdrawExit, WithdrawExitAdmin


-----------------------------------------------------------------------------
(* Markets. *)

\* Deposits, transfers and withdrawals of every kind.
LEMMA CustodyConserves ==
    ASSUME CInv, CustodyNext
    PROVE  Conserving
<1>1. ASSUME SetDepositIndex \/ \E isEnabled \in BOOLEAN : SetDepositEnabled(isEnabled)
      PROVE  Conserving
  BY <1>1, QuietStep DEF SetDepositIndex, SetDepositEnabled, fundVars, marketVars
<1>2. QED
  BY <1>1, DepositConserves, ApplyPendingDepositsConserves, TransferQuoteConserves,
     WithdrawConserves DEF CustodyNext

\* Settling a part of a position's funding moves it to the quote balance.
LEMMA ApplyFundingForMarketConserves ==
    ASSUME CInv, NEW w \in Wallets, NEW m \in Markets,
           ApplyOutstandingWalletFundingForMarket(w, m)
    PROVE  Conserving
<1> DEFINE p    == ledger.position[w][m]
           last == Smaller(p.lastUpdate + 1 + MaxFundingPeriods, Len(history[m]))
<1>1. /\ DatedLedger(ledger, history) /\ SoundLedger(ledger)
      /\ history \in [Markets -> Seq(Int)]
  BY LedgerDated
<1>2. Len(history[m]) \in Nat /\ p.lastUpdate \in Nat
  BY <1>1, HistoryTypes, LedgerTypes
<1>3. last \in Nat /\ last <= Len(history[m])
  <2> HIDE DEF p
  <2> QED BY <1>2, MarketAssumption DEF Smaller
<1>4. SoundLedger(ledger')
  <2>1. IInv'
    BY ApplyFundingForMarketStep DEF CInv
  <2> QED BY <2>1 DEF IInv, TypeOK, OpenMarketsAreTracked, SoundLedger
<1>5. /\ ledger' = AddQuote(SetPositions(ledger, w,
                               [ledger.position[w] EXCEPT ![m] = FundedPosition(@, last)],
                               ledger.open[w]),
                            w, FundingPayment(p, history[m], last))
      /\ UNCHANGED <<pendingDepositQuantity, custodianBalance, history, exitFundWallet>>
  BY DEF ApplyOutstandingWalletFundingForMarket, custodyVars, fundVars, marketVars
<1> HIDE DEF last
<1>6. Moves(ledger, ledger', history, 0, Nothing)
  BY <1>1, <1>3, <1>4, <1>5, PartialFundingMoves
<1>7. QED
  BY <1>5, <1>6, MovesNothingStep

\* Markets, prices and parameters; published funding is a step of its own.
LEMMA MarketAdminConserves ==
    ASSUME CInv, MarketAdminNext,
           ~ \E m \in Markets, rate \in FundingRates : PublishFundingMultiplier(m, rate)
    PROVE  Conserving
<1>1. ASSUME NEW m \in Markets, ActivateMarket(m) \/ DeactivateMarket(m)
      PROVE  Conserving
  BY <1>1, QuietStep DEF ActivateMarket, DeactivateMarket, custodyVars, fundVars
<1>2. ASSUME PriceNext
      PROVE  Conserving
  BY <1>2, QuietStep DEF PriceNext, PublishIndexPrice, OraclePriceChange, custodyVars, fundVars
<1>3. ASSUME ParameterNext
      PROVE  Conserving
  BY <1>3, QuietStep DEF ParameterNext, SetMarketOverrides, SetMarketDefaults,
     UnsetMarketOverridesForWallet, SetChainPropagationPeriod, custodyVars, fundVars, marketVars
<1>4. QED
  BY <1>1, <1>2, <1>3, ApplyFundingForMarketConserves DEF MarketAdminNext, FundingNext

-----------------------------------------------------------------------------
(* The Exchange. *)

\* Every transaction conserves base and quote, except that funding is published
\* and another Exit Fund appointed without touching any balance.
LEMMA NextConserves ==
    ASSUME CInv, [Next]_vars
    PROVE  \/ Conserving
           \/ \E w \in ExitFundWallets : SetExitFundWallet(w)
           \/ \E m \in Markets, rate \in FundingRates : PublishFundingMultiplier(m, rate)
<1>1. CASE Tick
  BY <1>1, QuietStep DEF Tick, custodyVars, fundVars, marketVars
<1>2. CASE UNCHANGED vars
  BY <1>2, QuietStep DEF vars, custodyVars, fundVars, marketVars
<1>3. QED
  BY <1>1, <1>2, CustodyConserves, TradingConserves, LiquidationConserves, DeleveragingConserves,
     WalletExitsConserve, MarketAdminConserves DEF Next

\* A wallet without open markets has no funding outstanding.
LEMMA NothingOpenIsCurrent ==
    ASSUME NEW l, SoundLedger(l), NEW w \in Wallets, l.open[w] = {}, NEW h
    PROVE  IsCurrent(l, w, h)
BY LedgerTypes DEF IsCurrent

\* A longer history leaves no position dated later than its end.
LEMMA HistoryGrows ==
    ASSUME CInv, IInv', NEW m \in Markets, NEW rate \in FundingRates,
           PublishFundingMultiplier(m, rate)
    PROVE  IsDated(ledger, history')
<1> DEFINE added == Append([i \in 1..PeriodsToBackfill(m) |-> 0], FundingMultiplier(m, rate))
<1>1. history \in [Markets -> Seq(Int)] /\ history' \in [Markets -> Seq(Int)]
  BY DEF CInv, IInv, TypeOK
<1>2. history' = [history EXCEPT ![m] = @ \o added]
  BY DEF PublishFundingMultiplier
<1> HIDE DEF added
<1>3. ASSUME NEW x \in Markets
      PROVE  Len(history[x]) <= Len(history'[x])
  <2>1. CASE x = m
    <3>1. history'[m] = history[m] \o added
      BY <1>1, <1>2
    <3>2. Len(history[m]) \in Nat /\ Len(history'[m]) \in Nat
      BY <1>1, HistoryTypes
    <3> QED BY <2>1, <3>1, <3>2, <1>1
  <2>2. CASE x # m
    <3>1. history'[x] = history[x]
      BY <1>1, <1>2, <2>2
    <3>2. Len(history[x]) \in Nat
      BY <1>1, HistoryTypes
    <3> QED BY <3>1, <3>2
  <2> QED BY <2>1, <2>2
<1>4. ASSUME NEW w \in Wallets, NEW x \in Markets
      PROVE  ledger.position[w][x].lastUpdate <= Len(history'[x])
  <2>1. /\ ledger.position[w][x].lastUpdate \in Nat
        /\ ledger.position[w][x].lastUpdate <= Len(history[x])
        /\ Len(history[x]) \in Nat /\ Len(history'[x]) \in Nat
    BY <1>1, LedgerDated, LedgerTypes, HistoryTypes DEF DatedLedger, IsDated
  <2> QED BY <1>3, <2>1
<1>5. QED
  BY <1>4 DEF IsDated


\* The Exchange starts with no funding outstanding.
LEMMA InitCurrent ==
    ASSUME Init
    PROVE  CInv
<1>1. IInv
  BY InitSound
<1>2. BackfilledPeriods \in Nat
  BY InitialAssumption, ParameterAssumption DEF BackfilledPeriods
<1>3. ASSUME NEW m \in Markets
      PROVE  Len(history[m]) = BackfilledPeriods
  <2> DEFINE zeros == [i \in 1..BackfilledPeriods |-> 0]
  <2>1. history[m] = zeros
    BY DEF Init
  <2>2. zeros \in [1..BackfilledPeriods -> Int] /\ DOMAIN zeros = 1..BackfilledPeriods
    OBVIOUS
  <2> HIDE DEF zeros
  <2>3. zeros \in Seq(Int)
    BY <1>2, <2>2, SeqDef
  <2>4. DOMAIN zeros = 1..Len(zeros) /\ Len(zeros) \in Nat
    BY <2>3, LenProperties
  <2>5. Len(zeros) = BackfilledPeriods
    BY <1>2, <2>2, <2>4
  <2> QED BY <2>1, <2>5
<1>4. ledger = InitialLedger /\ exitFundWallet = InitialExitFund
  BY DEF Init
<1>5. IsDated(ledger, history)
  <2>1. ASSUME NEW w \in Wallets, NEW m \in Markets
        PROVE  InitialLedger.position[w][m].lastUpdate <= Len(history[m])
    BY <1>2, <1>3, InitialAssumption DEF CostHasSign, ZeroPosition
  <2> QED BY <1>4, <2>1 DEF IsDated
<1>6. IsCurrent(ledger, exitFundWallet, history)
  <2>1. InitialExitFund \in Wallets /\ InitialLedger.open[InitialExitFund] = {}
    BY InitialAssumption
  <2>2. SoundLedger(InitialLedger)
    BY <1>1, <1>4, LedgerSound
  <2> QED BY <1>4, <2>1, <2>2, NothingOpenIsCurrent
<1>7. QED
  BY <1>1, <1>5, <1>6 DEF CInv

\* The Exit Fund's funding stays current: whatever it acquires is dated by the
\* history, which does not grow while the Exit Fund has positions.
LEMMA NextCurrent ==
    ASSUME CInv, [Next]_vars
    PROVE  CInv'
<1>1. IInv' /\ IInv
  BY NextSound DEF CInv
<1>2. /\ DatedLedger(ledger, history) /\ SoundLedger(ledger)
      /\ exitFundWallet \in Wallets /\ IsCurrent(ledger, exitFundWallet, history)
  BY LedgerDated
<1>3. CASE Conserving
  <2>1. /\ history' = history /\ exitFundWallet' = exitFundWallet
        /\ DatedLedger(ledger', history) /\ IsCurrent(ledger', exitFundWallet, history)
    BY <1>2, <1>3 DEF Conserving, Moves
  <2>2. IsDated(ledger', history') /\ IsCurrent(ledger', exitFundWallet', history')
    BY <2>1 DEF DatedLedger
  <2>3. IsDated(ledger, history)' /\ IsCurrent(ledger, exitFundWallet, history)'
    BY <2>2 DEF IsDated, IsCurrent
  <2> QED BY <1>1, <2>3 DEF CInv
<1>4. ASSUME NEW w \in ExitFundWallets, SetExitFundWallet(w)
      PROVE  CInv'
  <2>1. w \in Wallets /\ ledger.open[w] = {} /\ exitFundWallet' = w
        /\ ledger' = ledger /\ history' = history
    BY <1>4, ExitAssumption DEF SetExitFundWallet, HasOpenBalance, marketVars
  <2>2. IsDated(ledger', history') /\ IsCurrent(ledger', exitFundWallet', history')
    BY <1>2, <2>1, NothingOpenIsCurrent DEF DatedLedger
  <2>3. IsDated(ledger, history)' /\ IsCurrent(ledger, exitFundWallet, history)'
    BY <2>2 DEF IsDated, IsCurrent
  <2> QED BY <1>1, <2>3 DEF CInv
<1>5. ASSUME NEW m \in Markets, NEW rate \in FundingRates, PublishFundingMultiplier(m, rate)
      PROVE  CInv'
  <2>1. /\ ledger.open[exitFundWallet] = {} /\ exitFundWallet' = exitFundWallet
        /\ ledger' = ledger
    BY <1>5 DEF PublishFundingMultiplier, ExitFundHasPositions, fundVars
  <2>2. IsDated(ledger, history')
    BY <1>1, <1>5, HistoryGrows
  <2>3. IsDated(ledger', history') /\ IsCurrent(ledger', exitFundWallet', history')
    BY <1>2, <2>1, <2>2, NothingOpenIsCurrent
  <2>4. IsDated(ledger, history)' /\ IsCurrent(ledger, exitFundWallet, history)'
    BY <2>3 DEF IsDated, IsCurrent
  <2> QED BY <1>1, <2>4 DEF CInv
<1>6. QED
  BY <1>3, <1>4, <1>5, NextConserves

\* In an active market the sum of positions does not change.
LEMMA BaseStep ==
    ASSUME CInv, [Next]_vars, NEW m \in Markets,
           PositionSum(ledger, m)' # PositionSum(ledger, m)
    PROVE  ~markets[m].isActive
<1>1. PositionSum(ledger, m)' = PositionSum(ledger', m)
  BY DEF PositionSum
<1>2. PositionSum(ledger, m) \in Int
  BY LedgerDated, TotalTypes
<1>3. CASE Conserving
  <2>1. PICK quote \in Int, base \in [Markets -> Int] :
          /\ Moves(ledger, ledger', history, quote, base)
          /\ \A x \in Markets : base[x] # 0 => ~markets[x].isActive
    BY <1>3 DEF Conserving
  <2>2. PositionSum(ledger', m) = PositionSum(ledger, m) + base[m] /\ base[m] \in Int
    BY <2>1 DEF Moves
  <2> QED BY <1>1, <1>2, <2>1, <2>2
<1>4. CASE ledger' = ledger
  BY <1>1, <1>4
<1>5. QED
  BY <1>3, <1>4, NextConserves DEF SetExitFundWallet, PublishFundingMultiplier

\* Where no sum of positions and no history changes, the Custodian's tokens
\* back the same claims, but for what a payout keeps or an exit forgives.
LEMMA QuoteStep ==
    ASSUME CInv, [Next]_vars, history' = history,
           \A m \in Markets : PositionSum(ledger, m)' = PositionSum(ledger, m)
    PROVE  Backing' - Backing \in -QuoteThreshold..(UnitSize - 1)
<1>1. /\ SoundLedger(ledger) /\ history \in [Markets -> Seq(Int)]
      /\ pendingDepositQuantity \in [Wallets -> Nat] /\ custodianBalance \in Nat
      /\ UnitSize \in Nat \ {0} /\ QuoteThreshold \in Nat
  BY LedgerDated
<1>2. /\ SoundLedger(ledger') /\ pendingDepositQuantity' \in [Wallets -> Nat]
      /\ custodianBalance' \in Nat
  <2>1. IInv'
    BY NextSound DEF CInv
  <2> QED BY <2>1 DEF IInv, TypeOK, OpenMarketsAreTracked, SoundLedger
<1> DEFINE worth  == TotalWorth(ledger, history)
           worthN == TotalWorth(ledger', history)
           units  == custodianBalance * UnitSize
           unitsN == custodianBalance' * UnitSize
<1>3. Claims = worth + PendingSum /\ worth \in Int /\ PendingSum \in Int
  BY <1>1, ClaimsAddUp DEF Claims, PendingSum
<1>4. Claims' = worthN + PendingSum' /\ worthN \in Int /\ PendingSum' \in Int
  <2>1. Claims' = SumTo([w \in Wallets |-> ledger'.quote[w]
                                             + OutstandingWalletFunding(ledger', w, history)
                                             + pendingDepositQuantity'[w]], NumWallets)
    BY DEF Claims, OutstandingWalletFunding
  <2>2. PendingSum' = SumTo(pendingDepositQuantity', NumWallets)
    BY DEF PendingSum
  <2> QED BY <1>1, <1>2, <2>1, <2>2, ClaimsAddUp
<1>5. /\ units \in Int /\ unitsN \in Int
      /\ (custodianBalance' - custodianBalance) * UnitSize = unitsN - units
  BY <1>1, <1>2
<1>6. Backing = units - Claims /\ Backing' = unitsN - Claims'
  BY DEF Backing
<1>7. 0 \in -QuoteThreshold..(UnitSize - 1)
  BY <1>1
<1>8. CASE Conserving
  <2>1. PICK quote \in Int, base \in [Markets -> Int] :
          /\ Moves(ledger, ledger', history, quote, base)
          /\ (\A x \in Markets : base[x] = 0) =>
                (custodianBalance' - custodianBalance) * UnitSize
                    - (quote + (PendingSum' - PendingSum))
                  \in -QuoteThreshold..(UnitSize - 1)
    BY <1>8 DEF Conserving
  <2>2. ASSUME NEW x \in Markets
        PROVE  base[x] = 0
    <3>1. PositionSum(ledger, x)' = PositionSum(ledger', x)
      BY DEF PositionSum
    <3>2. PositionSum(ledger, x) \in Int /\ base[x] \in Int
      BY <1>1, TotalTypes
    <3>3. PositionSum(ledger', x) = PositionSum(ledger, x) + base[x]
      BY <2>1 DEF Moves
    <3>4. PositionSum(ledger, x)' = PositionSum(ledger, x)
      OBVIOUS
    <3> QED BY <3>1, <3>2, <3>3, <3>4
  <2>3. (unitsN - units) - (quote + (PendingSum' - PendingSum)) \in -QuoteThreshold..(UnitSize - 1)
    <3> HIDE DEF units, unitsN
    <3> QED BY <1>5, <2>1, <2>2
  <2>4. worthN = worth + quote
    BY <2>1 DEF Moves
  <2> HIDE DEF worth, worthN, units, unitsN
  <2>5. Backing' - Backing = (unitsN - units) - (quote + (PendingSum' - PendingSum))
    BY <1>3, <1>4, <1>5, <1>6, <2>4
  <2> QED BY <2>3, <2>5
<1>9. CASE UNCHANGED <<ledger, pendingDepositQuantity, custodianBalance>>
  <2>1. worthN = worth /\ PendingSum' = PendingSum /\ unitsN = units
    BY <1>9 DEF PendingSum
  <2> HIDE DEF worth, worthN, units, unitsN
  <2>2. Backing' - Backing = 0
    BY <1>3, <1>4, <1>5, <1>6, <2>1
  <2> QED BY <1>7, <2>2
<1>10. QED
  BY <1>8, <1>9, NextConserves DEF SetExitFundWallet, PublishFundingMultiplier, custodyVars

\* No transaction creates a position without its counterpart: only the closing
\* of positions in a deactivated market changes the sum over all wallets.
THEOREM PositionsAlwaysConserved == Spec => PositionsAreConserved
<1>1. Init => CInv
  BY InitCurrent
<1>2. CInv /\ [Next]_vars => CInv'
  BY NextCurrent
<1> DEFINE Step == \A m \in Markets :
                     PositionSum(ledger, m)' # PositionSum(ledger, m) => ~markets[m].isActive
<1>3. CInv /\ [Next]_vars => [Step]_vars
  BY BaseStep
<1>4. QED
  BY <1>1, <1>2, <1>3, PTL DEF Spec, PositionsAreConserved

\* No transaction creates or destroys quote: the tokens in the Custodian move
\* with what the wallets are owed, outstanding funding and pending deposits
\* included, up to the rounding of payouts and the threshold of exits.
THEOREM QuoteAlwaysConserved == Spec => QuoteIsConserved
<1>1. Init => CInv
  BY InitCurrent
<1>2. CInv /\ [Next]_vars => CInv'
  BY NextCurrent
<1> DEFINE Step == (/\ history' = history
                    /\ \A m \in Markets : PositionSum(ledger, m)' = PositionSum(ledger, m))
                   => Backing' - Backing \in -QuoteThreshold..(UnitSize - 1)
<1>3. CInv /\ [Next]_vars => [Step]_vars
  BY QuoteStep
<1>4. QED
  BY <1>1, <1>2, <1>3, PTL DEF Spec, QuoteIsConserved

\* The Exit Fund never has funding outstanding, although an exit does not settle it
\* when the Exit Fund takes over the positions.
THEOREM ExitFundFundingAlwaysCurrent == Spec => []ExitFundFundingIsCurrent
<1>1. Init => CInv
  BY InitCurrent
<1>2. CInv /\ [Next]_vars => CInv'
  BY NextCurrent
<1>3. CInv => ExitFundFundingIsCurrent
  <2>1. ASSUME CInv, NEW m \in ledger.open[exitFundWallet]
        PROVE  ledger.position[exitFundWallet][m].lastUpdate = Len(history[m])
    BY <2>1, LedgerDated, LedgerTypes DEF IsCurrent
  <2> QED BY <2>1 DEF ExitFundFundingIsCurrent
<1>4. QED
  BY <1>1, <1>2, <1>3, PTL DEF Spec

-----------------------------------------------------------------------------
(* Products, and quotients that are rounded. *)

\* A product keeps the order of its first factor.
LEMMA ProductMonotone ==
    ASSUME NEW a \in Int, NEW b \in Int, NEW c \in Nat, a <= b
    PROVE  a * c \in Int /\ b * c \in Int /\ a * c <= b * c
<1>1. b - a \in Nat
  OBVIOUS
<1>2. \A d \in Nat : d * c \in Nat
  OBVIOUS
<1>3. (b - a) * c = b * c - a * c
  OBVIOUS
<1>4. QED
  BY <1>1, <1>2, <1>3

\* A positive common factor can be cancelled.
LEMMA ProductCancel ==
    ASSUME NEW a \in Int, NEW b \in Int, NEW c \in Nat \ {0}, a * c <= b * c
    PROVE  a <= b
<1>1. SUFFICES ASSUME a >= b + 1
               PROVE  FALSE
  OBVIOUS
<1>2. (b + 1) * c <= a * c
  BY <1>1, ProductMonotone
<1>3. (b + 1) * c = b * c + c
  OBVIOUS
<1>4. QED
  BY <1>2, <1>3

\* A quotient that is rounded down.
LEMMA QuotientBounds ==
    ASSUME NEW a \in Nat, NEW n \in Nat \ {0}
    PROVE  /\ a \div n \in Nat
           /\ (a \div n) * n <= a
           /\ a < (a \div n) * n + n
OBVIOUS

\* Rounding down keeps the order.
LEMMA QuotientMonotone ==
    ASSUME NEW a \in Nat, NEW b \in Nat, NEW n \in Nat \ {0}, a <= b
    PROVE  a \div n <= b \div n
<1> DEFINE p == a \div n
           q == b \div n
<1>1. /\ p \in Nat /\ q \in Nat
      /\ p * n <= a /\ b < q * n + n
  BY QuotientBounds
<1> HIDE DEF p, q
<1>2. p <= q
  <2>1. SUFFICES ASSUME p >= q + 1
                 PROVE  FALSE
    BY <1>1
  <2>2. (q + 1) * n <= p * n
    BY <1>1, <2>1, ProductMonotone
  <2>3. (q + 1) * n = q * n + n /\ q * n \in Int /\ p * n \in Int
    BY <1>1
  <2> QED BY <1>1, <2>2, <2>3
<1>3. QED
  BY <1>2 DEF p, q

\* Truncating division moves an integer towards zero, by less than one.
LEMMA TruncDivBounds ==
    ASSUME NEW a \in Int, NEW n \in Nat \ {0}
    PROVE  /\ TruncDiv(a, n) \in Int
           /\ TruncDiv(a, n) = IF a >= 0 THEN a \div n ELSE -((-a) \div n)
           /\ a >= 0 => TruncDiv(a, n) >= 0 /\ TruncDiv(a, n) * n <= a
           /\ a <= 0 => TruncDiv(a, n) <= 0 /\ TruncDiv(a, n) * n < a + n
<1>1. Abs(n) = n /\ n > 0 /\ (a >= 0 => Abs(a) = a) /\ (a < 0 => Abs(a) = -a)
  BY DEF Abs
<1>2. TruncDiv(a, n) = IF a >= 0 THEN a \div n ELSE -((-a) \div n)
  BY <1>1 DEF TruncDiv
<1>3. CASE a >= 0
  <2>1. a \div n \in Nat /\ (a \div n) * n <= a /\ a < (a \div n) * n + n
    BY <1>3, QuotientBounds
  <2>2. a <= 0 => a \div n = 0
    <3>1. 0 \div n = 0
      OBVIOUS
    <3> QED BY <1>3, <3>1
  <2> DEFINE q == a \div n
  <2> HIDE DEF q
  <2>3. TruncDiv(a, n) = q
    BY <1>2, <1>3 DEF q
  <2>4. q \in Nat /\ q * n <= a /\ a < q * n + n /\ (a <= 0 => q = 0) /\ q * n \in Int
    <3>1. q \in Nat /\ q * n <= a /\ a < q * n + n /\ (a <= 0 => q = 0)
      BY <2>1, <2>2 DEF q
    <3> QED BY <3>1
  <2>5. a <= 0 => q * n < a + n
    BY <2>4, <1>3
  <2> QED BY <1>2, <2>3, <2>4, <2>5
<1>4. CASE a < 0
  <2>0. -a \in Nat
    BY <1>4
  <2> DEFINE q == (-a) \div n
  <2>1. q \in Nat /\ q * n <= -a /\ -a < q * n + n
    BY <2>0, QuotientBounds
  <2>2. TruncDiv(a, n) = -q
    BY <1>2, <1>4
  <2> HIDE DEF q
  <2>3. (-q) * n = -(q * n) /\ q * n \in Int
    BY <2>1
  <2>4. (-q) * n < a + n /\ -q <= 0 /\ -q \in Int
    BY <2>1, <2>3
  <2> QED BY <1>2, <1>4, <2>2, <2>4
<1>5. QED
  BY <1>3, <1>4

\* Truncating division keeps the order.
LEMMA TruncDivMonotone ==
    ASSUME NEW a \in Int, NEW b \in Int, NEW n \in Nat \ {0}, a <= b
    PROVE  TruncDiv(a, n) <= TruncDiv(b, n)
<1>1. CASE a >= 0
  <2>1. a \in Nat /\ b \in Nat
    BY <1>1
  <2>2. a \div n <= b \div n
    BY <2>1, QuotientMonotone
  <2> DEFINE p == a \div n
             q == b \div n
  <2>3. TruncDiv(a, n) = p /\ TruncDiv(b, n) = q
    <3>1. a >= 0 /\ b >= 0
      BY <2>1
    <3>2. /\ TruncDiv(a, n) = IF a >= 0 THEN a \div n ELSE -((-a) \div n)
          /\ TruncDiv(b, n) = IF b >= 0 THEN b \div n ELSE -((-b) \div n)
      BY TruncDivBounds
    <3> QED BY <3>1, <3>2, Zenon
  <2>4. p <= q
    BY <2>2
  <2> HIDE DEF p, q
  <2> QED BY <2>3, <2>4
<1>2. CASE a < 0 /\ b >= 0
  <2>1. TruncDiv(a, n) <= 0 /\ TruncDiv(b, n) >= 0 /\ TruncDiv(a, n) \in Int
        /\ TruncDiv(b, n) \in Int
    BY <1>2, TruncDivBounds
  <2> QED BY <2>1
<1>3. CASE b < 0
  <2>1. -a \in Nat /\ -b \in Nat /\ -b <= -a /\ a < 0
    BY <1>3
  <2>2. (-b) \div n <= (-a) \div n
    BY <2>1, QuotientMonotone
  <2>3. TruncDiv(a, n) = -((-a) \div n) /\ TruncDiv(b, n) = -((-b) \div n)
    BY <1>3, <2>1, TruncDivBounds
  <2>4. (-b) \div n \in Nat /\ (-a) \div n \in Nat
    BY <2>1, QuotientBounds
  <2> QED BY <2>2, <2>3, <2>4
<1>4. QED
  BY <1>1, <1>2, <1>3

\* Both signs are truncated alike.
LEMMA TruncDivOdd ==
    ASSUME NEW a \in Int, NEW n \in Nat \ {0}
    PROVE  TruncDiv(-a, n) = -TruncDiv(a, n)
<1>1. TruncDiv(a, n) = IF a >= 0 THEN a \div n ELSE -((-a) \div n)
  BY TruncDivBounds
<1>2. TruncDiv(-a, n) = IF -a >= 0 THEN (-a) \div n ELSE -((-(-a)) \div n)
  <2>1. -a \in Int
    OBVIOUS
  <2> QED BY <2>1, TruncDivBounds
<1>3. -(-a) = a /\ 0 \div n = 0
  OBVIOUS
<1>4. CASE a > 0
  BY <1>1, <1>2, <1>3, <1>4
<1>5. CASE a = 0
  BY <1>1, <1>2, <1>3, <1>5
<1>6. CASE a < 0
  <2>1. -a \in Nat
    BY <1>6
  <2>2. (-a) \div n \in Nat
    BY <2>1, QuotientBounds
  <2> QED BY <1>1, <1>2, <1>6, <2>2
<1>7. QED
  BY <1>4, <1>5, <1>6

-----------------------------------------------------------------------------
(* What an exit pays: the price of one position. *)

\* What a position adds to its wallet's quote when it is closed at a quote quantity.
Gain(positionSize, quantity) == IF positionSize < 0 THEN -quantity ELSE quantity

\* At the exit price a position is never closed for more than it is worth.
LEMMA ExitPriceIsWorse ==
    ASSUME NEW costBasis \in Int, NEW price \in Nat, NEW size \in Int
    PROVE  Gain(size, QuoteQuantityAtExitPrice(costBasis, price, size))
             <= QuoteValue(size, price)
<1> DEFINE atPrice == QuoteValue(Abs(size), price)
           value   == QuoteValue(size, price)
<1>1. Abs(costBasis) \in Nat /\ Abs(size) \in Nat
  BY DEF Abs
<1>2. atPrice \in Int /\ value \in Int
  <2>1. Abs(size) \in Int /\ price \in Int
    BY <1>1
  <2> QED BY <2>1, QuoteValueType
<1>3. CASE size < 0
  <2>1. -(size * price) = Abs(size) * price /\ size * price \in Int
    BY <1>3 DEF Abs
  <2>2. atPrice = -value
    <3> DEFINE product == size * price
    <3>1. TruncDiv(-product, PipMultiplier) = -TruncDiv(product, PipMultiplier)
      <4> HIDE DEF product
      <4> QED BY <2>1, TruncDivOdd, PipMultiplierAssumption DEF product
    <3> QED BY <2>1, <3>1 DEF QuoteValue, MultiplyPipsByFraction
  <2> HIDE DEF atPrice, value
  <2>3. -Larger(atPrice, Abs(costBasis)) <= value
    BY <1>1, <1>2, <2>2 DEF Larger
  <2> QED BY <1>3, <2>3 DEF Gain, QuoteQuantityAtExitPrice, atPrice, value
<1>4. CASE size >= 0
  <2>1. Abs(size) = size
    BY <1>4 DEF Abs
  <2>2. atPrice = value
    BY <2>1
  <2> HIDE DEF atPrice, value
  <2>3. Smaller(atPrice, Abs(costBasis)) <= value
    BY <1>1, <1>2, <2>2 DEF Smaller
  <2>4. ~(size < 0)
    BY <1>4
  <2> QED BY <2>3, <2>4 DEF Gain, QuoteQuantityAtExitPrice, atPrice, value
<1>5. QED
  BY <1>3, <1>4

\* A position's part of the account value, in proportion to its maintenance margin.
ShareOf(price, mmf, size, accountValue, mmr) ==
    (Abs(size * price) * mmf * Abs(accountValue)) \div mmr

\* A share is a natural.
LEMMA ShareType ==
    ASSUME NEW price \in Nat, NEW mmf \in Nat, NEW size \in Int,
           NEW accountValue \in Int, NEW mmr \in Nat \ {0}
    PROVE  ShareOf(price, mmf, size, accountValue, mmr) \in Nat
<1> DEFINE dividend == Abs(size * price) * mmf * Abs(accountValue)
<1>1. Abs(size * price) \in Nat /\ Abs(accountValue) \in Nat
  <2>1. size * price \in Int
    OBVIOUS
  <2> QED BY <2>1 DEF Abs
<1>2. dividend \in Nat
  <2> DEFINE a == Abs(size * price)
             v == Abs(accountValue)
  <2>1. a \in Nat /\ v \in Nat
    BY <1>1
  <2> HIDE DEF a, v
  <2>2. a * mmf \in Nat
    BY <2>1
  <2>3. a * mmf * v \in Nat
    BY <2>1, <2>2
  <2> QED BY <2>3 DEF a, v
<1> HIDE DEF dividend
<1>3. dividend \div mmr \in Nat
  BY <1>2, QuotientBounds
<1>4. QED
  BY <1>3 DEF ShareOf, dividend

\* At the bankruptcy price of a solvent account a position is never closed for
\* more than it is worth.
LEMMA BankruptcyPriceSolvent ==
    ASSUME NEW price \in Nat, NEW mmf \in Nat, NEW size \in Int,
           NEW accountValue \in Nat, NEW mmr \in Nat \ {0}
    PROVE  Gain(size, QuoteQuantityAtBankruptcyPrice(price, mmf, size, accountValue, mmr))
             <= QuoteValue(size, price)
<1> DEFINE atPrice  == size * price
           share    == ShareOf(price, mmf, size, accountValue, mmr)
           quantity == TruncDiv(atPrice + (-share), PipMultiplier)
           value    == TruncDiv(atPrice, PipMultiplier)
           paid     == QuoteQuantityAtBankruptcyPrice(price, mmf, size, accountValue, mmr)
<1>1. atPrice \in Int /\ share \in Nat
  <2>1. accountValue \in Int /\ atPrice \in Int
    OBVIOUS
  <2>2. share \in Nat
    BY <2>1, ShareType
  <2> QED BY <2>1, <2>2
<1>2. value = QuoteValue(size, price)
  BY DEF QuoteValue, MultiplyPipsByFraction
<1>3. paid = IF (size < 0 /\ quantity > 0) \/ (size > 0 /\ quantity < 0)
             THEN 0 ELSE Abs(quantity)
  <2>1. ~(accountValue < 0) /\ mmr # 0
    OBVIOUS
  <2> QED BY <2>1 DEF QuoteQuantityAtBankruptcyPrice, ShareOf
<1>4. (size < 0 => atPrice <= 0) /\ (size >= 0 => atPrice >= 0)
  <2>1. size < 0 => -size \in Nat
    OBVIOUS
  <2>2. size < 0 => (-size) * price \in Nat /\ (-size) * price = -(size * price)
    BY <2>1
  <2>3. size >= 0 => size * price \in Nat
    OBVIOUS
  <2> QED BY <1>1, <2>2, <2>3
<1> HIDE DEF atPrice, share, paid
<1>5. /\ quantity \in Int /\ value \in Int /\ quantity <= value
      /\ size < 0 => quantity <= 0 /\ value <= 0
      /\ size >= 0 => value >= 0
  <2>1. atPrice + (-share) \in Int /\ atPrice + (-share) <= atPrice
    BY <1>1
  <2>2. size < 0 => atPrice + (-share) <= 0
    BY <1>1, <1>4
  <2>3. quantity <= value
    BY <1>1, <2>1, TruncDivMonotone, PipMultiplierAssumption
  <2> QED BY <1>1, <1>4, <2>1, <2>2, <2>3, TruncDivBounds, PipMultiplierAssumption
<1>6. size = 0 => quantity <= 0
  <2>1. size = 0 => atPrice = 0
    BY DEF atPrice
  <2>2. size = 0 => atPrice + (-share) <= 0 /\ atPrice + (-share) \in Int
    BY <1>1, <2>1
  <2> QED BY <2>2, TruncDivBounds, PipMultiplierAssumption
<1>7. size = 0 => share = 0
  <2>1. size = 0 => Abs(size * price) * mmf * Abs(accountValue) = 0
    BY DEF Abs
  <2>2. 0 \div mmr = 0
    OBVIOUS
  <2> QED BY <2>1, <2>2 DEF share, ShareOf
<1>8. size = 0 => quantity = 0 /\ value = 0
  <2>1. size = 0 => atPrice = 0 /\ atPrice + (-share) = 0
    BY <1>7 DEF atPrice
  <2>2. TruncDiv(0, PipMultiplier) = 0
    <3>1. 0 \in Int /\ 0 >= 0 /\ 0 <= 0
      OBVIOUS
    <3> QED BY <3>1, TruncDivBounds, PipMultiplierAssumption
  <2> QED BY <2>1, <2>2
<1> HIDE DEF quantity, value
<1>9. Gain(size, paid) <= value
  <2>1. CASE size < 0
    BY <1>3, <1>5, <2>1 DEF Gain, Abs
  <2>2. CASE size > 0
    BY <1>3, <1>5, <2>2 DEF Gain, Abs
  <2>3. CASE size = 0
    BY <1>3, <1>8, <2>3 DEF Gain, Abs
  <2> QED BY <2>1, <2>2, <2>3
<1>10. QED
  BY <1>2, <1>9 DEF paid

\* At the bankruptcy price of an insolvent account a position is closed for what
\* it is worth and its share of the deficit, and less than one pip more.
LEMMA BankruptcyPriceInsolvent ==
    ASSUME NEW price \in Nat, NEW mmf \in Nat, NEW size \in Int,
           NEW accountValue \in Int, accountValue < 0, NEW mmr \in Nat \ {0}
    PROVE  Gain(size, QuoteQuantityAtBankruptcyPrice(price, mmf, size, accountValue, mmr))
             * PipMultiplier
           <= size * price + ShareOf(price, mmf, size, accountValue, mmr) + PipMultiplier
<1> DEFINE atPrice  == size * price
           share    == ShareOf(price, mmf, size, accountValue, mmr)
           exact    == atPrice + share
           quantity == TruncDiv(exact, PipMultiplier)
           paid     == QuoteQuantityAtBankruptcyPrice(price, mmf, size, accountValue, mmr)
<1>1. atPrice \in Int /\ share \in Nat /\ exact \in Int
  <2>1. atPrice \in Int
    OBVIOUS
  <2>2. share \in Nat
    BY ShareType
  <2> HIDE DEF atPrice, share
  <2> QED BY <2>1, <2>2
<1>2. paid = IF (size < 0 /\ quantity > 0) \/ (size > 0 /\ quantity < 0)
             THEN 0 ELSE Abs(quantity)
  <2>1. mmr # 0
    OBVIOUS
  <2> QED BY <2>1 DEF QuoteQuantityAtBankruptcyPrice, ShareOf
<1>3. size >= 0 => atPrice >= 0
  <2>1. size >= 0 => size * price \in Nat
    OBVIOUS
  <2> QED BY <2>1
<1> HIDE DEF atPrice, share, paid
<1>4. size >= 0 => exact >= 0
  BY <1>1, <1>3
<1> HIDE DEF exact
<1>5. /\ quantity \in Int
      /\ exact >= 0 => quantity >= 0 /\ quantity * PipMultiplier <= exact
      /\ exact <= 0 => quantity <= 0 /\ quantity * PipMultiplier < exact + PipMultiplier
  BY <1>1, TruncDivBounds, PipMultiplierAssumption
<1> HIDE DEF quantity
<1>6. quantity * PipMultiplier <= exact + PipMultiplier /\ PipMultiplier \in Nat
  <2>1. quantity * PipMultiplier \in Int
    BY <1>5, PipMultiplierAssumption
  <2> QED BY <1>1, <1>5, <2>1, PipMultiplierAssumption
<1>7. Gain(size, paid) = quantity \/ (Gain(size, paid) = 0 /\ size < 0 /\ quantity > 0)
  <2>1. CASE size < 0 /\ quantity > 0
    <3>1. paid = 0
      BY <1>2, <2>1
    <3>2. ASSUME NEW x \in Int, x <= 0, x >= 0
          PROVE  -x = 0
      BY <3>2
    <3>3. paid \in Int /\ paid <= 0 /\ paid >= 0
      BY <3>1
    <3>4. -paid = 0
      BY <3>2, <3>3
    <3> QED BY <2>1, <3>4 DEF Gain
  <2>2. CASE size < 0 /\ quantity <= 0
    BY <1>2, <1>5, <2>2 DEF Gain, Abs
  <2>3. CASE size >= 0
    BY <1>2, <1>4, <1>5, <2>3 DEF Gain, Abs
  <2> QED BY <1>5, <2>1, <2>2, <2>3
<1>8. quantity > 0 => exact >= 0
  BY <1>1, <1>5
<1>9. Gain(size, paid) * PipMultiplier <= exact + PipMultiplier
  <2>1. 0 * PipMultiplier = 0
    BY PipMultiplierAssumption
  <2>2. CASE Gain(size, paid) = quantity
    BY <1>6, <2>2
  <2>3. CASE Gain(size, paid) = 0 /\ quantity > 0
    BY <1>1, <1>6, <1>8, <2>1, <2>3
  <2> QED BY <1>7, <2>2, <2>3
<1>10. QED
  BY <1>9 DEF exact, atPrice, share, paid

\* Shares of a deficit in proportion to weights, rounded down, do not exceed it.
LEMMA SharesAddUp ==
    ASSUME NEW n \in Nat, NEW weight, NEW share, NEW deficit \in Nat, NEW total \in Nat \ {0},
           \A i \in 1..n : /\ weight[i] \in Nat /\ share[i] \in Nat
                           /\ share[i] * total <= weight[i] * deficit,
           SumTo(weight, n) = total
    PROVE  SumTo(share, n) <= deficit
<1> DEFINE f == [i \in 1..n |-> total * share[i]]
           g == [i \in 1..n |-> deficit * weight[i]]
<1>1. ASSUME NEW i \in 1..n
      PROVE  f[i] \in Int /\ g[i] \in Int /\ f[i] <= g[i]
  <2> DEFINE s == share[i]
             x == weight[i]
  <2>1. s \in Nat /\ x \in Nat /\ s * total <= x * deficit
    OBVIOUS
  <2>2. f[i] = total * s /\ g[i] = deficit * x
    OBVIOUS
  <2> HIDE DEF f, g, s, x
  <2>3. total * s = s * total /\ deficit * x = x * deficit /\ s * total \in Int /\ x * deficit \in Int
    BY <2>1
  <2> QED BY <2>1, <2>2, <2>3
<1>2. \A i \in 1..n : share[i] \in Int /\ weight[i] \in Int
  OBVIOUS
<1>3. /\ \A i \in 1..n : f[i] = total * share[i]
      /\ \A i \in 1..n : g[i] = deficit * weight[i]
  OBVIOUS
<1> HIDE DEF f, g
<1>4. SumTo(f, n) <= SumTo(g, n)
  BY <1>1, SumToMonotone
<1>5. SumTo(f, n) = total * SumTo(share, n)
  <2>1. total \in Int
    OBVIOUS
  <2> QED BY <1>2, <1>3, <2>1, SumToScaled
<1>6. SumTo(g, n) = deficit * SumTo(weight, n)
  <2>1. deficit \in Int
    OBVIOUS
  <2>2. \A i \in 1..n : weight[i] \in Int /\ g[i] = deficit * weight[i]
    BY <1>2, <1>3
  <2> QED BY ONLY n \in Nat, <2>1, <2>2, SumToScaled
<1> DEFINE sum == SumTo(share, n)
<1>7. sum \in Int
  BY <1>2, SumToType
<1>8. total * sum <= deficit * total
  BY <1>4, <1>5, <1>6
<1> HIDE DEF sum
<1>9. sum * total <= deficit * total
  BY <1>7, <1>8
<1>10. sum <= deficit
  BY <1>7, <1>9, ProductCancel
<1>11. QED
  BY <1>10 DEF sum

\* The weight a share is in proportion to.
LEMMA ShareBounds ==
    ASSUME NEW price \in Nat, NEW mmf \in Nat, NEW size \in Int,
           NEW accountValue \in Int, NEW mmr \in Nat \ {0}
    PROVE  /\ Abs(size) * price * mmf \in Nat
           /\ ShareOf(price, mmf, size, accountValue, mmr) * mmr
                <= (Abs(size) * price * mmf) * Abs(accountValue)
<1>1. Abs(size) \in Nat /\ Abs(accountValue) \in Nat
  BY DEF Abs
<1>2. Abs(size * price) = Abs(size) * price
  <2>1. CASE size >= 0
    <3>1. size * price >= 0
      BY <2>1
    <3> QED BY <2>1, <3>1 DEF Abs
  <2>2. CASE size < 0
    <3>1. (-size) * price = -(size * price) /\ size * price \in Int
      OBVIOUS
    <3>2. (-size) * price \in Nat
      BY <2>2
    <3>3. ~(size >= 0)
      BY <2>2
    <3>4. CASE size * price >= 0
      <4> DEFINE p == size * price
      <4>1. p \in Int /\ p >= 0 /\ -p \in Nat
        BY <3>1, <3>2, <3>4
      <4> HIDE DEF p
      <4>2. p = -p
        BY <4>1
      <4> QED BY <3>1, <3>3, <3>4, <4>2 DEF Abs, p
    <3>5. CASE ~(size * price >= 0)
      BY <3>1, <3>3, <3>5 DEF Abs
    <3> QED BY <3>4, <3>5
  <2> QED BY <2>1, <2>2
<1> DEFINE notional == Abs(size) * price
           deficit  == Abs(accountValue)
<1>3. notional \in Nat /\ deficit \in Nat
  BY <1>1
<1>4. ShareOf(price, mmf, size, accountValue, mmr) = (notional * mmf * deficit) \div mmr
  BY <1>2 DEF ShareOf
<1> HIDE DEF notional, deficit
<1>5. notional * mmf \in Nat
  BY <1>3
<1> DEFINE weight == notional * mmf
<1> HIDE DEF weight
<1>6. weight * deficit \in Nat
  BY <1>3, <1>5 DEF weight
<1>7. ((weight * deficit) \div mmr) * mmr <= weight * deficit
  BY <1>6, QuotientBounds
<1>8. QED
  BY <1>4, <1>5, <1>7 DEF weight, notional, deficit

-----------------------------------------------------------------------------
(* What an exit pays: the sum over the positions. *)

\* What the wallet's open positions add to its quote when each is closed at quotes[m].
Gains(l, w, quotes) ==
    [m \in Markets |-> IF m \in l.open[w] THEN Gain(l.position[w][m].balance, quotes[m]) ELSE 0]

\* What the Exit Fund gives for the positions is what the wallet gains.
LEMMA ChangeIsGains ==
    ASSUME NEW l, SoundLedger(l), NEW w \in Wallets, NEW quotes \in [Markets -> Int]
    PROVE  /\ \A m \in Markets : Gains(l, w, quotes)[m] \in Int
           /\ SumTo(Gains(l, w, quotes), NumMarkets) \in Int
           /\ AcquisitionQuoteChange(l, w, quotes) = -SumTo(Gains(l, w, quotes), NumMarkets)
<1> DEFINE gains == Gains(l, w, quotes)
           paid == [m \in Markets |-> IF m \notin l.open[w] THEN 0
                                      ELSE IF l.position[w][m].balance < 0 THEN quotes[m]
                                      ELSE -quotes[m]]
<1>1. ASSUME NEW m \in Markets
      PROVE  gains[m] \in Int /\ paid[m] = (-1) * gains[m]
  <2>1. gains[m] = IF m \in l.open[w]
                   THEN IF l.position[w][m].balance < 0 THEN -quotes[m] ELSE quotes[m]
                   ELSE 0
    BY DEF Gains, Gain
  <2>2. quotes[m] \in Int
    OBVIOUS
  <2>3. paid[m] = IF m \notin l.open[w] THEN 0
                  ELSE IF l.position[w][m].balance < 0 THEN quotes[m] ELSE -quotes[m]
    OBVIOUS
  <2> DEFINE q == quotes[m]
  <2> HIDE DEF gains, paid, q
  <2>4. /\ m \notin l.open[w] => gains[m] = 0 /\ paid[m] = 0
        /\ m \in l.open[w] /\ l.position[w][m].balance < 0 => gains[m] = -q /\ paid[m] = q
        /\ m \in l.open[w] /\ ~(l.position[w][m].balance < 0) => gains[m] = q /\ paid[m] = -q
    BY <2>1, <2>3 DEF q
  <2>5. q \in Int
    BY <2>2 DEF q
  <2> QED BY <2>4, <2>5
<1>2. AcquisitionQuoteChange(l, w, quotes) = SumTo(paid, NumMarkets)
  BY DEF AcquisitionQuoteChange
<1> HIDE DEF gains, paid
<1>3. \A m \in 1..NumMarkets : gains[m] \in Int /\ paid[m] = (-1) * gains[m]
  BY <1>1 DEF Markets
<1>4. NumMarkets \in Nat /\ -1 \in Int
  BY LedgerSizeAssumption
<1>5. SumTo(paid, NumMarkets) = (-1) * SumTo(gains, NumMarkets)
  BY <1>3, <1>4, SumToScaled
<1>6. SumTo(gains, NumMarkets) \in Int
  BY <1>3, <1>4, SumToType
<1>7. QED
  BY <1>1, <1>2, <1>5, <1>6 DEF gains

\* The sums a bankruptcy price is calculated from.
LEMMA BankruptcyTotals ==
    ASSUME NEW l, SoundLedger(l), NEW w \in Wallets,
           NEW price \in [Markets -> Nat \ {0}], NEW fields \in [Markets -> MarketFields]
    PROVE  LET exact  == [m \in Markets |-> IF m \in l.open[w]
                                            THEN l.position[w][m].balance * price[m] ELSE 0]
               weight == [m \in Markets |-> IF m \in l.open[w]
                                            THEN Abs(l.position[w][m].balance) * price[m]
                                                   * fields[m].maintenanceMarginFraction ELSE 0]
               total  == TotalMaintenanceMarginRequirementInTriplePips(l, w, price, fields)
           IN  /\ \A m \in Markets : exact[m] \in Int /\ weight[m] \in Nat
               /\ SumTo(exact, NumMarkets) \in Int
               /\ l.quote[w] \in Int
               /\ TotalAccountValueInDoublePips(l, w, price)
                    = l.quote[w] * PipMultiplier + SumTo(exact, NumMarkets)
               /\ TotalAccountValueInDoublePips(l, w, price) \in Int
               /\ total = SumTo(weight, NumMarkets) /\ total \in Nat
               /\ l.open[w] # {} => total \in Nat \ {0}
<1> DEFINE exact  == [m \in Markets |-> IF m \in l.open[w]
                                        THEN l.position[w][m].balance * price[m] ELSE 0]
           weight == [m \in Markets |-> IF m \in l.open[w]
                                        THEN Abs(l.position[w][m].balance) * price[m]
                                               * fields[m].maintenanceMarginFraction ELSE 0]
           value  == TotalAccountValueInDoublePips(l, w, price)
           total  == TotalMaintenanceMarginRequirementInTriplePips(l, w, price, fields)
<1>1. NumMarkets \in Nat /\ Markets = 1..NumMarkets /\ PipMultiplier \in Nat \ {0}
  BY LedgerSizeAssumption, PipMultiplierAssumption DEF Markets
<1>2. ASSUME NEW m \in Markets
      PROVE  /\ l.position[w][m].balance \in Int
             /\ price[m] \in Nat \ {0} /\ fields[m].maintenanceMarginFraction \in Nat \ {0}
             /\ m \in l.open[w] => l.position[w][m].balance # 0
  BY DEF SoundLedger, Ledger, Position, MarketFields, IsTracked
<1>3. l.quote[w] \in Int /\ l.open[w] \subseteq Markets
  BY DEF SoundLedger, Ledger
<1>4. ASSUME NEW m \in Markets
      PROVE  exact[m] \in Int /\ weight[m] \in Nat /\ (m \in l.open[w] => weight[m] >= 1)
  <2> DEFINE b == l.position[w][m].balance
             p == price[m]
             f == fields[m].maintenanceMarginFraction
  <2>1. b \in Int /\ p \in Nat \ {0} /\ f \in Nat \ {0} /\ (m \in l.open[w] => b # 0)
    BY <1>2
  <2>2. /\ exact[m] = IF m \in l.open[w] THEN b * p ELSE 0
        /\ weight[m] = IF m \in l.open[w] THEN Abs(b) * p * f ELSE 0
    OBVIOUS
  <2> HIDE DEF b, p, f, exact, weight
  <2>3. b * p \in Int /\ Abs(b) \in Nat
    BY <2>1 DEF Abs
  <2>4. Abs(b) * p * f \in Nat
    <3>1. Abs(b) * p \in Nat
      BY <2>1, <2>3
    <3> QED BY <2>1, <3>1
  <2>5. b # 0 => Abs(b) * p * f >= 1
    <3>1. b # 0 => Abs(b) \in Nat \ {0}
      BY <2>1 DEF Abs
    <3>2. ASSUME NEW x \in Nat \ {0}, NEW y \in Nat \ {0}
          PROVE  x * y \in Nat \ {0}
      <4>1. y <= x * y
        <5>1. 1 <= x /\ 1 \in Int /\ x \in Int /\ y \in Nat
          OBVIOUS
        <5>2. 1 * y <= x * y
          BY <5>1, ProductMonotone
        <5> QED BY <5>2
      <4>2. x * y \in Nat
        OBVIOUS
      <4> QED BY <4>1, <4>2
    <3>3. b # 0 => Abs(b) * p \in Nat \ {0}
      BY <2>1, <3>1, <3>2
    <3>4. b # 0 => Abs(b) * p * f \in Nat \ {0}
      BY <2>1, <3>2, <3>3
    <3> QED BY <3>4
  <2> QED BY <2>1, <2>2, <2>3, <2>4, <2>5
<1>5. value = l.quote[w] * PipMultiplier + SumTo(exact, NumMarkets)
  BY DEF TotalAccountValueInDoublePips, OverOpen
<1>6. total = SumTo(weight, NumMarkets)
  BY DEF TotalMaintenanceMarginRequirementInTriplePips, OverOpen
<1> HIDE DEF exact, weight, value, total
<1>7. SumTo(exact, NumMarkets) \in Int
  BY <1>1, <1>4, SumToType
<1>8. value \in Int
  <2>1. l.quote[w] * PipMultiplier \in Int
    BY <1>1, <1>3
  <2> QED BY <1>5, <1>7, <2>1
<1>9. total \in Nat
  BY <1>1, <1>4, <1>6, SumToNat
<1>10. l.open[w] # {} => total \in Nat \ {0}
  <2>1. ASSUME NEW m \in l.open[w]
        PROVE  total >= 1
    <3>1. m \in Markets /\ weight[m] >= 1 /\ weight[m] \in Nat
      BY <1>3, <1>4
    <3>2. weight[m] <= SumTo(weight, NumMarkets)
      BY <1>1, <1>4, <3>1, SumToAtLeast
    <3> QED BY <1>6, <1>9, <3>1, <3>2
  <2> QED BY <1>9, <2>1
<1>11. QED
  BY <1>3, <1>4, <1>5, <1>6, <1>7, <1>8, <1>9, <1>10 DEF exact, weight, value, total

\* What an exit leaves of the wallet's quote: no more than its account is
\* worth, or one pip for each position of a wallet that is worth less than nothing.
LEMMA ExitIsWorthAtMost ==
    ASSUME NEW l, SoundLedger(l), NEW w \in Wallets,
           NEW price \in [Markets -> Nat \ {0}], NEW fields \in [Markets -> MarketFields]
    PROVE  /\ l.quote[w] - AcquisitionQuoteChange(l, w, ExitQuoteQuantities(l, w, price, fields))
                <= Cardinality(l.open[w]) + Larger(0, TotalAccountValue(l, w, price))
           /\ Cardinality(l.open[w]) \in Nat
           /\ Larger(0, TotalAccountValue(l, w, price)) \in Nat
<1> DEFINE quotes == ExitQuoteQuantities(l, w, price, fields)
           gains  == Gains(l, w, quotes)
           worth  == [m \in Markets |-> IF m \in l.open[w]
                                        THEN QuoteValue(l.position[w][m].balance, price[m])
                                        ELSE 0]
           value  == TotalAccountValueInDoublePips(l, w, price)
           total  == TotalMaintenanceMarginRequirementInTriplePips(l, w, price, fields)
           quote  == l.quote[w]
           positions == Cardinality(l.open[w])
           sum    == SumTo(gains, NumMarkets)
<1>1. NumMarkets \in Nat /\ Markets = 1..NumMarkets /\ PipMultiplier \in Nat \ {0}
  BY LedgerSizeAssumption, PipMultiplierAssumption DEF Markets
<1>2. ASSUME NEW m \in Markets
      PROVE  /\ l.position[w][m].balance \in Int /\ l.position[w][m].costBasis \in Int
             /\ price[m] \in Nat /\ fields[m].maintenanceMarginFraction \in Nat
  BY DEF SoundLedger, Ledger, Position, MarketFields
<1>3. quote \in Int /\ l.open[w] \in SUBSET (1..NumMarkets)
  BY <1>1 DEF SoundLedger, Ledger
<1>4. price \in [Markets -> Nat] /\ quotes \in [Markets -> Int]
  <2>1. price \in [Markets -> Nat]
    OBVIOUS
  <2> QED BY <2>1, ClosingQuotesType
<1>5. positions \in Nat
  <2>1. IsFiniteSet(1..NumMarkets)
    BY <1>1, FS_Interval
  <2>2. IsFiniteSet(l.open[w])
    BY <1>3, <2>1, FS_Subset
  <2> QED BY <2>2, FS_CardinalityType
<1>6. /\ \A m \in Markets : gains[m] \in Int
      /\ sum \in Int
      /\ AcquisitionQuoteChange(l, w, quotes) = -sum
  <2> HIDE DEF quotes
  <2> QED BY <1>4, ChangeIsGains
<1>7. /\ TotalAccountValue(l, w, price) = quote + SumTo(worth, NumMarkets)
      /\ \A m \in Markets : worth[m] \in Int
  <2>1. TotalAccountValue(l, w, price) = quote + SumTo(worth, NumMarkets)
    BY DEF TotalAccountValue, OverOpen
  <2>2. ASSUME NEW m \in Markets
        PROVE  worth[m] \in Int
    <3>1. QuoteValue(l.position[w][m].balance, price[m]) \in Int
      <4>1. price[m] \in Int
        BY <1>2
      <4> QED BY <1>2, <4>1, QuoteValueType
    <3> QED BY <3>1
  <2> QED BY <2>1, <2>2
<1>8. SumTo(worth, NumMarkets) \in Int
  <2> HIDE DEF worth
  <2> QED BY <1>1, <1>7, SumToType
<1>9. /\ value \in Int /\ total \in Nat
      /\ l.open[w] # {} => total \in Nat \ {0}
  BY BankruptcyTotals
<1>10. ASSUME \A m \in l.open[w] : gains[m] <= worth[m]
       PROVE  quote + sum <= positions + Larger(0, TotalAccountValue(l, w, price))
  <2>1. ASSUME NEW m \in Markets
        PROVE  gains[m] <= worth[m]
    <3>1. CASE m \in l.open[w]
      BY <1>10, <3>1
    <3>2. CASE m \notin l.open[w]
      <4>1. gains[m] = 0 /\ worth[m] = 0
        BY <3>2 DEF Gains
      <4> QED BY <4>1
    <3> QED BY <3>1, <3>2
  <2> HIDE DEF gains, worth
  <2>2. SumTo(gains, NumMarkets) <= SumTo(worth, NumMarkets)
    BY <1>1, <1>6, <1>7, <2>1, SumToMonotone
  <2>3. sum <= SumTo(worth, NumMarkets)
    BY <2>2
  <2> DEFINE worthSum == SumTo(worth, NumMarkets)
  <2>4. sum <= worthSum /\ worthSum \in Int /\ TotalAccountValue(l, w, price) = quote + worthSum
    BY <1>7, <1>8, <2>3
  <2> HIDE DEF quote, sum, positions, worthSum
  <2> QED BY <1>3, <1>5, <1>6, <2>4 DEF Larger
<1>11. ASSUME ~(TotalExitAccountValue(l, w, price) <= 0)
       PROVE  quote + sum <= positions + Larger(0, TotalAccountValue(l, w, price))
  <2>1. ASSUME NEW m \in l.open[w]
        PROVE  gains[m] <= worth[m]
    <3>1. m \in Markets
      BY <1>1, <1>3
    <3>2. quotes[m] = QuoteQuantityAtExitPrice(l.position[w][m].costBasis, price[m],
                                               l.position[w][m].balance)
      BY <1>11, <3>1 DEF ExitQuoteQuantities
    <3>3. /\ gains[m] = Gain(l.position[w][m].balance, quotes[m])
          /\ worth[m] = QuoteValue(l.position[w][m].balance, price[m])
      <4> HIDE DEF quotes
      <4> QED BY <3>1 DEF Gains
    <3> HIDE DEF gains, worth, quotes
    <3> QED BY <1>2, <3>1, <3>2, <3>3, ExitPriceIsWorse
  <2> HIDE DEF gains, worth, quote, sum, positions
  <2> QED BY <1>10, <2>1
<1>12. ASSUME TotalExitAccountValue(l, w, price) <= 0, NEW m \in l.open[w]
       PROVE  /\ m \in Markets
              /\ gains[m] = Gain(l.position[w][m].balance,
                                 QuoteQuantityAtBankruptcyPrice(
                                   price[m], fields[m].maintenanceMarginFraction,
                                   l.position[w][m].balance, value, total))
  <2>1. m \in Markets
    BY <1>1, <1>3
  <2>2. quotes[m] = QuoteQuantityAtBankruptcyPrice(
                      price[m], fields[m].maintenanceMarginFraction,
                      l.position[w][m].balance, value, total)
    BY <1>12, <2>1 DEF ExitQuoteQuantities, BankruptcyQuoteQuantities, BankruptcyQuoteQuantity
  <2>3. gains[m] = Gain(l.position[w][m].balance, quotes[m])
    <3> HIDE DEF quotes
    <3> QED BY <2>1 DEF Gains
  <2> HIDE DEF gains, quotes, value, total
  <2> QED BY <2>1, <2>2, <2>3
<1>13. ASSUME TotalExitAccountValue(l, w, price) <= 0, value >= 0 \/ l.open[w] = {}
       PROVE  quote + sum <= positions + Larger(0, TotalAccountValue(l, w, price))
  <2>1. ASSUME NEW m \in l.open[w]
        PROVE  gains[m] <= worth[m]
    <3>1. value \in Nat /\ total \in Nat \ {0} /\ m \in Markets
      BY <1>9, <1>12, <1>13
    <3>2. worth[m] = QuoteValue(l.position[w][m].balance, price[m])
      BY <3>1
    <3>3. gains[m] = Gain(l.position[w][m].balance,
                          QuoteQuantityAtBankruptcyPrice(
                            price[m], fields[m].maintenanceMarginFraction,
                            l.position[w][m].balance, value, total))
      BY <1>12, <1>13
    <3> HIDE DEF gains, worth, value, total
    <3> QED BY <1>2, <3>1, <3>2, <3>3, BankruptcyPriceSolvent
  <2> HIDE DEF gains, worth, quote, sum, positions
  <2> QED BY <1>10, <2>1
<1>14. ASSUME TotalExitAccountValue(l, w, price) <= 0, value < 0, l.open[w] # {}
       PROVE  quote + sum <= positions + Larger(0, TotalAccountValue(l, w, price))
  <2> DEFINE exact  == [m \in Markets |-> IF m \in l.open[w]
                                          THEN l.position[w][m].balance * price[m] ELSE 0]
             weight == [m \in Markets |-> IF m \in l.open[w]
                                          THEN Abs(l.position[w][m].balance) * price[m]
                                                 * fields[m].maintenanceMarginFraction ELSE 0]
             share  == [m \in Markets |-> IF m \in l.open[w]
                                          THEN ShareOf(price[m], fields[m].maintenanceMarginFraction,
                                                       l.position[w][m].balance, value, total)
                                          ELSE 0]
             one    == [m \in Markets |-> IF m \in l.open[w] THEN 1 ELSE 0]
             pips   == [m \in Markets |-> PipMultiplier * one[m]]
             scaled == [m \in Markets |-> PipMultiplier * gains[m]]
             known  == [m \in Markets |-> exact[m] + share[m]]
             bound  == [m \in Markets |-> known[m] + pips[m]]
  <2>1. /\ \A m \in Markets : exact[m] \in Int /\ weight[m] \in Nat
        /\ SumTo(exact, NumMarkets) \in Int
        /\ value = quote * PipMultiplier + SumTo(exact, NumMarkets)
        /\ total = SumTo(weight, NumMarkets)
    <3> HIDE DEF value, total
    <3> QED BY BankruptcyTotals DEF value, total
  <2>2. total \in Nat \ {0} /\ -value \in Nat /\ Abs(value) = -value
    <3> HIDE DEF value, total
    <3> QED BY <1>9, <1>14 DEF Abs
  <2>3. ASSUME NEW m \in Markets
        PROVE  share[m] \in Nat /\ share[m] * total <= weight[m] * (-value)
    <3>1. CASE m \in l.open[w]
      <4> DEFINE s == ShareOf(price[m], fields[m].maintenanceMarginFraction,
                              l.position[w][m].balance, value, total)
                 x == Abs(l.position[w][m].balance) * price[m]
                        * fields[m].maintenanceMarginFraction
      <4>1. share[m] = s /\ weight[m] = x
        BY <3>1
      <4> HIDE DEF value, total
      <4>2. s \in Nat
        BY <1>2, <1>9, <2>2, ShareType
      <4>3. s * total <= x * Abs(value)
        BY <1>2, <1>9, <2>2, ShareBounds
      <4> HIDE DEF s, x, share, weight
      <4> QED BY <2>2, <4>1, <4>2, <4>3
    <3>2. CASE m \notin l.open[w]
      <4>1. share[m] = 0 /\ weight[m] = 0
        BY <3>2
      <4> HIDE DEF share, weight, value, total
      <4> QED BY <2>2, <4>1
    <3> QED BY <3>1, <3>2
  <2>4. SumTo(share, NumMarkets) <= -value
    <3>1. \A m \in 1..NumMarkets : /\ weight[m] \in Nat /\ share[m] \in Nat
                                   /\ share[m] * total <= weight[m] * (-value)
      <4> HIDE DEF share, weight, value, total
      <4> QED BY <1>1, <2>1, <2>3
    <3> HIDE DEF share, weight, value, total
    <3> QED BY <1>1, <2>1, <2>2, <3>1, SharesAddUp
  <2>5. SumTo(one, NumMarkets) = positions
    <3>1. \A m \in 1..NumMarkets : one[m] = IF m \in l.open[w] THEN 1 ELSE 0
      BY <1>1
    <3> HIDE DEF one
    <3> QED BY <1>1, <1>3, <3>1, SumToCount
  <2>6. ASSUME NEW m \in Markets
        PROVE  /\ one[m] \in Int /\ share[m] \in Int /\ pips[m] \in Int /\ scaled[m] \in Int
               /\ known[m] = exact[m] + share[m] /\ known[m] \in Int
               /\ bound[m] = known[m] + pips[m] /\ bound[m] \in Int
               /\ pips[m] = PipMultiplier * one[m] /\ scaled[m] = PipMultiplier * gains[m]
    <3>1. one[m] \in Int /\ share[m] \in Int /\ gains[m] \in Int /\ exact[m] \in Int
      <4>1. one[m] \in Int
        OBVIOUS
      <4> HIDE DEF share, gains, exact
      <4> QED BY <1>6, <2>1, <2>3, <4>1
    <3>2. /\ known[m] = exact[m] + share[m] /\ bound[m] = known[m] + pips[m]
          /\ pips[m] = PipMultiplier * one[m] /\ scaled[m] = PipMultiplier * gains[m]
      <4> HIDE DEF share, gains, exact, one
      <4> QED OBVIOUS
    <3> HIDE DEF share, gains, exact, one, pips, scaled, known, bound
    <3>3. pips[m] \in Int /\ scaled[m] \in Int
      BY <1>1, <3>1, <3>2
    <3> QED BY <3>1, <3>2, <3>3
  <2>7. ASSUME NEW m \in Markets
        PROVE  scaled[m] <= bound[m]
    <3>1. CASE m \in l.open[w]
      <4> DEFINE b == l.position[w][m].balance
                 s == ShareOf(price[m], fields[m].maintenanceMarginFraction, b, value, total)
                 g == Gain(b, QuoteQuantityAtBankruptcyPrice(
                                price[m], fields[m].maintenanceMarginFraction, b, value, total))
      <4>1. g * PipMultiplier <= b * price[m] + s + PipMultiplier
        <5> HIDE DEF value, total
        <5> QED BY <1>2, <1>9, <1>14, <2>2, BankruptcyPriceInsolvent
      <4>2. gains[m] = g
        <5> HIDE DEF gains, value, total
        <5> QED BY <1>12, <1>14, <3>1
      <4>3. exact[m] = b * price[m] /\ share[m] = s /\ one[m] = 1
        BY <3>1
      <4> HIDE DEF b, s, g, gains, exact, share, one, scaled, bound, known, pips, value, total
      <4>4. gains[m] * PipMultiplier <= exact[m] + share[m] + PipMultiplier
        BY <4>1, <4>2, <4>3
      <4>5. gains[m] * PipMultiplier = PipMultiplier * gains[m]
        BY <1>1, <1>6
      <4>6. PipMultiplier * one[m] = PipMultiplier
        BY <1>1, <4>3
      <4> QED BY <2>6, <4>4, <4>5, <4>6
    <3>2. CASE m \notin l.open[w]
      <4>1. gains[m] = 0 /\ exact[m] = 0 /\ share[m] = 0 /\ one[m] = 0
        BY <3>2 DEF Gains
      <4> HIDE DEF gains, exact, share, one, scaled, bound, known, pips
      <4>2. PipMultiplier * 0 = 0
        BY <1>1
      <4> QED BY <2>6, <4>1, <4>2
    <3> QED BY <3>1, <3>2
  <2> DEFINE n == NumMarkets
             exactSum == SumTo(exact, n)
             shareSum == SumTo(share, n)
             boundSum == SumTo(bound, n)
             scaledSum == SumTo(scaled, n)
  <2> HIDE DEF gains, exact, share, one, scaled, bound, known, pips, value, total
  <2>20. n \in Nat /\ PipMultiplier \in Int /\ Markets = 1..n
    BY <1>1
  <2> HIDE DEF n
  <2>8. SumTo(bound, n) = SumTo(known, n) + SumTo(pips, n)
    <3>1. \A m \in 1..n : known[m] \in Int /\ pips[m] \in Int /\ bound[m] = known[m] + pips[m]
      BY <2>6, <2>20
    <3> QED BY ONLY <2>20, <3>1, SumToPlus
  <2>9. SumTo(known, n) = SumTo(exact, n) + SumTo(share, n)
    <3>1. \A m \in 1..n : exact[m] \in Int /\ share[m] \in Int /\ known[m] = exact[m] + share[m]
      BY <2>1, <2>6, <2>20
    <3> QED BY ONLY <2>20, <3>1, SumToPlus
  <2>10. SumTo(pips, n) = PipMultiplier * positions
    <3>1. \A m \in 1..n : one[m] \in Int /\ pips[m] = PipMultiplier * one[m]
      BY <2>6, <2>20
    <3>2. SumTo(pips, n) = PipMultiplier * SumTo(one, n)
      BY ONLY <2>20, <3>1, SumToScaled
    <3> QED BY <2>5, <3>2 DEF n
  <2>11. SumTo(scaled, n) = PipMultiplier * sum
    <3>1. \A m \in 1..n : gains[m] \in Int /\ scaled[m] = PipMultiplier * gains[m]
      BY <1>6, <2>6, <2>20
    <3>2. SumTo(scaled, n) = PipMultiplier * SumTo(gains, n)
      BY ONLY <2>20, <3>1, SumToScaled
    <3> QED BY <3>2 DEF n
  <2>12. SumTo(scaled, n) <= SumTo(bound, n)
    BY <2>6, <2>7, <2>20, SumToMonotone
  <2>13. SumTo(share, n) \in Int
    BY <2>6, <2>20, SumToType
  <2>14. /\ scaledSum <= boundSum /\ boundSum = exactSum + shareSum + PipMultiplier * positions
         /\ scaledSum = PipMultiplier * sum /\ shareSum <= -value
         /\ value = quote * PipMultiplier + exactSum
         /\ exactSum \in Int /\ shareSum \in Int /\ value \in Int
    BY <1>9, <2>1, <2>4, <2>8, <2>9, <2>10, <2>11, <2>12, <2>13 DEF n
  <2> HIDE DEF exactSum, shareSum, boundSum, scaledSum, sum, quote, positions
  <2>15. PipMultiplier * sum \in Int /\ quote * PipMultiplier \in Int
         /\ PipMultiplier * positions \in Int
    BY <1>1, <1>3, <1>5, <1>6
  <2>16. PipMultiplier * sum + quote * PipMultiplier <= PipMultiplier * positions
    BY <2>14, <2>15
  <2>17. (quote + sum) * PipMultiplier = PipMultiplier * sum + quote * PipMultiplier
    BY <1>1, <1>3, <1>6
  <2>18. positions * PipMultiplier = PipMultiplier * positions
    BY <1>1, <1>5
  <2>19. quote + sum <= positions
    <3>1. quote + sum \in Int /\ positions \in Int
      BY <1>3, <1>5, <1>6
    <3> QED BY <1>1, <2>16, <2>17, <2>18, <3>1, ProductCancel
  <2>21. TotalAccountValue(l, w, price) \in Int
    BY <1>3, <1>7, <1>8 DEF quote
  <2> QED BY <1>3, <1>5, <1>6, <2>19, <2>21 DEF Larger, quote, sum, positions
<1>15. quote + sum <= positions + Larger(0, TotalAccountValue(l, w, price))
  <2> HIDE DEF quote, sum, positions, value
  <2>1. value >= 0 \/ value < 0
    BY <1>9
  <2> QED BY <1>11, <1>13, <1>14, <2>1
<1>16. quote - AcquisitionQuoteChange(l, w, quotes) = quote + sum
  <2> HIDE DEF quote, sum, quotes
  <2> QED BY <1>3, <1>6
<1>17. Larger(0, TotalAccountValue(l, w, price)) \in Nat
  <2>1. TotalAccountValue(l, w, price) \in Int
    <3> HIDE DEF quote
    <3> QED BY <1>3, <1>7, <1>8
  <2> QED BY <2>1 DEF Larger
<1>18. QED
  BY <1>5, <1>15, <1>16, <1>17

\* Of a wallet's quote, no more is left for it than that, whatever is forgiven.
LEMMA ExitLeavesAtMost ==
    ASSUME IInv, NEW w \in Wallets \ {exitFundWallet}
    PROVE  LET funded    == Funded(ledger, w)
               prices    == ExitQuoteQuantities(funded, w, oraclePrice, FieldsFor(w))
               remaining == RemainingQuote(funded, w, AcquisitionQuoteChange(funded, w, prices))
               positions == Cardinality(ledger.open[w])
               worth     == Larger(0, TotalAccountValue(funded, w, oraclePrice))
           IN  /\ remaining \in Int /\ positions \in Nat /\ worth \in Nat
               /\ (IF ToleratesAsZero(w, remaining) THEN 0 ELSE remaining) <= positions + worth
<1> DEFINE funded    == Funded(ledger, w)
           prices    == ExitQuoteQuantities(funded, w, oraclePrice, FieldsFor(w))
           change    == AcquisitionQuoteChange(funded, w, prices)
           remaining == RemainingQuote(funded, w, change)
           positions == Cardinality(ledger.open[w])
           worth     == Larger(0, TotalAccountValue(funded, w, oraclePrice))
<1>1. SoundLedger(funded) /\ funded.open[w] = ledger.open[w]
  <2>1. SoundLedger(funded)
    BY LedgerSound, FundedSound DEF IInv
  <2>2. w \in DOMAIN ledger.open
    BY DEF IInv, TypeOK, Ledger
  <2>3. funded.open[w] = ledger.open[w]
    BY <2>2 DEF Funded, ApplyOutstandingWalletFunding, AddQuote, SetQuote, SetPositions
  <2> QED BY <2>1, <2>3
<1>2. /\ oraclePrice \in [Markets -> Nat \ {0}] /\ oraclePrice \in [Markets -> Nat]
      /\ FieldsFor(w) \in [Markets -> MarketFields]
  <2>1. TypeOK
    BY DEF IInv
  <2>2. FieldsFor(w) \in [Markets -> MarketFields]
    BY <2>1, ParameterTypes
  <2> QED BY <2>1, <2>2 DEF TypeOK
<1>3. w # exitFundWallet /\ w \in Wallets
  OBVIOUS
<1> HIDE DEF funded
<1>4. remaining = funded.quote[w] - change
  BY <1>3 DEF RemainingQuote
<1>5. prices \in [Markets -> Int]
  BY <1>1, <1>2, <1>3, ClosingQuotesType
<1>6. remaining <= positions + worth /\ positions \in Nat /\ worth \in Nat
  BY <1>1, <1>2, <1>3, <1>4, ExitIsWorthAtMost
<1>7. remaining \in Int
  <2>1. funded.quote[w] \in Int
    BY <1>1, <1>3 DEF SoundLedger, Ledger
  <2>2. change \in Int
    <3> HIDE DEF prices
    <3> QED BY <1>1, <1>3, <1>5, AcquisitionQuoteChangeType
  <2> HIDE DEF change, remaining
  <2> QED BY <1>4, <2>1, <2>2
<1> HIDE DEF prices, change, remaining, positions, worth
<1>8. (IF ToleratesAsZero(w, remaining) THEN 0 ELSE remaining) <= positions + worth
  <2>1. 0 <= positions + worth
    BY <1>6
  <2>2. CASE ToleratesAsZero(w, remaining)
    BY <2>1, <2>2
  <2>3. CASE ~ToleratesAsZero(w, remaining)
    BY <1>6, <2>3
  <2> QED BY <2>2, <2>3
<1>9. QED
  BY <1>6, <1>7, <1>8 DEF funded, prices, change, remaining, positions, worth

\* What is paid out for an exit is at most that and the pending deposits.
LEMMA ExitPayout ==
    ASSUME IInv, NEW w \in Wallets \ {exitFundWallet}, WithdrawPositions(w)
    PROVE  PaidOut <= pendingDepositQuantity[w] + Cardinality(ledger.open[w])
                        + Larger(0, TotalAccountValue(Funded(ledger, w), w, oraclePrice))
<1> DEFINE funded    == Funded(ledger, w)
           prices    == ExitQuoteQuantities(funded, w, oraclePrice, FieldsFor(w))
           remaining == RemainingQuote(funded, w, AcquisitionQuoteChange(funded, w, prices))
           positions == Cardinality(ledger.open[w])
           worth     == Larger(0, TotalAccountValue(funded, w, oraclePrice))
           bound     == positions + worth
           kept      == IF ToleratesAsZero(w, remaining) THEN 0 ELSE remaining
           pending   == pendingDepositQuantity[w]
           units     == ExitUnits(w, remaining)
<1>1. /\ remaining \in Int /\ positions \in Nat /\ worth \in Nat
      /\ kept <= bound
  BY ExitLeavesAtMost
<1>2. IsPayable(w, remaining) /\ custodianBalance' = custodianBalance - units
  BY DEF WithdrawPositions
<1>3. pending \in Nat /\ UnitSize \in Nat \ {0} /\ custodianBalance \in Nat
  BY ParameterAssumption DEF IInv, TypeOK
<1> HIDE DEF funded, remaining, bound, positions, worth
<1>4. kept \in Int /\ bound \in Nat
  BY <1>1 DEF bound
<1>5. units = (kept + pending) \div UnitSize
  BY DEF ExitUnits
<1> HIDE DEF kept, pending, units
<1>6. units \in Int /\ units * UnitSize \in Int /\ units * UnitSize <= kept + pending
  <2>1. kept + pending \in Int
    BY <1>3, <1>4
  <2> DEFINE payout == kept + pending
  <2>2. /\ payout \div UnitSize \in Int
        /\ payout - (payout \div UnitSize) * UnitSize \in 0..(UnitSize - 1)
    <3> HIDE DEF payout
    <3> QED BY <1>3, <2>1, WholeUnits DEF payout
  <2>3. units = payout \div UnitSize
    BY <1>5
  <2>4. units \in Int /\ payout - units * UnitSize \in 0..(UnitSize - 1) /\ payout \in Int
    BY <2>1, <2>2, <2>3
  <2>5. units * UnitSize \in Int
    BY <1>3, <2>4
  <2>6. units * UnitSize <= payout
    <3> HIDE DEF payout
    <3> QED BY <1>3, <2>4, <2>5
  <2> QED BY <2>4, <2>5, <2>6
<1>7. PaidOut = units * UnitSize
  <2>1. custodianBalance - custodianBalance' = units
    BY <1>2, <1>3, <1>6
  <2> QED BY <2>1 DEF PaidOut
<1>8. PaidOut <= pending + bound
  BY <1>1, <1>3, <1>4, <1>6, <1>7
<1>9. PaidOut <= pending + positions + worth
  <2>1. pending + bound = pending + positions + worth
    <3>1. bound = positions + worth
      BY DEF bound
    <3> QED BY <1>1, <1>3, <3>1
  <2> QED BY <1>8, <2>1
<1>10. QED
  BY <1>9 DEF pending, funded, positions, worth

\* No exit pays a wallet more than its pending deposits and what its account is
\* worth: not at the exit price, which is the worse for it, and not at the
\* bankruptcy price, at which the deficit is shared out among its positions.
THEOREM ExitsPayAtMostEquity == Spec => ExitPaysAtMostEquity
<1>1. Spec => []IInv
  BY OpenMarketsAlwaysTracked DEF IInv
<1> DEFINE Step == \A w \in Wallets \ {exitFundWallet} : WithdrawExit(w) \/ WithdrawExitAdmin(w) =>
                     PaidOut <= pendingDepositQuantity[w] + Cardinality(ledger.open[w])
                                  + Larger(0, TotalAccountValue(Funded(ledger, w), w, oraclePrice))
<1>2. IInv => Step
  BY ExitPayout DEF WithdrawExit, WithdrawExitAdmin
<1>3. QED
  BY <1>1, <1>2, PTL DEF Spec, ExitPaysAtMostEquity

===============================================================================
