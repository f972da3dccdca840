------------------------------- MODULE PipsMath -------------------------------
(***************************************************************************)
(* Integer arithmetic of the Exchange: libraries Math and                  *)
(* LiquidationValidations.  Quantities, prices and fractions are integers  *)
(* in pips; the product of two is in double pips, of three in triple pips. *)
(* The contracts use checked int64/uint64 arithmetic, where leaving the    *)
(* range reverts the whole call; integers are unbounded here.              *)
(***************************************************************************)
EXTENDS Integers

CONSTANT PipMultiplier     \* Constants.PIP_PRICE_MULTIPLIER: pips in one unit

ASSUME PipMultiplierAssumption == PipMultiplier \in Nat \ {0}

Abs(n) == IF n >= 0 THEN n ELSE -n

Larger(a, b) == IF a >= b THEN a ELSE b

Smaller(a, b) == IF a <= b THEN a ELSE b

\* Solidity's signed division truncates toward zero; \div rounds down.
TruncDiv(a, b) ==
    IF (a >= 0 /\ b > 0) \/ (a < 0 /\ b < 0)
    THEN Abs(a) \div Abs(b)
    ELSE -(Abs(a) \div Abs(b))

MultiplyPipsByFraction(multiplicand, dividend, divisor) ==
    TruncDiv(multiplicand * dividend, divisor)

DivideRoundUp(a, b) == IF a = 0 THEN 0 ELSE (a - 1) \div b + 1

DivideRoundNearest(a, b) ==
    LET halfB == IF b % 2 = 0 THEN b \div 2 ELSE b \div 2 + 1
    IN  IF a % b >= halfB THEN a \div b + 1 ELSE a \div b

\* The signed quote value of a base quantity at a price.
QuoteValue(quantity, price) ==
    MultiplyPipsByFraction(quantity, price, PipMultiplier)

-----------------------------------------------------------------------------
(* Closing prices: the quote quantity, never negative, at which a position *)
(* is closed.                                                              *)

\* Mutant of QuoteQuantityAtExitPrice: the better of both prices.
QuoteQuantityAtBestPrice(costBasis, price, positionSize) ==
    LET atPrice == QuoteValue(Abs(positionSize), price)
    IN  IF positionSize < 0 THEN Smaller(atPrice, Abs(costBasis))
                            ELSE Larger(atPrice, Abs(costBasis))

\* The worse, for the wallet, of the entry price and the given price.
QuoteQuantityAtExitPrice(costBasis, price, positionSize) ==
    LET atPrice == QuoteValue(Abs(positionSize), price)
    IN  IF positionSize < 0 THEN Larger(atPrice, Abs(costBasis))
                            ELSE Smaller(atPrice, Abs(costBasis))

\* The price at which closing every position leaves the account at zero:
\* each position takes a share of the account value in proportion to its
\* maintenance margin requirement.
QuoteQuantityAtBankruptcyPrice(price, mmf, positionSize, accountValue, mmr) ==
    LET atPrice  == positionSize * price
        share    == (Abs(atPrice) * mmf * Abs(accountValue)) \div mmr
        signed   == IF accountValue < 0 THEN share ELSE -share
        quantity == TruncDiv(atPrice + signed, PipMultiplier)
    IN  IF \/ mmr = 0
           \/ positionSize < 0 /\ quantity > 0
           \/ positionSize > 0 /\ quantity < 0
        THEN 0
        ELSE Abs(quantity)

\* Quote quantities submitted by the dispatcher may be off by one pip.
WithinOnePip(expected) == {q \in (expected - 1)..(expected + 1) : q >= 0}

\* The quote quantity at which the Exit Fund's own positions are closed.
QuoteQuantityForExitFundClosure(price, mmf, positionSize, accountValue, mmr) ==
    IF accountValue < 0
    THEN QuoteQuantityAtBankruptcyPrice(price, mmf, positionSize, accountValue, mmr)
    ELSE QuoteValue(Abs(positionSize), price)

\* The entry price of the closed part of an Insurance Fund position.
QuoteQuantityForInsuranceFundClosure(baseQuantity, costBasis, positionSize) ==
    MultiplyPipsByFraction(Abs(costBasis), baseQuantity, Abs(positionSize))

===============================================================================
