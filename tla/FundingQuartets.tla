---------------------------- MODULE FundingQuartets ----------------------------
(***************************************************************************)
(* How funding multipliers are stored: library FundingMultiplierQuartet-   *)
(* Helper packs them by four into a storage slot, the last quartet filled  *)
(* up with a sentinel, and finds the quartets of a range of periods from   *)
(* their times alone.  Everywhere else a market's multipliers are its      *)
(* sequence history, by period.                                            *)
(***************************************************************************)
EXTENDS Exchange

CONSTANT EMPTY     \* the sentinel, an integer no multiplier reaches

ASSUME SentinelAssumption ==
    /\ EMPTY \in Int \ {0}
    /\ \A rate \in FundingRates :
          /\ \A price \in IndexPrices : QuoteValue(price, -rate) # EMPTY
          /\ \A m \in Markets : QuoteValue(InitialPrices[m], -rate) # EMPTY

QuartetSize == 4

EmptyQuartet == [offset \in 0..3 |-> EMPTY]

NewQuartet(multiplier) == [EmptyQuartet EXCEPT ![0] = multiplier]

publishFundingMultiplier(quartets, multiplier) ==
    LET last == quartets[Len(quartets)]
        free == {offset \in 1..3 : last[offset] = EMPTY}
        next == CHOOSE offset \in free : \A other \in free : offset <= other
    IN  IF quartets = <<>> \/ last[3] # EMPTY
        THEN Append(quartets, NewQuartet(multiplier))
        ELSE [quartets EXCEPT ![Len(quartets)][next] = multiplier]

\* The quartets once all of the multipliers have been published, one by one.
Quartets(multipliers) ==
    LET stored[n \in 0..Len(multipliers)] ==
            IF n = 0 THEN <<>> ELSE publishFundingMultiplier(stored[n - 1], multipliers[n])
    IN  stored[Len(multipliers)]

calculateNumberOfMultipliersInQuartet(quartet) ==
    CHOOSE count \in 1..4 :
        /\ count > 1 => quartet[count - 1] # EMPTY
        /\ \A offset \in count..3 : quartet[offset] = EMPTY

\* Counted back from the time of the last multiplier; the index is from zero.
calculateIndexAndOffset(quartets, target, lastPublished) ==
    LET total  == calculateNumberOfMultipliersInQuartet(quartets[Len(quartets)])
                    + (Len(quartets) - 1) * QuartetSize
        first  == lastPublished - (total - 1) * FundingPeriod
        number == 1 + (target - first) \div FundingPeriod
    IN  [index  |-> DivideRoundUp(number, QuartetSize) - 1,
         offset |-> IF number % QuartetSize = 0 THEN 3 ELSE (number % QuartetSize) - 1]

calculateAggregatePaymentForQuartet(quartet, startOffset, endOffset, size) ==
    SumTo([i \in 1..4 |-> IF startOffset < i /\ i <= endOffset + 1
                          THEN QuoteValue(size, quartet[i - 1]) ELSE 0], 4)

\* Mutant of loadAggregatePayment: the first quartet stops at the end's offset.
LoadToOffset(quartets, from, to, lastPublished, size) ==
    LET start == calculateIndexAndOffset(quartets, from, lastPublished)
        end   == calculateIndexAndOffset(quartets, to, lastPublished)
    IN  SumTo([i \in 1..(end.index - start.index + 1) |->
                 calculateAggregatePaymentForQuartet(
                   quartets[start.index + i],
                   IF i = 1 THEN start.offset ELSE 0,
                   end.offset, size)],
              end.index - start.index + 1)

\* The rest of the first quartet, all of those between and the beginning of the last.
loadAggregatePayment(quartets, from, to, lastPublished, size) ==
    LET start == calculateIndexAndOffset(quartets, from, lastPublished)
        end   == calculateIndexAndOffset(quartets, to, lastPublished)
    IN  SumTo([i \in 1..(end.index - start.index + 1) |->
                 calculateAggregatePaymentForQuartet(
                   quartets[start.index + i],
                   IF i = 1 THEN start.offset ELSE 0,
                   IF start.index + i = end.index + 1 THEN end.offset ELSE QuartetSize - 1,
                   size)],
              end.index - start.index + 1)

TimeOf(period) == (period - 1) * FundingPeriod

\* Invariant.  Whatever has been published and backfilled, and however many
\* periods the last quartet holds, a position that is settled from one period
\* to another by way of the quartets is paid exactly what each of the periods
\* pays: none is skipped or paid twice where a quartet ends.
QuartetsPayEachPeriod ==
    \A m \in Markets :
        LET periods  == Len(history[m])
            quartets == Quartets(history[m])
        IN  \A w \in Wallets, first \in 1..periods : \A last \in first..periods :
                loadAggregatePayment(quartets, TimeOf(first), TimeOf(last), TimeOf(periods),
                                     ledger.position[w][m].balance)
                  = AggregatePayment(history[m], first, last, ledger.position[w][m].balance)

===============================================================================
