----------------------------- MODULE PositionProofs -----------------------------
(***************************************************************************)
(* What a wallet's positions may become, for any number of wallets and     *)
(* markets, any signed requests and any parameters.  Each update of the    *)
(* ledger is described position by position; then each handler is shown to *)
(* bring every position closer to zero, except for those who take them on: *)
(* the sides of a trade, the Insurance Fund and, in recovery, the Exit     *)
(* Fund.  From this one fact follow who may gain exposure while the        *)
(* Exchange is in recovery or after an exit is final, and with what        *)
(* margin.  Likewise each handler is shown to leave every wallet worth     *)
(* what it was, funding included, except one whose positions it changes,   *)
(* whose margin it checks or whose balances it empties: no value leaves an *)
(* open position unmargined.  The end of the module is about managed       *)
(* accounts, and about the quartets in which the funding multipliers of a  *)
(* position are stored.                                                    *)
(***************************************************************************)
EXTENDS ManagedAccounts, FundingQuartets, ExchangeProofs

-----------------------------------------------------------------------------
(* Cost bases. *)

SignedLedger(l) == \A w \in Wallets, m \in Markets : CostHasSign(l.position[w][m])

\* A part of a quantity, rounded down, is not more than the quantity.
LEMMA PartIsWithin ==
    ASSUME NEW cost \in Nat, NEW part \in Nat, NEW whole \in Nat \ {0}, part <= whole
    PROVE  (cost * part) \div whole \in 0..cost
<1> DEFINE n == cost * part
           q == n \div whole
<1>1. n \in Nat /\ n <= cost * whole
  OBVIOUS
<1> HIDE DEF n
<1>2. q \in Nat /\ q * whole <= n
  BY <1>1
<1> HIDE DEF q
<1>3. q * whole <= cost * whole
  BY <1>1, <1>2
<1>4. q <= cost
  BY <1>2, <1>3
<1>5. QED
  BY <1>2, <1>4 DEF q, n

\* A reduced position keeps part of its cost basis, and its sign.
LEMMA ReducedCost ==
    ASSUME NEW balance \in Int, NEW cost \in Int, NEW delta \in Int, balance # 0,
           balance > 0 => cost >= 0 /\ delta <= 0 /\ balance + delta >= 0,
           balance < 0 => cost <= 0 /\ delta >= 0 /\ balance + delta <= 0
    PROVE  /\ balance > 0 => cost + MultiplyPipsByFraction(cost, delta, balance) >= 0
           /\ balance < 0 => cost + MultiplyPipsByFraction(cost, delta, balance) <= 0
<1> DEFINE c == Abs(cost)
           d == Abs(delta)
           b == Abs(balance)
           q == (c * d) \div b
<1>1. c \in Nat /\ d \in Nat /\ b \in Nat \ {0} /\ d <= b
  BY DEF Abs
<1>2. q \in 0..c
  <2> HIDE DEF b, c, d
  <2> QED BY <1>1, PartIsWithin
<1>3. cost * delta \in Int /\ cost * delta <= 0 /\ Abs(cost * delta) = c * d
  <2>1. CASE balance > 0
    <3>1. c = cost /\ d = -delta /\ cost >= 0 /\ -delta >= 0
      BY <2>1 DEF Abs
    <3>2. cost * (-delta) >= 0 /\ cost * delta = -(cost * (-delta))
      BY <3>1
    <3> QED BY <3>1, <3>2 DEF Abs
  <2>2. CASE balance < 0
    <3>1. c = -cost /\ d = delta /\ -cost >= 0 /\ delta >= 0
      BY <2>2 DEF Abs
    <3>2. (-cost) * delta >= 0 /\ cost * delta = -((-cost) * delta)
      BY <3>1
    <3> QED BY <3>1, <3>2 DEF Abs
  <2> QED BY <2>1, <2>2
<1> DEFINE n == cost * delta
<1>4. MultiplyPipsByFraction(cost, delta, balance) = TruncDiv(n, balance)
  BY DEF MultiplyPipsByFraction
<1>5. Abs(n) \div b = q
  BY <1>3
<1>6. n = 0 => q = 0
  <2>1. n = 0 => c * d = 0
    BY <1>3 DEF Abs
  <2>2. 0 \div b = 0
    BY <1>1
  <2> QED BY <2>1, <2>2
<1>7. n \in Int /\ n <= 0
  BY <1>3
<1> HIDE DEF n, q
<1>8. balance > 0 => TruncDiv(n, balance) = -q
  BY <1>2, <1>5, <1>6, <1>7 DEF TruncDiv
<1>9. balance < 0 => TruncDiv(n, balance) = q
  BY <1>2, <1>5, <1>6, <1>7 DEF TruncDiv
<1>10. QED
  BY <1>2, <1>4, <1>8, <1>9 DEF c, Abs

\* However a position is opened, increased, reduced or flipped, its cost basis
\* keeps its sign.
LEMMA MovedPositionSigned ==
    ASSUME NEW p \in Position, CostHasSign(p), NEW delta \in Int, NEW quote \in Nat,
           NEW published
    PROVE  CostHasSign(MovedPosition(p, delta, quote, published))
<1> DEFINE balance == p.balance + delta
           cost    == MovedCostBasis(p, delta, quote)
           crossed == MultiplyPipsByFraction(quote, balance, Abs(delta))
           reduced == p.costBasis + MultiplyPipsByFraction(p.costBasis, delta, p.balance)
           opened  == p.costBasis + (IF delta > 0 THEN quote ELSE -quote)
           moved   == MovedPosition(p, delta, quote, published)
<1>1. p.balance \in Int /\ p.costBasis \in Int /\ balance \in Int
  BY DEF Position
<1>2. /\ p.balance > 0 => p.costBasis >= 0
      /\ p.balance < 0 => p.costBasis <= 0
      /\ p.balance = 0 => p.costBasis = 0
  BY DEF CostHasSign, ZeroPosition
<1>3. CASE balance = 0
  <2>1. moved = ZeroPosition
    BY <1>3 DEF MovedPosition
  <2> QED BY <2>1 DEF CostHasSign, ZeroPosition
<1>4. CASE balance # 0
  <2>1. moved.balance = balance /\ moved.costBasis = cost
    BY <1>4 DEF MovedPosition
  <2>2. cost = IF IsIncreased(p, delta) THEN opened
               ELSE IF IsFlipped(p, delta) THEN crossed ELSE reduced
    BY DEF MovedCostBasis
  <2>3. IsIncreased(p, delta) =>
          (balance > 0 => opened >= 0) /\ (balance < 0 => opened <= 0)
    BY <1>1, <1>2 DEF IsIncreased
  <2>4. IsFlipped(p, delta) =>
          (balance > 0 => crossed >= 0) /\ (balance < 0 => crossed <= 0)
    <3> SUFFICES ASSUME IsFlipped(p, delta)
                 PROVE  (balance > 0 => crossed >= 0) /\ (balance < 0 => crossed <= 0)
      OBVIOUS
    <3> DEFINE n == quote * balance
               d == Abs(delta)
    <3>1. d \in Nat \ {0}
      BY <1>1 DEF Abs, IsFlipped
    <3>2. crossed = TruncDiv(n, d)
      BY DEF MultiplyPipsByFraction
    <3>3. n \in Int /\ (balance > 0 => n >= 0) /\ (balance < 0 => n <= 0)
      <4> HIDE DEF balance
      <4> QED BY <1>1
    <3> HIDE DEF n, d, crossed
    <3> QED BY <1>1, <3>1, <3>2, <3>3, TruncDivSign
  <2>5. ~IsIncreased(p, delta) /\ ~IsFlipped(p, delta) =>
          (balance > 0 => reduced >= 0) /\ (balance < 0 => reduced <= 0)
    <3> SUFFICES ASSUME ~IsIncreased(p, delta), ~IsFlipped(p, delta)
                 PROVE  (balance > 0 => reduced >= 0) /\ (balance < 0 => reduced <= 0)
      OBVIOUS
    <3>1. /\ p.balance # 0
          /\ p.balance > 0 => p.costBasis >= 0 /\ delta <= 0 /\ p.balance + delta >= 0
          /\ p.balance < 0 => p.costBasis <= 0 /\ delta >= 0 /\ p.balance + delta <= 0
      BY <1>1, <1>2, <1>4 DEF IsIncreased, IsFlipped
    <3>2. (p.balance > 0 => reduced >= 0) /\ (p.balance < 0 => reduced <= 0)
      BY <1>1, <3>1, ReducedCost
    <3>3. (balance > 0 => p.balance > 0) /\ (balance < 0 => p.balance < 0)
      BY <1>1, <3>1
    <3> QED BY <3>2, <3>3
  <2> HIDE DEF balance, cost, crossed, reduced, opened, moved
  <2>6. (balance > 0 => cost >= 0) /\ (balance < 0 => cost <= 0)
    BY <2>2, <2>3, <2>4, <2>5
  <2>7. CostHasSign(moved)
    BY <1>4, <2>1, <2>6 DEF CostHasSign
  <2> QED BY <2>7 DEF moved
<1>5. QED
  BY <1>3, <1>4

-----------------------------------------------------------------------------
(* The updates, position by position. *)

\* From l to k every wallet keeps its positions; at most they are dated.
SameExposure(l, k) ==
    \A w \in Wallets, m \in Markets :
        /\ k.position[w][m].balance = l.position[w][m].balance
        /\ k.position[w][m].costBasis = l.position[w][m].costBasis
        /\ l.position[w][m].balance = 0 => k.position[w][m] = l.position[w][m]

\* Settling funding keeps the positions.
LEMMA FundedExposure ==
    ASSUME TypeOK, NEW l, SoundLedger(l), NEW w \in Wallets
    PROVE  SameExposure(l, Funded(l, w)) /\ SoundLedger(Funded(l, w))
<1> DEFINE k == Funded(l, w)
           funded == [m \in Markets |-> IF m \in l.open[w]
                                        THEN FundedPosition(l.position[w][m], Len(history[m]))
                                        ELSE l.position[w][m]]
<1>1. k.position = [l.position EXCEPT ![w] = funded]
  BY DEF Funded, ApplyOutstandingWalletFunding, AddQuote, SetQuote, SetPositions
<1>2. \A v \in Wallets : k.position[v] = IF v = w THEN funded ELSE l.position[v]
  <2> HIDE DEF funded, k
  <2> QED BY <1>1 DEF SoundLedger, Ledger
<1>3. ASSUME NEW v \in Wallets, NEW m \in Markets
      PROVE  /\ k.position[v][m].balance = l.position[v][m].balance
             /\ k.position[v][m].costBasis = l.position[v][m].costBasis
             /\ l.position[v][m].balance = 0 => k.position[v][m] = l.position[v][m]
  <2>1. CASE v # w
    BY <1>2, <2>1
  <2>2. CASE v = w
    <3>1. k.position[v][m] = funded[m]
      BY <1>2, <2>2
    <3>2. funded[m] \in {l.position[w][m], FundedPosition(l.position[w][m], Len(history[m]))}
      OBVIOUS
    <3> HIDE DEF funded, k
    <3> QED BY <2>2, <3>1, <3>2 DEF FundedPosition
  <2> QED BY <2>1, <2>2
<1>4. QED
  BY <1>3, FundedSound DEF SameExposure

\* Nor does settling the funding of two wallets.
LEMMA FundedTwiceExposure ==
    ASSUME TypeOK, NEW l, SoundLedger(l), NEW v \in Wallets, NEW w \in Wallets
    PROVE  /\ SameExposure(l, Funded(Funded(l, v), w))
           /\ SoundLedger(Funded(Funded(l, v), w))
<1> DEFINE j == Funded(l, v)
           k == Funded(j, w)
<1>1. SameExposure(l, j) /\ SoundLedger(j)
  BY FundedExposure
<1> HIDE DEF j
<1>2. SameExposure(j, k) /\ SoundLedger(k)
  BY <1>1, FundedExposure
<1> HIDE DEF k
<1>3. SameExposure(l, k)
  BY <1>1, <1>2 DEF SameExposure
<1>4. QED
  BY <1>2, <1>3 DEF j, k

\* A ledger with the same positions is signed like the one before.
LEMMA ExposureSigned ==
    ASSUME NEW l, SignedLedger(l), NEW k, SameExposure(l, k)
    PROVE  SignedLedger(k)
<1>1. ASSUME NEW w \in Wallets, NEW m \in Markets
      PROVE  CostHasSign(k.position[w][m])
  <2> DEFINE p == l.position[w][m]
             q == k.position[w][m]
  <2>1. CostHasSign(p)
    BY DEF SignedLedger
  <2>2. q.balance = p.balance /\ q.costBasis = p.costBasis /\ (p.balance = 0 => q = p)
    BY DEF SameExposure
  <2> HIDE DEF p, q
  <2>3. CostHasSign(q)
    BY <2>1, <2>2 DEF CostHasSign
  <2> QED BY <2>3 DEF q
<1>2. QED
  BY <1>1 DEF SignedLedger

\* Buying or selling base moves one position.
LEMMA ExchangeBasePositions ==
    ASSUME NEW l, SoundLedger(l), NEW w \in Wallets, NEW m \in Markets,
           NEW delta, NEW quote, NEW published
    PROVE  \A v \in Wallets, x \in Markets :
              ExchangeBase(l, w, m, delta, quote, published).position[v][x]
                = IF v = w /\ x = m
                  THEN MovedPosition(l.position[w][m], delta, quote, published[m])
                  ELSE l.position[v][x]
<1> DEFINE p == MovedPosition(l.position[w][m], delta, quote, published[m])
           k == ExchangeBase(l, w, m, delta, quote, published)
<1>1. k.position = [l.position EXCEPT ![w] = [l.position[w] EXCEPT ![m] = p]]
  <2> HIDE DEF p
  <2>1. k.position = SetPosition(l, w, m, p).position
    BY DEF ExchangeBase, AddQuote, SetQuote, p
  <2> QED BY <2>1 DEF SetPosition, SetPositions
<1> HIDE DEF p, k
<1>2. ASSUME NEW v \in Wallets, NEW x \in Markets
      PROVE  k.position[v][x] = IF v = w /\ x = m THEN p ELSE l.position[v][x]
  BY <1>1 DEF SoundLedger, Ledger
<1>3. QED
  BY <1>2 DEF p, k

PositionsTraded(k, l, buyer, seller, m, base, quote, published) ==
    \A v \in Wallets, x \in Markets :
        k.position[v][x]
          = IF x # m THEN l.position[v][x]
            ELSE IF v = seller
            THEN MovedPosition(l.position[seller][m], -base, quote, published[m])
            ELSE IF v = buyer
            THEN MovedPosition(l.position[buyer][m], base, quote, published[m])
            ELSE l.position[v][x]

\* A trade moves the seller's and the buyer's position.
LEMMA UpdateForTradePositions ==
    ASSUME NEW l, SoundLedger(l), NEW buyer \in Wallets, NEW seller \in Wallets,
           buyer # seller, NEW m \in Markets, NEW base \in Int, NEW quote \in Int,
           NEW buyFee \in Int, NEW sellFee \in Int, NEW feeWallet,
           NEW published \in [Markets -> Nat]
    PROVE  PositionsTraded(UpdateForTrade(l, buyer, seller, m, base, quote, buyFee, sellFee,
                                          feeWallet, published),
                           l, buyer, seller, m, base, quote, published)
<1> DEFINE a == ExchangeBase(l, seller, m, -base, quote, published)
           b == AddQuote(a, seller, -sellFee)
           c == ExchangeBase(b, buyer, m, base, quote, published)
           k == UpdateForTrade(l, buyer, seller, m, base, quote, buyFee, sellFee, feeWallet,
                               published)
<1>0. -base \in Int /\ -sellFee \in Int
  OBVIOUS
<1>1. k.position = c.position
  BY DEF UpdateForTrade, AddQuote, SetQuote
<1>2. SoundLedger(a)
  BY <1>0, ExchangeBaseSound
<1>3. \A v \in Wallets, x \in Markets :
        a.position[v][x] = IF v = seller /\ x = m
                           THEN MovedPosition(l.position[seller][m], -base, quote, published[m])
                           ELSE l.position[v][x]
  BY ExchangeBasePositions
<1> HIDE DEF a, k
<1>4. SoundLedger(b) /\ b.position = a.position
  BY <1>0, <1>2, AddQuoteSound DEF AddQuote, SetQuote
<1> HIDE DEF b
<1>5. \A v \in Wallets, x \in Markets :
        c.position[v][x] = IF v = buyer /\ x = m
                           THEN MovedPosition(b.position[buyer][m], base, quote, published[m])
                           ELSE b.position[v][x]
  BY <1>4, ExchangeBasePositions
<1> HIDE DEF c
<1>6. b.position[buyer][m] = l.position[buyer][m]
  BY <1>3, <1>4
<1>7. ASSUME NEW v \in Wallets, NEW x \in Markets
      PROVE  k.position[v][x]
                = IF x # m THEN l.position[v][x]
                  ELSE IF v = seller
                  THEN MovedPosition(l.position[seller][m], -base, quote, published[m])
                  ELSE IF v = buyer
                  THEN MovedPosition(l.position[buyer][m], base, quote, published[m])
                  ELSE l.position[v][x]
  BY <1>1, <1>3, <1>4, <1>5, <1>6
<1>8. PositionsTraded(k, l, buyer, seller, m, base, quote, published)
  BY <1>7 DEF PositionsTraded
<1>9. QED
  BY <1>8 DEF k

\* A deleveraging moves the wallet's and the counterparty's position.
LEMMA DeleveragePositions ==
    ASSUME NEW l, SoundLedger(l), NEW w \in Wallets, NEW counterparty \in Wallets,
           w # counterparty, NEW m \in Markets, NEW base \in Int, NEW quote \in Int,
           NEW published \in [Markets -> Nat]
    PROVE  LET delta == ClosingDelta(l, w, m, base)
           IN  \A v \in Wallets, x \in Markets :
                  UpdatePositionsForDeleverage(l, w, counterparty, m, base, quote,
                                               published).position[v][x]
                    = IF x # m THEN l.position[v][x]
                      ELSE IF v = w
                      THEN MovedPosition(l.position[w][m], delta, quote, published[m])
                      ELSE IF v = counterparty
                      THEN MovedPosition(l.position[counterparty][m], -delta, quote, published[m])
                      ELSE l.position[v][x]
<1> DEFINE delta == ClosingDelta(l, w, m, base)
           a == ExchangeBase(l, w, m, delta, quote, published)
           k == ExchangeBase(a, counterparty, m, -delta, quote, published)
<1>1. delta \in Int /\ -delta \in Int
  BY DEF ClosingDelta
<1>2. UpdatePositionsForDeleverage(l, w, counterparty, m, base, quote, published) = k
  BY DEF UpdatePositionsForDeleverage
<1> HIDE DEF delta
<1>3. SoundLedger(a)
  BY <1>1, ExchangeBaseSound
<1>4. \A v \in Wallets, x \in Markets :
        a.position[v][x] = IF v = w /\ x = m
                           THEN MovedPosition(l.position[w][m], delta, quote, published[m])
                           ELSE l.position[v][x]
  BY ExchangeBasePositions
<1> HIDE DEF a
<1>5. \A v \in Wallets, x \in Markets :
        k.position[v][x] = IF v = counterparty /\ x = m
                           THEN MovedPosition(a.position[counterparty][m], -delta, quote, published[m])
                           ELSE a.position[v][x]
  BY <1>3, ExchangeBasePositions
<1> HIDE DEF k
<1>6. a.position[counterparty][m] = l.position[counterparty][m]
  BY <1>4
<1>7. ASSUME NEW v \in Wallets, NEW x \in Markets
      PROVE  k.position[v][x]
                = IF x # m THEN l.position[v][x]
                  ELSE IF v = w
                  THEN MovedPosition(l.position[w][m], delta, quote, published[m])
                  ELSE IF v = counterparty
                  THEN MovedPosition(l.position[counterparty][m], -delta, quote, published[m])
                  ELSE l.position[v][x]
  BY <1>4, <1>5, <1>6
<1>8. QED
  BY <1>2, <1>7 DEF delta

\* A wallet that is taken over has nothing left in its open markets, and the
\* acquirer has its positions on top of its own.
LEMMA AcquiredPositions ==
    ASSUME NEW l, SoundLedger(l), NEW w \in Wallets, NEW acquirer \in Wallets,
           NEW quoteFor, NEW published
    PROVE  \A v \in Wallets, x \in Markets :
              AcquirePositions(l, w, acquirer, quoteFor, published).position[v][x]
                = IF x \notin l.open[w] THEN l.position[v][x]
                  ELSE IF v = acquirer
                  THEN MovedPosition(IF w = acquirer THEN ZeroPosition
                                                     ELSE l.position[acquirer][x],
                                     l.position[w][x].balance, quoteFor[x], published[x])
                  ELSE IF v = w THEN ZeroPosition
                  ELSE l.position[v][x]
<1> DEFINE closed   == l.open[w]
           zeroed   == [m \in Markets |-> IF m \in closed THEN ZeroPosition
                                                         ELSE l.position[w][m]]
           emptied  == SetPositions(l, w, zeroed, {})
           acquired == [m \in Markets |->
                          IF m \in closed
                          THEN MovedPosition(emptied.position[acquirer][m],
                                             l.position[w][m].balance, quoteFor[m], published[m])
                          ELSE emptied.position[acquirer][m]]
           k == AcquirePositions(l, w, acquirer, quoteFor, published)
<1>1. k.position = [emptied.position EXCEPT ![acquirer] = acquired]
  BY DEF AcquirePositions, SetPositions
<1>2. emptied.position = [l.position EXCEPT ![w] = zeroed]
  BY SMTT(60) DEF SetPositions
<1> DEFINE e == emptied.position
<1>3. e = [l.position EXCEPT ![w] = zeroed] /\ k.position = [e EXCEPT ![acquirer] = acquired]
  BY <1>1, <1>2, ZenonT(30)
<1>4. \A m \in Markets : acquired[m] = IF m \in closed
                                       THEN MovedPosition(e[acquirer][m], l.position[w][m].balance,
                                                          quoteFor[m], published[m])
                                       ELSE e[acquirer][m]
  OBVIOUS
<1>5. \A m \in Markets : zeroed[m] = IF m \in closed THEN ZeroPosition ELSE l.position[w][m]
  OBVIOUS
<1>6. DOMAIN l.position = Wallets
  BY DEF SoundLedger, Ledger
<1> HIDE DEF k, e, emptied, acquired, zeroed
<1>7. \A v \in Wallets : e[v] = IF v = w THEN zeroed ELSE l.position[v]
  BY <1>3, <1>6
<1>8. DOMAIN e = Wallets
  BY <1>3, <1>6
<1>9. \A v \in Wallets : k.position[v] = IF v = acquirer THEN acquired ELSE e[v]
  BY <1>3, <1>8
<1>10. ASSUME NEW v \in Wallets, NEW x \in Markets
       PROVE  k.position[v][x]
                = IF x \notin l.open[w] THEN l.position[v][x]
                  ELSE IF v = acquirer
                  THEN MovedPosition(IF w = acquirer THEN ZeroPosition
                                                     ELSE l.position[acquirer][x],
                                     l.position[w][x].balance, quoteFor[x], published[x])
                  ELSE IF v = w THEN ZeroPosition
                  ELSE l.position[v][x]
  <2>1. e[v][x] = IF v = w /\ x \in closed THEN ZeroPosition ELSE l.position[v][x]
    BY <1>5, <1>7
  <2>2. e[acquirer][x] = IF acquirer = w /\ x \in closed THEN ZeroPosition
                                                        ELSE l.position[acquirer][x]
    BY <1>5, <1>7
  <2>3. CASE v = acquirer
    BY <1>4, <1>9, <2>2, <2>3
  <2>4. CASE v # acquirer
    BY <1>9, <2>1, <2>4
  <2> QED BY <2>3, <2>4
<1>11. QED
  BY <1>10 DEF k

-----------------------------------------------------------------------------
(* What a step may do to a position. *)

Shrinks(old, new) ==
    Abs(new) <= Abs(old) /\ (old >= 0 => new >= 0) /\ (old <= 0 => new <= 0)

\* What GrowthIsMargined asks of a position that has grown.
IsMargined(w, m) ==
    /\ markets[m].isActive
    /\ Abs(ledger'.position[w][m].balance) <= FieldsFor(w)[m].maximumPositionSize
    /\ MeetsInitialMargin(ledger', w, IndexPrice, FieldsFor(w))

\* Who may take on a position: the Exit Fund; and, but for recovery, the
\* Insurance Fund and the wallets whose exit is not final.
MayTakeOn(w, m) ==
    \/ w = exitFundWallet
    \/ /\ ~ExitFundHasPositions
       /\ w = InsuranceFund \/ (w # exitFundWallet /\ ~IsExitFinalized(w))
       /\ w # exitFundWallet /\ HasGrown(w, m) => IsMargined(w, m)

PositionsFollow ==
    /\ SignedLedger(ledger')
    /\ \A w \in Wallets, m \in Markets : HasShrunk(w, m) \/ MayTakeOn(w, m)

\* The inductive invariant: the Insurance Fund has announced no exit.
PInv ==
    /\ IInv
    /\ SignedLedger(ledger)
    /\ ~walletExits[InsuranceFund].exists

\* What a handler settles first: the positions are the same.
Settled(l) == SoundLedger(l) /\ SignedLedger(l) /\ SameExposure(ledger, l)

\* The types of what the handlers compare.
LEMMA BalanceTypes ==
    ASSUME NEW l, SoundLedger(l), NEW w \in Wallets, NEW m \in Markets
    PROVE  /\ l.position[w][m] \in Position
           /\ l.position[w][m].balance \in Int
           /\ Abs(l.position[w][m].balance) \in Nat
           /\ m \in l.open[w] <=> l.position[w][m].balance # 0
<1>1. l.position[w][m] \in Position /\ (m \in l.open[w] <=> l.position[w][m].balance # 0)
  BY LedgerTypes
<1>2. l.position[w][m].balance \in Int
  BY <1>1 DEF Position
<1>3. QED
  BY <1>1, <1>2 DEF Abs

\* Settling funding keeps the positions, whether of one wallet or of two.
LEMMA FundedIsSettled ==
    ASSUME PInv, NEW v \in Wallets
    PROVE  /\ Settled(Funded(ledger, v))
           /\ \A w \in Wallets : Settled(Funded(Funded(ledger, v), w))
<1>1. SoundLedger(ledger) /\ SignedLedger(ledger) /\ TypeOK
  BY LedgerSound DEF PInv, IInv
<1>2. SameExposure(ledger, Funded(ledger, v)) /\ SoundLedger(Funded(ledger, v))
  BY <1>1, FundedExposure
<1>3. ASSUME NEW w \in Wallets
      PROVE  /\ SameExposure(ledger, Funded(Funded(ledger, v), w))
             /\ SoundLedger(Funded(Funded(ledger, v), w))
  BY <1>1, FundedTwiceExposure
<1>4. QED
  BY <1>1, <1>2, <1>3, ExposureSigned DEF Settled

\* A position that is only dated has not grown.
LEMMA KeptHasShrunk ==
    ASSUME PInv, NEW w \in Wallets, NEW m \in Markets, NEW l, Settled(l),
           ledger'.position[w][m] = l.position[w][m]
    PROVE  HasShrunk(w, m) /\ CostHasSign(ledger'.position[w][m])
<1>1. ledger'.position[w][m].balance = ledger.position[w][m].balance
  BY DEF Settled, SameExposure
<1>2. ledger.position[w][m].balance \in Int
  BY LedgerSound, BalanceTypes DEF PInv
<1>3. CostHasSign(l.position[w][m])
  BY DEF Settled, SignedLedger
<1>4. QED
  BY <1>1, <1>2, <1>3 DEF HasShrunk, Abs

\* A position that is closed, or updated towards zero, has shrunk.
LEMMA ClosedHasShrunk ==
    ASSUME PInv, NEW w \in Wallets, NEW m \in Markets, NEW l, Settled(l),
           \/ ledger'.position[w][m].balance = 0
           \/ /\ ledger'.position[w][m].balance \in Int
              /\ UpdatedTowardsZero(l.position[w][m].balance, ledger'.position[w][m].balance)
    PROVE  HasShrunk(w, m)
<1> DEFINE old == ledger.position[w][m].balance
           new == ledger'.position[w][m].balance
<1>1. old = l.position[w][m].balance
  BY DEF Settled, SameExposure
<1>2. old \in Int
  BY LedgerSound, BalanceTypes DEF PInv
<1>3. new = 0 \/ (new \in Int /\ UpdatedTowardsZero(old, new))
  BY <1>1
<1>4. HasShrunk(w, m) <=> Shrinks(old, new)
  BY DEF HasShrunk, Shrinks
<1> HIDE DEF old, new
<1>5. Shrinks(old, new)
  BY <1>2, <1>3 DEF Shrinks, UpdatedTowardsZero, Abs
<1>6. QED
  BY <1>4, <1>5

\* A transaction that leaves every position as it is.
LEMMA KeptPositionsFollow ==
    ASSUME PInv, NEW l, Settled(l), ledger'.position = l.position
    PROVE  PositionsFollow
<1>1. ASSUME NEW w \in Wallets, NEW m \in Markets
      PROVE  HasShrunk(w, m) /\ CostHasSign(ledger'.position[w][m])
  BY KeptHasShrunk
<1>2. QED
  BY <1>1 DEF PositionsFollow, SignedLedger

\* A transaction that does not touch the ledger.
LEMMA SameLedgerFollows ==
    ASSUME PInv, ledger' = ledger
    PROVE  PositionsFollow
<1>1. Settled(ledger)
  BY LedgerSound DEF PInv, Settled, SameExposure
<1>2. QED
  BY <1>1, KeptPositionsFollow

\* A position in a settled ledger that is moved keeps the sign of its cost.
LEMMA SettledMoves ==
    ASSUME PInv, NEW l, Settled(l), NEW w \in Wallets, NEW m \in Markets,
           NEW delta \in Int, NEW quote \in Nat
    PROVE  LET p == MovedPosition(l.position[w][m], delta, quote, Published[m])
           IN  p \in Position /\ CostHasSign(p) /\ p.balance = l.position[w][m].balance + delta
<1>1. l.position[w][m] \in Position /\ CostHasSign(l.position[w][m])
  BY BalanceTypes DEF Settled, SignedLedger
<1>2. Published[m] \in Nat
  BY ParameterTypes DEF PInv, IInv
<1>3. QED
  BY <1>1, <1>2, MovedPositionType, MovedPositionSigned

-----------------------------------------------------------------------------
(* Trading. *)

\* The side of a trade whose position has grown meets its requirement.
LEMMA TradedIsMargined ==
    ASSUME PInv, SoundLedger(ledger'), NEW l, Settled(l), NEW o \in Orders,
           markets[o.market].isActive,
           IsPositionUpdateValid(o, l, ledger'), HasGrown(o.wallet, o.market)
    PROVE  IsMargined(o.wallet, o.market)
<1> DEFINE w   == o.wallet
           m   == o.market
           old == l.position[w][m].balance
           new == ledger'.position[w][m].balance
           max == FieldsFor(w)[m].maximumPositionSize
<1>1. w \in Wallets /\ m \in Markets
  BY RequestAssumption DEF Order
<1>2. Abs(old) \in Nat /\ Abs(new) \in Nat
  BY <1>1, BalanceTypes DEF Settled
<1>3. Abs(new) > Abs(old)
  BY <1>1 DEF HasGrown, Settled, SameExposure
<1>4. ~WasReduced(old, new)
  <2> HIDE DEF old, new
  <2> QED BY <1>2, <1>3 DEF WasReduced
<1>5. BelowMaximumOrReduced(old, new, max)
  BY DEF IsPositionUpdateValid
<1>6. max \in Nat
  <2>1. FieldsFor(w) \in [Markets -> MarketFields]
    BY <1>1, ParameterTypes DEF PInv, IInv
  <2> QED BY <1>1, <2>1 DEF MarketFields
<1>7. Abs(new) <= max
  <2> HIDE DEF old, new, max
  <2> QED BY <1>2, <1>4, <1>5, <1>6 DEF BelowMaximumOrReduced
<1>8. MeetsInitialMargin(ledger', w, IndexPrice, FieldsFor(w))
  BY <1>4 DEF IsPositionUpdateValid, MeetsMarginAfterTrade
<1>9. QED
  BY <1>7, <1>8 DEF IsMargined

\* A trade moves the positions of two wallets that may trade, and no other.
LEMMA ExecuteTradeFollows ==
    ASSUME PInv, NEW trade \in Trade, NEW buy \in Orders, NEW sell \in Orders,
           ExecuteTrade(trade, buy, sell)
    PROVE  PositionsFollow
<1> DEFINE buyFee  == IF trade.makerSide = "Buy" THEN trade.makerFee ELSE trade.takerFee
           sellFee == IF trade.makerSide = "Buy" THEN trade.takerFee ELSE trade.makerFee
           funded  == Funded(Funded(ledger, buy.wallet), sell.wallet)
           m       == trade.market
           bought  == MovedPosition(funded.position[buy.wallet][m], trade.base, trade.quote,
                                    Published[m])
           sold    == MovedPosition(funded.position[sell.wallet][m], -trade.base, trade.quote,
                                    Published[m])
<1>1. /\ buy.wallet \in Wallets /\ sell.wallet \in Wallets /\ m \in Markets
      /\ buy.wallet # sell.wallet /\ buy.market = m /\ sell.market = m
      /\ markets[m].isActive
  BY RequestAssumption DEF Order, Trade, ExecuteTrade
<1>2. /\ buyFee \in Int /\ sellFee \in Int /\ FeeWallet \in Wallets
      /\ trade.base \in Int /\ -trade.base \in Int /\ trade.quote \in Nat
  BY ParameterAssumption DEF Trade
<1>3. Settled(funded)
  BY <1>1, FundedIsSettled
<1>4. Published \in [Markets -> Nat]
  BY ParameterTypes DEF PInv, IInv
<1>5. ledger' = UpdateForTrade(funded, buy.wallet, sell.wallet, trade.market, trade.base,
                               trade.quote, buyFee, sellFee, FeeWallet, Published)
  BY DEF ExecuteTrade
<1>6. IsPositionUpdateValid(buy, funded, ledger') /\ IsPositionUpdateValid(sell, funded, ledger')
  BY DEF ExecuteTrade
<1>7. /\ ~ExitFundHasPositions
      /\ ~IsExitFinalized(buy.wallet) /\ ~IsExitFinalized(sell.wallet)
      /\ buy.wallet # exitFundWallet /\ sell.wallet # exitFundWallet
  BY DEF ExecuteTrade, MayTrade
<1> HIDE DEF buyFee, sellFee, funded
<1>8. SoundLedger(ledger')
  <2>1. SoundLedger(funded)
    BY <1>3 DEF Settled
  <2>2. SoundLedger(UpdateForTrade(funded, buy.wallet, sell.wallet, trade.market, trade.base,
                                   trade.quote, buyFee, sellFee, FeeWallet, Published))
    <3>1. trade.market \in Markets /\ trade.quote \in Int
      BY <1>1, <1>2
    <3> HIDE DEF m, bought, sold
    <3> QED BY <1>1, <1>2, <1>4, <2>1, <3>1, UpdateForTradeSound
  <2> QED BY <1>5, <2>2
<1>9. \A v \in Wallets, x \in Markets :
        ledger'.position[v][x] = IF x # m THEN funded.position[v][x]
                                 ELSE IF v = sell.wallet THEN sold
                                 ELSE IF v = buy.wallet THEN bought
                                 ELSE funded.position[v][x]
  <2> HIDE DEF m, bought, sold
  <2>1. PositionsTraded(UpdateForTrade(funded, buy.wallet, sell.wallet, trade.market, trade.base,
                                       trade.quote, buyFee, sellFee, FeeWallet, Published),
                        funded, buy.wallet, sell.wallet, trade.market, trade.base, trade.quote,
                        Published)
    <3>1. SoundLedger(funded) /\ trade.market \in Markets /\ trade.quote \in Int
      BY <1>1, <1>2, <1>3 DEF Settled, m
    <3> QED BY <1>1, <1>2, <1>4, <3>1, UpdateForTradePositions
  <2>2. PositionsTraded(ledger', funded, buy.wallet, sell.wallet, trade.market, trade.base,
                        trade.quote, Published)
    BY <1>5, <2>1
  <2> QED BY <2>2 DEF PositionsTraded, bought, sold, m
<1>10. CostHasSign(sold) /\ CostHasSign(bought)
  BY <1>1, <1>2, <1>3, SettledMoves
<1> HIDE DEF sold, bought, m
<1>11. MayTakeOn(buy.wallet, m) /\ MayTakeOn(sell.wallet, m)
  <2>1. HasGrown(buy.wallet, m) => IsMargined(buy.wallet, m)
    BY <1>1, <1>3, <1>6, <1>8, TradedIsMargined
  <2>2. HasGrown(sell.wallet, m) => IsMargined(sell.wallet, m)
    BY <1>1, <1>3, <1>6, <1>8, TradedIsMargined
  <2> QED BY <1>7, <2>1, <2>2 DEF MayTakeOn
<1>12. ASSUME NEW v \in Wallets, NEW x \in Markets
       PROVE  CostHasSign(ledger'.position[v][x]) /\ (HasShrunk(v, x) \/ MayTakeOn(v, x))
  <2>1. CASE x = m /\ v \in {buy.wallet, sell.wallet}
    BY <1>9, <1>10, <1>11, <2>1
  <2>2. CASE ~(x = m /\ v \in {buy.wallet, sell.wallet})
    <3>1. ledger'.position[v][x] = funded.position[v][x]
      BY <1>9, <2>2
    <3> QED BY <1>3, <3>1, KeptHasShrunk
  <2> QED BY <2>1, <2>2
<1>13. QED
  BY <1>12 DEF PositionsFollow, SignedLedger

-----------------------------------------------------------------------------
(* Liquidation. *)

\* What the Insurance Fund takes on is within its maximum and margined.
LEMMA TakenOnIsMargined ==
    ASSUME PInv, SoundLedger(ledger'), NEW l, Settled(l), NEW m \in Markets, NEW delta \in Int,
           ~ExitFundHasPositions, markets[m].isActive,
           CanTakeOn(l, InsuranceFund, m, delta),
           ledger'.position[InsuranceFund][m].balance
             = l.position[InsuranceFund][m].balance + delta,
           MeetsInitialMargin(ledger', InsuranceFund, IndexPrice, FieldsFor(InsuranceFund))
    PROVE  MayTakeOn(InsuranceFund, m)
<1> SUFFICES ASSUME InsuranceFund # exitFundWallet, HasGrown(InsuranceFund, m)
             PROVE  IsMargined(InsuranceFund, m)
  BY DEF MayTakeOn
<1> DEFINE w   == InsuranceFund
           old == l.position[w][m].balance
           new == ledger'.position[w][m].balance
           max == FieldsFor(w)[m].maximumPositionSize
<1>1. w \in Wallets
  BY ParameterAssumption
<1>2. Abs(old) \in Nat /\ Abs(new) \in Nat
  BY <1>1, BalanceTypes DEF Settled
<1>3. Abs(new) > Abs(old)
  BY <1>1 DEF HasGrown, Settled, SameExposure
<1>4. BelowMaximumOrReduced(old, new, max)
  BY DEF CanTakeOn
<1>5. max \in Nat
  <2>1. FieldsFor(w) \in [Markets -> MarketFields]
    BY <1>1, ParameterTypes DEF PInv, IInv
  <2> QED BY <1>1, <2>1 DEF MarketFields
<1>6. Abs(new) <= max
  <2> HIDE DEF old, new, max
  <2> QED BY <1>2, <1>3, <1>4, <1>5 DEF BelowMaximumOrReduced, WasReduced
<1>7. QED
  BY <1>6 DEF IsMargined

\* A wallet is taken over by one that may take on its positions.
LEMMA AcquisitionFollows ==
    ASSUME PInv, NEW l, Settled(l), NEW w \in Wallets, NEW acquirer \in Wallets,
           NEW quoteFor, \A m \in l.open[w] : quoteFor[m] \in Nat,
           ledger'.position = AcquirePositions(l, w, acquirer, quoteFor, Published).position,
           \A m \in l.open[w] : MayTakeOn(acquirer, m)
    PROVE  PositionsFollow
<1>1. \A v \in Wallets, x \in Markets :
        ledger'.position[v][x]
          = IF x \notin l.open[w] THEN l.position[v][x]
            ELSE IF v = acquirer
            THEN MovedPosition(IF w = acquirer THEN ZeroPosition ELSE l.position[acquirer][x],
                               l.position[w][x].balance, quoteFor[x], Published[x])
            ELSE IF v = w THEN ZeroPosition
            ELSE l.position[v][x]
  BY AcquiredPositions DEF Settled
<1>2. ZeroPosition \in Position /\ CostHasSign(ZeroPosition) /\ ZeroPosition.balance = 0
  BY DEF ZeroPosition, Position, CostHasSign
<1>3. ASSUME NEW v \in Wallets, NEW x \in Markets
      PROVE  CostHasSign(ledger'.position[v][x]) /\ (HasShrunk(v, x) \/ MayTakeOn(v, x))
  <2>1. CASE x \notin l.open[w] \/ v \notin {acquirer, w}
    <3>1. ledger'.position[v][x] = l.position[v][x]
      BY <1>1, <2>1
    <3> QED BY <3>1, KeptHasShrunk
  <2>2. CASE x \in l.open[w] /\ v = acquirer
    <3> DEFINE own == IF w = acquirer THEN ZeroPosition ELSE l.position[acquirer][x]
    <3>1. own \in Position /\ CostHasSign(own)
      BY <1>2, BalanceTypes DEF Settled, SignedLedger
    <3>2. ledger'.position[v][x] = MovedPosition(own, l.position[w][x].balance, quoteFor[x],
                                                 Published[x])
      BY <1>1, <2>2
    <3>3. l.position[w][x].balance \in Int
      BY BalanceTypes DEF Settled
    <3> HIDE DEF own
    <3>4. CostHasSign(ledger'.position[v][x])
      BY <2>2, <3>1, <3>2, <3>3, MovedPositionSigned
    <3> QED BY <2>2, <3>4
  <2>3. CASE x \in l.open[w] /\ v = w /\ v # acquirer
    <3>1. ledger'.position[v][x] = ZeroPosition
      BY <1>1, <2>3
    <3> QED BY <1>2, <3>1, ClosedHasShrunk
  <2> QED BY <2>1, <2>2, <2>3
<1>4. QED
  BY <1>3 DEF PositionsFollow, SignedLedger

\* The Insurance Fund takes a wallet over within its maxima and its margin.
LEMMA TakeOverFollows ==
    ASSUME PInv, SoundLedger(ledger'), NEW l, Settled(l), NEW w \in Wallets,
           w # InsuranceFund, ~ExitFundHasPositions,
           NEW quoteFor, \A m \in l.open[w] : quoteFor[m] \in Nat,
           ledger'.position = AcquirePositions(l, w, InsuranceFund, quoteFor, Published).position,
           CanTakeOnAll(l, w, InsuranceFund),
           MeetsInitialMargin(ledger', InsuranceFund, IndexPrice, FieldsFor(InsuranceFund))
    PROVE  PositionsFollow
<1>1. InsuranceFund \in Wallets
  BY ParameterAssumption
<1>2. ASSUME NEW m \in l.open[w]
      PROVE  MayTakeOn(InsuranceFund, m)
  <2>1. m \in Markets
    BY LedgerTypes DEF Settled
  <2>2. l.position[w][m].balance \in Int
    BY <2>1, BalanceTypes DEF Settled
  <2>3. ledger'.position[InsuranceFund][m]
          = MovedPosition(l.position[InsuranceFund][m], l.position[w][m].balance, quoteFor[m],
                          Published[m])
    BY <1>1, <2>1, AcquiredPositions DEF Settled
  <2>4. ledger'.position[InsuranceFund][m].balance
          = l.position[InsuranceFund][m].balance + l.position[w][m].balance
    BY <1>1, <2>1, <2>2, <2>3, SettledMoves
  <2>5. markets[m].isActive /\ CanTakeOn(l, InsuranceFund, m, l.position[w][m].balance)
    BY DEF CanTakeOnAll
  <2> QED BY <2>1, <2>2, <2>4, <2>5, TakenOnIsMargined
<1>3. QED
  BY <1>1, <1>2, AcquisitionFollows

\* The quote quantities the contract accepts are not negative.
LEMMA ValidQuotes ==
    ASSUME NEW l, SoundLedger(l), NEW w \in Wallets, NEW expected \in [Markets -> Int],
           NEW quoteFor, AreQuotesValid(l, w, expected, quoteFor)
    PROVE  \A m \in l.open[w] : quoteFor[m] \in Nat
<1>1. ASSUME NEW m \in l.open[w]
      PROVE  quoteFor[m] \in Nat
  <2>1. expected[m] \in Int
    BY LedgerTypes
  <2>2. quoteFor[m] \in (expected[m] - 1)..(expected[m] + 1) /\ quoteFor[m] >= 0
    BY SMTT(60) DEF AreQuotesValid, WithinOnePip
  <2> QED BY <2>1, <2>2
<1>2. QED
  BY <1>1

\* A liquidation of a whole wallet moves its positions to the fund.
LEMMA LiquidationPositions ==
    ASSUME NEW l, NEW w, NEW counterparty, NEW quoteFor, NEW published
    PROVE  LET closed == UpdatePositionsForLiquidation(l, w, counterparty, quoteFor, published)
               taken  == AcquirePositions(l, w, counterparty, quoteFor, published)
           IN  /\ closed.position = taken.position
               /\ UpdateRemainingQuoteAfterLiquidation(closed, w, counterparty).position
                    = taken.position
BY ZenonT(30) DEF UpdatePositionsForLiquidation, UpdateRemainingQuoteAfterLiquidation, AddQuote, SetQuote

\* A wallet in maintenance: by the Insurance Fund with its margin, by the Exit
\* Fund in recovery.
LEMMA LiquidateAtBankruptcyPriceFollows ==
    ASSUME PInv, NEW w \in Wallets, NEW counterparty \in Wallets,
           NEW rounding \in [Markets -> Roundings],
           LiquidateAtBankruptcyPrice(w, counterparty, rounding),
           \/ /\ counterparty = InsuranceFund /\ ~ExitFundHasPositions
              /\ MeetsInitialMargin(ledger', InsuranceFund, IndexPrice, FieldsFor(InsuranceFund))
           \/ counterparty = exitFundWallet
    PROVE  PositionsFollow
<1> DEFINE funded   == Funded(Funded(ledger, w), counterparty)
           expected == BankruptcyQuoteQuantities(funded, w, IndexPrice, FieldsFor(w))
           quoteFor == Submitted(expected, rounding)
           closed   == UpdatePositionsForLiquidation(funded, w, counterparty, quoteFor, Published)
<1>1. Settled(funded)
  BY FundedIsSettled
<1>2. IndexPrice \in [Markets -> Nat] /\ FieldsFor(w) \in [Markets -> MarketFields]
  BY ParameterTypes DEF PInv, IInv
<1>3. SoundLedger(ledger')
  BY LiquidateAtBankruptcyPriceSound DEF PInv
<1>4. /\ w \notin {exitFundWallet, InsuranceFund}
      /\ CanTakeOnAll(funded, w, counterparty)
      /\ AreQuotesValid(funded, w, expected, quoteFor)
      /\ ledger' = UpdateRemainingQuoteAfterLiquidation(closed, w, counterparty)
  BY DEF LiquidateAtBankruptcyPrice
<1> HIDE DEF funded
<1>5. expected \in [Markets -> Int]
  BY <1>1, <1>2, ClosingQuotesType DEF Settled
<1> HIDE DEF expected, quoteFor
<1>6. \A m \in funded.open[w] : quoteFor[m] \in Nat
  BY <1>1, <1>4, <1>5, ValidQuotes DEF Settled
<1>7. ledger'.position = AcquirePositions(funded, w, counterparty, quoteFor, Published).position
  BY <1>4, LiquidationPositions
<1> HIDE DEF closed
<1>8. CASE /\ counterparty = InsuranceFund /\ ~ExitFundHasPositions
           /\ MeetsInitialMargin(ledger', InsuranceFund, IndexPrice, FieldsFor(InsuranceFund))
  BY <1>1, <1>3, <1>4, <1>6, <1>7, <1>8, TakeOverFollows
<1>9. CASE counterparty = exitFundWallet
  <2>1. \A m \in funded.open[w] : MayTakeOn(counterparty, m)
    BY <1>9 DEF MayTakeOn
  <2> QED BY <1>1, <1>6, <1>7, <2>1, AcquisitionFollows
<1>10. QED
  BY <1>8, <1>9

\* An exited wallet is taken over by the Insurance Fund, which never exits.
LEMMA LiquidateWalletExitFollows ==
    ASSUME PInv, NEW w \in Wallets, NEW rounding \in [Markets -> Roundings],
           LiquidateWalletExit(w, rounding)
    PROVE  PositionsFollow
<1> DEFINE funded   == Funded(Funded(ledger, w), InsuranceFund)
           expected == ExitQuoteQuantities(funded, w, IndexPrice, FieldsFor(w))
           quoteFor == Submitted(expected, rounding)
           closed   == UpdatePositionsForLiquidation(funded, w, InsuranceFund, quoteFor, Published)
<1>1. InsuranceFund \in Wallets
  BY ParameterAssumption
<1>2. Settled(funded)
  BY <1>1, FundedIsSettled
<1>3. IndexPrice \in [Markets -> Nat] /\ FieldsFor(w) \in [Markets -> MarketFields]
  BY ParameterTypes DEF PInv, IInv
<1>4. /\ ~ExitFundHasPositions /\ walletExits[w].exists
      /\ CanTakeOnAll(funded, w, InsuranceFund)
      /\ AreQuotesValid(funded, w, expected, quoteFor)
      /\ MeetsInitialMargin(ledger', InsuranceFund, IndexPrice, FieldsFor(InsuranceFund))
      /\ ledger' \in {closed, UpdateRemainingQuoteAfterLiquidation(closed, w, InsuranceFund)}
  BY DEF LiquidateWalletExit
<1>5. SoundLedger(ledger')
  <2>1. IInv'
    BY LiquidateWalletExitStep DEF PInv
  <2> QED BY <2>1 DEF IInv, TypeOK, OpenMarketsAreTracked, SoundLedger
<1>6. w # InsuranceFund
  BY <1>4 DEF PInv
<1> HIDE DEF funded
<1>7. expected \in [Markets -> Int]
  BY <1>2, <1>3, ClosingQuotesType DEF Settled
<1> HIDE DEF expected, quoteFor
<1>8. \A m \in funded.open[w] : quoteFor[m] \in Nat
  BY <1>2, <1>4, <1>7, ValidQuotes DEF Settled
<1>9. ledger'.position = AcquirePositions(funded, w, InsuranceFund, quoteFor, Published).position
  BY <1>4, LiquidationPositions
<1> HIDE DEF closed
<1>10. QED
  BY <1>2, <1>4, <1>5, <1>6, <1>8, <1>9, TakeOverFollows

\* The wallet's position is closed; the Insurance Fund may hold what it takes.
LEMMA LiquidatePositionBelowMinimumFollows ==
    ASSUME PInv, NEW w \in Wallets, NEW m \in Markets, NEW quote \in LiquidationQuotes,
           LiquidatePositionBelowMinimum(w, m, quote)
    PROVE  PositionsFollow
<1> DEFINE funded == Funded(Funded(ledger, w), InsuranceFund)
           size   == funded.position[w][m].balance
           delta  == ClosingDelta(funded, w, m, Abs(size))
           closed == MovedPosition(funded.position[w][m], delta, quote, Published[m])
           taken  == MovedPosition(funded.position[InsuranceFund][m], -delta, quote, Published[m])
<1>1. InsuranceFund \in Wallets /\ quote \in Nat /\ Published \in [Markets -> Nat]
  BY ParameterAssumption, LiquidationAssumption, ParameterTypes DEF PInv, IInv
<1>2. Settled(funded)
  BY <1>1, FundedIsSettled
<1>3. /\ ~ExitFundHasPositions /\ w # InsuranceFund /\ markets[m].isActive
      /\ CanTakeOn(funded, InsuranceFund, m, size)
      /\ MeetsInitialMargin(ledger', InsuranceFund, IndexPrice, FieldsFor(InsuranceFund))
      /\ ledger' = UpdatePositionsForDeleverage(funded, w, InsuranceFund, m, Abs(size), quote,
                                                Published)
  BY DEF LiquidatePositionBelowMinimum
<1>4. SoundLedger(ledger')
  <2>1. IInv'
    BY LiquidatePositionBelowMinimumStep DEF PInv
  <2> QED BY <2>1 DEF IInv, TypeOK, OpenMarketsAreTracked, SoundLedger
<1> HIDE DEF funded
<1>5. size \in Int /\ Abs(size) \in Int
  BY <1>2, BalanceTypes DEF Settled
<1>6. delta = -size
  <2>1. delta = IF size < 0 THEN Abs(size) ELSE -Abs(size)
    BY DEF ClosingDelta
  <2> HIDE DEF size, delta
  <2> QED BY <1>5, <2>1 DEF Abs
<1>7. delta \in Int /\ -delta \in Int /\ -delta = size
  <2> HIDE DEF size, delta
  <2> QED BY <1>5, <1>6
<1>8. \A v \in Wallets, x \in Markets :
        ledger'.position[v][x] = IF x # m THEN funded.position[v][x]
                                 ELSE IF v = w THEN closed
                                 ELSE IF v = InsuranceFund THEN taken
                                 ELSE funded.position[v][x]
  <2> DEFINE base == Abs(size)
  <2>1. /\ quote \in Int /\ base \in Int /\ SoundLedger(funded)
        /\ ledger' = UpdatePositionsForDeleverage(funded, w, InsuranceFund, m, base, quote,
                                                  Published)
        /\ delta = ClosingDelta(funded, w, m, base)
    BY <1>1, <1>2, <1>3, <1>5 DEF Settled
  <2> HIDE DEF base, delta, size
  <2> QED BY <1>1, <1>3, <2>1, DeleveragePositions
<1> HIDE DEF delta
<1>9. CostHasSign(closed) /\ closed.balance = size + delta
  BY <1>1, <1>2, <1>7, SettledMoves
<1>10. CostHasSign(taken) /\ taken.balance = funded.position[InsuranceFund][m].balance + -delta
  BY <1>1, <1>2, <1>7, SettledMoves
<1> HIDE DEF closed, taken
<1>11. closed.balance = 0
  <2> HIDE DEF size
  <2> QED BY <1>5, <1>6, <1>9, SMTT(60)
<1>12. MayTakeOn(InsuranceFund, m)
  <2>1. ledger'.position[InsuranceFund][m].balance
          = funded.position[InsuranceFund][m].balance + size
    BY <1>1, <1>3, <1>7, <1>8, <1>10
  <2> HIDE DEF size
  <2> QED BY <1>2, <1>3, <1>4, <1>5, <2>1, TakenOnIsMargined, ZenonT(60) DEF size
<1>13. ASSUME NEW v \in Wallets, NEW x \in Markets
       PROVE  CostHasSign(ledger'.position[v][x]) /\ (HasShrunk(v, x) \/ MayTakeOn(v, x))
  <2>1. CASE x = m /\ v = w
    <3>1. ledger'.position[v][x] = closed
      BY <1>8, <2>1, SMTT(60)
    <3> QED BY <1>2, <1>9, <1>11, <3>1, ClosedHasShrunk
  <2>2. CASE x = m /\ v = InsuranceFund
    BY <1>3, <1>8, <1>10, <1>12, <2>2
  <2>3. CASE x # m \/ v \notin {w, InsuranceFund}
    <3>1. ledger'.position[v][x] = funded.position[v][x]
      BY <1>8, <2>3
    <3> QED BY <1>2, <3>1, KeptHasShrunk
  <2> QED BY <2>1, <2>2, <2>3
<1>14. QED
  BY <1>13 DEF PositionsFollow, SignedLedger

\* A position in a deactivated market is closed, and nobody takes it.
LEMMA LiquidateInDeactivatedMarketFollows ==
    ASSUME PInv, NEW w \in Wallets, NEW m \in Markets, NEW quote, NEW fee,
           LiquidatePositionInDeactivatedMarket(w, m, quote, fee)
    PROVE  PositionsFollow
<1> DEFINE funded == Funded(ledger, w)
<1>1. Settled(funded)
  BY FundedIsSettled
<1>2. ledger' = UpdateForDeactivatedMarketLiquidation(funded, w, m, quote, fee, FeeWallet)
  BY DEF LiquidatePositionInDeactivatedMarket
<1> HIDE DEF funded
<1>3. ledger'.position = [funded.position EXCEPT ![w] = [funded.position[w] EXCEPT
                                                           ![m] = ZeroPosition]]
  BY <1>2 DEF UpdateForDeactivatedMarketLiquidation, AddQuote, SetQuote, SetPosition, SetPositions
<1>4. funded.position \in [Wallets -> [Markets -> Position]]
  BY <1>1 DEF Settled, SoundLedger, Ledger
<1>5. ASSUME NEW v \in Wallets, NEW x \in Markets
      PROVE  ledger'.position[v][x] = IF v = w /\ x = m THEN ZeroPosition
                                                        ELSE funded.position[v][x]
  BY <1>3, <1>4
<1>6. CostHasSign(ZeroPosition) /\ ZeroPosition.balance = 0
  BY DEF CostHasSign, ZeroPosition
<1>7. ASSUME NEW v \in Wallets, NEW x \in Markets
      PROVE  CostHasSign(ledger'.position[v][x]) /\ HasShrunk(v, x)
  <2>1. CASE v = w /\ x = m
    BY <1>1, <1>5, <1>6, <2>1, ClosedHasShrunk
  <2>2. CASE ~(v = w /\ x = m)
    BY <1>1, <1>5, <2>2, KeptHasShrunk
  <2> QED BY <2>1, <2>2
<1>8. QED
  BY <1>7 DEF PositionsFollow, SignedLedger

-----------------------------------------------------------------------------
(* Deleveraging. *)

\* Both sides of a deleveraging come closer to zero.
LEMMA DeleverageFollows ==
    ASSUME PInv, NEW w \in Wallets, NEW counterparty \in Wallets, NEW m \in Markets,
           NEW base \in DeleverageQuantities, NEW quote \in DeleverageQuotes,
           Deleverage(w, counterparty, m, base, quote)
    PROVE  PositionsFollow
<1> DEFINE funded == FundedForDeleverage(w, counterparty)
           delta  == ClosingDelta(funded, w, m, base)
           closed == MovedPosition(funded.position[w][m], delta, quote, Published[m])
           taken  == MovedPosition(funded.position[counterparty][m], -delta, quote, Published[m])
<1>1. base \in Int /\ quote \in Nat /\ quote \in Int /\ Published \in [Markets -> Nat]
  BY DeleveragingAssumption, ParameterTypes DEF PInv, IInv
<1>2. Settled(funded)
  BY FundedIsSettled DEF FundedForDeleverage
<1>3. /\ w # counterparty
      /\ ledger' = UpdatePositionsForDeleverage(funded, w, counterparty, m, base, quote, Published)
      /\ \A x \in {w, counterparty} :
            UpdatedTowardsZero(funded.position[x][m].balance, ledger'.position[x][m].balance)
  BY DEF Deleverage
<1> HIDE DEF funded
<1>4. delta \in Int /\ -delta \in Int
  <2>1. delta \in {base, -base}
    BY DEF ClosingDelta
  <2> HIDE DEF delta
  <2> QED BY <1>1, <2>1
<1>5. \A v \in Wallets, x \in Markets :
        ledger'.position[v][x] = IF x # m THEN funded.position[v][x]
                                 ELSE IF v = w THEN closed
                                 ELSE IF v = counterparty THEN taken
                                 ELSE funded.position[v][x]
  <2>1. SoundLedger(funded) /\ base \in Int /\ quote \in Int /\ Published \in [Markets -> Nat] /\ w # counterparty
    BY <1>1, <1>2, <1>3 DEF Settled
  <2>2. \A v \in Wallets, x \in Markets :
          UpdatePositionsForDeleverage(funded, w, counterparty, m, base, quote, Published).position[v][x]
            = IF x # m THEN funded.position[v][x]
              ELSE IF v = w THEN closed
              ELSE IF v = counterparty THEN taken
              ELSE funded.position[v][x]
    BY <2>1, DeleveragePositions
  <2>3. ledger' = UpdatePositionsForDeleverage(funded, w, counterparty, m, base, quote, Published)
    BY <1>3
  <2> HIDE DEF closed, taken
  <2> QED BY <2>2, <2>3
<1> HIDE DEF delta
<1>6. CostHasSign(closed) /\ closed \in Position /\ CostHasSign(taken) /\ taken \in Position
  BY <1>1, <1>2, <1>4, SettledMoves
<1> HIDE DEF closed, taken
<1>7. ASSUME NEW v \in Wallets, NEW x \in Markets
      PROVE  CostHasSign(ledger'.position[v][x]) /\ HasShrunk(v, x)
  <2>1. CASE x = m /\ v \in {w, counterparty}
    <3>1. ledger'.position[v][x] \in {closed, taken}
      BY <1>5, <2>1
    <3>2. ledger'.position[v][x].balance \in Int
      BY <1>6, <3>1 DEF Position
    <3>3. UpdatedTowardsZero(funded.position[v][x].balance, ledger'.position[v][x].balance)
      BY <1>3, <2>1
    <3> QED BY <1>2, <1>6, <3>1, <3>2, <3>3, ClosedHasShrunk
  <2>2. CASE ~(x = m /\ v \in {w, counterparty})
    <3>1. ledger'.position[v][x] = funded.position[v][x]
      BY <1>5, <2>2
    <3> QED BY <1>2, <3>1, KeptHasShrunk
  <2> QED BY <2>1, <2>2
<1>8. QED
  BY <1>7 DEF PositionsFollow, SignedLedger

-----------------------------------------------------------------------------
(* Exits, custody and funding. *)

\* The Exit Fund takes on the positions of a wallet that leaves.
LEMMA WithdrawPositionsFollows ==
    ASSUME PInv, NEW w \in Wallets, WithdrawPositions(w)
    PROVE  PositionsFollow
<1> DEFINE funded    == Funded(ledger, w)
           prices    == ExitQuoteQuantities(funded, w, oraclePrice, FieldsFor(w))
           change    == AcquisitionQuoteChange(funded, w, prices)
           acquired  == AddQuote(AcquirePositions(funded, w, exitFundWallet, prices, Published),
                                 exitFundWallet, change)
           after     == SetQuote(acquired, w, 0)
<1>1. /\ exitFundWallet \in Wallets /\ oraclePrice \in [Markets -> Nat]
      /\ FieldsFor(w) \in [Markets -> MarketFields]
  BY ParameterTypes DEF PInv, IInv, TypeOK
<1>2. Settled(funded)
  BY FundedIsSettled
<1>3. ledger' = after
  BY DEF WithdrawPositions
<1> HIDE DEF funded
<1>4. \A m \in Markets : prices[m] \in Nat
  BY <1>1, <1>2, ClosingQuotesType DEF Settled
<1>5. \A m \in funded.open[w] : prices[m] \in Nat /\ MayTakeOn(exitFundWallet, m)
  BY <1>2, <1>4, LedgerTypes DEF Settled, MayTakeOn
<1> HIDE DEF prices, change
<1>6. ledger'.position = AcquirePositions(funded, w, exitFundWallet, prices, Published).position
  BY <1>3 DEF AddQuote, SetQuote
<1> HIDE DEF after
<1>7. QED
  BY <1>1, <1>2, <1>5, <1>6, AcquisitionFollows

\* The Exit Fund's own withdrawal only moves its quote.
LEMMA WithdrawExitFundFollows ==
    ASSUME PInv, WithdrawExitFund
    PROVE  PositionsFollow
<1> DEFINE funded == Funded(ledger, exitFundWallet)
<1>1. Settled(funded)
  BY FundedIsSettled DEF PInv, IInv, TypeOK
<1>2. ledger'.position = funded.position
  BY DEF WithdrawExitFund, SetQuote
<1>3. QED
  BY <1>1, <1>2, KeptPositionsFollow

\* Deposits, transfers and withdrawals only move quote.
LEMMA CustodyFollows ==
    ASSUME PInv, CustodyNext
    PROVE  PositionsFollow
<1>1. ASSUME \/ SetDepositIndex
             \/ \E isEnabled \in BOOLEAN : SetDepositEnabled(isEnabled)
             \/ \E source, depositor \in Wallets, units \in DepositUnits, tokenFee \in TokenFees :
                   Deposit(source, depositor, units, tokenFee)
      PROVE  PositionsFollow
  <2>1. ledger' = ledger
    BY <1>1 DEF SetDepositIndex, SetDepositEnabled, Deposit
  <2> QED BY <2>1, SameLedgerFollows
<1>2. ASSUME NEW w, NEW quantity, ApplyPendingDeposits(w, quantity)
      PROVE  PositionsFollow
  <2>1. Settled(ledger)
    BY LedgerSound DEF PInv, Settled, SameExposure
  <2>2. ledger'.position = ledger.position
    BY <1>2 DEF ApplyPendingDeposits, UpdateForDeposit, AddQuote, SetQuote
  <2> QED BY <2>1, <2>2, KeptPositionsFollow
<1>3. ASSUME NEW t \in Transfers, NEW gasFee, TransferQuote(t, gasFee)
      PROVE  PositionsFollow
  <2> DEFINE funded == Funded(Funded(ledger, t.source), t.destination)
  <2>1. Settled(funded)
    BY RequestAssumption, FundedIsSettled, SMTT(60) DEF Transfer
  <2>2. ledger'.position = funded.position
    BY <1>3 DEF TransferQuote, UpdateForTransfer, AddQuote, SetQuote
  <2> QED BY <2>1, <2>2, KeptPositionsFollow
<1>4. ASSUME NEW r \in Withdrawals, NEW gasFee, Withdraw(r, gasFee)
      PROVE  PositionsFollow
  <2> DEFINE funded == Funded(ledger, r.wallet)
  <2>1. Settled(funded)
    BY RequestAssumption, FundedIsSettled DEF Withdrawal
  <2>2. ledger'.position = funded.position
    BY <1>4 DEF Withdraw, UpdateForWithdrawal, AddQuote, SetQuote
  <2> QED BY <2>1, <2>2, KeptPositionsFollow
<1>5. QED
  BY <1>1, <1>2, <1>3, <1>4 DEF CustodyNext

\* Settling the funding of one market keeps the positions too.
LEMMA ApplyFundingForMarketExposure ==
    ASSUME SoundLedger(ledger), NEW w \in Wallets, NEW m \in Markets,
           ApplyOutstandingWalletFundingForMarket(w, m)
    PROVE  SameExposure(ledger, ledger')
<1> DEFINE p    == ledger.position[w][m]
           last == Smaller(p.lastUpdate + 1 + MaxFundingPeriods, Len(history[m]))
           q    == FundedPosition(p, last)
<1>1. ledger'.position = [ledger.position EXCEPT ![w] = [ledger.position[w] EXCEPT ![m] = q]]
  BY DEF ApplyOutstandingWalletFundingForMarket, AddQuote, SetQuote, SetPositions
<1>2. ledger.position \in [Wallets -> [Markets -> Position]]
  BY DEF SoundLedger, Ledger
<1>3. q.balance = p.balance /\ q.costBasis = p.costBasis /\ (p.balance = 0 => q = p)
  <2> HIDE DEF last
  <2> QED BY DEF FundedPosition
<1> HIDE DEF q
<1>4. \A v \in Wallets, x \in Markets :
        ledger'.position[v][x] = IF v = w /\ x = m THEN q ELSE ledger.position[v][x]
  BY <1>1, <1>2
<1> QED BY <1>3, <1>4 DEF SameExposure

\* ... so it takes on nothing.
LEMMA ApplyFundingForMarketFollows ==
    ASSUME PInv, NEW w \in Wallets, NEW m \in Markets,
           ApplyOutstandingWalletFundingForMarket(w, m)
    PROVE  PositionsFollow
<1>1. SameExposure(ledger, ledger')
  BY LedgerSound, ApplyFundingForMarketExposure DEF PInv
<1>2. SoundLedger(ledger')
  <2>1. IInv'
    BY ApplyFundingForMarketStep DEF PInv
  <2> QED BY <2>1 DEF IInv, TypeOK, OpenMarketsAreTracked, SoundLedger
<1>3. Settled(ledger')
  BY <1>1, <1>2, ExposureSigned DEF Settled, PInv
<1>4. QED
  BY <1>3, KeptPositionsFollow

-----------------------------------------------------------------------------
(* The Exchange. *)

\* Every step follows: what does not shrink is taken on by who may.
LEMMA NextFollows ==
    ASSUME PInv, [Next]_vars
    PROVE  PositionsFollow
<1>1. CASE CustodyNext
  BY <1>1, CustodyFollows
<1>2. CASE TradingNext
  <2>1. ASSUME NEW w, NEW timestamp, InvalidateNonce(w, timestamp)
        PROVE  PositionsFollow
    <3>1. ledger' = ledger
      BY <2>1 DEF InvalidateNonce
    <3> QED BY <3>1, SameLedgerFollows
  <2>2. ASSUME NEW buy \in Orders, NEW sell \in Orders, NEW base \in BaseQuantities,
               NEW quote \in QuoteQuantities, NEW makerSide \in {"Buy", "Sell"},
               NEW makerFee \in MakerFees, NEW takerFee \in TakerFees,
               ExecuteTrade([market |-> buy.market, base |-> base, quote |-> quote,
                             makerSide |-> makerSide, makerFee |-> makerFee,
                             takerFee |-> takerFee], buy, sell)
        PROVE  PositionsFollow
    <3> DEFINE trade == [market |-> buy.market, base |-> base, quote |-> quote,
                         makerSide |-> makerSide, makerFee |-> makerFee, takerFee |-> takerFee]
    <3>1. /\ buy.market \in Markets /\ base \in Nat \ {0} /\ quote \in Nat \ {0}
          /\ makerFee \in Int /\ takerFee \in Nat
      BY TradingAssumption, RequestAssumption DEF Order
    <3>2. trade \in Trade
      BY <3>1 DEF Trade
    <3>3. ExecuteTrade(trade, buy, sell)
      BY <2>2
    <3> HIDE DEF trade
    <3> QED BY <3>2, <3>3, ExecuteTradeFollows
  <2> QED BY <1>2, <2>1, <2>2 DEF TradingNext
<1>3. CASE LiquidationNext
  <2>1. ASSUME NEW w \in Wallets, NEW rounding \in [Markets -> Roundings],
               LiquidateWalletInMaintenance(w, rounding)
        PROVE  PositionsFollow
    BY <2>1, ParameterAssumption, LiquidateAtBankruptcyPriceFollows
       DEF LiquidateWalletInMaintenance
  <2>2. ASSUME NEW w \in Wallets, NEW rounding \in [Markets -> Roundings],
               LiquidateWalletInMaintenanceDuringSystemRecovery(w, rounding)
        PROVE  PositionsFollow
    <3>1. exitFundWallet \in Wallets
      BY DEF PInv, IInv, TypeOK
    <3> QED BY <2>2, <3>1, LiquidateAtBankruptcyPriceFollows
            DEF LiquidateWalletInMaintenanceDuringSystemRecovery
  <2> QED BY <1>3, <2>1, <2>2, LiquidateWalletExitFollows, LiquidatePositionBelowMinimumFollows,
             LiquidateInDeactivatedMarketFollows DEF LiquidationNext
<1>4. CASE DeleveragingNext
  <2>1. InsuranceFund \in Wallets /\ exitFundWallet \in Wallets
    BY ParameterAssumption DEF PInv, IInv, TypeOK
  <2>2. \E w, counterparty \in Wallets, m \in Markets, base \in DeleverageQuantities,
           quote \in DeleverageQuotes : Deleverage(w, counterparty, m, base, quote)
    BY <1>4, <2>1 DEF DeleveragingNext, DeleverageInMaintenanceAcquisition,
       DeleverageExitAcquisition, DeleverageInsuranceFundClosure, DeleverageExitFundClosure
  <2> QED BY <2>2, DeleverageFollows
<1>5. CASE WalletExitsNext
  <2>1. ASSUME NEW w, ExitWallet(w) \/ ClearWalletExit(w) \/ SetExitFundWallet(w)
        PROVE  PositionsFollow
    <3>1. ledger' = ledger
      BY <2>1 DEF ExitWallet, ClearWalletExit, SetExitFundWallet
    <3> QED BY <3>1, SameLedgerFollows
  <2> QED BY <1>5, <2>1, WithdrawPositionsFollows, WithdrawExitFundFollows
          DEF WalletExitsNext, WithdrawExit, WithdrawExitAdmin
<1>6. CASE MarketAdminNext
  <2>1. CASE \E w \in Wallets, m \in Markets : ApplyOutstandingWalletFundingForMarket(w, m)
    BY <2>1, ApplyFundingForMarketFollows
  <2>2. CASE ~\E w \in Wallets, m \in Markets : ApplyOutstandingWalletFundingForMarket(w, m)
    <3>1. ledger' = ledger
      BY <1>6, <2>2 DEF MarketAdminNext, ActivateMarket, DeactivateMarket, PriceNext,
         FundingNext, ParameterNext, PublishIndexPrice, OraclePriceChange,
         PublishFundingMultiplier, SetMarketOverrides, SetMarketDefaults,
         UnsetMarketOverridesForWallet, SetChainPropagationPeriod
    <3> QED BY <3>1, SameLedgerFollows
  <2> QED BY <2>1, <2>2
<1>7. CASE Tick \/ UNCHANGED vars
  <2>1. ledger' = ledger
    BY <1>7 DEF Tick, vars
  <2> QED BY <2>1, SameLedgerFollows
<1>8. QED
  BY <1>1, <1>2, <1>3, <1>4, <1>5, <1>6, <1>7 DEF Next

\* Only an announcement makes an exit exist, and a wallet's exit ends only when
\* nothing of the wallet is left.
LEMMA ExitsFollow ==
    ASSUME PInv, [Next]_vars, NEW w \in Wallets
    PROVE  /\ walletExits'[w].exists => walletExits[w].exists \/ w # InsuranceFund
           /\ walletExits[w].exists /\ ~walletExits'[w].exists
                => ledger.open[w] = {} /\ ledger.quote[w] = 0
<1>1. walletExits \in [Wallets -> WalletExit]
  BY DEF PInv, IInv, TypeOK
<1>2. CASE walletExits' = walletExits
  BY <1>2
<1>3. ASSUME NEW v \in Wallets, ExitWallet(v)
      PROVE  /\ walletExits'[w].exists => walletExits[w].exists \/ w # InsuranceFund
             /\ walletExits[w].exists => walletExits'[w].exists
  <2>1. /\ v # InsuranceFund /\ ~walletExits[v].exists
        /\ walletExits' = [walletExits EXCEPT
                             ![v] = [exists |-> TRUE, effectiveAt |-> now + chainPropagationPeriod,
                                     strategy |-> "None"]]
    BY <1>3 DEF ExitWallet
  <2> QED BY <1>1, <2>1
<1>4. ASSUME NEW v \in Wallets, ClearWalletExit(v)
      PROVE  /\ walletExits'[w].exists => walletExits[w].exists
             /\ walletExits[w].exists /\ ~walletExits'[w].exists
                  => ledger.open[w] = {} /\ ledger.quote[w] = 0
  <2>1. /\ ledger.open[v] = {} /\ ledger.quote[v] = 0
        /\ walletExits' = [walletExits EXCEPT ![v] = NoExit]
    BY <1>4 DEF ClearWalletExit
  <2>2. ~NoExit.exists
    BY DEF NoExit
  <2> QED BY <1>1, <2>1, <2>2
<1>5. ASSUME NEW v \in Wallets, NEW counterparty \in Wallets, NEW m \in Markets,
             NEW base \in DeleverageQuantities, NEW quote \in DeleverageQuotes,
             DeleverageExitAcquisition(v, counterparty, m, base, quote)
      PROVE  walletExits'[w].exists = walletExits[w].exists
  <2>1. PICK strategy : walletExits' = [walletExits EXCEPT ![v].strategy = strategy]
    BY <1>5 DEF DeleverageExitAcquisition
  <2>2. walletExits[w].exists = walletExits'[w].exists
    BY <1>1, <2>1 DEF WalletExit
  <2> QED BY <2>2
<1>6. QED
  BY <1>2, <1>3, <1>4, <1>5, ExitFrame

\* The invariant holds at the start: nobody has announced an exit.
LEMMA InitFollows == Init => PInv
<1> SUFFICES ASSUME Init PROVE PInv
  OBVIOUS
<1>1. IInv
  BY InitSound
<1>2. ledger = InitialLedger /\ \A w \in Wallets : walletExits[w] = NoExit
  BY DEF Init
<1>3. SignedLedger(ledger)
  BY <1>2, InitialAssumption DEF SignedLedger
<1>4. ~walletExits[InsuranceFund].exists
  BY <1>2, ParameterAssumption DEF NoExit
<1>5. QED
  BY <1>1, <1>3, <1>4 DEF PInv

\* The invariant is inductive.
LEMMA NextSigned ==
    ASSUME PInv, [Next]_vars
    PROVE  PInv'
<1>1. IInv'
  BY NextSound DEF PInv
<1>2. SignedLedger(ledger)'
  BY NextFollows DEF PositionsFollow
<1>3. ~walletExits'[InsuranceFund].exists
  BY ExitsFollow, ParameterAssumption DEF PInv
<1>4. QED
  BY <1>1, <1>2, <1>3 DEF PInv

\* A position that has grown has not shrunk.
LEMMA ShrunkHasNotGrown ==
    ASSUME PInv, SoundLedger(ledger'), NEW w \in Wallets, NEW m \in Markets, HasShrunk(w, m)
    PROVE  ~HasGrown(w, m)
<1> DEFINE old == ledger.position[w][m].balance
           new == ledger'.position[w][m].balance
<1>1. Abs(old) \in Nat /\ Abs(new) \in Nat
  BY LedgerSound, BalanceTypes DEF PInv
<1>2. Abs(new) <= Abs(old)
  BY DEF HasShrunk
<1>3. ~(Abs(new) > Abs(old))
  BY <1>1, <1>2
<1>4. QED
  BY <1>3 DEF HasGrown

\* What the properties ask of a step.
LEMMA StepFollows ==
    ASSUME PInv, [Next]_vars, NEW w \in Wallets \ {exitFundWallet}
    PROVE  /\ ExitFundHasPositions => \A m \in Markets : HasShrunk(w, m)
           /\ IsExitFinalized(w) =>
                /\ \A m \in Markets : HasShrunk(w, m)
                /\ ~walletExits'[w].exists => ledger.open[w] = {} /\ ledger.quote[w] = 0
           /\ \A m \in Markets : HasGrown(w, m) => IsMargined(w, m)
<1>1. \A m \in Markets : HasShrunk(w, m) \/ MayTakeOn(w, m)
  BY NextFollows DEF PositionsFollow
<1>2. SoundLedger(ledger')
  <2>1. IInv'
    BY NextSound DEF PInv
  <2> QED BY <2>1 DEF IInv, TypeOK, OpenMarketsAreTracked, SoundLedger
<1>3. ExitFundHasPositions => \A m \in Markets : HasShrunk(w, m)
  BY <1>1 DEF MayTakeOn
<1>4. ASSUME IsExitFinalized(w)
      PROVE  /\ \A m \in Markets : HasShrunk(w, m)
             /\ ~walletExits'[w].exists => ledger.open[w] = {} /\ ledger.quote[w] = 0
  <2>1. walletExits[w].exists /\ w # InsuranceFund
    BY <1>4 DEF IsExitFinalized, PInv
  <2>2. \A m \in Markets : HasShrunk(w, m)
    BY <1>1, <1>4, <2>1 DEF MayTakeOn
  <2> QED BY <2>1, <2>2, ExitsFollow
<1>5. ASSUME NEW m \in Markets, HasGrown(w, m)
      PROVE  IsMargined(w, m)
  <2>1. ~HasShrunk(w, m)
    BY <1>2, <1>5, ShrunkHasNotGrown
  <2> QED BY <1>1, <1>5, <2>1 DEF MayTakeOn
<1>6. QED
  BY <1>3, <1>4, <1>5

-----------------------------------------------------------------------------
(* Theorems. *)

\* The cost basis of a position, from which its exit price follows, always has
\* the sign of the position: trades, liquidations, deleveraging and exits may
\* add to it, split it or turn it around, rounding as they do.
THEOREM CostBasisAlwaysFollows == Spec => []CostBasisFollowsPosition
<1>1. PInv => CostBasisFollowsPosition
  BY DEF PInv, SignedLedger, CostBasisFollowsPosition
<1>2. PInv /\ [Next]_vars => PInv'
  BY NextSigned
<1>3. QED
  BY <1>1, <1>2, InitFollows, PTL DEF Spec

\* While the Exit Fund holds positions no other wallet gains exposure, through
\* whichever of the transactions that stay open in recovery.
THEOREM RecoveryAlwaysWindsDown == Spec => RecoveryWindsDown
<1>1. PInv /\ [Next]_vars => PInv'
  BY NextSigned
<1>2. PInv /\ [Next]_vars =>
        (ExitFundHasPositions =>
           \A w \in Wallets \ {exitFundWallet}, m \in Markets : HasShrunk(w, m))
  BY StepFollows
<1>3. QED
  BY <1>1, <1>2, InitFollows, PTL DEF Spec, RecoveryWindsDown

\* A wallet whose exit is final only winds down, until nothing of it is left.
THEOREM FinalExitAlwaysWindsDown == Spec => FinalExitWindsDown
<1>1. PInv /\ [Next]_vars => PInv'
  BY NextSigned
<1>2. PInv /\ [Next]_vars =>
        \A w \in Wallets \ {exitFundWallet} :
           walletExits[w].exists /\ walletExits[w].effectiveAt <= now =>
           /\ \A m \in Markets : HasShrunk(w, m)
           /\ ~walletExits'[w].exists => ledger.open[w] = {} /\ ledger.quote[w] = 0
  BY StepFollows DEF IsExitFinalized
<1>3. QED
  BY <1>1, <1>2, InitFollows, PTL DEF Spec, FinalExitWindsDown

\* Whoever gains exposure, but the Exit Fund, does so in an active market,
\* within its maximum position size, and meets its initial margin afterwards.
THEOREM GrowthIsAlwaysMargined == Spec => GrowthIsMargined
<1>1. PInv /\ [Next]_vars => PInv'
  BY NextSigned
<1>2. PInv /\ [Next]_vars =>
        \A w \in Wallets \ {exitFundWallet}, m \in Markets : HasGrown(w, m) =>
          /\ markets[m].isActive
          /\ Abs(ledger'.position[w][m].balance) <= FieldsFor(w)[m].maximumPositionSize
          /\ MeetsInitialMargin(ledger', w, IndexPrice, FieldsFor(w))
  BY StepFollows DEF IsMargined
<1>3. QED
  BY <1>1, <1>2, InitFollows, PTL DEF Spec, GrowthIsMargined

-----------------------------------------------------------------------------
(* What leaves a wallet alone. *)

\* The wallets' quotes are integers, and every wallet has positions.
Shaped(l) ==
    /\ l.quote \in [Wallets -> Int]
    /\ DOMAIN l.position = Wallets /\ DOMAIN l.open = Wallets

\* From l to k the wallet keeps its positions and loses no quote.
Spared(l, k, v) ==
    /\ k.quote[v] >= l.quote[v]
    /\ k.position[v] = l.position[v] /\ k.open[v] = l.open[v]

\* A sound ledger's are.
LEMMA SoundIsShaped ==
    ASSUME NEW l, SoundLedger(l)
    PROVE  Shaped(l)
BY DEF SoundLedger, Ledger, Shaped

\* Sparing a wallet twice spares it.
LEMMA SparedAgain ==
    ASSUME NEW l, NEW j, NEW k, Shaped(l), Shaped(j), Shaped(k), NEW v \in Wallets,
           Spared(l, j, v), Spared(j, k, v)
    PROVE  Spared(l, k, v)
<1>1. l.quote[v] \in Int /\ j.quote[v] \in Int /\ k.quote[v] \in Int
  BY DEF Shaped
<1>2. k.quote[v] >= j.quote[v] /\ j.quote[v] >= l.quote[v]
  BY DEF Spared
<1>3. k.quote[v] >= l.quote[v]
  BY <1>1, <1>2
<1>4. QED
  BY <1>3 DEF Spared

\* Writing a wallet's quote spares the others.
LEMMA SetQuoteSpares ==
    ASSUME NEW l, Shaped(l), NEW w \in Wallets, NEW quantity \in Int
    PROVE  /\ Shaped(SetQuote(l, w, quantity))
           /\ \A v \in Wallets \ {w} : Spared(l, SetQuote(l, w, quantity), v)
           /\ quantity >= l.quote[w] => Spared(l, SetQuote(l, w, quantity), w)
<1> DEFINE k == SetQuote(l, w, quantity)
<1>1. k.quote = [l.quote EXCEPT ![w] = quantity] /\ k.position = l.position /\ k.open = l.open
  BY DEF SetQuote
<1> HIDE DEF k
<1>2. Shaped(k)
  BY <1>1 DEF Shaped
<1>3. ASSUME NEW v \in Wallets, v # w
      PROVE  Spared(l, k, v)
  <2>1. k.quote[v] = l.quote[v] /\ l.quote[v] \in Int
    BY <1>1, <1>3 DEF Shaped
  <2> QED BY <1>1, <2>1 DEF Spared
<1>4. ASSUME quantity >= l.quote[w]
      PROVE  Spared(l, k, w)
  <2>1. k.quote[w] = quantity
    BY <1>1 DEF Shaped
  <2> QED BY <1>1, <1>4, <2>1 DEF Spared
<1>5. QED
  BY <1>2, <1>3, <1>4 DEF k

\* Adding to a wallet's quote spares it if it is not a charge.
LEMMA AddQuoteSpares ==
    ASSUME NEW l, Shaped(l), NEW w \in Wallets, NEW quantity \in Int
    PROVE  /\ Shaped(AddQuote(l, w, quantity))
           /\ \A v \in Wallets :
                 v # w \/ quantity >= 0 => Spared(l, AddQuote(l, w, quantity), v)
<1> DEFINE total == l.quote[w] + quantity
<1>1. l.quote[w] \in Int
  BY DEF Shaped
<1>2. total \in Int /\ (quantity >= 0 => total >= l.quote[w])
  BY <1>1
<1>3. AddQuote(l, w, quantity) = SetQuote(l, w, total)
  BY DEF AddQuote
<1> HIDE DEF total
<1>4. QED
  BY <1>2, <1>3, SetQuoteSpares

\* Writing a wallet's positions spares the others.
LEMMA SetPositionsSpares ==
    ASSUME NEW l, Shaped(l), NEW w \in Wallets, NEW positions, NEW open
    PROVE  /\ Shaped(SetPositions(l, w, positions, open))
           /\ SetPositions(l, w, positions, open).quote = l.quote
           /\ \A v \in Wallets \ {w} : Spared(l, SetPositions(l, w, positions, open), v)
<1> DEFINE k == SetPositions(l, w, positions, open)
<1>1. /\ k.quote = l.quote /\ k.position = [l.position EXCEPT ![w] = positions]
      /\ k.open = [l.open EXCEPT ![w] = open]
  BY DEF SetPositions
<1> HIDE DEF k
<1>2. Shaped(k)
  BY <1>1 DEF Shaped
<1>3. ASSUME NEW v \in Wallets, v # w
      PROVE  Spared(l, k, v)
  <2>1. l.quote[v] \in Int
    BY DEF Shaped
  <2> QED BY <1>1, <1>3, <2>1 DEF Spared, Shaped
<1>4. QED
  BY <1>1, <1>2, <1>3 DEF k

\* Buying or selling base spares the others.
LEMMA ExchangeBaseSpares ==
    ASSUME NEW l, Shaped(l), NEW w \in Wallets, NEW m, NEW delta, NEW quote \in Int, NEW published
    PROVE  /\ Shaped(ExchangeBase(l, w, m, delta, quote, published))
           /\ \A v \in Wallets \ {w} : Spared(l, ExchangeBase(l, w, m, delta, quote, published), v)
<1> DEFINE p     == MovedPosition(l.position[w][m], delta, quote, published[m])
           j     == SetPosition(l, w, m, p)
           price == IF delta > 0 THEN -quote ELSE quote
<1>1. ExchangeBase(l, w, m, delta, quote, published) = AddQuote(j, w, price)
  BY DEF ExchangeBase
<1> HIDE DEF p
<1>2. Shaped(j) /\ \A v \in Wallets \ {w} : Spared(l, j, v)
  BY SetPositionsSpares DEF SetPosition
<1>3. price \in Int
  OBVIOUS
<1> HIDE DEF j, price
<1>4. Shaped(AddQuote(j, w, price)) /\ \A v \in Wallets \ {w} : Spared(j, AddQuote(j, w, price), v)
  BY <1>2, <1>3, AddQuoteSpares
<1>5. QED
  BY <1>1, <1>2, <1>4, SparedAgain

\* A trade spares whoever is no party to it; the fee wallet is not charged.
LEMMA UpdateForTradeSpares ==
    ASSUME NEW l, Shaped(l), NEW buyer \in Wallets, NEW seller \in Wallets,
           NEW feeWallet \in Wallets, NEW m, NEW base, NEW quote \in Int, NEW buyFee \in Int,
           NEW sellFee \in Int, buyFee + sellFee >= 0, NEW published
    PROVE  LET k == UpdateForTrade(l, buyer, seller, m, base, quote, buyFee, sellFee,
                                   feeWallet, published)
           IN  \A v \in Wallets \ {buyer, seller} : Shaped(k) /\ Spared(l, k, v)
<1> DEFINE a == ExchangeBase(l, seller, m, -base, quote, published)
           b == AddQuote(a, seller, -sellFee)
           c == ExchangeBase(b, buyer, m, base, quote, published)
           d == AddQuote(c, buyer, -buyFee)
           k == AddQuote(d, feeWallet, buyFee + sellFee)
<1>1. UpdateForTrade(l, buyer, seller, m, base, quote, buyFee, sellFee, feeWallet, published) = k
  BY DEF UpdateForTrade
<1>2. -sellFee \in Int /\ -buyFee \in Int /\ buyFee + sellFee \in Int
  OBVIOUS
<1>3. Shaped(a) /\ \A v \in Wallets \ {seller} : Spared(l, a, v)
  BY ExchangeBaseSpares
<1> HIDE DEF a
<1>4. Shaped(b) /\ \A v \in Wallets \ {seller} : Spared(a, b, v)
  BY <1>2, <1>3, AddQuoteSpares
<1> HIDE DEF b
<1>5. Shaped(c) /\ \A v \in Wallets \ {buyer} : Spared(b, c, v)
  BY <1>4, ExchangeBaseSpares
<1> HIDE DEF c
<1>6. Shaped(d) /\ \A v \in Wallets \ {buyer} : Spared(c, d, v)
  BY <1>2, <1>5, AddQuoteSpares
<1> HIDE DEF d
<1>7. Shaped(k) /\ \A v \in Wallets : Spared(d, k, v)
  BY <1>2, <1>6, AddQuoteSpares
<1> HIDE DEF k
<1>8. ASSUME NEW v \in Wallets \ {buyer, seller}
      PROVE  Spared(l, k, v)
  <2>1. Spared(l, b, v)
    BY <1>3, <1>4, SparedAgain
  <2>2. Spared(l, c, v)
    BY <1>4, <1>5, <2>1, SparedAgain
  <2>3. Spared(l, d, v)
    BY <1>5, <1>6, <2>2, SparedAgain
  <2> QED BY <1>6, <1>7, <2>3, SparedAgain
<1>9. QED
  BY <1>1, <1>7, <1>8

\* So does a deleveraging.
LEMMA DeleverageSpares ==
    ASSUME NEW l, Shaped(l), NEW w \in Wallets, NEW counterparty \in Wallets,
           NEW m, NEW base, NEW quote \in Int, NEW published
    PROVE  LET k == UpdatePositionsForDeleverage(l, w, counterparty, m, base, quote, published)
           IN  \A v \in Wallets \ {w, counterparty} : Shaped(k) /\ Spared(l, k, v)
<1> DEFINE delta == ClosingDelta(l, w, m, base)
           a == ExchangeBase(l, w, m, delta, quote, published)
           k == ExchangeBase(a, counterparty, m, -delta, quote, published)
<1>1. UpdatePositionsForDeleverage(l, w, counterparty, m, base, quote, published) = k
  BY DEF UpdatePositionsForDeleverage
<1> HIDE DEF delta
<1>2. Shaped(a) /\ \A v \in Wallets \ {w} : Spared(l, a, v)
  BY ExchangeBaseSpares
<1> HIDE DEF a
<1>3. Shaped(k) /\ \A v \in Wallets \ {counterparty} : Spared(a, k, v)
  BY <1>2, ExchangeBaseSpares
<1> HIDE DEF k
<1>4. \A v \in Wallets \ {w, counterparty} : Spared(l, k, v)
  BY <1>2, <1>3, SparedAgain
<1>5. QED
  BY <1>1, <1>3, <1>4

\* And taking a wallet over.
LEMMA AcquirePositionsSpares ==
    ASSUME NEW l, Shaped(l), NEW w \in Wallets, NEW acquirer \in Wallets,
           NEW quoteFor, NEW published
    PROVE  LET k == AcquirePositions(l, w, acquirer, quoteFor, published)
           IN  /\ Shaped(k) /\ k.quote = l.quote
               /\ \A v \in Wallets \ {w, acquirer} : Spared(l, k, v)
<1> DEFINE closed   == l.open[w]
           zeroed   == [m \in Markets |-> IF m \in closed THEN ZeroPosition
                                                         ELSE l.position[w][m]]
           emptied  == SetPositions(l, w, zeroed, {})
           acquired == [m \in Markets |->
                          IF m \in closed
                          THEN MovedPosition(emptied.position[acquirer][m],
                                             l.position[w][m].balance, quoteFor[m], published[m])
                          ELSE emptied.position[acquirer][m]]
           open     == (emptied.open[acquirer] \ closed)
                         \cup {m \in closed : acquired[m].balance # 0}
           k        == SetPositions(emptied, acquirer, acquired, open)
<1>1. AcquirePositions(l, w, acquirer, quoteFor, published) = k
  BY DEF AcquirePositions
<1> HIDE DEF zeroed, acquired, open
<1>2. /\ Shaped(emptied) /\ emptied.quote = l.quote
      /\ \A v \in Wallets \ {w} : Spared(l, emptied, v)
  BY SetPositionsSpares
<1> HIDE DEF emptied
<1>3. /\ Shaped(k) /\ k.quote = emptied.quote
      /\ \A v \in Wallets \ {acquirer} : Spared(emptied, k, v)
  BY <1>2, SetPositionsSpares
<1> HIDE DEF k
<1>4. \A v \in Wallets \ {w, acquirer} : Spared(l, k, v)
  BY <1>2, <1>3, SparedAgain
<1>5. QED
  BY <1>1, <1>2, <1>3, <1>4

\* A liquidation spares whoever is no party to it, and the wallet pays or is
\* paid for the positions; with its remaining quote, nothing is left of it.
LEMMA LiquidationSpares ==
    ASSUME NEW l, Shaped(l), NEW w \in Wallets, NEW counterparty \in Wallets,
           w # counterparty, NEW quoteFor, NEW published,
           AcquisitionQuoteChange(l, w, quoteFor) \in Int
    PROVE  LET k == UpdatePositionsForLiquidation(l, w, counterparty, quoteFor, published)
               r == UpdateRemainingQuoteAfterLiquidation(k, w, counterparty)
           IN  /\ Shaped(k) /\ Shaped(r)
               /\ \A v \in Wallets \ {w, counterparty} : Spared(l, k, v) /\ Spared(l, r, v)
               /\ k.quote[w] = l.quote[w] - AcquisitionQuoteChange(l, w, quoteFor)
               /\ r.quote[w] = 0
<1> DEFINE change == AcquisitionQuoteChange(l, w, quoteFor)
           a == AcquirePositions(l, w, counterparty, quoteFor, published)
           b == AddQuote(a, w, -change)
           k == AddQuote(b, counterparty, change)
           c == SetQuote(k, w, 0)
           r == AddQuote(c, counterparty, k.quote[w])
<1>1. UpdatePositionsForLiquidation(l, w, counterparty, quoteFor, published) = k
  BY DEF UpdatePositionsForLiquidation
<1>2. UpdateRemainingQuoteAfterLiquidation(k, w, counterparty) = r
  BY DEF UpdateRemainingQuoteAfterLiquidation
<1>3. change \in Int /\ -change \in Int
  OBVIOUS
<1>4. /\ Shaped(a) /\ a.quote = l.quote
      /\ \A v \in Wallets \ {w, counterparty} : Spared(l, a, v)
  BY AcquirePositionsSpares
<1> HIDE DEF change, a
<1>5. Shaped(b) /\ \A v \in Wallets \ {w} : Spared(a, b, v)
  BY <1>3, <1>4, AddQuoteSpares
<1>6. b.quote[w] = l.quote[w] + -change
  BY <1>4 DEF AddQuote, SetQuote, Shaped
<1> HIDE DEF b
<1>7. Shaped(k) /\ \A v \in Wallets \ {counterparty} : Spared(b, k, v)
  BY <1>3, <1>5, AddQuoteSpares
<1>8. k.quote[w] = b.quote[w]
  BY <1>5 DEF AddQuote, SetQuote, Shaped
<1> HIDE DEF k
<1>9. Shaped(c) /\ c.quote[w] = 0 /\ \A v \in Wallets \ {w} : Spared(k, c, v)
  <2>1. c.quote[w] = 0
    BY <1>7 DEF SetQuote, Shaped
  <2> QED BY <1>7, <2>1, SetQuoteSpares
<1>10. k.quote[w] \in Int /\ l.quote[w] \in Int
  BY <1>7 DEF Shaped
<1> HIDE DEF c
<1>11. Shaped(r) /\ \A v \in Wallets \ {counterparty} : Spared(c, r, v)
  BY <1>9, <1>10, AddQuoteSpares
<1>12. r.quote[w] = 0
  BY <1>9 DEF AddQuote, SetQuote, Shaped
<1> HIDE DEF r
<1>13. ASSUME NEW v \in Wallets \ {w, counterparty}
       PROVE  Spared(l, k, v) /\ Spared(l, r, v)
  <2>1. Spared(l, b, v)
    BY <1>4, <1>5, SparedAgain
  <2>2. Spared(l, k, v)
    BY <1>5, <1>7, <2>1, SparedAgain
  <2>3. Spared(l, c, v)
    BY <1>7, <1>9, <2>2, SparedAgain
  <2> QED BY <1>9, <1>11, <2>2, <2>3, SparedAgain
<1>14. k.quote[w] = l.quote[w] - change
  BY <1>3, <1>6, <1>8, <1>10
<1>15. /\ Shaped(k) /\ Shaped(r)
       /\ \A v \in Wallets \ {w, counterparty} : Spared(l, k, v) /\ Spared(l, r, v)
       /\ k.quote[w] = l.quote[w] - change /\ r.quote[w] = 0
  BY <1>7, <1>11, <1>12, <1>13, <1>14
<1>16. QED
  BY <1>1, <1>2, <1>15 DEF change

\* A transfer charges the source alone.
LEMMA TransferSpares ==
    ASSUME NEW l, Shaped(l), NEW source \in Wallets, NEW destination \in Wallets,
           NEW feeWallet \in Wallets, NEW grossQuantity \in Nat, NEW gasFee \in Nat,
           gasFee <= grossQuantity
    PROVE  LET k == UpdateForTransfer(l, source, destination, grossQuantity, gasFee, feeWallet)
           IN  Shaped(k) /\ \A v \in Wallets \ {source} : Spared(l, k, v)
<1> DEFINE a == AddQuote(l, source, -grossQuantity)
           b == AddQuote(a, destination, grossQuantity - gasFee)
           k == AddQuote(b, feeWallet, gasFee)
<1>1. UpdateForTransfer(l, source, destination, grossQuantity, gasFee, feeWallet) = k
  BY DEF UpdateForTransfer
<1>2. /\ -grossQuantity \in Int /\ grossQuantity - gasFee \in Int
      /\ grossQuantity - gasFee >= 0 /\ gasFee \in Int /\ gasFee >= 0
  OBVIOUS
<1>3. Shaped(a) /\ \A v \in Wallets \ {source} : Spared(l, a, v)
  BY <1>2, AddQuoteSpares
<1> HIDE DEF a
<1>4. Shaped(b) /\ \A v \in Wallets : Spared(a, b, v)
  BY <1>2, <1>3, AddQuoteSpares
<1> HIDE DEF b
<1>5. Shaped(k) /\ \A v \in Wallets : Spared(b, k, v)
  BY <1>2, <1>4, AddQuoteSpares
<1> HIDE DEF k
<1>6. ASSUME NEW v \in Wallets \ {source}
      PROVE  Spared(l, k, v)
  <2>1. Spared(l, b, v)
    BY <1>3, <1>4, SparedAgain
  <2> QED BY <1>4, <1>5, <2>1, SparedAgain
<1>7. QED
  BY <1>1, <1>5, <1>6

\* So does a withdrawal.
LEMMA WithdrawalSpares ==
    ASSUME NEW l, Shaped(l), NEW w \in Wallets, NEW feeWallet \in Wallets,
           NEW grossQuantity \in Nat, NEW gasFee \in Nat
    PROVE  LET k == UpdateForWithdrawal(l, w, grossQuantity, gasFee, feeWallet)
           IN  Shaped(k) /\ \A v \in Wallets \ {w} : Spared(l, k, v)
<1> DEFINE a == AddQuote(l, w, -grossQuantity)
           k == AddQuote(a, feeWallet, gasFee)
<1>1. UpdateForWithdrawal(l, w, grossQuantity, gasFee, feeWallet) = k
  BY DEF UpdateForWithdrawal
<1>2. -grossQuantity \in Int /\ gasFee \in Int /\ gasFee >= 0
  OBVIOUS
<1>3. Shaped(a) /\ \A v \in Wallets \ {w} : Spared(l, a, v)
  BY <1>2, AddQuoteSpares
<1> HIDE DEF a
<1>4. Shaped(k) /\ \A v \in Wallets : Spared(a, k, v)
  BY <1>2, <1>3, AddQuoteSpares
<1> HIDE DEF k
<1>5. \A v \in Wallets \ {w} : Spared(l, k, v)
  BY <1>3, <1>4, SparedAgain
<1>6. QED
  BY <1>1, <1>4, <1>5

\* Closing a position in a deactivated market spares the other wallets.
LEMMA DeactivatedMarketSpares ==
    ASSUME NEW l, Shaped(l), NEW w \in Wallets, NEW m, NEW quote \in Int, NEW fee \in Nat,
           NEW feeWallet \in Wallets
    PROVE  LET k == UpdateForDeactivatedMarketLiquidation(l, w, m, quote, fee, feeWallet)
           IN  \A v \in Wallets \ {w} : Shaped(k) /\ Spared(l, k, v)
<1> DEFINE a     == SetPosition(l, w, m, ZeroPosition)
           price == IF l.position[w][m].balance < 0 THEN -(quote + fee) ELSE quote - fee
           b     == AddQuote(a, w, price)
           k     == AddQuote(b, feeWallet, fee)
<1>1. UpdateForDeactivatedMarketLiquidation(l, w, m, quote, fee, feeWallet) = k
  BY DEF UpdateForDeactivatedMarketLiquidation
<1>2. Shaped(a) /\ \A v \in Wallets \ {w} : Spared(l, a, v)
  BY SetPositionsSpares DEF SetPosition
<1>3. price \in Int /\ fee \in Int /\ fee >= 0
  OBVIOUS
<1> HIDE DEF a, price
<1>4. Shaped(b) /\ \A v \in Wallets \ {w} : Spared(a, b, v)
  BY <1>2, <1>3, AddQuoteSpares
<1> HIDE DEF b
<1>5. Shaped(k) /\ \A v \in Wallets : Spared(b, k, v)
  BY <1>3, <1>4, AddQuoteSpares
<1> HIDE DEF k
<1>6. ASSUME NEW v \in Wallets \ {w}
      PROVE  Spared(l, k, v)
  <2>1. Spared(l, b, v)
    BY <1>2, <1>4, SparedAgain
  <2> QED BY <1>4, <1>5, <2>1, SparedAgain
<1>7. QED
  BY <1>1, <1>5, <1>6

-----------------------------------------------------------------------------
(* What OutflowIsMargined asks of a step. *)

\* A step of which the wallet may come out with less: its positions change, or
\* it does not, or its margin was seen to.
MayPay(v) ==
    \/ \E m \in Markets : ledger'.position[v][m].balance # ledger.position[v][m].balance
    \/ Worth(ledger', v, history) >= Worth(ledger, v, history)
    \/ MeetsInitialMargin(Funded(ledger', v), v, IndexPrice, FieldsFor(v))

\* What a handler settles first: positions and worth are the same.
Equals(l) ==
    /\ SoundLedger(l) /\ SameExposure(ledger, l)
    /\ \A v \in Wallets : Worth(l, v, history) = Worth(ledger, v, history)

\* Settling funding in full leaves every wallet worth what it was.
LEMMA FundedWorth ==
    ASSUME NEW l, NEW h \in [Markets -> Seq(Int)], DatedLedger(l, h), NEW w \in Wallets,
           NEW v \in Wallets
    PROVE  Worth(ApplyOutstandingWalletFunding(l, w, h), v, h) = Worth(l, v, h)
<1> DEFINE k   == ApplyOutstandingWalletFunding(l, w, h)
           due == OutstandingWalletFunding(l, w, h)
           j   == SetPositions(l, w, [m \in Markets |->
                                        IF m \in l.open[w]
                                        THEN FundedPosition(l.position[w][m], Len(h[m]))
                                        ELSE l.position[w][m]], l.open[w])
<1>1. k = AddQuote(j, w, due)
  BY DEF ApplyOutstandingWalletFunding
<1>2. SoundLedger(l) /\ Shaped(l) /\ due \in Int
  BY SoundIsShaped, OutstandingFundingType DEF DatedLedger
<1>3. /\ IsCurrent(k, w, h) /\ DatedLedger(k, h)
  BY FundingMoves DEF Moves
<1>4. OutstandingWalletFunding(k, w, h) = 0
  <2> HIDE DEF k
  <2> QED BY <1>3, CurrentOwesNothing DEF DatedLedger
<1> HIDE DEF due
<1>5. /\ j.quote = l.quote
      /\ v # w => j.position[v] = l.position[v] /\ j.open[v] = l.open[v]
  BY <1>2 DEF SetPositions, Shaped
<1> HIDE DEF j
<1>6. /\ k.quote = [j.quote EXCEPT ![w] = j.quote[w] + due]
      /\ k.position = j.position /\ k.open = j.open
  BY <1>1 DEF AddQuote, SetQuote
<1> HIDE DEF k
<1>7. ASSUME v = w
      PROVE  Worth(k, v, h) = Worth(l, v, h)
  <2>1. k.quote[w] = l.quote[w] + due /\ l.quote[w] + due \in Int
    BY <1>2, <1>5, <1>6 DEF Shaped
  <2>2. Worth(k, w, h) = k.quote[w] + 0
    BY <1>4 DEF Worth
  <2>3. Worth(l, w, h) = l.quote[w] + due
    BY DEF Worth, due
  <2> QED BY <1>7, <2>1, <2>2, <2>3
<1>8. ASSUME v # w
      PROVE  Worth(k, v, h) = Worth(l, v, h)
  <2>1. k.quote[v] = l.quote[v] /\ k.position[v] = l.position[v] /\ k.open[v] = l.open[v]
    BY <1>2, <1>5, <1>6, <1>8 DEF Shaped
  <2>2. OutstandingWalletFunding(k, v, h) = OutstandingWalletFunding(l, v, h)
    BY <2>1 DEF OutstandingWalletFunding
  <2> QED BY <2>1, <2>2 DEF Worth
<1>9. QED
  BY <1>7, <1>8 DEF k

\* So does settling two wallets'.
LEMMA FundedEquals ==
    ASSUME CInv, NEW v \in Wallets
    PROVE  /\ Equals(Funded(ledger, v))
           /\ \A w \in Wallets : Equals(Funded(Funded(ledger, v), w))
<1> DEFINE l == Funded(ledger, v)
<1>1. /\ DatedLedger(ledger, history) /\ SoundLedger(ledger) /\ history \in [Markets -> Seq(Int)]
      /\ TypeOK
  BY LedgerDated DEF CInv, IInv
<1>2. DatedLedger(l, history)
  BY FundedMoves
<1>3. \A x \in Wallets : Worth(l, x, history) = Worth(ledger, x, history)
  BY <1>1, FundedWorth DEF Funded
<1>4. SameExposure(ledger, l) /\ SoundLedger(l)
  BY <1>1, FundedExposure
<1> HIDE DEF l
<1>5. ASSUME NEW w \in Wallets
      PROVE  Equals(Funded(l, w))
  <2>1. \A x \in Wallets : Worth(Funded(l, w), x, history) = Worth(l, x, history)
    BY <1>1, <1>2, FundedWorth DEF Funded
  <2>2. SameExposure(l, Funded(l, w)) /\ SoundLedger(Funded(l, w))
    BY <1>1, <1>4, FundedExposure
  <2>3. SameExposure(ledger, Funded(l, w))
    BY <1>4, <2>2 DEF SameExposure
  <2> QED BY <1>3, <2>1, <2>2, <2>3 DEF Equals
<1>6. QED
  BY <1>3, <1>4, <1>5 DEF Equals, l

\* A wallet that was spared may.
LEMMA SparedMayPay ==
    ASSUME CInv, NEW l, Equals(l), NEW v \in Wallets, Shaped(ledger'), Spared(l, ledger', v)
    PROVE  MayPay(v)
<1> DEFINE due == OutstandingWalletFunding(l, v, history)
<1>1. due \in Int /\ l.quote[v] \in Int /\ ledger'.quote[v] \in Int
  BY LedgerDated, OutstandingFundingType, LedgerTypes DEF Equals, Shaped
<1>2. OutstandingWalletFunding(ledger', v, history) = due
  BY DEF OutstandingWalletFunding, Spared
<1> HIDE DEF due
<1>3. ledger'.quote[v] >= l.quote[v]
  BY DEF Spared
<1>4. Worth(ledger', v, history) = ledger'.quote[v] + due
  BY <1>2 DEF Worth
<1>5. Worth(ledger, v, history) = l.quote[v] + due
  BY DEF Equals, Worth, due
<1>6. Worth(ledger', v, history) >= Worth(ledger, v, history)
  BY <1>1, <1>3, <1>4, <1>5
<1>7. QED
  BY <1>6 DEF MayPay

\* Settling changes nothing about the margin of a wallet without outstanding
\* funding, so that one whose margin was checked may.
LEMMA MarginedMayPay ==
    ASSUME CInv, SoundLedger(ledger'), NEW v \in Wallets, IsCurrent(ledger', v, history),
           MeetsInitialMargin(ledger', v, IndexPrice, FieldsFor(v))
    PROVE  MayPay(v)
<1> DEFINE l == ledger'
           k == Funded(l, v)
           positions == [m \in Markets |-> IF m \in l.open[v]
                                           THEN FundedPosition(l.position[v][m], Len(history[m]))
                                           ELSE l.position[v][m]]
           due == OutstandingWalletFunding(l, v, history)
<1>1. due = 0
  BY LedgerDated, CurrentOwesNothing
<1>2. Shaped(l)
  BY SoundIsShaped
<1>3. k = AddQuote(SetPositions(l, v, positions, l.open[v]), v, due)
  BY DEF Funded, ApplyOutstandingWalletFunding
<1>4. \A m \in Markets : positions[m].balance = l.position[v][m].balance
  BY DEF FundedPosition
<1>5. /\ k.quote = [l.quote EXCEPT ![v] = l.quote[v] + due]
      /\ k.position = [l.position EXCEPT ![v] = positions]
      /\ k.open = [l.open EXCEPT ![v] = l.open[v]]
  <2> HIDE DEF positions, due, l
  <2> QED BY <1>3 DEF AddQuote, SetQuote, SetPositions
<1> HIDE DEF positions, due, l, k
<1>6. k.quote[v] = l.quote[v] /\ k.position[v] = positions /\ k.open[v] = l.open[v]
  BY <1>1, <1>2, <1>5 DEF Shaped
<1>7. \A m \in Markets : k.position[v][m].balance = l.position[v][m].balance
  BY <1>4, <1>6
<1>8. TotalAccountValue(k, v, IndexPrice) = TotalAccountValue(l, v, IndexPrice)
  <2>1. [m \in Markets |-> QuoteValue(k.position[v][m].balance, IndexPrice[m])]
          = [m \in Markets |-> QuoteValue(l.position[v][m].balance, IndexPrice[m])]
    BY <1>7
  <2> QED BY <1>6, <2>1 DEF TotalAccountValue, OverOpen
<1>9. TotalInitialMarginRequirement(k, v, IndexPrice, FieldsFor(v))
        = TotalInitialMarginRequirement(l, v, IndexPrice, FieldsFor(v))
  <2> DEFINE fields == FieldsFor(v)
  <2>1. [m \in Markets |-> MarginRequirement(
                             InitialMarginFraction(fields[m], k.position[v][m].balance),
                             IndexPrice[m], k.position[v][m].balance)]
          = [m \in Markets |-> MarginRequirement(
                             InitialMarginFraction(fields[m], l.position[v][m].balance),
                             IndexPrice[m], l.position[v][m].balance)]
    BY <1>7
  <2> QED BY <1>6, <2>1 DEF TotalInitialMarginRequirement, OverOpen
<1>10. MeetsInitialMargin(l, v, IndexPrice, FieldsFor(v))
  BY DEF l
<1>11. MeetsInitialMargin(k, v, IndexPrice, FieldsFor(v))
  BY <1>8, <1>9, <1>10 DEF MeetsInitialMargin
<1>12. QED
  BY <1>11 DEF MayPay, k, l

\* A wallet of which nothing is left needs no margin.
LEMMA EmptyMayPay ==
    ASSUME CInv, SoundLedger(ledger'), NEW v \in Wallets, ledger'.quote[v] = 0,
           \A m \in Markets : ledger'.position[v][m].balance = 0
    PROVE  MayPay(v)
<1>1. ledger'.open[v] = {}
  BY LedgerTypes
<1>2. IsCurrent(ledger', v, history)
  BY DEF IsCurrent
<1>3. ASSUME NEW value
      PROVE  OverOpen(ledger', v, value) = 0
  <2> DEFINE f == [m \in Markets |-> IF m \in ledger'.open[v] THEN value[m] ELSE 0]
  <2>1. \A m \in 1..NumMarkets : f[m] = 0
    BY <1>1 DEF Markets
  <2> HIDE DEF f
  <2>2. SumTo(f, NumMarkets) = 0
    BY <2>1, SumToZeros, LedgerSizeAssumption
  <2> QED BY <2>2 DEF OverOpen, f
<1>4. TotalAccountValue(ledger', v, IndexPrice) = 0
  <2> DEFINE value == [m \in Markets |-> QuoteValue(ledger'.position[v][m].balance, IndexPrice[m])]
  <2>1. TotalAccountValue(ledger', v, IndexPrice) = ledger'.quote[v] + OverOpen(ledger', v, value)
    BY DEF TotalAccountValue
  <2> HIDE DEF value
  <2> QED BY <1>3, <2>1
<1>5. TotalInitialMarginRequirement(ledger', v, IndexPrice, FieldsFor(v)) = 0
  BY <1>3 DEF TotalInitialMarginRequirement
<1>6. MeetsInitialMargin(ledger', v, IndexPrice, FieldsFor(v))
  BY <1>4, <1>5 DEF MeetsInitialMargin
<1>7. QED
  BY <1>2, <1>6, MarginedMayPay

\* A position whose balance is not what it was.
LEMMA ChangedMayPay ==
    ASSUME NEW l, Equals(l), NEW v \in Wallets, NEW m \in Markets,
           ledger'.position[v][m].balance # l.position[v][m].balance
    PROVE  MayPay(v)
BY DEF Equals, SameExposure, MayPay

\* A step that leaves the ledger alone.
LEMMA SameLedgerMayPay ==
    ASSUME CInv, ledger' = ledger, NEW v \in Wallets
    PROVE  MayPay(v)
<1>1. SoundLedger(ledger)
  BY LedgerDated
<1>2. Shaped(ledger) /\ ledger.quote[v] \in Int
  BY <1>1, SoundIsShaped, LedgerTypes
<1>3. Equals(ledger) /\ Spared(ledger, ledger, v)
  BY <1>1, <1>2 DEF Equals, SameExposure, Spared
<1>4. QED
  BY <1>2, <1>3, SparedMayPay

\* Deposits, transfers and withdrawals.
LEMMA CustodyMayPay ==
    ASSUME CInv, CustodyNext, SoundLedger(ledger'), NEW v \in Wallets \ {exitFundWallet}
    PROVE  MayPay(v)
<1>1. /\ DatedLedger(ledger, history) /\ SoundLedger(ledger) /\ history \in [Markets -> Seq(Int)]
      /\ FeeWallet \in Wallets
  BY LedgerDated, ParameterAssumption
<1>2. ASSUME \/ SetDepositIndex
             \/ \E isEnabled \in BOOLEAN : SetDepositEnabled(isEnabled)
             \/ \E source, depositor \in Wallets, units \in DepositUnits, tokenFee \in TokenFees :
                   Deposit(source, depositor, units, tokenFee)
      PROVE  MayPay(v)
  <2>1. ledger' = ledger
    BY <1>2 DEF SetDepositIndex, SetDepositEnabled, Deposit
  <2> QED BY <2>1, SameLedgerMayPay
<1>3. ASSUME NEW w \in Wallets, NEW quantity \in 1..pendingDepositQuantity[w],
             ApplyPendingDeposits(w, quantity)
      PROVE  MayPay(v)
  <2>1. quantity \in Int /\ quantity >= 0
    BY LedgerDated
  <2>2. ledger' = AddQuote(ledger, w, quantity)
    BY <1>3 DEF ApplyPendingDeposits, UpdateForDeposit
  <2>3. Shaped(ledger') /\ Spared(ledger, ledger', v)
    BY <1>1, <2>1, <2>2, SoundIsShaped, AddQuoteSpares
  <2>4. Equals(ledger)
    BY <1>1 DEF Equals, SameExposure
  <2> QED BY <2>3, <2>4, SparedMayPay
<1>4. ASSUME NEW t \in Transfers, NEW gasFee \in GasFees, TransferQuote(t, gasFee)
      PROVE  MayPay(v)
  <2> DEFINE funded == Funded(Funded(ledger, t.source), t.destination)
  <2>1. /\ t.source \in Wallets /\ t.destination \in Wallets /\ t.grossQuantity \in Nat
        /\ gasFee \in Nat /\ gasFee <= t.grossQuantity
    BY <1>4, RequestAssumption, CustodyAssumption DEF Transfer, TransferQuote
  <2>2. /\ Equals(funded) /\ DatedLedger(funded, history) /\ IsCurrent(funded, t.source, history)
    BY <2>1, FundedEquals, FundedTwiceMoves
  <2>3. /\ ledger' = UpdateForTransfer(funded, t.source, t.destination, t.grossQuantity, gasFee,
                                       FeeWallet)
        /\ MeetsInitialMargin(ledger', t.source, IndexPrice, FieldsFor(t.source))
    BY <1>4 DEF TransferQuote
  <2> HIDE DEF funded
  <2>4. CASE v = t.source
    <3>1. IsCurrent(ledger', v, history)
      <4>1. t.grossQuantity \in Int /\ gasFee \in Int
        BY <2>1
      <4> QED BY <1>1, <2>1, <2>2, <2>3, <2>4, <4>1, UpdateForTransferMoves DEF Moves
    <3> QED BY <2>3, <2>4, <3>1, MarginedMayPay
  <2>5. CASE v # t.source
    <3>1. Shaped(ledger') /\ Spared(funded, ledger', v)
      BY <1>1, <2>1, <2>2, <2>3, <2>5, TransferSpares, SoundIsShaped DEF Equals
    <3> QED BY <2>2, <3>1, SparedMayPay
  <2> QED BY <2>4, <2>5
<1>5. ASSUME NEW r \in Withdrawals, NEW gasFee \in GasFees, Withdraw(r, gasFee)
      PROVE  MayPay(v)
  <2> DEFINE funded == Funded(ledger, r.wallet)
  <2>1. r.wallet \in Wallets /\ r.grossQuantity \in Nat /\ gasFee \in Nat
    BY RequestAssumption, CustodyAssumption DEF Withdrawal
  <2>2. Equals(funded) /\ DatedLedger(funded, history) /\ IsCurrent(funded, r.wallet, history)
    BY <2>1, FundedEquals, FundedMoves
  <2>3. /\ ledger' = UpdateForWithdrawal(funded, r.wallet, r.grossQuantity, gasFee, FeeWallet)
        /\ r.wallet # exitFundWallet =>
              MeetsInitialMargin(ledger', r.wallet, IndexPrice, FieldsFor(r.wallet))
    BY <1>5 DEF Withdraw, HasCollateralFor
  <2> HIDE DEF funded
  <2>4. CASE v = r.wallet
    <3>1. IsCurrent(ledger', v, history)
      <4>1. r.grossQuantity \in Int /\ gasFee \in Int
        BY <2>1
      <4> QED BY <1>1, <2>1, <2>2, <2>3, <2>4, <4>1, UpdateForWithdrawalMoves DEF Moves
    <3> QED BY <2>3, <2>4, <3>1, MarginedMayPay
  <2>5. CASE v # r.wallet
    <3>1. Shaped(ledger') /\ Spared(funded, ledger', v)
      BY <1>1, <2>1, <2>2, <2>3, <2>5, WithdrawalSpares, SoundIsShaped DEF Equals
    <3> QED BY <2>2, <3>1, SparedMayPay
  <2> QED BY <2>4, <2>5
<1>6. QED
  BY <1>2, <1>3, <1>4, <1>5 DEF CustodyNext

\* A trade changes the positions of both its sides; its fees together are none
\* of the fee wallet's cost, rebates included.
LEMMA ExecuteTradeMayPay ==
    ASSUME CInv, NEW trade \in Trade, NEW buy \in Orders, NEW sell \in Orders,
           ExecuteTrade(trade, buy, sell), NEW v \in Wallets
    PROVE  MayPay(v)
<1> DEFINE buyFee  == IF trade.makerSide = "Buy" THEN trade.makerFee ELSE trade.takerFee
           sellFee == IF trade.makerSide = "Buy" THEN trade.takerFee ELSE trade.makerFee
           funded  == Funded(Funded(ledger, buy.wallet), sell.wallet)
           m       == trade.market
<1>1. /\ buy.wallet \in Wallets /\ sell.wallet \in Wallets /\ buy.wallet # sell.wallet
      /\ m \in Markets /\ trade.makerFee \in Int /\ trade.takerFee \in Nat
      /\ trade.base \in Nat \ {0} /\ trade.quote \in Int /\ FeeWallet \in Wallets
  BY RequestAssumption, ParameterAssumption DEF Order, Trade, ExecuteTrade
<1>2. buyFee \in Int /\ sellFee \in Int /\ buyFee + sellFee >= 0
  <2>1. trade.makerFee < 0 => -trade.makerFee <= trade.takerFee
    BY DEF ExecuteTrade, AreFeesValid
  <2>2. trade.makerFee + trade.takerFee >= 0
    BY <1>1, <2>1
  <2> QED BY <1>1, <2>2
<1>3. Equals(funded)
  BY <1>1, FundedEquals
<1>4. Published \in [Markets -> Nat]
  BY ParameterTypes DEF CInv, IInv
<1>5. ledger' = UpdateForTrade(funded, buy.wallet, sell.wallet, m, trade.base, trade.quote,
                               buyFee, sellFee, FeeWallet, Published)
  BY DEF ExecuteTrade
<1> HIDE DEF buyFee, sellFee, funded
<1>6. SoundLedger(funded) /\ Shaped(funded)
  BY <1>3, SoundIsShaped DEF Equals
<1>7. CASE v \in {buy.wallet, sell.wallet}
  <2> DEFINE delta == IF v = sell.wallet THEN -trade.base ELSE trade.base
             p     == funded.position[v][m]
  <2>1. trade.base \in Int /\ delta \in Int /\ delta # 0
    BY <1>1
  <2>2. ledger'.position[v][m] = MovedPosition(p, delta, trade.quote, Published[m])
    <3> HIDE DEF m, delta, p
    <3>1. PositionsTraded(ledger', funded, buy.wallet, sell.wallet, m, trade.base, trade.quote,
                          Published)
      <4>1. PositionsTraded(UpdateForTrade(funded, buy.wallet, sell.wallet, m, trade.base,
                                           trade.quote, buyFee, sellFee, FeeWallet, Published),
                            funded, buy.wallet, sell.wallet, m, trade.base, trade.quote,
                            Published)
        BY <1>1, <1>2, <1>4, <1>6, <2>1, UpdateForTradePositions
      <4> QED BY <1>5, <4>1
    <3>2. /\ v \in Wallets /\ m \in Markets
          /\ ledger'.position[v][m]
               = IF v = sell.wallet
                 THEN MovedPosition(funded.position[sell.wallet][m], -trade.base, trade.quote,
                                    Published[m])
                 ELSE IF v = buy.wallet
                 THEN MovedPosition(funded.position[buy.wallet][m], trade.base, trade.quote,
                                    Published[m])
                 ELSE funded.position[v][m]
      BY <1>1, <3>1 DEF PositionsTraded
    <3>3. CASE v = sell.wallet
      BY <3>2, <3>3 DEF delta, p
    <3>4. CASE v = buy.wallet /\ v # sell.wallet
      BY <3>2, <3>4 DEF delta, p
    <3> QED BY <1>7, <3>3, <3>4
  <2>3. p \in Position /\ p.balance \in Int /\ Published[m] \in Nat
    <3> HIDE DEF m
    <3>1. p \in Position /\ p.balance \in Int
      BY <1>1, <1>6, BalanceTypes
    <3>2. Published[m] \in Nat
      BY <1>1, <1>4
    <3> QED BY <3>1, <3>2
  <2> HIDE DEF delta, p, m
  <2>4. ledger'.position[v][m].balance = p.balance + delta
    <3>1. trade.quote \in Int
      BY <1>1
    <3>2. MovedPosition(p, delta, trade.quote, Published[m]).balance = p.balance + delta
      BY <2>1, <2>3, <3>1, MovedPositionType, SMTT(60)
    <3> QED BY <2>2, <3>2
  <2>5. ledger'.position[v][m].balance # p.balance
    BY <2>1, <2>3, <2>4
  <2> QED BY <1>1, <1>3, <2>5, ChangedMayPay DEF p
<1>8. CASE v \notin {buy.wallet, sell.wallet}
  <2>1. Shaped(ledger') /\ Spared(funded, ledger', v)
    BY <1>1, <1>2, <1>5, <1>6, <1>8, UpdateForTradeSpares
  <2> QED BY <1>3, <2>1, SparedMayPay
<1>9. QED
  BY <1>7, <1>8

\* Nothing is left of a wallet liquidated at the bankruptcy price, and the
\* Insurance Fund's margin is checked.
LEMMA LiquidateAtBankruptcyPriceMayPay ==
    ASSUME CInv, SoundLedger(ledger'), NEW w \in Wallets, NEW counterparty \in Wallets,
           NEW rounding \in [Markets -> Roundings],
           LiquidateAtBankruptcyPrice(w, counterparty, rounding),
           counterparty # exitFundWallet =>
              MeetsInitialMargin(ledger', counterparty, IndexPrice, FieldsFor(counterparty)),
           counterparty \in {InsuranceFund, exitFundWallet},
           NEW v \in Wallets \ {exitFundWallet}
    PROVE  MayPay(v)
<1> DEFINE funded   == Funded(Funded(ledger, w), counterparty)
           expected == BankruptcyQuoteQuantities(funded, w, IndexPrice, FieldsFor(w))
           quoteFor == Submitted(expected, rounding)
           closed   == UpdatePositionsForLiquidation(funded, w, counterparty, quoteFor, Published)
<1>1. /\ Equals(funded) /\ DatedLedger(funded, history)
      /\ IsCurrent(funded, w, history) /\ IsCurrent(funded, counterparty, history)
  BY FundedEquals, FundedTwiceMoves
<1>2. /\ IndexPrice \in [Markets -> Nat] /\ FieldsFor(w) \in [Markets -> MarketFields]
      /\ history \in [Markets -> Seq(Int)] /\ Published = Lengths(history)
  BY ParameterTypes, LedgerDated DEF IInv, CInv
<1>3. /\ w # counterparty
      /\ ledger' = UpdateRemainingQuoteAfterLiquidation(closed, w, counterparty)
  BY DEF LiquidateAtBankruptcyPrice
<1> HIDE DEF funded
<1>4. SoundLedger(funded) /\ Shaped(funded)
  BY <1>1, SoundIsShaped DEF Equals
<1>5. expected \in [Markets -> Int]
  BY <1>2, <1>4, ClosingQuotesType
<1> HIDE DEF expected
<1>6. quoteFor \in [Markets -> Int]
  BY <1>5, SubmittedType
<1> HIDE DEF quoteFor
<1>7. AcquisitionQuoteChange(funded, w, quoteFor) \in Int
  BY <1>4, <1>6, AcquisitionQuoteChangeType
<1>8. CASE v = w
  <2>1. ledger'.quote[w] = 0
    BY <1>3, <1>4, <1>7, LiquidationSpares
  <2>2. ledger'.position = AcquirePositions(funded, w, counterparty, quoteFor, Published).position
    BY <1>3, LiquidationPositions
  <2>3. ASSUME NEW m \in Markets
        PROVE  ledger'.position[w][m].balance = 0
    <3>1. ledger'.position[w][m] = IF m \notin funded.open[w] THEN funded.position[w][m]
                                                              ELSE ZeroPosition
      BY <1>3, <1>4, <2>2, AcquiredPositions
    <3> QED BY <1>4, <3>1, LedgerTypes DEF ZeroPosition
  <2> QED BY <1>8, <2>1, <2>3, EmptyMayPay
<1>9. CASE v = counterparty
  <2>1. Moves(funded, closed, history, 0, Nothing)
    BY <1>1, <1>2, <1>6, UpdatePositionsForLiquidationMoves
  <2> HIDE DEF closed
  <2>2. DatedLedger(closed, history) /\ IsCurrent(closed, counterparty, history)
    BY <1>1, <2>1 DEF Moves
  <2>3. Moves(closed, ledger', history, 0, Nothing)
    BY <1>2, <1>3, <2>2, UpdateRemainingQuoteMoves
  <2>4. IsCurrent(ledger', counterparty, history)
    BY <2>2, <2>3 DEF Moves
  <2> QED BY <1>9, <2>4, MarginedMayPay
<1>10. CASE v \notin {w, counterparty}
  <2>1. Shaped(ledger') /\ Spared(funded, ledger', v)
    BY <1>3, <1>4, <1>7, <1>10, LiquidationSpares
  <2> QED BY <1>1, <2>1, SparedMayPay
<1>11. QED
  BY <1>8, <1>9, <1>10

\* The Insurance Fund's margin is checked as it takes an exited wallet over; the
\* wallet loses positions, or had none and pays nothing.
LEMMA LiquidateWalletExitMayPay ==
    ASSUME CInv, PInv, SoundLedger(ledger'), NEW w \in Wallets,
           NEW rounding \in [Markets -> Roundings],
           LiquidateWalletExit(w, rounding), NEW v \in Wallets
    PROVE  MayPay(v)
<1> DEFINE funded   == Funded(Funded(ledger, w), InsuranceFund)
           expected == ExitQuoteQuantities(funded, w, IndexPrice, FieldsFor(w))
           quoteFor == Submitted(expected, rounding)
           closed   == UpdatePositionsForLiquidation(funded, w, InsuranceFund, quoteFor, Published)
           emptied  == UpdateRemainingQuoteAfterLiquidation(closed, w, InsuranceFund)
<1>1. InsuranceFund \in Wallets
  BY ParameterAssumption
<1>2. /\ Equals(funded) /\ DatedLedger(funded, history)
      /\ IsCurrent(funded, w, history) /\ IsCurrent(funded, InsuranceFund, history)
  BY <1>1, FundedEquals, FundedTwiceMoves
<1>3. /\ IndexPrice \in [Markets -> Nat] /\ FieldsFor(w) \in [Markets -> MarketFields]
      /\ history \in [Markets -> Seq(Int)] /\ Published = Lengths(history)
  BY ParameterTypes, LedgerDated DEF IInv, CInv
<1>4. /\ walletExits[w].exists
      /\ MeetsInitialMargin(ledger', InsuranceFund, IndexPrice, FieldsFor(InsuranceFund))
      /\ ledger' = closed \/ ledger' = emptied
  BY DEF LiquidateWalletExit
<1>5. w # InsuranceFund
  BY <1>4 DEF PInv
<1> HIDE DEF funded
<1>6. SoundLedger(funded) /\ Shaped(funded)
  BY <1>2, SoundIsShaped DEF Equals
<1>7. expected \in [Markets -> Int]
  BY <1>3, <1>6, ClosingQuotesType
<1> HIDE DEF expected
<1>8. quoteFor \in [Markets -> Int]
  BY <1>7, SubmittedType
<1> HIDE DEF quoteFor
<1> DEFINE change == AcquisitionQuoteChange(funded, w, quoteFor)
<1>9. change \in Int
  BY <1>6, <1>8, AcquisitionQuoteChangeType
<1>10. /\ Shaped(closed) /\ Shaped(emptied)
       /\ \A x \in Wallets \ {w, InsuranceFund} :
             Spared(funded, closed, x) /\ Spared(funded, emptied, x)
       /\ closed.quote[w] = funded.quote[w] - change /\ emptied.quote[w] = 0
  BY <1>1, <1>5, <1>6, <1>9, LiquidationSpares
<1>11. ledger'.position = AcquirePositions(funded, w, InsuranceFund, quoteFor, Published).position
  BY <1>4, LiquidationPositions
<1>12. CASE v = InsuranceFund
  <2>1. Moves(funded, closed, history, 0, Nothing)
    BY <1>1, <1>2, <1>3, <1>8, UpdatePositionsForLiquidationMoves
  <2> HIDE DEF closed
  <2>2. DatedLedger(closed, history) /\ IsCurrent(closed, InsuranceFund, history)
    BY <1>1, <1>2, <2>1 DEF Moves
  <2>3. Moves(closed, emptied, history, 0, Nothing)
    BY <1>1, <1>3, <2>2, UpdateRemainingQuoteMoves
  <2>4. IsCurrent(emptied, InsuranceFund, history)
    BY <1>1, <2>2, <2>3 DEF Moves
  <2> HIDE DEF emptied
  <2>5. IsCurrent(ledger', InsuranceFund, history)
    BY <1>4, <2>2, <2>4
  <2> QED BY <1>1, <1>4, <1>12, <2>5, MarginedMayPay
<1>13. CASE v # InsuranceFund /\ v # w
  <2>1. Shaped(ledger') /\ Spared(funded, ledger', v)
    <3> HIDE DEF closed, emptied
    <3> QED BY <1>4, <1>10, <1>13
  <2> QED BY <1>2, <2>1, SparedMayPay
<1>14. CASE v = w /\ funded.open[w] # {}
  <2>1. PICK m \in funded.open[w] : TRUE
    BY <1>14
  <2>2. m \in Markets /\ funded.position[w][m].balance # 0
    BY <1>6, <2>1, LedgerTypes
  <2>3. ledger'.position[w][m] = ZeroPosition
    BY <1>1, <1>5, <1>6, <1>11, <2>1, <2>2, AcquiredPositions
  <2> QED BY <1>2, <1>14, <2>2, <2>3, ChangedMayPay DEF ZeroPosition
<1>15. CASE v = w /\ funded.open[w] = {}
  <2>1. \A m \in Markets : /\ ledger'.position[w][m] = funded.position[w][m]
                           /\ ledger'.position[w][m].balance = 0
    BY <1>1, <1>6, <1>11, <1>15, AcquiredPositions, LedgerTypes
  <2>2. CASE ledger' = emptied
    <3>1. ledger'.quote[w] = 0
      BY <1>10, <2>2
    <3> QED BY <1>15, <2>1, <3>1, EmptyMayPay
  <2>3. CASE ledger' = closed
    <3> DEFINE f == [m \in Markets |-> IF m \notin funded.open[w] THEN 0
                                       ELSE IF funded.position[w][m].balance < 0
                                       THEN quoteFor[m] ELSE -quoteFor[m]]
    <3>1. \A m \in 1..NumMarkets : f[m] = 0
      BY <1>15 DEF Markets
    <3>2. change = SumTo(f, NumMarkets)
      BY DEF AcquisitionQuoteChange
    <3> HIDE DEF f
    <3>3. change = 0
      BY <3>1, <3>2, SumToZeros, LedgerSizeAssumption
    <3> HIDE DEF change
    <3>4. ledger'.quote[w] = funded.quote[w] - change
      BY <1>10, <2>3
    <3>5. funded.quote[w] \in Int
      BY <1>6 DEF Shaped
    <3>6. ledger'.quote[w] >= funded.quote[w]
      BY <3>3, <3>4, <3>5
    <3>7. ledger'.open[w] = funded.open[w]
      BY <1>15, <2>1, LedgerTypes
    <3>8. ledger'.position[w] \in [Markets -> Position] /\ funded.position[w] \in [Markets -> Position]
      BY <1>6 DEF SoundLedger, Ledger
    <3>9. ledger'.position[w] = funded.position[w]
      BY <2>1, <3>8
    <3>10. Shaped(ledger') /\ Spared(funded, ledger', w)
      BY <3>6, <3>7, <3>9, SoundIsShaped DEF Spared
    <3> QED BY <1>2, <1>15, <3>10, SparedMayPay
  <2> QED BY <1>4, <2>2, <2>3
<1>16. QED
  BY <1>12, <1>13, <1>14, <1>15

\* A deleveraging changes the positions of both its sides, a position below the
\* minimum is closed against the Insurance Fund, whose margin is checked.
LEMMA LiquidatePositionBelowMinimumMayPay ==
    ASSUME CInv, SoundLedger(ledger'), NEW w \in Wallets, NEW m \in Markets,
           NEW quote \in LiquidationQuotes,
           LiquidatePositionBelowMinimum(w, m, quote), NEW v \in Wallets
    PROVE  MayPay(v)
<1> DEFINE funded == Funded(Funded(ledger, w), InsuranceFund)
           size   == funded.position[w][m].balance
           delta  == ClosingDelta(funded, w, m, Abs(size))
<1>1. InsuranceFund \in Wallets /\ quote \in Int /\ Published \in [Markets -> Nat]
  BY ParameterAssumption, LiquidationAssumption, ParameterTypes DEF CInv, IInv
<1>2. /\ Equals(funded) /\ DatedLedger(funded, history)
      /\ IsCurrent(funded, w, history) /\ IsCurrent(funded, InsuranceFund, history)
  BY <1>1, FundedEquals, FundedTwiceMoves
<1>3. /\ w # InsuranceFund /\ m \in ledger.open[w]
      /\ MeetsInitialMargin(ledger', InsuranceFund, IndexPrice, FieldsFor(InsuranceFund))
      /\ ledger' = UpdatePositionsForDeleverage(funded, w, InsuranceFund, m, Abs(size), quote,
                                                Published)
  BY DEF LiquidatePositionBelowMinimum
<1>4. SoundLedger(funded) /\ Shaped(funded)
  BY <1>2, SoundIsShaped DEF Equals
<1>5. size = ledger.position[w][m].balance
  BY <1>2 DEF Equals, SameExposure
<1> HIDE DEF funded
<1>6. size \in Int /\ size # 0 /\ Abs(size) \in Nat \ {0}
  <2>1. size \in Int /\ size # 0
    BY <1>3, <1>4, <1>5, LedgerDated, LedgerTypes
  <2> HIDE DEF size
  <2> QED BY <2>1 DEF Abs
<1>7. delta = -size
  <2>1. delta = IF size < 0 THEN Abs(size) ELSE -Abs(size)
    BY DEF ClosingDelta
  <2> HIDE DEF size, delta
  <2> QED BY <1>6, <2>1 DEF Abs
<1> DEFINE base == Abs(size)
<1>8. base \in Nat \ {0} /\ base \in Int
  BY <1>6
<1>9. /\ ledger' = UpdatePositionsForDeleverage(funded, w, InsuranceFund, m, base, quote, Published)
      /\ delta = ClosingDelta(funded, w, m, base)
  BY <1>3
<1> HIDE DEF base, delta
<1>10. CASE v = w
  <2>1. ledger'.position[w][m] = MovedPosition(funded.position[w][m], delta, quote, Published[m])
    <3> HIDE DEF size
    <3> QED BY <1>1, <1>3, <1>4, <1>8, <1>9, DeleveragePositions
  <2>2. delta \in Int /\ Published[m] \in Nat /\ funded.position[w][m] \in Position
    <3> HIDE DEF size
    <3> QED BY <1>1, <1>4, <1>6, <1>7, LedgerTypes
  <2>3. ledger'.position[w][m].balance = size + delta
    BY <1>1, <2>1, <2>2, MovedPositionType
  <2>4. ledger'.position[w][m].balance # size
    <3> HIDE DEF size
    <3> QED BY <1>6, <1>7, <2>3
  <2> QED BY <1>2, <1>10, <2>4, ChangedMayPay
<1>11. CASE v = InsuranceFund
  <2>1. Published = Lengths(history) /\ history \in [Markets -> Seq(Int)]
    BY LedgerDated
  <2>2. IsCurrent(ledger', InsuranceFund, history)
    BY <1>1, <1>2, <1>8, <1>9, <2>1, UpdatePositionsForDeleverageMoves DEF Moves
  <2> QED BY <1>1, <1>3, <1>11, <2>2, MarginedMayPay
<1>12. CASE v \notin {w, InsuranceFund}
  <2>1. Shaped(ledger') /\ Spared(funded, ledger', v)
    BY <1>1, <1>4, <1>9, <1>12, DeleverageSpares
  <2> QED BY <1>2, <2>1, SparedMayPay
<1>13. QED
  BY <1>10, <1>11, <1>12

\* Closing a position in a deactivated market costs only its wallet.
LEMMA LiquidateInDeactivatedMarketMayPay ==
    ASSUME CInv, SoundLedger(ledger'), NEW w \in Wallets, NEW m \in Markets,
           NEW quote \in LiquidationQuotes, NEW fee \in LiquidationFees,
           LiquidatePositionInDeactivatedMarket(w, m, quote, fee), NEW v \in Wallets
    PROVE  MayPay(v)
<1> DEFINE funded == Funded(ledger, w)
<1>1. quote \in Int /\ fee \in Nat /\ FeeWallet \in Wallets
  BY ParameterAssumption, LiquidationAssumption
<1>2. Equals(funded)
  BY FundedEquals
<1>3. /\ m \in ledger.open[w]
      /\ ledger' = UpdateForDeactivatedMarketLiquidation(funded, w, m, quote, fee, FeeWallet)
  BY DEF LiquidatePositionInDeactivatedMarket
<1> HIDE DEF funded
<1>4. SoundLedger(funded) /\ Shaped(funded)
  BY <1>2, SoundIsShaped DEF Equals
<1>5. CASE v = w
  <2>1. ledger'.position = [funded.position EXCEPT ![w] = [funded.position[w] EXCEPT
                                                             ![m] = ZeroPosition]]
    BY <1>3 DEF UpdateForDeactivatedMarketLiquidation, AddQuote, SetQuote, SetPosition, SetPositions
  <2>2. funded.position \in [Wallets -> [Markets -> Position]]
    BY <1>4 DEF SoundLedger, Ledger
  <2>3. ledger'.position[w][m] = ZeroPosition
    BY <2>1, <2>2
  <2>4. ledger'.position[w][m].balance = 0
    BY <2>3 DEF ZeroPosition
  <2>5. ledger.position[w][m].balance # 0
    BY <1>3, LedgerDated, LedgerTypes
  <2> QED BY <1>5, <2>4, <2>5 DEF MayPay
<1>6. CASE v # w
  <2>1. Shaped(ledger') /\ Spared(funded, ledger', v)
    BY <1>1, <1>3, <1>4, <1>6, DeactivatedMarketSpares
  <2> QED BY <1>2, <2>1, SparedMayPay
<1>7. QED
  BY <1>5, <1>6

\* A deleveraging changes the positions of both its sides.
LEMMA DeleverageMayPay ==
    ASSUME CInv, SoundLedger(ledger'), NEW w \in Wallets, NEW counterparty \in Wallets,
           NEW m \in Markets, NEW base \in DeleverageQuantities, NEW quote \in DeleverageQuotes,
           Deleverage(w, counterparty, m, base, quote), NEW v \in Wallets
    PROVE  MayPay(v)
<1> DEFINE funded == FundedForDeleverage(w, counterparty)
<1>1. quote \in Int
  BY DeleveragingAssumption
<1>2. Equals(funded)
  BY FundedEquals DEF FundedForDeleverage
<1>3. /\ ledger' = UpdatePositionsForDeleverage(funded, w, counterparty, m, base, quote, Published)
      /\ \A x \in {w, counterparty} :
            UpdatedTowardsZero(funded.position[x][m].balance, ledger'.position[x][m].balance)
  BY DEF Deleverage
<1> HIDE DEF funded
<1>4. SoundLedger(funded) /\ Shaped(funded)
  BY <1>2, SoundIsShaped DEF Equals
<1>5. CASE v \in {w, counterparty}
  <2> DEFINE old == funded.position[v][m].balance
             new == ledger'.position[v][m].balance
  <2>1. UpdatedTowardsZero(old, new)
    BY <1>3, <1>5
  <2>2. old \in Int /\ new \in Int
    BY <1>4, LedgerTypes
  <2> HIDE DEF old, new
  <2>3. new # old
    BY <2>1, <2>2 DEF UpdatedTowardsZero
  <2> QED BY <1>2, <2>3, ChangedMayPay DEF old, new
<1>6. CASE v \notin {w, counterparty}
  <2>1. Shaped(ledger') /\ Spared(funded, ledger', v)
    BY <1>1, <1>3, <1>4, <1>6, DeleverageSpares
  <2> QED BY <1>2, <2>1, SparedMayPay
<1>7. QED
  BY <1>5, <1>6

\* Nothing is left of a wallet whose exit is withdrawn, and only the Exit Fund
\* takes on its positions.
LEMMA WithdrawPositionsMayPay ==
    ASSUME CInv, SoundLedger(ledger'), NEW w \in Wallets, WithdrawPositions(w),
           NEW v \in Wallets \ {exitFundWallet}
    PROVE  MayPay(v)
<1> DEFINE funded   == Funded(ledger, w)
           prices   == ExitQuoteQuantities(funded, w, oraclePrice, FieldsFor(w))
           change   == AcquisitionQuoteChange(funded, w, prices)
           taken    == AcquirePositions(funded, w, exitFundWallet, prices, Published)
           acquired == AddQuote(taken, exitFundWallet, change)
           after    == SetQuote(acquired, w, 0)
<1>1. /\ exitFundWallet \in Wallets /\ oraclePrice \in [Markets -> Nat]
      /\ FieldsFor(w) \in [Markets -> MarketFields]
  BY ParameterTypes DEF CInv, IInv, TypeOK
<1>2. Equals(funded)
  BY FundedEquals
<1>3. ledger' = after
  BY DEF WithdrawPositions
<1> HIDE DEF funded
<1>4. SoundLedger(funded) /\ Shaped(funded)
  BY <1>2, SoundIsShaped DEF Equals
<1>5. prices \in [Markets -> Int]
  BY <1>1, <1>4, ClosingQuotesType
<1> HIDE DEF prices
<1>6. change \in Int
  BY <1>4, <1>5, AcquisitionQuoteChangeType
<1> HIDE DEF change
<1>7. Shaped(taken) /\ \A x \in Wallets \ {w, exitFundWallet} : Spared(funded, taken, x)
  BY <1>1, <1>4, AcquirePositionsSpares
<1>8. ledger'.position = taken.position
  <2> HIDE DEF taken
  <2> QED BY <1>3 DEF AddQuote, SetQuote
<1>9. CASE v = w
  <2>1. \A m \in Markets : m \in funded.open[w] => taken.position[w][m] = ZeroPosition
    BY <1>1, <1>4, <1>9, AcquiredPositions, LedgerTypes
  <2>2. \A m \in Markets :
           m \notin funded.open[w] => taken.position[w][m] = funded.position[w][m]
    BY <1>1, <1>4, <1>9, AcquiredPositions, LedgerTypes
  <2> HIDE DEF taken
  <2>3. ASSUME NEW m \in Markets
        PROVE  ledger'.position[w][m].balance = 0
    <3>1. m \notin funded.open[w] => funded.position[w][m].balance = 0
      BY <1>4, LedgerTypes
    <3> QED BY <1>8, <2>1, <2>2, <3>1 DEF ZeroPosition
  <2>4. Shaped(acquired)
    BY <1>1, <1>6, <1>7, AddQuoteSpares
  <2> HIDE DEF acquired
  <2>5. ledger'.quote[w] = 0
    BY <1>3, <2>4 DEF SetQuote, Shaped
  <2> QED BY <1>9, <2>3, <2>5, EmptyMayPay
<1>10. CASE v # w
  <2> HIDE DEF taken
  <2>1. Shaped(acquired) /\ Spared(taken, acquired, v)
    BY <1>1, <1>6, <1>7, AddQuoteSpares
  <2> HIDE DEF acquired
  <2>2. Shaped(after) /\ Spared(acquired, after, v)
    BY <1>10, <2>1, SetQuoteSpares
  <2> HIDE DEF after
  <2>3. Spared(funded, acquired, v)
    BY <1>4, <1>7, <1>10, <2>1, SparedAgain
  <2>4. Shaped(ledger') /\ Spared(funded, ledger', v)
    BY <1>3, <1>4, <2>1, <2>2, <2>3, SparedAgain
  <2> QED BY <1>2, <2>4, SparedMayPay
<1>11. QED
  BY <1>9, <1>10

\* The Exit Fund's own withdrawal spares everybody else.
LEMMA WithdrawExitFundMayPay ==
    ASSUME CInv, WithdrawExitFund, NEW v \in Wallets \ {exitFundWallet}
    PROVE  MayPay(v)
<1> DEFINE funded == Funded(ledger, exitFundWallet)
<1>1. Equals(funded) /\ exitFundWallet \in Wallets
  BY LedgerDated, FundedEquals
<1>2. ledger' = SetQuote(funded, exitFundWallet, 0)
  BY DEF WithdrawExitFund
<1> HIDE DEF funded
<1>3. Shaped(funded)
  BY <1>1, SoundIsShaped DEF Equals
<1>4. Shaped(ledger') /\ Spared(funded, ledger', v)
  BY <1>1, <1>2, <1>3, SetQuoteSpares
<1>5. QED
  BY <1>1, <1>4, SparedMayPay

\* A step that moves no quote and writes one wallet leaves its worth alone.
LEMMA WorthOfOne ==
    ASSUME NEW l, NEW k, SoundLedger(l), SoundLedger(k), NEW h \in [Markets -> Seq(Int)],
           NEW w \in Wallets, DifferOnlyFor(l, k, w), TotalWorth(k, h) = TotalWorth(l, h)
    PROVE  \A v \in Wallets : Worth(k, v, h) = Worth(l, v, h)
<1> DEFINE f == [v \in Wallets |-> Worth(l, v, h)]
           g == [v \in Wallets |-> Worth(k, v, h)]
<1>1. \A v \in 1..NumWallets : f[v] \in Int /\ g[v] \in Int
  BY TotalTypes DEF Wallets
<1>2. ASSUME NEW v \in Wallets, v # w
      PROVE  Worth(k, v, h) = Worth(l, v, h)
  BY <1>2 DEF DifferOnlyFor, Worth, OutstandingWalletFunding
<1>3. \A v \in 1..NumWallets : v # w => g[v] = f[v]
  BY <1>2 DEF Wallets
<1>4. SumTo(g, NumWallets) = SumTo(f, NumWallets) /\ SumTo(f, NumWallets) \in Int
  BY TotalTypes DEF TotalWorth
<1>5. w \in 1..NumWallets /\ NumWallets \in Nat /\ g[w] \in Int /\ f[w] \in Int
  BY <1>1, LedgerSizeAssumption DEF Wallets
<1>6. g[w] = Worth(k, w, h) /\ f[w] = Worth(l, w, h)
  OBVIOUS
<1> HIDE DEF f, g
<1>7. SumTo(g, NumWallets) = SumTo(f, NumWallets) + g[w] - f[w]
  BY <1>1, <1>3, <1>5, SumToChange
<1>8. g[w] = f[w]
  BY <1>4, <1>5, <1>7
<1>9. QED
  BY <1>2, <1>6, <1>8

\* Nor does settling the funding of one market, its periods capped.
LEMMA ApplyFundingForMarketWorth ==
    ASSUME CInv, SoundLedger(ledger'), NEW w \in Wallets, NEW m \in Markets,
           ApplyOutstandingWalletFundingForMarket(w, m), NEW v \in Wallets
    PROVE  Worth(ledger', v, history) = Worth(ledger, v, history)
<1> DEFINE p    == ledger.position[w][m]
           last == Smaller(p.lastUpdate + 1 + MaxFundingPeriods, Len(history[m]))
           q    == FundedPosition(p, last)
           paid == FundingPayment(p, history[m], last)
           j    == SetPositions(ledger, w, [ledger.position[w] EXCEPT ![m] = q], ledger.open[w])
<1>1. /\ DatedLedger(ledger, history) /\ SoundLedger(ledger) /\ Shaped(ledger)
      /\ history \in [Markets -> Seq(Int)]
  BY LedgerDated, SoundIsShaped
<1>2. Len(history[m]) \in Nat /\ p.lastUpdate \in Nat
  BY <1>1, HistoryTypes, LedgerTypes
<1>3. last \in Nat /\ last <= Len(history[m])
  <2> HIDE DEF p
  <2> QED BY <1>2, MarketAssumption DEF Smaller
<1>4. /\ ledger' = AddQuote(j, w, paid)
      /\ ledger' = AddQuote(SetPositions(ledger, w,
                                         [ledger.position[w] EXCEPT ![m] = FundedPosition(@, last)],
                                         ledger.open[w]),
                            w, FundingPayment(ledger.position[w][m], history[m], last))
  BY DEF ApplyOutstandingWalletFundingForMarket
<1> HIDE DEF last
<1>5. Moves(ledger, ledger', history, 0, Nothing)
  BY <1>1, <1>3, <1>4, PartialFundingMoves
<1>6. TotalWorth(ledger', history) = TotalWorth(ledger, history) + 0
  BY <1>5 DEF Moves
<1>7. TotalWorth(ledger', history) = TotalWorth(ledger, history)
  BY <1>1, <1>6, TotalTypes
<1> HIDE DEF p, q, paid
<1>8. DifferOnlyFor(ledger, ledger', w)
  <2>1. /\ j.quote = ledger.quote
        /\ \A x \in Wallets \ {w} : /\ j.position[x] = ledger.position[x]
                                    /\ j.open[x] = ledger.open[x]
    BY <1>1 DEF SetPositions, Shaped
  <2> HIDE DEF j
  <2>2. /\ ledger'.position = j.position /\ ledger'.open = j.open
        /\ \A x \in Wallets \ {w} : ledger'.quote[x] = j.quote[x]
    BY <1>1, <1>4, <2>1 DEF AddQuote, SetQuote, Shaped
  <2> QED BY <2>1, <2>2 DEF DifferOnlyFor
<1>9. QED
  BY <1>1, <1>7, <1>8, WorthOfOne

LEMMA ApplyFundingForMarketMayPay ==
    ASSUME CInv, SoundLedger(ledger'), NEW w \in Wallets, NEW m \in Markets,
           ApplyOutstandingWalletFundingForMarket(w, m), NEW v \in Wallets
    PROVE  MayPay(v)
<1>1. Worth(ledger', v, history) = Worth(ledger, v, history)
  BY ApplyFundingForMarketWorth
<1>2. SoundLedger(ledger) /\ history \in [Markets -> Seq(Int)]
  BY LedgerDated
<1>3. Worth(ledger, v, history) \in Int
  BY <1>2, TotalTypes
<1>4. QED
  BY <1>1, <1>3 DEF MayPay

-----------------------------------------------------------------------------
(* The margin of what leaves. *)

\* Every step of the Exchange takes from a wallet only what it may pay.
LEMMA NextMayPay ==
    ASSUME CInv, PInv, [Next]_vars, NEW v \in Wallets \ {exitFundWallet}
    PROVE  MayPay(v)
<1>1. SoundLedger(ledger')
  <2>1. IInv'
    BY NextSound DEF CInv
  <2> QED BY <2>1 DEF IInv, TypeOK, OpenMarketsAreTracked, SoundLedger
<1>2. CASE CustodyNext
  BY <1>1, <1>2, CustodyMayPay
<1>3. CASE TradingNext
  <2>1. ASSUME NEW w, NEW timestamp, InvalidateNonce(w, timestamp)
        PROVE  MayPay(v)
    <3>1. ledger' = ledger
      BY <2>1 DEF InvalidateNonce
    <3> QED BY <3>1, SameLedgerMayPay
  <2>2. ASSUME NEW buy \in Orders, NEW sell \in Orders, NEW base \in BaseQuantities,
               NEW quote \in QuoteQuantities, NEW makerSide \in {"Buy", "Sell"},
               NEW makerFee \in MakerFees, NEW takerFee \in TakerFees,
               ExecuteTrade([market |-> buy.market, base |-> base, quote |-> quote,
                             makerSide |-> makerSide, makerFee |-> makerFee,
                             takerFee |-> takerFee], buy, sell)
        PROVE  MayPay(v)
    <3> DEFINE trade == [market |-> buy.market, base |-> base, quote |-> quote,
                         makerSide |-> makerSide, makerFee |-> makerFee, takerFee |-> takerFee]
    <3>1. /\ buy.market \in Markets /\ base \in Nat \ {0} /\ quote \in Nat \ {0}
          /\ makerFee \in Int /\ takerFee \in Nat
      BY TradingAssumption, RequestAssumption DEF Order
    <3>2. trade \in Trade
      BY <3>1 DEF Trade
    <3>3. ExecuteTrade(trade, buy, sell)
      BY <2>2
    <3> HIDE DEF trade
    <3> QED BY <3>2, <3>3, ExecuteTradeMayPay
  <2> QED BY <1>3, <2>1, <2>2 DEF TradingNext
<1>4. CASE LiquidationNext
  <2>1. ASSUME NEW w \in Wallets, NEW rounding \in [Markets -> Roundings],
               LiquidateWalletInMaintenance(w, rounding)
        PROVE  MayPay(v)
    <3>1. /\ LiquidateAtBankruptcyPrice(w, InsuranceFund, rounding)
          /\ MeetsInitialMargin(ledger', InsuranceFund, IndexPrice, FieldsFor(InsuranceFund))
      BY <2>1 DEF LiquidateWalletInMaintenance
    <3> QED BY <1>1, <3>1, ParameterAssumption, LiquidateAtBankruptcyPriceMayPay
  <2>2. ASSUME NEW w \in Wallets, NEW rounding \in [Markets -> Roundings],
               LiquidateWalletInMaintenanceDuringSystemRecovery(w, rounding)
        PROVE  MayPay(v)
    <3>1. exitFundWallet \in Wallets
      BY LedgerDated
    <3>2. LiquidateAtBankruptcyPrice(w, exitFundWallet, rounding)
      BY <2>2 DEF LiquidateWalletInMaintenanceDuringSystemRecovery
    <3> QED BY <1>1, <3>1, <3>2, LiquidateAtBankruptcyPriceMayPay
  <2> QED BY <1>1, <1>4, <2>1, <2>2, LiquidateWalletExitMayPay,
             LiquidatePositionBelowMinimumMayPay, LiquidateInDeactivatedMarketMayPay
             DEF LiquidationNext
<1>5. CASE DeleveragingNext
  <2>1. InsuranceFund \in Wallets /\ exitFundWallet \in Wallets
    BY ParameterAssumption, LedgerDated
  <2>2. \E w, counterparty \in Wallets, m \in Markets, base \in DeleverageQuantities,
           quote \in DeleverageQuotes : Deleverage(w, counterparty, m, base, quote)
    BY <1>5, <2>1 DEF DeleveragingNext, DeleverageInMaintenanceAcquisition,
       DeleverageExitAcquisition, DeleverageInsuranceFundClosure, DeleverageExitFundClosure
  <2> QED BY <1>1, <2>2, DeleverageMayPay
<1>6. CASE WalletExitsNext
  <2>1. ASSUME NEW w, ExitWallet(w) \/ ClearWalletExit(w) \/ SetExitFundWallet(w)
        PROVE  MayPay(v)
    <3>1. ledger' = ledger
      BY <2>1 DEF ExitWallet, ClearWalletExit, SetExitFundWallet
    <3> QED BY <3>1, SameLedgerMayPay
  <2> QED BY <1>1, <1>6, <2>1, WithdrawPositionsMayPay, WithdrawExitFundMayPay
          DEF WalletExitsNext, WithdrawExit, WithdrawExitAdmin
<1>7. CASE MarketAdminNext
  <2>1. CASE \E w \in Wallets, m \in Markets : ApplyOutstandingWalletFundingForMarket(w, m)
    BY <1>1, <2>1, ApplyFundingForMarketMayPay
  <2>2. CASE ~\E w \in Wallets, m \in Markets : ApplyOutstandingWalletFundingForMarket(w, m)
    <3>1. ledger' = ledger
      BY <1>7, <2>2 DEF MarketAdminNext, ActivateMarket, DeactivateMarket, PriceNext,
         FundingNext, ParameterNext, PublishIndexPrice, OraclePriceChange,
         PublishFundingMultiplier, SetMarketOverrides, SetMarketDefaults,
         UnsetMarketOverridesForWallet, SetChainPropagationPeriod
    <3> QED BY <3>1, SameLedgerMayPay
  <2> QED BY <2>1, <2>2
<1>8. CASE Tick \/ UNCHANGED vars
  <2>1. ledger' = ledger
    BY <1>8 DEF Tick, vars
  <2> QED BY <2>1, SameLedgerMayPay
<1>9. QED
  BY <1>2, <1>3, <1>4, <1>5, <1>6, <1>7, <1>8 DEF Next

\* A wallet other than the Exit Fund out of which a transaction takes value
\* while its positions stay what they were meets its initial margin requirement
\* afterwards: it is the one whose margin the handler checked, with its funding
\* settled first, or nothing is left of it to require margin for.
THEOREM OutflowIsAlwaysMargined == Spec => OutflowIsMargined
<1> DEFINE Margined ==
      \A w \in Wallets \ {exitFundWallet} :
          (/\ history' = history
           /\ \A m \in Markets :
                 ledger'.position[w][m].balance = ledger.position[w][m].balance
           /\ ledger'.quote[w] + OutstandingWalletFunding(ledger', w, history)
                < ledger.quote[w] + OutstandingWalletFunding(ledger, w, history))
          => MeetsInitialMargin(Funded(ledger', w), w, IndexPrice, FieldsFor(w))
<1>1. Init => CInv /\ PInv
  BY InitCurrent, InitFollows
<1>2. CInv /\ PInv /\ [Next]_vars => CInv' /\ PInv'
  BY NextCurrent, NextSigned
<1>3. ASSUME CInv, PInv, [Next]_vars
      PROVE  Margined
  <2>1. SUFFICES ASSUME NEW w \in Wallets \ {exitFundWallet},
                        \A m \in Markets : ledger'.position[w][m].balance
                                             = ledger.position[w][m].balance,
                        Worth(ledger', w, history) < Worth(ledger, w, history)
                 PROVE  MeetsInitialMargin(Funded(ledger', w), w, IndexPrice, FieldsFor(w))
    BY DEF Worth
  <2>2. SoundLedger(ledger) /\ history \in [Markets -> Seq(Int)]
    BY <1>3, LedgerDated
  <2>3. SoundLedger(ledger')
    <3>1. IInv'
      BY <1>3, NextSound DEF CInv
    <3> QED BY <3>1 DEF IInv, TypeOK, OpenMarketsAreTracked, SoundLedger
  <2>4. Worth(ledger', w, history) \in Int /\ Worth(ledger, w, history) \in Int
    BY <2>2, <2>3, TotalTypes
  <2>5. ~(Worth(ledger', w, history) >= Worth(ledger, w, history))
    BY <2>1, <2>4
  <2>6. MayPay(w)
    BY <1>3, NextMayPay
  <2> QED BY <2>1, <2>5, <2>6 DEF MayPay
<1>4. QED
  BY <1>1, <1>2, <1>3, PTL DEF Spec, OutflowIsMargined

-----------------------------------------------------------------------------
(* Positions are what the orders add up to. *)

\* What is filled of an order is a natural.
LEMMA FilledType ==
    ASSUME TypeOK, NEW h \in OrderHashes
    PROVE  /\ Filled(h) \in Nat /\ h.wallet \in Wallets /\ h.market \in Markets
           /\ \A w \in Wallets, m \in Markets : SignedFills(w, m, h) \in Int
<1>1. PICK o \in Orders : h = OrderHash(o)
  BY DEF OrderHashes
<1>2. h.quantity \in Nat /\ h.wallet \in Wallets /\ h.market \in Markets
  BY <1>1, RequestAssumption DEF OrderHash, Order
<1>3. Filled(h) \in Nat
  BY <1>2 DEF Filled, TypeOK
<1>4. QED
  BY <1>2, <1>3 DEF SignedFills

\* A trade fills the orders on its two sides, and no other, by its base quantity.
LEMMA TradeFills ==
    ASSUME TypeOK, NEW trade \in Trade, NEW buy \in Orders, NEW sell \in Orders,
           ExecuteTrade(trade, buy, sell), NEW h \in OrderHashes
    PROVE  Filled(h)' = IF h \in {OrderHash(buy), OrderHash(sell)} THEN Filled(h) + trade.base
                                                                   ELSE Filled(h)
<1> DEFINE traded == {OrderHash(buy), OrderHash(sell)}
           filled == {OrderHash(o) : o \in {x \in {buy, sell} : Completes(x, trade.base)}}
<1>1. /\ partiallyFilled'[h] = IF h \in filled THEN 0
                               ELSE IF h \in traded THEN partiallyFilled[h] + trade.base
                               ELSE partiallyFilled[h]
      /\ completedOrders' = completedOrders \cup filled
      /\ IsFillable(buy, trade.base) /\ IsFillable(sell, trade.base)
  BY DEF ExecuteTrade
<1>2. filled \subseteq traded
  OBVIOUS
<1>3. CASE h \notin traded
  BY <1>1, <1>2, <1>3 DEF Filled
<1>4. ASSUME NEW o \in {buy, sell}, h = OrderHash(o)
      PROVE  Filled(h)' = Filled(h) + trade.base
  <2>1. h \notin completedOrders /\ Filled(h) = partiallyFilled[h]
    BY <1>1, <1>4 DEF IsFillable, Filled
  <2>2. h.quantity = o.quantity
    BY <1>4, RequestAssumption DEF OrderHash, Order
  <2>3. CASE h \in filled
    <3>1. PICK x \in {buy, sell} : h = OrderHash(x) /\ Completes(x, trade.base)
      BY <2>3
    <3>2. x.quantity = h.quantity
      BY <3>1, RequestAssumption DEF OrderHash, Order
    <3>3. partiallyFilled[h] + trade.base = h.quantity
      BY <3>1, <3>2 DEF Completes
    <3> QED BY <1>1, <2>1, <2>3, <3>3 DEF Filled
  <2>4. CASE h \notin filled
    BY <1>1, <1>4, <2>1, <2>4 DEF Filled
  <2> QED BY <2>3, <2>4
<1>5. QED
  BY <1>3, <1>4

\* By how much a trade moves a wallet's position.
Traded(trade, buy, sell, w, m) ==
    IF m # trade.market THEN 0
    ELSE IF w = buy.wallet THEN trade.base
    ELSE IF w = sell.wallet THEN -trade.base
    ELSE 0

\* One term of a sum over the orders changes, or none.
LEMMA FillsChange ==
    ASSUME IsFiniteSet(OrderHashes), TypeOK, TypeOK', NEW w \in Wallets, NEW m \in Markets,
           NEW a \in OrderHashes,
           \A h \in OrderHashes \ {a} : SignedFills(w, m, h)' = SignedFills(w, m, h)
    PROVE  FillsOf(w, m)' = FillsOf(w, m) + (SignedFills(w, m, a)' - SignedFills(w, m, a))
<1> DEFINE f == [h \in OrderHashes |-> SignedFills(w, m, h)]
           g == [h \in OrderHashes |-> SignedFills(w, m, h)']
<1>1. \A h \in OrderHashes : f[h] \in Int
  BY FilledType
<1>2. \A h \in OrderHashes : g[h] \in Int
  <2>1. partiallyFilled' \in [OrderHashes -> Nat]
    BY DEF TypeOK
  <2>2. \A h \in OrderHashes : h.quantity \in Nat
    BY RequestAssumption DEF OrderHashes, OrderHash, Order
  <2> QED BY <2>1, <2>2 DEF SignedFills, Filled
<1>3. \A h \in OrderHashes \ {a} : g[h] = f[h]
  OBVIOUS
<1>4. f[a] = SignedFills(w, m, a) /\ g[a] = SignedFills(w, m, a)' /\ f[a] \in Int /\ g[a] \in Int
  BY <1>1, <1>2
<1>5. FillsOf(w, m) = SumFunctionOnSet(f, OrderHashes) /\ FillsOf(w, m)' = SumFunctionOnSet(g, OrderHashes)
  BY DEF FillsOf
<1> HIDE DEF f, g
<1>6. SumFunctionOnSet(f, OrderHashes) \in Int
  BY <1>1, SumOnType
<1>7. SumFunctionOnSet(g, OrderHashes) = SumFunctionOnSet(f, OrderHashes) - f[a] + g[a]
  BY <1>1, <1>2, <1>3, SumOnChange
<1> QED BY <1>4, <1>5, <1>6, <1>7

\* The sum of a wallet's fills is an integer.
LEMMA FillsType ==
    ASSUME IsFiniteSet(OrderHashes), TypeOK, NEW w \in Wallets, NEW m \in Markets
    PROVE  FillsOf(w, m) \in Int
<1> DEFINE f == [h \in OrderHashes |-> SignedFills(w, m, h)]
<1>1. \A h \in OrderHashes : f[h] \in Int
  BY FilledType
<1> HIDE DEF f
<1>2. SumFunctionOnSet(f, OrderHashes) \in Int
  BY <1>1, SumOnType
<1> QED BY <1>2 DEF FillsOf, f

\* No fill, no change.
LEMMA SameFills ==
    ASSUME UNCHANGED <<partiallyFilled, completedOrders>>, NEW w \in Wallets, NEW m \in Markets
    PROVE  FillsOf(w, m)' = FillsOf(w, m)
BY DEF FillsOf, SignedFills, Filled

\* What its orders are filled in a trade is what its position moves.
LEMMA TradeFillsPositions ==
    ASSUME IsFiniteSet(OrderHashes), TypeOK, TypeOK',
           NEW trade \in Trade, NEW buy \in Orders, NEW sell \in Orders,
           ExecuteTrade(trade, buy, sell), NEW w \in Wallets, NEW m \in Markets
    PROVE  FillsOf(w, m)' = FillsOf(w, m) + Traded(trade, buy, sell, w, m)
<1> DEFINE b == OrderHash(buy)
           s == OrderHash(sell)
<1>1. /\ b \in OrderHashes /\ s \in OrderHashes
      /\ b.wallet = buy.wallet /\ b.market = trade.market /\ b.side = "Buy"
      /\ s.wallet = sell.wallet /\ s.market = trade.market /\ s.side = "Sell"
      /\ buy.wallet # sell.wallet
  BY RequestAssumption DEF ExecuteTrade, OrderHash, OrderHashes, Order
<1>2. /\ Filled(b) \in Nat /\ Filled(s) \in Nat /\ trade.base \in Nat
      /\ Filled(b)' = Filled(b) + trade.base /\ Filled(s)' = Filled(s) + trade.base
      /\ \A h \in OrderHashes \ {b, s} : Filled(h)' = Filled(h)
  BY <1>1, TradeFills, FilledType DEF Trade
<1>3. \A h \in OrderHashes : SignedFills(w, m, h) \in Int
  BY FilledType
<1> HIDE DEF b, s
<1>4. \A h \in OrderHashes \ {b, s} : SignedFills(w, m, h)' = SignedFills(w, m, h)
  BY <1>2 DEF SignedFills
<1>5. SignedFills(w, m, b)' - SignedFills(w, m, b)
        = IF m = trade.market /\ w = buy.wallet THEN trade.base ELSE 0
  BY <1>1, <1>2 DEF SignedFills
<1>6. SignedFills(w, m, s)' - SignedFills(w, m, s)
        = IF m = trade.market /\ w = sell.wallet THEN -trade.base ELSE 0
  BY <1>1, <1>2 DEF SignedFills
<1>7. CASE m = trade.market /\ w = sell.wallet
  <2>1. \A h \in OrderHashes \ {s} : SignedFills(w, m, h)' = SignedFills(w, m, h)
    BY <1>1, <1>2, <1>4, <1>7 DEF SignedFills
  <2>2. FillsOf(w, m)' = FillsOf(w, m) + (SignedFills(w, m, s)' - SignedFills(w, m, s))
    BY <1>1, <2>1, FillsChange
  <2> QED BY <1>1, <1>6, <1>7, <2>2 DEF Traded
<1>8. CASE ~(m = trade.market /\ w = sell.wallet)
  <2>1. \A h \in OrderHashes \ {b} : SignedFills(w, m, h)' = SignedFills(w, m, h)
    BY <1>1, <1>2, <1>4, <1>8 DEF SignedFills
  <2>2. FillsOf(w, m)' = FillsOf(w, m) + (SignedFills(w, m, b)' - SignedFills(w, m, b))
    BY <1>1, <2>1, FillsChange
  <2> QED BY <1>1, <1>5, <1>8, <2>2 DEF Traded
<1>9. QED
  BY <1>7, <1>8

\* ... and its position moves by that.
LEMMA TradeMovesPositions ==
    ASSUME IInv, NEW trade \in Trade, NEW buy \in Orders, NEW sell \in Orders,
           ExecuteTrade(trade, buy, sell), NEW w \in Wallets, NEW m \in Markets
    PROVE  ledger'.position[w][m].balance
             = ledger.position[w][m].balance + Traded(trade, buy, sell, w, m)
<1> DEFINE buyFee  == IF trade.makerSide = "Buy" THEN trade.makerFee ELSE trade.takerFee
           sellFee == IF trade.makerSide = "Buy" THEN trade.takerFee ELSE trade.makerFee
           funded  == Funded(Funded(ledger, buy.wallet), sell.wallet)
           x       == trade.market
           bought  == funded.position[buy.wallet][x]
           sold    == funded.position[sell.wallet][x]
<1>1. buy.wallet \in Wallets /\ sell.wallet \in Wallets /\ x \in Markets /\ buy.wallet # sell.wallet
  BY RequestAssumption DEF Order, Trade, ExecuteTrade
<1>2. /\ buyFee \in Int /\ sellFee \in Int
      /\ trade.base \in Int /\ -trade.base \in Int /\ trade.quote \in Int
  BY DEF Trade
<1>3. SoundLedger(ledger) /\ TypeOK
  BY DEF IInv, SoundLedger, TypeOK, OpenMarketsAreTracked
<1>4. SameExposure(ledger, funded) /\ SoundLedger(funded)
  BY <1>1, <1>3, FundedTwiceExposure
<1>5. Published \in [Markets -> Nat]
  BY ParameterTypes DEF IInv
<1>6. ledger' = UpdateForTrade(funded, buy.wallet, sell.wallet, x, trade.base,
                               trade.quote, buyFee, sellFee, FeeWallet, Published)
  BY DEF ExecuteTrade
<1>7. bought \in Position /\ sold \in Position
  BY <1>1, <1>4 DEF SoundLedger, Ledger
<1> HIDE DEF buyFee, sellFee, funded
<1>8. ledger'.position[w][m]
        = IF m # x THEN funded.position[w][m]
          ELSE IF w = sell.wallet THEN MovedPosition(sold, -trade.base, trade.quote, Published[x])
          ELSE IF w = buy.wallet THEN MovedPosition(bought, trade.base, trade.quote, Published[x])
          ELSE funded.position[w][m]
  <2> HIDE DEF x, bought, sold
  <2>1. PositionsTraded(UpdateForTrade(funded, buy.wallet, sell.wallet, x, trade.base,
                                       trade.quote, buyFee, sellFee, FeeWallet, Published),
                        funded, buy.wallet, sell.wallet, x, trade.base, trade.quote, Published)
    BY <1>1, <1>2, <1>4, <1>5, UpdateForTradePositions
  <2>2. PositionsTraded(ledger', funded, buy.wallet, sell.wallet, x, trade.base, trade.quote,
                        Published)
    BY <1>6, <2>1
  <2> QED BY <2>2 DEF PositionsTraded, bought, sold
<1>9. /\ MovedPosition(bought, trade.base, trade.quote, Published[x]).balance = bought.balance + trade.base
      /\ MovedPosition(sold, -trade.base, trade.quote, Published[x]).balance = sold.balance + (-trade.base)
  <2>1. Published[x] \in Nat
    BY <1>1, <1>5
  <2> HIDE DEF bought, sold, x
  <2> QED BY <1>2, <1>7, <2>1, MovedPositionType
<1>10. /\ funded.position[w][m].balance = ledger.position[w][m].balance
       /\ bought.balance = ledger.position[buy.wallet][x].balance
       /\ sold.balance = ledger.position[sell.wallet][x].balance
       /\ ledger.position[w][m].balance \in Int
  <2>1. ledger.position[w][m] \in Position
    BY <1>3 DEF SoundLedger, Ledger
  <2> QED BY <1>1, <1>4, <2>1 DEF SameExposure, Position
<1> HIDE DEF bought, sold, x
<1>11. CASE m # trade.market
  BY <1>8, <1>10, <1>11 DEF Traded, x
<1>12. CASE m = trade.market /\ w = sell.wallet
  BY <1>1, <1>8, <1>9, <1>10, <1>12 DEF Traded, x
<1>13. CASE m = trade.market /\ w = buy.wallet
  BY <1>1, <1>2, <1>8, <1>9, <1>10, <1>13 DEF Traded, x
<1>14. CASE m = trade.market /\ w \notin {buy.wallet, sell.wallet}
  BY <1>8, <1>10, <1>14 DEF Traded, x
<1> QED BY <1>11, <1>12, <1>13, <1>14

\* Everything else keeps positions and fills.
LEMMA FillsOrKeeps ==
    ASSUME IInv, [OrdinaryNext]_vars
    PROVE  \/ \E trade \in Trade, buy, sell \in Orders : ExecuteTrade(trade, buy, sell)
           \/ SameExposure(ledger, ledger') /\ UNCHANGED <<partiallyFilled, completedOrders>>
<1>0. SoundLedger(ledger) /\ TypeOK /\ SameExposure(ledger, ledger)
  BY DEF IInv, SoundLedger, TypeOK, OpenMarketsAreTracked, SameExposure
<1>1. ASSUME \/ SetDepositIndex
             \/ \E isEnabled \in BOOLEAN : SetDepositEnabled(isEnabled)
             \/ \E source, depositor \in Wallets, units \in DepositUnits, tokenFee \in TokenFees :
                   Deposit(source, depositor, units, tokenFee)
             \/ \E w \in Wallets : ExitWallet(w) \/ ClearWalletExit(w)
             \/ \E w, timestamp : InvalidateNonce(w, timestamp)
             \/ Tick \/ UNCHANGED vars
      PROVE  SameExposure(ledger, ledger') /\ UNCHANGED <<partiallyFilled, completedOrders>>
  <2>1. ledger' = ledger /\ UNCHANGED <<partiallyFilled, completedOrders>>
    BY <1>1 DEF SetDepositIndex, SetDepositEnabled, Deposit, ExitWallet, ClearWalletExit,
       InvalidateNonce, Tick, vars, requestVars
  <2> QED BY <1>0, <2>1
<1>2. ASSUME NEW w, NEW quantity, ApplyPendingDeposits(w, quantity)
      PROVE  SameExposure(ledger, ledger') /\ UNCHANGED <<partiallyFilled, completedOrders>>
  <2>1. ledger'.position = ledger.position /\ UNCHANGED <<partiallyFilled, completedOrders>>
    BY <1>2 DEF ApplyPendingDeposits, UpdateForDeposit, AddQuote, SetQuote, requestVars
  <2> QED BY <1>0, <2>1 DEF SameExposure
<1>3. ASSUME NEW t \in Transfers, NEW gasFee, TransferQuote(t, gasFee)
      PROVE  SameExposure(ledger, ledger') /\ UNCHANGED <<partiallyFilled, completedOrders>>
  <2> DEFINE funded == Funded(Funded(ledger, t.source), t.destination)
  <2>1. SameExposure(ledger, funded)
    BY <1>0, RequestAssumption, FundedTwiceExposure, SMTT(60) DEF Transfer
  <2>2. ledger'.position = funded.position /\ UNCHANGED <<partiallyFilled, completedOrders>>
    BY <1>3 DEF TransferQuote, UpdateForTransfer, AddQuote, SetQuote
  <2> QED BY <2>1, <2>2 DEF SameExposure
<1>4. ASSUME NEW r \in Withdrawals, NEW gasFee, Withdraw(r, gasFee)
      PROVE  SameExposure(ledger, ledger') /\ UNCHANGED <<partiallyFilled, completedOrders>>
  <2> DEFINE funded == Funded(ledger, r.wallet)
  <2>1. SameExposure(ledger, funded)
    BY <1>0, RequestAssumption, FundedExposure DEF Withdrawal
  <2>2. ledger'.position = funded.position /\ UNCHANGED <<partiallyFilled, completedOrders>>
    BY <1>4 DEF Withdraw, UpdateForWithdrawal, AddQuote, SetQuote
  <2> QED BY <2>1, <2>2 DEF SameExposure
<1>5. ASSUME NEW buy \in Orders, NEW sell \in Orders, NEW base \in BaseQuantities,
             NEW quote \in QuoteQuantities, NEW makerSide \in {"Buy", "Sell"},
             NEW makerFee \in MakerFees, NEW takerFee \in TakerFees,
             ExecuteTrade([market |-> buy.market, base |-> base, quote |-> quote,
                           makerSide |-> makerSide, makerFee |-> makerFee,
                           takerFee |-> takerFee], buy, sell)
      PROVE  \E trade \in Trade : ExecuteTrade(trade, buy, sell)
  <2> DEFINE trade == [market |-> buy.market, base |-> base, quote |-> quote,
                       makerSide |-> makerSide, makerFee |-> makerFee, takerFee |-> takerFee]
  <2>1. /\ buy.market \in Markets /\ base \in Nat \ {0} /\ quote \in Nat \ {0}
        /\ makerFee \in Int /\ takerFee \in Nat
    BY TradingAssumption, RequestAssumption DEF Order
  <2>2. trade \in Trade
    BY <2>1 DEF Trade
  <2>3. ExecuteTrade(trade, buy, sell)
    BY <1>5
  <2> HIDE DEF trade
  <2> QED BY <2>2, <2>3
<1>6. CASE MarketAdminNext
  <2>1. ASSUME NEW w \in Wallets, NEW m \in Markets, ApplyOutstandingWalletFundingForMarket(w, m)
        PROVE  SameExposure(ledger, ledger') /\ UNCHANGED <<partiallyFilled, completedOrders>>
    <3>1. UNCHANGED <<partiallyFilled, completedOrders>>
      BY <2>1 DEF ApplyOutstandingWalletFundingForMarket, requestVars
    <3> QED BY <1>0, <2>1, <3>1, ApplyFundingForMarketExposure
  <2>2. CASE ~\E w \in Wallets, m \in Markets : ApplyOutstandingWalletFundingForMarket(w, m)
    <3>1. ledger' = ledger /\ UNCHANGED <<partiallyFilled, completedOrders>>
      BY <1>6, <2>2 DEF MarketAdminNext, ActivateMarket, DeactivateMarket, PriceNext,
         FundingNext, ParameterNext, PublishIndexPrice, OraclePriceChange,
         PublishFundingMultiplier, SetMarketOverrides, SetMarketDefaults,
         UnsetMarketOverridesForWallet, SetChainPropagationPeriod, requestVars
    <3> QED BY <1>0, <3>1
  <2> QED BY <2>1, <2>2
<1>7. CASE CustodyNext
  BY <1>1, <1>2, <1>3, <1>4, <1>7 DEF CustodyNext
<1>8. CASE TradingNext
  BY <1>1, <1>5, <1>8 DEF TradingNext
<1>9. QED
  BY <1>1, <1>6, <1>7, <1>8 DEF OrdinaryNext

\* At the start nothing is filled.
LEMMA NothingFilled ==
    ASSUME IsFiniteSet(OrderHashes), Init, NEW w \in Wallets, NEW m \in Markets
    PROVE  FillsOf(w, m) = 0
<1> DEFINE f == [h \in OrderHashes |-> SignedFills(w, m, h)]
           zero == [h \in OrderHashes |-> 0]
<1>1. ASSUME NEW h \in OrderHashes
      PROVE  zero[h] \in Int /\ f[h] = zero[h]
  <2>1. Filled(h) = 0
    BY DEF Init, Filled
  <2>2. -Filled(h) = 0
    <3>1. Filled(h) >= 0 /\ Filled(h) <= 0 /\ Filled(h) \in Int
      BY <2>1
    <3> QED BY <3>1
  <2> QED BY <2>1, <2>2 DEF SignedFills
<1>2. FillsOf(w, m) = SumFunctionOnSet(f, OrderHashes)
  BY DEF FillsOf
<1>3. SumFunctionOnSet(zero, OrderHashes) = 0
  BY SumOnZeros
<1> HIDE DEF f, zero
<1> QED BY <1>1, <1>2, <1>3, SumOnEqual

\* Whatever prices, parameters and invalidations do, and however orders are
\* filled in parts and submitted again, while positions are only traded each
\* wallet has the position its own signed orders add up to.
THEOREM PositionsAlwaysFollowOrders ==
    ASSUME IsFiniteSet(OrderHashes)
    PROVE  OrdinarySpec => []PositionsFollowOrders
<1>1. IsFiniteSet(OrderHashes)
  OBVIOUS
<1>2. Init => IInv /\ PositionsFollowOrders
  <2> SUFFICES ASSUME Init
               PROVE  IInv /\ PositionsFollowOrders
    OBVIOUS
  <2>1. ASSUME NEW w \in Wallets, NEW m \in Markets
        PROVE  ledger.position[w][m].balance
                 = InitialLedger.position[w][m].balance + FillsOf(w, m)
    <3>1. ledger = InitialLedger /\ InitialLedger.position[w][m].balance \in Int
      BY InitialAssumption DEF Init, Ledger, Position
    <3> QED BY <1>1, <3>1, NothingFilled
  <2> QED BY <2>1, InitSound DEF PositionsFollowOrders
<1>3. IInv /\ PositionsFollowOrders /\ [OrdinaryNext]_vars => IInv' /\ PositionsFollowOrders'
  <2> SUFFICES ASSUME IInv, PositionsFollowOrders, [OrdinaryNext]_vars
               PROVE  IInv' /\ PositionsFollowOrders'
    OBVIOUS
  <2>1. IInv'
    <3>1. [Next]_vars
      BY DEF OrdinaryNext, Next, WalletExitsNext
    <3> QED BY <3>1, NextSound
  <2>2. TypeOK /\ TypeOK'
    BY <2>1 DEF IInv
  <2>3. ASSUME NEW w \in Wallets, NEW m \in Markets
        PROVE  ledger'.position[w][m].balance
                 = InitialLedger.position[w][m].balance + FillsOf(w, m)'
    <3>1. /\ ledger.position[w][m].balance = InitialLedger.position[w][m].balance + FillsOf(w, m)
          /\ InitialLedger.position[w][m].balance \in Int
      BY InitialAssumption DEF PositionsFollowOrders, Ledger, Position
    <3>2. FillsOf(w, m) \in Int
      BY <1>1, <2>2, FillsType
    <3>3. ASSUME NEW trade \in Trade, NEW buy \in Orders, NEW sell \in Orders,
                 ExecuteTrade(trade, buy, sell)
          PROVE  ledger'.position[w][m].balance
                   = InitialLedger.position[w][m].balance + FillsOf(w, m)'
      <4>1. FillsOf(w, m)' = FillsOf(w, m) + Traded(trade, buy, sell, w, m)
        BY <1>1, <2>2, <3>3, TradeFillsPositions
      <4>2. ledger'.position[w][m].balance
              = ledger.position[w][m].balance + Traded(trade, buy, sell, w, m)
        BY <3>3, TradeMovesPositions
      <4>3. Traded(trade, buy, sell, w, m) \in Int
        BY DEF Traded, Trade
      <4> QED BY <3>1, <3>2, <4>1, <4>2, <4>3
    <3>4. ASSUME SameExposure(ledger, ledger'), UNCHANGED <<partiallyFilled, completedOrders>>
          PROVE  ledger'.position[w][m].balance
                   = InitialLedger.position[w][m].balance + FillsOf(w, m)'
      BY <3>1, <3>4, SameFills DEF SameExposure
    <3> QED BY <3>3, <3>4, FillsOrKeeps
  <2> QED BY <2>1, <2>3 DEF PositionsFollowOrders
<1>4. QED
  BY <1>2, <1>3, PTL DEF OrdinarySpec

-----------------------------------------------------------------------------
(* Managed accounts: what the Exchange and the providers know of each other. *)

\* Of a wallet that is no manager, no provider has any deposit.
PendingAgrees ==
    \A w \in Wallets : toldPending[w] = IF IsManaged(w) THEN pendingDepositQuantity[w] ELSE 0

\* The inductive invariant of the deposits.
PendingInv ==
    /\ toldPending = [w \in Wallets |-> toldPending[w]]
    /\ pendingDepositQuantity = [w \in Wallets |-> pendingDepositQuantity[w]]
    /\ managedAccountProvider = [w \in Wallets |-> managedAccountProvider[w]]
    /\ managedAccountProviders \subseteq Providers
    /\ PendingAgrees

\* The inductive invariant of the withdrawals: what was settled is remembered.
SettledInv ==
    /\ toldResolved = [r \in ManagedWithdrawals |-> toldResolved[r]]
    /\ \A r \in ManagedWithdrawals :
          toldResolved[r] = IF r \in completedManagedWithdrawals THEN 1 ELSE 0

-----------------------------------------------------------------------------
(* What a step may change. *)

\* What nobody can tell a provider of: only the wallet's own deposits move.
PendingMovesOnlyOf(w) ==
    /\ pendingDepositQuantity' = [v \in Wallets |-> pendingDepositQuantity'[v]]
    /\ \A v \in Wallets \ {w} : pendingDepositQuantity'[v] = pendingDepositQuantity[v]

\* The deposits, transfers and exits of one wallet touch its own pending deposits only.
LEMMA OtherWalletsMove ==
    ASSUME PendingInv, NEW w \in Wallets, ForOtherWallets(w)
    PROVE  \/ ~IsManaged(w) /\ PendingMovesOnlyOf(w)
           \/ UNCHANGED pendingDepositQuantity
<1> USE DEF PendingInv, PendingMovesOnlyOf
<1>1. ASSUME NEW source \in Wallets, NEW units \in DepositUnits, NEW tokenFee \in TokenFees,
             Deposit(source, w, units, tokenFee)
      PROVE  PendingMovesOnlyOf(w)
  BY <1>1 DEF Deposit
<1>2. ASSUME NEW quantity, ApplyPendingDeposits(w, quantity)
      PROVE  PendingMovesOnlyOf(w)
  BY <1>2 DEF ApplyPendingDeposits
<1>3. ASSUME NEW r \in Withdrawals, NEW gasFee \in GasFees, Withdraw(r, gasFee)
      PROVE  UNCHANGED pendingDepositQuantity
  BY <1>3 DEF Withdraw
<1>4. ASSUME ClearWalletExit(w) \/ SetExitFundWallet(w)
      PROVE  UNCHANGED pendingDepositQuantity
  BY <1>4 DEF ClearWalletExit, SetExitFundWallet, custodyVars
<1>5. ASSUME WithdrawExit(w) \/ WithdrawExitAdmin(w)
      PROVE  PendingMovesOnlyOf(w)
  BY <1>5 DEF WithdrawExit, WithdrawExitAdmin, WithdrawPositions
<1>6. ASSUME NEW rounding, LiquidateWalletInMaintenance(w, rounding)
                             \/ LiquidateWalletInMaintenanceDuringSystemRecovery(w, rounding)
      PROVE  UNCHANGED pendingDepositQuantity
  BY <1>6 DEF LiquidateWalletInMaintenance, LiquidateWalletInMaintenanceDuringSystemRecovery,
              custodyVars
<1>7. ASSUME NEW counterparty, NEW m, NEW base, NEW quote,
             DeleverageInMaintenanceAcquisition(w, counterparty, m, base, quote)
      PROVE  UNCHANGED pendingDepositQuantity
  BY <1>7 DEF DeleverageInMaintenanceAcquisition, custodyVars
<1>8. QED
  BY <1>1, <1>2, <1>3, <1>4, <1>5, <1>6, <1>7 DEF ForOtherWallets

\* The operations that know nothing of managed accounts leave pending deposits alone.
LEMMA AnyWalletKeeps ==
    ASSUME ForAnyWallet
    PROVE  UNCHANGED pendingDepositQuantity
<1> USE DEF custodyVars
<1>1. ASSUME NEW isEnabled, SetDepositIndex \/ SetDepositEnabled(isEnabled)
      PROVE  UNCHANGED pendingDepositQuantity
  BY <1>1 DEF SetDepositIndex, SetDepositEnabled
<1>2. ASSUME NEW t, NEW gasFee, TransferQuote(t, gasFee)
      PROVE  UNCHANGED pendingDepositQuantity
  BY <1>2 DEF TransferQuote
<1>3. ASSUME TradingNext
      PROVE  UNCHANGED pendingDepositQuantity
  <2>1. ASSUME NEW trade, NEW buy, NEW sell, ExecuteTrade(trade, buy, sell)
        PROVE  UNCHANGED pendingDepositQuantity
    BY <2>1 DEF ExecuteTrade
  <2>2. ASSUME NEW w, NEW timestamp, InvalidateNonce(w, timestamp)
        PROVE  UNCHANGED pendingDepositQuantity
    BY <2>2 DEF InvalidateNonce
  <2>3. QED
    BY <1>3, <2>1, <2>2 DEF TradingNext
<1>4. ASSUME NEW w, NEW rounding, LiquidateWalletExit(w, rounding)
      PROVE  UNCHANGED pendingDepositQuantity
  BY <1>4 DEF LiquidateWalletExit
<1>5. ASSUME NEW w, NEW m, NEW quote, NEW fee,
             LiquidatePositionBelowMinimum(w, m, quote)
               \/ LiquidatePositionInDeactivatedMarket(w, m, quote, fee)
      PROVE  UNCHANGED pendingDepositQuantity
  BY <1>5 DEF LiquidatePositionBelowMinimum, LiquidatePositionInDeactivatedMarket
<1>6. ASSUME NEW w, NEW counterparty, NEW m, NEW base, NEW quote,
             \/ DeleverageExitAcquisition(w, counterparty, m, base, quote)
             \/ DeleverageInsuranceFundClosure(counterparty, m, base, quote)
             \/ DeleverageExitFundClosure(counterparty, m, base, quote)
      PROVE  UNCHANGED pendingDepositQuantity
  BY <1>6 DEF DeleverageExitAcquisition, DeleverageInsuranceFundClosure, DeleverageExitFundClosure
<1>7. ASSUME NEW w, ExitWallet(w) \/ WithdrawExitFund
      PROVE  UNCHANGED pendingDepositQuantity
  BY <1>7 DEF ExitWallet, WithdrawExitFund
<1>8. ASSUME MarketAdminNext \/ Tick
      PROVE  UNCHANGED pendingDepositQuantity
  BY <1>8 DEF MarketAdminNext, Tick, ActivateMarket, DeactivateMarket, PriceNext, PublishIndexPrice,
              OraclePriceChange, FundingNext, PublishFundingMultiplier,
              ApplyOutstandingWalletFundingForMarket, ParameterNext, SetMarketOverrides,
              SetMarketDefaults, UnsetMarketOverridesForWallet, SetChainPropagationPeriod
<1>9. QED
  BY <1>1, <1>2, <1>3, <1>4, <1>5, <1>6, <1>7, <1>8 DEF ForAnyWallet

-----------------------------------------------------------------------------
(* Deposits. *)

\* Association, deposits and their application move both sides together.
LEMMA DepositsAgree ==
    ASSUME PendingInv, NEW w \in Wallets,
           \/ \E provider \in Providers : AssociateManagerWalletWithManagedAccount(provider, w)
           \/ \E depositor \in Wallets, units \in DepositUnits, tokenFee \in TokenFees :
                 DepositToManagedAccount(depositor, w, units, tokenFee)
           \/ \E quantity : ApplyPendingDepositToManagedAccount(w, quantity)
    PROVE  PendingInv'
<1> USE DEF PendingInv, PendingAgrees, IsManaged
<1>1. ASSUME NEW provider \in Providers, AssociateManagerWalletWithManagedAccount(provider, w)
      PROVE  PendingInv'
  BY <1>1 DEF AssociateManagerWalletWithManagedAccount, vars, custodyVars, toldVars
<1>2. ASSUME NEW depositor \in Wallets, NEW units \in DepositUnits, NEW tokenFee \in TokenFees,
             DepositToManagedAccount(depositor, w, units, tokenFee)
      PROVE  PendingInv'
  <2> DEFINE received == (units - tokenFee) * UnitSize
  <2>1. /\ managedAccountProvider[w] # None
        /\ pendingDepositQuantity' = [pendingDepositQuantity EXCEPT ![w] = @ + received]
        /\ toldPending' = [toldPending EXCEPT ![w] = @ + received]
        /\ UNCHANGED providerVars
    BY <1>2, ManagedAssumption DEF DepositToManagedAccount, Deposit
  <2> HIDE DEF received
  <2>2. QED
    BY <2>1 DEF providerVars
<1>3. ASSUME NEW quantity, ApplyPendingDepositToManagedAccount(w, quantity)
      PROVE  PendingInv'
  <2>1. /\ managedAccountProvider[w] # None
        /\ pendingDepositQuantity' = [pendingDepositQuantity EXCEPT ![w] = @ - quantity]
        /\ toldPending' = [toldPending EXCEPT ![w] = @ - quantity]
        /\ UNCHANGED providerVars
    BY <1>3 DEF ApplyPendingDepositToManagedAccount, ApplyPendingDeposits
  <2>2. QED
    BY <2>1 DEF providerVars
<1>4. QED
  BY <1>1, <1>2, <1>3

\* However a manager wallet's deposits leave the Exchange, both sides forget them.
LEMMA RefundsAgree ==
    ASSUME PendingInv, NEW w \in Wallets, managedAccountProvider[w] # None,
           pendingDepositQuantity' = [pendingDepositQuantity EXCEPT ![w] = 0],
           toldPending' = [toldPending EXCEPT ![w] = 0],
           UNCHANGED providerVars
    PROVE  PendingInv'
BY DEF PendingInv, PendingAgrees, IsManaged, providerVars

\* Where neither side moves they go on agreeing.
LEMMA NeitherSideMoves ==
    ASSUME PendingInv, UNCHANGED <<pendingDepositQuantity, toldPending, providerVars>>
    PROVE  PendingInv'
BY DEF PendingInv, PendingAgrees, IsManaged, providerVars

\* Every step of the managed accounts keeps the two sides in agreement.
LEMMA PendingNext ==
    ASSUME PendingInv, [ManagedNext]_allVars
    PROVE  PendingInv'
<1>1. ASSUME NEW w \in Wallets, NEW rounding,
             \/ LiquidateManagerWalletInMaintenance(w, rounding)
             \/ LiquidateManagerWalletInMaintenanceDuringSystemRecovery(w, rounding)
      PROVE  PendingInv'
  BY <1>1, RefundsAgree
     DEF LiquidateManagerWalletInMaintenance, LiquidateManagerWalletInMaintenanceDuringSystemRecovery,
         RefundPendingDeposits, IsManaged
<1>2. ASSUME NEW w \in Wallets, NEW counterparty, NEW m, NEW base, NEW quote,
             DeleverageManagerInMaintenanceAcquisition(w, counterparty, m, base, quote)
      PROVE  PendingInv'
  BY <1>2, RefundsAgree
     DEF DeleverageManagerInMaintenanceAcquisition, RefundPendingDeposits, IsManaged
<1>3. ASSUME NEW w \in Wallets, NEW quantity, WithdrawExitFromManagedAccount(w, quantity)
      PROVE  PendingInv'
  <2>1. managedAccountProvider[w] # None
    BY <1>3, ManagedAssumption DEF WithdrawExitFromManagedAccount, PendingInv
  <2>2. /\ pendingDepositQuantity' = [pendingDepositQuantity EXCEPT ![w] = 0]
        /\ toldPending' = [toldPending EXCEPT ![w] = 0]
        /\ UNCHANGED providerVars
    BY <1>3 DEF WithdrawExitFromManagedAccount
  <2>3. QED
    BY <2>1, <2>2, RefundsAgree
<1>4. ASSUME NEW r, NEW grossQuantity, NEW gasFee,
             \/ ApplyPendingWithdrawalFromManagedAccount(r, grossQuantity, gasFee)
             \/ CancelPendingWithdrawalFromManagedAccount(r, gasFee)
      PROVE  PendingInv'
  BY <1>4, NeitherSideMoves
     DEF ApplyPendingWithdrawalFromManagedAccount, CancelPendingWithdrawalFromManagedAccount,
         SettleManagedWithdrawal
<1>5. ASSUME NEW providers \in ProviderLists, SetManagedAccountProviders(providers)
      PROVE  PendingInv'
  BY <1>5, ManagedAssumption
     DEF SetManagedAccountProviders, PendingInv, PendingAgrees, IsManaged, vars, custodyVars, toldVars
<1>6. ASSUME ForAnyWallet, UNCHANGED managedVars
      PROVE  PendingInv'
  BY <1>6, AnyWalletKeeps, NeitherSideMoves DEF managedVars, toldVars
<1>7. ASSUME NEW w \in Wallets, ForOtherWallets(w), UNCHANGED managedVars
      PROVE  PendingInv'
  <2>1. UNCHANGED <<toldPending, providerVars>>
    BY <1>7 DEF managedVars, toldVars
  <2>2. CASE ~IsManaged(w) /\ PendingMovesOnlyOf(w)
    BY <2>1, <2>2 DEF PendingInv, PendingAgrees, IsManaged, PendingMovesOnlyOf, providerVars
  <2>3. CASE UNCHANGED pendingDepositQuantity
    BY <2>1, <2>3, NeitherSideMoves
  <2>4. QED
    BY <1>7, <2>2, <2>3, OtherWalletsMove
<1>8. ASSUME UNCHANGED allVars
      PROVE  PendingInv'
  BY <1>8, NeitherSideMoves DEF allVars, vars, custodyVars, managedVars, toldVars
<1>9. ASSUME ManagedAccountsNext
      PROVE  PendingInv'
  BY <1>1, <1>2, <1>3, <1>4, <1>5, <1>9, DepositsAgree DEF ManagedAccountsNext
<1>10. QED
  BY <1>6, <1>7, <1>8, <1>9 DEF ManagedNext

\* Theorem.  What the Exchange holds as pending for a manager wallet is what its
\* provider holds as not yet applied, whatever happens to either.
THEOREM ProvidersAlwaysKnowPendingDeposits == ManagedSpec => []ProvidersKnowPendingDeposits
<1>1. ManagedInit => PendingInv
  BY ManagedAssumption DEF ManagedInit, Init, PendingInv, PendingAgrees, IsManaged
<1>2. PendingInv /\ [ManagedNext]_allVars => PendingInv'
  BY PendingNext
<1>3. PendingInv => ProvidersKnowPendingDeposits
  BY DEF PendingInv, PendingAgrees, ProvidersKnowPendingDeposits
<1>4. QED
  BY <1>1, <1>2, <1>3, PTL DEF ManagedSpec

-----------------------------------------------------------------------------
(* Withdrawals. *)

\* A payment or cancellation is of a withdrawal that was not settled before, and
\* no other step settles one.
LEMMA SettledNext ==
    ASSUME SettledInv, [ManagedNext]_allVars
    PROVE  SettledInv'
<1> USE DEF SettledInv
<1>1. ASSUME NEW r \in ManagedWithdrawals, NEW grossQuantity, NEW gasFee,
             SettleManagedWithdrawal(r, grossQuantity, gasFee)
      PROVE  SettledInv'
  <2>1. /\ r \notin completedManagedWithdrawals
        /\ completedManagedWithdrawals' = completedManagedWithdrawals \cup {r}
        /\ toldResolved' = [toldResolved EXCEPT ![r] = @ + 1]
    BY <1>1 DEF SettleManagedWithdrawal, CanSettle, IsPending
  <2>2. QED
    BY <2>1
<1>2. ASSUME UNCHANGED <<completedManagedWithdrawals, toldResolved>>
      PROVE  SettledInv'
  BY <1>2
<1>3. ASSUME NEW r \in ManagedWithdrawals, NEW grossQuantity, NEW gasFee,
             \/ ApplyPendingWithdrawalFromManagedAccount(r, grossQuantity, gasFee)
             \/ CancelPendingWithdrawalFromManagedAccount(r, gasFee)
      PROVE  SettledInv'
  BY <1>1, <1>3 DEF ApplyPendingWithdrawalFromManagedAccount, CancelPendingWithdrawalFromManagedAccount
<1>4. ASSUME NEW w, NEW provider, NEW depositor, NEW units, NEW tokenFee, NEW quantity,
             \/ AssociateManagerWalletWithManagedAccount(provider, w)
             \/ DepositToManagedAccount(depositor, w, units, tokenFee)
             \/ ApplyPendingDepositToManagedAccount(w, quantity)
             \/ WithdrawExitFromManagedAccount(w, quantity)
             \/ SetManagedAccountProviders(provider)
      PROVE  SettledInv'
  BY <1>2, <1>4 DEF AssociateManagerWalletWithManagedAccount, DepositToManagedAccount,
       ApplyPendingDepositToManagedAccount, WithdrawExitFromManagedAccount,
       SetManagedAccountProviders, toldVars
<1>5. ASSUME NEW w, NEW rounding, NEW counterparty, NEW m, NEW base, NEW quote,
             \/ LiquidateManagerWalletInMaintenance(w, rounding)
             \/ LiquidateManagerWalletInMaintenanceDuringSystemRecovery(w, rounding)
             \/ DeleverageManagerInMaintenanceAcquisition(w, counterparty, m, base, quote)
      PROVE  SettledInv'
  BY <1>2, <1>5 DEF LiquidateManagerWalletInMaintenance,
       LiquidateManagerWalletInMaintenanceDuringSystemRecovery,
       DeleverageManagerInMaintenanceAcquisition
<1>6. ASSUME UNCHANGED managedVars \/ UNCHANGED allVars
      PROVE  SettledInv'
  BY <1>2, <1>6 DEF allVars, managedVars, toldVars
<1>7. ASSUME ManagedAccountsNext
      PROVE  SettledInv'
  BY <1>3, <1>4, <1>5, <1>7 DEF ManagedAccountsNext
<1>8. QED
  BY <1>6, <1>7 DEF ManagedNext

\* Theorem.  No withdrawal from a managed account is paid twice, cancelled
\* twice, or both paid and cancelled.
THEOREM WithdrawalsSettleAtMostOnce == ManagedSpec => []ManagedWithdrawalsSettleOnce
<1>1. ManagedInit => SettledInv
  BY DEF ManagedInit, SettledInv
<1>2. SettledInv /\ [ManagedNext]_allVars => SettledInv'
  BY SettledNext
<1>3. SettledInv => ManagedWithdrawalsSettleOnce
  BY DEF SettledInv, ManagedWithdrawalsSettleOnce
<1>4. QED
  BY <1>1, <1>2, <1>3, PTL DEF ManagedSpec

-----------------------------------------------------------------------------
(* The Exchange with managed accounts. *)

\* Where manager wallets are not involved the Exchange takes one of its own steps.
LEMMA OrdinaryStep ==
    ASSUME ForAnyWallet \/ \E w \in Wallets : ForOtherWallets(w)
    PROVE  Next
<1>1. ASSUME ForAnyWallet
      PROVE  Next
  BY <1>1 DEF ForAnyWallet, Next, CustodyNext, LiquidationNext, DeleveragingNext, WalletExitsNext
<1>2. ASSUME NEW w \in Wallets, ForOtherWallets(w)
      PROVE  Next
  BY <1>2 DEF ForOtherWallets, Next, CustodyNext, LiquidationNext, DeleveragingNext, WalletExitsNext
<1>3. QED
  BY <1>1, <1>2

\* A settlement leaves the ledger sound, whatever the dispatcher says the shares are worth.
LEMMA SettlementSound ==
    ASSUME IInv, NEW r \in ManagedWithdrawals, NEW grossQuantity \in Nat, NEW gasFee \in GasFees,
           SettleManagedWithdrawal(r, grossQuantity, gasFee)
    PROVE  SoundLedger(ledger')
<1>1. r.managerWallet \in Wallets /\ gasFee \in Int /\ FeeWallet \in Wallets
  BY ManagedAssumption, CustodyAssumption, ParameterAssumption DEF ManagedWithdrawal
<1>2. SoundLedger(Funded(ledger, r.managerWallet))
  BY <1>1, LedgerSound, FundedSound DEF IInv
<1>3. QED
  BY <1>1, <1>2, UpdateForWithdrawalSound DEF SettleManagedWithdrawal

\* A payment is covered by the Custodian.
LEMMA PaymentStep ==
    ASSUME IInv, NEW r \in ManagedWithdrawals, NEW grossQuantity \in GrossQuantities,
           NEW gasFee \in GasFees,
           ApplyPendingWithdrawalFromManagedAccount(r, grossQuantity, gasFee)
    PROVE  IInv'
<1> DEFINE units == (grossQuantity - gasFee) \div UnitSize
<1>1. units \in Int
  BY ManagedAssumption, CustodyAssumption, ParameterAssumption
<1>2. units <= custodianBalance /\ custodianBalance' = custodianBalance - units
  BY DEF ApplyPendingWithdrawalFromManagedAccount
<1>3. custodianBalance' \in Nat
  <2> HIDE DEF units
  <2> QED BY <1>1, <1>2 DEF IInv, TypeOK
<1>4. SoundLedger(ledger')
  BY SettlementSound, ManagedAssumption DEF ApplyPendingWithdrawalFromManagedAccount
<1>5. UNCHANGED <<pendingDepositQuantity, depositIndex, isDepositEnabled, walletExits, fundVars,
                  marketVars, requestVars, nonceInvalidations, clockVars>>
  BY DEF ApplyPendingWithdrawalFromManagedAccount, SettleManagedWithdrawal
<1>6. QED
  BY <1>3, <1>4, <1>5 DEF IInv, TypeOK, OpenMarketsAreTracked, SoundLedger, fundVars, marketVars,
     requestVars, clockVars

\* A cancellation moves only the fee.
LEMMA CancellationStep ==
    ASSUME IInv, NEW r \in ManagedWithdrawals, NEW gasFee \in GasFees,
           CancelPendingWithdrawalFromManagedAccount(r, gasFee)
    PROVE  IInv'
<1>1. SoundLedger(ledger')
  BY SettlementSound, CustodyAssumption DEF CancelPendingWithdrawalFromManagedAccount
<1>2. UNCHANGED <<custodianBalance, pendingDepositQuantity, depositIndex, isDepositEnabled,
                  walletExits, fundVars, marketVars, requestVars, nonceInvalidations, clockVars>>
  BY DEF CancelPendingWithdrawalFromManagedAccount, SettleManagedWithdrawal
<1>3. QED
  BY <1>1, <1>2 DEF IInv, TypeOK, OpenMarketsAreTracked, SoundLedger, fundVars, marketVars,
     requestVars, clockVars

\* A refund is covered by the Custodian; with a sound ledger and a time on the
\* Exit Fund's clock, the types are kept.
LEMMA RefundStep ==
    ASSUME IInv, NEW w \in Wallets, RefundPendingDeposits(w), SoundLedger(ledger'),
           exitFundPositionOpenedAt' \in Nat,
           UNCHANGED <<walletExits, exitFundWallet, marketVars, requestVars, nonceInvalidations,
                       clockVars>>
    PROVE  IInv'
<1> DEFINE units == pendingDepositQuantity[w] \div UnitSize
<1>1. units \in Int
  BY ParameterAssumption DEF IInv, TypeOK
<1>2. units <= custodianBalance /\ custodianBalance' = custodianBalance - units
  BY DEF RefundPendingDeposits
<1>3. custodianBalance' \in Nat
  <2> HIDE DEF units
  <2> QED BY <1>1, <1>2 DEF IInv, TypeOK
<1>4. pendingDepositQuantity' \in [Wallets -> Nat]
  BY DEF RefundPendingDeposits, IInv, TypeOK
<1>5. UNCHANGED <<depositIndex, isDepositEnabled>>
  BY DEF RefundPendingDeposits
<1>6. QED
  BY <1>3, <1>4, <1>5 DEF IInv, TypeOK, OpenMarketsAreTracked, SoundLedger, marketVars,
     requestVars, clockVars

\* Liquidations of a manager.
LEMMA ManagerLiquidationStep ==
    ASSUME IInv, NEW w \in Wallets, NEW rounding \in [Markets -> Roundings],
           \/ LiquidateManagerWalletInMaintenance(w, rounding)
           \/ LiquidateManagerWalletInMaintenanceDuringSystemRecovery(w, rounding)
    PROVE  IInv'
<1>1. /\ InsuranceFund \in Wallets /\ exitFundWallet \in Wallets
      /\ exitFundPositionOpenedAt \in Nat
  BY ParameterAssumption DEF IInv, TypeOK
<1>2. CASE LiquidateManagerWalletInMaintenance(w, rounding)
  <2>1. SoundLedger(ledger')
    BY <1>1, <1>2, LiquidateAtBankruptcyPriceSound DEF LiquidateManagerWalletInMaintenance
  <2>2. QED
    BY <1>1, <1>2, <2>1, RefundStep DEF LiquidateManagerWalletInMaintenance, fundVars
<1>3. CASE LiquidateManagerWalletInMaintenanceDuringSystemRecovery(w, rounding)
  <2>1. SoundLedger(ledger')
    BY <1>1, <1>3, LiquidateAtBankruptcyPriceSound
       DEF LiquidateManagerWalletInMaintenanceDuringSystemRecovery
  <2>2. exitFundPositionOpenedAt' \in Nat
    BY <1>3, ClockType DEF LiquidateManagerWalletInMaintenanceDuringSystemRecovery, IInv
  <2>3. QED
    BY <1>3, <2>1, <2>2, RefundStep DEF LiquidateManagerWalletInMaintenanceDuringSystemRecovery
<1>4. QED
  BY <1>2, <1>3

\* A manager loses its last position to deleveraging.
LEMMA ManagerDeleverageStep ==
    ASSUME IInv, NEW w \in Wallets, NEW counterparty \in Wallets, NEW m \in Markets,
           NEW base \in DeleverageQuantities, NEW quote \in DeleverageQuotes,
           DeleverageManagerInMaintenanceAcquisition(w, counterparty, m, base, quote)
    PROVE  IInv'
<1>1. exitFundPositionOpenedAt \in Nat
  BY DEF IInv, TypeOK
<1>2. SoundLedger(ledger')
  BY DeleverageSound DEF DeleverageManagerInMaintenanceAcquisition
<1>3. QED
  BY <1>1, <1>2, RefundStep DEF DeleverageManagerInMaintenanceAcquisition, fundVars

\* The Exit Fund takes over the positions of an exited manager, which keeps what
\* it is not asked for.
LEMMA ManagerExitStep ==
    ASSUME IInv, NEW w \in Wallets, NEW quantity \in ExitQuantities,
           WithdrawExitFromManagedAccount(w, quantity)
    PROVE  IInv'
<1> DEFINE funded    == Funded(ledger, w)
           prices    == ExitQuoteQuantities(funded, w, oraclePrice, FieldsFor(w))
           change    == AcquisitionQuoteChange(funded, w, prices)
           acquired  == AddQuote(AcquirePositions(funded, w, exitFundWallet, prices, Published),
                                 exitFundWallet, change)
           remaining == RemainingQuote(funded, w, change)
           left      == Withdrawable(w, remaining) - quantity
           units     == quantity \div UnitSize
           after     == SetQuote(acquired, w, left)
<1>1. /\ exitFundWallet \in Wallets /\ oraclePrice \in [Markets -> Nat]
      /\ Published \in [Markets -> Nat] /\ FieldsFor(w) \in [Markets -> MarketFields]
  BY ParameterTypes DEF IInv, TypeOK
<1>2. SoundLedger(funded)
  BY LedgerSound, FundedSound DEF IInv
<1>3. prices \in [Markets -> Int]
  <2> HIDE DEF funded
  <2> QED BY <1>1, <1>2, ClosingQuotesType
<1>4. change \in Int
  <2> HIDE DEF funded, prices
  <2> QED BY <1>2, <1>3, AcquisitionQuoteChangeType
<1>5. SoundLedger(acquired)
  <2> HIDE DEF funded, prices, change
  <2> QED BY <1>1, <1>2, <1>3, <1>4, AcquirePositionsSound, AddQuoteSound
<1>6. left \in Int
  <2>1. remaining \in Int
    <3> HIDE DEF funded, change
    <3> QED BY <1>2, <1>4 DEF RemainingQuote, SoundLedger, Ledger
  <2> HIDE DEF remaining
  <2>2. QED
    BY <2>1, ManagedAssumption DEF IInv, TypeOK, Withdrawable
<1>7. SoundLedger(after)
  <2> HIDE DEF acquired, left
  <2> QED BY <1>5, <1>6, SetQuoteSound
<1>8. units \in Int
  BY ManagedAssumption, ParameterAssumption
<1>9. /\ units <= custodianBalance /\ custodianBalance' = custodianBalance - units
      /\ ledger' = after
      /\ pendingDepositQuantity' = [pendingDepositQuantity EXCEPT ![w] = 0]
      /\ exitFundPositionOpenedAt' = NextExitFundPositionOpenedAt(after)
      /\ UNCHANGED <<depositIndex, isDepositEnabled, walletExits, exitFundWallet, marketVars,
                     requestVars, nonceInvalidations, clockVars>>
  BY DEF WithdrawExitFromManagedAccount
<1> HIDE DEF units, after
<1>10. custodianBalance' \in Nat
  BY <1>8, <1>9 DEF IInv, TypeOK
<1>11. pendingDepositQuantity' \in [Wallets -> Nat] /\ exitFundPositionOpenedAt' \in Nat
  BY <1>9, ClockType DEF IInv, TypeOK
<1>12. QED
  BY <1>7, <1>9, <1>10, <1>11 DEF IInv, TypeOK, OpenMarketsAreTracked, SoundLedger, marketVars,
     requestVars, clockVars

\* No step of the Exchange with managed accounts breaks its invariant.
LEMMA ManagedStepSound ==
    ASSUME IInv, [ManagedNext]_allVars
    PROVE  IInv'
<1>1. ASSUME NEW depositor \in Wallets, NEW manager \in Wallets, NEW units \in DepositUnits,
             NEW tokenFee \in TokenFees, DepositToManagedAccount(depositor, manager, units, tokenFee)
      PROVE  IInv'
  BY <1>1, DepositStep DEF DepositToManagedAccount
<1>2. ASSUME NEW w \in Wallets, NEW quantity \in 1..pendingDepositQuantity[w],
             ApplyPendingDepositToManagedAccount(w, quantity)
      PROVE  IInv'
  BY <1>2, ApplyPendingDepositsStep DEF ApplyPendingDepositToManagedAccount
<1>3. ASSUME UNCHANGED vars
      PROVE  IInv'
  BY <1>3, NextSound
<1>4. ASSUME NEW provider, NEW w, AssociateManagerWalletWithManagedAccount(provider, w)
                                   \/ SetManagedAccountProviders(provider)
      PROVE  IInv'
  BY <1>3, <1>4 DEF AssociateManagerWalletWithManagedAccount, SetManagedAccountProviders
<1>5. ASSUME ManagedAccountsNext
      PROVE  IInv'
  BY <1>1, <1>2, <1>4, <1>5, PaymentStep, CancellationStep, ManagerLiquidationStep,
     ManagerDeleverageStep, ManagerExitStep
     DEF ManagedAccountsNext
<1>6. QED
  BY <1>3, <1>5, OrdinaryStep, NextSound DEF ManagedNext, allVars

\* Theorem.  With manager wallets too, whose withdrawals, liquidations and exits
\* go their own ways, the open markets of a wallet are those it has positions in.
THEOREM OpenMarketsTrackedWithManagers == ManagedSpec => [](TypeOK /\ OpenMarketsAreTracked)
<1>1. ManagedInit => IInv
  BY InitSound DEF ManagedInit
<1>2. IInv /\ [ManagedNext]_allVars => IInv'
  BY ManagedStepSound
<1>3. IInv => TypeOK /\ OpenMarketsAreTracked
  BY DEF IInv
<1>4. QED
  BY <1>1, <1>2, <1>3, PTL DEF ManagedSpec

\* What a provider is paid for an exited manager, and what it leaves, is what an
\* exit would have paid.
LEMMA ManagerExitPayout ==
    ASSUME IInv, NEW w \in Wallets \ {exitFundWallet}, NEW quantity \in ExitQuantities,
           WithdrawExitFromManagedAccount(w, quantity)
    PROVE  quantity + ledger'.quote[w] + pendingDepositQuantity'[w]
             <= pendingDepositQuantity[w] + Cardinality(ledger.open[w])
                  + Larger(0, TotalAccountValue(Funded(ledger, w), w, oraclePrice))
<1> DEFINE funded    == Funded(ledger, w)
           prices    == ExitQuoteQuantities(funded, w, oraclePrice, FieldsFor(w))
           change    == AcquisitionQuoteChange(funded, w, prices)
           acquired  == AddQuote(AcquirePositions(funded, w, exitFundWallet, prices, Published),
                                 exitFundWallet, change)
           remaining == RemainingQuote(funded, w, change)
           left      == Withdrawable(w, remaining) - quantity
           positions == Cardinality(ledger.open[w])
           worth     == Larger(0, TotalAccountValue(funded, w, oraclePrice))
           kept      == IF ToleratesAsZero(w, remaining) THEN 0 ELSE remaining
           pending   == pendingDepositQuantity[w]
<1>1. /\ remaining \in Int /\ positions \in Nat /\ worth \in Nat
      /\ kept <= positions + worth
  BY ExitLeavesAtMost
<1>2. /\ ledger' = SetQuote(acquired, w, left)
      /\ pendingDepositQuantity' = [pendingDepositQuantity EXCEPT ![w] = 0]
  BY DEF WithdrawExitFromManagedAccount
<1>3. pending \in Nat /\ quantity \in Nat /\ pendingDepositQuantity'[w] = 0
  BY <1>2, ManagedAssumption DEF IInv, TypeOK
<1>4. ledger'.quote[w] = left
  <2>1. acquired.quote = [funded.quote EXCEPT ![exitFundWallet] =
                                              funded.quote[exitFundWallet] + change]
    BY DEF AddQuote, SetQuote, AcquirePositions, SetPositions
  <2>2. w \in DOMAIN funded.quote
    <3>1. SoundLedger(funded)
      BY LedgerSound, FundedSound DEF IInv
    <3> QED BY <3>1 DEF SoundLedger, Ledger
  <2> HIDE DEF acquired, left, funded, change
  <2>3. w \in DOMAIN acquired.quote
    BY <2>1, <2>2
  <2> QED BY <1>2, <2>3 DEF SetQuote
<1> HIDE DEF funded, remaining, positions, worth
<1>5. kept \in Int
  BY <1>1
<1>6. left = kept + pending - quantity
  <2>1. Withdrawable(w, remaining) = kept + pending
    BY DEF Withdrawable
  <2> HIDE DEF kept, pending
  <2>2. Withdrawable(w, remaining) \in Int /\ quantity \in Int
    BY <1>3, <1>5, <2>1
  <2> QED BY <1>3, <1>5, <2>1, <2>2
<1> HIDE DEF left, kept, pending
<1>7. quantity + left + 0 <= pending + positions + worth
  BY <1>1, <1>3, <1>5, <1>6
<1>8. QED
  BY <1>3, <1>4, <1>7 DEF funded, positions, worth, pending

\* Theorem.  However a provider divides the payments, an exited manager wallet
\* gives it no more than its pending deposits and what its account is worth.
THEOREM ManagedExitsPayAtMostEquity == ManagedSpec => ManagedExitPaysAtMostEquity
<1>1. ManagedSpec => []IInv
  BY OpenMarketsTrackedWithManagers DEF IInv
<1> DEFINE Step == \A w \in Wallets \ {exitFundWallet}, quantity \in ExitQuantities :
                     WithdrawExitFromManagedAccount(w, quantity) =>
                       quantity + ledger'.quote[w] + pendingDepositQuantity'[w]
                         <= pendingDepositQuantity[w] + Cardinality(ledger.open[w])
                              + Larger(0, TotalAccountValue(Funded(ledger, w), w, oraclePrice))
<1>2. IInv => Step
  BY ManagerExitPayout
<1>3. QED
  BY <1>1, <1>2, PTL DEF ManagedSpec, ManagedExitPaysAtMostEquity

-----------------------------------------------------------------------------
(* Funding multipliers stored by four. *)

Quartet == [0..3 -> Int]

\* No multiplier is taken for a free place.
Storable(h) == h \in Seq(Int) /\ \A i \in 1..Len(h) : h[i] # EMPTY

\* The first n multipliers of h fill as many quartets as they need, in order.
Stores(s, h, n) ==
    /\ s \in Seq(Quartet)
    /\ n <= 4 * Len(s) /\ 4 * Len(s) < n + 4
    /\ \A k \in 1..Len(s), offset \in 0..3 :
          s[k][offset] = IF 4 * (k - 1) + offset + 1 <= n
                         THEN h[4 * (k - 1) + offset + 1] ELSE EMPTY

\* What the last quartet holds.
LEMMA LastQuartet ==
    ASSUME NEW h, Storable(h), NEW n \in 1..Len(h), NEW s, Stores(s, h, n)
    PROVE  \E r \in 0..3 :
              /\ Len(s) \in Nat \ {0} /\ n = 4 * (Len(s) - 1) + r + 1
              /\ s[Len(s)] \in Quartet
              /\ \A offset \in 0..3 : (s[Len(s)][offset] = EMPTY) <=> (offset > r)
<1>1. n \in Nat \ {0} /\ Len(s) \in Nat /\ Len(h) \in Nat
  BY LenProperties DEF Storable, Stores
<1>2. Len(s) \in Nat \ {0} /\ n - 4 * (Len(s) - 1) - 1 \in 0..3
  <2>1. n <= 4 * Len(s) /\ 4 * Len(s) < n + 4
    BY DEF Stores
  <2> QED BY <1>1, <2>1
<1> DEFINE L == Len(s)
           r == n - 4 * (L - 1) - 1
<1>3. L \in Nat \ {0} /\ r \in 0..3 /\ n = 4 * (L - 1) + r + 1
  BY <1>1, <1>2
<1>4. s[L] \in Quartet
  BY <1>2, ElementOfSeq DEF Stores
<1>5. \A k \in 1..L, offset \in 0..3 :
          s[k][offset] = IF 4 * (k - 1) + offset + 1 <= n
                         THEN h[4 * (k - 1) + offset + 1] ELSE EMPTY
  BY DEF Stores
<1>6. \A i \in 1..n : h[i] # EMPTY
  BY <1>1 DEF Storable
<1> HIDE DEF L, r
<1>7. \A offset \in 0..3 : (s[L][offset] = EMPTY) <=> (offset > r)
  <2> SUFFICES ASSUME NEW offset \in 0..3
               PROVE  (s[L][offset] = EMPTY) <=> (offset > r)
    OBVIOUS
  <2>1. s[L][offset] = IF 4 * (L - 1) + offset + 1 <= n
                       THEN h[4 * (L - 1) + offset + 1] ELSE EMPTY
    <3>1. L \in 1..L
      BY <1>3
    <3> QED BY <1>5, <3>1
  <2>2. CASE offset > r
    BY <1>3, <2>1, <2>2
  <2>3. CASE offset <= r
    <3>1. 4 * (L - 1) + offset + 1 \in 1..n /\ ~(offset > r)
      BY <1>3, <2>3
    <3>2. h[4 * (L - 1) + offset + 1] # EMPTY
      BY <1>6, <3>1
    <3> QED BY <2>1, <3>1, <3>2
  <2> QED BY <1>3, <2>2, <2>3
<1> QED BY <1>3, <1>4, <1>7 DEF L

\* A new quartet holds one multiplier.
LEMMA NewQuartetHolds ==
    ASSUME NEW x \in Int
    PROVE  /\ NewQuartet(x) \in Quartet
           /\ \A offset \in 0..3 : NewQuartet(x)[offset] = IF offset = 0 THEN x ELSE EMPTY
BY SentinelAssumption DEF NewQuartet, EmptyQuartet, Quartet

\* The next multiplier goes into the first free place, or into a quartet of its own.
LEMMA StoresNext ==
    ASSUME NEW h, Storable(h), NEW n \in Nat, n < Len(h), NEW s, Stores(s, h, n)
    PROVE  Stores(publishFundingMultiplier(s, h[n + 1]), h, n + 1)
<1> DEFINE x == h[n + 1]
           L == Len(s)
<1>1. /\ s \in Seq(Quartet) /\ L \in Nat /\ Len(h) \in Nat /\ x \in Int
      /\ h \in Seq(Int)
  <2>1. s \in Seq(Quartet) /\ h \in Seq(Int)
    BY DEF Storable, Stores
  <2>2. L \in Nat /\ Len(h) \in Nat
    BY <2>1, LenProperties
  <2>3. n + 1 \in 1..Len(h)
    BY <2>2
  <2> QED BY <2>1, <2>2, <2>3, ElementOfSeq
<1>2. /\ n <= 4 * L /\ 4 * L < n + 4
      /\ \A k \in 1..L, offset \in 0..3 :
            s[k][offset] = IF 4 * (k - 1) + offset + 1 <= n
                           THEN h[4 * (k - 1) + offset + 1] ELSE EMPTY
  BY DEF Stores
<1>3. ASSUME n = 4 * L, publishFundingMultiplier(s, x) = Append(s, NewQuartet(x))
      PROVE  Stores(publishFundingMultiplier(s, x), h, n + 1)
  <2> DEFINE t == Append(s, NewQuartet(x))
  <2>1. /\ t \in Seq(Quartet) /\ Len(t) = L + 1
        /\ \A k \in 1..L : t[k] = s[k]
        /\ t[L + 1] = NewQuartet(x)
    BY <1>1, NewQuartetHolds, AppendProperties
  <2> HIDE DEF t
  <2>2. ASSUME NEW k \in 1..(L + 1), NEW offset \in 0..3
        PROVE  t[k][offset] = IF 4 * (k - 1) + offset + 1 <= n + 1
                              THEN h[4 * (k - 1) + offset + 1] ELSE EMPTY
    <3>1. CASE k \in 1..L
      <4>1. 4 * (k - 1) + offset + 1 <= n /\ 4 * (k - 1) + offset + 1 <= n + 1
        BY <1>1, <1>3, <3>1, SMTT(60)
      <4>2. t[k][offset] = s[k][offset]
        BY <2>1, <3>1
      <4> QED BY <1>2, <3>1, <4>1, <4>2
    <3>2. CASE k = L + 1
      <4>1. t[k][offset] = IF offset = 0 THEN x ELSE EMPTY
        BY <1>1, <2>1, <3>2, NewQuartetHolds
      <4>2. 4 * (k - 1) + offset + 1 = n + 1 + offset
        BY <1>1, <1>3, <3>2
      <4> HIDE DEF L
      <4>3. CASE offset = 0
        BY <4>1, <4>2, <4>3
      <4>4. CASE offset # 0
        BY <4>1, <4>2, <4>4
      <4> QED BY <4>3, <4>4
    <3> QED BY <1>1, <3>1, <3>2
  <2>3. n + 1 <= 4 * (L + 1) /\ 4 * (L + 1) < n + 1 + 4
    BY <1>1, <1>3
  <2>4. Stores(t, h, n + 1)
    <3> HIDE DEF L
    <3> QED BY <2>1, <2>2, <2>3 DEF Stores
  <2> QED BY <1>3, <2>4 DEF t
<1>4. CASE n = 0
  <2>1. L = 0
    BY <1>1, <1>2, <1>4
  <2>2. s = <<>>
    BY <1>1, <2>1, EmptySeq
  <2>3. publishFundingMultiplier(s, x) = Append(s, NewQuartet(x))
    BY <2>2 DEF publishFundingMultiplier
  <2> QED BY <1>3, <1>4, <2>1, <2>3
<1>5. CASE n # 0
  <2>1. n \in 1..Len(h)
    BY <1>1, <1>5
  <2>2. PICK r \in 0..3 :
           /\ L \in Nat \ {0} /\ n = 4 * (L - 1) + r + 1
           /\ s[L] \in Quartet
           /\ \A offset \in 0..3 : (s[L][offset] = EMPTY) <=> (offset > r)
    BY <2>1, LastQuartet
  <2>3. s # <<>>
    BY <2>2
  <2>4. CASE r = 3
    <3>1. s[L][3] # EMPTY
      BY <2>2, <2>4
    <3>2. publishFundingMultiplier(s, x) = Append(s, NewQuartet(x))
      BY <2>3, <3>1 DEF publishFundingMultiplier
    <3>3. n = 4 * L
      BY <1>1, <2>2, <2>4
    <3> QED BY <1>3, <3>2, <3>3
  <2>5. CASE r # 3
    <3> DEFINE free == {offset \in 1..3 : s[L][offset] = EMPTY}
               t    == [s EXCEPT ![L][r + 1] = x]
    <3>1. s[L][3] = EMPTY
      BY <2>2, <2>5
    <3>2. r + 1 \in free /\ \A other \in free : r + 1 <= other
      BY <2>2, <2>5
    <3>3. (CHOOSE offset \in free : \A other \in free : offset <= other) = r + 1
      <4>1. free \subseteq Nat
        OBVIOUS
      <4> DEFINE c == CHOOSE offset \in free : \A other \in free : offset <= other
      <4> HIDE DEF free
      <4>2. c \in free /\ \A other \in free : c <= other
        BY <3>2
      <4> HIDE DEF c
      <4>3. c = r + 1
        BY <3>2, <4>1, <4>2
      <4> QED BY <4>3 DEF c
    <3>4. publishFundingMultiplier(s, x) = t
      BY <2>3, <3>1, <3>3 DEF publishFundingMultiplier
    <3> DEFINE q == [s[L] EXCEPT ![r + 1] = x]
    <3>5. /\ q \in Quartet
          /\ \A offset \in 0..3 : q[offset] = IF offset = r + 1 THEN x ELSE s[L][offset]
      BY <1>1, <2>2, <2>5 DEF Quartet
    <3>6. t = [s EXCEPT ![L] = q]
      OBVIOUS
    <3> HIDE DEF q, free
    <3>7. /\ t \in Seq(Quartet) /\ Len(t) = L
          /\ \A k \in 1..L : t[k] = IF k = L THEN q ELSE s[k]
      <4>1. L \in 1..Len(s)
        BY <2>2
      <4> HIDE DEF t
      <4> QED BY <1>1, <3>5, <3>6, <4>1, ExceptSeq
    <3> HIDE DEF t
    <3>8. ASSUME NEW k \in 1..L, NEW offset \in 0..3
          PROVE  t[k][offset] = IF 4 * (k - 1) + offset + 1 <= n + 1
                                THEN h[4 * (k - 1) + offset + 1] ELSE EMPTY
      <4>0. s[k][offset] = IF 4 * (k - 1) + offset + 1 <= n
                           THEN h[4 * (k - 1) + offset + 1] ELSE EMPTY
        BY <1>2
      <4>1. CASE k = L /\ offset = r + 1
        <5>1. 4 * (k - 1) + offset + 1 = n + 1
          BY <2>2, <4>1
        <5>2. t[k][offset] = x
          BY <3>5, <3>7, <4>1
        <5> QED BY <5>1, <5>2
      <4>2. CASE ~(k = L /\ offset = r + 1)
        <5>1. t[k][offset] = s[k][offset]
          BY <3>5, <3>7, <4>2
        <5>2. (4 * (k - 1) + offset + 1 <= n + 1) <=> (4 * (k - 1) + offset + 1 <= n)
          BY <2>2, <4>2, SMTT(60)
        <5> QED BY <4>0, <5>1, <5>2
      <4> QED BY <4>1, <4>2
    <3>9. n + 1 <= 4 * L /\ 4 * L < n + 1 + 4
      BY <1>1, <2>2, <2>5, SMTT(60)
    <3>10. Stores(t, h, n + 1)
      <4> HIDE DEF L
      <4> QED BY <3>7, <3>8, <3>9 DEF Stores
    <3> QED BY <3>4, <3>10
  <2> QED BY <2>4, <2>5
<1> QED BY <1>4, <1>5

\* The equation that defines how n multipliers of h are stored, one by one.
IsFilling(p, h, n) ==
    p = [i \in 0..n |-> IF i = 0 THEN <<>> ELSE publishFundingMultiplier(p[i - 1], h[i])]

\* Multipliers can be stored one by one.
LEMMA FillingExists ==
    ASSUME NEW h, NEW n \in Nat
    PROVE  \E p : IsFilling(p, h, n)
<1> DEFINE T == {k \in 0..n : ~ \E p : IsFilling(p, h, k)}
<1>1. SUFFICES ASSUME T # {}
               PROVE  FALSE
  BY <1>1
<1>2. PICK k \in T : \A j \in T : k <= j
  <2>1. T \subseteq Nat
    OBVIOUS
  <2> HIDE DEF T
  <2> QED BY <1>1, <2>1, LeastNatural
<1>3. k # 0
  <2>1. IsFilling([i \in 0..0 |-> <<>>], h, 0)
    BY DEF IsFilling
  <2> QED BY <2>1
<1>4. k \in Nat /\ k - 1 \in 0..n
  BY <1>3
<1>5. PICK p : IsFilling(p, h, k - 1)
  BY <1>2, <1>4
<1> DEFINE q == [i \in 0..k |-> IF i = k THEN publishFundingMultiplier(p[k - 1], h[k]) ELSE p[i]]
<1>6. ASSUME NEW i \in 0..k
      PROVE  q[i] = IF i = 0 THEN <<>> ELSE publishFundingMultiplier(q[i - 1], h[i])
  <2>1. CASE i = k
    BY <1>3, <1>4, <2>1
  <2>2. CASE i # k
    <3>1. i \in 0..(k - 1)
      BY <1>4, <2>2
    <3>2. p[i] = IF i = 0 THEN <<>> ELSE publishFundingMultiplier(p[i - 1], h[i])
      BY <1>5, <3>1 DEF IsFilling
    <3>3. i # 0 => i - 1 \in 0..k /\ i - 1 # k
      BY <1>4, <3>1
    <3> QED BY <2>2, <3>1, <3>2, <3>3
  <2> QED BY <2>1, <2>2
<1>7. q = [i \in 0..k |-> q[i]]
  OBVIOUS
<1> HIDE DEF q
<1>8. q = [i \in 0..k |-> IF i = 0 THEN <<>> ELSE publishFundingMultiplier(q[i - 1], h[i])]
  BY <1>6, <1>7
<1>9. IsFilling(q, h, k)
  BY <1>8 DEF IsFilling
<1> QED BY <1>2, <1>9

\* Once all of h is published, the quartets store it.
LEMMA QuartetsStore ==
    ASSUME NEW h, Storable(h)
    PROVE  Stores(Quartets(h), h, Len(h))
<1> DEFINE n == Len(h)
           p == CHOOSE p : IsFilling(p, h, n)
<1>1. n \in Nat
  BY LenProperties DEF Storable
<1>2. Quartets(h) = p[n]
  BY DEF Quartets, IsFilling
<1>3. IsFilling(p, h, n)
  <2> HIDE DEF n
  <2> QED BY <1>1, FillingExists
<1> HIDE DEF p
<1>4. \A k \in 0..n : p[k] = IF k = 0 THEN <<>> ELSE publishFundingMultiplier(p[k - 1], h[k])
  BY <1>3 DEF IsFilling
<1> DEFINE T == {k \in 0..n : ~ Stores(p[k], h, k)}
<1>5. T = {}
  <2>1. SUFFICES ASSUME T # {}
                 PROVE  FALSE
    BY <2>1
  <2>2. PICK k \in T : \A j \in T : k <= j
    <3>1. T \subseteq Nat
      OBVIOUS
    <3> HIDE DEF T
    <3> QED BY <2>1, <3>1, LeastNatural
  <2>3. CASE k = 0
    <3>1. p[0] = <<>>
      BY <1>1, <1>4
    <3>2. Stores(<<>>, h, 0)
      BY EmptySeq DEF Stores
    <3> QED BY <2>2, <2>3, <3>1, <3>2
  <2>4. CASE k # 0
    <3>1. /\ k - 1 \in 0..n /\ k - 1 \in Nat /\ k - 1 < n /\ ~(k <= k - 1)
          /\ (k - 1) + 1 = k /\ k \in 0..n
      BY <1>1, <2>4
    <3>2. Stores(p[k - 1], h, k - 1)
      BY <2>2, <3>1
    <3>3. Stores(publishFundingMultiplier(p[k - 1], h[(k - 1) + 1]), h, (k - 1) + 1)
      <4> DEFINE j == k - 1
      <4>1. j \in Nat /\ j < Len(h) /\ Stores(p[j], h, j)
        BY <3>1, <3>2
      <4> HIDE DEF j, n
      <4>2. Stores(publishFundingMultiplier(p[j], h[j + 1]), h, j + 1)
        BY <4>1, StoresNext
      <4> QED BY <4>2 DEF j
    <3>4. p[k] = publishFundingMultiplier(p[k - 1], h[k])
      BY <1>4, <2>4, <3>1
    <3>5. Stores(p[k], h, k)
      BY <3>1, <3>3, <3>4
    <3> QED BY <2>2, <3>5
  <2> QED BY <2>3, <2>4
<1> QED BY <1>1, <1>2, <1>5

-----------------------------------------------------------------------------
\* Counting the places that are taken.
LEMMA NumberInQuartet ==
    ASSUME NEW q, NEW r \in 0..3, \A offset \in 0..3 : (q[offset] = EMPTY) <=> (offset > r)
    PROVE  calculateNumberOfMultipliersInQuartet(q) = r + 1
<1> DEFINE Fits(count) == /\ count > 1 => q[count - 1] # EMPTY
                          /\ \A offset \in count..3 : q[offset] = EMPTY
           c == CHOOSE count \in 1..4 : Fits(count)
<1>1. r + 1 \in 1..4 /\ Fits(r + 1)
  OBVIOUS
<1>2. ASSUME NEW count \in 1..4, Fits(count)
      PROVE  count = r + 1
  <2>1. count - 1 <= r
    <3>1. CASE count = 1
      BY <3>1
    <3>2. CASE count > 1
      <4>1. count - 1 \in 0..3 /\ q[count - 1] # EMPTY
        BY <1>2, <3>2
      <4> QED BY <4>1
    <3> QED BY <3>1, <3>2
  <2>2. ~(count <= r)
    <3>1. SUFFICES ASSUME count <= r
                   PROVE  FALSE
      OBVIOUS
    <3>2. r \in count..3
      BY <3>1
    <3>3. q[r] = EMPTY
      BY <1>2, <3>2
    <3> QED BY <3>3
  <2> QED BY <2>1, <2>2
<1>3. c = calculateNumberOfMultipliersInQuartet(q)
  BY DEF calculateNumberOfMultipliersInQuartet
<1> HIDE DEF Fits
<1>4. c \in 1..4 /\ Fits(c)
  BY <1>1
<1> HIDE DEF c
<1> QED BY <1>2, <1>3, <1>4

\* A multiple is divided without a rest.
LEMMA MultipleDivided ==
    ASSUME NEW a \in Nat, NEW c \in Nat \ {0}
    PROVE  a * c \in Nat /\ (a * c) \div c = a
<1> DEFINE b == a * c
           d == b \div c
<1>1. b \in Nat
  OBVIOUS
<1>2. d \in Nat /\ d * c <= b /\ b < d * c + c
  <2> HIDE DEF b
  <2> QED BY <1>1, QuotientBounds
<1> HIDE DEF d
<1>3. d <= a
  BY <1>2, ProductCancel
<1>4. a <= d
  <2>1. SUFFICES ASSUME d + 1 <= a
                 PROVE  FALSE
    BY <1>2
  <2>2. (d + 1) * c <= a * c
    BY <1>2, <2>1, ProductMonotone
  <2>3. (d + 1) * c = d * c + c /\ d * c \in Nat
    BY <1>2
  <2> HIDE DEF b
  <2> QED BY <1>1, <1>2, <2>2, <2>3 DEF b
<1> QED BY <1>1, <1>2, <1>3, <1>4 DEF d

\* The quotient and the rest of a division by four.
LEMMA DividedByFour ==
    ASSUME NEW i \in Nat \ {0}
    PROVE  \E a \in Nat, b \in 0..3 :
              /\ i = 4 * a + b + 1
              /\ DivideRoundUp(i, QuartetSize) - 1 = a
              /\ (IF i % QuartetSize = 0 THEN 3 ELSE (i % QuartetSize) - 1) = b
<1> DEFINE a == (i - 1) \div 4
           b == (i - 1) % 4
<1>1. a \in Nat /\ b \in 0..3 /\ i = 4 * a + b + 1
  OBVIOUS
<1>2. DivideRoundUp(i, QuartetSize) - 1 = a
  BY <1>1 DEF DivideRoundUp, QuartetSize
<1> HIDE DEF a, b
<1>3. (IF i % 4 = 0 THEN 3 ELSE (i % 4) - 1) = b
  BY <1>1
<1> QED BY <1>1, <1>2, <1>3 DEF QuartetSize

\* The place of a period's multiplier, found from its time.
LEMMA PlaceOfPeriod ==
    ASSUME NEW h, Storable(h), Len(h) # 0, NEW s, Stores(s, h, Len(h)), NEW i \in 1..Len(h)
    PROVE  \E a \in Nat, b \in 0..3 :
              /\ i = 4 * a + b + 1
              /\ calculateIndexAndOffset(s, TimeOf(i), TimeOf(Len(h)))
                   = [index |-> a, offset |-> b]
<1> DEFINE n     == Len(h)
           total == calculateNumberOfMultipliersInQuartet(s[Len(s)])
                      + (Len(s) - 1) * QuartetSize
           first == TimeOf(n) - (total - 1) * FundingPeriod
           k     == 1 + (TimeOf(i) - first) \div FundingPeriod
<1>1. n \in Nat \ {0} /\ i \in Nat \ {0} /\ FundingPeriod \in Nat \ {0}
  BY LenProperties, ParameterAssumption DEF Storable
<1>2. total = n
  <2>1. n \in 1..Len(h)
    BY <1>1
  <2>2. PICK r \in 0..3 :
              /\ Len(s) \in Nat \ {0} /\ n = 4 * (Len(s) - 1) + r + 1
              /\ s[Len(s)] \in Quartet
              /\ \A offset \in 0..3 : (s[Len(s)][offset] = EMPTY) <=> (offset > r)
    <3> HIDE DEF n
    <3> QED BY <2>1, LastQuartet DEF n
  <2>3. calculateNumberOfMultipliersInQuartet(s[Len(s)]) = r + 1
    BY <2>2, NumberInQuartet
  <2> QED BY <2>2, <2>3 DEF QuartetSize
<1> HIDE DEF n, total
<1>3. (n - 1) * FundingPeriod \in Nat /\ (i - 1) * FundingPeriod \in Nat
  BY <1>1, MultipleDivided
<1>4. first = 0
  BY <1>1, <1>2, <1>3 DEF TimeOf
<1>5. k = i
  <2>1. ((i - 1) * FundingPeriod) \div FundingPeriod = i - 1
    <3> DEFINE j == i - 1
    <3>1. j \in Nat
      BY <1>1
    <3> HIDE DEF j
    <3>2. (j * FundingPeriod) \div FundingPeriod = j
      BY <1>1, <3>1, MultipleDivided
    <3> QED BY <3>2 DEF j
  <2> HIDE DEF first
  <2>2. TimeOf(i) - first = (i - 1) * FundingPeriod
    BY <1>3, <1>4 DEF TimeOf
  <2> QED BY <1>1, <2>1, <2>2
<1> HIDE DEF first
<1>6. PICK a \in Nat, b \in 0..3 :
              /\ i = 4 * a + b + 1
              /\ DivideRoundUp(i, QuartetSize) - 1 = a
              /\ (IF i % QuartetSize = 0 THEN 3 ELSE (i % QuartetSize) - 1) = b
  BY <1>1, DividedByFour
<1>7. calculateIndexAndOffset(s, TimeOf(i), TimeOf(n))
        = [index  |-> DivideRoundUp(k, QuartetSize) - 1,
           offset |-> IF k % QuartetSize = 0 THEN 3 ELSE (k % QuartetSize) - 1]
  BY DEF calculateIndexAndOffset, first, total
<1> HIDE DEF k
<1> QED BY <1>5, <1>6, <1>7 DEF n

-----------------------------------------------------------------------------
\* Four by four, the sums add up to the sum.
LEMMA SumByFour ==
    ASSUME NEW N \in Nat, NEW g, NEW f,
           \A x \in 1..(4 * N) : g[x] \in Int,
           \A i \in 1..N : f[i] = SumTo([j \in 1..4 |-> g[4 * (i - 1) + j]], 4)
    PROVE  SumTo(f, N) = SumTo(g, 4 * N)
<1> DEFINE T == {k \in 0..N : SumTo(f, k) # SumTo(g, 4 * k)}
<1>1. SUFFICES ASSUME T # {}
               PROVE  FALSE
  BY <1>1
<1>2. PICK k \in T : \A j \in T : k <= j
  <2>1. T \subseteq Nat
    OBVIOUS
  <2> HIDE DEF T
  <2> QED BY <1>1, <2>1, LeastNatural
<1>3. k # 0
  <2>1. SumTo(f, 0) = 0 /\ SumTo(g, 0) = 0
    BY SumToZero
  <2> QED BY <1>2, <2>1
<1>4. k \in Nat \ {0} /\ k - 1 \in 0..N /\ ~(k <= k - 1) /\ k \in 1..N
  BY <1>3
<1> DEFINE b == 4 * (k - 1)
           four == [j \in 1..4 |-> g[b + j]]
<1>5. SumTo(f, k - 1) = SumTo(g, b)
  BY <1>2, <1>4
<1>6. b \in Nat /\ b + 4 = 4 * k /\ \A x \in 1..(b + 4) : x \in 1..(4 * N)
  BY <1>4
<1>7. \A i \in 1..k : f[i] \in Int
  <2> SUFFICES ASSUME NEW i \in 1..k
               PROVE  f[i] \in Int
    OBVIOUS
  <2> DEFINE e == [j \in 1..4 |-> g[4 * (i - 1) + j]]
  <2>1. i \in 1..N /\ \A j \in 1..4 : 4 * (i - 1) + j \in 1..(4 * N)
    BY <1>4
  <2>2. \A j \in 1..4 : e[j] \in Int
    BY <2>1
  <2>3. f[i] = SumTo(e, 4)
    BY <2>1
  <2> HIDE DEF e
  <2>4. SumTo(e, 4) \in Int
    BY <2>2, SumToType
  <2> QED BY <2>3, <2>4
<1>8. SumTo(f, k) = SumTo(f, k - 1) + f[k]
  BY <1>4, <1>7, SumToStep
<1>9. SumTo(g, b + 4) = SumTo(g, b) + SumTo(four, 4)
  <2>1. \A x \in 1..(b + 4) : g[x] \in Int
    BY <1>6
  <2>2. \A j \in 1..4 : four[j] = g[b + j]
    OBVIOUS
  <2> DEFINE c == 4
  <2>3. /\ b \in Nat /\ c \in Nat
        /\ \A x \in 1..(b + c) : g[x] \in Int
        /\ \A j \in 1..c : four[j] = g[b + j]
    BY <1>6, <2>1, <2>2
  <2> HIDE DEF four, b, c
  <2>4. SumTo(g, b + c) = SumTo(g, b) + SumTo(four, c)
    BY ONLY <2>3, SumToSplit
  <2> QED BY <2>4 DEF c
<1>10. f[k] = SumTo(four, 4)
  BY <1>4
<1>11. SumTo(f, k) = SumTo(g, 4 * k)
  <2> HIDE DEF four, b
  <2> QED BY <1>5, <1>6, <1>8, <1>9, <1>10
<1> QED BY <1>2, <1>11

-----------------------------------------------------------------------------
\* g is f between b zeros and d zeros.
IsPadded(g, f, b, c, d) ==
    /\ \A x \in 1..(b + c + d) : g[x] \in Int
    /\ \A x \in 1..b : g[x] = 0
    /\ \A x \in 1..c : f[x] = g[b + x]
    /\ \A x \in 1..d : g[b + c + x] = 0

\* Zeros before and after add nothing.
LEMMA SumBetween ==
    ASSUME NEW b \in Nat, NEW c \in Nat, NEW d \in Nat, NEW g, NEW f, IsPadded(g, f, b, c, d)
    PROVE  SumTo(g, b + c + d) = SumTo(f, c)
<1> USE DEF IsPadded
<1> DEFINE k == b + c
           rest == [x \in 1..d |-> g[k + x]]
<1>1. SumTo(g, k + d) = SumTo(g, k) + SumTo(rest, d)
  <2>1. k \in Nat /\ \A x \in 1..(k + d) : g[x] \in Int
    OBVIOUS
  <2>2. \A x \in 1..d : rest[x] = g[k + x]
    OBVIOUS
  <2> HIDE DEF k, rest
  <2> QED BY <2>1, <2>2, SumToSplit
<1>2. SumTo(g, k) = SumTo(g, b) + SumTo(f, c)
  <2>1. \A x \in 1..(b + c) : g[x] \in Int
    OBVIOUS
  <2> QED BY <2>1, SumToSplit
<1>3. SumTo(g, b) = 0
  BY SumToZeros
<1>4. SumTo(rest, d) = 0
  <2>1. \A x \in 1..d : rest[x] = 0
    OBVIOUS
  <2> HIDE DEF rest
  <2> QED BY <2>1, SumToZeros
<1>5. SumTo(f, c) \in Int
  <2>1. \A x \in 1..c : f[x] \in Int
    OBVIOUS
  <2> QED BY <2>1, SumToType
<1> HIDE DEF rest
<1> QED BY <1>1, <1>2, <1>3, <1>4, <1>5

\* A position settled by way of the quartets is paid what each period pays.
LEMMA QuartetsPay ==
    ASSUME NEW h, Storable(h), NEW size \in Int,
           NEW first \in 1..Len(h), NEW last \in first..Len(h)
    PROVE  loadAggregatePayment(Quartets(h), TimeOf(first), TimeOf(last), TimeOf(Len(h)), size)
             = AggregatePayment(h, first, last, size)
<1> DEFINE n == Len(h)
           s == Quartets(h)
           start == calculateIndexAndOffset(s, TimeOf(first), TimeOf(n))
           end   == calculateIndexAndOffset(s, TimeOf(last), TimeOf(n))
<1>1. n \in Nat /\ first \in Nat \ {0} /\ last \in Nat \ {0} /\ first <= last /\ last <= n
  BY LenProperties DEF Storable
<1>2. Stores(s, h, n)
  BY QuartetsStore
<1>3. \A i \in 1..n : h[i] \in Int
  BY ElementOfSeq DEF Storable
<1> HIDE DEF s
<1>4. PICK a \in Nat, b \in 0..3 :
         first = 4 * a + b + 1 /\ start = [index |-> a, offset |-> b]
  BY <1>1, <1>2, PlaceOfPeriod
<1>5. PICK c \in Nat, d \in 0..3 :
         last = 4 * c + d + 1 /\ end = [index |-> c, offset |-> d]
  <2>1. last \in 1..Len(h)
    BY <1>1
  <2> QED BY <1>1, <1>2, <2>1, PlaceOfPeriod
<1> DEFINE N == c - a + 1
           m == last - first + 1
           g == [x \in 1..(4 * N) |-> IF b < x /\ x <= 4 * (c - a) + d + 1
                                      THEN QuoteValue(size, h[4 * a + x]) ELSE 0]
           f == [i \in 1..N |->
                   calculateAggregatePaymentForQuartet(
                     s[a + i],
                     IF i = 1 THEN b ELSE 0,
                     IF a + i = c + 1 THEN d ELSE QuartetSize - 1,
                     size)]
           paid == [i \in 1..m |-> QuoteValue(size, h[first + i - 1])]
<1>6. N \in Nat \ {0} /\ m \in Nat /\ 3 - d \in Nat /\ b + m + (3 - d) = 4 * N
  BY <1>1, <1>4, <1>5
<1>7. loadAggregatePayment(s, TimeOf(first), TimeOf(last), TimeOf(n), size) = SumTo(f, N)
  <2> DEFINE e == [i \in 1..(end.index - start.index + 1) |->
                     calculateAggregatePaymentForQuartet(
                       s[start.index + i],
                       IF i = 1 THEN start.offset ELSE 0,
                       IF start.index + i = end.index + 1 THEN end.offset ELSE QuartetSize - 1,
                       size)]
  <2>1. loadAggregatePayment(s, TimeOf(first), TimeOf(last), TimeOf(n), size)
          = SumTo(e, end.index - start.index + 1)
    BY DEF loadAggregatePayment
  <2>2. start.index = a /\ start.offset = b /\ end.index = c /\ end.offset = d
    BY <1>4, <1>5
  <2> HIDE DEF start, end
  <2>3. end.index - start.index + 1 = N
    BY <2>2
  <2>4. \A i \in 1..N : e[i] = f[i]
    BY <2>2, <2>3
  <2>5. e = f
    BY <2>3, <2>4
  <2> HIDE DEF e, f, N
  <2> QED BY <2>1, <2>3, <2>5
<1>8. AggregatePayment(h, first, last, size) = SumTo(paid, m)
  BY DEF AggregatePayment
<1> HIDE DEF start, end
<1>9. ASSUME NEW x \in 1..(4 * N), b < x, x <= 4 * (c - a) + d + 1
      PROVE  /\ 4 * a + x \in 1..n /\ QuoteValue(size, h[4 * a + x]) \in Int
  <2>1. 4 * a + x \in 1..n
    BY <1>1, <1>4, <1>5, <1>9
  <2> QED BY <1>3, <2>1, QuoteValueType
<1>10. \A x \in 1..(4 * N) : g[x] \in Int
  BY <1>9
<1>11. SumTo(g, b + m + (3 - d)) = SumTo(paid, m)
  <2>1. \A x \in 1..b : g[x] = 0
    BY <1>6
  <2>2. ASSUME NEW x \in 1..m
        PROVE  paid[x] = g[b + x]
    <3>1. b + x \in 1..(4 * N) /\ b < b + x /\ b + x <= 4 * (c - a) + d + 1
      BY <1>1, <1>4, <1>5, <1>6
    <3>2. 4 * a + (b + x) = first + x - 1
      BY <1>1, <1>4
    <3> QED BY <3>1, <3>2
  <2>3. ASSUME NEW x \in 1..(3 - d)
        PROVE  g[b + m + x] = 0
    <3>1. b + m + x \in 1..(4 * N) /\ ~(b + m + x <= 4 * (c - a) + d + 1)
      BY <1>1, <1>4, <1>5, <1>6
    <3> QED BY <3>1
  <2> DEFINE e == 3 - d
  <2>4. e \in Nat /\ b \in Nat /\ m \in Nat /\ b + m + e = 4 * N
    BY <1>6
  <2>5. /\ \A x \in 1..b : g[x] = 0
        /\ \A x \in 1..m : paid[x] = g[b + x]
        /\ \A x \in 1..e : g[b + m + x] = 0
    BY <2>1, <2>2, <2>3
  <2> HIDE DEF g, paid, m, e, N
  <2>6. \A x \in 1..(b + m + e) : g[x] \in Int
    BY <1>10, <2>4
  <2>7. IsPadded(g, paid, b, m, e)
    BY <2>5, <2>6 DEF IsPadded
  <2>8. SumTo(g, b + m + e) = SumTo(paid, m)
    BY <2>4, <2>7, SumBetween
  <2> QED BY <2>8 DEF e
<1>12. ASSUME NEW i \in 1..N
       PROVE  f[i] = SumTo([j \in 1..4 |-> g[4 * (i - 1) + j]], 4)
  <2> DEFINE from == IF i = 1 THEN b ELSE 0
             to   == IF a + i = c + 1 THEN d ELSE 3
             four == [j \in 1..4 |-> g[4 * (i - 1) + j]]
             quartet == [j \in 1..4 |-> IF from < j /\ j <= to + 1
                                        THEN QuoteValue(size, s[a + i][j - 1]) ELSE 0]
  <2>1. f[i] = SumTo(quartet, 4)
    BY DEF calculateAggregatePaymentForQuartet, QuartetSize
  <2>2. ASSUME NEW j \in 1..4
        PROVE  quartet[j] = four[j] /\ four[j] \in Int
    <3> DEFINE x == 4 * (i - 1) + j
    <3>1. x \in 1..(4 * N) /\ four[j] = g[x]
      BY <1>6
    <3>2. (from < j /\ j <= to + 1) <=> (b < x /\ x <= 4 * (c - a) + d + 1)
      BY <1>4, <1>5, <1>6
    <3>3. ASSUME b < x, x <= 4 * (c - a) + d + 1
          PROVE  s[a + i][j - 1] = h[4 * a + x]
      <4>1. 4 * a + x \in 1..n
        BY <1>9, <3>1, <3>3
      <4>2. a + i \in 1..Len(s)
        <5>1. n <= 4 * Len(s) /\ Len(s) \in Nat
          BY <1>2, LenProperties DEF Stores
        <5> QED BY <4>1, <5>1
      <4>3. \A k \in 1..Len(s), offset \in 0..3 :
               s[k][offset] = IF 4 * (k - 1) + offset + 1 <= n
                              THEN h[4 * (k - 1) + offset + 1] ELSE EMPTY
        BY <1>2 DEF Stores
      <4>4. 4 * ((a + i) - 1) + (j - 1) + 1 = 4 * a + x /\ j - 1 \in 0..3
        OBVIOUS
      <4>5. s[a + i][j - 1] = IF 4 * ((a + i) - 1) + (j - 1) + 1 <= n
                              THEN h[4 * ((a + i) - 1) + (j - 1) + 1] ELSE EMPTY
        BY <4>2, <4>3, <4>4
      <4> HIDE DEF x, n
      <4> QED BY <4>1, <4>4, <4>5
    <3>4. four[j] \in Int
      BY <1>10, <3>1
    <3> QED BY <3>1, <3>2, <3>3, <3>4
  <2> HIDE DEF four, quartet
  <2>3. SumTo(quartet, 4) = SumTo(four, 4)
    BY <2>2, SumToEqual
  <2> QED BY <2>1, <2>3 DEF four
<1>13. SumTo(f, N) = SumTo(g, 4 * N)
  <2>1. N \in Nat
    BY <1>6
  <2> HIDE DEF N, f, g
  <2> QED BY <1>10, <1>12, <2>1, SumByFour
<1> HIDE DEF N, m, f, g, paid
<1> QED BY <1>6, <1>7, <1>8, <1>11, <1>13 DEF s, n

-----------------------------------------------------------------------------
\* No multiplier that is ever published is the sentinel: the missed periods'
\* are zero, the others come from a price that was published.
NoSentinel ==
    /\ \A m \in Markets : \A i \in 1..Len(history[m]) : history[m][i] # EMPTY
    /\ \A m \in Markets : markets[m].indexPrice \in IndexPrices \cup {InitialPrices[m]}

\* The missed periods when the Exchange starts are zero too.
LEMMA InitNoSentinel ==
    ASSUME Init
    PROVE  NoSentinel
<1> DEFINE zeros == [i \in 1..BackfilledPeriods |-> 0]
<1>1. BackfilledPeriods \in Nat
  BY InitialAssumption, ParameterAssumption DEF BackfilledPeriods
<1>2. Len(zeros) = BackfilledPeriods /\ \A i \in 1..Len(zeros) : zeros[i] = 0
  <2> DEFINE k == BackfilledPeriods
             z == [i \in 1..k |-> 0]
  <2>1. z \in [1..k -> Int]
    OBVIOUS
  <2>2. \A i \in 1..k : z[i] = 0
    OBVIOUS
  <2>3. DOMAIN z = 1..k
    OBVIOUS
  <2> HIDE DEF z, k
  <2>4. k \in Nat
    BY <1>1 DEF k
  <2>5. z \in Seq(Int)
    BY <2>1, <2>4, SeqDef
  <2>6. Len(z) \in Nat /\ 1..Len(z) = 1..k
    BY <2>3, <2>5, LenProperties
  <2>7. Len(z) = k
    BY <2>4, <2>6
  <2> QED BY <2>2, <2>7 DEF z, k
<1>3. ASSUME NEW m \in Markets
      PROVE  history[m] = zeros
  BY DEF Init
<1> HIDE DEF zeros
<1>4. \A m \in Markets : \A i \in 1..Len(history[m]) : history[m][i] # EMPTY
  BY <1>2, <1>3, SentinelAssumption
<1>5. \A m \in Markets : markets[m].indexPrice = InitialPrices[m]
  BY DEF Init
<1> QED BY <1>4, <1>5 DEF NoSentinel

\* Only prices and multipliers being published change what NoSentinel is about.
LEMMA QuietNoSentinel ==
    ASSUME NoSentinel, UNCHANGED <<markets, history>>
    PROVE  NoSentinel'
BY DEF NoSentinel

LEMMA PublishNoSentinel ==
    ASSUME IInv, NoSentinel, NEW m \in Markets, NEW rate \in FundingRates,
           PublishFundingMultiplier(m, rate)
    PROVE  NoSentinel'
<1> DEFINE k     == PeriodsToBackfill(m)
           zeros == [i \in 1..k |-> 0]
           new   == FundingMultiplier(m, rate)
           more  == Append(zeros, new)
           h     == history[m]
<1>1. h \in Seq(Int) /\ Len(h) \in Nat
  BY LenProperties DEF IInv, TypeOK
<1>2. k \in Nat
  <2> DEFINE next == NextPublishTime(m)
             at   == markets[m].indexPriceAt
             p    == FundingPeriod
  <2>1. next \in Nat /\ at \in Nat /\ p \in Nat \ {0}
    BY <1>1, ParameterAssumption DEF NextPublishTime, IInv, TypeOK, Market
  <2>2. k = IF at > next + p \div 2 THEN DivideRoundNearest(at - next, p) ELSE 0
    BY DEF PeriodsToBackfill
  <2> HIDE DEF next, at, p, k
  <2>3. at > next + p \div 2 => at - next \in Nat
    BY <2>1
  <2>4. \A a \in Nat : DivideRoundNearest(a, p) \in Nat
    BY <2>1 DEF DivideRoundNearest
  <2> QED BY <2>2, <2>3, <2>4
<1>3. new \in Int /\ new # EMPTY
  <2>1. rate \in Int /\ -rate \in Int /\ markets[m].indexPrice \in Int
    BY MarketAssumption DEF IInv, TypeOK, Market
  <2>2. QuoteValue(markets[m].indexPrice, -rate) # EMPTY
    BY SentinelAssumption DEF NoSentinel
  <2> QED BY <2>1, <2>2, QuoteValueType DEF FundingMultiplier
<1> HIDE DEF k, new
<1>4. zeros \in Seq(Int) /\ \A i \in 1..Len(zeros) : zeros[i] = 0
  <2>1. zeros \in [1..k -> Int] /\ \A i \in DOMAIN zeros : zeros[i] = 0
    OBVIOUS
  <2> HIDE DEF zeros
  <2>2. zeros \in Seq(Int)
    BY <1>2, <2>1, SeqDef
  <2> QED BY <2>1, <2>2, LenProperties
<1>5. /\ more \in Seq(Int) /\ Len(more) \in Nat
      /\ \A i \in 1..Len(more) : more[i] # EMPTY
  <2> HIDE DEF zeros
  <2>1. Len(zeros) \in Nat
    BY <1>4, LenProperties
  <2>2. /\ more \in Seq(Int) /\ Len(more) = Len(zeros) + 1
        /\ \A i \in 1..Len(zeros) : more[i] = zeros[i]
        /\ more[Len(zeros) + 1] = new
    BY <1>3, <1>4, AppendProperties
  <2> HIDE DEF more
  <2>3. ASSUME NEW i \in 1..Len(more)
        PROVE  more[i] # EMPTY
    <3>1. CASE i \in 1..Len(zeros)
      BY <1>4, <2>2, <3>1, SentinelAssumption
    <3>2. CASE i = Len(zeros) + 1
      BY <1>3, <2>2, <3>2
    <3> QED BY <2>1, <2>2, <3>1, <3>2
  <2> QED BY <2>1, <2>2, <2>3
<1>6. history' = [history EXCEPT ![m] = h \o more] /\ markets' = markets
  BY DEF PublishFundingMultiplier, k, new
<1> HIDE DEF more, zeros
<1>7. /\ Len(h \o more) = Len(h) + Len(more)
      /\ \A i \in 1..(Len(h) + Len(more)) :
            (h \o more)[i] = IF i <= Len(h) THEN h[i] ELSE more[i - Len(h)]
  <2> HIDE DEF h
  <2> QED BY <1>1, <1>5, ConcatProperties
<1>8. \A i \in 1..Len(h \o more) : (h \o more)[i] # EMPTY
  <2> SUFFICES ASSUME NEW i \in 1..Len(h \o more)
               PROVE  (h \o more)[i] # EMPTY
    OBVIOUS
  <2>1. \A j \in 1..Len(h) : h[j] # EMPTY
    BY DEF NoSentinel
  <2> HIDE DEF h
  <2>2. CASE i <= Len(h)
    <3>1. i \in 1..Len(h) /\ i \in 1..(Len(h) + Len(more))
      BY <1>1, <1>5, <1>7, <2>2
    <3> QED BY <1>7, <2>1, <2>2, <3>1
  <2>3. CASE ~(i <= Len(h))
    <3>1. i - Len(h) \in 1..Len(more) /\ i \in 1..(Len(h) + Len(more))
      BY <1>1, <1>5, <1>7, <2>3
    <3> QED BY <1>5, <1>7, <2>3, <3>1
  <2> QED BY <2>2, <2>3
<1>9. ASSUME NEW x \in Markets
      PROVE  history'[x] = IF x = m THEN h \o more ELSE history[x]
  BY <1>6 DEF IInv, TypeOK
<1> HIDE DEF h
<1>10. ASSUME NEW x \in Markets, NEW i \in 1..Len(history'[x])
       PROVE  history'[x][i] # EMPTY
  <2>1. CASE x = m
    BY <1>8, <1>9, <1>10, <2>1
  <2>2. CASE x # m
    BY <1>9, <1>10, <2>2 DEF NoSentinel
  <2> QED BY <2>1, <2>2
<1> QED BY <1>6, <1>10 DEF NoSentinel

\* Nothing else publishes.
LEMMA OthersPublishNothing ==
    ASSUME CustodyNext \/ TradingNext \/ LiquidationNext \/ DeleveragingNext \/ WalletExitsNext
             \/ Tick \/ UNCHANGED vars
    PROVE  UNCHANGED <<markets, history>>
<1> USE DEF marketVars
<1>1. CASE CustodyNext
  BY <1>1 DEF CustodyNext, SetDepositIndex, SetDepositEnabled, Deposit, ApplyPendingDeposits,
     TransferQuote, Withdraw
<1>2. CASE TradingNext
  <2>1. ASSUME NEW trade, NEW buy, NEW sell, ExecuteTrade(trade, buy, sell)
        PROVE  UNCHANGED <<markets, history>>
    BY <2>1 DEF ExecuteTrade
  <2>2. ASSUME NEW w, NEW timestamp, InvalidateNonce(w, timestamp)
        PROVE  UNCHANGED <<markets, history>>
    BY <2>2, SMTT(60) DEF InvalidateNonce
  <2> QED BY <1>2, <2>1, <2>2 DEF TradingNext
<1>3. CASE LiquidationNext
  BY <1>3 DEF LiquidationNext, LiquidateWalletInMaintenance,
     LiquidateWalletInMaintenanceDuringSystemRecovery, LiquidateWalletExit,
     LiquidatePositionBelowMinimum, LiquidatePositionInDeactivatedMarket
<1>4. CASE DeleveragingNext
  BY <1>4 DEF DeleveragingNext, DeleverageInMaintenanceAcquisition, DeleverageExitAcquisition,
     DeleverageInsuranceFundClosure, DeleverageExitFundClosure
<1>5. CASE WalletExitsNext
  BY <1>5 DEF WalletExitsNext, ExitWallet, ClearWalletExit, WithdrawExit, WithdrawExitAdmin,
     WithdrawPositions, WithdrawExitFund, SetExitFundWallet
<1>6. CASE Tick
  BY <1>6 DEF Tick
<1>7. CASE UNCHANGED vars
  BY <1>7 DEF vars
<1> QED BY <1>1, <1>2, <1>3, <1>4, <1>5, <1>6, <1>7

\* No transaction makes the sentinel a multiplier.
LEMMA NextNoSentinel ==
    ASSUME IInv, NoSentinel, [Next]_vars
    PROVE  NoSentinel'
<1>1. CASE CustodyNext \/ TradingNext \/ LiquidationNext \/ DeleveragingNext \/ WalletExitsNext
             \/ Tick \/ UNCHANGED vars
  BY <1>1, OthersPublishNothing, QuietNoSentinel
<1>2. CASE MarketAdminNext
  <2>1. ASSUME NEW m \in Markets, ActivateMarket(m) \/ DeactivateMarket(m)
        PROVE  NoSentinel'
    <3>1. history' = history
      BY <2>1 DEF ActivateMarket, DeactivateMarket
    <3>2. ASSUME NEW x \in Markets
          PROVE  markets'[x].indexPrice = markets[x].indexPrice
      <4>1. markets \in [Markets -> Market]
        BY DEF IInv, TypeOK
      <4>2. CASE ActivateMarket(m)
        BY <4>1, <4>2 DEF ActivateMarket, Market
      <4>3. CASE DeactivateMarket(m)
        BY <4>1, <4>3 DEF DeactivateMarket, Market
      <4> QED BY <2>1, <4>2, <4>3
    <3> QED BY <3>1, <3>2 DEF NoSentinel
  <2>2. CASE PriceNext
    <3>1. ASSUME NEW m \in Markets, NEW price \in IndexPrices, NEW at, PublishIndexPrice(m, price, at)
          PROVE  NoSentinel'
      BY <3>1 DEF NoSentinel, PublishIndexPrice, IInv, TypeOK, Market
    <3>2. ASSUME NEW m \in Markets, NEW price, OraclePriceChange(m, price)
          PROVE  NoSentinel'
      BY <3>2, QuietNoSentinel DEF OraclePriceChange
    <3> QED BY <2>2, <3>1, <3>2 DEF PriceNext
  <2>3. CASE FundingNext
    <3>1. ASSUME NEW w \in Wallets, NEW m \in Markets, ApplyOutstandingWalletFundingForMarket(w, m)
          PROVE  NoSentinel'
      BY <3>1, QuietNoSentinel DEF ApplyOutstandingWalletFundingForMarket, marketVars
    <3> QED BY <2>3, <3>1, PublishNoSentinel DEF FundingNext
  <2>4. CASE ParameterNext
    BY <2>4, QuietNoSentinel DEF ParameterNext, SetMarketOverrides, SetMarketDefaults,
       UnsetMarketOverridesForWallet, SetChainPropagationPeriod, marketVars
  <2> QED BY <1>2, <2>1, <2>2, <2>3, <2>4 DEF MarketAdminNext
<1> QED BY <1>1, <1>2 DEF Next

\* The multipliers are stored and found.
LEMMA NoSentinelPays ==
    ASSUME IInv, NoSentinel
    PROVE  QuartetsPayEachPeriod
<1> SUFFICES ASSUME NEW m \in Markets, NEW w \in Wallets,
                    NEW first \in 1..Len(history[m]), NEW last \in first..Len(history[m])
             PROVE  loadAggregatePayment(Quartets(history[m]), TimeOf(first), TimeOf(last),
                                         TimeOf(Len(history[m])), ledger.position[w][m].balance)
                      = AggregatePayment(history[m], first, last, ledger.position[w][m].balance)
  BY DEF QuartetsPayEachPeriod
<1>1. Storable(history[m])
  BY DEF Storable, NoSentinel, IInv, TypeOK
<1>2. ledger.position[w][m].balance \in Int
  BY DEF IInv, TypeOK, Ledger, Position
<1> QED BY <1>1, <1>2, QuartetsPay

\* Theorem.  However many multipliers are published and backfilled, a position
\* settled by way of the quartets is paid what each of the periods pays.
THEOREM QuartetsAlwaysPayEachPeriod == Spec => []QuartetsPayEachPeriod
<1>1. Init => IInv /\ NoSentinel
  BY InitSound, InitNoSentinel
<1>2. IInv /\ NoSentinel /\ [Next]_vars => IInv' /\ NoSentinel'
  BY NextSound, NextNoSentinel
<1>3. IInv /\ NoSentinel => QuartetsPayEachPeriod
  BY NoSentinelPays
<1>4. QED
  BY <1>1, <1>2, <1>3, PTL DEF Spec

\* Managers and providers publish nothing.
LEMMA ManagersPublishNothing ==
    ASSUME ManagedAccountsNext
    PROVE  UNCHANGED <<markets, history>>
<1> USE DEF marketVars
<1>1. ASSUME NEW provider, NEW w, AssociateManagerWalletWithManagedAccount(provider, w)
      PROVE  UNCHANGED <<markets, history>>
  BY <1>1 DEF AssociateManagerWalletWithManagedAccount, vars
<1>2. ASSUME NEW depositor, NEW manager, NEW units, NEW tokenFee,
             DepositToManagedAccount(depositor, manager, units, tokenFee)
      PROVE  UNCHANGED <<markets, history>>
  BY <1>2 DEF DepositToManagedAccount, Deposit
<1>3. ASSUME NEW w, NEW quantity, ApplyPendingDepositToManagedAccount(w, quantity)
      PROVE  UNCHANGED <<markets, history>>
  BY <1>3 DEF ApplyPendingDepositToManagedAccount, ApplyPendingDeposits
<1>4. ASSUME NEW r, NEW grossQuantity, NEW gasFee, SettleManagedWithdrawal(r, grossQuantity, gasFee)
      PROVE  UNCHANGED <<markets, history>>
  BY <1>4 DEF SettleManagedWithdrawal
<1>5. ASSUME NEW w, NEW rounding,
             \/ LiquidateManagerWalletInMaintenance(w, rounding)
             \/ LiquidateManagerWalletInMaintenanceDuringSystemRecovery(w, rounding)
      PROVE  UNCHANGED <<markets, history>>
  BY <1>5 DEF LiquidateManagerWalletInMaintenance,
     LiquidateManagerWalletInMaintenanceDuringSystemRecovery
<1>6. ASSUME NEW w, NEW counterparty, NEW m, NEW base, NEW quote,
             DeleverageManagerInMaintenanceAcquisition(w, counterparty, m, base, quote)
      PROVE  UNCHANGED <<markets, history>>
  BY <1>6 DEF DeleverageManagerInMaintenanceAcquisition
<1>7. ASSUME NEW w, NEW quantity, WithdrawExitFromManagedAccount(w, quantity)
      PROVE  UNCHANGED <<markets, history>>
  BY <1>7 DEF WithdrawExitFromManagedAccount
<1>8. ASSUME NEW providers, SetManagedAccountProviders(providers)
      PROVE  UNCHANGED <<markets, history>>
  BY <1>8 DEF SetManagedAccountProviders, vars
<1> QED BY <1>1, <1>2, <1>3, <1>4, <1>5, <1>6, <1>7, <1>8
        DEF ManagedAccountsNext, ApplyPendingWithdrawalFromManagedAccount,
            CancelPendingWithdrawalFromManagedAccount

\* Theorem.  So are the positions of an Exchange with managed accounts.
THEOREM QuartetsPayEachPeriodWithManagers == ManagedSpec => []QuartetsPayEachPeriod
<1>1. ManagedInit => IInv /\ NoSentinel
  BY InitSound, InitNoSentinel DEF ManagedInit
<1>2. IInv /\ NoSentinel /\ [ManagedNext]_allVars => IInv' /\ NoSentinel'
  <2> SUFFICES ASSUME IInv, NoSentinel, [ManagedNext]_allVars
               PROVE  NoSentinel'
    BY ManagedStepSound
  <2>1. CASE ManagedAccountsNext
    BY <2>1, ManagersPublishNothing, QuietNoSentinel
  <2>2. CASE ForAnyWallet \/ \E w \in Wallets : ForOtherWallets(w)
    BY <2>2, OrdinaryStep, NextNoSentinel
  <2>3. CASE UNCHANGED allVars
    BY <2>3, NextNoSentinel DEF allVars, vars
  <2> QED BY <2>1, <2>2, <2>3 DEF ManagedNext
<1>3. IInv /\ NoSentinel => QuartetsPayEachPeriod
  BY NoSentinelPays
<1>4. QED
  BY <1>1, <1>2, <1>3, PTL DEF ManagedSpec

================================================================================
