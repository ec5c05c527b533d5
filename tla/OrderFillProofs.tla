--------------------------- MODULE OrderFillProofs ---------------------------
(* What OrderFill guarantees for any prices, quantities, values and cash.    *)
EXTENDS OrderFill, TLAPS

LEMMA ProductOfNats == ASSUME NEW m \in Nat, NEW n \in Nat PROVE m * n \in Nat
  OBVIOUS

LEMMA ProductOfInts == ASSUME NEW m \in Int, NEW n \in Int PROVE m * n \in Int
  OBVIOUS

\* Dividing an amount by a positive price gives a quantity.
LEMMA QuotientOfNats ==
  ASSUME NEW m \in Nat, NEW n \in Nat \ {0}
  PROVE  m \div n \in Nat
  OBVIOUS

\* The prices of a trade that _try_execute_trade goes through with.
LEMMA PricesType ==
  ASSUME NEW o \in Orders, NEW bar \in Bars, ~IsMalformed(o)
  PROVE  /\ SizingPrice(o, bar) \in Nat \ {0}
         /\ FillPrice(o, bar) \in Nat \ {0}
  <1>1. bar.open \in Nat \ {0}
    BY PricesAssumption DEF Bars
  <1>2. o.kind \notin MarketKinds => o.price \in Nat \ {0}
    BY PricesAssumption DEF Orders, IsMalformed
  <1>3. SizingPrice(o, bar) \in Nat \ {0}
    BY <1>1, <1>2 DEF SizingPrice
  <1>4. FillPrice(o, bar) \in Nat \ {0}
    BY <1>1, <1>2 DEF FillPrice
  <1> QED
    BY <1>3, <1>4

\* A well-formed order comes to a whole number of thousandths, and not to
\* less than none.
LEMMA QuantityType ==
  ASSUME NEW o \in Orders, NEW bar \in Bars, ~IsMalformed(o)
  PROVE  Quantity(o, bar) \in Nat
  <1> DEFINE price == SizingPrice(o, bar)
  <1>1. price \in Nat \ {0}
    BY PricesType
  <1>2. CASE o.quantity # None
    BY <1>2, AmountsAssumption DEF Quantity, Orders
  <1>3. CASE o.quantity = None
    <2>1. o.value \in Nat \ {0}
      BY <1>3, AmountsAssumption DEF Orders, IsMalformed, IsQuantityAndValueValid
    <2>2. o.value + price - 1 \in Nat
      BY <1>1, <2>1
    <2>3. /\ o.value \div price \in Nat
          /\ (o.value + price - 1) \div price \in Nat
      BY <1>1, <2>1, <2>2, QuotientOfNats
    <2> QED
      BY <1>3, <2>3 DEF Quantity, ValueToQuantity
  <1> QED
    BY <1>2, <1>3

\* What success means: a bar, a well-formed order that it triggers, and a
\* portfolio that affords it.
LEMMA SuccessMeans ==
  ASSUME NEW o \in Orders, NEW bar \in Bars \cup {None}, NEW p \in Portfolios,
         Result(o, bar, p) = "success"
  PROVE  /\ bar # None => bar \in Bars
         /\ ~IsMalformed(o)
         /\ bar # None
         /\ Triggered(o, bar)
         /\ Affords(o, bar, p)
  BY DEF Result

-----------------------------------------------------------------------------
\* The portfolio after any try of an order is a portfolio without debts, if
\* the one before was.
LEMMA TryKeepsSolvent ==
  ASSUME NEW p \in Portfolios, p.cash >= 0, p.held >= 0,
         NEW o \in Orders, NEW bar \in Bars \cup {None}
  PROVE  /\ PortfolioAfter(o, bar, p) \in Portfolios
         /\ PortfolioAfter(o, bar, p).cash >= 0
         /\ PortfolioAfter(o, bar, p).held >= 0
  <1>1. CASE Result(o, bar, p) # "success"
    BY <1>1 DEF PortfolioAfter
  <1>2. CASE Result(o, bar, p) = "success"
    <2> DEFINE q == Quantity(o, bar)
               cost == q * FillPrice(o, bar)
    <2>1. bar \in Bars /\ ~IsMalformed(o) /\ Affords(o, bar, p)
      BY <1>2, SuccessMeans
    <2>2. q \in Nat /\ FillPrice(o, bar) \in Nat
      BY <2>1, PricesType, QuantityType
    <2>3. cost \in Nat
      BY <2>2, ProductOfNats
    <2>4. PortfolioAfter(o, bar, p) = Settled(o, bar, p)
      BY <1>2 DEF PortfolioAfter
    <2>5. CASE o.kind \in BuyKinds
      <3>1. p.cash >= cost
        BY <2>1, <2>5 DEF Affords
      <3>2. Settled(o, bar, p) = [cash |-> p.cash - cost, held |-> p.held + q]
        BY <2>5 DEF Settled
      <3> HIDE DEF q, cost
      <3> QED
        BY <2>2, <2>3, <2>4, <3>1, <3>2 DEF Portfolios
    <2>6. CASE o.kind \notin BuyKinds
      <3>1. p.held >= q
        BY <2>1, <2>6 DEF Affords
      <3>2. Settled(o, bar, p) = [cash |-> p.cash + cost, held |-> p.held - q]
        BY <2>6 DEF Settled
      <3> HIDE DEF q, cost
      <3> QED
        BY <2>2, <2>3, <2>4, <3>1, <3>2 DEF Portfolios
    <2> QED
      BY <2>5, <2>6
  <1> QED
    BY <1>1, <1>2

Solvent == portfolio \in Portfolios /\ NoOverdraft

\* The same invariant gives both: what a sell takes from the holding and a
\* buy from the cash is bounded by the check before it, and what they add is
\* not negative because prices are positive.
LEMMA AlwaysSolvent == Spec => []Solvent
  <1>1. Init => Solvent
    BY CashAssumption DEF Init, Solvent, Portfolios, NoOverdraft
  <1>2. Solvent /\ [Next]_portfolio => Solvent'
    <2> SUFFICES ASSUME Solvent, [Next]_portfolio PROVE Solvent'
      OBVIOUS
    <2>1. CASE Next
      <3>1. PICK o \in Orders, bar \in Bars \cup {None} :
               portfolio' = PortfolioAfter(o, bar, portfolio)
        BY <2>1 DEF Next, TryExecuteTrade
      <3> QED
        BY <3>1, TryKeepsSolvent DEF Solvent, NoOverdraft
    <2>2. CASE UNCHANGED portfolio
      BY <2>2 DEF Solvent, NoOverdraft
    <2> QED
      BY <2>1, <2>2
  <1> QED
    BY <1>1, <1>2, PTL DEF Spec

\* No sequence of orders takes the cash or a holding below zero, whatever the
\* prices, quantities and values: _try_execute_trade checks the amount it
\* settles.
THEOREM NeverOverdrawn == Spec => []NoOverdraft
  <1>1. Solvent => NoOverdraft
    BY DEF Solvent
  <1> QED
    BY <1>1, AlwaysSolvent, PTL

\* A portfolio stays a portfolio, and a try ends in one of the results the
\* code names.
THEOREM Typing == Spec => []TypeOK
  <1>1. Solvent => TypeOK
    BY DEF Solvent, TypeOK, Result, Results
  <1> QED
    BY <1>1, AlwaysSolvent, PTL

-----------------------------------------------------------------------------
\* Where a triggered order settles, kind by kind.
LEMMA WindowHolds ==
  ASSUME NEW o \in Orders, NEW bar \in Bars, ~IsMalformed(o), Triggered(o, bar)
  PROVE  /\ o.kind \in BuyKinds => FillPrice(o, bar) >= bar.low
         /\ o.kind \in SellKinds => FillPrice(o, bar) <= bar.high
         /\ o.kind \in MarketKinds \cup StopKinds =>
                bar.low <= FillPrice(o, bar) /\ FillPrice(o, bar) <= bar.high
  <1>1. /\ bar.low \in Nat /\ bar.open \in Nat /\ bar.high \in Nat
        /\ bar.low <= bar.open /\ bar.open <= bar.high
    BY PricesAssumption DEF Bars
  <1>2. o.kind \in BuyKinds \cup SellKinds
    BY DEF Orders
  <1>3. CASE o.kind \in MarketKinds
    BY <1>1, <1>3 DEF FillPrice
  <1>4. CASE o.kind \notin MarketKinds
    <2>1. o.price \in Nat
      BY <1>4, PricesAssumption DEF Orders, IsMalformed
    <2>2. o.kind \in {"limit_buy", "limit_sell", "stop_buy", "stop_sell"}
      BY <1>2, <1>4 DEF BuyKinds, SellKinds, MarketKinds
    <2> QED
      BY <1>1, <2>1, <2>2
      DEF FillPrice, GapsOver, Triggered, MarketKinds, BuyKinds, SellKinds, StopKinds
  <1> QED
    BY <1>3, <1>4

\* Nobody trades at a better price than the window offered: fill_price is
\* between the low and the high wherever the order kind promises it.
THEOREM FillsAreHonest == Spec => []FillIsHonest
  <1>1. Solvent => FillIsHonest
    <2> SUFFICES ASSUME Solvent, NEW o \in Orders, NEW bar \in Bars,
                        Result(o, bar, portfolio) = "success"
                 PROVE  /\ o.kind \in BuyKinds => FillPrice(o, bar) >= bar.low
                        /\ o.kind \in SellKinds => FillPrice(o, bar) <= bar.high
                        /\ o.kind \in MarketKinds \cup StopKinds =>
                               bar.low <= FillPrice(o, bar) /\ FillPrice(o, bar) <= bar.high
      BY DEF FillIsHonest
    <2>1. ~IsMalformed(o) /\ Triggered(o, bar)
      BY SuccessMeans DEF Solvent
    <2> QED
      BY <2>1, WindowHolds
  <1> QED
    BY <1>1, AlwaysSolvent, PTL

\* A fill does not change what the portfolio is worth at the price it is
\* settled at.
THEOREM WorthIsConserved == Spec => []WorthConserved
  <1>1. Solvent => WorthConserved
    <2> SUFFICES ASSUME Solvent, NEW o \in Orders, NEW bar \in Bars,
                        Result(o, bar, portfolio) = "success"
                 PROVE  LET after == Settled(o, bar, portfolio)
                            worth(p) == p.cash + p.held * FillPrice(o, bar)
                        IN  worth(after) = worth(portfolio)
      BY DEF WorthConserved
    <2> DEFINE q == Quantity(o, bar)
               price == FillPrice(o, bar)
    <2>1. ~IsMalformed(o)
      BY SuccessMeans DEF Solvent
    <2>2. q \in Int /\ price \in Int
      BY <2>1, QuantityType, PricesType
    <2>3. portfolio.cash \in Int /\ portfolio.held \in Int
      BY DEF Solvent, Portfolios
    <2>4. CASE o.kind \in BuyKinds
      <3>1. Settled(o, bar, portfolio) =
               [cash |-> portfolio.cash - q * price, held |-> portfolio.held + q]
        BY <2>4 DEF Settled
      <3> HIDE DEF q
      <3>2. ASSUME NEW c \in Int, NEW h \in Int, NEW x \in Int, NEW m \in Int
            PROVE  (c - x * m) + (h + x) * m = c + h * m
        OBVIOUS
      <3> QED
        BY <2>2, <2>3, <3>1, <3>2
    <2>5. CASE o.kind \notin BuyKinds
      <3>1. Settled(o, bar, portfolio) =
               [cash |-> portfolio.cash + q * price, held |-> portfolio.held - q]
        BY <2>5 DEF Settled
      <3> HIDE DEF q
      <3>2. ASSUME NEW c \in Int, NEW h \in Int, NEW x \in Int, NEW m \in Int
            PROVE  (c + x * m) + (h - x) * m = c + h * m
        OBVIOUS
      <3> QED
        BY <2>2, <2>3, <3>1, <3>2
    <2> QED
      BY <2>4, <2>5
  <1> QED
    BY <1>1, AlwaysSolvent, PTL

-----------------------------------------------------------------------------
\* Division rounds down by less than the divisor.
LEMMA Quotient ==
  ASSUME NEW m \in Nat, NEW n \in Nat \ {0}
  PROVE  /\ (m \div n) * n <= m
         /\ m - n < (m \div n) * n
  <1>1. m = n * (m \div n) + (m % n)
    OBVIOUS
  <1>2. m % n \in 0 .. n - 1
    OBVIOUS
  <1> DEFINE q == m \div n
             s == q * n
  <1>3. q \in Int /\ s = n * q
    OBVIOUS
  <1>4. s \in Int
    BY <1>3, ProductOfInts
  <1> HIDE DEF q
  <1>5. m = s + (m % n)
    BY <1>1, <1>3 DEF q
  <1> HIDE DEF s
  <1>6. s <= m /\ m - n < s
    BY <1>2, <1>4, <1>5
  <1> QED
    BY <1>6 DEF s, q

\* What an order by value comes to at its sizing price: at most the value for
\* a buy, at least the value for a sell, and within one price of it.
LEMMA SizedValue ==
  ASSUME NEW value \in Nat \ {0}, NEW price \in Nat \ {0}, NEW buying \in BOOLEAN
  PROVE  LET moved == ValueToQuantity(value, price, buying) * price
         IN  /\ moved \in Int
             /\ IF buying THEN moved <= value ELSE moved >= value
             /\ -price < moved - value /\ moved - value < price
  <1> DEFINE up == value + price - 1
             low == (value \div price) * price
             high == (up \div price) * price
  <1>1. up \in Nat
    OBVIOUS
  <1>2. low <= value /\ value - price < low
    BY Quotient
  <1>3. high <= value + price - 1 /\ value - 1 < high
    BY <1>1, Quotient
  <1>4. value \div price \in Nat /\ up \div price \in Nat
    BY <1>1, QuotientOfNats
  <1>5. low \in Int /\ high \in Int
    BY <1>4, ProductOfNats
  <1>6. CASE buying
    <2>1. ValueToQuantity(value, price, buying) * price = low
      BY <1>6 DEF ValueToQuantity
    <2> HIDE DEF low
    <2>2. low <= value /\ -price < low - value /\ low - value < price
      BY <1>2, <1>5
    <2> QED
      BY <1>5, <1>6, <2>1, <2>2, Zenon
  <1>7. CASE ~buying
    <2>1. ValueToQuantity(value, price, buying) * price = high
      BY <1>7 DEF ValueToQuantity
    <2> HIDE DEF high
    <2>2. high >= value /\ -price < high - value /\ high - value < price
      BY <1>3, <1>5
    <2> QED
      BY <1>5, <1>7, <2>1, <2>2, Zenon
  <1> QED
    BY <1>6, <1>7

\* Market and limit orders given by value keep the promise of
\* _value_to_quantity: they settle at the price they were sized at.
THEOREM MarketAndLimitValuesAreKept == Spec => []MarketAndLimitKeepValue
  <1>1. Solvent => MarketAndLimitKeepValue
    <2> SUFFICES ASSUME Solvent, NEW o \in Orders, NEW bar \in Bars,
                        o.kind \notin StopKinds, o.value # None,
                        Result(o, bar, portfolio) = "success"
                 PROVE  LET moved == Quantity(o, bar) * FillPrice(o, bar)
                        IN  /\ IF o.kind \in BuyKinds THEN moved <= o.value
                                                      ELSE moved >= o.value
                            /\ -FillPrice(o, bar) < moved - o.value
                            /\ moved - o.value < FillPrice(o, bar)
      BY DEF MarketAndLimitKeepValue, ValueKept
    <2> DEFINE price == SizingPrice(o, bar)
               buying == o.kind \in BuyKinds
    <2>1. ~IsMalformed(o)
      BY SuccessMeans DEF Solvent
    <2>2. price \in Nat \ {0}
      BY <2>1, PricesType
    <2>3. o.value \in Nat \ {0}
      BY AmountsAssumption DEF Orders
    <2>4. o.quantity = None
      BY <2>1 DEF IsMalformed, IsQuantityAndValueValid
    <2>5. Quantity(o, bar) = ValueToQuantity(o.value, price, buying)
      BY <2>4 DEF Quantity
    <2>6. FillPrice(o, bar) = price
      BY DEF FillPrice, SizingPrice, GapsOver, StopKinds
    <2>7. buying \in BOOLEAN
      OBVIOUS
    <2> HIDE DEF price
    <2> QED
      BY <2>2, <2>3, <2>5, <2>6, <2>7, SizedValue
  <1> QED
    BY <1>1, AlwaysSolvent, PTL
=============================================================================
