----------------------------- MODULE OrderFill -----------------------------
(***************************************************************************)
(* How one order is tried against one hourly price window: the six         *)
(* _try_execute_* functions of                                             *)
(* app/services/trade_execution_service.py.                                *)
(*                                                                         *)
(* Quantities are counted in thousandths of a share, the grain             *)
(* _value_to_quantity rounds to, and money in thousandths of the price     *)
(* unit, so quantity * price is an amount of money and every number is an  *)
(* integer.  The program computes with floats: rounding errors of the      *)
(* binary representation are left out, and so is the OverflowError of a    *)
(* value divided by a price close to zero (TradeExecution has its effect). *)
(*                                                                         *)
(* An order touches only the holding of its own symbol, so a portfolio is  *)
(* the cash and that one holding; new_holdings copies the others.          *)
(***************************************************************************)
EXTENDS Integers

CONSTANTS
    None,             \* an optional field that is not set
    MarketPrices,     \* prices a window can quote
    RequestedPrices,  \* limit and stop prices an order can carry
    Quantities,       \* share quantities an order can carry
    Values,           \* amounts of money an order can carry
    StartingCash,     \* cash of a new portfolio
    MaxCash,          \* bound: portfolios richer than this are not followed
    MaxHeld           \* bound: nor those that hold more than this

ASSUME NoneAssumption == None \notin Int
\* TradeInput refuses a requested_price, quantity or value that is not positive.
ASSUME PricesAssumption == /\ MarketPrices \subseteq Nat \ {0}
                           /\ RequestedPrices \subseteq Nat \ {0}
ASSUME AmountsAssumption == /\ Quantities \subseteq Nat \ {0}
                            /\ Values \subseteq Nat \ {0}
ASSUME CashAssumption == StartingCash \in Nat /\ MaxCash \in Nat /\ MaxHeld \in Nat

BuyKinds == {"market_buy", "limit_buy", "stop_buy"}
SellKinds == {"market_sell", "limit_sell", "stop_sell"}
MarketKinds == {"market_buy", "market_sell"}
StopKinds == {"stop_buy", "stop_sell"}

Orders == [kind : BuyKinds \cup SellKinds,
           price : RequestedPrices \cup {None},
           quantity : Quantities \cup {None},
           value : Values \cup {None}]

\* One symbol's bar of an hour; a symbol that stopped trading has None.
Bars == {b \in [open : MarketPrices, high : MarketPrices, low : MarketPrices] :
            b.low <= b.open /\ b.open <= b.high}

Portfolios == [cash : Int, held : Int]

Results == {"success", "insufficient_funds", "symbol_unavailable",
            "malformed_request", "stays_open"}

-----------------------------------------------------------------------------
(* The helpers.                                                            *)

\* Exactly one of quantity and value is given.
IsQuantityAndValueValid(o) == (o.quantity = None) # (o.value = None)

\* Market orders carry no price; every other kind needs one.
IsMalformed(o) ==
    \/ ~IsQuantityAndValueValid(o)
    \/ o.kind \notin MarketKinds /\ o.price = None

TriggeredLikeALimit(o, bar) ==
    \/ o.kind \in MarketKinds
    \/ o.kind \in BuyKinds /\ bar.low <= o.price
    \/ o.kind \in SellKinds /\ bar.high >= o.price

\* Whether the window reaches the price the order waits for.
Triggered(o, bar) ==
    \/ o.kind \in MarketKinds
    \/ o.kind \in {"limit_buy", "stop_sell"} /\ bar.low <= o.price
    \/ o.kind \in {"limit_sell", "stop_buy"} /\ bar.high >= o.price

\* The price a value order is converted to a quantity at.
SizingPrice(o, bar) == IF o.kind \in MarketKinds THEN bar.open ELSE o.price

\* The window opens beyond the price of a stop order.
GapsOver(o, bar) ==
    \/ o.kind = "stop_buy" /\ bar.open > o.price
    \/ o.kind = "stop_sell" /\ bar.open < o.price

\* The price the trade settles at.  A stop that the window gaps over
\* settles at the open.
FillPrice(o, bar) ==
    IF o.kind \in MarketKinds \/ GapsOver(o, bar) THEN bar.open ELSE o.price

\* Buys round down and sells round up to a thousandth of a share.
ValueToQuantityRoundedDown(value, price, buying) == value \div price
ValueToQuantity(value, price, buying) ==
    IF buying THEN value \div price ELSE (value + price - 1) \div price

Quantity(o, bar) ==
    IF o.quantity # None
    THEN o.quantity
    ELSE ValueToQuantity(o.value, SizingPrice(o, bar), o.kind \in BuyKinds)

AffordsAtSizingPrice(o, bar, p) ==
    IF o.kind \in BuyKinds
    THEN p.cash >= Quantity(o, bar) * SizingPrice(o, bar)
    ELSE p.held >= Quantity(o, bar)
Affords(o, bar, p) ==
    IF o.kind \in BuyKinds
    THEN p.cash >= Quantity(o, bar) * FillPrice(o, bar)
    ELSE p.held >= Quantity(o, bar)

-----------------------------------------------------------------------------
(* _try_execute_trade.                                                     *)

ResultRejectsUnaffordable(o, bar, p) ==
    IF bar = None /\ (o.kind = "market_sell" \/ ~IsMalformed(o)) THEN "symbol_unavailable"
    ELSE IF IsMalformed(o) THEN "malformed_request"
    ELSE IF ~Triggered(o, bar) THEN "stays_open"
    ELSE IF ~Affords(o, bar, p) THEN "rejected"
    ELSE "success"

\* The checks come in this order; market_sell alone looks for the price
\* before it looks at the request.
Result(o, bar, p) ==
    IF bar = None /\ (o.kind = "market_sell" \/ ~IsMalformed(o)) THEN "symbol_unavailable"
    ELSE IF IsMalformed(o) THEN "malformed_request"
    ELSE IF ~Triggered(o, bar) THEN "stays_open"
    ELSE IF ~Affords(o, bar, p) THEN "insufficient_funds"
    ELSE "success"

SettledAtSizingPrice(o, bar, p) ==
    IF o.kind \in BuyKinds
    THEN [cash |-> p.cash - Quantity(o, bar) * SizingPrice(o, bar),
          held |-> p.held + Quantity(o, bar)]
    ELSE [cash |-> p.cash + Quantity(o, bar) * SizingPrice(o, bar),
          held |-> p.held - Quantity(o, bar)]

\* The portfolio after a trade that succeeds.
Settled(o, bar, p) ==
    IF o.kind \in BuyKinds
    THEN [cash |-> p.cash - Quantity(o, bar) * FillPrice(o, bar),
          held |-> p.held + Quantity(o, bar)]
    ELSE [cash |-> p.cash + Quantity(o, bar) * FillPrice(o, bar),
          held |-> p.held - Quantity(o, bar)]

PortfolioAfter(o, bar, p) ==
    IF Result(o, bar, p) = "success" THEN Settled(o, bar, p) ELSE p

-----------------------------------------------------------------------------
(* A portfolio that any orders are tried against, one after another.       *)

VARIABLE portfolio

Init == portfolio = [cash |-> StartingCash, held |-> 0]

TryExecuteTrade(o, bar) ==
    /\ PortfolioAfter(o, bar, portfolio).cash <= MaxCash
    /\ PortfolioAfter(o, bar, portfolio).held <= MaxHeld
    /\ portfolio' = PortfolioAfter(o, bar, portfolio)

Next == \E o \in Orders, bar \in Bars \cup {None} : TryExecuteTrade(o, bar)

Spec == Init /\ [][Next]_portfolio

-----------------------------------------------------------------------------
(* Properties.                                                             *)

\* A portfolio holds integers and every try ends in one of the results of
\* TradeExecutionResult or leaves the order open.
TypeOK ==
    /\ portfolio \in Portfolios
    /\ \A o \in Orders, bar \in Bars \cup {None} : Result(o, bar, portfolio) \in Results

\* No sequence of orders takes the cash or the holding below zero, whatever
\* the prices: the checks against portfolio.cash and held_quantity use the
\* amount that is then settled.
NoOverdraft == portfolio.cash >= 0 /\ portfolio.held >= 0

\* Nobody trades at a better price than the window offered: a buyer never
\* pays less than the low and a seller never gets more than the high, and
\* market and stop orders settle inside the window.
FillIsHonest ==
    \A o \in Orders, bar \in Bars :
        Result(o, bar, portfolio) = "success" =>
            /\ o.kind \in BuyKinds => FillPrice(o, bar) >= bar.low
            /\ o.kind \in SellKinds => FillPrice(o, bar) <= bar.high
            /\ o.kind \in MarketKinds \cup StopKinds =>
                   bar.low <= FillPrice(o, bar) /\ FillPrice(o, bar) <= bar.high

\* What a fill takes from cash it puts into the holding at the recorded fill
\* price, and the reverse: a trade does not change what the portfolio is
\* worth at the price it settled at.
WorthConserved ==
    \A o \in Orders, bar \in Bars :
        Result(o, bar, portfolio) = "success" =>
            LET after == Settled(o, bar, portfolio)
                worth(p) == p.cash + p.held * FillPrice(o, bar)
            IN  worth(after) = worth(portfolio)

\* A trade of this value spends no more than the value it asks for, and
\* acquires no less: the comments of _value_to_quantity.
ValueKept(o, bar, p) ==
    (o.value # None /\ Result(o, bar, p) = "success") =>
        LET moved == Quantity(o, bar) * FillPrice(o, bar)
        IN  IF o.kind \in BuyKinds THEN moved <= o.value ELSE moved >= o.value

\* Market and limit orders given by value stay within it, and miss it by
\* less than a thousandth of a share.
MarketAndLimitKeepValue ==
    \A o \in Orders, bar \in Bars :
        (o.kind \notin StopKinds) =>
            /\ ValueKept(o, bar, portfolio)
            /\ (o.value # None /\ Result(o, bar, portfolio) = "success") =>
                   LET missed == Quantity(o, bar) * FillPrice(o, bar) - o.value
                   IN  -FillPrice(o, bar) < missed /\ missed < FillPrice(o, bar)

\* "required value must not exceed the requested value", "acquired value
\* must not be less than the requested value": stop orders size the trade at
\* the stop price and settle it at the open when the window gaps over it.
StopsKeepValue ==
    \A o \in Orders, bar \in Bars :
        (o.kind \in StopKinds) => ValueKept(o, bar, portfolio)
=============================================================================
