---------------------------- MODULE MarketHours ----------------------------
(***************************************************************************)
(* Hours, the clock and the market, as the market data service             *)
(* (app/services/market_data_service.py) and its data source see them.     *)
(*                                                                         *)
(* The clock is finer than an hour: HourLength units make one, and hour h  *)
(* lasts from h * HourLength to (h + 1) * HourLength.                      *)
(***************************************************************************)
EXTENDS Integers

CONSTANTS
    Symbol,
    HourLength,     \* units of the clock in an hour
    AlpacaLatency,  \* how long bars stay out of reach of a query
    Margin,         \* _alpaca_latency(): the latency the program allows for
    FirstHour,      \* bounds: the oldest hour asked for,
    FirstNow,       \* the clock's first
    MaxNow          \* and last value

ASSUME ClockAssumption ==
    /\ HourLength \in Nat \ {0}
    /\ AlpacaLatency \in Nat
    /\ Margin \in Nat
    /\ FirstHour \in Int
    /\ FirstNow \in Int
    /\ MaxNow \in Int

\* "Alpaca 15-minute latency (+1 minute tolerance)".
ASSUME LatencyAssumption == AlpacaLatency <= Margin

\* The last hour the clock reaches.
LastHour == MaxNow \div HourLength
Hour == FirstHour .. LastHour

\* An hour's bars: the symbols that trade in it once it is over.
Markets == [Hour -> SUBSET Symbol]

MinOf(a, b) == IF a <= b THEN a ELSE b

\* HourlyDate.last_passed_hour.
LastPassedHour(time) == (time - HourLength - Margin) \div HourLength
=============================================================================
