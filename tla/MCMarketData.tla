---------------------------- MODULE MCMarketData ---------------------------
(* Two queries and a clock that moves on, over hours of either kind.       *)
EXTENDS MarketData

CONSTANTS s1, s2

\* s1 trades on most days; s2 seldom, and not in the hours in between.
Markets1 == [hour \in Hour |-> IF hour < 2 THEN {} ELSE IF hour = 2 THEN {s1, s2} ELSE {s1}]
Markets2 == [hour \in Hour |-> IF hour % 2 = 0 THEN {s2} ELSE {}]
SomeMarkets == {Markets1, Markets2}

OneOrBoth == {{s1}, {s1, s2}}
=============================================================================
