-------------------------- MODULE MCTradeProgress --------------------------
(* Two users with an order each, one of which cannot be evaluated.         *)
EXTENDS TradeProgress

CONSTANTS u1, u2, t1, t2

MCEarly == {{t1}, {t1, t2}}
MCOwner == [t \in Trade |-> IF t = t1 THEN u1 ELSE u2]
MCRank == [t \in Trade |-> 0]
MCOpenHours == {1, 2}
MCOutcome(t, h, fills) ==
    CASE t = t2 -> "raises"
      [] h = 1 -> "stays_open"
      [] OTHER -> "executed"
=============================================================================
