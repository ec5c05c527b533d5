-------------------------- MODULE MCTradeExecution --------------------------
(* Two trades of one user that fill in different hours.                    *)
EXTENDS TradeExecution, TLC

CONSTANTS u1, t1, t2

MCOwner == [t \in Trade |-> u1]
MCRank == [t \in Trade |-> IF t = t1 THEN 1 ELSE 2]

\* With one run: the market is closed in hour 2.  t2 cannot be evaluated in
\* hour 1 and later fills only once t1 has.
SerialOpenHours == {1, 3}
SerialOutcome(t, h, fills) ==
    CASE t = t1 -> "executed"
      [] t = t2 /\ h = 1 -> "raises"
      [] OTHER -> IF \E f \in fills : f[1] = t1 THEN "executed" ELSE "stays_open"

\* Orders for hours that pass before the clock stops: no run would come to the
\* others.
OrdersOfPassedHours == \A t \in Trade : activeFrom[t] < MaxHour

\* With two runs: t1 waits in hour 1.
OverlapOpenHours == {1, 2}
OverlapOutcome(t, h, fills) == IF h = 1 THEN "stays_open" ELSE "executed"

\* Runs differ in nothing but their names.
RunSymmetry == Permutations(Run)
=============================================================================
