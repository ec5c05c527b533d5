------------------------- MODULE MCTradeSubmission -------------------------
(* Two requests over a day and its midnight.                             *)
EXTENDS TradeSubmission, TLC

\* Users, trades and requests differ in nothing but their names.
Symmetry == Permutations(User) \cup Permutations(Trade) \cup Permutations(Request)
=============================================================================
