---------------------------- MODULE MCOrderFill ----------------------------
(* Small prices and amounts that no price divides evenly.                  *)
EXTENDS OrderFill

MCMarketPrices == 2..4
MCRequestedPrices == {1, 3, 5}
MCQuantities == {2, 3}
MCValues == {2, 5, 6}
=============================================================================
