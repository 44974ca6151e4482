---------------------------- MODULE MCStockFeed ----------------------------
(* An instance of StockFeed. *)
EXTENDS StockFeed

CONSTANTS k1, k2, b1
=============================================================================
