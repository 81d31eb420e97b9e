----------------------------- MODULE MCOrderBookV2 -----------------------------
(* Two markets of one sid.  A request is for one market, and at most two     *)
(* recoveries have requests under way.                                       *)
EXTENDS OrderBookV2, TLC

FourIds == 1 .. 4
ThreeIds == 1 .. 3
Permuted == Permutations(Tickers)
=============================================================================
