---------------------------- MODULE MCMarketMaker ----------------------------
(***************************************************************************)
(* Instances of MarketMaker for TLC.                                       *)
(***************************************************************************)
EXTENDS MarketMaker

BidsOnly  == [buy |-> 1, sell |-> 0]
BidsFirst == [buy |-> 2, sell |-> 1]
=============================================================================
