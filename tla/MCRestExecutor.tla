--------------------------- MODULE MCRestExecutor ---------------------------
(***************************************************************************)
(* Instances of RestExecutor for TLC.                                      *)
(***************************************************************************)
EXTENDS RestExecutor

CONSTANTS h, c   \* legs; h is the hard one

PairLegs == {h, c}

\* A multi-outcome arb: a market per leg, other ones in each attempt.
MarketPerKey == [k \in (1..MaxAttempts) \X Legs |-> k]

\* A binary arb: yes and no of one market.
OneMarket == [k \in (1..MaxAttempts) \X Legs |-> "market"]
BinaryYes == {h}
=============================================================================
