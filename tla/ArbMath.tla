------------------------------ MODULE ArbMath ------------------------------
(***************************************************************************)
(* The arithmetic of an arbitrage: Kalshi's fees (math/fees.py), the two   *)
(* detectors (math/arbitrage.py) and what a leg pays when its market       *)
(* resolves (motor_rest_arb/settlement.py).  Prices are whole cents.       *)
(***************************************************************************)
EXTENDS Integers, FiniteSets, FiniteSetsExt, Functions

\* Rounded up to the whole.
CeilDiv(n, d) == (n + d - 1) \div d

\* The fee of a taker, rounded up to the cent once per order.
kalshi_fee_cents(count, price) ==
  CeilDiv(7 * count * price * (100 - price), 10000)

\* The fee of a resting order: a quarter, times the multiplier num/den of the series.
kalshi_maker_fee_cents(count, price, num, den) ==
  CeilDiv(7 * count * price * (100 - price) * num, 40000 * den)

----------------------------------------------------------------------------
\* A leg is what to buy: market, side, price and the size seen at that price.
\* An arb buys the same count of every leg.  No arb is the empty set.
Asks(legs)        == SumFunction([l \in legs |-> l.price])
Fees(legs, count) == SumFunction([l \in legs |-> kalshi_fee_cents(count, l.price)])

Opportunity(legs, max_count) ==
  LET count == Min({l.size : l \in legs} \cup {max_count})
  IN  [legs |-> legs, count |-> count, cost |-> Asks(legs) * count,
       net |-> (100 - Asks(legs)) * count - Fees(legs, count)]

Worth(opp) == Asks(opp.legs) < 100 /\ opp.count > 0 /\ opp.net > 0

detect_binary_arb(market, yes_ask, yes_size, no_ask, no_size, max_count) ==
  LET legs == { [market |-> market, side |-> "yes", price |-> yes_ask, size |-> yes_size],
                [market |-> market, side |-> "no",  price |-> no_ask,  size |-> no_size] }
  IN  {opp \in {Opportunity(legs, max_count)} : Worth(opp)}

\* quotes: the ask and size of each of the markets
detect_multi_outcome_arb(markets, quotes, max_count) ==
  LET legs == { [market |-> m, side |-> "yes", price |-> quotes[m].ask, size |-> quotes[m].size]
                  : m \in markets }
  IN  {opp \in {Opportunity(legs, max_count)} : Worth(opp)}

\* edge_pct, net over cost, compared with a threshold in tenths of a percent.
EdgeBelow(opp, tenths) == opp.net * 1000 < tenths * opp.cost
EdgeAbove(opp, tenths) == opp.net * 1000 > tenths * opp.cost

----------------------------------------------------------------------------
\* The settled PnL of a row, fees included.  A filled sell opened the other side.
_leg_pnl_cents(action, row_side, row_price, count, fees, result) ==
  LET sold  == action = "sell"
      side  == IF sold THEN (IF row_side = "yes" THEN "no" ELSE "yes") ELSE row_side
      price == IF sold THEN 100 - row_price ELSE row_price
  IN  (IF side = result THEN (100 - price) * count ELSE -price * count) - fees
=============================================================================
