----------------------------- MODULE RestEngine -----------------------------
(***************************************************************************)
(* The engine of the REST arbitrage (motor_rest_arb/engine.py, trigger.py):*)
(* every message of the ticker channel is looked at twice, as a crossed    *)
(* binary market and as the latest ask of one outcome of an event, and an  *)
(* arb that clears the thresholds starts a task, of which there is one.    *)
(* The RiskManager answers it with a count (module RiskGate) and the       *)
(* executor buys the legs (module RestExecutor).                           *)
(***************************************************************************)
EXTENDS ArbMath

CONSTANTS
  RestMarkets,   \* markets
  EventOf,       \* the event of each
  MultiEvents,   \* the events of MOTOR_REST_MULTI_SERIES
  Ticks,         \* messages: prices in tenths of a cent, sizes in hundredths
  DefaultCount,  \* max_count of the detectors
  Authorised,    \* what the RiskManager may authorise, in contracts
  MinEdge,       \* MOTOR_REST_MIN_EDGE_CENTS
  MinDepth,      \* MOTOR_REST_MIN_DEPTH, in contracts
  MinLegs,       \* MOTOR_REST_MULTI_MIN_LEGS
  ExecEdge,      \* MOTOR_REST_EXECUTION_EDGE_PCT, in tenths
  MaxEdge        \* MOTOR_REST_MAX_EDGE_PCT, in tenths

ASSUME RestEngineAssumption ==
  /\ IsFiniteSet(RestMarkets) /\ EventOf \in [RestMarkets -> STRING]
  /\ Ticks \subseteq [market : RestMarkets, bid : 0..1000, ask : 0..1000,
                      bid_size : Nat, ask_size : Nat]
  /\ Authorised \subseteq Nat
  /\ DefaultCount \in Nat \ {0} /\ MinDepth \in Nat \ {0} /\ MinLegs \in Nat \ {0, 1}
  /\ {MinEdge, ExecEdge, MaxEdge} \subseteq Nat

VARIABLES
  universe,   \* the markets the engine groups by event
  quotes,     \* the last ask of each market, and whether it is young enough
  flight      \* the execution under way

engineVars == <<universe, quotes, flight>>

NoQuote == [ask |-> 0, size |-> 0, fresh |-> FALSE]
Free    == [stage |-> "free"]

EngineInit ==
  /\ universe = {}
  /\ quotes = [m \in RestMarkets |-> NoQuote]
  /\ flight = Free

----------------------------------------------------------------------------
\* Python rounds a half to the even cent.
parse_price_to_cents(tenths) ==
  LET c == tenths \div 10
      r == tenths % 10
  IN  IF r > 5 \/ (r = 5 /\ c % 2 = 1) THEN c + 1 ELSE c

Tradeable(cents) == cents \in 1..99
Whole(size)      == size \div 100

Group(universe_, m) ==
  {n \in universe_ : EventOf[n] = EventOf[m] /\ EventOf[n] \in MultiEvents}

\* The crossed binary market of a message: buy yes at the ask and no at 100 - bid.
evaluate_ticker(t) ==
  LET bid == parse_price_to_cents(t.bid)
      ask == parse_price_to_cents(t.ask)
  IN  IF ~Tradeable(bid) \/ ~Tradeable(ask) \/ Min({t.bid_size, t.ask_size}) < 100 * MinDepth
      THEN {}
      ELSE {opp \in detect_binary_arb(t.market, ask, Whole(t.ask_size),
                                      100 - bid, Whole(t.bid_size), DefaultCount)
              : opp.net >= MinEdge}

\* The arb of a whole event: every outcome known, each with a fresh ask.
_evaluate_multi_outcome(quotes_, m) ==
  LET members == Group(universe, m)
  IN  IF \/ m \notin members
         \/ Cardinality(members) < MinLegs
         \/ \E n \in members : ~quotes_[n].fresh
      THEN {}
      ELSE detect_multi_outcome_arb(members, quotes_, DefaultCount)

_passes_exec_thresholds(opp) == ~EdgeBelow(opp, ExecEdge) /\ ~EdgeAbove(opp, MaxEdge)

\* The event is looked at first; what finds the engine busy is dropped.
on_ticker(t) ==
  LET ask    == parse_price_to_cents(t.ask)
      cached == Tradeable(ask) /\ t.ask_size > 0
      now    == IF cached
                THEN [quotes EXCEPT ![t.market] =
                        [ask |-> ask, size |-> Whole(t.ask_size), fresh |-> TRUE]]
                ELSE quotes
      multi  == {opp \in (IF cached THEN _evaluate_multi_outcome(now, t.market) ELSE {})
                   : _passes_exec_thresholds(opp)}
      binary == {opp \in evaluate_ticker(t) : _passes_exec_thresholds(opp)}
      first  == IF multi # {} THEN multi ELSE binary
  IN  /\ quotes' = now
      /\ flight' = IF flight = Free /\ first # {}
                   THEN [stage |-> "risk", opp |-> CHOOSE opp \in first : TRUE]
                   ELSE flight
      /\ UNCHANGED universe

\* A discovery tracked more markets, and the universe is rebuilt.
update_universe(tracked) ==
  /\ tracked # {}
  /\ universe' = universe \cup tracked
  /\ UNCHANGED <<quotes, flight>>

\* A quote grows older than MOTOR_REST_MULTI_MAX_QUOTE_AGE_SEC.
Expire(m) ==
  /\ quotes[m].fresh
  /\ quotes' = [quotes EXCEPT ![m].fresh = FALSE]
  /\ UNCHANGED <<universe, flight>>

----------------------------------------------------------------------------
\* A mistaken resize: the count alone.
ResizedInCount(opp, n) == {o \in {[opp EXCEPT !.count = n]} : n >= 1 /\ Worth(o)}

\* The same legs at the authorised count, every number computed again.
Resized(opp, n) == {o \in {Opportunity(opp.legs, n)} : n >= 1 /\ Worth(o)}

\* The RiskManager authorises n contracts; fees may eat the edge of so few.
RiskAllows(n) ==
  /\ flight.stage = "risk"
  /\ n \in 1..flight.opp.count
  /\ flight' = IF Resized(flight.opp, n) = {}
               THEN Free
               ELSE [stage |-> "executing", cap |-> n,
                     opp |-> CHOOSE o \in Resized(flight.opp, n) : TRUE]
  /\ UNCHANGED <<universe, quotes>>

\* It refuses, or raises.
RiskRefuses ==
  /\ flight.stage = "risk"
  /\ flight' = Free
  /\ UNCHANGED <<universe, quotes>>

\* The executor returns or raises: the finally of the task.
Executed ==
  /\ flight.stage = "executing"
  /\ flight' = Free
  /\ UNCHANGED <<universe, quotes>>

RiskAnswers == RiskRefuses \/ \E n \in Authorised : RiskAllows(n)

EngineNext ==
  \/ \E t \in Ticks : on_ticker(t)
  \/ \E tracked \in SUBSET (RestMarkets \ universe) : update_universe(tracked)
  \/ \E m \in RestMarkets : Expire(m)
  \/ RiskAnswers
  \/ Executed

----------------------------------------------------------------------------
\* The ways the markets of an arb may resolve: a binary one either way, an event
\* to one of its outcomes (if the engine knows them all).
Results(legs) ==
  LET markets == {l.market : l \in legs}
  IN  {r \in [markets -> {"yes", "no"}] :
         Cardinality(markets) = 1 \/ Cardinality({m \in markets : r[m] = "yes"}) = 1}

Pays(opp, r) ==
  SumFunction([l \in opp.legs |->
    _leg_pnl_cents("buy", l.side, l.price, opp.count,
                   kalshi_fee_cents(opp.count, l.price), r[l.market])])

(***************************************************************************)
(* What is handed to the executor locks a profit: within the count the     *)
(* risk manager authorised and the size seen at every price, whichever way *)
(* the markets resolve, the settlement of its legs pays the net it was     *)
(* accepted for, and that is positive.  Three pieces of code meet here:    *)
(* the detector, the resize and the settlement's own formula, with fees    *)
(* rounded up once per order (engine.py:364, arbitrage.py:111,             *)
(* settlement.py:107).                                                     *)
(***************************************************************************)
ArbPays ==
  flight.stage = "executing" =>
    /\ flight.opp.net > 0
    /\ flight.opp.count <= flight.cap
    /\ \A l \in flight.opp.legs : flight.opp.count <= l.size
    /\ \A r \in Results(flight.opp.legs) : Pays(flight.opp, r) = flight.opp.net
=============================================================================
