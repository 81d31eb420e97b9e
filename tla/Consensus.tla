----------------------------- MODULE Consensus -----------------------------
(***************************************************************************)
(* Motor 2 (motor_2_consensus): it compares an event of Kalshi with the    *)
(* game of the odds feed it takes for the same one, at the fair value of   *)
(* the bookmakers' median without their margin, and bets on the one side   *)
(* with the best edge.  What happens to the bet later is module Exits, what*)
(* the risk manager allows module RiskGate.                                *)
(***************************************************************************)
EXTENDS ArbMath

CONSTANTS
  Games,      \* of the odds feed: id to names, sport, day and hour of the start
  Events,     \* of Kalshi: id to names, sport, and day and hour of the key, 0 for none
  GameOf,     \* the game each event is about
  LastHour,   \* bound: hours of the clock, 100 * day + hour
  MaxBets,    \* bound: events with a bet at a time
  Panels,     \* what bookmakers may offer: book to implied probabilities, fresh, complete
  MinBooks,   \* MOTOR_2_MIN_BOOKS
  Prices,     \* asks of Kalshi
  Quotes,     \* and what both sides of a market may ask
  Depths,     \* contracts visible at the ask
  Capital,    \* in cents
  StakePct,   \* MOTOR_2_MAX_STAKE_PCT; 0 for a quarter of Kelly
  FeeAtStake, \* MOTOR_2_FEE_AT_STAKE_COUNT
  MinBetEdge, \* MOTOR_2_MIN_EDGE_PCT
  MaxBetEdge, \* MOTOR_2_MAX_EDGE_PCT, at most MAX_PLAUSIBLE_EDGE
  MinEntry    \* MOTOR_2_MIN_ENTRY_CENTS, when the filter is on

ASSUME ConsensusAssumption ==
  /\ GameOf \in [DOMAIN Events -> DOMAIN Games]
  /\ Prices \subseteq 1..99 /\ Quotes \subseteq [yes : 1..99, no : 1..99] /\ Depths \subseteq Nat
  /\ Capital \in Nat \ {0} /\ StakePct \subseteq 0..100 /\ FeeAtStake \subseteq BOOLEAN
  /\ {MaxBets, MinBooks, MinBetEdge, MaxBetEdge, MinEntry, LastHour} \subseteq Nat
  /\ MaxBetEdge <= 15
  /\ IsFiniteSet(DOMAIN Games) /\ \A e \in DOMAIN Events : IsFiniteSet(Events[e].names)
  /\ \A panel \in Panels :
       /\ IsFiniteSet(DOMAIN panel)
       /\ \A s \in DOMAIN panel : panel[s].complete =>
            \A e \in DOMAIN Events : \A o \in Events[e].names : panel[s].implied[o] \in Nat \ {0}

VARIABLES
  hour,     \* the time of day, 100 * day + hour
  feed,     \* the games the odds feed lists
  sizing,   \* how stakes and fees are counted
  signal,   \* the signal of an event on its way to the executor, if any
  bets      \* contracts of the pending or filled row of each event

betVars == <<hour, feed, sizing, signal, bets>>

ConsensusInit ==
  /\ hour = 100 /\ feed = {} /\ signal = {}
  /\ sizing \in [stake : StakePct, feeAtStake : FeeAtStake]
  /\ bets = [e \in DOMAIN Events |-> 0]

Start(g) == 100 * Games[g].day + Games[g].hour

----------------------------------------------------------------------------
\* The games an event may be: the same sport, the same set of names.
match_outcomes(e) ==
  {g \in feed : Games[g].sport = Events[e].sport /\ Games[g].names = Events[e].names}

\* A mistaken choice: the first of those to come.
FirstToCome(e) ==
  LET later == {g \in match_outcomes(e) : Start(g) > hour}
  IN  {g \in later : \A h \in later : Start(g) <= Start(h)}

\* The one it is: of the day in its key, by the hour only if that day has several.
_select_candidate(e) ==
  LET found == match_outcomes(e)
      dated == {g \in found : Games[g].day = Events[e].day}
      timed == {g \in dated : Games[g].hour = Events[e].hour}
      one   == IF Events[e].day = 0 THEN found
               ELSE IF Cardinality(dated) = 1 THEN dated ELSE timed
  IN  {g \in one : Cardinality(one) = 1 /\ Start(g) > hour}

\* The value of rank k, and twice the median, of f over the books S.
Ranked(S, f, k) ==
  CHOOSE v \in {f[s] : s \in S} : /\ Cardinality({s \in S : f[s] < v}) <= k
                                  /\ Cardinality({s \in S : f[s] <= v}) > k

Median2(S, f) ==
  LET n == Cardinality(S)
  IN  Ranked(S, f, (n - 1) \div 2) + Ranked(S, f, n \div 2)

\* Fair values as fractions of one total, which takes the margin out.
_consensus_fair_probs(panel, names) ==
  LET usable == {s \in DOMAIN panel : panel[s].fresh /\ panel[s].complete}
      med(o) == Median2(usable, [s \in usable |-> panel[s].implied[o]])
      total  == SumFunction([o \in names |-> med(o)])
  IN  IF usable = {} \/ Cardinality(usable) < MinBooks
      THEN {}
      ELSE {[o \in names |-> [num |-> med(o), den |-> total]]}

----------------------------------------------------------------------------
\* The expected value of n contracts, in cents times fair.den: payout, price, fee.
NetValue(fair, ask, n) == n * (100 * fair.num - fair.den * ask) - fair.den * kalshi_fee_cents(n, ask)

\* The flat share, to the nearest cent.
StakeCents == (Capital * sizing.stake + 50) \div 100

_stake_count(ask) ==
  IF sizing.feeAtStake /\ sizing.stake > 0 THEN Max({1, StakeCents \div ask}) ELSE 1

_net_edge_pct(fair, ask) ==
  LET n == _stake_count(ask)
  IN  [num |-> NetValue(fair, ask, n), den |-> n * fair.den]

EdgeOver(edge, points) == edge.num > points * edge.den

\* A quarter of Kelly, at most five per cent of the capital, in contracts.
quarter_kelly_size(fair, ask) ==
  LET gain == 100 * fair.num - fair.den * ask
      odds == 4 * fair.den * (100 - ask)
  IN  IF gain <= 0 THEN 0
      ELSE IF 20 * gain > odds THEN (Capital * 5) \div (100 * ask)
      ELSE (gain * Capital) \div (odds * ask)

_size(fair, ask) ==
  IF sizing.stake > 0 THEN StakeCents \div ask ELSE quarter_kelly_size(fair, ask)

Complement(fair) == [fair EXCEPT !.num = fair.den - @]

\* Both sides of an outcome, within the band of plausible edges.
_signals_for_outcome(o, fair, ask) ==
  {s \in { [outcome |-> o, side |-> "yes", price |-> ask.yes, fair |-> fair],
           [outcome |-> o, side |-> "no",  price |-> ask.no,  fair |-> Complement(fair)] } :
     /\ EdgeOver(_net_edge_pct(s.fair, s.price), MinBetEdge)
     /\ ~EdgeOver(_net_edge_pct(s.fair, s.price), MaxBetEdge)}

\* One bet per event, the one with the largest edge.
_collapse_event_signals(found) ==
  LET edge(s) == _net_edge_pct(s.fair, s.price)
  IN  {s \in found : \A r \in found : edge(r).num * edge(s).den <= edge(s).num * edge(r).den}

\* Every game the event could be taken for is listed, that day or ever.
Complete(e) ==
  \A g \in DOMAIN Games \ feed :
    ~ /\ Games[g].names = Events[e].names /\ Games[g].sport = Events[e].sport
      /\ Events[e].day \in {0, Games[g].day}

\* A cycle of the poller finds at most one signal for an event, with live odds.
find_signals(e, panel, asks) ==
  /\ signal = {}
  /\ \E g \in _select_candidate(e) :
       \E fairs \in _consensus_fair_probs(panel, Events[e].names) :
         \E s \in _collapse_event_signals(
                    UNION {_signals_for_outcome(o, fairs[o], asks[o]) : o \in Events[e].names}) :
           signal' = {[event |-> e, line |-> g, seen |-> hour, sure |-> Complete(e), what |-> s]}
  /\ UNCHANGED <<hour, feed, sizing, bets>>

----------------------------------------------------------------------------
\* The executor: no bet on the event yet, the ask read again no higher, as much as
\* is visible, what the risk manager leaves; filled in part, or in doubt.
execute(s, ask, depth, n) ==
  /\ signal = {s}
  /\ bets[s.event] = 0 /\ Cardinality({e \in DOMAIN bets : bets[e] > 0}) < MaxBets
  /\ s.what.price >= MinEntry
  /\ ask <= s.what.price
  /\ n \in 1..Min({_size(s.what.fair, s.what.price), depth})
  /\ bets' = [bets EXCEPT ![s.event] = n]
  /\ signal' = {}
  /\ UNCHANGED <<hour, feed, sizing>>

\* Skipped, refused, cancelled, or filled with nothing.
Passed_over ==
  /\ signal # {}
  /\ signal' = {}
  /\ UNCHANGED <<hour, feed, sizing, bets>>

\* The row is settled, by an exit or by the market, and the event is free again.
Settled(e) ==
  /\ bets[e] > 0
  /\ bets' = [bets EXCEPT ![e] = 0]
  /\ UNCHANGED <<hour, feed, sizing, signal>>

\* The feed begins to list games, and drops those of its choice.
FeedLists(listed) ==
  /\ listed # feed
  /\ feed' = listed
  /\ UNCHANGED <<hour, sizing, signal, bets>>

\* Time passes: to the next start of a game.
Later(g) ==
  /\ Start(g) > hour /\ Start(g) <= LastHour
  /\ \A h \in DOMAIN Games : Start(h) > hour => Start(h) >= Start(g)
  /\ hour' = Start(g)
  /\ UNCHANGED <<feed, sizing, signal, bets>>

ConsensusNext ==
  \/ \E e \in DOMAIN Events, panel \in Panels :
       \E asks \in [Events[e].names -> Quotes] : find_signals(e, panel, asks)
  \/ \E s \in signal, ask \in Prices, depth \in Depths :
       \E n \in 1.._size(s.what.fair, s.what.price) : execute(s, ask, depth, n)
  \/ Passed_over
  \/ \E e \in DOMAIN Events : Settled(e)
  \/ \E listed \in SUBSET DOMAIN Games : FeedLists(listed)
  \/ \E g \in DOMAIN Games : Later(g)

----------------------------------------------------------------------------
(***************************************************************************)
(* A bet was priced with the line of its own game, before that game began, *)
(* if the feed listed every game of those teams that day: of a             *)
(* doubleheader with one game listed either event takes its line           *)
(* (detector.py:540).  It is worth its price: the expected value of the    *)
(* contracts really bought is positive, although the edge was measured at  *)
(* another count, and the stake is within five per cent of the capital or  *)
(* half a cent over the flat share, which is rounded (detector.py:249,267, *)
(* 271, executor.py:138-170).                                              *)
(***************************************************************************)
BetIsSound ==
  [][\A s \in signal : bets'[s.event] > bets[s.event] =>
       /\ s.sure => s.line = GameOf[s.event] /\ s.seen < Start(GameOf[s.event])
       /\ NetValue(s.what.fair, s.what.price, bets'[s.event]) > 0
       /\ 100 * bets'[s.event] * s.what.price <=
            IF sizing.stake > 0 THEN Capital * sizing.stake + 50 ELSE Capital * 5]_betVars
=============================================================================
