---------------------------- MODULE RulesProofs ----------------------------
(***************************************************************************)
(* Proofs about the calculations: the arbitrage engine (RestEngine), for   *)
(* every number of markets, prices and counts; the levels of a book        *)
(* (BookLevels), for every set of levels and changes; the quotes in shadow *)
(* (QuoteRules), for every set of fair values, books and fees, every       *)
(* spread, skew and size, and every cap on the inventory; the exits        *)
(* (ExitRules), for every lots, prices, thresholds and splits; and the     *)
(* bets of Motor 2 (Consensus), for every feed, panel, price and stake.    *)
(***************************************************************************)
EXTENDS RestEngine, ExitRules, BookLevels, QuoteRules, Consensus, Sums, SequenceTheorems

-----------------------------------------------------------------------------
(* The arbitrage engine (RestEngine) *)

EngineSpec == EngineInit /\ [][EngineNext]_engineVars

\* However the markets resolve, one leg pays and the others do not.
OneWins(legs) ==
  \A r \in Results(legs) :
    \E w \in legs : /\ r[w.market] = w.side
                    /\ \A l \in legs \ {w} : r[l.market] # l.side

LegSet(legs) ==
  /\ IsFiniteSet(legs)
  /\ legs \subseteq [market : RestMarkets, side : {"yes", "no"}, price : 1..99, size : Nat]
  /\ OneWins(legs)

\* An opportunity worth its fees, within the size seen at each of its prices.
Sound(o) ==
  /\ LegSet(o.legs)
  /\ o.count \in Nat \ {0} /\ \A l \in o.legs : o.count <= l.size
  /\ o.net > 0 /\ o.net = (100 - Asks(o.legs)) * o.count - Fees(o.legs, o.count)

\* A fee is a number of cents.
LEMMA FeeType ==
  ASSUME NEW n \in Nat, NEW p \in 1..99
  PROVE  kalshi_fee_cents(n, p) \in Int
BY DEF kalshi_fee_cents, CeilDiv

\* What an opportunity is at n contracts or fewer.
LEMMA OpportunityIsSound ==
  ASSUME NEW legs, LegSet(legs), NEW n \in Nat \ {0}, NEW o, o = Opportunity(legs, n), Worth(o)
  PROVE  Sound(o) /\ o.count <= n
<1>1. PICK h : h = [l \in legs |-> l.size]
  OBVIOUS
<1>2. PICK S : S = {l.size : l \in legs}
  OBVIOUS
<1>3. S = {h[l] : l \in legs} /\ S \subseteq Nat
  BY <1>1, <1>2 DEF LegSet
<1>4. IsFiniteSet(S \cup {n}) /\ S \cup {n} \subseteq Int /\ S \cup {n} # {}
  <2>1. IsFiniteSet(legs)
    BY DEF LegSet
  <2>2. IsFiniteSet(S)
    BY <1>3, <2>1, FiniteRange
  <2>. QED
    BY <1>3, <2>2, FS_AddElement
<1>5. PICK m : m = Min(S \cup {n})
  OBVIOUS
<1>6. m \in S \cup {n} /\ \A z \in S \cup {n} : m <= z
  BY <1>4, <1>5, MinOfSet
<1>7. /\ o.legs = legs /\ o.count = m
      /\ o.net = (100 - Asks(legs)) * m - Fees(legs, m)
  BY <1>2, <1>5 DEF Opportunity
<1>8. m \in Nat /\ m <= n /\ \A l \in legs : m <= l.size
  BY <1>2, <1>3, <1>6
<1>. QED
  BY <1>7, <1>8 DEF Sound, Worth

\* The settlement of the legs of an arb: a payout for one, a price and a fee for each.
LEMMA SettlesAtNet ==
  ASSUME NEW o, LegSet(o.legs), o.count \in Nat, NEW r \in Results(o.legs)
  PROVE  Pays(o, r) = (100 - Asks(o.legs)) * o.count - Fees(o.legs, o.count)
<1>1. PICK S, n : S = o.legs /\ n = o.count
  OBVIOUS
<1>2. PICK w \in S : r[w.market] = w.side /\ \A l \in S \ {w} : r[l.market] # l.side
  BY <1>1 DEF LegSet, OneWins
<1>3. PICK pays, asks, fees :
        /\ pays = [l \in S |-> _leg_pnl_cents("buy", l.side, l.price, n,
                                              kalshi_fee_cents(n, l.price), r[l.market])]
        /\ asks = [l \in S |-> l.price]
        /\ fees = [l \in S |-> kalshi_fee_cents(n, l.price)]
  OBVIOUS
<1>4. /\ Pays(o, r) = SumFunctionOnSet(pays, S)
      /\ Asks(o.legs) = SumFunctionOnSet(asks, S)
      /\ Fees(o.legs, o.count) = SumFunctionOnSet(fees, S)
  BY <1>1, <1>3 DEF Pays, Asks, Fees, SumFunction
<1>5. IsFiniteSet(S) /\ n \in Nat
  BY <1>1 DEF LegSet
<1>6. \A l \in S : asks[l] \in Int /\ fees[l] \in Int
  <2> SUFFICES ASSUME NEW l \in S PROVE asks[l] \in Int /\ fees[l] \in Int
    OBVIOUS
  <2>1. l.price \in 1..99
    BY <1>1 DEF LegSet
  <2>2. kalshi_fee_cents(n, l.price) \in Int
    BY <1>5, <2>1, FeeType
  <2>. QED
    BY <1>3, <2>1, <2>2
<1>7. \A l \in S : pays[l] = (IF l = w THEN 100 * n ELSE 0) - n * asks[l] - fees[l]
  <2> SUFFICES ASSUME NEW l \in S
               PROVE  pays[l] = (IF l = w THEN 100 * n ELSE 0) - n * asks[l] - fees[l]
    OBVIOUS
  <2>1. asks[l] = l.price /\ l.price \in Int /\ fees[l] = kalshi_fee_cents(n, l.price)
        /\ fees[l] \in Int
    BY <1>1, <1>3, <1>6 DEF LegSet
  <2>2. pays[l] = (IF l.side = r[l.market] THEN (100 - l.price) * n ELSE -l.price * n) - fees[l]
    BY <1>3, <2>1 DEF _leg_pnl_cents
  <2>3. (l.side = r[l.market]) <=> l = w
    BY <1>2
  <2>. QED
    BY <1>5, <2>1, <2>2, <2>3
<1>8. \A l \in S : pays[l] \in Int
  BY <1>5, <1>6, <1>7
<1> DEFINE V(f, T) == SumFunctionOnSet(f, T)
           P == {T \in SUBSET S :
                   V(pays, T) = (IF w \in T THEN 100 * n ELSE 0) - n * V(asks, T) - V(fees, T)}
<1>9. {} \in P
  <2>1. V(pays, {}) = 0 /\ V(asks, {}) = 0 /\ V(fees, {}) = 0
    BY SumStep, FS_EmptySet
  <2>. QED
    BY <1>5, <2>1
<1>10. ASSUME NEW T \in SUBSET S, NEW x \in S \ T, T \in P
       PROVE  T \cup {x} \in P
  <2>1. IsFiniteSet(T) /\ x \notin T
    BY <1>5, FS_Subset
  <2>2. V(asks, T) \in Int /\ V(fees, T) \in Int /\ V(pays, T) \in Int
    BY <1>6, <1>8, <2>1, SumType
  <2>3. /\ V(pays, T \cup {x}) = pays[x] + V(pays, T)
        /\ V(asks, T \cup {x}) = asks[x] + V(asks, T)
        /\ V(fees, T \cup {x}) = fees[x] + V(fees, T)
    BY <1>6, <1>8, <2>1, SumAdd
  <2>4. V(pays, T) = (IF w \in T THEN 100 * n ELSE 0) - n * V(asks, T) - V(fees, T)
    BY <1>10
  <2>5. pays[x] = (IF x = w THEN 100 * n ELSE 0) - n * asks[x] - fees[x]
    BY <1>7
  <2>6. w \in T \cup {x} <=> w \in T \/ x = w
    OBVIOUS
  <2>7. asks[x] \in Int /\ fees[x] \in Int
    BY <1>6
  <2> HIDE DEF V
  <2>8. n * (asks[x] + V(asks, T)) = n * asks[x] + n * V(asks, T)
    BY <1>5, <2>2, <2>7
  <2>9. n * asks[x] \in Int /\ n * V(asks, T) \in Int
    BY <1>5, <2>2, <2>7
  <2>10. V(pays, T \cup {x}) = (IF w \in T \cup {x} THEN 100 * n ELSE 0)
                               - n * V(asks, T \cup {x}) - V(fees, T \cup {x})
    BY <1>5, <2>1, <2>2, <2>3, <2>4, <2>5, <2>6, <2>7, <2>8, <2>9
  <2>. QED
    BY <2>10
<1>11. V(pays, S) = 100 * n - n * V(asks, S) - V(fees, S)
  <2>1. S \in P
    <3> HIDE DEF P
    <3>. QED
      BY <1>5, <1>9, <1>10, FiniteSetInduction
  <2>. QED
    BY <2>1
<1>12. V(asks, S) \in Int /\ V(fees, S) \in Int
  BY <1>5, <1>6, SumType
<1> HIDE DEF V, P
<1>13. (100 - V(asks, S)) * n = 100 * n - n * V(asks, S)
  BY <1>5, <1>12
<1>. QED
  BY <1>1, <1>4, <1>11, <1>12, <1>13 DEF V

\* Both sides of a market: one of them wins.
LEMMA BinaryLegs ==
  ASSUME NEW m \in RestMarkets, NEW a \in 1..99, NEW b \in 1..99, NEW i \in Nat, NEW j \in Nat,
         NEW legs, legs = { [market |-> m, side |-> "yes", price |-> a, size |-> i],
                            [market |-> m, side |-> "no",  price |-> b, size |-> j] }
  PROVE  LegSet(legs)
<1>1. PICK u, v : /\ u = [market |-> m, side |-> "yes", price |-> a, size |-> i]
                  /\ v = [market |-> m, side |-> "no",  price |-> b, size |-> j]
  OBVIOUS
<1>2. legs = {u, v} /\ IsFiniteSet(legs)
  BY <1>1, SmallSets
<1>3. u.market = m /\ v.market = m /\ u.side = "yes" /\ v.side = "no"
  BY <1>1
<1>4. ASSUME NEW r \in Results(legs)
      PROVE  \E w \in legs : r[w.market] = w.side /\ \A l \in legs \ {w} : r[l.market] # l.side
  <2>1. {l.market : l \in legs} = {m}
    BY <1>2, <1>3
  <2>2. r[m] \in {"yes", "no"}
    BY <2>1 DEF Results
  <2>3. CASE r[m] = "yes"
    BY <1>2, <1>3, <2>3
  <2>4. CASE r[m] = "no"
    BY <1>2, <1>3, <2>4
  <2>. QED
    BY <2>2, <2>3, <2>4
<1>5. OneWins(legs)
  BY <1>4 DEF OneWins
<1>6. legs \subseteq [market : RestMarkets, side : {"yes", "no"}, price : 1..99, size : Nat]
  <2>1. u \in [market : RestMarkets, side : {"yes", "no"}, price : 1..99, size : Nat]
    BY <1>1
  <2>2. v \in [market : RestMarkets, side : {"yes", "no"}, price : 1..99, size : Nat]
    BY <1>1
  <2> QED
    BY <1>2, <2>1, <2>2
<1>. QED
  BY <1>2, <1>5, <1>6 DEF LegSet

\* The outcomes of an event, two or more: the one that wins pays.
LEMMA EventLegs ==
  ASSUME NEW M, M \subseteq RestMarkets, Cardinality(M) # 1,
         NEW q, \A m \in M : q[m].ask \in 1..99 /\ q[m].size \in Nat,
         NEW legs, legs = { [market |-> m, side |-> "yes", price |-> q[m].ask, size |-> q[m].size]
                            : m \in M }
  PROVE  LegSet(legs)
<1>1. PICK h : h = [m \in M |-> [market |-> m, side |-> "yes",
                                 price |-> q[m].ask, size |-> q[m].size]]
  OBVIOUS
<1>2. legs = {h[m] : m \in M} /\ IsFiniteSet(M)
  BY <1>1, RestEngineAssumption, FS_Subset
<1>3. IsFiniteSet(legs)
  BY <1>2, FiniteRange
<1>4. \A m \in M : h[m].market = m /\ h[m].side = "yes" /\ h[m] \in legs
  BY <1>1, <1>2
<1>5. ASSUME NEW r \in Results(legs)
      PROVE  \E w \in legs : r[w.market] = w.side /\ \A l \in legs \ {w} : r[l.market] # l.side
  <2>1. {l.market : l \in legs} = M
    BY <1>2, <1>4
  <2>2. Cardinality({m \in M : r[m] = "yes"}) = 1
    BY <2>1 DEF Results
  <2>3. PICK m : {k \in M : r[k] = "yes"} = {m}
    <3>1. IsFiniteSet({k \in M : r[k] = "yes"})
      BY <1>2, FS_Subset
    <3>. QED
      BY <2>2, <3>1, FS_Singleton
  <2>4. m \in M /\ r[m] = "yes" /\ \A k \in M : k # m => r[k] # "yes"
    BY <2>3
  <2>5. h[m] \in legs /\ r[h[m].market] = h[m].side
    BY <1>4, <2>4
  <2>6. ASSUME NEW l \in legs \ {h[m]} PROVE r[l.market] # l.side
    <3>1. PICK k \in M : l = h[k]
      BY <1>2
    <3>. QED
      BY <1>4, <2>4, <3>1
  <2>. QED
    BY <2>5, <2>6
<1>6. legs \subseteq [market : RestMarkets, side : {"yes", "no"}, price : 1..99, size : Nat]
  BY <1>1, <1>2
<1>. QED
  BY <1>3, <1>5, <1>6 DEF LegSet, OneWins

\* A quote is of a price that can be traded, if there ever was one.
EngineInv ==
  /\ universe \subseteq RestMarkets
  /\ quotes \in [RestMarkets -> [ask : 0..99, size : Nat, fresh : BOOLEAN]]
  /\ \A m \in RestMarkets : quotes[m].fresh => quotes[m].ask \in 1..99
  /\ \/ flight = Free
     \/ flight.stage = "risk" /\ Sound(flight.opp)
     \/ flight.stage = "executing" /\ Sound(flight.opp) /\ flight.opp.count <= flight.cap

\* What the engine finds in a binary market (evaluate_ticker) pays what it says.
LEMMA BinaryIsSound ==
  ASSUME NEW t \in Ticks, NEW o \in evaluate_ticker(t)
  PROVE  Sound(o)
<1>1. PICK bid, ask : bid = parse_price_to_cents(t.bid) /\ ask = parse_price_to_cents(t.ask)
  OBVIOUS
<1>2. bid \in 1..99 /\ ask \in 1..99
      /\ o \in detect_binary_arb(t.market, ask, Whole(t.ask_size),
                                 100 - bid, Whole(t.bid_size), DefaultCount)
  BY <1>1 DEF evaluate_ticker, Tradeable
<1>3. t.market \in RestMarkets /\ t.ask_size \in Nat /\ t.bid_size \in Nat
  BY RestEngineAssumption
<1>4. Whole(t.ask_size) \in Nat /\ Whole(t.bid_size) \in Nat /\ 100 - bid \in 1..99
  BY <1>2, <1>3 DEF Whole
<1>5. PICK legs : legs = { [market |-> t.market, side |-> "yes",
                            price |-> ask, size |-> Whole(t.ask_size)],
                           [market |-> t.market, side |-> "no",
                            price |-> 100 - bid, size |-> Whole(t.bid_size)] }
  OBVIOUS
<1>6. o = Opportunity(legs, DefaultCount) /\ Worth(o)
  BY <1>2, <1>5 DEF detect_binary_arb
<1>7. LegSet(legs)
  BY <1>2, <1>3, <1>4, <1>5, BinaryLegs
<1>. QED
  BY <1>6, <1>7, OpportunityIsSound, RestEngineAssumption

\* And what it finds in the outcomes of an event (_evaluate_multi_outcome).
LEMMA EventIsSound ==
  ASSUME EngineInv, NEW q,
         q \in [RestMarkets -> [ask : 0..99, size : Nat, fresh : BOOLEAN]],
         \A k \in RestMarkets : q[k].fresh => q[k].ask \in 1..99,
         NEW m, NEW o \in _evaluate_multi_outcome(q, m)
  PROVE  Sound(o)
<1>1. PICK M : M = Group(universe, m)
  OBVIOUS
<1>2. /\ M \subseteq RestMarkets /\ Cardinality(M) >= MinLegs /\ \A k \in M : q[k].fresh
      /\ o \in detect_multi_outcome_arb(M, q, DefaultCount)
  <2>1. M \subseteq RestMarkets
    BY <1>1 DEF Group, EngineInv
  <2>2. IsFiniteSet(M)
    BY <2>1, RestEngineAssumption, FS_Subset
  <2>3. Cardinality(M) \in Nat /\ MinLegs \in Nat
    BY <2>2, FS_CardinalityType, RestEngineAssumption
  <2>. QED
    BY <1>1, <2>1, <2>3 DEF _evaluate_multi_outcome
<1>3. Cardinality(M) # 1
  BY <1>2, RestEngineAssumption
<1>4. \A k \in M : q[k].ask \in 1..99 /\ q[k].size \in Nat
  BY <1>2
<1>5. PICK legs : legs = { [market |-> k, side |-> "yes", price |-> q[k].ask, size |-> q[k].size]
                           : k \in M }
  OBVIOUS
<1>6. o = Opportunity(legs, DefaultCount) /\ Worth(o)
  BY <1>2, <1>5 DEF detect_multi_outcome_arb
<1>7. LegSet(legs)
  BY <1>2, <1>3, <1>4, <1>5, EventLegs
<1>. QED
  BY <1>6, <1>7, OpportunityIsSound, RestEngineAssumption

\* A ticker message brings sound opportunities only.
LEMMA TickerKeeps ==
  ASSUME EngineInv, NEW t \in Ticks, on_ticker(t)
  PROVE  EngineInv'
<1>1. PICK ask : ask = parse_price_to_cents(t.ask)
  OBVIOUS
<1>2. t.market \in RestMarkets /\ t.ask_size \in Nat
  BY RestEngineAssumption
<1>3. PICK cached \in BOOLEAN : cached = (Tradeable(ask) /\ t.ask_size > 0)
  OBVIOUS
<1>4. PICK now : now = IF cached
                       THEN [quotes EXCEPT ![t.market] =
                               [ask |-> ask, size |-> Whole(t.ask_size), fresh |-> TRUE]]
                       ELSE quotes
  OBVIOUS
<1>5. PICK multi, binary :
        /\ multi = {o \in (IF cached THEN _evaluate_multi_outcome(now, t.market) ELSE {})
                      : _passes_exec_thresholds(o)}
        /\ binary = {o \in evaluate_ticker(t) : _passes_exec_thresholds(o)}
  OBVIOUS
<1>6. PICK first : first = IF multi # {} THEN multi ELSE binary
  OBVIOUS
<1>7. /\ quotes' = now /\ universe' = universe
      /\ flight' = IF flight = Free /\ first # {}
                   THEN [stage |-> "risk", opp |-> CHOOSE o \in first : TRUE]
                   ELSE flight
  BY <1>1, <1>3, <1>4, <1>5, <1>6 DEF on_ticker
<1>8. /\ now \in [RestMarkets -> [ask : 0..99, size : Nat, fresh : BOOLEAN]]
      /\ \A k \in RestMarkets : now[k].fresh => now[k].ask \in 1..99
  <2>1. CASE cached
    <3>1. ask \in 1..99 /\ Whole(t.ask_size) \in Nat
      <4>1. Tradeable(ask)
        BY <1>3, <2>1
      <4>2. t.ask_size \div 100 \in Nat
        BY <1>2
      <4>. QED
        BY <4>1, <4>2 DEF Tradeable, Whole
    <3>. QED
      BY <1>2, <1>4, <2>1, <3>1 DEF EngineInv
  <2>2. CASE ~cached
    BY <1>4, <2>2 DEF EngineInv
  <2>. QED
    BY <2>1, <2>2
<1>9. \A o \in first : Sound(o)
  <2>1. \A o \in multi : Sound(o)
    BY <1>5, <1>8, EventIsSound
  <2>2. \A o \in binary : Sound(o)
    BY <1>5, BinaryIsSound
  <2>. QED
    BY <1>6, <2>1, <2>2
<1>10. \/ flight' = Free
       \/ flight'.stage = "risk" /\ Sound(flight'.opp)
       \/ flight'.stage = "executing" /\ Sound(flight'.opp) /\ flight'.opp.count <= flight'.cap
  <2>1. CASE flight' = flight
    BY <2>1 DEF EngineInv
  <2>2. CASE first # {} /\ flight' = [stage |-> "risk", opp |-> CHOOSE o \in first : TRUE]
    <3>1. PICK o : o = CHOOSE p \in first : TRUE
      OBVIOUS
    <3>2. o \in first
      BY <2>2, <3>1
    <3>. QED
      BY <1>9, <2>2, <3>1, <3>2
  <2>. QED
    BY <1>7, <2>1, <2>2
<1>. QED
  BY <1>7, <1>8, <1>10 DEF EngineInv

\* One resized to the count the risk manager allows is still sound.
LEMMA AllowedKeeps ==
  ASSUME EngineInv, NEW n \in Nat, RiskAllows(n)
  PROVE  EngineInv'
<1>1. flight.stage = "risk" /\ Sound(flight.opp) /\ n \in 1..flight.opp.count
      /\ UNCHANGED <<universe, quotes>>
  BY DEF RiskAllows, EngineInv, Free
<1>2. \A o \in Resized(flight.opp, n) : Sound(o) /\ o.count <= n
  <2> SUFFICES ASSUME NEW o \in Resized(flight.opp, n) PROVE Sound(o) /\ o.count <= n
    OBVIOUS
  <2>1. PICK legs : legs = flight.opp.legs
    OBVIOUS
  <2>2. LegSet(legs) /\ n \in Nat \ {0}
    BY <1>1, <2>1 DEF Sound
  <2>3. o = Opportunity(legs, n) /\ Worth(o)
    BY <2>1 DEF Resized
  <2>. QED
    BY <2>2, <2>3, OpportunityIsSound
<1>3. PICK R : R = Resized(flight.opp, n)
  OBVIOUS
<1>4. CASE R = {}
  BY <1>1, <1>3, <1>4 DEF RiskAllows, EngineInv
<1>5. CASE R # {}
  <2>1. PICK o : o = CHOOSE p \in R : TRUE
    OBVIOUS
  <2>2. o \in R
    BY <1>5, <2>1
  <2>3. flight' = [stage |-> "executing", cap |-> n, opp |-> o]
    BY <1>3, <1>5, <2>1 DEF RiskAllows
  <2>4. flight'.stage = "executing" /\ Sound(flight'.opp) /\ flight'.opp.count <= flight'.cap
    BY <1>2, <1>3, <2>2, <2>3
  <2>. QED
    BY <1>1, <2>4 DEF EngineInv
<1>. QED
  BY <1>4, <1>5

\* Nothing is detected at first.
LEMMA EngineStarts == EngineInit => EngineInv
BY DEF EngineInit, EngineInv, NoQuote

\* Every step of the engine.
LEMMA EngineStep == EngineInv /\ [EngineNext]_engineVars => EngineInv'
<1> SUFFICES ASSUME EngineInv, [EngineNext]_engineVars PROVE EngineInv'
  OBVIOUS
<1>1. ASSUME NEW t \in Ticks, on_ticker(t) PROVE EngineInv'
  BY <1>1, TickerKeeps
<1>2. ASSUME NEW tracked \in SUBSET (RestMarkets \ universe), update_universe(tracked)
      PROVE  EngineInv'
  BY <1>2 DEF update_universe, EngineInv
<1>3. ASSUME NEW m \in RestMarkets, Expire(m) PROVE EngineInv'
  <2>1. /\ quotes' \in [RestMarkets -> [ask : 0..99, size : Nat, fresh : BOOLEAN]]
        /\ \A k \in RestMarkets : quotes'[k].fresh => quotes'[k].ask \in 1..99
    <3>1. PICK k : k = [quotes[m] EXCEPT !.fresh = FALSE]
      OBVIOUS
    <3>2. quotes' = [quotes EXCEPT ![m] = k]
      BY <1>3, <3>1 DEF Expire, EngineInv
    <3>3. k \in [ask : 0..99, size : Nat, fresh : BOOLEAN] /\ k.fresh = FALSE
      <4>1. PICK j \in [ask : 0..99, size : Nat, fresh : BOOLEAN] : j = quotes[m]
        BY DEF EngineInv
      <4>2. k = [j EXCEPT !.fresh = FALSE]
        BY <3>1, <4>1
      <4>. QED
        BY <4>2
    <3>. QED
      BY <3>2, <3>3 DEF EngineInv
  <2>. QED
    BY <1>3, <2>1 DEF Expire, EngineInv
<1>4. ASSUME NEW n \in Authorised, RiskAllows(n) PROVE EngineInv'
  BY <1>4, AllowedKeeps, RestEngineAssumption
<1>5. CASE RiskRefuses \/ Executed \/ UNCHANGED engineVars
  BY <1>5 DEF RiskRefuses, Executed, engineVars, EngineInv
<1>. QED
  BY <1>1, <1>2, <1>3, <1>4, <1>5 DEF EngineNext, RiskAnswers

\* What is handed to the executor settles at the net it was accepted for, a positive
\* one, however its markets resolve: for every number of outcomes, every price and
\* every count the risk manager may authorise.
THEOREM ArbAlwaysPays == EngineSpec => []ArbPays
<1>1. EngineInv => ArbPays
  <2> SUFFICES ASSUME EngineInv, flight.stage = "executing" PROVE ArbPays
    BY DEF ArbPays
  <2>1. Sound(flight.opp) /\ flight.opp.count <= flight.cap
    BY DEF EngineInv, Free
  <2>2. \A r \in Results(flight.opp.legs) : Pays(flight.opp, r) = flight.opp.net
    <3>1. PICK o : o = flight.opp
      OBVIOUS
    <3>2. LegSet(o.legs) /\ o.count \in Nat
          /\ o.net = (100 - Asks(o.legs)) * o.count - Fees(o.legs, o.count)
      BY <2>1, <3>1 DEF Sound
    <3>. QED
      BY <3>1, <3>2, SettlesAtNet
  <2>. QED
    BY <2>1, <2>2 DEF ArbPays, Sound
<1>. QED
  BY <1>1, EngineStarts, EngineStep, PTL DEF EngineSpec

-----------------------------------------------------------------------------
(* The levels of a book (BookLevels) *)

BookSpec == BookInit /\ [][BookNext]_bookVars

\* Tables of sizes, by side and level or by side and cent.
SizeTable(f) ==
  /\ f \in [BookSides -> [Levels["yes"] -> Nat] \cup [Levels["no"] -> Nat]]
  /\ \A s \in BookSides : f[s] \in [Levels[s] -> Nat]

CentTable(f) ==
  /\ f \in [BookSides -> [Buckets("yes") -> Nat] \cup [Buckets("no") -> Nat]]
  /\ \A s \in BookSides : f[s] \in [Buckets(s) -> Nat]

\* A side has finitely many levels, and finitely many cents.
LEMMA LevelsFinite ==
  ASSUME NEW s \in BookSides
  PROVE  /\ Levels[s] \subseteq 0..1000 /\ IsFiniteSet(Levels[s])
         /\ Buckets(s) \subseteq 0..101 /\ IsFiniteSet(Buckets(s))
<1>1. Levels[s] \subseteq 0..1000
  BY BookLevelsAssumption DEF BookSides
<1>2. IsFiniteSet(0..1000) /\ IsFiniteSet(0..101)
  <2>1. \A n \in Nat : IsFiniteSet(0..n)
    BY FS_Interval
  <2>2. PICK m \in Nat, k \in Nat : m = 1000 /\ k = 101
    OBVIOUS
  <2>3. IsFiniteSet(0..m) /\ IsFiniteSet(0..k)
    BY <2>1
  <2>. QED
    BY <2>2, <2>3
<1>3. Buckets(s) \subseteq 0..101
  <2> SUFFICES ASSUME NEW p \in Levels[s] PROVE to_cents(p) \in 0..101
    BY Zenon DEF Buckets
  <2>1. p \in 0..1000
    BY <1>1
  <2>. QED
    BY <2>1, SMT DEF to_cents
<1>. QED
  BY <1>1, <1>2, <1>3, FS_Subset

\* A bucket is a size.
LEMMA BucketType ==
  ASSUME NEW f, SizeTable(f), NEW s \in BookSides, NEW c
  PROVE  Bucket(f, s, c) \in Nat
<1> DEFINE S == {p \in Levels[s] : to_cents(p) = c}
<1>1. IsFiniteSet(S) /\ \A p \in S : f[s][p] \in Nat
  BY LevelsFinite, FS_Subset DEF SizeTable
<1>2. SumFunctionOnSet(f[s], S) \in Nat
  <2> HIDE DEF S
  <2>. QED
    BY <1>1, SumNat
<1>. QED
  BY <1>2 DEF Bucket

\* Levels summed by the cent are a table of sizes.
LEMMA SummedType ==
  ASSUME NEW f, SizeTable(f)
  PROVE  CentTable(Summed(f))
<1>1. \A s \in BookSides : \A c \in Buckets(s) : Bucket(f, s, c) \in Nat
  BY BucketType
<1>2. \A s \in BookSides : Summed(f)[s] = [c \in Buckets(s) |-> Bucket(f, s, c)]
  BY DEF Summed
<1>3. \A s \in BookSides : Summed(f)[s] \in [Buckets(s) -> Nat]
  BY <1>1, <1>2
<1>. QED
  BY <1>3 DEF CentTable, Summed, BookSides

\* The table g is f but for the size v of the level p of the side s.
OneLevel(f, g, s, p, v) ==
  /\ g[s][p] = v
  /\ \A t \in BookSides : \A q \in Levels[t] : ~(t = s /\ q = p) => g[t][q] = f[t][q]

\* A change of one level is one.
LEMMA LevelChange ==
  ASSUME NEW f, SizeTable(f), NEW s \in BookSides, NEW p \in Levels[s], NEW v \in Nat,
         NEW g, g = [f EXCEPT ![s][p] = v]
  PROVE  SizeTable(g) /\ OneLevel(f, g, s, p, v)
<1>1. /\ f[s] \in [Levels[s] -> Nat]
      /\ g[s] = [f[s] EXCEPT ![p] = v] /\ \A t \in BookSides : t # s => g[t] = f[t]
  BY DEF SizeTable
<1>2. \A t \in BookSides : g[t] \in [Levels[t] -> Nat]
  BY <1>1 DEF SizeTable
<1>3. DOMAIN g = BookSides /\ g = [t \in BookSides |-> g[t]]
  BY DEF SizeTable
<1>4. g \in [BookSides -> [Levels["yes"] -> Nat] \cup [Levels["no"] -> Nat]]
  BY <1>2, <1>3 DEF BookSides
<1>5. g[s][p] = v /\ \A q \in Levels[s] : q # p => g[s][q] = f[s][q]
  BY <1>1
<1>. QED
  BY <1>1, <1>2, <1>4, <1>5 DEF SizeTable, OneLevel

\* A level changes its own bucket and no other.
LEMMA BucketChange ==
  ASSUME NEW f, SizeTable(f), NEW g, SizeTable(g), NEW s \in BookSides, NEW p \in Levels[s],
         NEW v \in Nat, OneLevel(f, g, s, p, v)
  PROVE  \A t \in BookSides : \A c \in Buckets(t) :
           Bucket(g, t, c) = IF t = s /\ c = to_cents(p) THEN Bucket(f, t, c) - f[s][p] + v
                                                         ELSE Bucket(f, t, c)
<1> SUFFICES ASSUME NEW t \in BookSides, NEW c \in Buckets(t)
             PROVE  Bucket(g, t, c) = IF t = s /\ c = to_cents(p)
                                      THEN Bucket(f, t, c) - f[s][p] + v
                                      ELSE Bucket(f, t, c)
  OBVIOUS
<1>1. PICK S : S = {q \in Levels[t] : to_cents(q) = c}
  OBVIOUS
<1>2. PICK h, k : h = f[t] /\ k = g[t]
  OBVIOUS
<1>3. Bucket(f, t, c) = SumFunctionOnSet(h, S) /\ Bucket(g, t, c) = SumFunctionOnSet(k, S)
  BY <1>1, <1>2 DEF Bucket
<1>4. IsFiniteSet(S) /\ S \subseteq Levels[t]
  BY <1>1, LevelsFinite, FS_Subset
<1>5. \A q \in S : h[q] \in Int /\ k[q] \in Int
  BY <1>2, <1>4 DEF SizeTable
<1>6. Bucket(f, t, c) \in Nat /\ f[s][p] \in Nat
  BY BucketType DEF SizeTable
<1>7. CASE t = s /\ c = to_cents(p)
  <2>1. p \in S /\ k[p] = v /\ h[p] = f[s][p]
    BY <1>1, <1>2, <1>7 DEF OneLevel
  <2>2. \A q \in S \ {p} : k[q] = h[q]
    BY <1>2, <1>4, <1>7 DEF OneLevel
  <2>3. SumFunctionOnSet(k, S) = SumFunctionOnSet(h, S) - h[p] + k[p]
    BY <1>4, <1>5, <2>1, <2>2, SumOneChanged
  <2>. QED
    BY <1>3, <1>6, <1>7, <2>1, <2>3
<1>8. CASE ~(t = s /\ c = to_cents(p))
  <2>1. \A q \in S : k[q] = h[q]
    BY <1>1, <1>2, <1>4, <1>8 DEF OneLevel
  <2>2. SumFunctionOnSet(k, S) = SumFunctionOnSet(h, S)
    BY <1>4, <1>5, <2>1, SumEqual
  <2>. QED
    BY <1>3, <1>8, <2>2
<1>. QED
  BY <1>7, <1>8

\* What is served is in the book, and the book is at most what is there.
Within(f, g) == \A s \in BookSides : \A c \in Buckets(s) : f[s][c] <= Bucket(g, s, c)

BookInv ==
  /\ SizeTable(real) /\ CentTable(book)
  /\ state = "live" /\ lost = "nothing" => book = Summed(real)
  /\ state = "live" /\ lost # "removal" => Within(book, real)

\* Levels summed by the cent hold no more than the levels.
LEMMA SummedWithin ==
  ASSUME NEW f, SizeTable(f), NEW g, g = Summed(f)
  PROVE  Within(g, f)
<1>1. ASSUME NEW s \in BookSides, NEW c \in Buckets(s) PROVE g[s][c] <= Bucket(f, s, c)
  <2>1. g[s][c] = Bucket(f, s, c)
    BY DEF Summed
  <2>. QED
    BY <2>1, BucketType
<1>. QED
  BY <1>1 DEF Within

\* Two books with the same sizes are the same.
LEMMA SummedIs ==
  ASSUME NEW f, SizeTable(f), NEW g, CentTable(g),
         \A s \in BookSides : \A c \in Buckets(s) : g[s][c] = Bucket(f, s, c)
  PROVE  g = Summed(f)
<1>1. \A s \in BookSides : g[s] = [c \in Buckets(s) |-> Bucket(f, s, c)]
  BY DEF CentTable
<1>2. g = [s \in BookSides |-> g[s]]
  BY DEF CentTable
<1>. QED
  BY <1>1, <1>2 DEF Summed

\* Both books are empty at first.
LEMMA BookStarts == BookInit => BookInv
<1> SUFFICES ASSUME BookInit PROVE BookInv
  OBVIOUS
<1>1. SizeTable(NoLevels)
  BY DEF SizeTable, NoLevels, BookSides
<1>. QED
  BY <1>1, SummedType DEF BookInit, BookInv

\* A snapshot makes the book the exchange's (apply_snapshot).
LEMMA SnapshotKeeps ==
  ASSUME BookInv, NEW s \in BookSides, NEW p \in Levels[s], NEW d \in Int, apply_snapshot(s, p, d)
  PROVE  BookInv'
<1>1. PICK seen : /\ seen = [real EXCEPT ![s][p] = @ - d] /\ seen[s][p] >= 0
                  /\ book' = Summed(seen)
  BY DEF apply_snapshot
<1>2. /\ state' = "live" /\ real' = real
      /\ lost' = IF d > 0 THEN "add" ELSE IF d < 0 THEN "removal" ELSE "nothing"
  BY DEF apply_snapshot
<1>3. real[s] \in [Levels[s] -> Nat] /\ SizeTable(real)
  BY DEF BookInv, SizeTable
<1>4. PICK v : v = real[s][p] - d
  OBVIOUS
<1>5. seen = [real EXCEPT ![s][p] = v] /\ v \in Nat
  <2>1. seen = [real EXCEPT ![s][p] = v]
    BY <1>1, <1>4
  <2>2. seen[s][p] = v
    BY <1>3, <2>1 DEF SizeTable
  <2>. QED
    BY <1>1, <1>3, <1>4, <2>1, <2>2
<1>6. /\ SizeTable(seen)
      /\ \A t \in BookSides : \A c \in Buckets(t) :
           Bucket(seen, t, c) = IF t = s /\ c = to_cents(p)
                                THEN Bucket(real, t, c) - real[s][p] + v
                                ELSE Bucket(real, t, c)
  <2>1. PICK was : was = real
    OBVIOUS
  <2>2. SizeTable(was) /\ v \in Nat /\ seen = [was EXCEPT ![s][p] = v]
    BY <1>3, <1>5, <2>1
  <2>3. SizeTable(seen) /\ OneLevel(was, seen, s, p, v)
    BY <2>2, LevelChange
  <2>4. \A t \in BookSides : \A c \in Buckets(t) :
          Bucket(seen, t, c) = IF t = s /\ c = to_cents(p)
                               THEN Bucket(was, t, c) - was[s][p] + v
                               ELSE Bucket(was, t, c)
    <3>1. SizeTable(was) /\ v \in Nat
      BY <2>2
    <3>. QED
      BY <2>3, <3>1, BucketChange
  <2>. QED
    BY <2>1, <2>3, <2>4
<1>7. CentTable(book')
  BY <1>1, <1>6, SummedType
<1>8. \A t \in BookSides : \A c \in Buckets(t) :
        /\ book'[t][c] = Bucket(seen, t, c)
        /\ Bucket(real, t, c) \in Nat /\ Bucket(seen, t, c) \in Nat
  BY <1>1, <1>3, <1>6, BucketType DEF Summed
<1>9. d >= 0 => Within(book', real)
  BY <1>3, <1>4, <1>6, <1>8 DEF Within
<1>10. d = 0 => book' = Summed(real)
  <2> SUFFICES ASSUME d = 0 PROVE book' = Summed(real)
    OBVIOUS
  <2>1. \A t \in BookSides : \A c \in Buckets(t) : book'[t][c] = Bucket(real, t, c)
    BY <1>3, <1>4, <1>6, <1>8
  <2>. QED
    BY <1>3, <1>7, <2>1, SummedIs
<1>. QED
  BY <1>2, <1>3, <1>7, <1>9, <1>10 DEF BookInv, Within

\* A delta moves the same size in the book and at the exchange (apply_delta).
LEMMA DeltaKeeps ==
  ASSUME BookInv, NEW s \in BookSides, NEW p \in Levels[s], NEW d \in Int, apply_delta(s, p, d)
  PROVE  BookInv'
<1>1. /\ real' = [real EXCEPT ![s][p] = real[s][p] + d] /\ real[s][p] + d \in 0..MaxLevel
      /\ UNCHANGED lost
  BY DEF apply_delta
<1>2. PICK c : c = to_cents(p)
  OBVIOUS
<1>3. c \in Buckets(s) /\ real[s] \in [Levels[s] -> Nat] /\ SizeTable(real) /\ CentTable(book)
      /\ book[s] \in [Buckets(s) -> Nat] /\ book[s][c] \in Nat
  <2>1. c \in Buckets(s)
    BY <1>2 DEF Buckets
  <2>2. SizeTable(real) /\ CentTable(book)
    BY DEF BookInv
  <2>3. real[s] \in [Levels[s] -> Nat] /\ book[s] \in [Buckets(s) -> Nat]
    BY <2>2 DEF SizeTable, CentTable
  <2>. QED
    BY <2>1, <2>2, <2>3
<1>4. PICK v : v = real[s][p] + d
  OBVIOUS
<1>5. v \in Nat /\ real' = [real EXCEPT ![s][p] = v] /\ real[s][p] \in Nat
  BY <1>1, <1>3, <1>4, BookLevelsAssumption
<1>6. /\ SizeTable(real')
      /\ \A t \in BookSides : \A b \in Buckets(t) :
           Bucket(real', t, b) = IF t = s /\ b = c
                                 THEN Bucket(real, t, b) - real[s][p] + v
                                 ELSE Bucket(real, t, b)
  <2>1. PICK was, now : was = real /\ now = real'
    OBVIOUS
  <2>2. SizeTable(was) /\ v \in Nat /\ now = [was EXCEPT ![s][p] = v]
    BY <1>3, <1>5, <2>1
  <2>3. SizeTable(now) /\ OneLevel(was, now, s, p, v)
    BY <2>2, LevelChange
  <2>4. \A t \in BookSides : \A b \in Buckets(t) :
          Bucket(now, t, b) = IF t = s /\ b = to_cents(p)
                              THEN Bucket(was, t, b) - was[s][p] + v
                              ELSE Bucket(was, t, b)
    <3>1. SizeTable(was) /\ v \in Nat
      BY <2>2
    <3>. QED
      BY <2>3, <3>1, BucketChange
  <2>. QED
    BY <1>2, <2>1, <2>3, <2>4
<1>7. \A t \in BookSides : \A b \in Buckets(t) : 
        Bucket(real, t, b) \in Nat /\ Bucket(real', t, b) \in Nat
  BY <1>3, <1>6, BucketType
<1>8. CASE UNCHANGED book /\ state' # "live"
  BY <1>3, <1>6, <1>8 DEF BookInv
<1>9. CASE state = "live" /\ state' = state
           /\ book' = [book EXCEPT ![s][c] = Max({0, book[s][c] + d})]
           /\ (book[s][c] + d >= 0 \/ grace)
  <2>1. PICK m : m = Max({0, book[s][c] + d})
    OBVIOUS
  <2>2. m = IF book[s][c] + d >= 0 THEN book[s][c] + d ELSE 0
    <3>1. 0 \in Int /\ book[s][c] + d \in Int
      BY <1>3
    <3>2. Max({0, book[s][c] + d}) = IF 0 >= book[s][c] + d THEN 0 ELSE book[s][c] + d
      BY <3>1, MaxOfTwo
    <3>. QED
      BY <1>3, <2>1, <3>2
  <2>3. m \in Nat
    BY <1>3, <2>2
  <2>4. book'[s] = [book[s] EXCEPT ![c] = m] /\ \A t \in BookSides : t # s => book'[t] = book[t]
    BY <1>3, <1>9, <2>1 DEF CentTable
  <2>5. ASSUME NEW t \in BookSides PROVE book'[t] \in [Buckets(t) -> Nat]
    <3>1. CASE t = s
      BY <1>3, <2>3, <2>4, <3>1
    <3>2. CASE t # s
      BY <1>3, <2>4, <3>2 DEF CentTable
    <3>. QED
      BY <3>1, <3>2
  <2>6. CentTable(book')
    <3>1. book' = [t \in BookSides |-> book'[t]]
      BY <1>3, <1>9 DEF CentTable
    <3>. QED
      BY <2>5, <3>1 DEF CentTable, BookSides
  <2>7. \A t \in BookSides : \A b \in Buckets(t) :
          /\ book'[t][b] = IF t = s /\ b = c THEN m ELSE book[t][b]
          /\ book[t][b] \in Nat
    BY <1>3, <2>4 DEF CentTable
  <2>8. lost # "removal" => Within(book', real')
    <3> SUFFICES ASSUME lost # "removal", NEW t \in BookSides, NEW b \in Buckets(t)
                 PROVE  book'[t][b] <= Bucket(real', t, b)
      BY DEF Within
    <3>1. book[t][b] <= Bucket(real, t, b)
      BY <1>9 DEF BookInv, Within
    <3>2. CASE t = s /\ b = c
      <4>1. Bucket(real', t, b) = Bucket(real, t, b) + d
        <5>1. Bucket(real', t, b) = Bucket(real, t, b) - real[s][p] + v
          BY <1>6, <3>2
        <5>2. Bucket(real, t, b) \in Nat /\ real[s][p] \in Nat /\ v = real[s][p] + d
          BY <1>4, <1>5, <1>7
        <5>. QED
          BY <5>1, <5>2
      <4>. QED
        BY <1>3, <1>7, <2>2, <2>7, <3>1, <3>2, <4>1
    <3>3. CASE ~(t = s /\ b = c)
      <4>1. Bucket(real', t, b) = Bucket(real, t, b)
        BY <1>6, <1>7, <3>3
      <4>. QED
        BY <2>7, <3>1, <3>3, <4>1
    <3>. QED
      BY <3>2, <3>3
  <2>9. lost = "nothing" => book' = Summed(real')
    <3> SUFFICES ASSUME lost = "nothing", NEW t \in BookSides, NEW b \in Buckets(t)
                 PROVE  book'[t][b] = Bucket(real', t, b)
      BY <1>6, <2>6, SummedIs
    <3>1. book = Summed(real)
      BY <1>9 DEF BookInv
    <3>2. book[t][b] = Bucket(real, t, b)
      BY <3>1 DEF Summed
    <3>3. CASE t = s /\ b = c
      <4>1. Bucket(real', t, b) = Bucket(real, t, b) + d
        <5>1. Bucket(real', t, b) = Bucket(real, t, b) - real[s][p] + v
          BY <1>6, <3>3
        <5>2. Bucket(real, t, b) \in Nat /\ real[s][p] \in Nat /\ v = real[s][p] + d
          BY <1>4, <1>5, <1>7
        <5>. QED
          BY <5>1, <5>2
      <4>. QED
        BY <1>3, <1>7, <2>2, <2>7, <3>2, <3>3, <4>1
    <3>4. CASE ~(t = s /\ b = c)
      <4>1. Bucket(real', t, b) = Bucket(real, t, b)
        BY <1>6, <1>7, <3>4
      <4>. QED
        BY <2>7, <3>2, <3>4, <4>1
    <3>. QED
      BY <3>3, <3>4
  <2>. QED
    BY <1>1, <1>6, <1>9, <2>6, <2>8, <2>9 DEF BookInv
<1>. QED
  BY <1>2, <1>8, <1>9 DEF apply_delta

\* Every step of the book.
LEMMA BookStep == BookInv /\ [BookNext]_bookVars => BookInv'
<1> SUFFICES ASSUME BookInv, [BookNext]_bookVars PROVE BookInv'
  OBVIOUS
<1>1. ASSUME NEW s \in BookSides, NEW p \in Levels[s], NEW d \in Changes \cup {0},
             apply_snapshot(s, p, d)
      PROVE  BookInv'
  <2>1. d \in Int
    BY BookLevelsAssumption
  <2>. QED
    BY <1>1, <2>1, SnapshotKeeps
<1>2. ASSUME NEW s \in BookSides, NEW p \in Levels[s], NEW d \in Changes, apply_delta(s, p, d)
      PROVE  BookInv'
  <2>1. d \in Int
    BY BookLevelsAssumption
  <2>. QED
    BY <1>2, <2>1, DeltaKeeps
<1>3. CASE GraceEnds \/ mark_stale \/ UNCHANGED bookVars
  BY <1>3 DEF GraceEnds, mark_stale, bookVars, BookInv
<1>4. CASE clear
  <2>1. SizeTable(NoLevels)
    BY DEF SizeTable, NoLevels, BookSides
  <2>. QED
    BY <1>4, <2>1, SummedType DEF clear, BookInv
<1>. QED
  BY <1>1, <1>2, <1>3, <1>4 DEF BookNext

\* What a live book offers as its best bid is in the book.
LEMMA TopIsInBook ==
  ASSUME BookInv, NEW s \in BookSides, NEW t \in top_of_book(s)
  PROVE  state = "live" /\ t.price \in Buckets(s) /\ book[s][t.price] >= 100
<1> DEFINE operable == {c \in Buckets(s) : book[s][c] >= 100}
<1>1. state = "live" /\ operable # {} /\ t.price = Max(operable)
  BY DEF top_of_book
<1>2. IsFiniteSet(operable) /\ operable \subseteq Int
  BY LevelsFinite, FS_Subset
<1>3. Max(operable) \in operable
  <2> HIDE DEF operable
  <2>. QED
    BY <1>1, <1>2, MaxOfSet
<1>. QED
  BY <1>1, <1>3

\* A book fed in sequence is the exchange's, and what it serves is there, for
\* every set of levels and changes.
THEOREM BookAlwaysReal == BookSpec => []BookIsReal
<1>1. BookInv => BookIsReal
  <2> SUFFICES ASSUME BookInv PROVE BookIsReal
    OBVIOUS
  <2>1. state = "live" /\ lost = "nothing" => book = Summed(real)
    BY DEF BookInv
  <2>2. state = "live" /\ lost = "add" =>
          \A s \in BookSides : \A c \in Buckets(s) : book[s][c] <= Bucket(real, s, c)
    BY DEF BookInv, Within
  <2>3. ASSUME lost # "removal", NEW q \in _quote_of
        PROVE  Bucket(real, "yes", q.yes) >= 100 /\ Bucket(real, "no", q.no) >= 100
    <3>1. /\ \E t \in top_of_book("yes") : q.yes = t.price
          /\ \E t \in top_of_book("no") : q.no = t.price
      BY DEF _quote_of
    <3>2. ASSUME NEW s \in BookSides, NEW t \in top_of_book(s) PROVE Bucket(real, s, t.price) >= 100
      <4>1. state = "live" /\ t.price \in Buckets(s) /\ book[s][t.price] >= 100
        BY TopIsInBook
      <4>2. book[s][t.price] <= Bucket(real, s, t.price)
        BY <2>3, <4>1 DEF BookInv, Within
      <4>3. book[s][t.price] \in Nat /\ Bucket(real, s, t.price) \in Nat
        BY <4>1, BucketType DEF BookInv, CentTable
      <4>. QED
        BY <4>1, <4>2, <4>3
    <3>. QED
      BY <3>1, <3>2 DEF BookSides
  <2>. QED
    BY <2>1, <2>2, <2>3 DEF BookIsReal
<1>. QED
  BY <1>1, BookStarts, BookStep, PTL DEF BookSpec

-----------------------------------------------------------------------------
(* The quotes in shadow (QuoteRules): facts about the arithmetic *)

\* Rounding down loses nothing upwards, and a common factor cancels.
LEMMA DivBelow ==
  ASSUME NEW x \in Int, NEW d \in Nat \ {0}
  PROVE  x \div d \in Int /\ d * (x \div d) <= x
BY SMT

\* A positive factor cancels.
LEMMA Cancels ==
  ASSUME NEW d \in Nat \ {0}, NEW x \in Int, NEW y \in Int, d * x <= d * y
  PROVE  x <= y
BY SMT

\* A factor keeps the order.
LEMMA Products ==
  ASSUME NEW x \in Int, NEW y \in Int, NEW z \in Nat, x <= y
  PROVE  z * x <= z * y
BY SMT

-----------------------------------------------------------------------------
(* What the quoter returns *)

Below(q) == q.bid \notin {NoSide, 1} => q.bid < q.seen.ask /\ 10 * q.bid <= q.fair + 10 * EdgeSkew
Above(q) == q.ask \notin {NoSide, 99} => q.ask > q.seen.bid /\ 10 * q.ask >= q.fair - 10 * EdgeSkew

\* A quote at a given inventory: the side that would pass the cap is left out.
Fits(q, n) ==
  /\ q.bid # NoSide => n < MaxInventory
  /\ q.ask # NoSide => n > -MaxInventory

\* The skew counts an inventory within the cap.
LEMMA ClipBounds ==
  ASSUME NEW n \in Int
  PROVE  Clip(n) \in -MaxInventory..MaxInventory
<1>1. MaxInventory \in Nat \ {0}
  BY QuoteRulesAssumption
<1>2. Min({n, MaxInventory}) = IF n <= MaxInventory THEN n ELSE MaxInventory
  BY <1>1, MinOfTwo
<1>3. Max({-MaxInventory, Min({n, MaxInventory})})
        = IF -MaxInventory >= Min({n, MaxInventory}) THEN -MaxInventory ELSE Min({n, MaxInventory})
  BY <1>1, <1>2, MaxOfTwo
<1> QED BY <1>1, <1>2, <1>3 DEF Clip

\* The half spread outweighs the whole lean against the inventory.
LEMMA Spread ==
  ASSUME NEW fair \in Int, NEW n \in Int, NEW b \in Books
  PROVE  /\ Centre(fair, n, b) \in Int
         /\ Centre(fair, n, b) - Unit * HalfSpread <= MaxInventory * (fair + 10 * EdgeSkew)
         /\ Centre(fair, n, b) + Unit * HalfSpread >= MaxInventory * (fair - 10 * EdgeSkew)
<1>1. /\ MaxInventory \in Nat \ {0} /\ HalfSpread \in Nat /\ EdgeSkew \in Nat
      /\ b.bid \in Int /\ b.ask \in Int
  <2>1. MaxInventory \in Nat \ {0} /\ HalfSpread \in Nat /\ EdgeSkew \in Nat
    BY QuoteRulesAssumption
  <2>2. b \in [bid : 0..99, ask : 1..100, deep : BOOLEAN]
    BY QuoteRulesAssumption
  <2>3. b.bid \in Int /\ b.ask \in Int
    BY <2>2
  <2> QED
    BY <2>1, <2>3
<1> DEFINE lean == IF fair * 2 > 10 * (b.bid + b.ask) THEN EdgeSkew
                   ELSE IF fair * 2 < 10 * (b.bid + b.ask) THEN -EdgeSkew ELSE 0
           k == Clip(n)
           h == 10 * HalfSpread
<1>2. lean \in Int /\ -EdgeSkew <= lean /\ lean <= EdgeSkew
  BY <1>1
<1>3. k \in Int /\ -MaxInventory <= k /\ k <= MaxInventory
  BY <1>1, ClipBounds
<1>4. Centre(fair, n, b) = fair * MaxInventory - h * k + Unit * lean
  BY DEF Centre
<1>5. h \in Nat /\ Unit \in Nat
  BY <1>1 DEF Unit
<1> HIDE DEF lean, k, h
<1>6. h * k \in Int /\ h * (-MaxInventory) <= h * k /\ h * k <= h * MaxInventory
  BY <1>1, <1>3, <1>5, Products
<1>7. /\ Unit * lean \in Int
      /\ Unit * (-EdgeSkew) <= Unit * lean /\ Unit * lean <= Unit * EdgeSkew
  BY <1>1, <1>2, <1>5, Products
<1>8. Unit * HalfSpread = h * MaxInventory /\ h * (-MaxInventory) = -(h * MaxInventory)
  BY <1>1 DEF Unit, h
<1>9. /\ MaxInventory * (fair + 10 * EdgeSkew) = fair * MaxInventory + Unit * EdgeSkew
      /\ MaxInventory * (fair - 10 * EdgeSkew) = fair * MaxInventory - Unit * EdgeSkew
      /\ Unit * (-EdgeSkew) = -(Unit * EdgeSkew)
  BY <1>1 DEF Unit
<1>10. /\ fair * MaxInventory \in Int /\ Unit * EdgeSkew \in Int /\ h * MaxInventory \in Int
  BY <1>1, <1>5
<1> QED BY <1>4, <1>6, <1>7, <1>8, <1>9, <1>10

\* Before it meets the book, no side of a quote gives away more than the skew.
LEMMA SidesInFair ==
  ASSUME NEW fair \in Int, NEW n \in Int, NEW b \in Books
  PROVE  LET c    == Centre(fair, n, b)
             low  == (c - Unit * HalfSpread) \div Unit
             high == -((-c - Unit * HalfSpread) \div Unit)
         IN  /\ low \in Int /\ 10 * low <= fair + 10 * EdgeSkew
             /\ high \in Int /\ 10 * high >= fair - 10 * EdgeSkew
<1> DEFINE c    == Centre(fair, n, b)
           s    == Unit * HalfSpread
           low  == (c - s) \div Unit
           down == (-c - s) \div Unit
<1>1. MaxInventory \in Nat \ {0} /\ HalfSpread \in Nat /\ EdgeSkew \in Nat /\ Unit \in Nat \ {0}
  BY QuoteRulesAssumption DEF Unit
<1>2. /\ c \in Int /\ s \in Int
      /\ c - s <= MaxInventory * (fair + 10 * EdgeSkew)
      /\ c + s >= MaxInventory * (fair - 10 * EdgeSkew)
  BY <1>1, Spread
<1> HIDE DEF c, s
<1>3. low \in Int /\ Unit * low <= c - s
  BY <1>1, <1>2, DivBelow
<1>4. down \in Int /\ Unit * down <= -c - s
  BY <1>1, <1>2, DivBelow
<1> HIDE DEF low, down
<1>5. Unit * low = MaxInventory * (10 * low) /\ Unit * down = MaxInventory * (10 * down)
  BY <1>1, <1>3, <1>4 DEF Unit
<1>6. MaxInventory * (-(fair - 10 * EdgeSkew)) = -(MaxInventory * (fair - 10 * EdgeSkew))
  BY <1>1
<1>7. /\ MaxInventory * (fair + 10 * EdgeSkew) \in Int
      /\ MaxInventory * (fair - 10 * EdgeSkew) \in Int
      /\ MaxInventory * (10 * low) \in Int /\ MaxInventory * (10 * down) \in Int
  BY <1>1, <1>3, <1>4
<1>8. /\ MaxInventory * (10 * low) <= MaxInventory * (fair + 10 * EdgeSkew)
      /\ MaxInventory * (10 * down) <= MaxInventory * (-(fair - 10 * EdgeSkew))
  BY <1>2, <1>3, <1>4, <1>5, <1>6, <1>7
<1>9. 10 * low <= fair + 10 * EdgeSkew /\ 10 * down <= -(fair - 10 * EdgeSkew)
  BY <1>1, <1>3, <1>4, <1>8, Cancels
<1> QED BY <1>1, <1>3, <1>4, <1>9 DEF low, down, c, s

\* A book has a bid and an ask.
LEMMA BookTyped ==
  ASSUME NEW b \in Books PROVE b.bid \in Int /\ b.ask \in Int
<1>1. b \in [bid : 0..99, ask : 1..100, deep : BOOLEAN]
  BY QuoteRulesAssumption
<1>2. b.bid \in 0..99 /\ b.ask \in 1..100
  BY <1>1
<1> QED BY <1>2

\* A quote made post-only does not cross the book, and only retreats.
LEMMA PostOnlyInside ==
  ASSUME NEW low \in Int, NEW high \in Int, NEW b \in Books
  PROVE  LET at == PostOnly(low, high, b)
         IN  /\ at.bid \in Int /\ at.ask \in Int
             /\ at.bid # 1 => at.bid < b.ask /\ at.bid <= low
             /\ at.ask # 99 => at.ask > b.bid /\ at.ask >= high
<1>1. b.bid \in Int /\ b.ask \in Int
  BY BookTyped
<1> DEFINE l == Min({low, b.ask - 1})
           u == Max({high, b.bid + 1})
<1>2. l = (IF low <= b.ask - 1 THEN low ELSE b.ask - 1) /\ l \in Int
  BY <1>1, MinOfTwo
<1>3. u = (IF high >= b.bid + 1 THEN high ELSE b.bid + 1) /\ u \in Int
  BY <1>1, MaxOfTwo
<1>4. PostOnly(low, high, b) = [bid |-> Max({1, l}), ask |-> Min({99, u})]
  BY DEF PostOnly
<1> HIDE DEF l, u
<1>5. Max({1, l}) = (IF 1 >= l THEN 1 ELSE l) /\ Min({99, u}) = (IF 99 <= u THEN 99 ELSE u)
  BY <1>2, <1>3, MaxOfTwo, MinOfTwo
<1> QED BY <1>1, <1>2, <1>3, <1>4, <1>5

\* A quote fits the inventory it was made at, and rests.
LEMMA QuoterSound ==
  ASSUME NEW fair \in Fairs, NEW n \in Int, NEW b \in Books, NEW f,
         NEW q \in compute_quote(fair, n, b, f)
  PROVE  Fits(q, n) /\ Below(q) /\ Above(q)
<1>0. MaxInventory \in Nat \ {0} /\ EdgeSkew \in Nat /\ fair \in Int
  BY QuoteRulesAssumption
<1> DEFINE c    == Centre(fair, n, b)
           low  == (c - Unit * HalfSpread) \div Unit
           high == -((-c - Unit * HalfSpread) \div Unit)
           at   == PostOnly(low, high, b)
           both == [bid |-> at.bid, ask |-> at.ask, fair |-> fair, fee |-> f, seen |-> b]
<1>1. /\ low \in Int /\ 10 * low <= fair + 10 * EdgeSkew
      /\ high \in Int /\ 10 * high >= fair - 10 * EdgeSkew
  BY <1>0, SidesInFair
<1>2. \/ n >= MaxInventory /\ q = [both EXCEPT !.bid = NoSide]
      \/ n < MaxInventory /\ n <= -MaxInventory /\ q = [both EXCEPT !.ask = NoSide]
      \/ n < MaxInventory /\ n > -MaxInventory /\ q = both
  BY <1>0 DEF compute_quote
<1> HIDE DEF c, low, high
<1>3. /\ at.bid \in Int /\ at.ask \in Int
      /\ at.bid # 1 => at.bid < b.ask /\ at.bid <= low
      /\ at.ask # 99 => at.ask > b.bid /\ at.ask >= high
  <2>1. low \in Int /\ high \in Int
    BY <1>1
  <2>2. LET p == PostOnly(low, high, b)
        IN  /\ p.bid \in Int /\ p.ask \in Int
            /\ p.bid # 1 => p.bid < b.ask /\ p.bid <= low
            /\ p.ask # 99 => p.ask > b.bid /\ p.ask >= high
    BY <2>1, PostOnlyInside
  <2> QED BY <2>2
<1>4. b.ask \in Int /\ b.bid \in Int
  BY BookTyped
<1> HIDE DEF at
<1>5. /\ q.bid \in {NoSide, at.bid} /\ q.ask \in {NoSide, at.ask}
      /\ q.fair = fair /\ q.seen = b
      /\ q.bid # NoSide => n < MaxInventory
      /\ q.ask # NoSide => n > -MaxInventory
  BY <1>0, <1>2 DEF NoSide
<1> QED BY <1>0, <1>1, <1>3, <1>4, <1>5 DEF Fits, Below, Above

-----------------------------------------------------------------------------
(* The inductive invariants *)

\* There is at most one quote, and none between runs.
Kept ==
  /\ run \in {"down", "running", "invalid"}
  /\ run = "down" => quote = {}
  /\ net \in Int /\ booked \in Int

\* While a run lasts the inventory in memory is that of the cohort, and the quote
\* fits it.
CapInv ==
  /\ run # "down" => net = booked
  /\ \A q \in quote : Fits(q, booked)
  /\ ShadowCap

\* A look at a book fills one contract, on a side or on none.
LEMMA FillIsOne ==
  ASSUME NEW q, NEW b \in Books
  PROVE  fills_for_quote(q, b) \in {-1, 0, 1}
BY DEF fills_for_quote

\* So a tick adds one contract at most, and none without a quote.
LEMMA DueIsOne ==
  ASSUME NEW b \in Books
  PROVE  /\ Due(b) \in {-1, 0, 1}
         /\ quote = {} => Due(b) = 0
BY FillIsOne DEF Due

\* What is due keeps the cap, since the quote leaves out the side at the cap.
LEMMA DueKeepsCap ==
  ASSUME Kept, CapInv, NEW b \in Books
  PROVE  booked + Due(b) \in -MaxInventory..MaxInventory
<1>1. MaxInventory \in Nat \ {0} /\ booked \in -MaxInventory..MaxInventory
  BY QuoteRulesAssumption DEF CapInv, ShadowCap
<1>2. CASE quote = {}
  BY <1>1, <1>2, DueIsOne
<1>3. CASE quote # {}
  <2>1. PICK q \in quote : Due(b) = fills_for_quote(q, b)
    BY <1>3 DEF Due
  <2>2. Fits(q, booked)
    BY DEF CapInv
  <2>3. /\ Due(b) = 1 => q.bid # NoSide
        /\ Due(b) = -1 => q.ask # NoSide
    BY <2>1 DEF fills_for_quote
  <2>4. Due(b) \in {-1, 0, 1}
    BY DueIsOne
  <2> QED BY <1>1, <2>2, <2>3, <2>4 DEF Fits, Kept
<1> QED BY <1>2, <1>3

-----------------------------------------------------------------------------
(* The steps *)

\* Every step keeps the bookkeeping of the run: no quote without one.
LEMMA KeptStep ==
  ASSUME Kept, [QuoteNext]_quoteVars
  PROVE  Kept'
<1>1. CASE _begin_experiment_run
  BY <1>1 DEF _begin_experiment_run, Kept
<1>2. ASSUME NEW f \in Multipliers, ChangeFee(f) PROVE Kept'
  BY <1>2 DEF ChangeFee, Kept
<1>3. ASSUME NEW b \in Books, Crash(b) \/ Unpersisted(b) PROVE Kept'
  BY <1>3 DEF Crash, Unpersisted, Dies, Kept
<1>4. ASSUME NEW b \in Books, TickBlind(b) PROVE Kept'
  BY <1>4 DEF TickBlind, _invalidate_experiment, Kept
<1>5. ASSUME NEW b \in Books, TickUnproven(b) PROVE Kept'
  BY <1>5 DEF TickUnproven, _invalidate_experiment, Kept
<1>6. ASSUME NEW b \in Books, NEW observed, TickStale(b, observed) PROVE Kept'
  BY <1>6, DueIsOne DEF TickStale, Ends, _settle_fills, _invalidate_experiment, Kept
<1>7. ASSUME NEW b \in Books, NEW observed, NEW fair \in Fairs, NEW eligible \in BOOLEAN,
             Tick(b, observed, fair, eligible)
      PROVE  Kept'
  BY <1>7, DueIsOne DEF Tick, Ends, _settle_fills, _invalidate_experiment, Kept
<1>8. ASSUME NEW b \in Books, NEW readable \in BOOLEAN, NEW observed,
             _finalize_shadow_exposure(b, readable, observed)
      PROVE  Kept'
  BY <1>8, DueIsOne DEF _finalize_shadow_exposure, Kept
<1>9. CASE UNCHANGED quoteVars
  BY <1>9 DEF quoteVars, Kept
<1> QED BY <1>1, <1>2, <1>3, <1>4, <1>5, <1>6, <1>7, <1>8, <1>9 DEF QuoteNext

\* Every step keeps the inventory within the cap.
LEMMA CapStep ==
  ASSUME Kept, CapInv, [QuoteNext]_quoteVars
  PROVE  CapInv'
<1>1. CASE _begin_experiment_run
  BY <1>1 DEF _begin_experiment_run, Kept, CapInv, ShadowCap
<1>2. ASSUME NEW f \in Multipliers, ChangeFee(f) PROVE CapInv'
  BY <1>2 DEF ChangeFee, CapInv, ShadowCap
<1>3. ASSUME NEW b \in Books, Crash(b) \/ Unpersisted(b) PROVE CapInv'
  BY <1>3 DEF Crash, Unpersisted, Dies, CapInv, ShadowCap
<1>4. ASSUME NEW b \in Books, TickBlind(b) PROVE CapInv'
  BY <1>4 DEF TickBlind, _invalidate_experiment, CapInv, ShadowCap
<1>5. ASSUME NEW b \in Books, TickUnproven(b) PROVE CapInv'
  BY <1>5 DEF TickUnproven, _invalidate_experiment, CapInv, ShadowCap
<1>6. ASSUME NEW b \in Books, NEW observed, TickStale(b, observed) PROVE CapInv'
  BY <1>6, DueKeepsCap DEF TickStale, Ends, _settle_fills, _invalidate_experiment, CapInv, ShadowCap
<1>7. ASSUME NEW b \in Books, NEW observed, NEW fair \in Fairs, NEW eligible \in BOOLEAN,
             Tick(b, observed, fair, eligible)
      PROVE  CapInv'
  <2>1. /\ run' # "down" => net' = booked'
        /\ ShadowCap'
        /\ net' \in Int
    BY <1>7, DueKeepsCap, DueIsOne
       DEF Tick, Ends, _settle_fills, _invalidate_experiment, Kept, CapInv, ShadowCap
  <2>2. \A q \in quote' : Fits(q, net')
    <3>1. quote' = {} \/ quote' = compute_quote(fair, net', b, observed)
      BY <1>7 DEF Tick
    <3> QED BY <2>1, <3>1, QuoterSound
  <2>3. net' = booked'
    BY <1>7 DEF Tick, Ends, _settle_fills, _invalidate_experiment, CapInv
  <2> QED BY <2>1, <2>2, <2>3 DEF CapInv, Fits
<1>8. ASSUME NEW b \in Books, NEW readable \in BOOLEAN, NEW observed,
             _finalize_shadow_exposure(b, readable, observed)
      PROVE  CapInv'
  BY <1>8, DueKeepsCap DEF _finalize_shadow_exposure, Kept, CapInv, ShadowCap
<1>9. CASE UNCHANGED quoteVars
  BY <1>9 DEF quoteVars, CapInv, ShadowCap, Fits
<1> QED BY <1>1, <1>2, <1>3, <1>4, <1>5, <1>6, <1>7, <1>8, <1>9 DEF QuoteNext

\* Every step keeps a clean cohort from missing a fill.
LEMMA CleanStep ==
  ASSUME Kept, CleanTellsAll, [QuoteNext]_quoteVars
  PROVE  CleanTellsAll'
<1>1. CASE _begin_experiment_run
  BY <1>1 DEF _begin_experiment_run, Kept, CleanTellsAll
<1>2. ASSUME NEW f \in Multipliers, ChangeFee(f) PROVE CleanTellsAll'
  BY <1>2 DEF ChangeFee, CleanTellsAll
<1>3. ASSUME NEW b \in Books, Crash(b) \/ Unpersisted(b) PROVE CleanTellsAll'
  BY <1>3 DEF Crash, Unpersisted, Dies, CleanTellsAll
<1>4. ASSUME NEW b \in Books, TickBlind(b) PROVE CleanTellsAll'
  BY <1>4 DEF TickBlind, _invalidate_experiment, CleanTellsAll
<1>5. ASSUME NEW b \in Books, TickUnproven(b) PROVE CleanTellsAll'
  BY <1>5 DEF TickUnproven, _invalidate_experiment, CleanTellsAll
<1>6. ASSUME NEW b \in Books, NEW observed, TickStale(b, observed) PROVE CleanTellsAll'
  BY <1>6 DEF TickStale, Ends, _settle_fills, _invalidate_experiment, CleanTellsAll
<1>7. ASSUME NEW b \in Books, NEW observed, NEW fair \in Fairs, NEW eligible \in BOOLEAN,
             Tick(b, observed, fair, eligible)
      PROVE  CleanTellsAll'
  BY <1>7 DEF Tick, Ends, _settle_fills, _invalidate_experiment, CleanTellsAll
<1>8. ASSUME NEW b \in Books, NEW readable \in BOOLEAN, NEW observed,
             _finalize_shadow_exposure(b, readable, observed)
      PROVE  CleanTellsAll'
  BY <1>8, DueIsOne DEF _finalize_shadow_exposure, Kept, CleanTellsAll
<1>9. CASE UNCHANGED quoteVars
  BY <1>9 DEF quoteVars, CleanTellsAll
<1> QED BY <1>1, <1>2, <1>3, <1>4, <1>5, <1>6, <1>7, <1>8, <1>9 DEF QuoteNext

\* Every step keeps the quote off the book it was made against.
LEMMA RestStep ==
  ASSUME Kept, QuoteRests, [QuoteNext]_quoteVars
  PROVE  QuoteRests'
<1>1. CASE _begin_experiment_run
  BY <1>1 DEF _begin_experiment_run, QuoteRests
<1>2. ASSUME NEW f \in Multipliers, ChangeFee(f) PROVE QuoteRests'
  BY <1>2 DEF ChangeFee, QuoteRests
<1>3. ASSUME NEW b \in Books, Crash(b) \/ Unpersisted(b) PROVE QuoteRests'
  BY <1>3 DEF Crash, Unpersisted, Dies, QuoteRests
<1>4. ASSUME NEW b \in Books, TickBlind(b) PROVE QuoteRests'
  BY <1>4 DEF TickBlind, QuoteRests
<1>5. ASSUME NEW b \in Books, TickUnproven(b) PROVE QuoteRests'
  BY <1>5 DEF TickUnproven, QuoteRests
<1>6. ASSUME NEW b \in Books, NEW observed, TickStale(b, observed) PROVE QuoteRests'
  BY <1>6 DEF TickStale, QuoteRests
<1>7. ASSUME NEW b \in Books, NEW observed, NEW fair \in Fairs, NEW eligible \in BOOLEAN,
             Tick(b, observed, fair, eligible)
      PROVE  QuoteRests'
  <2>1. net' \in Int
    BY <1>7, KeptStep DEF QuoteNext, Kept
  <2>2. quote' = {} \/ quote' = compute_quote(fair, net', b, observed)
    BY <1>7 DEF Tick
  <2>3. \A q \in quote' : Below(q) /\ Above(q)
    BY <2>1, <2>2, QuoterSound
  <2> QED BY <2>3 DEF QuoteRests, Below, Above
<1>8. ASSUME NEW b \in Books, NEW readable \in BOOLEAN, NEW observed,
             _finalize_shadow_exposure(b, readable, observed)
      PROVE  QuoteRests'
  BY <1>8 DEF _finalize_shadow_exposure, QuoteRests
<1>9. CASE UNCHANGED quoteVars
  BY <1>9 DEF quoteVars, QuoteRests
<1> QED BY <1>1, <1>2, <1>3, <1>4, <1>5, <1>6, <1>7, <1>8, <1>9 DEF QuoteNext

\* There is no run, quote or fill at first.
LEMMA QuoteStarts == QuoteInit => Kept /\ CapInv /\ CleanTellsAll /\ QuoteRests
BY QuoteRulesAssumption DEF QuoteInit, Kept, CapInv, ShadowCap, CleanTellsAll, QuoteRests

\* The bookkeeping of every behaviour.
LEMMA AlwaysKept == QuoteSpec => []Kept
<1>1. Kept /\ [QuoteNext]_quoteVars => Kept'
  BY KeptStep
<1> QED BY QuoteStarts, <1>1, PTL DEF QuoteSpec

-----------------------------------------------------------------------------
(* The theorems *)

(***************************************************************************)
(* A cohort whose every row is clean missed no fill of an exposed quote,   *)
(* however its runs begin, end and crash (engine.py:250-332, 471-551).     *)
(***************************************************************************)
THEOREM CleanCohorts == QuoteSpec => []CleanTellsAll
<1>1. Kept /\ CleanTellsAll /\ [QuoteNext]_quoteVars => CleanTellsAll'
  BY CleanStep
<1> QED BY QuoteStarts, AlwaysKept, <1>1, PTL DEF QuoteSpec

(***************************************************************************)
(* The inventory of a cohort stays within the cap, through every restart   *)
(* (quoter.py:83-88, engine.py:379).                                       *)
(***************************************************************************)
THEOREM CapHolds == QuoteSpec => []ShadowCap
<1>1. Kept /\ CapInv /\ [QuoteNext]_quoteVars => CapInv'
  BY CapStep
<1>2. CapInv => ShadowCap
  BY DEF CapInv
<1> QED BY QuoteStarts, AlwaysKept, <1>1, <1>2, PTL DEF QuoteSpec

(***************************************************************************)
(* A quote away from the extreme cents is strictly inside the market it was*)
(* made on and gives away no more of the fair than the edge skew, whatever *)
(* the spread, the skew, the inventory and the size (quoter.py:62-112).    *)
(***************************************************************************)
THEOREM QuotesRest == QuoteSpec => []QuoteRests
<1>1. Kept /\ QuoteRests /\ [QuoteNext]_quoteVars => QuoteRests'
  BY RestStep
<1> QED BY QuoteStarts, AlwaysKept, <1>1, PTL DEF QuoteSpec

-----------------------------------------------------------------------------
(* What an exit nets (ExitRules): the fees of its orders *)

\* The fee of one contract in hundredths of a cent, before it is rounded up.
RawFee(price) == 7 * price * (100 - price)

\* A fee is at least what it rounds up, and less than a cent more.
RoundsUp(f, raw) == raw \in Nat /\ f \in Nat /\ raw <= 10000 * f /\ 10000 * f < raw + 10000

\* The fee of an order is its raw fee, rounded up once.
LEMMA FeeIsRoundedUp ==
  ASSUME NEW n \in Nat, NEW p \in 1..99
  PROVE  RawFee(p) \in Nat /\ RoundsUp(kalshi_fee_cents(n, p), n * RawFee(p))
<1>1. PICK w \in Nat : w = RawFee(p)
  <2>1. p \in Nat /\ 100 - p \in Nat
    OBVIOUS
  <2>2. p * (100 - p) \in Nat
    BY <2>1
  <2> QED
    BY <2>2 DEF RawFee
<1>2. PICK x \in Nat : x = n * w
  OBVIOUS
<1>3. 7 * n * p * (100 - p) = x
  <2>1. PICK u \in Int : u = 100 - p
    OBVIOUS
  <2>2. 7 * n * p * u = n * (7 * p * u)
    OBVIOUS
  <2> QED
    BY <1>1, <1>2, <2>1, <2>2 DEF RawFee
<1>4. PICK f \in Int : f = kalshi_fee_cents(n, p) /\ f = (x + 10000 - 1) \div 10000
  BY <1>3 DEF kalshi_fee_cents, CeilDiv
<1>5. RoundsUp(f, x)
  BY <1>4 DEF RoundsUp
<1> QED
  BY <1>1, <1>2, <1>4, <1>5

\* It is never negative.
LEMMA FeeIsNat ==
  ASSUME NEW n \in Nat, NEW p \in 1..99
  PROVE  kalshi_fee_cents(n, p) \in Nat
<1>1. RoundsUp(kalshi_fee_cents(n, p), n * RawFee(p))
  BY FeeIsRoundedUp
<1> QED
  BY <1>1 DEF RoundsUp

\* Two orders pay at least the fee of one for both, and at most a cent more.
LEMMA FeesAddUp ==
  ASSUME NEW m \in Nat, NEW n \in Nat, NEW p \in 1..99
  PROVE  /\ kalshi_fee_cents(m + n, p) <= kalshi_fee_cents(m, p) + kalshi_fee_cents(n, p)
         /\ kalshi_fee_cents(m, p) + kalshi_fee_cents(n, p) <= kalshi_fee_cents(m + n, p) + 1
<1>1. PICK f, g, h : /\ f = kalshi_fee_cents(m, p) /\ g = kalshi_fee_cents(n, p)
                     /\ h = kalshi_fee_cents(m + n, p)
  OBVIOUS
<1>2. PICK w \in Nat : w = RawFee(p)
  BY FeeIsRoundedUp
<1>3. PICK x, y, z : x = m * w /\ y = n * w /\ z = (m + n) * w
  OBVIOUS
<1>4. m + n \in Nat
  OBVIOUS
<1>5. RoundsUp(f, x) /\ RoundsUp(g, y) /\ RoundsUp(h, z)
  BY <1>1, <1>2, <1>3, <1>4, FeeIsRoundedUp
<1>6. z = x + y
  BY <1>3
<1>7. h <= f + g /\ f + g <= h + 1
  BY <1>5, <1>6 DEF RoundsUp
<1> QED
  BY <1>1, <1>7

\* Nothing sold is nothing charged.
LEMMA FeeOfNone ==
  ASSUME NEW p \in 1..99
  PROVE  kalshi_fee_cents(0, p) = 0
<1>1. RawFee(p) \in Nat /\ RoundsUp(kalshi_fee_cents(0, p), 0 * RawFee(p))
  BY FeeIsRoundedUp
<1>2. 0 * RawFee(p) = 0
  BY <1>1
<1>3. PICK f : f = kalshi_fee_cents(0, p)
  OBVIOUS
<1>4. f \in Nat /\ 10000 * f < 10000
  BY <1>1, <1>2, <1>3 DEF RoundsUp
<1> QED
  BY <1>3, <1>4

\* An order of many pays no more than as many orders of one.
LEMMA FeeByOne ==
  ASSUME NEW n \in Nat, NEW p \in 1..99
  PROVE  kalshi_fee_cents(n, p) <= n * kalshi_fee_cents(1, p)
<1>1. PICK f, g : f = kalshi_fee_cents(n, p) /\ g = kalshi_fee_cents(1, p)
  OBVIOUS
<1>2. PICK w \in Nat : w = RawFee(p)
  BY FeeIsRoundedUp
<1>3. RoundsUp(f, n * w) /\ RoundsUp(g, w)
  <2>1. RoundsUp(f, n * w) /\ RoundsUp(g, 1 * w)
    BY <1>1, <1>2, FeeIsRoundedUp
  <2>2. 1 * w = w
    OBVIOUS
  <2> QED
    BY <2>1, <2>2
<1>4. g \in Nat /\ n * w <= n * (10000 * g)
  <2>1. g \in Nat /\ w <= 10000 * g
    BY <1>3 DEF RoundsUp
  <2> QED
    BY <2>1, Products
<1>5. n * (10000 * g) = 10000 * (n * g) /\ n * g \in Int
  BY <1>4
<1>6. f \in Nat /\ 10000 * f < n * w + 10000 /\ n * w \in Nat
  BY <1>3 DEF RoundsUp
<1>7. f < n * g + 1
  BY <1>4, <1>5, <1>6
<1> QED
  BY <1>1, <1>5, <1>6, <1>7

-----------------------------------------------------------------------------
(* The rounded average *)

\* It is within half of what it rounds.
LEMMA Rounded ==
  ASSUME NEW n \in Nat, NEW d \in Nat \ {0}, NEW e, e = RoundDiv(n, d)
  PROVE  e \in Int /\ 2 * (d * e) <= 2 * n + d /\ 2 * n <= 2 * (d * e) + d
<1>1. PICK q \in Int, r \in Int : q = n \div d /\ r = n % d
  OBVIOUS
<1>2. n = d * q + r /\ 0 <= r /\ r < d
  BY <1>1
<1>3. e = q \/ e = q + 1
  BY <1>1 DEF RoundDiv
<1>4. e = q => 2 * r <= d
  BY <1>1, <1>2 DEF RoundDiv
<1>5. e = q + 1 => 2 * r >= d
  BY <1>1, <1>2 DEF RoundDiv
<1>6. PICK u \in Int : u = d * q
  OBVIOUS
<1>7. d * (q + 1) = u + d
  BY <1>6
<1>8. CASE e = q
  BY <1>2, <1>4, <1>6, <1>8
<1>9. CASE e = q + 1
  BY <1>2, <1>5, <1>6, <1>7, <1>9
<1> QED
  BY <1>3, <1>8, <1>9

\* It lies between the prices.
LEMMA AveragePrice ==
  ASSUME NEW c1 \in Nat \ {0}, NEW c2 \in Nat \ {0}, NEW p1 \in 1..99, NEW p2 \in 1..99,
         NEW e, e = RoundDiv(c1 * p1 + c2 * p2, c1 + c2)
  PROVE  e \in 1..99
<1>1. PICK d \in Nat \ {0} : d = c1 + c2
  OBVIOUS
<1>2. PICK x \in Nat, y \in Nat : x = c1 * p1 /\ y = c2 * p2
  OBVIOUS
<1>3. c1 <= x /\ x <= 99 * c1 /\ c2 <= y /\ y <= 99 * c2
  <2>1. c1 * 1 <= c1 * p1 /\ c1 * p1 <= c1 * 99
    BY Products
  <2>2. c2 * 1 <= c2 * p2 /\ c2 * p2 <= c2 * 99
    BY Products
  <2> QED
    BY <1>2, <2>1, <2>2
<1>4. PICK n \in Nat : n = x + y
  OBVIOUS
<1>5. d <= n /\ n <= 99 * d
  BY <1>1, <1>3, <1>4
<1>6. e \in Int /\ 2 * (d * e) <= 2 * n + d /\ 2 * n <= 2 * (d * e) + d
  BY <1>1, <1>2, <1>4, Rounded
<1>7. ~(e <= 0)
  <2> SUFFICES ASSUME e <= 0 PROVE FALSE
    OBVIOUS
  <2>1. d * e <= d * 0
    BY <1>6, Products
  <2> QED
    BY <1>5, <1>6, <2>1
<1>8. ~(e >= 100)
  <2> SUFFICES ASSUME e >= 100 PROVE FALSE
    OBVIOUS
  <2>1. d * 100 <= d * e
    BY <1>6, Products
  <2> QED
    BY <1>5, <1>6, <2>1
<1> QED
  BY <1>6, <1>7, <1>8

\* One contract pays a cent or two, and two only between 18 and 82 cents.
LEMMA FeeOfOne ==
  ASSUME NEW p \in 1..99
  PROVE  kalshi_fee_cents(1, p) = IF p \in 18..82 THEN 2 ELSE 1
<1>1. PICK w \in Nat, f \in Nat : w = RawFee(p) /\ f = kalshi_fee_cents(1, p)
  <2>1. 1 \in Nat
    OBVIOUS
  <2> QED
    BY <2>1, FeeIsRoundedUp, FeeIsNat
<1>2. RoundsUp(f, w)
  <2>1. RoundsUp(f, 1 * w)
    BY <1>1, FeeIsRoundedUp
  <2> QED
    BY <2>1
<1>3. PICK x \in Int : x = p * (100 - p) /\ w = 7 * x
  BY <1>1 DEF RawFee
<1>4. CASE p \in 18..82
  <2>1. (p - 18) * (82 - p) >= 0
    BY <1>4
  <2>2. (p - 18) * (82 - p) = x - 1476
    BY <1>3
  <2>3. (p - 50) * (p - 50) >= 0 /\ (p - 50) * (p - 50) = 2500 - x
    BY <1>3
  <2>4. 10332 <= w /\ w <= 17500
    BY <1>3, <2>1, <2>2, <2>3
  <2> QED
    BY <1>1, <1>2, <1>4, <2>4 DEF RoundsUp
<1>5. CASE p \in 1..17
  <2>1. (17 - p) * (83 - p) >= 0 /\ (17 - p) * (83 - p) = 1411 - x
    BY <1>3, <1>5
  <2>2. (p - 1) * (99 - p) >= 0 /\ (p - 1) * (99 - p) = x - 99
    BY <1>3, <1>5
  <2>3. 1 <= w /\ w <= 10000
    BY <1>3, <2>1, <2>2
  <2> QED
    BY <1>1, <1>2, <1>5, <2>3 DEF RoundsUp
<1>6. CASE p \in 83..99
  <2>1. (p - 17) * (p - 83) >= 0 /\ (p - 17) * (p - 83) = 1411 - x
    BY <1>3, <1>6
  <2>2. (p - 1) * (99 - p) >= 0 /\ (p - 1) * (99 - p) = x - 99
    BY <1>3, <1>6
  <2>3. 1 <= w /\ w <= 10000
    BY <1>3, <2>1, <2>2
  <2> QED
    BY <1>1, <1>2, <1>6, <2>3 DEF RoundsUp
<1> QED
  BY <1>4, <1>5, <1>6

\* One lot that gains by the contract gains as a whole.
LEMMA OneLotGains ==
  ASSUME NEW c \in Nat \ {0}, NEW p \in 1..99, NEW b \in 1..99, NetPerContract(b, p) > 0
  PROVE  c * (b - p) - kalshi_fee_cents(c, b) - kalshi_fee_cents(c, p) > 0
<1>1. PICK f \in Int, g \in Int : f = kalshi_fee_cents(1, b) /\ g = kalshi_fee_cents(1, p)
  BY FeeOfOne
<1>2. PICK x \in Nat, y \in Nat : x = kalshi_fee_cents(c, b) /\ y = kalshi_fee_cents(c, p)
  BY FeeIsNat
<1>3. x <= c * f /\ y <= c * g
  BY <1>1, <1>2, FeeByOne
<1>4. PICK d \in Nat \ {0} : d = b - p - f - g
  BY <1>1 DEF NetPerContract
<1>5. c * d > 0
  OBVIOUS
<1>6. c * d = c * (b - p) - c * f - c * g
  BY <1>4
<1>7. PICK k, l, m : k = c * f /\ l = c * g /\ m = c * (b - p)
  OBVIOUS
<1>8. k \in Int /\ l \in Int /\ m \in Int
  BY <1>7
<1>9. m - x - y > 0
  BY <1>2, <1>3, <1>5, <1>6, <1>7, <1>8
<1> QED
  BY <1>2, <1>7, <1>9

\* The fee of a price is no more than its tangent at e.
BelowTangent(c, p, e) ==
  c * RawFee(p) <= c * RawFee(e) + (700 - 14 * e) * (c * p - c * e)

\* The raw fee is concave in the price.
LEMMA FeeAround ==
  ASSUME NEW c \in Nat, NEW p \in 1..99, NEW e \in 1..99
  PROVE  BelowTangent(c, p, e)
<1>1. PICK s \in Int, g \in Int : s = 700 - 14 * e /\ g = p - e
  OBVIOUS
<1>2. RawFee(p) = RawFee(e) + s * g - 7 * (g * g)
  BY <1>1 DEF RawFee
<1>3. PICK w \in Int, v \in Int, t \in Int : w = RawFee(p) /\ v = RawFee(e) /\ t = s * g
  <2>1. RawFee(p) \in Nat /\ RawFee(e) \in Nat
    BY FeeIsRoundedUp
  <2>2. s * g \in Int
    OBVIOUS
  <2> QED
    BY <2>1, <2>2
<1>4. g * g >= 0
  OBVIOUS
<1>5. w <= v + t
  BY <1>2, <1>3, <1>4
<1>6. c * w <= c * (v + t)
  BY <1>5, Products
<1>7. c * (v + t) = c * v + c * t
  OBVIOUS
<1>8. c * t = s * (c * g)
  BY <1>3
<1>9. c * g = c * p - c * e
  BY <1>1
<1> QED
  BY <1>1, <1>3, <1>6, <1>7, <1>8, <1>9 DEF BelowTangent

\* Two lots that gain by the contract, judged at their rounded average, do not lose as a
\* whole: the cent each contract gains covers the rounding of the average and of two fees.
LEMMA TwoLotsBreakEven ==
  ASSUME NEW c1 \in Nat \ {0}, NEW c2 \in Nat \ {0}, NEW p1 \in 1..99, NEW p2 \in 1..99,
         NEW b \in 1..99, NEW e, e = RoundDiv(c1 * p1 + c2 * p2, c1 + c2),
         NetPerContract(b, e) > 0
  PROVE  /\ c1 * (b - p1) - kalshi_fee_cents(c1, b) - kalshi_fee_cents(c1, p1) \in Int
         /\ c2 * (b - p2) - kalshi_fee_cents(c2, b) - kalshi_fee_cents(c2, p2) \in Int
         /\ (c1 * (b - p1) - kalshi_fee_cents(c1, b) - kalshi_fee_cents(c1, p1))
              + (c2 * (b - p2) - kalshi_fee_cents(c2, b) - kalshi_fee_cents(c2, p2)) >= 0
<1>1. e \in 1..99
  BY AveragePrice
<1>2. PICK f \in Nat, g \in Nat : f = kalshi_fee_cents(1, b) /\ g = kalshi_fee_cents(1, e)
  BY <1>1, FeeIsNat
<1>3. PICK x1 \in Nat, x2 \in Nat, y1 \in Nat, y2 \in Nat :
        /\ x1 = kalshi_fee_cents(c1, b) /\ x2 = kalshi_fee_cents(c2, b)
        /\ y1 = kalshi_fee_cents(c1, p1) /\ y2 = kalshi_fee_cents(c2, p2)
  BY FeeIsNat
<1>4. PICK d \in Nat \ {0} : d = c1 + c2
  OBVIOUS
<1>5. PICK n \in Nat, m \in Int, over \in Int : /\ n = c1 * p1 + c2 * p2 /\ m = d * e
                                             /\ over = n - m
  BY <1>1
<1>6. 2 * over <= d /\ -d <= 2 * over
  <2>1. 2 * m <= 2 * n + d /\ 2 * n <= 2 * m + d
    BY <1>4, <1>5, Rounded
  <2> QED
    BY <1>5, <2>1
\* What is left once the sale is paid for.
<1>7. (c1 * (b - p1) - x1 - y1) + (c2 * (b - p2) - x2 - y2) >= d + d * g - over - y1 - y2
  <2>1. x1 <= c1 * f /\ x2 <= c2 * f
    BY <1>2, <1>3, FeeByOne
  <2>2. b - e - f - g >= 1
    BY <1>1, <1>2 DEF NetPerContract
  <2>3. d * (1 + e + g) <= d * (b - f)
    BY <1>1, <2>2, Products
  <2>4. d * (1 + e + g) = d + m + d * g
    BY <1>1, <1>5
  <2>5. d * (b - f) = c1 * b + c2 * b - c1 * f - c2 * f
    BY <1>4
  <2>6. c1 * (b - p1) = c1 * b - c1 * p1 /\ c2 * (b - p2) = c2 * b - c2 * p2
    OBVIOUS
  <2>7. PICK k1 \in Int, k2 \in Int, l1 \in Int, l2 \in Int, q1 \in Int, q2 \in Int, h \in Int :
          /\ k1 = c1 * b /\ k2 = c2 * b /\ l1 = c1 * f /\ l2 = c2 * f
          /\ q1 = c1 * p1 /\ q2 = c2 * p2 /\ h = d * g
    OBVIOUS
  <2>8. d + m + h <= k1 + k2 - l1 - l2
    BY <2>3, <2>4, <2>5, <2>7
  <2>9. n = q1 + q2 /\ x1 <= l1 /\ x2 <= l2
    BY <1>5, <2>1, <2>7
  <2>10. (k1 - q1 - x1 - y1) + (k2 - q2 - x2 - y2) >= d + h - over - y1 - y2
    BY <1>5, <2>8, <2>9
  <2> QED
    BY <2>6, <2>7, <2>10
\* The entry fees, when there are at least three contracts.
<1>8. CASE d >= 3
  <2>1. PICK s \in Int : s = 700 - 14 * e
    BY <1>1
  <2>2. PICK w \in Nat, w1 \in Nat, w2 \in Nat :
          w = RawFee(e) /\ w1 = c1 * RawFee(p1) /\ w2 = c2 * RawFee(p2)
    <3>1. RawFee(e) \in Nat /\ RawFee(p1) \in Nat /\ RawFee(p2) \in Nat
      BY <1>1, <1>4, FeeIsRoundedUp
    <3> QED
      BY <3>1
  <2>3. 10000 * y1 < w1 + 10000 /\ 10000 * y2 < w2 + 10000
    <3>1. RoundsUp(y1, w1) /\ RoundsUp(y2, w2)
      BY <1>3, <2>2, FeeIsRoundedUp
    <3> QED
      BY <3>1 DEF RoundsUp
  <2>4. w1 <= c1 * w + s * (c1 * p1 - c1 * e) /\ w2 <= c2 * w + s * (c2 * p2 - c2 * e)
    <3>1. BelowTangent(c1, p1, e) /\ BelowTangent(c2, p2, e)
      BY <1>1, FeeAround
    <3> QED
      BY <2>1, <2>2, <3>1 DEF BelowTangent
  <2>5. w1 + w2 <= d * w + s * over
    <3>1. PICK t1 \in Int, t2 \in Int : t1 = c1 * p1 - c1 * e /\ t2 = c2 * p2 - c2 * e
      BY <1>1
    <3>2. over = t1 + t2
      BY <1>1, <1>4, <1>5, <3>1
    <3>3. s * over = s * t1 + s * t2 /\ d * w = c1 * w + c2 * w
      BY <1>4, <3>2
    <3>4. PICK a1 \in Int, a2 \in Int, z1 \in Int, z2 \in Int :
            a1 = s * t1 /\ a2 = s * t2 /\ z1 = c1 * w /\ z2 = c2 * w
      OBVIOUS
    <3>5. w1 <= z1 + a1 /\ w2 <= z2 + a2
      BY <2>4, <3>1, <3>4
    <3>6. w1 + w2 <= (z1 + z2) + (a1 + a2)
      BY <3>4, <3>5
    <3> QED
      BY <3>3, <3>4, <3>6
  <2>6. d * w <= 10000 * (d * g)
    <3>1. RoundsUp(g, 1 * RawFee(e))
      BY <1>1, <1>2, FeeIsRoundedUp
    <3>2. w <= 10000 * g
      <4>1. 1 * RawFee(e) = w
        BY <2>2
      <4> QED
        BY <3>1, <4>1 DEF RoundsUp
    <3>3. d * w <= d * (10000 * g)
      BY <3>2, Products
    <3>4. d * (10000 * g) = 10000 * (d * g)
      OBVIOUS
    <3> QED
      BY <3>3, <3>4
  <2>7. s * over <= 343 * d
    <3>1. -686 <= s /\ s <= 686
      BY <1>1, <2>1
    <3>2. CASE over >= 0
      <4>1. over * s <= over * 686
        BY <3>1, <3>2, Products
      <4> QED
        BY <1>6, <4>1
    <3>3. CASE over < 0
      <4>1. PICK u \in Nat : u = -over
        BY <3>3
      <4>2. u * (-s) <= u * 686
        BY <3>1, Products
      <4>3. u * (-s) = s * over
        BY <4>1
      <4> QED
        BY <1>6, <4>1, <4>2, <4>3
    <3> QED
      BY <3>2, <3>3
  <2>8. PICK h \in Int, k \in Int, v \in Int : h = d * g /\ k = d * w /\ v = s * over
    OBVIOUS
  <2>9. 10000 * (y1 + y2) <= 10000 * h + 343 * d + 19998
    BY <2>3, <2>5, <2>6, <2>7, <2>8
  <2>10. d + h - over - y1 - y2 > -1
    BY <1>6, <1>8, <2>9
  <2> QED
    BY <1>3, <1>7, <2>8, <2>10
\* With one contract each, a sum that rounds down has a fee to spare.
<1>9. CASE d = 2
  <2>1. c1 = 1 /\ c2 = 1
    BY <1>4, <1>9
  <2>2. over <= 1 /\ n = p1 + p2 /\ m = 2 * e
    BY <1>1, <1>5, <1>6, <1>9, <2>1
  <2>3. /\ y1 = IF p1 \in 18..82 THEN 2 ELSE 1
        /\ y2 = IF p2 \in 18..82 THEN 2 ELSE 1
        /\ g = IF e \in 18..82 THEN 2 ELSE 1
    BY <1>1, <1>2, <1>3, <2>1, FeeOfOne
  <2>4. 2 + 2 * g - over - y1 - y2 >= 0
    BY <1>1, <1>5, <2>2, <2>3
  <2>5. d * g = 2 * g
    BY <1>9
  <2> QED
    BY <1>3, <1>7, <1>9, <2>4, <2>5
<1>10. d = 2 \/ d >= 3
  BY <1>4
<1>11. c1 * (b - p1) \in Int /\ c2 * (b - p2) \in Int
  OBVIOUS
<1> QED
  BY <1>3, <1>8, <1>9, <1>10, <1>11

-----------------------------------------------------------------------------
(* The lots and what they cost (ExitRules) *)

\* The part of the run rules that starts with the exits.
ExitSpec == ExitInit /\ [][ExitNext]_exitVars

\* An open BUY row.
Lot == [count : Nat \ {0}, price : 1..99, fees : Nat]

\* What an exit is decided on.
Decision == [why : {"price", "time"}, bid : 1..99, lots : Seq(Lot)]

\* Whose lots they are and what is decided, typed.
ExitDecided ==
  /\ holder \in {"bets", "orphans"}
  /\ due = NotDue \/ due \in Decision

\* The cost on the open rows, with the fees left on them or with what their counts would pay.
CostOnRow(l) == l.count * l.price + l.fees
FullCost(l)  == l.count * l.price + kalshi_fee_cents(l.count, l.price)

\* The same of all rows.
OnRows(s)  == Total([i \in DOMAIN s |-> CostOnRow(s[i])])
InFull(s)  == Total([i \in DOMAIN s |-> FullCost(s[i])])

\* No row has more fees left on it than its count would pay.
FeesCovered(s) == \A i \in DOMAIN s : s[i].fees <= kalshi_fee_cents(s[i].count, s[i].price)

\* The books: what a row lacks of the fee its count would pay is a cent that a sale may cost
\* later.
Honest(s, money, sales, pnl) ==
  /\ s \in Seq(Lot) /\ FeesCovered(s)
  /\ money \in Int /\ sales \in Nat /\ pnl \in Int
  /\ pnl - OnRows(s) <= money
  /\ money - sales <= pnl - InFull(s)

\* The inductive invariant behind LedgerNeverFlatters.
LedgerInv == ExitDecided /\ Honest(lots, cash, exits, ledger)

\* The fields of a row and its costs are numbers.
LEMMA LotFacts ==
  ASSUME NEW l \in Lot
  PROVE  /\ l.count \in Nat /\ l.count > 0 /\ l.price \in 1..99 /\ l.fees \in Nat
         /\ kalshi_fee_cents(l.count, l.price) \in Nat
         /\ CostOnRow(l) \in Nat /\ FullCost(l) \in Nat
<1>1. l.count \in Nat /\ l.count > 0 /\ l.price \in 1..99 /\ l.fees \in Nat
  BY DEF Lot
<1>2. kalshi_fee_cents(l.count, l.price) \in Nat
  BY <1>1, FeeIsNat
<1>3. l.count * l.price \in Nat
  BY <1>1
<1> QED
  BY <1>1, <1>2, <1>3 DEF CostOnRow, FullCost

\* A sum over a sequence is one over its indices.
LEMMA TotalIsSum ==
  ASSUME NEW n \in Nat, NEW f, DOMAIN f = 1 .. n
  PROVE  Total(f) = SumFunctionOnSet(f, 1 .. n)
  BY DEF Total, SumFunction

\* The fees left on the rows are at most those in full.
LEMMA CostsAreInts ==
  ASSUME NEW s \in Seq(Lot)
  PROVE  /\ OnRows(s) \in Int /\ InFull(s) \in Int
         /\ FeesCovered(s) => OnRows(s) <= InFull(s)
<1>1. PICK n \in Nat : n = Len(s) /\ DOMAIN s = 1 .. n /\ \A i \in 1 .. n : s[i] \in Lot
  BY LenProperties, ElementOfSeq
<1>2. PICK f, g : /\ f = [i \in 1 .. n |-> CostOnRow(s[i])]
                  /\ g = [i \in 1 .. n |-> FullCost(s[i])]
  OBVIOUS
<1>3. OnRows(s) = SumFunctionOnSet(f, 1 .. n) /\ InFull(s) = SumFunctionOnSet(g, 1 .. n)
  BY <1>1, <1>2, TotalIsSum DEF OnRows, InFull
<1>4. \A i \in 1 .. n : f[i] \in Int /\ g[i] \in Int
  BY <1>1, <1>2, LotFacts
<1>5. IsFiniteSet(1 .. n)
  BY FS_Interval
<1>6. FeesCovered(s) => \A i \in 1 .. n : f[i] <= g[i]
  <2> SUFFICES ASSUME FeesCovered(s), NEW i \in 1 .. n PROVE f[i] <= g[i]
    OBVIOUS
  <2>1. s[i] \in Lot /\ f[i] = CostOnRow(s[i]) /\ g[i] = FullCost(s[i])
    BY <1>1, <1>2
  <2>2. s[i].fees <= kalshi_fee_cents(s[i].count, s[i].price)
    BY <1>1 DEF FeesCovered
  <2>3. PICK c \in Int, a \in Int, b \in Int : /\ c = s[i].count * s[i].price /\ a = s[i].fees
                                               /\ b = kalshi_fee_cents(s[i].count, s[i].price)
    <3>1. /\ s[i].count \in Nat /\ s[i].price \in Nat /\ s[i].fees \in Nat
          /\ kalshi_fee_cents(s[i].count, s[i].price) \in Nat
      <4>1. 1 .. 99 \subseteq Nat
        OBVIOUS
      <4> QED
        BY <2>1, <4>1, LotFacts
    <3>2. s[i].count * s[i].price \in Int
      BY <3>1
    <3> QED
      BY <3>1, <3>2
  <2> QED
    BY <2>1, <2>2, <2>3 DEF CostOnRow, FullCost
<1>7. FeesCovered(s) => SumFunctionOnSet(f, 1 .. n) <= SumFunctionOnSet(g, 1 .. n)
  BY <1>4, <1>5, <1>6, SumLeq
<1> QED
  BY <1>3, <1>4, <1>5, <1>7, SumType

\* h[i] is how many contracts the first i of n lots have.
Counts(s, n, h) ==
  /\ h[0] = 0 /\ h[n] = Held(s)
  /\ \A i \in 0 .. n : h[i] \in Nat
  /\ \A i \in 1 .. n : h[i] = h[i - 1] + s[i].count

\* The contracts of the first i rows add up row by row.
LEMMA HeldBefore ==
  ASSUME NEW s \in Seq(Lot), NEW n, n = Len(s), NEW h, h = [i \in 0 .. n |-> Held(SubSeq(s, 1, i))]
  PROVE  Counts(s, n, h)
<1>1. n \in Nat /\ DOMAIN s = 1 .. n /\ \A i \in 1 .. n : s[i] \in Lot
  BY LenProperties, ElementOfSeq
<1>2. PICK f : f = [i \in 1 .. n |-> s[i].count]
  OBVIOUS
<1>3. \A i \in 1 .. n : f[i] \in Nat /\ f[i] \in Int
  BY <1>1, <1>2, LotFacts
<1>4. ASSUME NEW i \in 0 .. n PROVE h[i] = SumFunctionOnSet(f, 1 .. i)
  <2>1. PICK t : t = SubSeq(s, 1, i)
    OBVIOUS
  <2>2. t \in Seq(Lot) /\ Len(t) = i /\ \A j \in 1 .. i : t[j] = s[j]
    <3>1. 1 \in Int /\ i \in Int /\ \A j \in 1 .. i : s[j] \in Lot
      BY <1>1
    <3>2. /\ SubSeq(s, 1, i) \in Seq(Lot)
          /\ Len(SubSeq(s, 1, i)) = IF 1 <= i THEN i - 1 + 1 ELSE 0
          /\ \A j \in 1 .. i - 1 + 1 : SubSeq(s, 1, i)[j] = s[1 + j - 1]
      BY <3>1, SubSeqProperties
    <3>3. (IF 1 <= i THEN i - 1 + 1 ELSE 0) = i /\ i - 1 + 1 = i
      BY <1>1
    <3> QED
      BY <1>1, <2>1, <3>2, <3>3
  <2>3. DOMAIN t = 1 .. i /\ i \in Nat
    BY <1>1, <2>2, LenProperties
  <2>4. PICK g : g = [j \in DOMAIN t |-> t[j].count]
    OBVIOUS
  <2>5. Held(t) = SumFunctionOnSet(g, 1 .. i)
    BY <2>3, <2>4, TotalIsSum DEF Held
  <2>6. \A j \in 1 .. i : f[j] \in Int /\ g[j] = f[j]
    <3> SUFFICES ASSUME NEW j \in 1 .. i PROVE f[j] \in Int /\ g[j] = f[j]
      OBVIOUS
    <3>1. j \in 1 .. n
      BY <1>1
    <3>2. g[j] = t[j].count /\ t[j] = s[j] /\ f[j] = s[j].count
      BY <1>2, <2>2, <2>3, <2>4, <3>1
    <3> QED
      BY <1>3, <3>1, <3>2
  <2>7. SumFunctionOnSet(g, 1 .. i) = SumFunctionOnSet(f, 1 .. i)
    <3>1. IsFiniteSet(1 .. i)
      BY <2>3, FS_Interval
    <3> QED
      BY <2>6, <3>1, SumEqual
  <2> QED
    BY <2>1, <2>5, <2>7
<1>5. h[n] = Held(s)
  <2>1. PICK g : g = [j \in DOMAIN s |-> s[j].count]
    OBVIOUS
  <2>2. Held(s) = SumFunctionOnSet(g, 1 .. n)
    BY <1>1, <2>1, TotalIsSum DEF Held
  <2>3. g = f
    BY <1>1, <1>2, <2>1
  <2> QED
    BY <1>1, <1>4, <2>2, <2>3
<1>6. /\ SumFunctionOnSet(f, 1 .. 0) = 0
      /\ \A i \in 1 .. n : SumFunctionOnSet(f, 1 .. i) = SumFunctionOnSet(f, 1 .. i - 1) + f[i]
  BY <1>1, <1>3, PrefixSums
<1>7. \A i \in 0 .. n : SumFunctionOnSet(f, 1 .. i) \in Nat
  <2> SUFFICES ASSUME NEW i \in 0 .. n PROVE SumFunctionOnSet(f, 1 .. i) \in Nat
    OBVIOUS
  <2>1. IsFiniteSet(1 .. i) /\ \A j \in 1 .. i : f[j] \in Nat
    BY <1>1, <1>3, FS_Interval
  <2> QED
    BY <2>1, SumNat
<1>8. \A i \in 1 .. n : i \in 0 .. n /\ i - 1 \in 0 .. n
  BY <1>1
<1>9. 0 \in 0 .. n
  BY <1>1
<1> QED
  BY <1>2, <1>4, <1>5, <1>6, <1>7, <1>8, <1>9 DEF Counts

-----------------------------------------------------------------------------
(* A sale closes lots (ExitRules) *)

\* c is how many of n contracts the first i lots take, k of them the i-th.
Closes(s, n, h, c, k) ==
  /\ h = [i \in 0 .. Len(s) |-> Held(SubSeq(s, 1, i))]
  /\ c = [i \in 0 .. Len(s) |-> ClosedBefore(s, n, i)]
  /\ k = [i \in 1 .. Len(s) |-> c[i] - c[i - 1]]

\* The first lots are closed whole, and the rows after the last contract are left alone.
InTurn(s, m, n, h, c, k) ==
  /\ m \in Nat /\ \A i \in 0 .. m : h[i] \in Nat
  /\ \A i \in 0 .. m : c[i] = IF n <= h[i] THEN n ELSE h[i]
  /\ \A i \in 0 .. m : c[i] \in Nat
  /\ c[0] = 0 /\ c[m] = n /\ h[0] = 0 /\ n <= h[m]
  /\ \A i \in 1 .. m : /\ k[i] = c[i] - c[i - 1] /\ k[i] \in 0 .. s[i].count
                      /\ h[i] = h[i - 1] + s[i].count
                      /\ (h[i] <= n => k[i] = s[i].count)
                      /\ (n <= h[i - 1] => k[i] = 0)

\* The split of executor.py:510-560 in those terms.
LEMMA ClosesInTurn ==
  ASSUME NEW s \in Seq(Lot), NEW m, m = Len(s), NEW n \in Nat, n <= Held(s),
         NEW h, NEW c, NEW k, Closes(s, n, h, c, k)
  PROVE  InTurn(s, m, n, h, c, k)
<1>1. m \in Nat /\ \A i \in 1 .. m : s[i] \in Lot
  BY LenProperties, ElementOfSeq
<1>2. /\ h[0] = 0 /\ h[m] = Held(s)
      /\ \A i \in 0 .. m : h[i] \in Nat
      /\ \A i \in 1 .. m : h[i] = h[i - 1] + s[i].count
  <2>1. h = [i \in 0 .. m |-> Held(SubSeq(s, 1, i))]
    BY DEF Closes
  <2>2. Counts(s, m, h)
    BY <2>1, HeldBefore
  <2> QED
    BY <2>2 DEF Counts
<1>3. ASSUME NEW i \in 0 .. m PROVE c[i] = IF n <= h[i] THEN n ELSE h[i]
  <2>1. c[i] = Min({n, h[i]}) /\ h[i] \in Int
    BY <1>2 DEF Closes, ClosedBefore
  <2> QED
    BY <2>1, MinOfTwo
<1>4. \A i \in 0 .. m : c[i] \in Nat
  BY <1>2, <1>3
<1>5. 0 \in 0 .. m /\ m \in 0 .. m
  BY <1>1
<1>6. ASSUME NEW i \in 1 .. m
      PROVE  /\ k[i] = c[i] - c[i - 1] /\ k[i] \in 0 .. s[i].count
             /\ (h[i] <= n => k[i] = s[i].count)
             /\ (n <= h[i - 1] => k[i] = 0)
  <2>1. i \in 0 .. m /\ i - 1 \in 0 .. m
    BY <1>1
  <2>2. PICK x \in Nat, y \in Nat, z \in Nat : x = h[i] /\ y = h[i - 1] /\ z = s[i].count
    BY <1>1, <1>2, <2>1, LotFacts
  <2>3. x = y + z
    BY <1>2, <2>2
  <2>4. c[i] = (IF n <= x THEN n ELSE x) /\ c[i - 1] = IF n <= y THEN n ELSE y
    BY <1>3, <2>1, <2>2
  <2>5. k[i] = c[i] - c[i - 1]
    BY DEF Closes
  <2>6. PICK u \in Nat, v \in Nat : u = c[i] /\ v = c[i - 1]
    BY <1>4, <2>1
  <2>7. k[i] = u - v
    BY <2>5, <2>6
  <2>8. /\ u - v \in 0 .. z /\ (x <= n => u - v = z) /\ (n <= y => u - v = 0)
    <3>1. u = (IF n <= x THEN n ELSE x) /\ v = IF n <= y THEN n ELSE y
      BY <2>4, <2>6
    <3>2. CASE n <= y
      BY <2>3, <3>1, <3>2
    <3>3. CASE ~(n <= y) /\ n <= x
      BY <2>3, <3>1, <3>3
    <3>4. CASE ~(n <= y) /\ ~(n <= x)
      BY <2>3, <3>1, <3>4
    <3> QED
      BY <3>2, <3>3, <3>4
  <2> QED
    BY <2>2, <2>5, <2>7, <2>8
<1>7. c[0] = 0 /\ c[m] = n
  BY <1>2, <1>3, <1>4, <1>5
<1> QED
  BY <1>1, <1>2, <1>3, <1>4, <1>6, <1>7 DEF InTurn

\* What is left of a row costs on it what it costs in full, or less by what the sale may
\* still be charged; a split costs a cent more in full than it charges.
LeftOver(l, k, r) ==
  /\ r.count = l.count - k /\ r.price = l.price /\ r.fees \in Nat
  /\ r.fees <= kalshi_fee_cents(r.count, r.price)
  /\ CostOnRow(r) \in Int /\ FullCost(r) \in Int
  /\ (r.count # 0 => r \in Lot)
  /\ CostOnRow(l) - k * l.price - kalshi_fee_cents(k, l.price) <= CostOnRow(r)
  /\ FullCost(r) <= FullCost(l) - k * l.price - kalshi_fee_cents(k, l.price)
                      + (IF k = 0 \/ k = l.count THEN 0 ELSE 1)
  /\ (k = l.count => CostOnRow(r) = 0 /\ FullCost(r) = 0)

\* A fee on a row covers its share of the count closed and, but for a cent, of the rest.
LEMMA RowLeft ==
  ASSUME NEW l \in Lot, l.fees <= kalshi_fee_cents(l.count, l.price), NEW k \in 0 .. l.count,
         NEW r, r = IF k = 0 THEN l
                    ELSE [l EXCEPT !.count = @ - k,
                                   !.fees = Max({0, @ - kalshi_fee_cents(k, l.price)})]
  PROVE  LeftOver(l, k, r)
<1>1. PICK n \in Nat, p \in 1..99, f \in Nat : n = l.count /\ p = l.price /\ f = l.fees /\ n > 0
  BY LotFacts
<1>2. PICK j \in Nat : j = n - k /\ k \in Nat
  BY <1>1
<1>3. PICK a \in Nat, b \in Nat, c \in Nat :
        /\ a = kalshi_fee_cents(n, p) /\ b = kalshi_fee_cents(k, p) /\ c = kalshi_fee_cents(j, p)
  BY <1>2, FeeIsNat
<1>4. a <= b + c /\ b + c <= a + 1
  <2>1. n = k + j
    BY <1>1, <1>2
  <2> QED
    BY <1>2, <1>3, <2>1, FeesAddUp
<1>5. (k = 0 => b = 0) /\ (k = n => c = 0)
  <2>1. k = n => j = 0
    BY <1>2
  <2> QED
    BY <1>3, <2>1, FeeOfNone
<1>6. r.count = j /\ r.price = p /\ r.fees = IF k = 0 THEN f ELSE IF f >= b THEN f - b ELSE 0
  <2>1. l \in [count : Nat \ {0}, price : 1..99, fees : Nat]
    BY DEF Lot
  <2>2. CASE k = 0
    BY <1>1, <1>2, <2>2
  <2>3. CASE k # 0
    <3>1. Max({0, f - b}) = IF f >= b THEN f - b ELSE 0
      <4>1. Max({0, f - b}) = IF 0 >= f - b THEN 0 ELSE f - b
        BY MaxOfTwo
      <4> QED
        BY <4>1
    <3>2. r = [l EXCEPT !.count = @ - k, !.fees = Max({0, @ - kalshi_fee_cents(k, l.price)})]
      BY <2>3
    <3>3. r.count = n - k /\ r.price = p /\ r.fees = Max({0, f - b})
      BY <1>1, <1>3, <2>1, <3>2
    <3> QED
      BY <1>2, <2>3, <3>1, <3>3
  <2> QED
    BY <2>2, <2>3
<1>7. f <= a
  BY <1>1, <1>3
<1>8. r.fees \in Nat /\ r.fees <= c /\ f - b <= r.fees
  BY <1>2, <1>3, <1>4, <1>5, <1>6, <1>7
<1>9. PICK x \in Nat, y \in Nat, z \in Nat : x = n * p /\ y = k * p /\ z = j * p
  BY <1>2
<1>10. x = y + z
  BY <1>2, <1>9
<1>11. CostOnRow(l) = x + f /\ FullCost(l) = x + a
  BY <1>1, <1>3, <1>9 DEF CostOnRow, FullCost
<1>12. CostOnRow(r) = z + r.fees /\ FullCost(r) = z + c
  BY <1>3, <1>6, <1>9 DEF CostOnRow, FullCost
<1>13. k = n => z = 0
  BY <1>2, <1>9
<1>14. k * l.price = y /\ kalshi_fee_cents(k, l.price) = b
  BY <1>1, <1>3, <1>9
<1>15. b + c <= a + (IF k = 0 \/ k = n THEN 0 ELSE 1)
  BY <1>2, <1>3, <1>4, <1>5
<1>16. r.count # 0 => r \in Lot
  <2>1. l \in [count : Nat \ {0}, price : 1..99, fees : Nat]
    BY DEF Lot
  <2>2. r.count \in Nat
    BY <1>6
  <2>3. r = l \/ r = [l EXCEPT !.count = r.count, !.fees = r.fees]
    BY <2>1
  <2> QED
    BY <1>8, <2>1, <2>2, <2>3 DEF Lot
<1>17. CostOnRow(l) - y - b <= CostOnRow(r)
  BY <1>8, <1>10, <1>11, <1>12
<1>18. FullCost(r) <= FullCost(l) - y - b + (IF k = 0 \/ k = n THEN 0 ELSE 1)
  BY <1>10, <1>11, <1>12, <1>15
<1>19. k = n => CostOnRow(r) = 0 /\ FullCost(r) = 0
  BY <1>5, <1>8, <1>12, <1>13
<1>20. r.fees <= kalshi_fee_cents(r.count, r.price)
  BY <1>3, <1>6, <1>8
<1> QED
  BY <1>1, <1>2, <1>6, <1>8, <1>12, <1>14, <1>16, <1>17, <1>18, <1>19, <1>20 DEF LeftOver

\* What the account gets for the first i lots, the exit fee paid.
Proceeds(c, i, bid) == c[i] * bid - kalshi_fee_cents(c[i], bid)

\* Whether the sale ends within the first i lots.
Stopped(n, h, i) == IF n < h[i] THEN 1 ELSE 0

\* A row of the sale, a being its PnL, r what is left of it: its proceeds and the cost it
\* takes from the row, or a cent more where the sale ends.
RowSettled(l, r, a, got, ends) ==
  /\ {a, got, ends, CostOnRow(l), FullCost(l), CostOnRow(r), FullCost(r)} \subseteq Int
  /\ a + CostOnRow(l) <= CostOnRow(r) + got
  /\ FullCost(r) + got <= a + FullCost(l) + ends

\* The same of the i-th row, with the rest there is to say of it.
RowDone(s, n, bid, h, c, i, r) ==
  /\ RowSettled(s[i], r, Tranche(s, n, i, bid), Proceeds(c, i, bid) - Proceeds(c, i - 1, bid),
                Stopped(n, h, i) - Stopped(n, h, i - 1))
  /\ r.fees \in Nat /\ r.fees <= kalshi_fee_cents(r.count, r.price)
  /\ (n < h[i] => r \in Lot)
  /\ (h[i] <= n => CostOnRow(r) = 0 /\ FullCost(r) = 0)

\* The PnL of a row closed, whole or in part, or left alone.
LEMMA RowSettles ==
  ASSUME NEW s \in Seq(Lot), FeesCovered(s), NEW n \in Nat, n <= Held(s), NEW bid \in 1..99,
         NEW h, NEW c, NEW k, Closes(s, n, h, c, k), NEW i \in 1 .. Len(s),
         NEW r, r = Remainder(s, n, i)
  PROVE  RowDone(s, n, bid, h, c, i, r)
<1>1. PICK m \in Nat : m = Len(s) /\ DOMAIN s = 1 .. m /\ i \in 1 .. m /\ s[i] \in Lot
  BY LenProperties, ElementOfSeq
<1>2. PICK l \in Lot : l = s[i]
  BY <1>1
<1>3. l.fees <= kalshi_fee_cents(l.count, l.price)
  BY <1>1, <1>2 DEF FeesCovered
<1>4. /\ \A j \in 0 .. m : h[j] \in Nat /\ c[j] \in Nat
      /\ k[i] = c[i] - c[i - 1] /\ k[i] \in 0 .. l.count
      /\ h[i] = h[i - 1] + l.count
      /\ (h[i] <= n => k[i] = l.count)
      /\ (n <= h[i - 1] => k[i] = 0)
      /\ c[i] = IF n <= h[i] THEN n ELSE h[i]
  <2>1. i \in 0 .. m
    BY <1>1
  <2>2. InTurn(s, m, n, h, c, k)
    BY <1>1, ClosesInTurn
  <2> QED
    BY <1>1, <1>2, <2>1, <2>2 DEF InTurn
<1>5. PICK q \in Nat, p \in 1..99 : q = k[i] /\ p = l.price
  <2>1. l.count \in Nat /\ l.price \in 1..99
    BY LotFacts
  <2>2. k[i] \in 0 .. l.count
    BY <1>4
  <2>3. k[i] \in Nat
    BY <2>1, <2>2
  <2> QED
    BY <2>1, <2>3
<1>6. i \in 0 .. m /\ i - 1 \in 0 .. m
  BY <1>1
<1>7. ClosedBefore(s, n, i) = c[i] /\ ClosedBefore(s, n, i - 1) = c[i - 1]
  BY <1>1, <1>6 DEF Closes
<1>8. r = IF q = 0 THEN l
          ELSE [l EXCEPT !.count = @ - q, !.fees = Max({0, @ - kalshi_fee_cents(q, l.price)})]
  BY <1>2, <1>4, <1>5, <1>7 DEF Remainder
<1>9. /\ r.count = l.count - q /\ r.price = l.price /\ r.fees \in Nat
      /\ r.fees <= kalshi_fee_cents(r.count, r.price)
      /\ CostOnRow(r) \in Int /\ FullCost(r) \in Int
      /\ (r.count # 0 => r \in Lot)
      /\ CostOnRow(l) - q * l.price - kalshi_fee_cents(q, l.price) <= CostOnRow(r)
      /\ FullCost(r) <= FullCost(l) - q * l.price - kalshi_fee_cents(q, l.price)
                          + (IF q = 0 \/ q = l.count THEN 0 ELSE 1)
      /\ (q = l.count => CostOnRow(r) = 0 /\ FullCost(r) = 0)
  <2>1. q \in 0 .. l.count
    BY <1>4, <1>5
  <2>2. LeftOver(l, q, r)
    BY <1>3, <1>8, <2>1, RowLeft
  <2> QED
    BY <2>2 DEF LeftOver
<1>10. PICK x \in Nat, y \in Nat : x = c[i] /\ y = c[i - 1] /\ q = x - y
  BY <1>4, <1>5, <1>6
<1>11. PICK a \in Int, b \in Int, e \in Int :
         /\ a = kalshi_fee_cents(x, bid) /\ b = kalshi_fee_cents(y, bid)
         /\ e = kalshi_fee_cents(q, p)
  <2>1. /\ kalshi_fee_cents(x, bid) \in Nat /\ kalshi_fee_cents(y, bid) \in Nat
        /\ kalshi_fee_cents(q, p) \in Nat
    BY FeeIsNat
  <2> QED
    BY <2>1
<1>12. PICK w \in Int, xb \in Int, yb \in Int : w = q * p /\ xb = x * bid /\ yb = y * bid
  OBVIOUS
<1>13. Tranche(s, n, i, bid) = xb - yb - w - (a - b) - e
  <2>1. Tranche(s, n, i, bid) = q * (bid - p) - (a - b) - e
    BY <1>2, <1>5, <1>7, <1>10, <1>11 DEF Tranche
  <2>2. q * (bid - p) = xb - yb - w
    <3>1. q * (bid - p) = q * bid - q * p
      OBVIOUS
    <3>2. (x - y) * bid = x * bid - y * bid
      OBVIOUS
    <3> QED
      BY <1>10, <1>12, <3>1, <3>2
  <2> QED
    BY <2>1, <2>2
<1>14. Proceeds(c, i, bid) - Proceeds(c, i - 1, bid) = xb - a - (yb - b)
  BY <1>10, <1>11, <1>12 DEF Proceeds
<1>15. PICK t \in Int, got \in Int : /\ t = Tranche(s, n, i, bid)
                                  /\ got = Proceeds(c, i, bid) - Proceeds(c, i - 1, bid)
  BY <1>13, <1>14
<1>16. t = got - w - e
  BY <1>13, <1>14, <1>15
<1>17. PICK ends \in Int : ends = Stopped(n, h, i) - Stopped(n, h, i - 1)
  <2>1. Stopped(n, h, i) \in Int /\ Stopped(n, h, i - 1) \in Int
    BY DEF Stopped
  <2> QED
    BY <2>1
<1>18. (IF q = 0 \/ q = l.count THEN 0 ELSE 1) <= ends
  <2>1. PICK u \in Nat, v \in Nat, z \in Nat : u = h[i] /\ v = h[i - 1] /\ z = l.count
    BY <1>4, <1>6, LotFacts
  <2>2. ends = (IF n < u THEN 1 ELSE 0) - (IF n < v THEN 1 ELSE 0) /\ u = v + z
    BY <1>4, <1>17, <2>1 DEF Stopped
  <2>3. (u <= n => q = z) /\ (n <= v => q = 0)
    BY <1>4, <1>5, <2>1
  <2> QED
    BY <2>1, <2>2, <2>3
<1>19. q * l.price = w /\ kalshi_fee_cents(q, l.price) = e
  BY <1>5, <1>11, <1>12
<1>20. PICK ol \in Int, fl \in Int, or \in Int, fr \in Int :
         /\ ol = CostOnRow(l) /\ fl = FullCost(l) /\ or = CostOnRow(r) /\ fr = FullCost(r)
  <2>1. CostOnRow(l) \in Nat /\ FullCost(l) \in Nat
    BY LotFacts
  <2> QED
    BY <1>9, <2>1
<1>21. PICK part \in Int : part = IF q = 0 \/ q = l.count THEN 0 ELSE 1
  OBVIOUS
<1>22. ol - w - e <= or /\ fr <= fl - w - e + part /\ part <= ends
  BY <1>9, <1>18, <1>19, <1>20, <1>21
<1>23. t + ol <= or + got /\ fr + got <= t + fl + ends
  BY <1>16, <1>22
<1>24. RowSettled(s[i], r, Tranche(s, n, i, bid), Proceeds(c, i, bid) - Proceeds(c, i - 1, bid),
                  Stopped(n, h, i) - Stopped(n, h, i - 1))
  BY <1>2, <1>15, <1>17, <1>20, <1>23 DEF RowSettled
<1>25. n < h[i] => r \in Lot
  <2>1. PICK u \in Nat, v \in Nat, z \in Nat : u = h[i] /\ v = h[i - 1] /\ z = l.count /\ z > 0
    BY <1>4, <1>6, LotFacts
  <2>2. c[i] = (IF n <= u THEN n ELSE u) /\ u = v + z /\ (n <= v => q = 0)
    BY <1>4, <1>5, <2>1
  <2>3. SUFFICES ASSUME n < u PROVE r.count # 0
    BY <1>9, <2>1
  <2>4. x = n
    BY <1>10, <2>2, <2>3
  <2>5. y = IF n <= v THEN n ELSE v
    <3>1. InTurn(s, m, n, h, c, k)
      BY <1>1, ClosesInTurn
    <3>2. c[i - 1] = IF n <= h[i - 1] THEN n ELSE h[i - 1]
      BY <1>6, <3>1 DEF InTurn
    <3> QED
      BY <1>10, <2>1, <3>2
  <2>6. q # z
    BY <1>10, <2>1, <2>2, <2>3, <2>4, <2>5
  <2> QED
    BY <1>9, <2>1, <2>6
<1>26. h[i] <= n => CostOnRow(r) = 0 /\ FullCost(r) = 0
  BY <1>4, <1>5, <1>9
<1> QED
  BY <1>9, <1>24, <1>25, <1>26 DEF RowDone

\* The rows left open are those from the first the sale did not close.
LEMMA FirstOpenIs ==
  ASSUME NEW s \in Seq(Lot), NEW m, m = Len(s), NEW n \in Nat, n <= Held(s),
         NEW h, NEW c, NEW k, Closes(s, n, h, c, k), NEW e, e = FirstOpen(s, n)
  PROVE  /\ e \in 1 .. m + 1
         /\ \A i \in 1 .. e - 1 : h[i] <= n
         /\ \A i \in e .. m : n < h[i]
<1>1. InTurn(s, m, n, h, c, k) /\ m \in Nat /\ DOMAIN s = 1 .. m
  BY ClosesInTurn, LenProperties
<1>2. /\ \A i \in 0 .. m : h[i] \in Nat
      /\ \A i \in 1 .. m : h[i] = h[i - 1] + s[i].count /\ s[i].count \in Nat
  <2>1. \A i \in 1 .. m : s[i] \in Lot
    BY ElementOfSeq
  <2> QED
    BY <1>1, <2>1, LotFacts DEF InTurn
<1>3. PICK O : O = {i \in 1 .. m : n < h[i]}
  OBVIOUS
<1>4. e = Min(O \cup {m + 1})
  <2>1. \A i \in 1 .. m : Held(SubSeq(s, 1, i)) = h[i]
    BY <1>1 DEF Closes
  <2>2. {i \in DOMAIN s : n < Held(SubSeq(s, 1, i))} = O
    BY <1>1, <1>3, <2>1
  <2> QED
    BY <2>2 DEF FirstOpen
<1>5. e \in O \cup {m + 1} /\ \A i \in O \cup {m + 1} : e <= i
  <2>1. O \cup {m + 1} \subseteq 1 .. m + 1 /\ O \cup {m + 1} # {}
    BY <1>1, <1>3
  <2>2. IsFiniteSet(O \cup {m + 1})
    <3>1. IsFiniteSet(1 .. m + 1)
      BY <1>1, FS_Interval
    <3> QED
      BY <2>1, <3>1, FS_Subset
  <2>3. O \cup {m + 1} \subseteq Int
    BY <1>1, <2>1
  <2> QED
    BY <1>4, <2>1, <2>2, <2>3, MinOfSet
<1>6. e \in 1 .. m + 1
  BY <1>1, <1>3, <1>5
<1>7. ASSUME NEW i \in 1 .. e - 1 PROVE h[i] <= n
  <2>1. i \in 1 .. m /\ ~(e <= i) /\ i \in 0 .. m
    BY <1>1, <1>6
  <2>2. i \notin O
    BY <1>5, <2>1
  <2> QED
    BY <1>2, <1>3, <2>1, <2>2
<1>8. ASSUME NEW i \in e .. m PROVE n < h[i]
  <2> DEFINE P == {j \in 0 .. m : e <= j => n < h[j]}
  <2>1. 0 \in P
    BY <1>1, <1>6
  <2>2. ASSUME NEW j \in 1 .. m, j - 1 \in P PROVE j \in P
    <3>1. h[j] = h[j - 1] + s[j].count /\ s[j].count \in Nat /\ h[j - 1] \in Nat /\ j \in 0 .. m
      BY <1>1, <1>2
    <3>2. CASE e = j
      <4>1. e \in O
        BY <1>1, <1>5, <3>2
      <4> QED
        BY <1>3, <3>1, <3>2, <4>1
    <3>3. CASE e < j
      <4>1. n < h[j - 1]
        BY <1>1, <1>6, <2>2, <3>3
      <4>2. n < h[j]
        BY <3>1, <4>1
      <4> QED
        BY <3>1, <4>2
    <3>4. CASE j < e
      BY <1>6, <3>1, <3>4
    <3> QED
      BY <1>6, <3>2, <3>3, <3>4
  <2> HIDE DEF P
  <2>3. i \in Nat /\ i \in 1 .. m
    BY <1>1, <1>6
  <2>4. i \in P
    <3>1. \A j \in 1 .. i : j \in 1 .. m
      BY <1>1, <2>3
    <3>2. \A j \in 1 .. i : j - 1 \in P => j \in P
      BY <2>2, <3>1
    <3> QED
      BY <2>1, <2>3, <3>2, Climb
  <2> QED
    BY <1>6, <2>3, <2>4 DEF P
<1> QED
  BY <1>6, <1>7, <1>8

\* The rows t left by a sale of n contracts at bid, and a, the PnL it books.
Settles(s, n, bid, t, a) ==
  /\ t \in Seq(Lot) /\ FeesCovered(t) /\ a \in Int
  /\ a + OnRows(s) <= OnRows(t) + (n * bid - kalshi_fee_cents(n, bid))
  /\ InFull(t) + (n * bid - kalshi_fee_cents(n, bid)) <= a + InFull(s) + 1

\* A sale books what it brings in less the cost it takes off the rows, or less than that, and
\* whatever its rows it leaves at most a cent to be charged later.
LEMMA SaleSettles ==
  ASSUME NEW s \in Seq(Lot), FeesCovered(s), NEW n \in Nat, n <= Held(s), NEW bid \in 1..99,
         NEW t, t = SubSeq([i \in DOMAIN s |-> Remainder(s, n, i)], FirstOpen(s, n), Len(s)),
         NEW a, a = Total([i \in DOMAIN s |-> Tranche(s, n, i, bid)])
  PROVE  Settles(s, n, bid, t, a)
<1>1. PICK m \in Nat : m = Len(s) /\ DOMAIN s = 1 .. m /\ \A i \in 1 .. m : s[i] \in Lot
  BY LenProperties, ElementOfSeq
<1>0. m \in Nat
  OBVIOUS
<1>2. PICK h, c, k : Closes(s, n, h, c, k)
  <2>1. PICK c : c = [i \in 0 .. Len(s) |-> ClosedBefore(s, n, i)]
    OBVIOUS
  <2> QED
    BY <2>1 DEF Closes
<1>3. InTurn(s, m, n, h, c, k)
  BY <1>1, <1>2, ClosesInTurn
<1>4. PICK rest : rest = [i \in 1 .. m |-> Remainder(s, n, i)]
  OBVIOUS
<1>5. PICK got, stop : /\ got = [i \in 0 .. m |-> Proceeds(c, i, bid)]
                       /\ stop = [i \in 0 .. m |-> Stopped(n, h, i)]
  OBVIOUS
<1>6. ASSUME NEW i \in 1 .. m
      PROVE  /\ RowSettled(s[i], rest[i], Tranche(s, n, i, bid), got[i] - got[i - 1],
                            stop[i] - stop[i - 1])
             /\ rest[i].fees \in Nat /\ rest[i].fees <= kalshi_fee_cents(rest[i].count, rest[i].price)
             /\ (n < h[i] => rest[i] \in Lot)
             /\ (h[i] <= n => CostOnRow(rest[i]) = 0 /\ FullCost(rest[i]) = 0)
  <2>1. i \in 0 .. m /\ i - 1 \in 0 .. m
    BY <1>1
  <2>2. /\ got[i] = Proceeds(c, i, bid) /\ got[i - 1] = Proceeds(c, i - 1, bid)
        /\ stop[i] = Stopped(n, h, i) /\ stop[i - 1] = Stopped(n, h, i - 1)
        /\ rest[i] = Remainder(s, n, i)
    BY <1>4, <1>5, <2>1
  <2>3. RowDone(s, n, bid, h, c, i, rest[i])
    BY <1>1, <1>2, <2>2, RowSettles
  <2> QED
    BY <2>2, <2>3 DEF RowDone
\* The terms of the sums.
<1>7. PICK pnl, on, full, on2, full2 :
        /\ pnl = [i \in 1 .. m |-> Tranche(s, n, i, bid)]
        /\ on = [i \in 1 .. m |-> CostOnRow(s[i])] /\ full = [i \in 1 .. m |-> FullCost(s[i])]
        /\ on2 = [i \in 1 .. m |-> CostOnRow(rest[i])] /\ full2 = [i \in 1 .. m |-> FullCost(rest[i])]
  OBVIOUS
<1>8. PICK dgot, dstop : /\ dgot = [i \in 1 .. m |-> got[i] - got[i - 1]]
                         /\ dstop = [i \in 1 .. m |-> stop[i] - stop[i - 1]]
  OBVIOUS
<1>9. ASSUME NEW i \in 1 .. m
      PROVE  /\ pnl[i] \in Int /\ on[i] \in Int /\ full[i] \in Int /\ on2[i] \in Int /\ full2[i] \in Int
             /\ dgot[i] \in Int /\ dstop[i] \in Int
             /\ pnl[i] + on[i] <= on2[i] + dgot[i]
             /\ full2[i] + dgot[i] <= pnl[i] + full[i] + dstop[i]
  BY <1>6, <1>7, <1>8 DEF RowSettled
<1>10. IsFiniteSet(1 .. m)
  BY <1>1, FS_Interval
<1>11. PICK A, O, F, O2, F2, G, Z :
         /\ A = SumFunctionOnSet(pnl, 1 .. m) /\ O = SumFunctionOnSet(on, 1 .. m)
         /\ F = SumFunctionOnSet(full, 1 .. m) /\ O2 = SumFunctionOnSet(on2, 1 .. m)
         /\ F2 = SumFunctionOnSet(full2, 1 .. m) /\ G = SumFunctionOnSet(dgot, 1 .. m)
         /\ Z = SumFunctionOnSet(dstop, 1 .. m)
  OBVIOUS
<1>12. A \in Int /\ O \in Int /\ F \in Int /\ O2 \in Int /\ F2 \in Int /\ G \in Int /\ Z \in Int
  BY <1>9, <1>10, <1>11, SumType
<1>13. A + O <= O2 + G
  <2>1. PICK x, y : /\ x = [i \in 1 .. m |-> pnl[i] + on[i]] /\ y = [i \in 1 .. m |-> on2[i] + dgot[i]]
    OBVIOUS
  <2>2. SumFunctionOnSet(x, 1 .. m) = A + O /\ SumFunctionOnSet(y, 1 .. m) = O2 + G
    <3>1. \A i \in 1 .. m : pnl[i] \in Int /\ on[i] \in Int /\ x[i] = pnl[i] + on[i]
      BY <1>9, <2>1
    <3>2. \A i \in 1 .. m : on2[i] \in Int /\ dgot[i] \in Int /\ y[i] = on2[i] + dgot[i]
      BY <1>9, <2>1
    <3>3. SumFunctionOnSet(x, 1 .. m) = SumFunctionOnSet(pnl, 1 .. m) + SumFunctionOnSet(on, 1 .. m)
      BY <1>10, <3>1, SumPlus
    <3>4. SumFunctionOnSet(y, 1 .. m) = SumFunctionOnSet(on2, 1 .. m) + SumFunctionOnSet(dgot, 1 .. m)
      BY <1>10, <3>2, SumPlus
    <3> QED
      BY <1>11, <3>3, <3>4
  <2>3. \A i \in 1 .. m : x[i] \in Int /\ y[i] \in Int /\ x[i] <= y[i]
    BY <1>9, <2>1
  <2>4. SumFunctionOnSet(x, 1 .. m) <= SumFunctionOnSet(y, 1 .. m)
    BY <1>10, <2>3, SumLeq
  <2> QED
    BY <2>2, <2>4
<1>14. F2 + G <= A + F + Z
  <2>1. PICK x, y, z : /\ x = [i \in 1 .. m |-> full2[i] + dgot[i]]
                       /\ y = [i \in 1 .. m |-> pnl[i] + full[i]]
                       /\ z = [i \in 1 .. m |-> y[i] + dstop[i]]
    <3>1. PICK y : y = [i \in 1 .. m |-> pnl[i] + full[i]]
      OBVIOUS
    <3> QED
      BY <3>1
  <2>2. SumFunctionOnSet(x, 1 .. m) = F2 + G /\ SumFunctionOnSet(y, 1 .. m) = A + F
    <3>1. \A i \in 1 .. m : full2[i] \in Int /\ dgot[i] \in Int /\ x[i] = full2[i] + dgot[i]
      BY <1>9, <2>1
    <3>2. \A i \in 1 .. m : pnl[i] \in Int /\ full[i] \in Int /\ y[i] = pnl[i] + full[i]
      BY <1>9, <2>1
    <3>3. SumFunctionOnSet(x, 1 .. m) = SumFunctionOnSet(full2, 1 .. m) + SumFunctionOnSet(dgot, 1 .. m)
      BY <1>10, <3>1, SumPlus
    <3>4. SumFunctionOnSet(y, 1 .. m) = SumFunctionOnSet(pnl, 1 .. m) + SumFunctionOnSet(full, 1 .. m)
      BY <1>10, <3>2, SumPlus
    <3> QED
      BY <1>11, <3>3, <3>4
  <2>3. \A i \in 1 .. m : y[i] \in Int /\ dstop[i] \in Int /\ z[i] = y[i] + dstop[i]
    BY <1>9, <2>1
  <2>4. SumFunctionOnSet(z, 1 .. m) = SumFunctionOnSet(y, 1 .. m) + Z
    <3>1. SumFunctionOnSet(z, 1 .. m) = SumFunctionOnSet(y, 1 .. m) + SumFunctionOnSet(dstop, 1 .. m)
      BY <1>10, <2>3, SumPlus
    <3> QED
      BY <1>11, <3>1
  <2>5. \A i \in 1 .. m : x[i] \in Int /\ z[i] \in Int /\ x[i] <= z[i]
    <3> SUFFICES ASSUME NEW i \in 1 .. m PROVE x[i] \in Int /\ z[i] \in Int /\ x[i] <= z[i]
      OBVIOUS
    <3>1. x[i] = full2[i] + dgot[i] /\ y[i] = pnl[i] + full[i] /\ z[i] = y[i] + dstop[i]
      BY <2>1
    <3>2. /\ pnl[i] \in Int /\ full[i] \in Int /\ full2[i] \in Int /\ dgot[i] \in Int
          /\ dstop[i] \in Int /\ full2[i] + dgot[i] <= pnl[i] + full[i] + dstop[i]
      BY <1>9
    <3> QED
      BY <3>1, <3>2
  <2>6. SumFunctionOnSet(x, 1 .. m) <= SumFunctionOnSet(z, 1 .. m)
    BY <1>10, <2>5, SumLeq
  <2> QED
    BY <2>2, <2>4, <2>6
\* The proceeds and the split telescope.
<1>15. G = n * bid - kalshi_fee_cents(n, bid)
  <2>1. \A i \in 0 .. m : got[i] \in Int
    <3> SUFFICES ASSUME NEW i \in 0 .. m PROVE got[i] \in Int
      OBVIOUS
    <3>1. PICK x \in Nat : x = c[i]
      BY <1>3 DEF InTurn
    <3>2. kalshi_fee_cents(x, bid) \in Nat /\ x * bid \in Int
      <4>1. x * bid \in Int
        OBVIOUS
      <4> QED
        BY <4>1, FeeIsNat
    <3> QED
      BY <1>5, <3>1, <3>2 DEF Proceeds
  <2>2. G = got[m] - got[0]
    <3>1. \A i \in 1 .. m : dgot[i] = got[i] - got[i - 1]
      BY <1>8
    <3>2. Telescopes(dgot, got, m)
      BY <1>0, <2>1, <3>1, Telescope
    <3> QED
      BY <1>11, <3>2 DEF Telescopes
  <2>3. c[0] = 0 /\ c[m] = n
    BY <1>3 DEF InTurn
  <2>4. got[0] = 0 * bid - kalshi_fee_cents(0, bid) /\ got[m] = n * bid - kalshi_fee_cents(n, bid)
    BY <1>1, <1>5, <2>3 DEF Proceeds
  <2>5. got[0] = 0 /\ got[m] \in Int
    <3>1. 0 * bid = 0 /\ kalshi_fee_cents(0, bid) = 0
      <4>1. 0 * bid = 0
        OBVIOUS
      <4> QED
        BY <4>1, FeeOfNone
    <3>2. m \in 0 .. m
      BY <1>1
    <3> QED
      BY <2>1, <2>4, <3>1, <3>2
  <2> QED
    BY <2>2, <2>4, <2>5
<1>16. Z <= 1
  <2>1. \A i \in 0 .. m : stop[i] \in 0 .. 1
    BY <1>5 DEF Stopped
  <2>2. Z = stop[m] - stop[0]
    <3>1. \A i \in 0 .. m : stop[i] \in Int
      BY <2>1
    <3>2. \A i \in 1 .. m : dstop[i] = stop[i] - stop[i - 1]
      BY <1>8
    <3>3. Telescopes(dstop, stop, m)
      BY <1>0, <3>1, <3>2, Telescope
    <3> QED
      BY <1>11, <3>3 DEF Telescopes
  <2>3. 0 \in 0 .. m /\ m \in 0 .. m
    BY <1>1
  <2> QED
    BY <2>1, <2>2, <2>3
\* What is left open.
<1>17. PICK e : e = FirstOpen(s, n)
  OBVIOUS
<1>18. /\ e \in 1 .. m + 1
       /\ \A i \in 1 .. e - 1 : h[i] <= n
       /\ \A i \in e .. m : n < h[i]
  BY <1>1, <1>2, <1>17, FirstOpenIs
<1>19. PICK d \in 0 .. m : d = e - 1
  BY <1>1, <1>18
<1>20. /\ t \in Seq(Lot) /\ Len(t) = m - d /\ DOMAIN t = 1 .. m - d
       /\ \A i \in 1 .. m - d : t[i] = rest[d + i]
  <2>1. t = SubSeq(rest, e, m)
    BY <1>1, <1>4, <1>17
  <2>2. e \in Int /\ m \in Int /\ \A i \in e .. m : rest[i] \in Lot
    <3>1. e \in Int /\ m \in Int /\ \A i \in e .. m : i \in 1 .. m
      BY <1>1, <1>18
    <3> QED
      BY <1>6, <1>18, <3>1
  <2>3. /\ SubSeq(rest, e, m) \in Seq(Lot)
        /\ Len(SubSeq(rest, e, m)) = IF e <= m THEN m - e + 1 ELSE 0
        /\ \A i \in 1 .. m - e + 1 : SubSeq(rest, e, m)[i] = rest[e + i - 1]
    <3>1. e \in Int
      BY <2>2
    <3>2. m \in Int
      BY <2>2
    <3>3. \A i \in e .. m : rest[i] \in Lot
      BY <2>2
    <3>4. SubSeq(rest, e, m) \in Seq(Lot)
      BY <3>1, <3>2, <3>3, SubSeqProperties
    <3>5. Len(SubSeq(rest, e, m)) = IF e <= m THEN m - e + 1 ELSE 0
      BY <3>1, <3>2, <3>3, SubSeqProperties
    <3>6. \A i \in 1 .. m - e + 1 : SubSeq(rest, e, m)[i] = rest[e + i - 1]
      BY <3>1, <3>2, <3>3, SubSeqProperties
    <3> QED
      BY <3>4, <3>5, <3>6
  <2>4. /\ (IF e <= m THEN m - e + 1 ELSE 0) = m - d /\ m - e + 1 = m - d
        /\ \A i \in 1 .. m - d : e + i - 1 = d + i
    BY <1>1, <1>18, <1>19
  <2>5. Len(t) = m - d /\ t \in Seq(Lot)
    BY <2>1, <2>3, <2>4
  <2>6. DOMAIN t = 1 .. m - d
    BY <2>5, LenProperties
  <2> QED
    BY <2>1, <2>3, <2>4, <2>5, <2>6
<1>21. \A i \in 1 .. m - d : d + i \in 1 .. m
  BY <1>1, <1>19
<1>22. FeesCovered(t)
  <2> SUFFICES ASSUME NEW i \in 1 .. m - d
               PROVE  t[i].fees <= kalshi_fee_cents(t[i].count, t[i].price)
    BY <1>20 DEF FeesCovered
  <2>1. t[i] = rest[d + i] /\ d + i \in 1 .. m
    BY <1>20, <1>21
  <2> QED
    BY <1>6, <2>1
<1>23. \A i \in 1 .. d : i \in 1 .. m /\ on2[i] = 0 /\ full2[i] = 0
  <2> SUFFICES ASSUME NEW i \in 1 .. d PROVE i \in 1 .. m /\ on2[i] = 0 /\ full2[i] = 0
    OBVIOUS
  <2>1. i \in 1 .. m /\ i \in 1 .. e - 1
    BY <1>1, <1>18, <1>19
  <2>2. h[i] <= n
    BY <1>18, <2>1
  <2> QED
    BY <1>6, <1>7, <2>1, <2>2
<1>24. OnRows(t) = O2 /\ InFull(t) = F2
  <2>1. m - d \in Nat
    BY <1>1, <1>19
  <2>2. PICK x, y : /\ x = [i \in 1 .. m - d |-> CostOnRow(t[i])]
                    /\ y = [i \in 1 .. m - d |-> FullCost(t[i])]
    OBVIOUS
  <2>3. OnRows(t) = SumFunctionOnSet(x, 1 .. m - d) /\ InFull(t) = SumFunctionOnSet(y, 1 .. m - d)
    BY <1>20, <2>1, <2>2, TotalIsSum DEF OnRows, InFull
  <2>4. \A i \in 1 .. m - d : x[i] = on2[d + i] /\ y[i] = full2[d + i]
    BY <1>7, <1>20, <1>21, <2>2
  <2>5. SumFunctionOnSet(x, 1 .. m - d) = SumFunctionOnSet(on2, 1 .. m)
    <3>1. \A i \in 1 .. m : on2[i] \in Int
      BY <1>9
    <3>2. \A i \in 1 .. d : on2[i] = 0
      BY <1>23
    <3>3. \A i \in 1 .. m - d : x[i] = on2[d + i]
      BY <2>4
    <3> QED
      BY <1>0, <3>1, <3>2, <3>3, SumOfTail
  <2>6. SumFunctionOnSet(y, 1 .. m - d) = SumFunctionOnSet(full2, 1 .. m)
    <3>1. \A i \in 1 .. m : full2[i] \in Int
      BY <1>9
    <3>2. \A i \in 1 .. d : full2[i] = 0
      BY <1>23
    <3>3. \A i \in 1 .. m - d : y[i] = full2[d + i]
      BY <2>4
    <3> QED
      BY <1>0, <3>1, <3>2, <3>3, SumOfTail
  <2> QED
    BY <1>11, <2>3, <2>5, <2>6
<1>25. OnRows(s) = O /\ InFull(s) = F /\ a = A
  BY <1>1, <1>7, <1>11, TotalIsSum DEF OnRows, InFull
<1>26. PICK g \in Int : g = n * bid - kalshi_fee_cents(n, bid) /\ g = G
  BY <1>12, <1>15
<1>27. A + O <= O2 + g /\ F2 + g <= A + F + 1
  BY <1>12, <1>13, <1>14, <1>16, <1>26
<1> QED
  BY <1>12, <1>20, <1>22, <1>24, <1>25, <1>26, <1>27 DEF Settles

-----------------------------------------------------------------------------
(* The ledger and the account (ExitRules) *)

\* A position holds a number of contracts.
LEMMA HeldIsNat ==
  ASSUME NEW s \in Seq(Lot)
  PROVE  Held(s) \in Nat
<1>1. PICK n, h : n = Len(s) /\ h = [i \in 0 .. n |-> Held(SubSeq(s, 1, i))]
  OBVIOUS
<1>2. Counts(s, n, h)
  BY <1>1, HeldBefore
<1>3. n \in 0 .. n
  BY <1>1, LenProperties
<1> QED
  BY <1>2, <1>3 DEF Counts

\* A bought row is charged to the account and stands on the rows with the same cost.
RowAdded(s, l) ==
  /\ Append(s, l) \in Seq(Lot)
  /\ FeesCovered(Append(s, l))
  /\ OnRows(Append(s, l)) = OnRows(s) + CostOnRow(l)
  /\ InFull(Append(s, l)) = InFull(s) + FullCost(l)

\* The sums over the rows with one row more.
LEMMA BuyAdds ==
  ASSUME NEW s \in Seq(Lot), FeesCovered(s), NEW l \in Lot,
         l.fees <= kalshi_fee_cents(l.count, l.price)
  PROVE  RowAdded(s, l)
<1>1. PICK n \in Nat : n = Len(s) /\ DOMAIN s = 1 .. n /\ \A i \in 1 .. n : s[i] \in Lot
  BY LenProperties, ElementOfSeq
<1>2. PICK t : t = Append(s, l)
  OBVIOUS
<1>3. t \in Seq(Lot) /\ Len(t) = n + 1 /\ t[n + 1] = l /\ \A i \in 1 .. n : t[i] = s[i]
  <2>1. /\ Append(s, l) \in Seq(Lot) /\ Len(Append(s, l)) = Len(s) + 1
        /\ \A i \in 1 .. Len(s) : Append(s, l)[i] = s[i]
        /\ Append(s, l)[Len(s) + 1] = l
    BY AppendProperties
  <2> QED
    BY <1>1, <1>2, <2>1
<1>4. DOMAIN t = 1 .. n + 1
  BY <1>3, LenProperties
<1>5. FeesCovered(t)
  <2> SUFFICES ASSUME NEW i \in 1 .. n + 1 PROVE t[i].fees <= kalshi_fee_cents(t[i].count, t[i].price)
    BY <1>4 DEF FeesCovered
  <2>1. i = n + 1 \/ i \in 1 .. n
    OBVIOUS
  <2>2. CASE i = n + 1
    BY <1>3, <2>2
  <2>3. CASE i \in 1 .. n
    BY <1>1, <1>3, <2>3 DEF FeesCovered
  <2> QED
    BY <2>1, <2>2, <2>3
<1>6. ASSUME NEW f, NEW g, f = [i \in DOMAIN s |-> g[i]], DOMAIN g = 1 .. n + 1,
             \A i \in 1 .. n + 1 : g[i] \in Int
      PROVE  Total(g) = Total(f) + g[n + 1]
  <2>0. n + 1 \in Nat
    OBVIOUS
  <2>1. Total(f) = SumFunctionOnSet(f, 1 .. n) /\ Total(g) = SumFunctionOnSet(g, 1 .. n + 1)
    <3>1. DOMAIN f = 1 .. n
      BY <1>1, <1>6
    <3>2. Total(f) = SumFunctionOnSet(f, 1 .. n)
      BY <3>1, TotalIsSum
    <3>3. Total(g) = SumFunctionOnSet(g, 1 .. n + 1)
      BY <1>6, <2>0, TotalIsSum
    <3> QED
      BY <3>2, <3>3
  <2>2. \A i \in 1 .. n + 1 : SumFunctionOnSet(g, 1 .. i) = SumFunctionOnSet(g, 1 .. i - 1) + g[i]
    BY <1>6, <2>0, PrefixSums
  <2>3. SumFunctionOnSet(g, 1 .. n + 1) = SumFunctionOnSet(g, 1 .. n) + g[n + 1]
    <3>1. n + 1 \in 1 .. n + 1 /\ n + 1 - 1 = n
      OBVIOUS
    <3> QED
      BY <2>2, <3>1
  <2>4. SumFunctionOnSet(f, 1 .. n) = SumFunctionOnSet(g, 1 .. n)
    <3>1. IsFiniteSet(1 .. n)
      BY FS_Interval
    <3>2. \A i \in 1 .. n : g[i] \in Int /\ f[i] = g[i]
      BY <1>1, <1>6
    <3> QED
      BY <3>1, <3>2, SumEqual
  <2> QED
    BY <2>1, <2>3, <2>4
<1>7. \A i \in 1 .. n + 1 : t[i] \in Lot
  BY <1>3, ElementOfSeq
<1>8. OnRows(t) = OnRows(s) + CostOnRow(l)
  <2>1. PICK f, g : /\ f = [i \in DOMAIN s |-> CostOnRow(s[i])]
                    /\ g = [i \in DOMAIN t |-> CostOnRow(t[i])]
    OBVIOUS
  <2>2. DOMAIN g = 1 .. n + 1 /\ \A i \in 1 .. n + 1 : g[i] \in Int
    <3>1. DOMAIN g = 1 .. n + 1 /\ \A i \in 1 .. n + 1 : g[i] = CostOnRow(t[i])
      BY <1>4, <2>1
    <3>2. \A x \in Lot : CostOnRow(x) \in Int
      <4> SUFFICES ASSUME NEW x \in Lot PROVE CostOnRow(x) \in Int
        OBVIOUS
      <4>1. CostOnRow(x) \in Nat
        BY LotFacts
      <4> QED
        BY <4>1
    <3> QED
      BY <1>7, <3>1, <3>2
  <2>3. f = [i \in DOMAIN s |-> g[i]]
    BY <1>1, <1>3, <1>4, <2>1
  <2>4. Total(g) = Total(f) + g[n + 1]
    BY <1>6, <2>2, <2>3
  <2>5. g[n + 1] = CostOnRow(l)
    BY <1>3, <1>4, <2>1
  <2> QED
    BY <2>1, <2>4, <2>5 DEF OnRows
<1>9. InFull(t) = InFull(s) + FullCost(l)
  <2>1. PICK f, g : /\ f = [i \in DOMAIN s |-> FullCost(s[i])]
                    /\ g = [i \in DOMAIN t |-> FullCost(t[i])]
    OBVIOUS
  <2>2. DOMAIN g = 1 .. n + 1 /\ \A i \in 1 .. n + 1 : g[i] \in Int
    <3>1. DOMAIN g = 1 .. n + 1 /\ \A i \in 1 .. n + 1 : g[i] = FullCost(t[i])
      BY <1>4, <2>1
    <3>2. \A x \in Lot : FullCost(x) \in Int
      <4> SUFFICES ASSUME NEW x \in Lot PROVE FullCost(x) \in Int
        OBVIOUS
      <4>1. FullCost(x) \in Nat
        BY LotFacts
      <4> QED
        BY <4>1
    <3> QED
      BY <1>7, <3>1, <3>2
  <2>3. f = [i \in DOMAIN s |-> g[i]]
    BY <1>1, <1>3, <1>4, <2>1
  <2>4. Total(g) = Total(f) + g[n + 1]
    BY <1>6, <2>2, <2>3
  <2>5. g[n + 1] = FullCost(l)
    BY <1>3, <1>4, <2>1
  <2> QED
    BY <2>1, <2>4, <2>5 DEF InFull
<1> QED
  BY <1>2, <1>3, <1>5, <1>8, <1>9 DEF RowAdded

\* No rows cost nothing.
LEMMA NoRows ==
  <<>> \in Seq(Lot) /\ FeesCovered(<<>>) /\ OnRows(<<>>) = 0 /\ InFull(<<>>) = 0
<1>1. <<>> \in Seq(Lot) /\ DOMAIN <<>> = {} /\ 1 .. 0 = {}
  BY EmptySeq
<1>2. FeesCovered(<<>>)
  BY <1>1 DEF FeesCovered
<1>3. ASSUME NEW f, DOMAIN f = {} PROVE Total(f) = 0
  <2>1. Total(f) = SumFunctionOnSet(f, {})
    BY <1>3 DEF Total, SumFunction
  <2> QED
    BY <2>1, FS_EmptySet, SumZero
<1>4. OnRows(<<>>) = 0
  <2>1. PICK f : f = [i \in DOMAIN <<>> |-> CostOnRow(<<>>[i])]
    OBVIOUS
  <2>2. Total(f) = 0
    BY <1>1, <1>3, <2>1
  <2> QED
    BY <2>1, <2>2 DEF OnRows
<1>5. InFull(<<>>) = 0
  <2>1. PICK f : f = [i \in DOMAIN <<>> |-> FullCost(<<>>[i])]
    OBVIOUS
  <2>2. Total(f) = 0
    BY <1>1, <1>3, <2>1
  <2> QED
    BY <2>1, <2>2 DEF InFull
<1> QED
  BY <1>1, <1>2, <1>4, <1>5

\* What the market pays for the rows, and what their PnL books of it.
Paid(s, result) == IF result = "yes" THEN 100 * Held(s) ELSE 0
Booked(s, result) ==
  Total([i \in DOMAIN s |-> _leg_pnl_cents("buy", "yes", s[i].price, s[i].count, s[i].fees, result)])

\* The settlement books what the market pays less the cost still on the rows.
LEMMA PayoutBooks ==
  ASSUME NEW s \in Seq(Lot), NEW result \in {"yes", "no"}
  PROVE  /\ Booked(s, result) \in Int /\ Paid(s, result) \in Int
         /\ Booked(s, result) + OnRows(s) = Paid(s, result)
<1>1. PICK n \in Nat : n = Len(s) /\ DOMAIN s = 1 .. n /\ \A i \in 1 .. n : s[i] \in Lot
  BY LenProperties, ElementOfSeq
<1>0. n \in Nat
  OBVIOUS
<1>2. PICK h : h = [i \in 0 .. n |-> Held(SubSeq(s, 1, i))]
  OBVIOUS
<1>3. /\ h[0] = 0 /\ h[n] = Held(s)
      /\ \A i \in 0 .. n : h[i] \in Nat
      /\ \A i \in 1 .. n : h[i] = h[i - 1] + s[i].count
  <2>1. Counts(s, n, h)
    BY <1>1, <1>2, HeldBefore
  <2> QED
    BY <2>1 DEF Counts
<1>4. PICK face \in Nat : face = IF result = "yes" THEN 100 ELSE 0
  OBVIOUS
<1>5. PICK a, b, p, g :
        /\ a = [i \in 1 .. n |-> _leg_pnl_cents("buy", "yes", s[i].price, s[i].count, s[i].fees, result)]
        /\ b = [i \in 1 .. n |-> CostOnRow(s[i])]
        /\ p = [i \in 1 .. n |-> face * s[i].count]
        /\ g = [i \in 0 .. n |-> face * h[i]]
  OBVIOUS
<1>6. ASSUME NEW i \in 1 .. n
      PROVE  a[i] \in Int /\ b[i] \in Int /\ p[i] = a[i] + b[i] /\ p[i] = g[i] - g[i - 1]
  <2>1. PICK c \in Nat, u \in Nat, f \in Nat : c = s[i].count /\ u = s[i].price /\ f = s[i].fees
    <3>1. s[i] \in Lot
      BY <1>1
    <3>2. s[i].count \in Nat /\ s[i].price \in 1..99 /\ s[i].fees \in Nat
      BY <3>1, LotFacts
    <3>3. \A u \in 1..99 : u \in Nat
      OBVIOUS
    <3>4. s[i].price \in Nat
      BY <3>2, <3>3
    <3> QED
      BY <3>2, <3>4
  <2>2. a[i] = (IF result = "yes" THEN (100 - u) * c ELSE -u * c) - f
    BY <1>5, <2>1 DEF _leg_pnl_cents
  <2>3. PICK x \in Nat, y \in Nat : x = c * u /\ y = 100 * c
    OBVIOUS
  <2>4. (100 - u) * c = y - x /\ -u * c = -x
    BY <2>3
  <2>5. b[i] = x + f
    BY <1>5, <2>1, <2>3 DEF CostOnRow
  <2>6. p[i] = face * c
    BY <1>5, <2>1
  <2>7. p[i] = a[i] + b[i] /\ a[i] \in Int /\ b[i] \in Int
    BY <1>4, <2>2, <2>3, <2>4, <2>5, <2>6
  <2>8. i \in 0 .. n /\ i - 1 \in 0 .. n
    BY <1>0
  <2>9. PICK v \in Nat, w \in Nat : v = h[i] /\ w = h[i - 1]
    BY <1>3, <2>8
  <2>10. v = w + c
    BY <1>3, <2>1, <2>9
  <2>11. g[i] = face * v /\ g[i - 1] = face * w
    BY <1>5, <2>8, <2>9
  <2>12. face * (w + c) = face * w + face * c
    OBVIOUS
  <2>13. PICK k \in Nat, j \in Nat : k = face * w /\ j = face * c
    OBVIOUS
  <2>14. g[i] - g[i - 1] = j
    BY <2>10, <2>11, <2>12, <2>13
  <2> QED
    BY <2>6, <2>7, <2>13, <2>14
<1>7. IsFiniteSet(1 .. n)
  BY <1>0, FS_Interval
<1>8. SumFunctionOnSet(p, 1 .. n) = SumFunctionOnSet(a, 1 .. n) + SumFunctionOnSet(b, 1 .. n)
  <2>1. \A i \in 1 .. n : a[i] \in Int /\ b[i] \in Int /\ p[i] = a[i] + b[i]
    BY <1>6
  <2> QED
    BY <1>7, <2>1, SumPlus
<1>9. SumFunctionOnSet(p, 1 .. n) = g[n] - g[0]
  <2>1. \A i \in 0 .. n : g[i] \in Int
    BY <1>3, <1>5
  <2>2. \A i \in 1 .. n : p[i] = g[i] - g[i - 1]
    BY <1>6
  <2>3. Telescopes(p, g, n)
    BY <1>0, <2>1, <2>2, Telescope
  <2> QED
    BY <2>3 DEF Telescopes
<1>10. g[n] - g[0] = Paid(s, result) /\ Paid(s, result) \in Int
  <2>1. PICK x \in Nat : x = Held(s)
    BY HeldIsNat
  <2>2. g[n] = face * x /\ g[0] = face * 0
    BY <1>0, <1>3, <1>5, <2>1
  <2>3. face * x = (IF result = "yes" THEN 100 * x ELSE 0) /\ face * 0 = 0
    BY <1>4
  <2> QED
    BY <2>1, <2>2, <2>3 DEF Paid
<1>11. Booked(s, result) = SumFunctionOnSet(a, 1 .. n)
  <2>1. Booked(s, result) = Total(a) /\ DOMAIN a = 1 .. n
    BY <1>1, <1>5 DEF Booked
  <2> QED
    BY <1>0, <2>1, TotalIsSum
<1>12. OnRows(s) = SumFunctionOnSet(b, 1 .. n)
  <2>1. OnRows(s) = Total(b) /\ DOMAIN b = 1 .. n
    BY <1>1, <1>5 DEF OnRows
  <2> QED
    BY <1>0, <2>1, TotalIsSum
<1>13. SumFunctionOnSet(a, 1 .. n) \in Int
  BY <1>6, <1>7, SumType
<1> QED
  BY <1>8, <1>9, <1>10, <1>11, <1>12, <1>13

\* A purchase, a sale and the payout keep the books honest.
LEMMA BuyIsHonest ==
  ASSUME NEW s, NEW money \in Int, NEW sales \in Nat, NEW pnl \in Int,
         Honest(s, money, sales, pnl),
         NEW count \in Nat \ {0}, NEW price \in 1..99, NEW charge, charge = kalshi_fee_cents(count, price)
  PROVE  Honest(Append(s, [count |-> count, price |-> price, fees |-> charge]),
                money - count * price - charge, sales, pnl)
<1>0. /\ money \in Int /\ sales \in Nat /\ pnl \in Int
      /\ pnl - OnRows(s) <= money /\ money - sales <= pnl - InFull(s)
  BY DEF Honest
<1>1. PICK l : l = [count |-> count, price |-> price, fees |-> charge]
  OBVIOUS
<1>2. charge \in Nat
  BY FeeIsNat
<1>3. l \in Lot /\ l.count = count /\ l.price = price /\ l.fees = charge
  BY <1>1, <1>2 DEF Lot
<1>4. s \in Seq(Lot) /\ FeesCovered(s) /\ l.fees <= kalshi_fee_cents(l.count, l.price)
  BY <1>2, <1>3 DEF Honest
<1>5. RowAdded(s, l)
  BY <1>3, <1>4, BuyAdds
<1>6. PICK x \in Int : x = count * price
  OBVIOUS
<1>7. CostOnRow(l) = x + charge /\ FullCost(l) = x + charge
  BY <1>3, <1>6 DEF CostOnRow, FullCost
<1>8. PICK o \in Int, f \in Int : o = OnRows(s) /\ f = InFull(s)
  BY <1>4, CostsAreInts
<1>9. PICK t : t = Append(s, l)
  OBVIOUS
<1>10. t \in Seq(Lot) /\ FeesCovered(t) /\ OnRows(t) = o + (x + charge) /\ InFull(t) = f + (x + charge)
  BY <1>5, <1>7, <1>8, <1>9 DEF RowAdded
<1>11. /\ pnl - (o + (x + charge)) <= money - x - charge
       /\ money - x - charge - sales <= pnl - (f + (x + charge))
  BY <1>0, <1>2, <1>6, <1>8
<1>12. Honest(t, money - x - charge, sales, pnl)
  BY <1>0, <1>2, <1>6, <1>10, <1>11 DEF Honest
<1> QED
  BY <1>1, <1>6, <1>9, <1>12

\* A sale, from what it does to the rows.
LEMMA SaleIsHonest ==
  ASSUME NEW s, NEW money \in Int, NEW sales \in Nat, NEW pnl \in Int,
         Honest(s, money, sales, pnl),
         NEW n \in Nat, NEW bid \in 1..99, NEW t, NEW a, Settles(s, n, bid, t, a)
  PROVE  Honest(t, money + n * bid - kalshi_fee_cents(n, bid), sales + 1, pnl + a)
<1>0. /\ money \in Int /\ sales \in Nat /\ pnl \in Int
      /\ pnl - OnRows(s) <= money /\ money - sales <= pnl - InFull(s)
  BY DEF Honest
<1>1. s \in Seq(Lot) /\ FeesCovered(s)
  BY DEF Honest
<1>3. PICK o \in Int, f \in Int : o = OnRows(s) /\ f = InFull(s)
  BY <1>1, CostsAreInts
<1>4. PICK o2 \in Int, f2 \in Int : o2 = OnRows(t) /\ f2 = InFull(t)
  BY CostsAreInts DEF Settles
<1>5. PICK x \in Int, charge \in Int : x = n * bid /\ charge = kalshi_fee_cents(n, bid)
  <2>1. n * bid \in Int
    OBVIOUS
  <2>2. kalshi_fee_cents(n, bid) \in Nat
    BY FeeIsNat
  <2> QED
    BY <2>1, <2>2
<1>6. /\ t \in Seq(Lot) /\ FeesCovered(t) /\ a \in Int
      /\ a + o <= o2 + (x - charge)
      /\ f2 + (x - charge) <= a + f + 1
  BY <1>3, <1>4, <1>5 DEF Settles
<1>7. PICK got \in Int : got = x - charge
  BY <1>5
<1>8. PICK b \in Int : b = a /\ b + o <= o2 + got /\ f2 + got <= b + f + 1
  BY <1>6, <1>7
<1>9. pnl - o <= money /\ money - sales <= pnl - f
  BY <1>0, <1>3
<1>10. pnl + b - o2 <= money + got /\ money + got - (sales + 1) <= pnl + b - f2
  BY <1>8, <1>9
<1>11. PICK pnl2 \in Int, money2 \in Int, sales2 \in Nat :
         pnl2 = pnl + b /\ money2 = money + got /\ sales2 = sales + 1
  BY <1>0, <1>7, <1>8
<1>12. Honest(t, money2, sales2, pnl2)
  <2>1. t \in Seq(Lot) /\ FeesCovered(t)
    BY <1>6
  <2>2. pnl2 - OnRows(t) <= money2 /\ money2 - sales2 <= pnl2 - InFull(t)
    BY <1>4, <1>10, <1>11
  <2> QED
    BY <2>1, <2>2 DEF Honest
<1>13. money + got = money + x - charge
  BY <1>0, <1>5, <1>7
<1> QED
  BY <1>5, <1>8, <1>11, <1>12, <1>13

\* The payout, after which no row is open.
LEMMA PayoutIsHonest ==
  ASSUME NEW s, NEW money \in Int, NEW sales \in Nat, NEW pnl \in Int,
         Honest(s, money, sales, pnl),
         NEW result \in {"yes", "no"}
  PROVE  Honest(<<>>, money + Paid(s, result), sales, pnl + Booked(s, result))
<1>0. /\ money \in Int /\ sales \in Nat /\ pnl \in Int
      /\ pnl - OnRows(s) <= money /\ money - sales <= pnl - InFull(s)
  BY DEF Honest
<1>1. s \in Seq(Lot) /\ FeesCovered(s)
  BY DEF Honest
<1>2. PICK a \in Int, p \in Int : a = Booked(s, result) /\ p = Paid(s, result) /\ a + OnRows(s) = p
  BY <1>1, PayoutBooks
<1>3. PICK o \in Int, f \in Int : o = OnRows(s) /\ f = InFull(s) /\ o <= f
  BY <1>1, CostsAreInts
<1>4. pnl + a - 0 <= money + p /\ money + p - sales <= pnl + a - 0
  BY <1>0, <1>2, <1>3
<1>5. pnl + a \in Int /\ money + p \in Int /\ sales \in Nat
  BY <1>0, <1>2
<1>6. Honest(<<>>, money + p, sales, pnl + a)
  BY <1>4, <1>5, NoRows DEF Honest
<1> QED
  BY <1>2, <1>6

\* A decision leaves the books alone, and what it decides on is the rows and a bid.
LEMMA LookDecides ==
  ASSUME LedgerInv, NEW bid \in Bids, Look(bid)
  PROVE  LedgerInv'
<1>1. bid \in 1..99
  BY ExitRulesAssumption
<1>2. /\ lots' = lots /\ cash' = cash /\ exits' = exits /\ ledger' = ledger /\ holder' = holder
      /\ \/ due' = NotDue
         \/ \E why \in {"price", "time"} : due' = [why |-> why, bid |-> bid, lots |-> lots]
  BY DEF Look
<1>3. lots \in Seq(Lot)
  BY DEF LedgerInv, Honest
<1>4. ASSUME NEW why \in {"price", "time"} PROVE [why |-> why, bid |-> bid, lots |-> lots] \in Decision
  BY <1>1, <1>3 DEF Decision
<1>5. due' = NotDue \/ due' \in Decision
  BY <1>2, <1>4
<1> QED
  BY <1>2, <1>5 DEF LedgerInv, ExitDecided

\* The sale of the executor is one that settles its rows.
LEMMA ExitIsHonest ==
  ASSUME LedgerInv, NEW bid \in Bids, NEW n \in 0 .. Held(lots), _exit_locked(bid, n)
  PROVE  LedgerInv'
<1>1. bid \in 1..99
  BY ExitRulesAssumption
<1>2. Honest(lots, cash, exits, ledger) /\ lots \in Seq(Lot)
  BY DEF LedgerInv, Honest
<1>3. n \in Nat /\ n <= Held(lots)
  <2>1. Held(lots) \in Nat
    BY <1>2, HeldIsNat
  <2> QED
    BY <2>1
<1>4. PICK t, a : /\ t = SubSeq([i \in DOMAIN lots |-> Remainder(lots, n, i)], FirstOpen(lots, n),
                                Len(lots))
                  /\ a = Total([i \in DOMAIN lots |-> Tranche(lots, n, i, bid)])
  OBVIOUS
<1>5. Settles(lots, n, bid, t, a)
  BY <1>1, <1>2, <1>3, <1>4, SaleSettles DEF Honest
<1>6. Honest(t, cash + n * bid - kalshi_fee_cents(n, bid), exits + 1, ledger + a)
  <2>1. cash \in Int /\ exits \in Nat /\ ledger \in Int
    BY <1>2 DEF Honest
  <2> QED
    BY <1>1, <1>2, <1>3, <1>5, <2>1, SaleIsHonest
<1>7. /\ lots' = t /\ ledger' = ledger + a /\ exits' = exits + 1
      /\ cash' = cash + n * bid - kalshi_fee_cents(n, bid)
      /\ due' = NotDue /\ holder' = holder
  BY <1>4 DEF _exit_locked, _settle_originals
<1> QED
  BY <1>6, <1>7 DEF LedgerInv, ExitDecided

\* Every step keeps the books.
LEMMA LedgerStep ==
  ASSUME LedgerInv, [ExitNext]_exitVars
  PROVE  LedgerInv'
<1>1. /\ Honest(lots, cash, exits, ledger) /\ ExitDecided
      /\ cash \in Int /\ exits \in Nat /\ ledger \in Int
  BY DEF LedgerInv, Honest
<1>2. CASE \E count \in LotSizes, price \in LotPrices : Buy(count, price)
  <2>1. PICK count \in LotSizes, price \in LotPrices : Buy(count, price)
    BY <1>2
  <2>2. count \in Nat \ {0} /\ price \in 1..99
    BY ExitRulesAssumption
  <2>3. PICK charge : charge = kalshi_fee_cents(count, price)
    OBVIOUS
  <2>4. Honest(Append(lots, [count |-> count, price |-> price, fees |-> charge]),
               cash - count * price - charge, exits, ledger)
    BY <1>1, <2>2, <2>3, BuyIsHonest
  <2>5. /\ lots' = Append(lots, [count |-> count, price |-> price, fees |-> charge])
        /\ cash' = cash - count * price - charge
        /\ exits' = exits /\ ledger' = ledger /\ due' = due /\ holder' = holder
    BY <2>1, <2>3 DEF Buy
  <2> QED
    BY <1>1, <2>4, <2>5 DEF LedgerInv, ExitDecided
<1>3. CASE \E bid \in Bids : Look(bid)
  BY <1>3, LookDecides
<1>4. CASE Forget \/ NotSold \/ Pass \/ UNCHANGED exitVars
  <2>1. /\ lots' = lots /\ cash' = cash /\ exits' = exits /\ ledger' = ledger /\ holder' = holder
        /\ due' = due \/ due' = NotDue
    BY <1>4 DEF Forget, NotSold, Pass, exitVars
  <2> QED
    BY <1>1, <2>1 DEF LedgerInv, ExitDecided
<1>5. CASE \E bid \in Bids, n \in 0 .. Held(lots) : _exit_locked(bid, n)
  BY <1>5, ExitIsHonest
<1>6. CASE \E result \in {"yes", "no"} : Payout(result)
  <2>1. PICK result \in {"yes", "no"} : Payout(result)
    BY <1>6
  <2>2. Honest(<<>>, cash + Paid(lots, result), exits, ledger + Booked(lots, result))
    BY <1>1, PayoutIsHonest
  <2>3. /\ lots' = <<>> /\ cash' = cash + Paid(lots, result) /\ exits' = exits
        /\ ledger' = ledger + Booked(lots, result) /\ due' = due /\ holder' = holder
    BY <2>1 DEF Payout, Paid, Booked
  <2> QED
    BY <1>1, <2>2, <2>3 DEF LedgerInv, ExitDecided
<1>7. CASE Next_market
  <2>1. /\ lots' = <<>> /\ cash' = 0 /\ exits' = 0 /\ ledger' = 0 /\ due' = due /\ holder' = holder
    BY <1>7 DEF Next_market
  <2>2. Honest(<<>>, 0, 0, 0)
    BY NoRows DEF Honest
  <2> QED
    BY <1>1, <2>1, <2>2 DEF LedgerInv, ExitDecided
<1> QED
  BY <1>2, <1>3, <1>4, <1>5, <1>6, <1>7 DEF ExitNext

\* They are kept from the start.
LEMMA LedgerStarts ==
  ASSUME ExitInit
  PROVE  LedgerInv
<1>1. Honest(<<>>, 0, 0, 0)
  BY NoRows DEF Honest
<1> QED
  BY <1>1 DEF ExitInit, LedgerInv, ExitDecided

\* And so at all times.
LEMMA LedgerStays == ExitSpec => []LedgerInv
  BY LedgerStarts, LedgerStep, PTL DEF ExitSpec

(***************************************************************************)
(* The ledger never flatters, whatever the lots, the prices and the sales: *)
(* a sale is charged one entry fee more than its row was only where it     *)
(* splits a row, which no sale does to more than one (executor.py:510-560, *)
(* settlement.py:127).                                                     *)
(***************************************************************************)
THEOREM LedgerAlwaysHonest == ExitSpec => []LedgerNeverFlatters
<1>1. LedgerInv => LedgerNeverFlatters
  <2> SUFFICES ASSUME LedgerInv PROVE LedgerNeverFlatters
    OBVIOUS
  <2>1. /\ lots \in Seq(Lot) /\ FeesCovered(lots) /\ cash \in Int /\ exits \in Nat /\ ledger \in Int
        /\ ledger - OnRows(lots) <= cash /\ cash - exits <= ledger - InFull(lots)
    BY DEF LedgerInv, Honest
  <2>2. PICK o \in Int, f \in Int : o = OnRows(lots) /\ f = InFull(lots) /\ o <= f
    BY <2>1, CostsAreInts
  <2>3. o = Total([i \in DOMAIN lots |-> lots[i].count * lots[i].price + lots[i].fees])
    BY <2>2 DEF OnRows, CostOnRow
  <2>4. ledger - o \in (cash - exits)..cash
    BY <2>1, <2>2
  <2> QED
    BY <2>3, <2>4 DEF LedgerNeverFlatters
<1> QED
  BY <1>1, LedgerStays, PTL

-----------------------------------------------------------------------------
(* A sale decided by price keeps the profit (ExitRules) *)

\* The average of one lot is its price.
LEMMA AverageOfOne ==
  ASSUME NEW c \in Nat \ {0}, NEW p \in 1..99
  PROVE  RoundDiv(c * p, c) = p
<1>1. PICK n, e : n \in Nat /\ n = c * p /\ e = RoundDiv(n, c)
  OBVIOUS
<1>2. e \in Int /\ 2 * (c * e) <= 2 * n + c /\ 2 * n <= 2 * (c * e) + c
  BY <1>1, Rounded
<1>3. PICK d \in Int : d = e - p
  BY <1>2
<1>4. c * e = n + c * d
  BY <1>1, <1>2, <1>3
<1>5. PICK k \in Int : k = c * d
  BY <1>3
<1>6. 2 * k <= c /\ -c <= 2 * k
  BY <1>1, <1>2, <1>4, <1>5
<1>7. ~(d >= 1)
  <2> SUFFICES ASSUME d >= 1 PROVE FALSE
    OBVIOUS
  <2>1. c * 1 <= c * d
    BY Products
  <2> QED
    BY <1>5, <1>6, <2>1
<1>8. ~(d <= -1)
  <2> SUFFICES ASSUME d <= -1 PROVE FALSE
    OBVIOUS
  <2>1. c * d <= c * (-1)
    BY Products
  <2> QED
    BY <1>5, <1>6, <2>1
<1> QED
  BY <1>1, <1>2, <1>3, <1>7, <1>8

\* How many cents two prices are apart.
Apart(a, b, d) == b = a + d \/ a = b + d

\* At most d cents more, in the units of the fee.
RawWithin(v, w, d) == w <= v + 10000 * d

\* The fee of one price exceeds that of another by less than the prices are apart.
LEMMA RawFeeMoves ==
  ASSUME NEW a \in 1..99, NEW b \in 1..99, NEW d \in Nat, Apart(a, b, d)
  PROVE  RawWithin(RawFee(a), RawFee(b), d)
<1>0. b = a + d \/ a = b + d
  BY DEF Apart
<1>1. PICK g \in Int : g = 100 - a - b
  OBVIOUS
<1>2. g <= 98 /\ -g <= 98
  BY <1>1
<1>3. d * g <= d * 98 /\ d * (-g) <= d * 98
  BY <1>2, Products
<1>4. PICK x \in Int : x = d * g
  OBVIOUS
<1>5. d * (-g) = -x
  BY <1>4
<1>6. x <= 98 * d /\ -x <= 98 * d
  BY <1>3, <1>4, <1>5
<1>7. PICK v \in Int, w \in Int : v = RawFee(a) /\ w = RawFee(b)
  <2>1. PICK n \in Nat : n = 1
    OBVIOUS
  <2>2. ASSUME NEW p \in 1..99 PROVE RawFee(p) \in Int
    <3>1. RoundsUp(kalshi_fee_cents(n, p), n * RawFee(p)) /\ RawFee(p) \in Nat
      BY FeeIsRoundedUp
    <3> QED
      BY <3>1
  <2> QED
    BY <2>2
<1>8. CASE b = a + d
  <2>1. RawFee(b) = RawFee(a) + 7 * (d * g)
    BY <1>0, <1>1, <1>8 DEF RawFee
  <2>2. w = v + 7 * x
    BY <1>4, <1>7, <2>1
  <2>3. w <= v + 10000 * d
    BY <1>6, <2>2
  <2> QED
    BY <1>7, <2>3 DEF RawWithin
<1>9. CASE a = b + d
  <2>1. RawFee(a) = RawFee(b) + 7 * (d * g)
    BY <1>0, <1>1, <1>9 DEF RawFee
  <2>2. v = w + 7 * x
    BY <1>4, <1>7, <2>1
  <2>3. w <= v + 10000 * d
    BY <1>6, <2>2
  <2> QED
    BY <1>7, <2>3 DEF RawWithin
<1> QED
  BY <1>0, <1>8, <1>9

\* So does the fee of an order, by contract.
LEMMA FeeMoves ==
  ASSUME NEW n \in Nat, NEW a \in 1..99, NEW b \in 1..99, NEW d \in Nat, Apart(a, b, d)
  PROVE  kalshi_fee_cents(n, b) <= kalshi_fee_cents(n, a) + n * d
<1>1. PICK f, g : f = kalshi_fee_cents(n, a) /\ g = kalshi_fee_cents(n, b)
  OBVIOUS
<1>2. PICK v \in Nat, w \in Nat : v = RawFee(a) /\ w = RawFee(b)
  BY FeeIsRoundedUp
<1>3. RoundsUp(f, n * v) /\ RoundsUp(g, n * w)
  BY <1>1, <1>2, FeeIsRoundedUp
<1>4. w <= v + 10000 * d
  <2>1. RawWithin(RawFee(a), RawFee(b), d)
    BY RawFeeMoves
  <2> QED
    BY <1>2, <2>1 DEF RawWithin
<1>5. n * w <= n * (v + 10000 * d)
  BY <1>2, <1>4, Products
<1>6. n * (v + 10000 * d) = n * v + 10000 * (n * d)
  BY <1>2
<1>7. PICK x, y, z : x = n * v /\ y = n * w /\ z = n * d
  OBVIOUS
<1>8. z \in Nat /\ y <= x + 10000 * z
  BY <1>2, <1>5, <1>6, <1>7
<1>9. RoundsUp(f, x) /\ RoundsUp(g, y)
  BY <1>3, <1>7
<1>10. g <= f + z
  BY <1>8, <1>9 DEF RoundsUp
<1> QED
  BY <1>1, <1>7, <1>10

\* What n contracts sold at b pay, at least what they would have paid at a but for the fall.
PaysAs(n, a, b, fall) ==
  n * a - kalshi_fee_cents(n, a) <= n * b - kalshi_fee_cents(n, b) + 2 * (n * fall)

\* A higher bid pays no less, a lower one misses at most two cents per contract and cent.
LEMMA SalePays ==
  ASSUME NEW n \in Nat, NEW a \in 1..99, NEW b \in 1..99, NEW fall,
         fall = IF b < a THEN a - b ELSE 0
  PROVE  PaysAs(n, a, b, fall) /\ fall \in Nat
<1>1. PICK f \in Nat, g \in Nat : f = kalshi_fee_cents(n, a) /\ g = kalshi_fee_cents(n, b)
  BY FeeIsNat
<1>2. PICK d \in Nat : b = a + d \/ a = b + d
  <2>1. CASE b < a
    <3>1. a - b \in Nat /\ a = b + (a - b)
      BY <2>1
    <3> QED
      BY <3>1
  <2>2. CASE ~(b < a)
    <3>1. b - a \in Nat /\ b = a + (b - a)
      BY <2>2
    <3> QED
      BY <3>1
  <2> QED
    BY <2>1, <2>2
<1>3. g <= f + n * d
  <2>1. Apart(a, b, d)
    BY <1>2 DEF Apart
  <2> QED
    BY <1>1, <2>1, FeeMoves
<1>4. PICK x, y, z : x = n * a /\ y = n * b /\ z = n * d
  OBVIOUS
<1>5. x \in Int /\ y \in Int /\ z \in Nat
  BY <1>4
<1>6. CASE b < a
  <2>1. a = b + d /\ fall = d
    BY <1>2, <1>6
  <2>2. x = y + z
    BY <1>4, <2>1
  <2>3. x - f <= y - g + 2 * z
    BY <1>1, <1>3, <1>4, <1>5, <2>2
  <2> QED
    BY <1>1, <1>4, <2>1, <2>3 DEF PaysAs
<1>7. CASE ~(b < a)
  <2>1. b = a + d /\ fall = 0
    BY <1>2, <1>7
  <2>2. y = x + z
    BY <1>4, <2>1
  <2>3. x - f <= y - g
    BY <1>1, <1>3, <1>4, <1>5, <2>2
  <2>4. n * fall = 0
    BY <2>1
  <2> QED
    BY <1>1, <1>4, <1>5, <2>1, <2>3, <2>4 DEF PaysAs
<1> QED
  BY <1>6, <1>7

\* The sums over one lot and over two.
LEMMA OneLotIs ==
  ASSUME NEW s \in Seq(Lot), Len(s) = 1
  PROVE  /\ s[1] \in Lot /\ Held(s) = s[1].count
         /\ Total([i \in DOMAIN s |-> s[i].count * s[i].price]) = s[1].count * s[1].price
         /\ \A n \in Nat : n <= s[1].count =>
              PaidFor(s, n) = n * s[1].price + kalshi_fee_cents(n, s[1].price)
<1>1. DOMAIN s = {1} /\ s[1] \in Lot
  <2>1. DOMAIN s = 1 .. 1 /\ 1 \in 1 .. Len(s) /\ 1 .. 1 = {1}
    BY LenProperties
  <2> QED
    BY <2>1, ElementOfSeq
<1>2. ASSUME NEW f, DOMAIN f = {1}, f[1] \in Int PROVE Total(f) = f[1]
  <2>1. Total(f) = SumFunctionOnSet(f, {1})
    BY <1>2 DEF Total, SumFunction
  <2> QED
    BY <1>2, <2>1, SumOfOne
<1>3. PICK c \in Nat, p \in 1..99 : c = s[1].count /\ p = s[1].price
  BY <1>1, LotFacts
<1>4. c * p \in Int
  BY <1>3
<1>5. PICK g, h : /\ g = [i \in DOMAIN s |-> s[i].count]
                  /\ h = [i \in DOMAIN s |-> s[i].count * s[i].price]
  OBVIOUS
<1>6. g[1] = s[1].count /\ g[1] \in Int /\ h[1] = s[1].count * s[1].price /\ h[1] \in Int
  BY <1>1, <1>3, <1>4, <1>5
<1>7. Total(g) = g[1] /\ Total(h) = h[1]
  BY <1>1, <1>2, <1>5, <1>6
<1>8. ASSUME NEW n \in Nat, n <= s[1].count
      PROVE  PaidFor(s, n) = n * s[1].price + kalshi_fee_cents(n, s[1].price)
  <2>1. PICK f : f = [i \in DOMAIN s |->
                        LET sold == IF n < s[i].count THEN n ELSE s[i].count
                        IN  sold * s[i].price + kalshi_fee_cents(sold, s[i].price)]
    OBVIOUS
  <2>2. (IF n < c THEN n ELSE c) = n
    BY <1>3, <1>8
  <2>3. f[1] = n * p + kalshi_fee_cents(n, p)
    BY <1>1, <1>3, <2>1, <2>2
  <2>4. f[1] \in Int
    <3>1. kalshi_fee_cents(n, p) \in Nat
      BY FeeIsNat
    <3>2. n * p \in Int
      OBVIOUS
    <3> QED
      BY <2>3, <3>1, <3>2
  <2>5. Total(f) = f[1]
    BY <1>1, <1>2, <2>1, <2>4
  <2> QED
    BY <1>3, <2>1, <2>3, <2>5 DEF PaidFor
<1> QED
  BY <1>1, <1>5, <1>6, <1>7, <1>8 DEF Held

\* Two lots likewise.
LEMMA TwoLotsAre ==
  ASSUME NEW s \in Seq(Lot), Len(s) = 2
  PROVE  /\ s[1] \in Lot /\ s[2] \in Lot
         /\ Held(s) = s[1].count + s[2].count
         /\ Total([i \in DOMAIN s |-> s[i].count * s[i].price])
              = s[1].count * s[1].price + s[2].count * s[2].price
         /\ PaidFor(s, Held(s)) = FullCost(s[1]) + FullCost(s[2])
<1>1. DOMAIN s = {1, 2} /\ s[1] \in Lot /\ s[2] \in Lot
  <2>1. DOMAIN s = 1 .. 2 /\ 1 \in 1 .. Len(s) /\ 2 \in 1 .. Len(s) /\ 1 .. 2 = {1, 2}
    BY LenProperties
  <2> QED
    BY <2>1, ElementOfSeq
<1>2. ASSUME NEW f, DOMAIN f = {1, 2}, f[1] \in Int, f[2] \in Int PROVE Total(f) = f[1] + f[2]
  <2>1. Total(f) = SumFunctionOnSet(f, {1, 2})
    BY <1>2 DEF Total, SumFunction
  <2>2. 1 # 2
    OBVIOUS
  <2> QED
    BY <1>2, <2>1, <2>2, SumOfTwo
<1>3. ASSUME NEW l \in Lot
      PROVE  l.count \in Nat /\ l.count * l.price \in Int /\ FullCost(l) \in Int
  <2>1. PICK c \in Nat, p \in 1..99 : c = l.count /\ p = l.price
    BY LotFacts
  <2>2. c * p \in Int
    OBVIOUS
  <2>3. FullCost(l) \in Nat
    BY LotFacts
  <2> QED
    BY <2>1, <2>2, <2>3
<1>4. PICK n \in Nat : n = s[1].count + s[2].count
  BY <1>1, <1>3
<1>5. PICK f, g, h : /\ f = [i \in DOMAIN s |->
                               LET sold == IF n < s[i].count THEN n ELSE s[i].count
                               IN  sold * s[i].price + kalshi_fee_cents(sold, s[i].price)]
                     /\ g = [i \in DOMAIN s |-> s[i].count]
                     /\ h = [i \in DOMAIN s |-> s[i].count * s[i].price]
  OBVIOUS
<1>6. ASSUME NEW i \in {1, 2} PROVE f[i] = FullCost(s[i])
  <2>1. s[i].count \in Nat /\ s[i].count <= n
    BY <1>1, <1>3, <1>4
  <2>2. (IF n < s[i].count THEN n ELSE s[i].count) = s[i].count
    BY <2>1
  <2> QED
    BY <1>1, <1>5, <2>2 DEF FullCost
<1>7. /\ g[1] = s[1].count /\ g[2] = s[2].count
      /\ h[1] = s[1].count * s[1].price /\ h[2] = s[2].count * s[2].price
  BY <1>1, <1>5
<1>8. Total(f) = f[1] + f[2]
  BY <1>1, <1>2, <1>3, <1>5, <1>6
<1>9. Total(g) = g[1] + g[2] /\ Total(h) = h[1] + h[2]
  <2>1. /\ s[1].count \in Int /\ s[1].count * s[1].price \in Int
        /\ s[2].count \in Int /\ s[2].count * s[2].price \in Int
    BY <1>1, <1>3
  <2>2. DOMAIN g = {1, 2} /\ DOMAIN h = {1, 2}
    BY <1>1, <1>5
  <2>3. g[1] \in Int /\ g[2] \in Int /\ h[1] \in Int /\ h[2] \in Int
    BY <1>7, <2>1
  <2> QED
    BY <1>2, <2>2, <2>3
<1>10. Held(s) = n
  BY <1>4, <1>5, <1>7, <1>9 DEF Held
<1>11. PaidFor(s, n) = FullCost(s[1]) + FullCost(s[2])
  BY <1>5, <1>6, <1>8 DEF PaidFor
<1> QED
  BY <1>1, <1>4, <1>5, <1>7, <1>9, <1>10, <1>11

\* What n contracts of the lots gain at a bid, and how much of it is promised.
Gain(s, n, bid) == n * bid - kalshi_fee_cents(n, bid) - PaidFor(s, n)
Promised(s)     == IF Len(s) = 1 THEN 0 ELSE -1

\* The lots of which the promise speaks, and how many of their contracts.
Spoken(s, n) == Len(s) = 1 \/ (Len(s) = 2 /\ holder = "bets" /\ n = Held(s))

\* A bid that gains on one contract at the average keeps the profit of the lots.
LEMMA PriceExitKeeps ==
  ASSUME NEW s \in Seq(Lot), NEW bid \in 1..99, NEW n \in Nat \ {0}, n <= Held(s), Spoken(s, n),
         NetPerContract(bid, _entry_bid_for(s)) > 0
  PROVE  PaidFor(s, n) \in Int /\ Gain(s, n, bid) > Promised(s)
<1>1. PICK e : e = _entry_bid_for(s)
  OBVIOUS
<1>2. CASE Len(s) = 1
  <2>1. /\ s[1] \in Lot /\ Held(s) = s[1].count
        /\ Total([i \in DOMAIN s |-> s[i].count * s[i].price]) = s[1].count * s[1].price
        /\ PaidFor(s, n) = n * s[1].price + kalshi_fee_cents(n, s[1].price)
    BY <1>2, OneLotIs
  <2>2. PICK c \in Nat \ {0}, p \in 1..99 : c = s[1].count /\ p = s[1].price
    <3>1. s[1].count \in Nat /\ s[1].count > 0 /\ s[1].price \in 1..99
      BY <2>1, LotFacts
    <3> QED
      BY <3>1
  <2>3. e = p
    <3>1. RoundDiv(c * p, c) = p
      BY AverageOfOne
    <3>2. e = p \/ e = RoundDiv(c * p, c)
      BY <1>1, <2>1, <2>2 DEF _entry_bid_for
    <3> QED
      BY <3>1, <3>2
  <2>4. n * (bid - p) - kalshi_fee_cents(n, bid) - kalshi_fee_cents(n, p) > 0
    BY <1>1, <2>3, OneLotGains
  <2>5. PICK f \in Nat, g \in Nat : f = kalshi_fee_cents(n, bid) /\ g = kalshi_fee_cents(n, p)
    BY FeeIsNat
  <2>6. PICK x, y, k : x = n * bid /\ y = n * p /\ k = n * (bid - p)
    OBVIOUS
  <2>7. x \in Int /\ y \in Int /\ k = x - y /\ k - f - g > 0
    BY <2>4, <2>5, <2>6
  <2>8. x - f - (y + g) > 0
    BY <2>5, <2>7
  <2>9. PaidFor(s, n) = y + g
    BY <2>1, <2>2, <2>5, <2>6
  <2> QED
    BY <1>2, <2>5, <2>6, <2>7, <2>8, <2>9 DEF Gain, Promised
<1>3. CASE Len(s) = 2 /\ holder = "bets" /\ n = Held(s)
  <2>1. /\ s[1] \in Lot /\ s[2] \in Lot
        /\ Held(s) = s[1].count + s[2].count
        /\ Total([i \in DOMAIN s |-> s[i].count * s[i].price])
             = s[1].count * s[1].price + s[2].count * s[2].price
        /\ PaidFor(s, n) = FullCost(s[1]) + FullCost(s[2])
    BY <1>3, TwoLotsAre
  <2>2. ASSUME NEW l \in Lot PROVE l.count \in Nat \ {0} /\ l.price \in 1..99
    BY DEF Lot
  <2>3. PICK c1 \in Nat \ {0}, c2 \in Nat \ {0}, p1 \in 1..99, p2 \in 1..99 :
          c1 = s[1].count /\ c2 = s[2].count /\ p1 = s[1].price /\ p2 = s[2].price
    BY <2>1, <2>2
  <2>4. e = RoundDiv(c1 * p1 + c2 * p2, c1 + c2)
    BY <1>1, <1>3, <2>1, <2>3 DEF _entry_bid_for
  <2>5. (c1 * (bid - p1) - kalshi_fee_cents(c1, bid) - kalshi_fee_cents(c1, p1))
          + (c2 * (bid - p2) - kalshi_fee_cents(c2, bid) - kalshi_fee_cents(c2, p2)) >= 0
    BY <1>1, <2>4, TwoLotsBreakEven
  <2>6. PICK f1 \in Nat, g1 \in Nat, f2 \in Nat, g2 \in Nat :
          /\ f1 = kalshi_fee_cents(c1, bid) /\ g1 = kalshi_fee_cents(c1, p1)
          /\ f2 = kalshi_fee_cents(c2, bid) /\ g2 = kalshi_fee_cents(c2, p2)
    BY FeeIsNat
  <2>7. n = c1 + c2
    BY <1>3, <2>1, <2>3
  <2>8. PICK f \in Nat : f = kalshi_fee_cents(n, bid) /\ f <= f1 + f2
    <3>1. kalshi_fee_cents(c1 + c2, bid) <= f1 + f2
      BY <2>6, FeesAddUp
    <3>2. kalshi_fee_cents(n, bid) \in Nat
      BY FeeIsNat
    <3> QED
      BY <2>7, <3>1, <3>2
  <2>9. PICK x1, y1, x2, y2, x : /\ x1 = c1 * bid /\ y1 = c1 * p1 /\ x2 = c2 * bid
                                 /\ y2 = c2 * p2 /\ x = n * bid
    OBVIOUS
  <2>10. x1 \in Int /\ y1 \in Int /\ x2 \in Int /\ y2 \in Int
    BY <2>9
  <2>11. c1 * (bid - p1) = x1 - y1 /\ c2 * (bid - p2) = x2 - y2 /\ x = x1 + x2
    BY <2>7, <2>9
  <2>12. (x1 - y1 - f1 - g1) + (x2 - y2 - f2 - g2) >= 0
    BY <2>5, <2>6, <2>11
  <2>13. x - f - ((y1 + g1) + (y2 + g2)) > -1
    BY <2>8, <2>10, <2>11, <2>12
  <2>14. PaidFor(s, n) = (y1 + g1) + (y2 + g2)
    BY <2>1, <2>3, <2>6, <2>9 DEF FullCost
  <2>15. PaidFor(s, n) \in Int
    BY <2>6, <2>10, <2>14
  <2>16. Gain(s, n, bid) = x - f - ((y1 + g1) + (y2 + g2))
    BY <2>8, <2>9, <2>14 DEF Gain
  <2>17. Promised(s) = -1
    BY <1>3 DEF Promised
  <2> QED
    BY <2>13, <2>15, <2>16, <2>17
<1> QED
  BY <1>2, <1>3 DEF Spoken

\* The inductive invariant: a price exit was decided at a bid that gains on one contract.
PriceGains == due.why = "price" => NetPerContract(due.bid, _entry_bid_for(due.lots)) > 0

\* Only a tick decides, on what it has just looked at; what was decided is only dropped.
LEMMA GainsStep ==
  ASSUME PriceGains, [ExitNext]_exitVars
  PROVE  PriceGains'
<1>1. CASE \E bid \in Bids : Look(bid)
  <2>1. PICK bid \in Bids : Look(bid)
    BY <1>1
  <2>2. PICK price \in BOOLEAN :
          /\ price => NetPerContract(bid, _entry_bid_for(lots)) > 0
          /\ \/ due' = NotDue
             \/ due' = [why |-> IF price THEN "price" ELSE "time", bid |-> bid, lots |-> lots]
    BY <2>1 DEF Look, take_profit_due, trailing_stop_due
  <2>3. holder' = holder
    BY <2>1 DEF Look
  <2>4. CASE due' = NotDue
    BY <2>4 DEF PriceGains, NotDue
  <2>5. CASE due' = [why |-> "time", bid |-> bid, lots |-> lots]
    BY <2>5 DEF PriceGains
  <2>6. CASE price /\ due' = [why |-> "price", bid |-> bid, lots |-> lots]
    BY <2>2, <2>3, <2>6 DEF PriceGains, _entry_bid_for
  <2> QED
    BY <2>2, <2>4, <2>5, <2>6
<1>2. CASE ~ \E bid \in Bids : Look(bid)
  <2>1. holder' = holder /\ (due' = due \/ due' = NotDue)
    BY <1>2 DEF ExitNext, exitVars, Buy, Forget, _exit_locked, NotSold, Pass, Payout, Next_market
  <2> QED
    BY <2>1 DEF PriceGains, NotDue, _entry_bid_for
<1> QED
  BY <1>1, <1>2

\* What was spent before a sale is no part of its gain.
LEMMA GainCounted ==
  ASSUME NEW m \in Int, NEW x \in Int, NEW y \in Int, NEW z \in Int, NEW c \in Int, NEW f \in Int,
         NEW g \in Int, NEW k \in Int, x - f - c > k, x - f <= y - g + 2 * z
  PROVE  (m + y - g) - m - c + 2 * z > k
  OBVIOUS

\* The sale pays at the bid it finds what the decision promised at its own.
LEMMA SaleKeeps ==
  ASSUME LedgerInv, PriceGains, NEW bid \in Bids, NEW n \in 1..Held(lots),
         due.why = "price", _exit_locked(bid, n), Spoken(due.lots, n),
         NEW fall, fall = IF bid < due.bid THEN due.bid - bid ELSE 0
  PROVE  cash' - cash - PaidFor(due.lots, n) + 2 * (n * fall) > Promised(due.lots)
<1>1. bid \in 1..99 /\ cash \in Int /\ lots \in Seq(Lot)
  BY ExitRulesAssumption DEF LedgerInv, Honest
<1>2. due \in Decision
  BY DEF LedgerInv, ExitDecided, NotDue
<1>3. PICK s \in Seq(Lot), a \in 1..99 : s = due.lots /\ a = due.bid
  BY <1>2 DEF Decision
<1>4. n \in Nat \ {0} /\ n <= Held(s)
  <2>1. Held(s) \in Nat /\ Held(lots) \in Nat
    BY <1>1, <1>3, HeldIsNat
  <2>2. n \in 0 .. Min({Held(s), Held(lots)})
    BY <1>3 DEF _exit_locked
  <2>3. Min({Held(s), Held(lots)}) = IF Held(s) <= Held(lots) THEN Held(s) ELSE Held(lots)
    BY <2>1, MinOfTwo
  <2> QED
    BY <2>1, <2>2, <2>3
<1>5. PaidFor(s, n) \in Int /\ Gain(s, n, a) > Promised(s)
  BY <1>3, <1>4, PriceExitKeeps DEF PriceGains
<1>6. PaysAs(n, a, bid, fall) /\ fall \in Nat
  <2>1. fall = IF bid < a THEN a - bid ELSE 0
    BY <1>3
  <2> QED
    BY <1>1, <1>4, <2>1, SalePays
<1>7. PICK f \in Nat, g \in Nat : f = kalshi_fee_cents(n, a) /\ g = kalshi_fee_cents(n, bid)
  BY <1>1, <1>3, <1>4, FeeIsNat
<1>8. PICK x, y, z, c, k : /\ x = n * a /\ y = n * bid /\ z = n * fall /\ c = PaidFor(s, n)
                           /\ k = Promised(s)
  OBVIOUS
<1>9. x \in Int /\ y \in Int /\ z \in Int /\ c \in Int /\ k \in Int
  BY <1>4, <1>5, <1>6, <1>1, <1>8 DEF Promised
<1>10. x - f - c > k /\ x - f <= y - g + 2 * z
  BY <1>5, <1>6, <1>7, <1>8 DEF Gain, PaysAs
<1>11. cash' = cash + y - g
  BY <1>7, <1>8 DEF _exit_locked
<1>12. cash' - cash - c + 2 * z > k
  <2>1. PICK m \in Int : m = cash
    BY <1>1
  <2>2. (m + y - g) - m - c + 2 * z > k
    <3>1. f \in Int /\ g \in Int
      BY <1>7
    <3> QED
      BY <1>9, <1>10, <2>1, <3>1, GainCounted
  <2> QED
    BY <1>11, <2>1, <2>2
<1> QED
  BY <1>3, <1>8, <1>12

(***************************************************************************)
(* A sale decided by price loses by nothing but a fall of the bid after    *)
(* the decision, whatever the prices and counts: the cent that each        *)
(* contract gains covers the rounding of the average and of the fees of    *)
(* two lots (take_profit.py:52, trailing_stop.py:66), and no fee moves     *)
(* faster than the price (executor.py:205-227 of Motor 3).                 *)
(***************************************************************************)
THEOREM ProfitAlwaysKept == ExitSpec => ExitsKeepProfit
<1> DEFINE A == \A bid \in Bids, n \in 1..Held(lots) :
                  /\ due.why = "price" /\ _exit_locked(bid, n)
                  /\ \/ Len(due.lots) = 1
                     \/ Len(due.lots) = 2 /\ holder = "bets" /\ n = Held(due.lots)
                  => LET gain == cash' - cash - PaidFor(due.lots, n)
                         fall == IF bid < due.bid THEN due.bid - bid ELSE 0
                     IN  gain + 2 * (n * fall) > (IF Len(due.lots) = 1 THEN 0 ELSE -1)
<1>1. ExitInit => PriceGains
  BY DEF ExitInit, PriceGains, NotDue
<1>2. PriceGains /\ [ExitNext]_exitVars => PriceGains'
  BY GainsStep
<1>3. LedgerInv /\ PriceGains => A
  BY SaleKeeps DEF Spoken, Promised
<1>4. LedgerInv /\ PriceGains => [A]_exitVars
  BY <1>3
<1> QED
  BY <1>1, <1>2, <1>4, LedgerStays, PTL DEF ExitSpec, ExitsKeepProfit

-----------------------------------------------------------------------------
(* The bets of Motor 2 (Consensus): the game *)

\* The part of the run rules that starts with the bets.
ConsensusSpec == ConsensusInit /\ [][ConsensusNext]_betVars

\* Kalshi's key of an event tells its game: its teams, its day, and its hour, if a game
\* of theirs starts that day at the hour of the key.
SameTeams(g, e) == Games[g].names = Events[e].names /\ Games[g].sport = Events[e].sport
OnItsDay(g, e)  == SameTeams(g, e) /\ Games[g].day = Events[e].day

KeysTellTheGame ==
  \A e \in DOMAIN Events :
    /\ SameTeams(GameOf[e], e)
    /\ Events[e].day # 0 =>
         /\ OnItsDay(GameOf[e], e)
         /\ \A g \in DOMAIN Games :
              OnItsDay(g, e) /\ Games[g].hour = Events[e].hour =>
                Games[GameOf[e]].hour = Events[e].hour

\* The edge asked for is at least a point, or fees are counted by the contract.
EdgeIsAPoint == MinBetEdge >= 1 \/ TRUE \notin FeeAtStake

\* A set of one has one member.
LEMMA OnlyMember ==
  ASSUME NEW S, IsFiniteSet(S), Cardinality(S) = 1, NEW x \in S, NEW y \in S
  PROVE  x = y
<1>1. \E z : S = {z}
  BY FS_Singleton
<1> QED
  BY <1>1

\* The game chosen is the event's own, if all it could be taken for are listed.
LEMMA ChosenIsItsGame ==
  ASSUME KeysTellTheGame, feed \subseteq DOMAIN Games, NEW e \in DOMAIN Events,
         NEW c \in _select_candidate(e)
  PROVE  /\ c \in DOMAIN Games /\ Start(c) > hour
         /\ Complete(e) => c = GameOf[e]
<1>1. PICK found, dated, timed :
        /\ found = {g \in feed : SameTeams(g, e)}
        /\ dated = {g \in found : Games[g].day = Events[e].day}
        /\ timed = {g \in dated : Games[g].hour = Events[e].hour}
  OBVIOUS
<1>2. found = match_outcomes(e)
  BY <1>1 DEF match_outcomes, SameTeams
<1>3. PICK one : one = IF Events[e].day = 0 THEN found
                       ELSE IF Cardinality(dated) = 1 THEN dated ELSE timed
  OBVIOUS
<1>4. c \in one /\ Cardinality(one) = 1 /\ Start(c) > hour
  BY <1>1, <1>2, <1>3 DEF _select_candidate
<1>5. one \subseteq found /\ found \subseteq DOMAIN Games
  BY <1>1, <1>3
<1>6. IsFiniteSet(one)
  BY <1>5, FS_Subset, ConsensusAssumption
<1>7. GameOf[e] \in DOMAIN Games /\ SameTeams(GameOf[e], e)
  BY ConsensusAssumption DEF KeysTellTheGame
<1>8. ASSUME Complete(e) PROVE c = GameOf[e]
  <2>1. Events[e].day \in {0, Games[GameOf[e]].day}
    BY DEF KeysTellTheGame, OnItsDay
  <2>2. GameOf[e] \in found
    BY <1>1, <1>7, <1>8, <2>1 DEF Complete, SameTeams
  <2>3. CASE GameOf[e] \in one
    BY <1>4, <1>6, <2>3, OnlyMember
  <2>4. Events[e].day # 0 => GameOf[e] \in dated
    BY <1>1, <2>1, <2>2
  <2>5. CASE Events[e].day # 0 /\ one = timed
    <3>1. OnItsDay(c, e) /\ Games[c].hour = Events[e].hour /\ c \in DOMAIN Games
      BY <1>1, <1>4, <1>5, <2>5 DEF OnItsDay
    <3>2. Games[GameOf[e]].hour = Events[e].hour
      BY <2>5, <3>1 DEF KeysTellTheGame
    <3>3. GameOf[e] \in one
      BY <1>1, <2>4, <2>5, <3>2
    <3> QED
      BY <1>4, <1>6, <3>3, OnlyMember
  <2> QED
    BY <1>3, <2>2, <2>3, <2>4, <2>5
<1> QED
  BY <1>4, <1>5, <1>8

-----------------------------------------------------------------------------
(* The fair value *)

\* There is a value of every rank.
LEMMA RankedIs ==
  ASSUME NEW S, IsFiniteSet(S), NEW f, \A s \in S : f[s] \in Int,
         NEW k \in Nat, k < Cardinality(S)
  PROVE  Ranked(S, f, k) \in {f[s] : s \in S}
<1>1. PICK F, L, M : /\ F = {f[s] : s \in S}
                     /\ L = [v \in F |-> {s \in S : f[s] <= v}]
                     /\ M = [v \in F |-> {s \in S : f[s] < v}]
  OBVIOUS
<1>2. IsFiniteSet(F) /\ F \subseteq Int
  BY <1>1, FiniteRange
<1>3. \A v \in F : IsFiniteSet(L[v]) /\ IsFiniteSet(M[v])
                   /\ Cardinality(L[v]) \in Nat /\ Cardinality(M[v]) \in Nat
  <2> SUFFICES ASSUME NEW v \in F
               PROVE  IsFiniteSet(L[v]) /\ IsFiniteSet(M[v])
                      /\ Cardinality(L[v]) \in Nat /\ Cardinality(M[v]) \in Nat
    OBVIOUS
  <2>1. L[v] \subseteq S /\ M[v] \subseteq S
    BY <1>1
  <2>2. IsFiniteSet(L[v]) /\ IsFiniteSet(M[v])
    BY <2>1, FS_Subset
  <2> QED
    BY <2>2, FS_CardinalityType
<1>4. PICK Enough : Enough = {v \in F : Cardinality(L[v]) > k}
  OBVIOUS
<1>5. Enough # {} /\ Enough \subseteq Int /\ IsFiniteSet(Enough)
  <2>1. S # {}
    BY FS_EmptySet
  <2>2. F # {}
    BY <1>1, <2>1
  <2>3. Max(F) \in F /\ \A v \in F : v <= Max(F)
    BY <1>2, <2>2, MaxOfSet
  <2>4. L[Max(F)] = S
    BY <1>1, <2>3
  <2>5. Max(F) \in Enough
    BY <1>4, <2>3, <2>4
  <2>6. Enough \subseteq F
    BY <1>4
  <2> QED
    BY <1>2, <2>5, <2>6, FS_Subset
<1>6. PICK v \in Enough : \A w \in Enough : v <= w
  BY <1>5, MinOfSet
<1>7. v \in F /\ v \in Int /\ Cardinality(L[v]) > k
  BY <1>4, <1>5, <1>6
<1>8. Cardinality(M[v]) <= k
  <2>1. CASE M[v] = {}
    BY <2>1, FS_EmptySet
  <2>2. CASE M[v] # {}
    <3>1. PICK B : B = {f[s] : s \in M[v]}
      OBVIOUS
    <3>2. B \subseteq F /\ B # {} /\ B \subseteq Int /\ \A w \in B : w < v
      <4>1. M[v] = {s \in S : f[s] < v}
        BY <1>1, <1>7
      <4>2. B \subseteq F
        BY <1>1, <3>1, <4>1
      <4>3. B # {}
        BY <2>2, <3>1
      <4>4. \A w \in B : w < v
        BY <3>1, <4>1
      <4> QED
        BY <1>2, <4>2, <4>3, <4>4
    <3>3. IsFiniteSet(B)
      BY <1>2, <3>2, FS_Subset
    <3>4. PICK w \in B : \A u \in B : u <= w
      BY <3>2, <3>3, MaxOfSet
    <3>5. w \in F /\ w < v /\ w \in Int
      BY <3>2, <3>4
    <3>6. M[v] = L[w]
      <4>1. \A s \in S : f[s] < v <=> f[s] <= w
        <5> SUFFICES ASSUME NEW s \in S PROVE f[s] < v <=> f[s] <= w
          OBVIOUS
        <5>1. f[s] < v => f[s] \in B
          BY <1>1, <1>7, <3>1
        <5>2. f[s] < v => f[s] <= w
          BY <3>4, <5>1
        <5> QED
          BY <1>7, <3>5, <5>2
      <4> QED
        BY <1>1, <1>7, <3>5, <4>1
    <3>7. w \notin Enough
      BY <1>6, <1>7, <3>5
    <3>8. ~(Cardinality(L[w]) > k)
      BY <1>4, <3>5, <3>7
    <3> QED
      BY <1>3, <3>5, <3>6, <3>8
  <2> QED
    BY <2>1, <2>2
<1>9. \E u \in {f[s] : s \in S} : /\ Cardinality({s \in S : f[s] < u}) <= k
                                  /\ Cardinality({s \in S : f[s] <= u}) > k
  BY <1>1, <1>7, <1>8
<1> QED
  BY <1>9 DEF Ranked

\* The median of positive numbers is one.
LEMMA MedianIs ==
  ASSUME NEW S, IsFiniteSet(S), S # {}, NEW f, \A s \in S : f[s] \in Nat \ {0}
  PROVE  Median2(S, f) \in Nat \ {0}
<1>1. PICK n \in Nat : n = Cardinality(S) /\ n > 0
  <2>1. Cardinality(S) \in Nat
    BY FS_CardinalityType
  <2>2. Cardinality(S) # 0
    BY FS_EmptySet
  <2> QED
    BY <2>1, <2>2
<1>2. PICK i \in Nat, j \in Nat : /\ i = (n - 1) \div 2 /\ j = n \div 2
                                  /\ i < n /\ j < n
  BY <1>1
<1>3. \A s \in S : f[s] \in Int
  OBVIOUS
<1>4. Ranked(S, f, i) \in {f[s] : s \in S}
  BY <1>1, <1>2, <1>3, RankedIs
<1>5. Ranked(S, f, j) \in {f[s] : s \in S}
  BY <1>1, <1>2, <1>3, RankedIs
<1>6. PICK u \in Nat \ {0}, v \in Nat \ {0} : u = Ranked(S, f, i) /\ v = Ranked(S, f, j)
  BY <1>4, <1>5
<1>7. Median2(S, f) = u + v
  BY <1>1, <1>2, <1>6 DEF Median2
<1> QED
  BY <1>7

\* A fair value is a positive part of a positive total.
LEMMA FairIs ==
  ASSUME NEW panel \in Panels, NEW e \in DOMAIN Events,
         NEW fairs \in _consensus_fair_probs(panel, Events[e].names), NEW o \in Events[e].names
  PROVE  fairs[o] \in [num : Nat, den : Nat \ {0}]
<1>1. PICK usable, names : /\ usable = {s \in DOMAIN panel : panel[s].fresh /\ panel[s].complete}
                           /\ names = Events[e].names
  OBVIOUS
<1>2. PICK med : med = [p \in names |-> Median2(usable, [s \in usable |-> panel[s].implied[p]])]
  OBVIOUS
<1>3. PICK total : total = SumFunction(med)
  OBVIOUS
<1>4. usable # {} /\ fairs = [p \in names |-> [num |-> med[p], den |-> total]]
  <2>1. _consensus_fair_probs(panel, names) =
          IF usable = {} \/ Cardinality(usable) < MinBooks
          THEN {}
          ELSE {[p \in names |-> [num |-> Median2(usable, [s \in usable |-> panel[s].implied[p]]),
                                  den |-> SumFunction([q \in names |->
                                     Median2(usable, [s \in usable |-> panel[s].implied[q]])])]]}
    BY <1>1 DEF _consensus_fair_probs
  <2> QED
    BY <1>1, <1>2, <1>3, <2>1
<1>5. IsFiniteSet(usable) /\ IsFiniteSet(names)
  <2>1. IsFiniteSet(DOMAIN panel) /\ IsFiniteSet(names)
    BY <1>1, ConsensusAssumption
  <2>2. usable \subseteq DOMAIN panel
    BY <1>1
  <2> QED
    BY <2>1, <2>2, FS_Subset
<1>6. ASSUME NEW p \in names PROVE med[p] \in Nat \ {0}
  <2>1. PICK f : f = [s \in usable |-> panel[s].implied[p]]
    OBVIOUS
  <2>2. \A s \in usable : panel[s].implied[p] \in Nat \ {0}
    BY <1>1, <1>6, ConsensusAssumption
  <2>3. \A s \in usable : f[s] \in Nat \ {0}
    BY <2>1, <2>2
  <2>4. Median2(usable, f) \in Nat \ {0}
    BY <1>4, <1>5, <2>3, MedianIs
  <2> QED
    BY <1>2, <2>1, <2>4
<1>7. total = SumFunctionOnSet(med, names)
  BY <1>2, <1>3 DEF SumFunction
<1>8. total \in Nat /\ med[o] <= total
  <2>1. \A p \in names : med[p] \in Nat
    BY <1>6
  <2> QED
    BY <1>1, <1>5, <1>7, <2>1, SumNat
<1>9. total \in Nat \ {0} /\ med[o] \in Nat
  BY <1>1, <1>6, <1>8
<1> QED
  BY <1>1, <1>4, <1>9

-----------------------------------------------------------------------------
(* What a bet is worth *)

\* A margin g over den per contract that pays the fee of m of them in full pays that
\* of any number of single ones.
LEMMA WorthByOne ==
  ASSUME NEW g \in Int, NEW den \in Nat \ {0}, NEW p \in 1..99, NEW n \in Nat \ {0},
         g > den * kalshi_fee_cents(1, p)
  PROVE  n * g - den * kalshi_fee_cents(n, p) > 0
<1>1. PICK f, one : f = kalshi_fee_cents(n, p) /\ one = kalshi_fee_cents(1, p)
  OBVIOUS
<1>2. f \in Nat /\ one \in Nat /\ f <= n * one
  BY <1>1, FeeIsNat, FeeByOne
<1>3. PICK d, q, all \in Int : d = den * one /\ q = n * one /\ all = den * f
  BY <1>2
<1>4. all <= den * q
  BY <1>2, <1>3
<1>5. den * q = n * d
  BY <1>2, <1>3
<1>6. n * d < n * g
  <2>1. g - d > 0 /\ d \in Int
    BY <1>1, <1>3
  <2>2. n * (g - d) > 0
    BY <2>1
  <2> QED
    BY <2>1, <2>2
<1> QED
  BY <1>1, <1>3, <1>4, <1>5, <1>6

\* So does one that leaves a cent per contract over the fee of m of them.
LEMMA WorthByCent ==
  ASSUME NEW g \in Int, NEW den \in Nat \ {0}, NEW p \in 1..99,
         NEW m \in Nat \ {0}, NEW n \in Nat \ {0},
         m * g - den * kalshi_fee_cents(m, p) > m * den
  PROVE  n * g - den * kalshi_fee_cents(n, p) > 0
<1>1. PICK f, all : f = kalshi_fee_cents(n, p) /\ all = kalshi_fee_cents(m, p)
  OBVIOUS
<1>2. PICK w \in Nat : w = RawFee(p)
  BY FeeIsRoundedUp
<1>3. RoundsUp(f, n * w) /\ RoundsUp(all, m * w)
  BY <1>1, <1>2, FeeIsRoundedUp
<1>4. f \in Nat /\ all \in Nat /\ m * w <= 10000 * all /\ 10000 * f < n * w + 10000
  BY <1>3 DEF RoundsUp
<1>5. 10000 * g > den * (w + 10000)
  <2>1. PICK k : k = den * (w + 10000)
    OBVIOUS
  <2>2. PICK e : e = 10000 * g - k
    OBVIOUS
  <2>3. k \in Int /\ e \in Int /\ e = 10000 * g - den * (w + 10000)
    <3>1. PICK v \in Nat : v = w + 10000
      OBVIOUS
    <3>2. k = den * v /\ den * v \in Int
      BY <2>1, <3>1
    <3> QED
      BY <2>1, <2>2, <3>2
  <2>4. m * e > 0
    <3>1. PICK a, b, c, d \in Int : a = den * all /\ b = m * g /\ c = m * den
                                    /\ d = den * (m * w)
      BY <1>4
    <3>2. d <= 10000 * a
      <4>1. PICK r \in Nat : r = m * w
        OBVIOUS
      <4>2. den * r <= den * (10000 * all)
        BY <1>4, <4>1
      <4> QED
        BY <1>4, <3>1, <4>1, <4>2
    <3>3. b - a > c
      BY <1>1, <3>1
    <3>4. m * e = 10000 * b - (d + 10000 * c)
      BY <2>3, <3>1
    <3> QED
      BY <3>1, <3>2, <3>3, <3>4
  <2>5. e > 0
    BY <2>3, <2>4
  <2> QED
    BY <2>1, <2>2, <2>3, <2>5
<1>6. 10000 * f < n * (w + 10000)
  <2>1. n * (w + 10000) = n * w + n * 10000 /\ n * w \in Nat
    OBVIOUS
  <2> QED
    BY <1>4, <2>1
<1>7. PICK v \in Nat : v = w + 10000
  OBVIOUS
<1>8. den * (10000 * f) < den * (n * v)
  <2>1. PICK q, r \in Int : q = 10000 * f /\ r = n * v
    BY <1>4
  <2>2. q < r
    BY <1>6, <1>7, <2>1
  <2>3. den * (r - q) > 0
    BY <2>2
  <2> QED
    BY <2>1, <2>3
<1>9. n * (10000 * g) > n * (den * v)
  <2>1. PICK q, r \in Int : q = den * v /\ r = 10000 * g
    OBVIOUS
  <2>2. q < r
    BY <1>5, <1>7, <2>1
  <2>3. n * (r - q) > 0
    BY <2>2
  <2> QED
    BY <2>1, <2>3
<1>10. PICK a, b \in Int : a = den * f /\ b = n * g
  BY <1>4
<1>11. 10000 * a < 10000 * b
  <2>1. den * (10000 * f) = 10000 * a /\ n * (10000 * g) = 10000 * b
    BY <1>4, <1>10
  <2>2. den * (n * v) = n * (den * v)
    OBVIOUS
  <2>3. PICK q, r \in Int : q = den * (n * v) /\ r = n * (den * v)
    OBVIOUS
  <2> QED
    BY <1>8, <1>9, <1>10, <2>1, <2>2, <2>3
<1> QED
  BY <1>1, <1>10, <1>11

\* As many of b as fit in a take no more than a.
LEMMA QuotientFits ==
  ASSUME NEW a \in Nat, NEW b \in Nat \ {0}, NEW n \in Nat, n <= a \div b
  PROVE  n * b <= a
<1>1. PICK q \in Nat : q = a \div b /\ b * q <= a
  OBVIOUS
<1>2. n * b <= q * b
  BY <1>1
<1>3. q * b = b * q
  BY <1>1
<1>4. PICK u, v \in Int : u = n * b /\ v = q * b
  BY <1>1
<1> QED
  BY <1>1, <1>2, <1>3, <1>4

-----------------------------------------------------------------------------
(* The bets of every behaviour *)

Fraction == [num : Int, den : Nat \ {0}]

\* The edge was measured at a count of at least one, which is one if fees are not
\* counted at the stake.
LEMMA StakeCounted ==
  ASSUME NEW p \in 1..99, sizing.stake \in 0..100
  PROVE  /\ _stake_count(p) \in Nat \ {0}
         /\ ~sizing.feeAtStake => _stake_count(p) = 1
<1>1. PICK q \in Int : q = StakeCents \div p
  <2>1. Capital \in Nat
    BY ConsensusAssumption
  <2>2. PICK x \in Nat : x = Capital * sizing.stake
    BY <2>1
  <2>3. PICK y \in Nat : y = (x + 50) \div 100
    BY <2>2
  <2>4. PICK q \in Int : q = y \div p
    BY <2>3
  <2> QED
    BY <2>2, <2>3, <2>4 DEF StakeCents
<1>2. Max({1, q}) \in Int /\ Max({1, q}) >= 1
  BY MaxOfTwo
<1> QED
  BY <1>1, <1>2 DEF _stake_count

\* A bet with the edge asked for is worth its price, whatever is bought of it.
LEMMA BetIsWorth ==
  ASSUME EdgeIsAPoint, NEW fair \in Fraction, NEW p \in 1..99, NEW n \in Nat \ {0},
         sizing.stake \in 0..100, sizing.feeAtStake \in FeeAtStake,
         EdgeOver(_net_edge_pct(fair, p), MinBetEdge)
  PROVE  NetValue(fair, p, n) > 0
<1>1. PICK g \in Int, den \in Nat \ {0} : g = 100 * fair.num - fair.den * p /\ den = fair.den
  BY DEF Fraction
<1>2. PICK m \in Nat \ {0} : m = _stake_count(p) /\ (~sizing.feeAtStake => m = 1)
  BY StakeCounted
<1>3. PICK one, f : one = kalshi_fee_cents(1, p) /\ f = kalshi_fee_cents(m, p)
  OBVIOUS
<1>4. one \in Nat /\ f \in Nat
  BY <1>3, FeeIsNat
<1>5. m * g - den * f > MinBetEdge * (m * den)
  BY <1>1, <1>2, <1>3 DEF EdgeOver, _net_edge_pct, NetValue
<1>6. PICK all, unit, least \in Int :
        all = m * g - den * f /\ unit = m * den /\ least = MinBetEdge * unit /\ unit > 0
  <2>1. PICK unit \in Nat : unit = m * den /\ unit > 0
    BY <1>1, <1>2
  <2>2. m * g - den * f \in Int /\ MinBetEdge * unit \in Int
    BY <1>1, <1>2, <1>4, <2>1, ConsensusAssumption
  <2> QED
    BY <2>1, <2>2
<1>7. all > least
  BY <1>5, <1>6
<1>8. MinBetEdge \in Nat
  BY ConsensusAssumption
<1>9. n * g - den * kalshi_fee_cents(n, p) > 0
  <2>1. CASE MinBetEdge >= 1
    <3>1. least >= unit
      BY <1>6, <1>8, <2>1
    <3>2. m * g - den * f > m * den
      BY <1>6, <1>7, <3>1
    <3> QED
      BY <1>1, <1>2, <1>3, <3>2, WorthByCent
  <2>2. CASE TRUE \notin FeeAtStake
    <3>1. m = 1
      BY <1>2, <2>2, ConsensusAssumption
    <3>2. least >= 0
      BY <1>6, <1>8
    <3>3. all = g - den * one
      BY <1>1, <1>3, <1>4, <1>6, <3>1
    <3>4. g > den * one
      BY <1>1, <1>4, <1>6, <1>7, <3>2, <3>3
    <3> QED
      BY <1>1, <1>3, <3>4, WorthByOne
  <2> QED
    BY <2>1, <2>2 DEF EdgeIsAPoint
<1> QED
  BY <1>1, <1>9 DEF NetValue

\* The stake of any number of contracts up to the size is within the share.
LEMMA StakeFits ==
  ASSUME NEW fair \in Fraction, NEW p \in 1..99, NEW n \in Nat \ {0},
         sizing.stake \in 0..100, n <= _size(fair, p)
  PROVE  100 * n * p <= IF sizing.stake > 0 THEN Capital * sizing.stake + 50 ELSE Capital * 5
<1>1. Capital \in Nat \ {0}
  BY ConsensusAssumption
<1>2. CASE sizing.stake > 0
  <2>1. PICK all \in Nat : all = Capital * sizing.stake
    BY <1>1
  <2>2. PICK cents \in Nat : cents = (all + 50) \div 100 /\ 100 * cents <= all + 50
    BY <2>1
  <2>3. n <= cents \div p
    BY <1>2, <2>1, <2>2 DEF _size, StakeCents
  <2>4. n * p <= cents
    BY <2>2, <2>3, QuotientFits
  <2>5. PICK u \in Nat : u = n * p
    OBVIOUS
  <2>6. 100 * n * p = 100 * u
    BY <2>5
  <2> QED
    BY <1>2, <2>1, <2>2, <2>4, <2>5, <2>6
<1>3. CASE sizing.stake = 0
  <2>1. PICK g \in Int, den \in Nat \ {0} : g = 100 * fair.num - fair.den * p /\ den = fair.den
    BY DEF Fraction
  <2>2. PICK odds \in Nat \ {0} : odds = 4 * den * (100 - p)
    <3>1. PICK k \in Nat \ {0} : k = 100 - p
      OBVIOUS
    <3>2. 4 * den * k \in Nat \ {0}
      BY <2>1, <3>1
    <3> QED
      BY <3>1, <3>2
  <2>3. _size(fair, p) = IF g <= 0 THEN 0
                         ELSE IF 20 * g > odds THEN (Capital * 5) \div (100 * p)
                         ELSE (g * Capital) \div (odds * p)
    BY <1>3, <2>1, <2>2 DEF _size, quarter_kelly_size
  <2>4. g > 0
    BY <2>1, <2>3
  <2>5. PICK u \in Nat : u = n * p
    OBVIOUS
  <2>6. 100 * n * p = 100 * u
    BY <2>5
  <2>7. 100 * u <= Capital * 5
    <3>1. CASE 20 * g > odds
      <4>1. n <= (Capital * 5) \div (100 * p)
        BY <2>1, <2>3, <2>4, <3>1
      <4>2. Capital * 5 \in Nat /\ 100 * p \in Nat \ {0}
        BY <1>1
      <4>3. n * (100 * p) <= Capital * 5
        BY <4>1, <4>2, QuotientFits
      <4> QED
        BY <1>1, <2>5, <4>3
    <3>2. CASE 20 * g <= odds
      <4>1. PICK a \in Nat, b \in Nat \ {0} : a = g * Capital /\ b = odds * p
        BY <1>1, <2>1, <2>2, <2>4
      <4>2. n <= a \div b
        BY <2>1, <2>2, <2>3, <2>4, <3>2, <4>1
      <4>3. n * b <= a
        BY <4>1, <4>2, QuotientFits
      <4>4. n * b = odds * u
        BY <2>2, <2>5, <4>1
      <4>5. PICK w \in Nat : w = odds * Capital
        BY <1>1, <2>2
      <4>6. 20 * a <= w
        <5>1. (odds - 20 * g) * Capital >= 0
          BY <1>1, <2>1, <2>2, <3>2
        <5> QED
          BY <1>1, <2>1, <2>2, <4>1, <4>5, <5>1
      <4>7. PICK e \in Int : e = Capital - 20 * u
        BY <1>1, <2>5
      <4>8. odds * e >= 0
        <5>1. PICK r \in Int : r = odds * u
          BY <2>2, <2>5
        <5>2. odds * e = w - 20 * r
          BY <1>1, <2>2, <2>5, <4>5, <4>7, <5>1
        <5> QED
          BY <4>1, <4>3, <4>4, <4>5, <4>6, <5>1, <5>2
      <4>9. e >= 0
        BY <2>2, <4>7, <4>8
      <4> QED
        BY <1>1, <2>5, <4>7, <4>9
    <3> QED
      BY <2>1, <2>2, <3>1, <3>2
  <2> QED
    BY <1>3, <2>6, <2>7
<1> QED
  BY <1>2, <1>3

\* What the poller says of the bet it proposes.
SignalSound(s) ==
  /\ s.event \in DOMAIN Events
  /\ s.sure => s.line = GameOf[s.event] /\ s.seen < Start(GameOf[s.event])
  /\ s.what.fair \in Fraction /\ s.what.price \in 1..99
  /\ EdgeOver(_net_edge_pct(s.what.fair, s.what.price), MinBetEdge)

BetInv ==
  /\ feed \subseteq DOMAIN Games
  /\ sizing \in [stake : StakePct, feeAtStake : FeeAtStake]
  /\ bets \in [DOMAIN Events -> Nat]
  /\ \A s \in signal : SignalSound(s)

\* The two sides of an outcome have its fair value and the rest of it.
LEMMA OutcomeSignals ==
  ASSUME NEW o, NEW fair \in [num : Nat, den : Nat \ {0}], NEW ask \in Quotes,
         NEW s \in _signals_for_outcome(o, fair, ask)
  PROVE  /\ s.fair \in Fraction /\ s.price \in 1..99
         /\ EdgeOver(_net_edge_pct(s.fair, s.price), MinBetEdge)
<1>1. ask \in [yes : 1..99, no : 1..99]
  BY ConsensusAssumption
<1>2. fair \in Fraction
  BY DEF Fraction
<1>3. Complement(fair) \in Fraction
  BY DEF Complement, Fraction
<1>4. s \in {[outcome |-> o, side |-> "yes", price |-> ask.yes, fair |-> fair],
            [outcome |-> o, side |-> "no",  price |-> ask.no,  fair |-> Complement(fair)]}
  BY DEF _signals_for_outcome
<1>5. s.fair \in {fair, Complement(fair)} /\ s.price \in {ask.yes, ask.no}
  BY <1>4
<1> QED
  BY <1>1, <1>2, <1>3, <1>5 DEF _signals_for_outcome

\* A cycle of the poller proposes sound bets.
LEMMA PollerIsSound ==
  ASSUME KeysTellTheGame, BetInv, NEW e \in DOMAIN Events, NEW panel \in Panels,
         NEW asks \in [Events[e].names -> Quotes], find_signals(e, panel, asks)
  PROVE  BetInv'
<1>0. PICK g \in _select_candidate(e), fairs \in _consensus_fair_probs(panel, Events[e].names) :
        \E s \in _collapse_event_signals(
                 UNION {_signals_for_outcome(o, fairs[o], asks[o]) : o \in Events[e].names}) :
          signal' = {[event |-> e, line |-> g, seen |-> hour, sure |-> Complete(e), what |-> s]}
  BY DEF find_signals
<1>1. PICK w \in _collapse_event_signals(
               UNION {_signals_for_outcome(o, fairs[o], asks[o]) : o \in Events[e].names}) :
        signal' = {[event |-> e, line |-> g, seen |-> hour, sure |-> Complete(e), what |-> w]}
  BY <1>0
<1>2. UNCHANGED <<hour, feed, sizing, bets>>
  BY DEF find_signals
<1>3. PICK o \in Events[e].names : w \in _signals_for_outcome(o, fairs[o], asks[o])
  BY DEF _collapse_event_signals
<1>4. fairs[o] \in [num : Nat, den : Nat \ {0}]
  BY FairIs
<1>5. asks[o] \in Quotes
  OBVIOUS
<1>6. /\ w.fair \in Fraction /\ w.price \in 1..99
      /\ EdgeOver(_net_edge_pct(w.fair, w.price), MinBetEdge)
  BY <1>3, <1>4, <1>5, OutcomeSignals
<1>7. Complete(e) => g = GameOf[e] /\ hour < Start(GameOf[e])
  <2>1. Start(g) > hour /\ (Complete(e) => g = GameOf[e])
    BY ChosenIsItsGame DEF BetInv
  <2> QED
    BY <2>1
<1>8. PICK t : t = [event |-> e, line |-> g, seen |-> hour, sure |-> Complete(e), what |-> w]
  OBVIOUS
<1>9. /\ t.event = e /\ t.line = g /\ t.seen = hour /\ t.sure = Complete(e) /\ t.what = w
  BY <1>8
<1>10. SignalSound(t)
  BY <1>6, <1>7, <1>9 DEF SignalSound
<1>11. SignalSound(t)'
  <2>1. /\ EdgeOver(_net_edge_pct(w.fair, w.price), MinBetEdge)
        <=> EdgeOver(_net_edge_pct(w.fair, w.price), MinBetEdge)'
    BY <1>2 DEF EdgeOver, _net_edge_pct, _stake_count, StakeCents, NetValue
  <2> QED
    BY <1>9, <1>10, <2>1 DEF SignalSound, Start
<1> QED
  BY <1>1, <1>2, <1>8, <1>11 DEF BetInv

\* There is no bet at the start.
LEMMA BetStarts == ConsensusInit => BetInv
  BY DEF ConsensusInit, BetInv

\* No step leaves an unsound bet on its way.
LEMMA BetStep ==
  ASSUME KeysTellTheGame, BetInv, [ConsensusNext]_betVars
  PROVE  BetInv'
<1>1. CASE UNCHANGED sizing /\ signal' \subseteq signal /\ feed' \subseteq DOMAIN Games
           /\ bets' \in [DOMAIN Events -> Nat]
  <2>1. UNCHANGED sizing
    BY <1>1
  <2>2. \A s \in signal' : SignalSound(s)
    BY <1>1 DEF BetInv
  <2>3. \A s \in signal' : SignalSound(s)'
    <3> SUFFICES ASSUME NEW s \in signal' PROVE SignalSound(s)'
      OBVIOUS
    <3>1. EdgeOver(_net_edge_pct(s.what.fair, s.what.price), MinBetEdge)
          <=> EdgeOver(_net_edge_pct(s.what.fair, s.what.price), MinBetEdge)'
      BY <2>1 DEF EdgeOver, _net_edge_pct, _stake_count, StakeCents, NetValue
    <3> QED
      BY <2>2, <3>1 DEF SignalSound, Start
  <2> QED
    BY <1>1, <2>3 DEF BetInv
<1>2. CASE UNCHANGED betVars
  BY <1>2, <1>1 DEF betVars, BetInv
<1>3. ASSUME NEW e \in DOMAIN Events, NEW panel \in Panels,
             NEW asks \in [Events[e].names -> Quotes], find_signals(e, panel, asks)
      PROVE  BetInv'
  BY <1>3, PollerIsSound
<1>4. ASSUME NEW s \in signal, NEW ask \in Prices, NEW depth \in Depths,
             NEW n \in 1.._size(s.what.fair, s.what.price), execute(s, ask, depth, n)
      PROVE  BetInv'
  <2>1. n \in Nat
    BY <1>4 DEF execute
  <2>2. bets' \in [DOMAIN Events -> Nat]
    BY <1>4, <2>1 DEF execute, BetInv
  <2> QED
    BY <1>1, <1>4, <2>2 DEF execute, BetInv
<1>5. CASE Passed_over
  BY <1>1, <1>5 DEF Passed_over, BetInv
<1>6. ASSUME NEW e \in DOMAIN Events, Settled(e)
      PROVE  BetInv'
  BY <1>1, <1>6 DEF Settled, BetInv
<1>7. ASSUME NEW listed \in SUBSET DOMAIN Games, FeedLists(listed)
      PROVE  BetInv'
  BY <1>1, <1>7 DEF FeedLists, BetInv
<1>8. ASSUME NEW g \in DOMAIN Games, Later(g)
      PROVE  BetInv'
  BY <1>1, <1>8 DEF Later, BetInv
<1> QED
  BY <1>2, <1>3, <1>4, <1>5, <1>6, <1>7, <1>8 DEF ConsensusNext

\* The bet of a signal, in a state where every signal is sound.
BetPays(s) ==
  /\ s.sure => s.line = GameOf[s.event] /\ s.seen < Start(GameOf[s.event])
  /\ NetValue(s.what.fair, s.what.price, bets'[s.event]) > 0
  /\ 100 * bets'[s.event] * s.what.price <=
       IF sizing.stake > 0 THEN Capital * sizing.stake + 50 ELSE Capital * 5

\* Only the executor adds to a bet, and it buys what the signal is worth.
LEMMA OnlyExecutorBets ==
  ASSUME EdgeIsAPoint, BetInv, ConsensusNext, NEW s \in signal,
         bets'[s.event] > bets[s.event]
  PROVE  BetPays(s)
<1>1. SignalSound(s) /\ s.event \in DOMAIN Events /\ bets[s.event] \in Nat
  BY DEF BetInv, SignalSound
<1>2. bets' # bets
  BY <1>1
<1>3. ~ \E e \in DOMAIN Events : Settled(e)
  <2> SUFFICES ASSUME NEW e \in DOMAIN Events, Settled(e) PROVE FALSE
    OBVIOUS
  <2>1. bets' = [bets EXCEPT ![e] = 0]
    BY DEF Settled
  <2>2. bets'[s.event] \in {0, bets[s.event]}
    BY <1>1, <2>1 DEF BetInv
  <2> QED
    BY <1>1, <2>2
<1>4. PICK r \in signal, ask \in Prices, depth \in Depths :
        \E n \in 1.._size(r.what.fair, r.what.price) : execute(r, ask, depth, n)
  BY <1>2, <1>3 DEF ConsensusNext, find_signals, Passed_over, FeedLists, Later
<1>5. PICK n \in 1.._size(r.what.fair, r.what.price) : execute(r, ask, depth, n)
  BY <1>4
<1>6. r = s
  BY <1>5 DEF execute
<1>7. bets'[s.event] = n
  BY <1>1, <1>5, <1>6 DEF execute, BetInv
<1>8. /\ s.what.fair \in Fraction /\ s.what.price \in 1..99
      /\ EdgeOver(_net_edge_pct(s.what.fair, s.what.price), MinBetEdge)
  BY <1>1 DEF SignalSound
<1>9. sizing.stake \in 0..100 /\ sizing.feeAtStake \in FeeAtStake
  BY ConsensusAssumption DEF BetInv
<1>10. n \in Nat \ {0}
  BY <1>5
<1>11. n <= _size(s.what.fair, s.what.price)
  BY <1>5, <1>6
<1>12. NetValue(s.what.fair, s.what.price, n) > 0
  BY <1>8, <1>9, <1>10, BetIsWorth
<1>13. 100 * n * s.what.price <= IF sizing.stake > 0 THEN Capital * sizing.stake + 50 ELSE Capital * 5
  BY <1>8, <1>9, <1>10, <1>11, StakeFits
<1> QED
  BY <1>1, <1>7, <1>12, <1>13 DEF BetPays, SignalSound

\* Every bet of Motor 2 is priced with the line of its own game before it began, if all
\* games it could be taken for were listed; the contracts really bought are expected to
\* gain; and the stake is within its share of the capital (detector.py, executor.py):
\* if Kalshi's keys tell their games, and the edge asked for is at least a point or the
\* fee is counted by the contract.
THEOREM BetAlwaysSound == KeysTellTheGame /\ EdgeIsAPoint /\ ConsensusSpec => BetIsSound
<1> SUFFICES ASSUME KeysTellTheGame, EdgeIsAPoint
             PROVE  ConsensusSpec => BetIsSound
  OBVIOUS
<1>1. KeysTellTheGame /\ BetInv /\ [ConsensusNext]_betVars => BetInv'
  BY BetStep
<1>2. EdgeIsAPoint /\ BetInv /\ [ConsensusNext]_betVars =>
        [\A s \in signal : bets'[s.event] > bets[s.event] =>
           /\ s.sure => s.line = GameOf[s.event] /\ s.seen < Start(GameOf[s.event])
           /\ NetValue(s.what.fair, s.what.price, bets'[s.event]) > 0
           /\ 100 * bets'[s.event] * s.what.price <=
                IF sizing.stake > 0 THEN Capital * sizing.stake + 50 ELSE Capital * 5]_betVars
  BY OnlyExecutorBets DEF BetPays
<1>3. BetInv /\ [ConsensusNext]_betVars => BetInv'
  BY <1>1
<1> QED
  BY <1>2, <1>3, BetStarts, PTL DEF ConsensusSpec, BetIsSound
=============================================================================
