--------------------------- MODULE RiskGateProofs ---------------------------
(***************************************************************************)
(* Proofs about RiskGate, for every price, fee, limit, balance and set of  *)
(* profiles: the bound on the exposure, the budget of the day, the drift   *)
(* of the capital and the latch of a fatal loss.                           *)
(*                                                                         *)
(* The exposure and the budget are sums over the rows.  A step changes the *)
(* rows of one attempt, so each sum changes by what those rows show; what  *)
(* is approved and not written yet is a pledge, and what an approval adds  *)
(* to the pledges is what its rows add to the sum later.                   *)
(***************************************************************************)
EXTENDS RiskGate, Sums

-----------------------------------------------------------------------------
(* The types *)

\* A percentage of an amount is an amount, rounded down.
LEMMA PercentType ==
  ASSUME NEW x \in Nat, NEW p \in Nat
  PROVE  Percent(x, p) \in Nat
<1>1. x * p \in Nat
  OBVIOUS
<1> QED BY <1>1 DEF Percent

\* The settings a step reads are of their types, and stay.
LEMMA ProfileTyped ==
  ASSUME TypeOK
  PROVE  /\ prof.active \in Nat /\ prof.cap \in Nat /\ prof.floor \in Nat /\ prof.safety \in Nat
         /\ prof.smoothing \in Nat /\ prof.exposure \in Nat /\ prof.trade \in Nat
         /\ prof.tradeMax \in Nat /\ prof.offer \in 1..MaxCount
         /\ prof.slots \in [Motors -> 0..MaxSlots]
         /\ prof.experiment \in BOOLEAN /\ prof.dynamic \in BOOLEAN
         /\ prof \in ProfileType
  BY ProfilesAssumption DEF TypeOK, ProfileType

\* The capital and the limits taken from it are amounts (limits_for_capital).
LEMMA CapitalType ==
  ASSUME TypeOK
  PROVE  Capital \in Nat /\ Unit \in Nat /\ Aggregate \in Nat /\ ExposureCap \in Nat
<1> USE BoundsAssumption
<1>1. ASSUME NEW c \in Nat PROVE Usable(c) \in Nat
  <2>1. Percent(c, prof.safety) \in Nat /\ prof.cap \in Nat
    BY PercentType, ProfileTyped
  <2> QED BY <2>1, MinOfTwo DEF Usable
<1>2. Capital \in Nat
  <2>1. CASE ~prof.dynamic
    BY <2>1, ProfileTyped DEF Capital
  <2>2. CASE prof.dynamic
    <3> DEFINE c == IF cached = None THEN prof.active ELSE Max({Usable(cached), prof.floor})
    <3>1. c \in Nat
      <4>1. CASE cached = None
        BY <4>1, ProfileTyped
      <4>2. CASE cached # None
        <5>1. Usable(cached) \in Nat /\ prof.floor \in Nat
          BY <1>1, <4>2, ProfileTyped DEF TypeOK
        <5> QED BY <4>2, <5>1, MaxOfTwo
      <4> QED BY <4>1, <4>2
    <3>2. Capital = Min({HardCap, c})
      BY <2>2 DEF Capital
    <3> HIDE DEF c
    <3> QED BY <3>1, <3>2, MinOfTwo
  <2> QED BY <2>1, <2>2
<1>3. Unit \in Nat
  <2>1. Percent(Capital, UnitPct) \in Nat
    BY <1>2, PercentType
  <2> QED BY <2>1, MinOfTwo DEF Unit
<1>4. Aggregate \in Nat
  BY <1>3 DEF Aggregate
<1>5. ExposureCap \in Nat
  <2>1. Percent(Capital, prof.exposure) \in Nat
    BY <1>2, PercentType, ProfileTyped
  <2> QED BY <1>4, <2>1, MinOfTwo DEF ExposureCap
<1> QED BY <1>2, <1>3, <1>4, <1>5

\* The sums of the gate are over finite sets of rows.
LEMMA FiniteRows ==
  /\ IsFiniteSet(Keys) /\ IsFiniteSet(Arbs) /\ IsFiniteSet(Arbs \X Slots)
  /\ Keys \subseteq Motors \X Slots \X {1, 2}
<1>1. IsFiniteSet(Arbs) /\ IsFiniteSet(Singles) /\ IsFiniteSet({1, 2})
  BY SmallSets DEF Arbs, Singles
<1>2. IsFiniteSet(Motors)
  BY <1>1, FS_Union DEF Motors
<1>3. IsFiniteSet(Slots)
  BY FS_Interval, BoundsAssumption DEF Slots
<1>4. IsFiniteSet(Arbs \X Slots) /\ IsFiniteSet(Motors \X Slots)
  BY <1>1, <1>2, <1>3, FS_Product
<1>5. IsFiniteSet(Motors \X Slots \X {1, 2})
  <2>1. IsFiniteSet((Motors \X Slots) \X {1, 2})
    BY <1>1, <1>4, FS_Product
  <2> DEFINE f == [t \in (Motors \X Slots) \X {1, 2} |-> <<t[1][1], t[1][2], t[2]>>]
  <2>2. f \in Surjection((Motors \X Slots) \X {1, 2}, Motors \X Slots \X {1, 2})
    <3>1. \A t \in Motors \X Slots \X {1, 2} :
            /\ <<<<t[1], t[2]>>, t[3]>> \in (Motors \X Slots) \X {1, 2}
            /\ f[<<<<t[1], t[2]>>, t[3]>>] = t
      OBVIOUS
    <3>2. f \in [(Motors \X Slots) \X {1, 2} -> Motors \X Slots \X {1, 2}]
      OBVIOUS
    <3> HIDE DEF f
    <3> QED BY <3>1, <3>2 DEF Surjection
  <2> HIDE DEF f
  <2> QED BY <2>1, <2>2, FS_Surjection
<1>6. Keys \subseteq Motors \X Slots \X {1, 2}
  BY DEF Keys
<1> QED BY <1>1, <1>4, <1>5, <1>6, FS_Subset

\* A row is a leg of an attempt of a motor.
LEMMA KeysTyped ==
  /\ \A k \in Keys : k[1] \in Motors /\ k[2] \in Slots /\ k[3] \in {1, 2} /\ k = <<k[1], k[2], k[3]>>
  /\ \A m \in Motors, i \in Slots : <<m, i, 1>> \in Keys
  /\ \A m \in Arbs, i \in Slots : <<m, i, 1>> \in Keys /\ <<m, i, 2>> \in Keys
  /\ \A m \in Singles, i \in Slots : <<m, i, 2>> \notin Keys
<1>1. Arbs \cap Singles = {} /\ Arbs \subseteq Motors /\ Singles \subseteq Motors
  BY DEF Arbs, Singles, Motors
<1> QED BY <1>1 DEF Keys, Legs

\* A contract of an arbitrage has two legs, one of another motor a single one.
LEMMA UnitCosts ==
  /\ \A m \in Arbs : Cardinality(Legs(m)) = 2 /\ UnitCost(m) = 2 * Price[m]
  /\ \A m \in Singles : Cardinality(Legs(m)) = 1 /\ UnitCost(m) = 1 * Price[m]
<1>1. Arbs \cap Singles = {}
  BY DEF Arbs, Singles
<1>2. Cardinality({1}) = 1 /\ IsFiniteSet({1})
  BY FS_Singleton
<1>3. Cardinality({1} \cup {2}) = Cardinality({1}) + 1
  <2>1. 2 \notin {1}
    OBVIOUS
  <2> QED BY <1>2, <2>1, FS_AddElement
<1>4. {1} \cup {2} = {1, 2}
  OBVIOUS
<1> QED BY <1>1, <1>2, <1>3, <1>4 DEF UnitCost, Legs

\* What a row costs, commits and placed today is an amount.
LEMMA CostType ==
  ASSUME TypeOK, NEW k \in Keys
  PROVE  Costs(k) \in Nat /\ Spent(k) \in Nat /\ PlacedToday(k) \in Nat
<1>1. k[1] \in Motors /\ row[k].n \in Nat /\ Price[k[1]] \in Nat /\ Fee \in Nat
  BY KeysTyped, BoundsAssumption DEF TypeOK
<1>2. Price[k[1]] * row[k].n \in Nat /\ (Price[k[1]] + Fee) * row[k].n \in Nat
  BY <1>1
<1> QED BY <1>2 DEF Costs, Spent, PlacedToday

\* The pair of an attempt, without the minimum.
LEMMA PairType ==
  ASSUME TypeOK, NEW m \in Arbs, NEW i \in Slots
  PROVE  LET a == row[<<m, i, 1>>]
             b == row[<<m, i, 2>>]
         IN  /\ a.n \in Nat /\ b.n \in Nat
             /\ Pair(m, i) = IF a.st = "filled" /\ b.st = "filled"
                             THEN IF a.n <= b.n THEN a.n ELSE b.n
                             ELSE 0
             /\ Price[m] \in Nat
             /\ Discount(m, i) = 2 * (Price[m] * Pair(m, i))
             /\ Discount(m, i) \in Nat
<1> DEFINE a == row[<<m, i, 1>>]
           b == row[<<m, i, 2>>]
<1>1. a.n \in Nat /\ b.n \in Nat
  BY KeysTyped, BoundsAssumption DEF TypeOK
<1>2. {row[<<m, i, l>>].n : l \in {1, 2}} = {a.n, b.n}
  OBVIOUS
<1>3. (\A l \in {1, 2} : row[<<m, i, l>>].st = "filled") <=> a.st = "filled" /\ b.st = "filled"
  OBVIOUS
<1>4. Pair(m, i) = IF a.st = "filled" /\ b.st = "filled" THEN Min({a.n, b.n}) ELSE 0
  BY <1>2, <1>3 DEF Pair
<1>5. Min({a.n, b.n}) = IF a.n <= b.n THEN a.n ELSE b.n
  BY <1>1, MinOfTwo
<1>6. Price[m] \in Nat /\ Pair(m, i) \in Nat
  <2>1. m \in Motors
    BY DEF Motors
  <2> QED BY <1>1, <1>4, <1>5, <2>1, BoundsAssumption
<1>7. Price[m] * Pair(m, i) \in Nat
  BY <1>6
<1>8. \A p, q \in Nat : 2 * p * q = 2 * (p * q)
  OBVIOUS
<1>9. Discount(m, i) = 2 * (Price[m] * Pair(m, i))
  BY <1>6, <1>8 DEF Discount
<1> QED BY <1>1, <1>4, <1>5, <1>6, <1>7, <1>9

CostOf     == [k \in Keys |-> Costs(k)]
DiscountOf == [g \in Arbs \X Slots |-> Discount(g[1], g[2])]
SpentOf    == [k \in Keys |-> Spent(k)]

\* The totals of the gate are amounts, and are sums over the rows.
LEMMA TotalsType ==
  ASSUME TypeOK
  PROVE  /\ SumFunctionOnSet(CostOf, Keys) \in Nat
         /\ SumFunctionOnSet(DiscountOf, Arbs \X Slots) \in Nat
         /\ Committed = SumFunctionOnSet(SpentOf, Keys) /\ Committed \in Nat
         /\ Exposure = Max({0, SumFunctionOnSet(CostOf, Keys) - SumFunctionOnSet(DiscountOf, Arbs \X Slots)})
         /\ Exposure \in Nat
<1>1. \A k \in Keys : CostOf[k] \in Nat /\ SpentOf[k] \in Nat
  BY CostType DEF CostOf, SpentOf
<1>2. \A g \in Arbs \X Slots : DiscountOf[g] \in Nat
  BY PairType DEF DiscountOf
<1>3. /\ SumFunctionOnSet(CostOf, Keys) \in Nat
      /\ SumFunctionOnSet(DiscountOf, Arbs \X Slots) \in Nat
      /\ SumFunctionOnSet(SpentOf, Keys) \in Nat
  BY <1>1, <1>2, SumNat, FiniteRows
<1>4. Committed = SumFunctionOnSet(SpentOf, Keys)
  BY DEF Committed, SpentOf, SumFunction
<1>5. Exposure = Max({0, SumFunctionOnSet(CostOf, Keys) - SumFunctionOnSet(DiscountOf, Arbs \X Slots)})
  BY DEF Exposure, CostOf, DiscountOf, SumFunction
<1>6. Exposure \in Nat
  BY <1>3, <1>5, MaxOfTwo
<1> QED BY <1>3, <1>4, <1>5, <1>6

\* What the sizing allows is inside the cap on the exposure, the cap of a trade and,
\* in the experiment, the budget of the day.
LEMMA AllowedFits ==
  ASSUME TypeOK, NEW m \in Motors
  PROVE  /\ Allowed(m) \in 0..MaxCount
         /\ Allowed(m) > 0 =>
              /\ UnitCost(m) * Allowed(m) \in Nat
              /\ Exposure + UnitCost(m) * Allowed(m) <= ExposureCap
              /\ UnitCost(m) * Allowed(m) <= prof.tradeMax
              /\ prof.experiment =>
                   Committed + (UnitCost(m) + Cardinality(Legs(m)) * Fee) * Allowed(m) <= Aggregate
<1> DEFINE left   == ExposureCap - Exposure
           budget == IF prof.experiment THEN {Max({0, Aggregate - Committed})} ELSE {}
           own    == IF prof.experiment THEN {Unit} ELSE {}
           usable == Min({TradeCap, left} \union budget)
           c      == Cardinality(Legs(m))
           d      == UnitCost(m) + c * Fee
<1>1. ExposureCap \in Nat /\ Exposure \in Nat /\ Aggregate \in Nat /\ Committed \in Nat /\ Unit \in Nat
  BY CapitalType, TotalsType
<1>2. c \in 1..2 /\ UnitCost(m) \in Nat /\ UnitCost(m) > 0 /\ Fee \in Nat
  <2>1. m \in Arbs \/ m \in Singles
    BY DEF Motors
  <2>2. Price[m] \in Nat /\ Price[m] > 0
    BY BoundsAssumption
  <2> QED BY <2>1, <2>2, UnitCosts, BoundsAssumption
<1>3. d \in Nat /\ d > 0
  <2>1. c * Fee \in Nat
    BY <1>2
  <2> HIDE DEF c
  <2> QED BY <1>2, <2>1
<1>4. TradeCap \in Nat /\ TradeCap <= prof.tradeMax
  <2>1. Percent(Capital, prof.trade) \in Nat /\ prof.tradeMax \in Nat
    BY CapitalType, PercentType, ProfileTyped
  <2>2. IsFiniteSet({Percent(Capital, prof.trade), prof.tradeMax} \union own)
    BY SmallSets, FS_Union, FS_EmptySet
  <2>3. {Percent(Capital, prof.trade), prof.tradeMax} \union own \subseteq Nat
    BY <1>1, <2>1
  <2>4. TradeCap = Min({Percent(Capital, prof.trade), prof.tradeMax} \union own)
    BY DEF TradeCap
  <2> HIDE DEF own
  <2> QED BY <2>2, <2>3, <2>4, MinOfSet
<1>5. /\ usable \in Int /\ usable <= left /\ usable <= TradeCap
      /\ prof.experiment => usable <= Max({0, Aggregate - Committed})
      /\ left >= 0 => usable >= 0
  <2>1. Max({0, Aggregate - Committed}) \in Nat
    BY <1>1, MaxOfTwo
  <2>2. IsFiniteSet({TradeCap, left} \union budget)
    BY SmallSets, FS_Union, FS_EmptySet
  <2>3. {TradeCap, left} \union budget \subseteq Int
    BY <1>1, <1>4, <2>1
  <2>4. usable \in {TradeCap, left} \union budget /\ \A z \in {TradeCap, left} \union budget : usable <= z
    <3> HIDE DEF left, budget
    <3> QED BY <2>2, <2>3, MinOfSet
  <2>5. prof.experiment => Max({0, Aggregate - Committed}) \in budget
    OBVIOUS
  <2>6. \A z \in budget : z \in Nat
    BY <2>1
  <2> HIDE DEF left, budget, usable
  <2> QED BY <1>4, <2>3, <2>4, <2>5, <2>6
<1>6. CASE left <= 0
  BY <1>6, BoundsAssumption DEF Allowed
<1>7. CASE left > 0
  <2> DEFINE q == usable \div d
  <2>1. Allowed(m) = Min({prof.offer, q})
    <3>1. ~(ExposureCap - Exposure <= 0)
      BY <1>1, <1>7
    <3> QED BY <3>1 DEF Allowed
  <2>2. q \in Nat /\ d * q <= usable
    <3>1. left >= 0
      BY <1>1, <1>7
    <3> HIDE DEF usable, d, left
    <3> QED BY <1>3, <1>5, <3>1, DivisionFits
  <2>3. Allowed(m) \in Nat /\ Allowed(m) <= prof.offer /\ Allowed(m) <= q
    <3> HIDE DEF q
    <3> QED BY <2>1, <2>2, MinOfTwo, ProfileTyped
  <2>4. Allowed(m) \in 0..MaxCount
    BY <2>3, ProfileTyped, BoundsAssumption
  <2>5. d * Allowed(m) <= usable /\ d * Allowed(m) \in Int
    <3>1. d * Allowed(m) \in Nat /\ d * Allowed(m) <= d * q /\ d * q \in Nat
      <4> HIDE DEF d, q
      <4> QED BY <1>3, <2>2, <2>3, ProductGrows
    <3> HIDE DEF d, q, usable
    <3> QED BY <1>5, <2>2, <3>1
  <2>6. UnitCost(m) * Allowed(m) <= d * Allowed(m) /\ UnitCost(m) * Allowed(m) \in Nat
    <3>1. \A u, f, n \in Nat : (u + f) * n = u * n + f * n /\ u * n \in Nat /\ f * n \in Nat
      OBVIOUS
    <3>2. c * Fee \in Nat
      BY <1>2
    <3> HIDE DEF c
    <3> QED BY <1>2, <2>3, <3>1, <3>2
  <2>7. prof.experiment => Committed + d * Allowed(m) <= Aggregate \/ Allowed(m) = 0
    <3> SUFFICES ASSUME prof.experiment, Allowed(m) # 0
                 PROVE  Committed + d * Allowed(m) <= Aggregate
      OBVIOUS
    <3>1. usable <= Max({0, Aggregate - Committed})
      BY <1>5
    <3>2. d * Allowed(m) > 0
      <4>1. \A n \in Nat : n > 0 => n * Allowed(m) > 0
        BY <2>3
      <4> HIDE DEF d
      <4> QED BY <1>3, <4>1
    <3> HIDE DEF d, usable
    <3> QED BY <1>1, <1>5, <2>5, <3>1, <3>2, MaxOfTwo
  <2> HIDE DEF d, usable
  <2>8. d * Allowed(m) <= left /\ d * Allowed(m) <= TradeCap
    BY <1>1, <1>4, <1>5, <2>5
  <2>9. /\ Exposure + UnitCost(m) * Allowed(m) <= ExposureCap
        /\ UnitCost(m) * Allowed(m) <= prof.tradeMax
    BY <1>1, <1>4, <2>5, <2>6, <2>8, ProfileTyped
  <2> QED BY <2>4, <2>6, <2>7, <2>9 DEF d
<1> HIDE DEF left
<1>8. left \in Int
  BY <1>1 DEF left
<1> QED BY <1>6, <1>7, <1>8

\* Writing the rows of an attempt keeps their types.
LEMMA WritesTyped ==
  ASSUME TypeOK, NEW m \in Motors, NEW n \in 0..MaxCount, used[m] < prof.slots[m], Writes(m, n)
  PROVE  /\ row' \in [Keys -> [st : Statuses, n : 0..MaxCount, today : BOOLEAN]]
         /\ used' \in [Motors -> 0..MaxSlots]
<1>1. Intent(n) \in [st : Statuses, n : 0..MaxCount, today : BOOLEAN]
  BY DEF Intent, Statuses
<1>2. used[m] + 1 \in 0..MaxSlots
  BY ProfileTyped, BoundsAssumption DEF TypeOK
<1> QED BY <1>1, <1>2 DEF Writes, TypeOK

\* A row that becomes something else leaves every other row as it was.
LEMMA BecomesTyped ==
  ASSUME TypeOK, NEW k \in Keys, NEW st \in Statuses, NEW n \in 0..MaxCount, Becomes(k, st, n)
  PROVE  /\ row' \in [Keys -> [st : Statuses, n : 0..MaxCount, today : BOOLEAN]]
         /\ row'[k].st = st /\ row'[k].n = n /\ row'[k].today = row[k].today
         /\ \A j \in Keys \ {k} : row'[j] = row[j]
         /\ UNCHANGED <<prof, used, ks, pause, capital, grant, live, restarts, basis, breached>>
<1> DEFINE r == [row[k] EXCEPT !.st = st, !.n = n]
<1>1. row[k] \in [st : Statuses, n : 0..MaxCount, today : BOOLEAN]
  BY DEF TypeOK
<1>2. /\ r \in [st : Statuses, n : 0..MaxCount, today : BOOLEAN]
      /\ r.st = st /\ r.n = n /\ r.today = row[k].today
  BY <1>1
<1>3. row' = [row EXCEPT ![k] = r]
  BY DEF Becomes
<1> HIDE DEF r
<1> QED BY <1>2, <1>3 DEF Becomes, TypeOK

\* A motor that may start an attempt has one left, and what it may write.
Granted ==
  \A m \in Arbs : grant[m] > 0 => m \notin live /\ used[m] < prof.slots[m]

\* Types under the entries, what becomes of them, and the rest.
LEMMA EntriesTyped ==
  ASSUME TypeOK, Granted, Entries
  PROVE  TypeOK' /\ Granted'
<1> USE DEF ledger, capital
<1>a. Arbs \subseteq Motors /\ "m2" \in Motors /\ "m5" \in Motors /\ "m2" \notin Arbs /\ "m5" \notin Arbs
  BY DEF Arbs, Singles, Motors
<1>b. [cap |-> ExposureCap, day |-> Aggregate] \in [cap : Int, day : Int]
  BY CapitalType
<1>1. ASSUME NEW m \in Motors, Refuse(m) PROVE TypeOK' /\ Granted'
  <2>1. pause' \in BOOLEAN /\ ks' \in BOOLEAN /\ breached' \in BOOLEAN
    BY <1>1 DEF Refuse, Checked, TypeOK
  <2>2. UNCHANGED <<prof, row, used, pnl, capital, grant, live, restarts, basis>>
    BY <1>1 DEF Refuse
  <2> QED BY <2>1, <2>2 DEF TypeOK, Granted
<1>2. ASSUME NEW m \in Arbs, Grant(m) PROVE TypeOK' /\ Granted'
  <2>1. pause' \in BOOLEAN /\ ks' \in BOOLEAN /\ breached' \in BOOLEAN
    BY <1>2 DEF Grant, Checked, TypeOK
  <2>2. /\ grant' = [grant EXCEPT ![m] = Allowed(m)] /\ Allowed(m) \in 0..MaxCount
        /\ basis' = [cap |-> ExposureCap, day |-> Aggregate]
        /\ m \notin live /\ used[m] < prof.slots[m]
        /\ UNCHANGED <<prof, row, used, pnl, capital, live, restarts>>
    BY <1>2, <1>a, AllowedFits DEF Grant, Approval, Wants
  <2>3. grant' \in [Arbs -> 0..MaxCount]
    BY <2>2 DEF TypeOK
  <2>4. Granted'
    BY <2>2 DEF TypeOK, Granted
  <2> QED BY <1>b, <2>1, <2>2, <2>3, <2>4 DEF TypeOK
<1>3. ASSUME NEW m \in Arbs, Drop(m) PROVE TypeOK' /\ Granted'
  <2>1. grant' = [grant EXCEPT ![m] = 0] /\ 0 \in 0..MaxCount
    BY <1>3, BoundsAssumption DEF Drop
  <2>2. UNCHANGED <<prof, ledger, pause, capital, live, restarts, basis, breached>>
    BY <1>3 DEF Drop
  <2> QED BY <2>1, <2>2 DEF TypeOK, Granted
<1>4. ASSUME NEW m \in Arbs, Write(m) PROVE TypeOK' /\ Granted'
  <2>1. /\ grant[m] > 0 /\ grant[m] \in 0..MaxCount /\ 0 \in 0..MaxCount
        /\ grant' = [grant EXCEPT ![m] = 0]
        /\ live' = live \union {m}
        /\ used' = [used EXCEPT ![m] = @ + 1]
        /\ UNCHANGED <<prof, pnl, ks, pause, capital, restarts, basis, breached>>
    BY <1>4, BoundsAssumption DEF Write, Writes, TypeOK
  <2>2. /\ row' \in [Keys -> [st : Statuses, n : 0..MaxCount, today : BOOLEAN]]
        /\ used' \in [Motors -> 0..MaxSlots]
    BY <1>4, <1>a, <2>1, WritesTyped DEF Write, Granted
  <2>3. Granted'
    BY <2>1, <1>a DEF TypeOK, Granted
  <2> QED BY <2>1, <2>2, <2>3 DEF TypeOK
<1>5. ASSUME NEW m \in Arbs, AttemptEnds(m) PROVE TypeOK' /\ Granted'
  BY <1>5 DEF AttemptEnds, TypeOK, Granted
<1>6. CASE Reserve
  <2>1. pause' \in BOOLEAN /\ ks' \in BOOLEAN /\ breached' \in BOOLEAN
    BY <1>6 DEF Reserve, Checked, TypeOK
  <2>2. /\ Writes("m2", Reserved) /\ Reserved \in 0..MaxCount /\ used["m2"] < prof.slots["m2"]
        /\ basis' = [cap |-> ExposureCap, day |-> Aggregate]
        /\ UNCHANGED <<prof, pnl, capital, grant, live, restarts>>
    BY <1>6, <1>a, AllowedFits DEF Reserve, Reserved, Approval, Wants
  <2>3. /\ row' \in [Keys -> [st : Statuses, n : 0..MaxCount, today : BOOLEAN]]
        /\ used' \in [Motors -> 0..MaxSlots]
    BY <1>a, <2>2, WritesTyped
  <2>4. \A m \in Arbs : used'[m] = used[m]
    BY <1>a, <2>2 DEF Writes, TypeOK
  <2> QED BY <1>b, <2>1, <2>2, <2>3, <2>4 DEF TypeOK, Granted
<1>7. ASSUME NEW n \in 1..MaxCount, Quote(n) PROVE TypeOK' /\ Granted'
  <2>2. /\ Writes("m5", n) /\ n \in 0..MaxCount /\ used["m5"] < prof.slots["m5"]
        /\ basis' = [cap |-> ExposureCap, day |-> Aggregate]
        /\ UNCHANGED <<prof, pnl, ks, pause, capital, grant, live, restarts, breached>>
    BY <1>7, <1>a DEF Quote, Approval, Wants
  <2>3. /\ row' \in [Keys -> [st : Statuses, n : 0..MaxCount, today : BOOLEAN]]
        /\ used' \in [Motors -> 0..MaxSlots]
    BY <1>a, <2>2, WritesTyped
  <2>4. \A m \in Arbs : used'[m] = used[m]
    BY <1>a, <2>2 DEF Writes, TypeOK
  <2> QED BY <1>b, <2>2, <2>3, <2>4 DEF TypeOK, Granted
<1> QED BY <1>1, <1>2, <1>3, <1>4, <1>5, <1>6, <1>7 DEF Entries

\* What an outcome leaves alone, and what it writes.
LEMMA OutcomesTyped ==
  ASSUME TypeOK, Granted, Outcomes
  PROVE  TypeOK' /\ Granted'
<1>1. SUFFICES /\ row' \in [Keys -> [st : Statuses, n : 0..MaxCount, today : BOOLEAN]]
               /\ pnl' \in [Windows -> Int]
               /\ UNCHANGED <<prof, used, ks, pause, capital, grant, live, restarts, basis, breached>>
  BY DEF TypeOK, Granted, capital
<1>2. ASSUME NEW p \in Int, Realizes(p) PROVE pnl' \in [Windows -> Int]
  BY <1>2 DEF Realizes, TypeOK
<1>s. "filled" \in Statuses /\ "cancelled" \in Statuses /\ "settled" \in Statuses
  BY DEF Statuses
<1>n. \A k \in Keys : row[k].n \in 0..MaxCount /\ row[k] \in [st : Statuses, n : 0..MaxCount, today : BOOLEAN]
  BY DEF TypeOK
<1>3. ASSUME NEW k \in Keys, NEW n \in 1..MaxCount, Fills(k, n)
      PROVE  /\ row' \in [Keys -> [st : Statuses, n : 0..MaxCount, today : BOOLEAN]]
             /\ pnl' \in [Windows -> Int]
             /\ UNCHANGED <<prof, used, ks, pause, capital, grant, live, restarts, basis, breached>>
  <2>1. Becomes(k, "filled", n) /\ n \in 0..MaxCount /\ UNCHANGED pnl
    BY <1>3 DEF Fills
  <2>2. pnl \in [Windows -> Int]
    BY DEF TypeOK
  <2> QED BY <1>s, <2>1, <2>2, BecomesTyped
<1>4. ASSUME NEW k \in Keys, Kills(k)
      PROVE  /\ row' \in [Keys -> [st : Statuses, n : 0..MaxCount, today : BOOLEAN]]
             /\ pnl' \in [Windows -> Int]
             /\ UNCHANGED <<prof, used, ks, pause, capital, grant, live, restarts, basis, breached>>
  <2>1. Becomes(k, "cancelled", row[k].n) /\ UNCHANGED pnl
    BY <1>4 DEF Kills
  <2>2. pnl \in [Windows -> Int]
    BY DEF TypeOK
  <2> QED BY <1>n, <1>s, <2>1, <2>2, BecomesTyped
<1>5. ASSUME NEW k \in Keys, SellsBack(k)
      PROVE  /\ row' \in [Keys -> [st : Statuses, n : 0..MaxCount, today : BOOLEAN]]
             /\ pnl' \in [Windows -> Int]
             /\ UNCHANGED <<prof, used, ks, pause, capital, grant, live, restarts, basis, breached>>
  <2>1. Becomes(k, "settled", row[k].n) /\ Realizes(-row[k].n)
    BY <1>5 DEF SellsBack
  <2>2. -row[k].n \in Int
    BY <1>n
  <2> QED BY <1>2, <1>n, <1>s, <2>1, <2>2, BecomesTyped
<1>6. ASSUME NEW m \in Motors, NEW i \in Slots, NEW won \in BOOLEAN, Settles(m, i, won)
      PROVE  /\ row' \in [Keys -> [st : Statuses, n : 0..MaxCount, today : BOOLEAN]]
             /\ pnl' \in [Windows -> Int]
             /\ UNCHANGED <<prof, used, ks, pause, capital, grant, live, restarts, basis, breached>>
  <2> DEFINE S == {k \in Keys : k[1] = m /\ k[2] = i /\ row[k].st = "filled"}
             f == [k \in S |-> row[k].n]
             g == [k \in S |-> Costs(k)]
             paid == IF Cardinality(S) = 2 \/ won THEN SumFunction(f) ELSE -SumFunction(g)
  <2>1. IsFiniteSet(S) /\ S \subseteq Keys
    BY FiniteRows, FS_Subset
  <2>2. \A k \in S : f[k] \in Int /\ g[k] \in Int
    BY <1>n, CostType
  <2>3. SumFunctionOnSet(f, S) \in Int /\ SumFunctionOnSet(g, S) \in Int
    <3> HIDE DEF f, g, S
    <3> QED BY <2>1, <2>2, SumType
  <2>4. SumFunction(f) = SumFunctionOnSet(f, S) /\ SumFunction(g) = SumFunctionOnSet(g, S)
    BY DEF SumFunction
  <2>5. paid \in Int
    <3> HIDE DEF f, g, S
    <3> QED BY <2>3, <2>4
  <2>6. /\ Realizes(paid)
        /\ row' = [k \in Keys |-> IF k \in S THEN [row[k] EXCEPT !.st = "settled"] ELSE row[k]]
        /\ UNCHANGED <<prof, used, ks, pause, capital, grant, live, restarts, basis, breached>>
    BY <1>6 DEF Settles
  <2>7. row' \in [Keys -> [st : Statuses, n : 0..MaxCount, today : BOOLEAN]]
    BY <1>n, <1>s, <2>6
  <2> HIDE DEF paid
  <2> QED BY <1>2, <2>5, <2>6, <2>7
<1> QED BY <1>3, <1>4, <1>5, <1>6 DEF Outcomes

\* The clock, the balance, the marks, the pauses of others and what lifts them.
LEMMA SurroundingsTyped ==
  ASSUME TypeOK, Granted, Surroundings
  PROVE  TypeOK' /\ Granted'
<1> USE DEF ledger, capital
<1>1. ASSUME NEW b \in Balances, Refresh(b) PROVE TypeOK' /\ Granted'
  <2>1. raw' = b /\ cached' \in {b, cached} /\ fresh' \in BOOLEAN
    BY <1>1, ProfileTyped DEF Refresh
  <2>2. UNCHANGED <<prof, ledger, pause, mark, grant, live, restarts, basis, breached>>
    BY <1>1 DEF Refresh
  <2> QED BY <2>1, <2>2 DEF TypeOK, Granted
<1>2. CASE BalanceAges
  BY <1>2 DEF BalanceAges, TypeOK, Granted
<1>3. ASSUME NEW m \in Singles, NEW b \in Bids \union {None}, Marks(m, b) PROVE TypeOK' /\ Granted'
  <2>1. mark' \in [Singles -> Bids \union {None}]
    BY <1>3 DEF Marks, TypeOK
  <2>2. UNCHANGED <<prof, ledger, pause, cached, raw, fresh, grant, live, restarts, basis, breached>>
    BY <1>3 DEF Marks
  <2> QED BY <2>1, <2>2 DEF TypeOK, Granted
<1>4. ASSUME NEW S, NewPeriod(S) PROVE TypeOK' /\ Granted'
  <2>1. pnl' \in [Windows -> Int]
    BY <1>4 DEF NewPeriod, TypeOK
  <2>2. UNCHANGED <<prof, row, used, ks, pause, capital, grant, live, restarts, basis, breached>>
    BY <1>4 DEF NewPeriod
  <2> QED BY <2>1, <2>2 DEF TypeOK, Granted
<1>5. ASSUME NEW sunday \in BOOLEAN, NewExperimentDay(sunday) PROVE TypeOK' /\ Granted'
  <2>1. pnl' \in [Windows -> Int]
    <3>1. pnl' = [pnl EXCEPT !["xweek"] = IF sunday THEN 0 ELSE @] /\ pnl \in [Windows -> Int]
      BY <1>5 DEF NewExperimentDay, TypeOK
    <3>2. "xweek" \in Windows
      BY DEF Windows, Experiment
    <3> QED BY <3>1, <3>2
  <2>2. row' \in [Keys -> [st : Statuses, n : 0..MaxCount, today : BOOLEAN]]
    <3>1. row' = [k \in Keys |-> [row[k] EXCEPT !.today = FALSE]]
      BY <1>5 DEF NewExperimentDay
    <3>2. \A k \in Keys : row[k] \in [st : Statuses, n : 0..MaxCount, today : BOOLEAN]
      BY DEF TypeOK
    <3>3. \A k \in Keys : [row[k] EXCEPT !.today = FALSE] \in [st : Statuses, n : 0..MaxCount, today : BOOLEAN]
      BY <3>2
    <3> QED BY <3>1, <3>3
  <2>3. UNCHANGED <<prof, used, ks, pause, capital, grant, live, restarts, basis, breached>>
    BY <1>5 DEF NewExperimentDay
  <2> QED BY <2>1, <2>2, <2>3 DEF TypeOK, Granted
<1>6. ASSUME NEW persisted \in BOOLEAN, OthersPause(persisted) PROVE TypeOK' /\ Granted'
  BY <1>6 DEF OthersPause, TypeOK, Granted
<1>7. CASE Resume \/ Clear
  BY <1>7 DEF Resume, Clear, TypeOK, Granted
<1>8. CASE Restart
  <2>1. restarts' \in 0..MaxRestarts /\ pause' \in BOOLEAN
    BY <1>8, BoundsAssumption DEF Restart, TypeOK
  <2>2. /\ mark' \in [Singles -> Bids \union {None}]
        /\ grant' \in [Arbs -> 0..MaxCount] /\ \A m \in Arbs : grant'[m] = 0
    BY <1>8, BoundsAssumption DEF Restart
  <2>3. /\ cached' = None /\ raw' = None /\ fresh' = FALSE /\ live' = {}
        /\ UNCHANGED <<prof, ledger, basis, breached>>
    BY <1>8 DEF Restart
  <2>4. Granted'
    BY <2>2 DEF Granted
  <2> QED BY <2>1, <2>2, <2>3, <2>4 DEF TypeOK
<1> QED BY <1>1, <1>2, <1>3, <1>4, <1>5, <1>6, <1>7, <1>8 DEF Surroundings

\* Types hold at the start and are kept by every step.
LEMMA TypeKept ==
  ASSUME TypeOK, Granted, [Next]_vars
  PROVE  TypeOK' /\ Granted'
<1>1. CASE UNCHANGED vars
  BY <1>1 DEF vars, ledger, capital, TypeOK, Granted
<1> QED BY <1>1, EntriesTyped, OutcomesTyped, SurroundingsTyped DEF Next

\* The first state has the types.
LEMMA TypeStarts ==
  ASSUME Init
  PROVE  TypeOK /\ Granted
<1>1. 0 \in 0..MaxCount /\ 0 \in 0..MaxSlots /\ 0 \in 0..MaxRestarts
  BY BoundsAssumption
<1>2. Blank \in [st : Statuses, n : 0..MaxCount, today : BOOLEAN]
  BY <1>1 DEF Blank, Statuses
<1>3. /\ row \in [Keys -> [st : Statuses, n : 0..MaxCount, today : BOOLEAN]]
      /\ used \in [Motors -> 0..MaxSlots] /\ grant \in [Arbs -> 0..MaxCount] /\ pnl \in [Windows -> Int]
  BY <1>1, <1>2 DEF Init
<1>4. /\ mark \in [Singles -> Bids \union {None}] /\ basis \in [cap : Int, day : Int]
      /\ restarts \in 0..MaxRestarts
  BY <1>1 DEF Init
<1>5. Granted
  BY DEF Init, Granted
<1> QED BY <1>3, <1>4, <1>5 DEF Init, TypeOK

-----------------------------------------------------------------------------
(* What the rows of one attempt add to a sum over all of them *)

\* Only the rows of attempt i of m differ: so does the sum, by the difference there.
LEMMA AttemptSum ==
  ASSUME NEW f, NEW g, \A k \in Keys : f[k] \in Int /\ g[k] \in Int,
         NEW m \in Motors, NEW i \in Slots,
         \A k \in Keys : ~(k[1] = m /\ k[2] = i) => g[k] = f[k]
  PROVE  /\ SumFunctionOnSet(f, Keys) \in Int /\ SumFunctionOnSet(g, Keys) \in Int
         /\ m \in Arbs =>
              SumFunctionOnSet(g, Keys) =
                SumFunctionOnSet(f, Keys) - (f[<<m, i, 1>>] + f[<<m, i, 2>>])
                                          + (g[<<m, i, 1>>] + g[<<m, i, 2>>])
         /\ m \in Singles =>
              SumFunctionOnSet(g, Keys) =
                SumFunctionOnSet(f, Keys) - f[<<m, i, 1>>] + g[<<m, i, 1>>]
<1> DEFINE R == {k \in Keys : ~(k[1] = m /\ k[2] = i)}
           A == <<m, i, 1>>
           B == <<m, i, 2>>
<1>1. IsFiniteSet(Keys) /\ IsFiniteSet(R) /\ IsFiniteSet({A}) /\ IsFiniteSet({A, B})
  BY FiniteRows, FS_Subset, SmallSets
<1>2. SumFunctionOnSet(f, Keys) \in Int /\ SumFunctionOnSet(g, Keys) \in Int
  BY <1>1, SumType
<1>3. SumFunctionOnSet(g, R) = SumFunctionOnSet(f, R) /\ SumFunctionOnSet(f, R) \in Int
  <2>1. \A k \in R : f[k] \in Int /\ g[k] = f[k]
    OBVIOUS
  <2> HIDE DEF R
  <2> QED BY <1>1, <2>1, SumEqual, SumType
<1>4. CASE m \in Arbs
  <2>1. A \in Keys /\ B \in Keys /\ A # B
    BY <1>4, KeysTyped
  <2>2. Keys = R \cup {A, B} /\ R \cap {A, B} = {}
    <3>1. \A k \in Keys : k[1] = m /\ k[2] = i => k = A \/ k = B
      BY KeysTyped
    <3> QED BY <2>1, <3>1
  <2> HIDE DEF R, A, B
  <2>3. \A k \in R \cup {A, B} : f[k] \in Int /\ g[k] \in Int
    BY <2>2
  <2>4. /\ SumFunctionOnSet(f, R \cup {A, B}) = SumFunctionOnSet(f, R) + SumFunctionOnSet(f, {A, B})
        /\ SumFunctionOnSet(g, R \cup {A, B}) = SumFunctionOnSet(g, R) + SumFunctionOnSet(g, {A, B})
    BY <1>1, <2>2, <2>3, SumUnion
  <2>5. /\ SumFunctionOnSet(f, {A, B}) = f[A] + f[B] /\ SumFunctionOnSet(g, {A, B}) = g[A] + g[B]
        /\ f[A] \in Int /\ f[B] \in Int /\ g[A] \in Int /\ g[B] \in Int
    BY <2>1, <2>3, SumOfTwo
  <2>6. m \notin Singles
    BY <1>4 DEF Arbs, Singles
  <2> QED BY <1>2, <1>3, <2>2, <2>4, <2>5, <2>6 DEF A, B
<1>5. CASE m \in Singles
  <2>1. A \in Keys
    BY KeysTyped
  <2>2. Keys = R \cup {A} /\ R \cap {A} = {}
    <3>1. \A k \in Keys : k[1] = m /\ k[2] = i => k = A
      BY <1>5, KeysTyped
    <3> QED BY <2>1, <3>1
  <2> HIDE DEF R, A, B
  <2>3. \A k \in R \cup {A} : f[k] \in Int /\ g[k] \in Int
    BY <2>2
  <2>4. /\ SumFunctionOnSet(f, R \cup {A}) = SumFunctionOnSet(f, R) + SumFunctionOnSet(f, {A})
        /\ SumFunctionOnSet(g, R \cup {A}) = SumFunctionOnSet(g, R) + SumFunctionOnSet(g, {A})
    BY <1>1, <2>2, <2>3, SumUnion
  <2>5. /\ SumFunctionOnSet(f, {A}) = f[A] /\ SumFunctionOnSet(g, {A}) = g[A]
        /\ f[A] \in Int /\ g[A] \in Int
    BY <2>1, <2>3, SumOfOne
  <2>6. m \notin Arbs
    BY <1>5 DEF Arbs, Singles
  <2> QED BY <1>2, <1>3, <2>2, <2>4, <2>5, <2>6 DEF A
<1> QED BY <1>4, <1>5 DEF Motors

\* What an attempt shows in the exposure, and the exposure before it is cut at zero.
Shown(m, i) == Costs(<<m, i, 1>>) + Costs(<<m, i, 2>>) - Discount(m, i)
Net == SumFunctionOnSet(CostOf, Keys) - SumFunctionOnSet(DiscountOf, Arbs \X Slots)

\* The exposure is the net of the rows, cut at zero.
LEMMA ExposureOfNet ==
  ASSUME TypeOK
  PROVE  Net \in Int /\ Exposure \in Nat /\ Exposure = IF Net >= 0 THEN Net ELSE 0
<1>1. Net \in Int /\ Exposure = Max({0, Net}) /\ Exposure \in Nat
  BY TotalsType DEF Net
<1> QED BY <1>1, MaxOfTwo

\* An attempt of two legs never shows less than nothing.
LEMMA ShownType ==
  ASSUME TypeOK, NEW m \in Arbs, NEW i \in Slots
  PROVE  /\ Costs(<<m, i, 1>>) \in Nat /\ Costs(<<m, i, 2>>) \in Nat /\ Discount(m, i) \in Nat
         /\ Shown(m, i) >= 0
<1> DEFINE a == row[<<m, i, 1>>]
           b == row[<<m, i, 2>>]
           q == Pair(m, i)
<1>1. /\ a.n \in Nat /\ b.n \in Nat /\ Price[m] \in Nat
      /\ q = IF a.st = "filled" /\ b.st = "filled" THEN IF a.n <= b.n THEN a.n ELSE b.n ELSE 0
      /\ Discount(m, i) = 2 * (Price[m] * q) /\ Discount(m, i) \in Nat
  BY PairType
<1>2. Costs(<<m, i, 1>>) \in Nat /\ Costs(<<m, i, 2>>) \in Nat
  BY CostType, KeysTyped
<1>3. CASE a.st = "filled" /\ b.st = "filled"
  <2>1. Costs(<<m, i, 1>>) = Price[m] * a.n /\ Costs(<<m, i, 2>>) = Price[m] * b.n
    BY <1>3 DEF Costs
  <2>2. q \in Nat /\ q <= a.n /\ q <= b.n
    BY <1>1, <1>3
  <2> HIDE DEF q, a, b
  <2>3. Price[m] * q <= Price[m] * a.n /\ Price[m] * q <= Price[m] * b.n /\ Price[m] * q \in Nat
        /\ Price[m] * a.n \in Nat /\ Price[m] * b.n \in Nat
    BY <1>1, <2>2, ProductGrows
  <2> QED BY <1>1, <1>2, <2>1, <2>3 DEF Shown
<1>4. CASE ~(a.st = "filled" /\ b.st = "filled")
  <2>1. q = 0
    BY <1>1, <1>4
  <2>2. Discount(m, i) = 0
    BY <1>1, <2>1
  <2> QED BY <1>2, <2>2 DEF Shown
<1> QED BY <1>3, <1>4

\* The same in the next state.
LEMMA TypedNext ==
  TypeOK' => /\ \A k \in Keys : Costs(k)' \in Nat /\ PlacedToday(k)' \in Nat
             /\ \A m \in Arbs, i \in Slots : Discount(m, i)' \in Nat /\ Shown(m, i)' >= 0
             /\ Net' \in Int /\ Exposure' = IF Net' >= 0 THEN Net' ELSE 0
<1>1. TypeOK => /\ \A k \in Keys : Costs(k) \in Nat /\ PlacedToday(k) \in Nat
                /\ \A m \in Arbs, i \in Slots : Discount(m, i) \in Nat /\ Shown(m, i) >= 0
                /\ Net \in Int /\ Exposure = IF Net >= 0 THEN Net ELSE 0
  BY CostType, ShownType, ExposureOfNet
<1>2. TypeOK' => (/\ \A k \in Keys : Costs(k) \in Nat /\ PlacedToday(k) \in Nat
                  /\ \A m \in Arbs, i \in Slots : Discount(m, i) \in Nat /\ Shown(m, i) >= 0
                  /\ Net \in Int /\ Exposure = IF Net >= 0 THEN Net ELSE 0)'
  BY <1>1, PTL
<1> QED BY <1>2

\* A step that touches the rows of one attempt changes the net by what they show.
LEMMA NetOfAttempt ==
  ASSUME TypeOK, TypeOK', NEW m \in Motors, NEW i \in Slots,
         \A k \in Keys : ~(k[1] = m /\ k[2] = i) => row'[k] = row[k]
  PROVE  /\ m \in Arbs => Net' = Net - Shown(m, i) + Shown(m, i)'
         /\ m \in Singles => Net' = Net - Costs(<<m, i, 1>>) + Costs(<<m, i, 1>>)'
<1>1. \A k \in Keys : CostOf[k] = Costs(k) /\ CostOf'[k] = Costs(k)'
  BY DEF CostOf
<1>2. \A k \in Keys : CostOf[k] \in Int /\ CostOf'[k] \in Int
  BY <1>1, CostType, TypedNext
<1>3. \A k \in Keys : ~(k[1] = m /\ k[2] = i) => CostOf'[k] = CostOf[k]
  BY <1>1 DEF Costs
<1>4. /\ SumFunctionOnSet(CostOf, Keys) \in Int /\ SumFunctionOnSet(CostOf', Keys) \in Int
      /\ m \in Arbs =>
           SumFunctionOnSet(CostOf', Keys) =
             SumFunctionOnSet(CostOf, Keys) - (CostOf[<<m, i, 1>>] + CostOf[<<m, i, 2>>])
                                            + (CostOf'[<<m, i, 1>>] + CostOf'[<<m, i, 2>>])
      /\ m \in Singles =>
           SumFunctionOnSet(CostOf', Keys) =
             SumFunctionOnSet(CostOf, Keys) - CostOf[<<m, i, 1>>] + CostOf'[<<m, i, 1>>]
  BY <1>2, <1>3, AttemptSum
<1>5. \A g \in Arbs \X Slots : /\ DiscountOf[g] = Discount(g[1], g[2])
                               /\ DiscountOf'[g] = Discount(g[1], g[2])'
                               /\ DiscountOf[g] \in Int /\ DiscountOf'[g] \in Int
  <2>1. \A g \in Arbs \X Slots : /\ DiscountOf[g] = Discount(g[1], g[2])
                                 /\ DiscountOf'[g] = Discount(g[1], g[2])'
    BY DEF DiscountOf
  <2>2. \A m_1 \in Arbs, i_1 \in Slots : Discount(m_1, i_1) \in Nat /\ Discount(m_1, i_1)' \in Nat
    BY ShownType, TypedNext
  <2> TAKE g \in Arbs \X Slots
  <2>3. g[1] \in Arbs /\ g[2] \in Slots
    OBVIOUS
  <2>4. Discount(g[1], g[2]) \in Nat /\ Discount(g[1], g[2])' \in Nat
    BY <2>2, <2>3
  <2> QED BY <2>1, <2>4
<1>6. \A g \in Arbs \X Slots : g # <<m, i>> => DiscountOf'[g] = DiscountOf[g]
  <2> TAKE g \in Arbs \X Slots
  <2> HAVE g # <<m, i>>
  <2>1. ~(g[1] = m /\ g[2] = i) /\ g[1] \in Arbs /\ g[2] \in Slots
    OBVIOUS
  <2>2. \A l \in {1, 2} : row'[<<g[1], g[2], l>>] = row[<<g[1], g[2], l>>]
    BY <2>1, KeysTyped
  <2>3. Discount(g[1], g[2])' = Discount(g[1], g[2])
    BY <2>2 DEF Discount, Pair
  <2> QED BY <1>5, <2>3
<1>7. CASE m \in Arbs
  <2>1. <<m, i>> \in Arbs \X Slots /\ IsFiniteSet(Arbs \X Slots) /\ m \notin Singles
    BY <1>7, FiniteRows DEF Arbs, Singles
  <2>2. SumFunctionOnSet(DiscountOf', Arbs \X Slots)
          = SumFunctionOnSet(DiscountOf, Arbs \X Slots) - DiscountOf[<<m, i>>] + DiscountOf'[<<m, i>>]
    BY <2>1, <1>5, <1>6, SumOneChanged
  <2>3. SumFunctionOnSet(DiscountOf, Arbs \X Slots) \in Int
    BY <2>1, <1>5, SumType
  <2>4. DiscountOf[<<m, i>>] = Discount(m, i) /\ DiscountOf'[<<m, i>>] = Discount(m, i)'
    BY <2>1, <1>5
  <2>5. <<m, i, 1>> \in Keys /\ <<m, i, 2>> \in Keys
    BY <1>7, KeysTyped
  <2>6. /\ Costs(<<m, i, 1>>) \in Int /\ Costs(<<m, i, 1>>)' \in Int
        /\ Costs(<<m, i, 2>>) \in Int /\ Costs(<<m, i, 2>>)' \in Int
        /\ Discount(m, i) \in Int /\ Discount(m, i)' \in Int
    BY <1>1, <1>2, <1>5, <2>1, <2>4, <2>5
  <2> QED BY <1>1, <1>4, <1>7, <2>1, <2>2, <2>3, <2>4, <2>5, <2>6 DEF Net, Shown
<1>8. CASE m \in Singles
  <2>1. m \notin Arbs /\ <<m, i, 1>> \in Keys /\ IsFiniteSet(Arbs \X Slots)
    BY <1>8, KeysTyped, FiniteRows DEF Arbs, Singles
  <2>2. \A g \in Arbs \X Slots : DiscountOf'[g] = DiscountOf[g]
    BY <1>6, <2>1
  <2>3. /\ SumFunctionOnSet(DiscountOf', Arbs \X Slots) = SumFunctionOnSet(DiscountOf, Arbs \X Slots)
        /\ SumFunctionOnSet(DiscountOf, Arbs \X Slots) \in Int
    BY <1>5, <2>1, <2>2, SumEqual, SumType
  <2>4. Costs(<<m, i, 1>>) \in Int /\ Costs(<<m, i, 1>>)' \in Int
    BY <1>1, <1>2, <2>1
  <2> QED BY <1>1, <1>4, <1>8, <2>1, <2>3, <2>4 DEF Net
<1> QED BY <1>7, <1>8 DEF Motors

\* The day of the rows does not show in the exposure.
LEMMA NetOfSame ==
  ASSUME TypeOK, TypeOK', \A k \in Keys : row'[k].st = row[k].st /\ row'[k].n = row[k].n
  PROVE  /\ Net' = Net
         /\ \A m \in Arbs, i \in Slots : Discount(m, i)' = Discount(m, i)
<1>1. \A k \in Keys : CostOf'[k] = CostOf[k] /\ CostOf[k] \in Int
  <2>1. \A k \in Keys : CostOf[k] = Costs(k) /\ CostOf'[k] = Costs(k)'
    BY DEF CostOf
  <2>2. \A k \in Keys : Costs(k)' = Costs(k)
    BY DEF Costs
  <2> QED BY <2>1, <2>2, CostType
<1>2. \A m \in Arbs, i \in Slots : Discount(m, i)' = Discount(m, i)
  <2> TAKE m \in Arbs, i \in Slots
  <2>1. \A l \in {1, 2} : <<m, i, l>> \in Keys
    BY KeysTyped
  <2>2. \A l \in {1, 2} : row'[<<m, i, l>>].st = row[<<m, i, l>>].st /\ row'[<<m, i, l>>].n = row[<<m, i, l>>].n
    BY <2>1
  <2>3. {row'[<<m, i, l>>].n : l \in {1, 2}} = {row[<<m, i, l>>].n : l \in {1, 2}}
    BY <2>2
  <2>4. Pair(m, i)' = Pair(m, i)
    BY <2>2, <2>3 DEF Pair
  <2> QED BY <2>4 DEF Discount
<1>3. \A g \in Arbs \X Slots : DiscountOf'[g] = DiscountOf[g] /\ DiscountOf[g] \in Int
  <2>1. \A g \in Arbs \X Slots : /\ DiscountOf[g] = Discount(g[1], g[2])
                                 /\ DiscountOf'[g] = Discount(g[1], g[2])'
    BY DEF DiscountOf
  <2> TAKE g \in Arbs \X Slots
  <2>2. g[1] \in Arbs /\ g[2] \in Slots
    OBVIOUS
  <2>3. Discount(g[1], g[2])' = Discount(g[1], g[2]) /\ Discount(g[1], g[2]) \in Nat
    BY <1>2, <2>2, ShownType
  <2> QED BY <2>1, <2>3
<1>4. /\ SumFunctionOnSet(CostOf', Keys) = SumFunctionOnSet(CostOf, Keys)
      /\ SumFunctionOnSet(DiscountOf', Arbs \X Slots) = SumFunctionOnSet(DiscountOf, Arbs \X Slots)
  BY <1>1, <1>3, SumEqual, FiniteRows
<1> QED BY <1>2, <1>4 DEF Net

-----------------------------------------------------------------------------
(* The exposure *)

\* What the rows of an attempt may come to: the count of a row never passes what the
\* gate allowed, an attempt not begun has no row, and a row of today is an entry.
GrantsInv ==
  \A m \in Arbs : /\ UnitCost(m) * grant[m] <= prof.tradeMax
                  /\ m \in live => used[m] > 0 /\ prof.slots[m] > 0
KeysInv ==
  \A k \in Keys : /\ k[2] > used[k[1]] => row[k].st = "none"
                  /\ row[k].today => row[k].st # "none"
                  /\ k[1] \in Arbs => UnitCost(k[1]) * row[k].n <= prof.tradeMax
RowsInv == GrantsInv /\ KeysInv

PledgeOf == [m \in Arbs |-> Pledged(m)]
Pledges  == SumFunctionOnSet(PledgeOf, Arbs)
Allowance == prof.tradeMax * Cardinality(Late)

\* The bound, before the exposure is cut at zero.
ExposureInv == basis.cap >= 0 /\ Net + Pledges <= basis.cap + Allowance

\* What is pledged is bounded attempt by attempt: a trade for each motor that runs.
LEMMA PledgeBound ==
  ASSUME TypeOK, Granted, RowsInv
  PROVE  /\ \A m \in Arbs : PledgeOf[m] = Pledged(m) /\ Pledged(m) \in Nat
         /\ Pledges \in Nat /\ Allowance \in Nat
         /\ \A U \in SUBSET Arbs : SumFunctionOnSet(PledgeOf, U) \in Nat
                                   /\ SumFunctionOnSet(PledgeOf, U) <= Allowance
<1>0. prof.tradeMax \in Nat /\ IsFiniteSet(Arbs) /\ Arbs \subseteq Motors
  BY ProfileTyped, FiniteRows DEF Motors
<1>1. ASSUME NEW m \in Arbs
      PROVE  /\ Pledged(m) \in Nat /\ Pledged(m) <= prof.tradeMax
             /\ m \notin Late => Pledged(m) = 0
  <2>1. CASE m \in live
    <3>1. used[m] \in Slots /\ prof.slots[m] > 0
      BY <1>0, <2>1, BoundsAssumption DEF RowsInv, GrantsInv, TypeOK, Slots
    <3> DEFINE a == row[<<m, used[m], 1>>].n
               b == row[<<m, used[m], 2>>].n
               q == Pair(m, used[m])
    <3>2. /\ a \in Nat /\ b \in Nat /\ Price[m] \in Nat
          /\ q = IF row[<<m, used[m], 1>>].st = "filled" /\ row[<<m, used[m], 2>>].st = "filled"
                 THEN IF a <= b THEN a ELSE b ELSE 0
          /\ Discount(m, used[m]) = 2 * (Price[m] * q) /\ Discount(m, used[m]) \in Nat
      BY <3>1, PairType
    <3>3. <<m, used[m], 1>> \in Keys /\ UnitCost(m) * a <= prof.tradeMax
      BY <3>1, KeysTyped DEF RowsInv, KeysInv
    <3>4. UnitCost(m) * a = 2 * (Price[m] * a)
      <4>1. \A p, n \in Nat : 2 * p * n = 2 * (p * n)
        OBVIOUS
      <4>2. UnitCost(m) = 2 * Price[m] /\ Price[m] \in Nat /\ a \in Nat
        BY <3>1, UnitCosts, PairType
      <4> QED BY <4>1, <4>2
    <3>5. q \in Nat /\ q <= a
      BY <3>2
    <3>6. Price[m] * q \in Nat /\ Price[m] * a \in Nat /\ Price[m] * q <= Price[m] * a
      <4> HIDE DEF a, q
      <4> QED BY <3>2, <3>5, ProductGrows
    <3>7. Pledged(m) = Discount(m, used[m])
      BY <2>1 DEF Pledged
    <3> HIDE DEF a, q
    <3>8. Discount(m, used[m]) <= prof.tradeMax
      BY <1>0, <3>2, <3>3, <3>4, <3>6
    <3>9. m \in Late
      BY <3>1 DEF Late
    <3> QED BY <3>2, <3>7, <3>8, <3>9
  <2>2. CASE m \notin live
    <3>1. Pledged(m) = UnitCost(m) * grant[m] /\ grant[m] \in Nat /\ Price[m] \in Nat
      BY <1>0, <2>2, BoundsAssumption DEF Pledged, TypeOK
    <3>2. UnitCost(m) \in Nat /\ UnitCost(m) * grant[m] \in Nat /\ UnitCost(m) * 0 = 0
      <4>1. \A p, n \in Nat : p * n \in Nat /\ p * 0 = 0
        OBVIOUS
      <4>2. UnitCost(m) \in Nat
        BY <3>1, UnitCosts
      <4> QED BY <3>1, <4>1, <4>2
    <3>3. m \notin Late => grant[m] = 0
      <4>1. used[m] \in Nat /\ prof.slots[m] \in Nat
        BY <1>0, ProfileTyped DEF TypeOK
      <4> QED BY <3>1, <4>1 DEF Late, Granted
    <3> QED BY <3>1, <3>2, <3>3 DEF RowsInv, GrantsInv
  <2> QED BY <2>1, <2>2
<1>2. \A m \in Arbs : PledgeOf[m] = Pledged(m)
  BY DEF PledgeOf
<1>3. IsFiniteSet(Late) /\ Late \subseteq Arbs /\ Cardinality(Late) \in Nat
  BY <1>0, FS_Subset, FS_CardinalityType DEF Late
<1>4. Allowance \in Nat
  BY <1>0, <1>3 DEF Allowance
<1>5. ASSUME NEW U \in SUBSET Arbs
      PROVE  SumFunctionOnSet(PledgeOf, U) \in Nat /\ SumFunctionOnSet(PledgeOf, U) <= Allowance
  <2> DEFINE V == U \cap Late
             W == U \ Late
  <2>1. /\ IsFiniteSet(U) /\ IsFiniteSet(V) /\ IsFiniteSet(W) /\ U = V \cup W /\ V \cap W = {}
        /\ Cardinality(V) \in Nat /\ Cardinality(V) <= Cardinality(Late)
    BY <1>0, <1>3, FS_Subset, FS_CardinalityType
  <2>2. \A m \in V \cup W : PledgeOf[m] \in Nat /\ PledgeOf[m] <= prof.tradeMax
    BY <1>1, <1>2
  <2>3. \A m \in W : PledgeOf[m] = 0
    BY <1>1, <1>2
  <2> HIDE DEF V, W
  <2>4. SumFunctionOnSet(PledgeOf, U) = SumFunctionOnSet(PledgeOf, V) + SumFunctionOnSet(PledgeOf, W)
    BY <2>1, <2>2, SumUnion
  <2>5. SumFunctionOnSet(PledgeOf, W) = 0
    BY <2>1, <2>3, SumZero
  <2>6. SumFunctionOnSet(PledgeOf, V) <= prof.tradeMax * Cardinality(V)
    BY <1>0, <2>1, <2>2, SumBound
  <2>7. SumFunctionOnSet(PledgeOf, V) \in Nat
    BY <2>1, <2>2, SumNat
  <2>8. prof.tradeMax * Cardinality(V) \in Nat /\ prof.tradeMax * Cardinality(V) <= Allowance
    BY <1>0, <1>3, <2>1, ProductGrows DEF Allowance
  <2> QED BY <1>4, <2>4, <2>5, <2>6, <2>7, <2>8
<1> QED BY <1>1, <1>2, <1>4, <1>5 DEF Pledges

\* The same after a step.
LEMMA PledgeBoundNext ==
  TypeOK' /\ Granted' /\ RowsInv'
    => /\ \A m \in Arbs : PledgeOf'[m] = Pledged(m)' /\ Pledged(m)' \in Nat
       /\ Pledges' \in Nat /\ Allowance' \in Nat
       /\ \A U \in SUBSET Arbs : SumFunctionOnSet(PledgeOf', U) \in Nat
                                 /\ SumFunctionOnSet(PledgeOf', U) <= Allowance'
<1>1. TypeOK /\ Granted /\ RowsInv
    => /\ \A m \in Arbs : PledgeOf[m] = Pledged(m) /\ Pledged(m) \in Nat
       /\ Pledges \in Nat /\ Allowance \in Nat
       /\ \A U \in SUBSET Arbs : SumFunctionOnSet(PledgeOf, U) \in Nat
                                 /\ SumFunctionOnSet(PledgeOf, U) <= Allowance
  BY PledgeBound
<1>2. (TypeOK /\ Granted /\ RowsInv)'
    => (/\ \A m \in Arbs : PledgeOf[m] = Pledged(m) /\ Pledged(m) \in Nat
        /\ Pledges \in Nat /\ Allowance \in Nat
        /\ \A U \in SUBSET Arbs : SumFunctionOnSet(PledgeOf, U) \in Nat
                                  /\ SumFunctionOnSet(PledgeOf, U) <= Allowance)'
  BY <1>1, PTL
<1> QED BY <1>2

\* Everything the exposure is bounded by.
Bounded == TypeOK /\ Granted /\ RowsInv /\ ExposureInv

\* An approval starts from the exposure of the moment: what is approved and what the
\* exposure already holds fit in the cap, and the rest is pledges of the other motors.
LEMMA ApprovalBounds ==
  ASSUME Bounded, TypeOK', Granted', RowsInv', UNCHANGED prof,
         NEW cost \in Nat, NEW U \in SUBSET Arbs,
         Exposure + cost <= ExposureCap, basis'.cap = ExposureCap,
         Net' + Pledges' <= Net + cost + SumFunctionOnSet(PledgeOf', U)
  PROVE  ExposureInv'
<1>1. /\ Net \in Int /\ Exposure \in Nat /\ Net <= Exposure /\ ExposureCap \in Nat
  BY ExposureOfNet, CapitalType DEF Bounded
<1>2. /\ Pledges' \in Nat /\ SumFunctionOnSet(PledgeOf', U) \in Nat /\ Allowance' \in Nat
      /\ SumFunctionOnSet(PledgeOf', U) <= Allowance'
  BY PledgeBoundNext
<1>3. Net' \in Int
  BY TypedNext
<1> DEFINE rest == SumFunctionOnSet(PledgeOf', U)
<1>4. Net' + Pledges' <= Net + cost + rest /\ rest \in Nat /\ rest <= Allowance'
  BY <1>2
<1> HIDE DEF rest
<1>5. Net' + Pledges' <= ExposureCap + Allowance'
  <2>1. \A x, y, n, c, r, e, k, a \in Int :
          x + y <= n + c + r /\ n <= e /\ r <= a /\ e + c <= k => x + y <= k + a
    OBVIOUS
  <2>2. /\ Net' \in Int /\ Pledges' \in Int /\ Net \in Int /\ cost \in Int /\ rest \in Int
        /\ Exposure \in Int /\ ExposureCap \in Int /\ Allowance' \in Int
    BY <1>1, <1>2, <1>3, <1>4
  <2>3. Exposure + cost <= ExposureCap /\ Net <= Exposure
    BY <1>1
  <2> QED BY <1>4, <2>1, <2>2, <2>3
<1> QED BY <1>1, <1>5 DEF ExposureInv

\* Between approvals: what an attempt shows and pledges together does not grow.
LEMMA MovesBounds ==
  ASSUME Bounded, TypeOK', Granted', RowsInv', UNCHANGED <<prof, basis>>, NEW m \in Arbs,
         Net' + Pledged(m)' <= Net + Pledged(m),
         \A o \in Arbs \ {m} : Pledged(o)' = Pledged(o)
  PROVE  ExposureInv'
<1>1. \A o \in Arbs : /\ PledgeOf[o] = Pledged(o) /\ PledgeOf[o] \in Int
                      /\ PledgeOf'[o] = Pledged(o)' /\ PledgeOf'[o] \in Int
  BY PledgeBound, PledgeBoundNext DEF Bounded
<1>2. \A o \in Arbs \ {m} : PledgeOf'[o] = PledgeOf[o]
  BY <1>1
<1>3. Pledges' = Pledges - PledgeOf[m] + PledgeOf'[m]
  BY <1>1, <1>2, FiniteRows, SumOneChanged DEF Pledges
<1>4. Pledges \in Int /\ Net \in Int /\ Net' \in Int /\ Allowance \in Int /\ Allowance' = Allowance
  BY PledgeBound, ExposureOfNet, TypedNext DEF Bounded, Allowance, Late
<1>5. basis.cap \in Int
  BY DEF Bounded, TypeOK
<1> QED BY <1>1, <1>3, <1>4, <1>5 DEF Bounded, ExposureInv

\* The same when only the rows of one motor without a pledge move, or no row.
LEMMA FallsBounds ==
  ASSUME Bounded, TypeOK', Granted', RowsInv', UNCHANGED <<prof, basis>>,
         Net' <= Net, \A o \in Arbs : Pledged(o)' <= Pledged(o)
  PROVE  ExposureInv'
<1>1. \A o \in Arbs : /\ PledgeOf[o] = Pledged(o) /\ PledgeOf[o] \in Int
                      /\ PledgeOf'[o] = Pledged(o)' /\ PledgeOf'[o] \in Int
  BY PledgeBound, PledgeBoundNext DEF Bounded
<1>2. \A o \in Arbs : PledgeOf'[o] <= PledgeOf[o]
  BY <1>1
<1>3. Pledges' <= Pledges
  BY <1>1, <1>2, FiniteRows, SumLeq DEF Pledges
<1>4. /\ Pledges \in Int /\ Pledges' \in Int /\ Net \in Int /\ Net' \in Int
      /\ Allowance \in Int /\ Allowance' = Allowance
  BY PledgeBound, PledgeBoundNext, ExposureOfNet, TypedNext DEF Bounded, Allowance, Late
<1>5. basis.cap \in Int
  BY DEF Bounded, TypeOK
<1> QED BY <1>3, <1>4, <1>5 DEF Bounded, ExposureInv

\* The rows an attempt writes, and a row that becomes something else, fit in a trade.
LEMMA WritesKeys ==
  ASSUME TypeOK, KeysInv, NEW m \in Motors, NEW n \in 0..MaxCount,
         m \in Arbs => UnitCost(m) * n <= prof.tradeMax,
         Writes(m, n), UNCHANGED prof
  PROVE  KeysInv'
<1>1. /\ row' = [k \in Keys |-> IF k[1] = m /\ k[2] = used[m] + 1 THEN Intent(n) ELSE row[k]]
      /\ \A o \in Motors : used'[o] = IF o = m THEN used[m] + 1 ELSE used[o]
  BY DEF Writes, TypeOK
<1>2. Intent(n).st = "pending" /\ Intent(n).n = n
  BY DEF Intent
<1> SUFFICES ASSUME NEW k \in Keys
             PROVE  /\ k[2] > used'[k[1]] => row'[k].st = "none"
                    /\ row'[k].today => row'[k].st # "none"
                    /\ k[1] \in Arbs => UnitCost(k[1]) * row'[k].n <= prof.tradeMax
  BY DEF KeysInv
<1>3. k[1] \in Motors /\ k[2] \in Nat /\ used[k[1]] \in Nat /\ used[m] \in Nat
  BY KeysTyped, BoundsAssumption DEF TypeOK, Slots
<1>4. CASE k[1] = m /\ k[2] = used[m] + 1
  BY <1>1, <1>2, <1>3, <1>4
<1>5. CASE ~(k[1] = m /\ k[2] = used[m] + 1)
  <2>1. row'[k] = row[k] /\ (k[2] > used'[k[1]] => k[2] > used[k[1]])
    BY <1>1, <1>3, <1>5
  <2> QED BY <2>1 DEF KeysInv
<1> QED BY <1>4, <1>5

\* A row that fills, is sold or is settled keeps its key in one motor.
LEMMA BecomesKeys ==
  ASSUME TypeOK, KeysInv, NEW k \in Keys, NEW st \in Statuses, NEW n \in 0..MaxCount,
         st # "none", row[k].st # "none", n <= row[k].n, Becomes(k, st, n)
  PROVE  KeysInv'
<1>1. /\ row'[k].st = st /\ row'[k].n = n /\ row'[k].today = row[k].today
      /\ \A j \in Keys \ {k} : row'[j] = row[j]
      /\ used' = used /\ prof' = prof
  BY BecomesTyped
<1> SUFFICES ASSUME NEW j \in Keys
             PROVE  /\ j[2] > used[j[1]] => row'[j].st = "none"
                    /\ row'[j].today => row'[j].st # "none"
                    /\ j[1] \in Arbs => UnitCost(j[1]) * row'[j].n <= prof.tradeMax
  BY <1>1 DEF KeysInv
<1>2. CASE j = k
  <2>1. ~(j[2] > used[j[1]])
    BY <1>2 DEF KeysInv
  <2>2. j[1] \in Arbs => UnitCost(j[1]) * n <= prof.tradeMax
    <3> HAVE j[1] \in Arbs
    <3>1. UnitCost(j[1]) * row[k].n <= prof.tradeMax
      BY <1>2 DEF KeysInv
    <3>2. UnitCost(j[1]) \in Nat /\ n \in Nat /\ row[k].n \in Nat /\ prof.tradeMax \in Nat
      <4>1. j[1] \in Motors /\ Price[j[1]] \in Nat
        BY KeysTyped, BoundsAssumption
      <4> QED BY <4>1, UnitCosts, ProfileTyped, BoundsAssumption DEF TypeOK
    <3>3. UnitCost(j[1]) * n \in Nat /\ UnitCost(j[1]) * row[k].n \in Nat
          /\ UnitCost(j[1]) * n <= UnitCost(j[1]) * row[k].n
      BY <3>2, ProductGrows
    <3> QED BY <3>1, <3>2, <3>3
  <2> QED BY <1>1, <1>2, <2>1, <2>2
<1>3. CASE j # k
  BY <1>1, <1>3 DEF KeysInv
<1> QED BY <1>2, <1>3

\* The counts of rows and grants stay under the cap of a trade.
LEMMA EntriesRows ==
  ASSUME TypeOK, Granted, RowsInv, Entries
  PROVE  RowsInv'
<1> USE DEF ledger, capital
<1>a. Arbs \subseteq Motors /\ "m2" \in Motors /\ "m5" \in Motors /\ "m2" \notin Arbs /\ "m5" \notin Arbs
  BY DEF Arbs, Singles, Motors
<1>b. \A m \in Arbs : used[m] \in Nat /\ grant[m] \in Nat /\ UnitCost(m) * 0 = 0
  <2>1. \A m \in Arbs : UnitCost(m) \in Nat
    BY <1>a, UnitCosts, BoundsAssumption
  <2> QED BY <1>a, <2>1 DEF TypeOK
<1>c. prof.tradeMax \in Nat
  BY ProfileTyped
<1>1. ASSUME NEW m \in Motors, Refuse(m) PROVE RowsInv'
  BY <1>1 DEF Refuse, RowsInv, GrantsInv, KeysInv
<1>2. ASSUME NEW m \in Arbs, Grant(m) PROVE RowsInv'
  <2>1. /\ grant' = [grant EXCEPT ![m] = Allowed(m)] /\ Allowed(m) > 0
        /\ UNCHANGED <<prof, row, used, live>>
    BY <1>2 DEF Grant, Passes
  <2>2. UnitCost(m) * Allowed(m) <= prof.tradeMax
    BY <1>a, <2>1, AllowedFits
  <2>3. GrantsInv'
    BY <2>1, <2>2 DEF RowsInv, GrantsInv, TypeOK
  <2> QED BY <2>1, <2>3 DEF RowsInv, KeysInv
<1>3. ASSUME NEW m \in Arbs, Drop(m) PROVE RowsInv'
  <2>1. grant' = [grant EXCEPT ![m] = 0] /\ UNCHANGED <<prof, row, used, live>>
    BY <1>3 DEF Drop
  <2>2. GrantsInv'
    BY <1>b, <1>c, <2>1 DEF RowsInv, GrantsInv, TypeOK
  <2> QED BY <2>1, <2>2 DEF RowsInv, KeysInv
<1>4. ASSUME NEW m \in Arbs, Write(m) PROVE RowsInv'
  <2>1. /\ grant[m] > 0 /\ grant[m] \in 0..MaxCount /\ Writes(m, grant[m])
        /\ grant' = [grant EXCEPT ![m] = 0] /\ live' = live \union {m}
        /\ UNCHANGED prof
    BY <1>4 DEF Write, TypeOK
  <2>2. KeysInv'
    BY <1>a, <2>1, WritesKeys DEF RowsInv, GrantsInv
  <2>3. \A o \in Arbs : used'[o] = IF o = m THEN used[m] + 1 ELSE used[o]
    BY <1>a, <2>1 DEF Writes, TypeOK
  <2>4. prof.slots[m] > 0
    <3>1. used[m] \in Nat /\ prof.slots[m] \in Nat /\ used[m] < prof.slots[m]
      BY <1>a, <1>b, <2>1, ProfileTyped DEF Granted
    <3> QED BY <3>1
  <2>5. \A o \in Arbs : UnitCost(o) * grant'[o] <= prof.tradeMax
    BY <1>b, <1>c, <2>1 DEF RowsInv, GrantsInv, TypeOK
  <2>6. \A o \in Arbs : o \in live' => used'[o] > 0 /\ prof.slots[o] > 0
    BY <1>b, <2>1, <2>3, <2>4 DEF RowsInv, GrantsInv
  <2> QED BY <2>1, <2>2, <2>5, <2>6 DEF RowsInv, GrantsInv
<1>5. ASSUME NEW m \in Arbs, AttemptEnds(m) PROVE RowsInv'
  BY <1>5 DEF AttemptEnds, RowsInv, GrantsInv, KeysInv
<1>6. CASE Reserve
  <2>1. /\ Writes("m2", Reserved) /\ Reserved \in 0..MaxCount
        /\ UNCHANGED <<prof, grant, live>>
    BY <1>6, <1>a, AllowedFits DEF Reserve, Reserved
  <2>2. KeysInv'
    BY <1>a, <2>1, WritesKeys DEF RowsInv
  <2>3. \A o \in Arbs : used'[o] = used[o]
    BY <1>a, <2>1 DEF Writes, TypeOK
  <2> QED BY <2>1, <2>2, <2>3 DEF RowsInv, GrantsInv
<1>7. ASSUME NEW n \in 1..MaxCount, Quote(n) PROVE RowsInv'
  <2>1. Writes("m5", n) /\ n \in 0..MaxCount /\ UNCHANGED <<prof, grant, live>>
    BY <1>7 DEF Quote
  <2>2. KeysInv'
    BY <1>a, <2>1, WritesKeys DEF RowsInv
  <2>3. \A o \in Arbs : used'[o] = used[o]
    BY <1>a, <2>1 DEF Writes, TypeOK
  <2> QED BY <2>1, <2>2, <2>3 DEF RowsInv, GrantsInv
<1> QED BY <1>1, <1>2, <1>3, <1>4, <1>5, <1>6, <1>7 DEF Entries

\* A leg that fills, fills for part of its count at the most; the rest only closes rows.
LEMMA OutcomesRows ==
  ASSUME TypeOK, RowsInv, Outcomes
  PROVE  RowsInv'
<1>s. "filled" \in Statuses /\ "cancelled" \in Statuses /\ "settled" \in Statuses
  BY DEF Statuses
<1>n. \A k \in Keys : row[k].n \in 0..MaxCount /\ row[k].n <= row[k].n
  BY BoundsAssumption DEF TypeOK
<1>1. ASSUME NEW k \in Keys, NEW st \in Statuses, NEW n \in 0..MaxCount,
             st # "none", row[k].st # "none", n <= row[k].n, Becomes(k, st, n)
      PROVE  RowsInv'
  <2>1. KeysInv'
    BY <1>1, BecomesKeys DEF RowsInv
  <2>2. UNCHANGED <<prof, used, grant, live>>
    BY <1>1 DEF Becomes
  <2> QED BY <2>1, <2>2 DEF RowsInv, GrantsInv
<1>2. ASSUME NEW k \in Keys, NEW n \in 1..MaxCount, Fills(k, n) PROVE RowsInv'
  <2>1. row[k].st = "pending" /\ n <= row[k].n /\ n \in 0..MaxCount /\ Becomes(k, "filled", n)
    BY <1>2 DEF Fills
  <2> QED BY <1>1, <1>s, <2>1
<1>3. ASSUME NEW k \in Keys, Kills(k) PROVE RowsInv'
  <2>1. row[k].st = "pending" /\ Becomes(k, "cancelled", row[k].n)
    BY <1>3 DEF Kills
  <2> QED BY <1>1, <1>n, <1>s, <2>1
<1>4. ASSUME NEW k \in Keys, SellsBack(k) PROVE RowsInv'
  <2>1. row[k].st = "filled" /\ Becomes(k, "settled", row[k].n)
    BY <1>4 DEF SellsBack
  <2> QED BY <1>1, <1>n, <1>s, <2>1
<1>5. ASSUME NEW m \in Motors, NEW i \in Slots, NEW won \in BOOLEAN, Settles(m, i, won)
      PROVE  RowsInv'
  <2> DEFINE S == {k \in Keys : k[1] = m /\ k[2] = i /\ row[k].st = "filled"}
  <2>1. /\ row' = [k \in Keys |-> IF k \in S THEN [row[k] EXCEPT !.st = "settled"] ELSE row[k]]
        /\ UNCHANGED <<prof, used, grant, live>>
    BY <1>5 DEF Settles
  <2>2. \A k \in Keys : /\ row'[k].n = row[k].n /\ row'[k].today = row[k].today
                        /\ \/ row'[k].st = row[k].st
                           \/ row[k].st = "filled" /\ row'[k].st = "settled"
    <3>1. \A k \in Keys : row[k] \in [st : Statuses, n : 0..MaxCount, today : BOOLEAN]
      BY DEF TypeOK
    <3> QED BY <2>1, <3>1
  <2>3. KeysInv'
    BY <2>1, <2>2 DEF RowsInv, KeysInv
  <2> QED BY <2>1, <2>3 DEF RowsInv, GrantsInv
<1> QED BY <1>2, <1>3, <1>4, <1>5 DEF Outcomes

\* What surrounds the motors touches no count; a restart only forgets the grants.
LEMMA SurroundingsRows ==
  ASSUME TypeOK, RowsInv, Surroundings
  PROVE  /\ RowsInv'
         /\ \A k \in Keys : row'[k].st = row[k].st /\ row'[k].n = row[k].n
         /\ UNCHANGED <<prof, used, basis>>
         /\ \/ UNCHANGED <<grant, live>>
            \/ live' = {} /\ \A m \in Arbs : grant'[m] = 0
<1> USE DEF ledger, capital
<1>1. CASE UNCHANGED <<prof, row, used, grant, live, basis>>
  BY <1>1 DEF RowsInv, GrantsInv, KeysInv
<1>2. ASSUME NEW sunday \in BOOLEAN, NewExperimentDay(sunday)
      PROVE  /\ RowsInv' /\ UNCHANGED <<prof, used, grant, live, basis>>
             /\ \A k \in Keys : row'[k].st = row[k].st /\ row'[k].n = row[k].n
  <2>1. /\ row' = [k \in Keys |-> [row[k] EXCEPT !.today = FALSE]]
        /\ UNCHANGED <<prof, used, grant, live, basis>>
    BY <1>2 DEF NewExperimentDay
  <2>2. \A k \in Keys : row'[k].st = row[k].st /\ row'[k].n = row[k].n /\ ~row'[k].today
    <3>1. \A k \in Keys : row[k] \in [st : Statuses, n : 0..MaxCount, today : BOOLEAN]
      BY DEF TypeOK
    <3> QED BY <2>1, <3>1
  <2> QED BY <2>1, <2>2 DEF RowsInv, GrantsInv, KeysInv
<1>3. CASE Restart
  <2>1. /\ live' = {} /\ \A m \in Arbs : grant'[m] = 0
        /\ UNCHANGED <<prof, row, used, basis>>
    BY <1>3 DEF Restart
  <2>2. prof.tradeMax \in Nat /\ \A m \in Arbs : UnitCost(m) * 0 = 0
    <3>1. \A m \in Arbs : UnitCost(m) \in Nat
      BY UnitCosts, BoundsAssumption DEF Motors
    <3> QED BY <3>1, ProfileTyped
  <2>3. GrantsInv'
    BY <2>1, <2>2 DEF GrantsInv
  <2> QED BY <2>1, <2>3 DEF RowsInv, KeysInv
<1>4. CASE \/ \E b \in Balances : Refresh(b)
           \/ BalanceAges
           \/ \E m \in Singles, b \in Bids \union {None} : Marks(m, b)
           \/ \E S \in prof.turns : NewPeriod(S)
           \/ \E persisted \in BOOLEAN : OthersPause(persisted)
           \/ Resume \/ Clear
  BY <1>4, <1>1 DEF Refresh, BalanceAges, Marks, NewPeriod, OthersPause, Resume, Clear
<1> QED BY <1>2, <1>3, <1>4 DEF Surroundings

\* What an attempt shows, before and after a step.
LEMMA TypedShown ==
  ASSUME TypeOK, TypeOK', NEW m \in Arbs, NEW i \in Slots
  PROVE  /\ Shown(m, i) \in Nat /\ Shown(m, i)' \in Nat /\ Net \in Int /\ Net' \in Int
         /\ Discount(m, i) \in Nat /\ Discount(m, i)' \in Nat
         /\ Costs(<<m, i, 1>>) \in Nat /\ Costs(<<m, i, 2>>) \in Nat
         /\ Costs(<<m, i, 1>>)' \in Nat /\ Costs(<<m, i, 2>>)' \in Nat
         /\ Shown(m, i) = Costs(<<m, i, 1>>) + Costs(<<m, i, 2>>) - Discount(m, i)
         /\ Shown(m, i)' = Costs(<<m, i, 1>>)' + Costs(<<m, i, 2>>)' - Discount(m, i)'
<1>1. <<m, i, 1>> \in Keys /\ <<m, i, 2>> \in Keys
  BY KeysTyped
<1>2. /\ Costs(<<m, i, 1>>) \in Nat /\ Costs(<<m, i, 2>>) \in Nat /\ Discount(m, i) \in Nat
      /\ Shown(m, i) >= 0
  BY ShownType
<1>3. /\ Costs(<<m, i, 1>>)' \in Nat /\ Costs(<<m, i, 2>>)' \in Nat /\ Discount(m, i)' \in Nat
      /\ Shown(m, i)' >= 0 /\ Net' \in Int
  BY <1>1, TypedNext
<1>4. Net \in Int
  BY ExposureOfNet
<1>5. /\ Shown(m, i) = Costs(<<m, i, 1>>) + Costs(<<m, i, 2>>) - Discount(m, i)
      /\ Shown(m, i)' = Costs(<<m, i, 1>>)' + Costs(<<m, i, 2>>)' - Discount(m, i)'
  BY DEF Shown
<1> QED BY <1>2, <1>3, <1>4, <1>5

\* The rows of one attempt move, and the attempt shows no more than before; while it
\* may still be sold apart, its two legs cost no more than before.
LEMMA AttemptBounds ==
  ASSUME Bounded, TypeOK', Granted', RowsInv', UNCHANGED <<prof, used, grant, live, basis>>,
         NEW m \in Motors, NEW i \in Slots,
         \A k \in Keys : ~(k[1] = m /\ k[2] = i) => row'[k] = row[k],
         m \in Singles => Costs(<<m, i, 1>>)' <= Costs(<<m, i, 1>>),
         m \in Arbs => IF m \in live /\ i = used[m]
                       THEN Costs(<<m, i, 1>>)' + Costs(<<m, i, 2>>)'
                              <= Costs(<<m, i, 1>>) + Costs(<<m, i, 2>>)
                       ELSE Shown(m, i)' <= Shown(m, i)
  PROVE  ExposureInv'
<1> USE DEF Bounded
<1>0. /\ m \in Arbs => Net' = Net - Shown(m, i) + Shown(m, i)'
      /\ m \in Singles => Net' = Net - Costs(<<m, i, 1>>) + Costs(<<m, i, 1>>)'
  BY NetOfAttempt
<1>1. ASSUME NEW o \in Arbs, o # m \/ o \notin live \/ i # used[o]
      PROVE  Pledged(o)' = Pledged(o)
  <2>1. CASE o \notin live
    BY <2>1 DEF Pledged
  <2>2. CASE o \in live
    <3>1. PICK j \in Slots : j = used[o] /\ ~(o = m /\ j = i)
      BY <1>1, <2>2, BoundsAssumption DEF RowsInv, GrantsInv, TypeOK, Slots, Motors
    <3>2. \A l \in {1, 2} : row'[<<o, j, l>>] = row[<<o, j, l>>]
      BY <3>1, KeysTyped
    <3>3. Discount(o, j)' = Discount(o, j)
      BY <3>2 DEF Discount, Pair
    <3>4. Pledged(o)' = Discount(o, j)' /\ Pledged(o) = Discount(o, j)
      BY <2>2, <3>1 DEF Pledged
    <3> QED BY <3>3, <3>4
  <2> QED BY <2>1, <2>2
<1>2. CASE m \in Singles
  <2>1. m \notin Arbs /\ <<m, i, 1>> \in Keys
    BY <1>2, KeysTyped DEF Arbs, Singles
  <2>2. Costs(<<m, i, 1>>) \in Nat /\ Costs(<<m, i, 1>>)' \in Nat /\ Net \in Int
    BY <2>1, CostType, TypedNext, ExposureOfNet
  <2>3. Net' <= Net
    BY <1>0, <1>2, <2>2
  <2>4. \A o \in Arbs : Pledged(o)' = Pledged(o) /\ Pledged(o) \in Nat
    BY <1>1, <2>1, PledgeBound
  <2>5. \A o \in Arbs : Pledged(o)' <= Pledged(o)
    BY <2>4
  <2> QED BY <2>3, <2>5, FallsBounds
<1>3. CASE m \in Arbs
  <2>1. \A o \in Arbs \ {m} : Pledged(o)' = Pledged(o)
    BY <1>1
  <2>2. Pledged(m) \in Nat /\ Pledged(m)' \in Nat
    BY <1>3, PledgeBound, PledgeBoundNext
  <2>3. Net' + Pledged(m)' <= Net + Pledged(m)
    <3>1. /\ Shown(m, i) \in Nat /\ Shown(m, i)' \in Nat /\ Net \in Int /\ Net' \in Int
          /\ Discount(m, i) \in Nat /\ Discount(m, i)' \in Nat
          /\ Costs(<<m, i, 1>>) \in Nat /\ Costs(<<m, i, 2>>) \in Nat
          /\ Costs(<<m, i, 1>>)' \in Nat /\ Costs(<<m, i, 2>>)' \in Nat
          /\ Shown(m, i) = Costs(<<m, i, 1>>) + Costs(<<m, i, 2>>) - Discount(m, i)
          /\ Shown(m, i)' = Costs(<<m, i, 1>>)' + Costs(<<m, i, 2>>)' - Discount(m, i)'
      BY <1>3, TypedShown
    <3>2. CASE m \in live /\ i = used[m]
      <4>1. Pledged(m) = Discount(m, i) /\ Pledged(m)' = Discount(m, i)'
        BY <3>2 DEF Pledged
      <4>2. Costs(<<m, i, 1>>)' + Costs(<<m, i, 2>>)' <= Costs(<<m, i, 1>>) + Costs(<<m, i, 2>>)
        BY <1>3, <3>2
      <4> QED BY <1>0, <1>3, <3>1, <4>1, <4>2
    <3>3. CASE ~(m \in live /\ i = used[m])
      <4>1. Pledged(m)' = Pledged(m)
        BY <1>1, <1>3, <3>3
      <4>2. Shown(m, i)' <= Shown(m, i)
        BY <1>3, <3>3
      <4> QED BY <1>0, <1>3, <2>2, <3>1, <4>1, <4>2
    <3> QED BY <3>2, <3>3
  <2> QED BY <1>3, <2>1, <2>3, MovesBounds
<1> QED BY <1>2, <1>3 DEF Motors

\* One row moves, for a cost no higher than before.
LEMMA RowBounds ==
  ASSUME Bounded, TypeOK', Granted', RowsInv', UNCHANGED <<prof, used, grant, live, basis>>,
         NEW k \in Keys, \A j \in Keys \ {k} : row'[j] = row[j], Costs(k)' <= Costs(k),
         k[1] \in Arbs => (k[1] \in live /\ k[2] = used[k[1]]) \/ Discount(k[1], k[2]) = 0
  PROVE  ExposureInv'
<1> USE DEF Bounded
<1> DEFINE m == k[1]
           i == k[2]
<1>1. m \in Motors /\ i \in Slots /\ k[3] \in {1, 2} /\ k = <<m, i, k[3]>>
  BY KeysTyped
<1>2. \A j \in Keys : ~(j[1] = m /\ j[2] = i) => row'[j] = row[j]
  OBVIOUS
<1>3. \A j \in Keys : Costs(j)' <= Costs(j)
  <2> TAKE j \in Keys
  <2>1. CASE j = k
    BY <2>1
  <2>2. CASE j # k
    <3>1. Costs(j)' = Costs(j) /\ Costs(j) \in Nat
      BY <2>2, CostType DEF Costs
    <3> QED BY <3>1
  <2> QED BY <2>1, <2>2
<1> HIDE DEF m, i
<1>4. m \in Singles => Costs(<<m, i, 1>>)' <= Costs(<<m, i, 1>>)
  BY <1>1, <1>3, KeysTyped
<1>5. m \in Arbs => IF m \in live /\ i = used[m]
                    THEN Costs(<<m, i, 1>>)' + Costs(<<m, i, 2>>)'
                           <= Costs(<<m, i, 1>>) + Costs(<<m, i, 2>>)
                    ELSE Shown(m, i)' <= Shown(m, i)
  <2> HAVE m \in Arbs
  <2>1. /\ Shown(m, i) \in Nat /\ Shown(m, i)' \in Nat
        /\ Discount(m, i) \in Nat /\ Discount(m, i)' \in Nat
        /\ Costs(<<m, i, 1>>) \in Nat /\ Costs(<<m, i, 2>>) \in Nat
        /\ Costs(<<m, i, 1>>)' \in Nat /\ Costs(<<m, i, 2>>)' \in Nat
        /\ Shown(m, i) = Costs(<<m, i, 1>>) + Costs(<<m, i, 2>>) - Discount(m, i)
        /\ Shown(m, i)' = Costs(<<m, i, 1>>)' + Costs(<<m, i, 2>>)' - Discount(m, i)'
    BY <1>1, TypedShown
  <2>2. Costs(<<m, i, 1>>)' <= Costs(<<m, i, 1>>) /\ Costs(<<m, i, 2>>)' <= Costs(<<m, i, 2>>)
    BY <1>1, <1>3, KeysTyped
  <2>3. ~(m \in live /\ i = used[m]) => Discount(m, i) = 0
    BY DEF m, i
  <2> QED BY <2>1, <2>2, <2>3
<1> QED BY <1>1, <1>2, <1>4, <1>5, AttemptBounds

\* A leg that is not filled makes no pair.
LEMMA NoPair ==
  ASSUME TypeOK, NEW k \in Keys, k[1] \in Arbs,
         row[k].st # "filled" \/ row[<<k[1], k[2], 3 - k[3]>>].st # "filled"
  PROVE  Discount(k[1], k[2]) = 0
<1>1. k[2] \in Slots /\ k[3] \in {1, 2} /\ k = <<k[1], k[2], k[3]>>
  BY KeysTyped
<1>2. \E l \in {1, 2} : row[<<k[1], k[2], l>>].st # "filled"
  <2>1. CASE row[k].st # "filled"
    BY <1>1, <2>1
  <2>2. CASE row[<<k[1], k[2], 3 - k[3]>>].st # "filled"
    <3>1. 3 - k[3] \in {1, 2}
      BY <1>1
    <3> QED BY <2>2, <3>1
  <2> QED BY <2>1, <2>2
<1>3. Pair(k[1], k[2]) = 0
  BY <1>2 DEF Pair
<1>4. Price[k[1]] * 0 = 0
  <2>1. Price[k[1]] \in Nat
    BY KeysTyped, BoundsAssumption
  <2> QED BY <2>1
<1> QED BY <1>1, <1>3, <1>4, PairType

\* A fill, a cancellation, a sale or a settlement never lifts the bound.
LEMMA OutcomesBound ==
  ASSUME Bounded, TypeOK', Granted', RowsInv', Outcomes
  PROVE  ExposureInv'
<1> USE DEF Bounded
<1>s. "filled" \in Statuses /\ "cancelled" \in Statuses /\ "settled" \in Statuses
  BY DEF Statuses
<1>n. \A k \in Keys : row[k].n \in 0..MaxCount
  BY DEF TypeOK
<1>1. ASSUME NEW k \in Keys, NEW n \in 1..MaxCount, Fills(k, n) PROVE ExposureInv'
  <2>1. row[k].st = "pending" /\ n <= row[k].n /\ n \in 0..MaxCount /\ Becomes(k, "filled", n)
    BY <1>1 DEF Fills
  <2>2. /\ row'[k].st = "filled" /\ row'[k].n = n
        /\ \A j \in Keys \ {k} : row'[j] = row[j]
        /\ UNCHANGED <<prof, used, grant, live, basis>>
    BY <1>s, <2>1, BecomesTyped
  <2>3. Costs(k)' <= Costs(k)
    <3>1. Price[k[1]] \in Nat /\ n \in Nat /\ row[k].n \in Nat
      BY <1>n, KeysTyped, BoundsAssumption
    <3>2. Price[k[1]] * n <= Price[k[1]] * row[k].n
      BY <2>1, <3>1, ProductGrows
    <3>3. Costs(k)' = Price[k[1]] * n /\ Costs(k) = Price[k[1]] * row[k].n
      BY <2>1, <2>2 DEF Costs
    <3> QED BY <3>2, <3>3
  <2>4. k[1] \in Arbs => Discount(k[1], k[2]) = 0
    BY <2>1, NoPair
  <2> QED BY <2>2, <2>3, <2>4, RowBounds
<1>2. ASSUME NEW k \in Keys, NEW st \in {"cancelled", "settled"}, Becomes(k, st, row[k].n),
             k[1] \in Arbs => (k[1] \in live /\ k[2] = used[k[1]]) \/ Discount(k[1], k[2]) = 0
      PROVE  ExposureInv'
  <2>1. /\ row'[k].st = st /\ \A j \in Keys \ {k} : row'[j] = row[j]
        /\ UNCHANGED <<prof, used, grant, live, basis>>
    BY <1>2, <1>s, <1>n, BecomesTyped
  <2>2. Costs(k)' <= Costs(k)
    <3>1. Costs(k)' = 0
      BY <2>1 DEF Costs
    <3>2. Costs(k) \in Nat
      BY CostType
    <3> QED BY <3>1, <3>2
  <2> QED BY <1>2, <2>1, <2>2, RowBounds
<1>3. ASSUME NEW k \in Keys, Kills(k) PROVE ExposureInv'
  <2>1. row[k].st = "pending" /\ Becomes(k, "cancelled", row[k].n)
    BY <1>3 DEF Kills
  <2>2. k[1] \in Arbs => Discount(k[1], k[2]) = 0
    BY <2>1, NoPair
  <2> QED BY <1>2, <2>1, <2>2
<1>4. ASSUME NEW k \in Keys, SellsBack(k) PROVE ExposureInv'
  <2>1. /\ Becomes(k, "settled", row[k].n) /\ k[1] \in Arbs
        /\ \/ row[<<k[1], k[2], 3 - k[3]>>].st # "filled"
           \/ k[1] \in live /\ k[2] = used[k[1]]
    BY <1>4 DEF SellsBack
  <2>2. (k[1] \in live /\ k[2] = used[k[1]]) \/ Discount(k[1], k[2]) = 0
    BY <2>1, NoPair
  <2> QED BY <1>2, <2>1, <2>2
<1>5. ASSUME NEW m \in Motors, NEW i \in Slots, NEW won \in BOOLEAN, Settles(m, i, won)
      PROVE  ExposureInv'
  <2> DEFINE S == {k \in Keys : k[1] = m /\ k[2] = i /\ row[k].st = "filled"}
  <2>1. /\ m \notin live \/ i # used[m]
        /\ \A l \in Legs(m) : row[<<m, i, l>>].st # "pending"
        /\ row' = [k \in Keys |-> IF k \in S THEN [row[k] EXCEPT !.st = "settled"] ELSE row[k]]
        /\ UNCHANGED <<prof, used, grant, live, basis>>
    BY <1>5 DEF Settles
  <2>2. \A k \in Keys : ~(k[1] = m /\ k[2] = i) => row'[k] = row[k]
    BY <2>1
  <2>3. \A l \in Legs(m) : <<m, i, l>> \in Keys => row'[<<m, i, l>>].st \notin {"pending", "filled"}
    <3>1. \A k \in Keys : row[k] \in [st : Statuses, n : 0..MaxCount, today : BOOLEAN]
      BY DEF TypeOK
    <3>2. \A k \in Keys : k \in S => row'[k].st = "settled"
      BY <2>1, <3>1
    <3>3. \A k \in Keys : k \notin S => row'[k] = row[k]
      BY <2>1
    <3> TAKE l \in Legs(m)
    <3> HAVE <<m, i, l>> \in Keys
    <3>4. <<m, i, l>> \in S <=> row[<<m, i, l>>].st = "filled"
      OBVIOUS
    <3> HIDE DEF S
    <3> QED BY <2>1, <3>2, <3>3, <3>4
  <2>4. \A l \in Legs(m) : <<m, i, l>> \in Keys => Costs(<<m, i, l>>)' = 0
    BY <2>3 DEF Costs
  <2>5. m \in Singles => Costs(<<m, i, 1>>)' <= Costs(<<m, i, 1>>)
    <3> HAVE m \in Singles
    <3>1. <<m, i, 1>> \in Keys /\ 1 \in Legs(m)
      BY KeysTyped DEF Legs
    <3>2. Costs(<<m, i, 1>>)' = 0 /\ Costs(<<m, i, 1>>) \in Nat
      BY <2>4, <3>1, CostType
    <3> QED BY <3>2
  <2>6. m \in Arbs => Shown(m, i)' <= Shown(m, i)
    <3> HAVE m \in Arbs
    <3>1. <<m, i, 1>> \in Keys /\ <<m, i, 2>> \in Keys /\ 1 \in Legs(m) /\ 2 \in Legs(m)
      BY KeysTyped DEF Legs
    <3>2. Costs(<<m, i, 1>>)' = 0 /\ Costs(<<m, i, 2>>)' = 0
      BY <2>4, <3>1
    <3>3. /\ Shown(m, i) \in Nat /\ Discount(m, i)' \in Nat /\ Shown(m, i)' \in Nat
          /\ Shown(m, i)' = Costs(<<m, i, 1>>)' + Costs(<<m, i, 2>>)' - Discount(m, i)'
      BY TypedShown
    <3> QED BY <3>2, <3>3
  <2> HIDE DEF S
  <2> QED BY <2>1, <2>2, <2>5, <2>6, AttemptBounds
<1> QED BY <1>1, <1>3, <1>4, <1>5 DEF Outcomes

\* Nor does the calendar, the balance, a pause or a restart.
LEMMA SurroundingsBound ==
  ASSUME Bounded, TypeOK', Granted', RowsInv', Surroundings
  PROVE  ExposureInv'
<1> USE DEF Bounded
<1>1. /\ \A k \in Keys : row'[k].st = row[k].st /\ row'[k].n = row[k].n
      /\ UNCHANGED <<prof, used, basis>>
      /\ \/ UNCHANGED <<grant, live>>
         \/ live' = {} /\ \A m \in Arbs : grant'[m] = 0
  BY SurroundingsRows
<1>2. Net' = Net /\ \A m \in Arbs, i \in Slots : Discount(m, i)' = Discount(m, i)
  BY <1>1, NetOfSame
<1>3. ASSUME NEW o \in Arbs PROVE Pledged(o)' <= Pledged(o)
  <2>1. Pledged(o) \in Nat /\ Pledged(o)' \in Nat
    BY PledgeBound, PledgeBoundNext
  <2>2. CASE UNCHANGED <<grant, live>>
    <3>1. o \in live => used[o] \in Slots
      BY BoundsAssumption DEF RowsInv, GrantsInv, TypeOK, Slots, Motors
    <3>2. Pledged(o)' = Pledged(o)
      BY <1>1, <1>2, <2>2, <3>1 DEF Pledged
    <3> QED BY <2>1, <3>2
  <2>3. CASE live' = {} /\ \A m \in Arbs : grant'[m] = 0
    <3>1. UnitCost(o) * 0 = 0
      BY UnitCosts, BoundsAssumption DEF Motors
    <3>2. Pledged(o)' = 0
      BY <2>3, <3>1 DEF Pledged
    <3> QED BY <2>1, <3>2
  <2> QED BY <1>1, <2>2, <2>3
<1>4. Net \in Int
  BY ExposureOfNet
<1>5. Net' <= Net
  BY <1>2, <1>4
<1> QED BY <1>1, <1>3, <1>5, FallsBounds

\* The rows an attempt writes: nothing stood there before, and they rest.
LEMMA WrittenRows ==
  ASSUME TypeOK, KeysInv, NEW m \in Motors, NEW n \in 0..MaxCount, Writes(m, n),
         used[m] < prof.slots[m]
  PROVE  LET i == used[m] + 1 IN
         /\ i \in Slots /\ used'[m] = i /\ \A o \in Motors \ {m} : used'[o] = used[o]
         /\ \A k \in Keys : ~(k[1] = m /\ k[2] = i) => row'[k] = row[k]
         /\ \A k \in Keys : k[1] = m /\ k[2] = i =>
              /\ row[k].st = "none" /\ row'[k].st = "pending" /\ row'[k].n = n /\ row'[k].today
              /\ ~row[k].today
              /\ Costs(k) = 0 /\ Costs(k)' = Price[m] * n
<1> DEFINE i == used[m] + 1
<1>1. used[m] \in Nat /\ prof.slots[m] \in 0..MaxSlots /\ i \in Slots
  BY ProfileTyped, BoundsAssumption DEF TypeOK, Slots
<1>2. /\ row' = [k \in Keys |-> IF k[1] = m /\ k[2] = i THEN Intent(n) ELSE row[k]]
      /\ used' = [used EXCEPT ![m] = used[m] + 1]
  BY DEF Writes
<1>3. used'[m] = i /\ \A o \in Motors \ {m} : used'[o] = used[o]
  BY <1>2 DEF TypeOK
<1>4. ASSUME NEW k \in Keys, k[1] = m, k[2] = i
      PROVE  /\ row[k].st = "none" /\ row'[k].st = "pending" /\ row'[k].n = n /\ row'[k].today
             /\ ~row[k].today
             /\ Costs(k) = 0 /\ Costs(k)' = Price[m] * n
  <2>1. k[2] > used[k[1]]
    BY <1>1, <1>4
  <2>2. row[k].st = "none" /\ ~row[k].today
    BY <2>1 DEF KeysInv
  <2>3. row'[k].st = "pending" /\ row'[k].n = n /\ row'[k].today
    BY <1>2, <1>4 DEF Intent
  <2> QED BY <1>4, <2>2, <2>3 DEF Costs
<1> QED BY <1>1, <1>2, <1>3, <1>4

\* A motor whose attempt nothing touches pledges what it pledged.
LEMMA PledgeKept ==
  ASSUME Bounded, NEW o \in Arbs, UNCHANGED grant,
         used'[o] = used[o], o \in live' <=> o \in live,
         \A k \in Keys : k[1] = o /\ k[2] = used[o] => row'[k] = row[k]
  PROVE  Pledged(o)' = Pledged(o)
<1>1. CASE o \notin live
  BY <1>1 DEF Pledged
<1>2. CASE o \in live
  <2>1. PICK j \in Slots : j = used[o]
    BY <1>2, BoundsAssumption DEF Bounded, RowsInv, GrantsInv, TypeOK, Slots, Motors
  <2>2. \A l \in {1, 2} : row'[<<o, j, l>>] = row[<<o, j, l>>]
    BY <2>1, KeysTyped
  <2>3. Discount(o, j)' = Discount(o, j)
    BY <2>2 DEF Discount, Pair
  <2>4. Pledged(o)' = Discount(o, j)' /\ Pledged(o) = Discount(o, j)
    BY <1>2, <2>1 DEF Pledged
  <2> QED BY <2>3, <2>4
<1> QED BY <1>1, <1>2

\* A motor of one leg writes its row in the step that approves it.
LEMMA SingleBounds ==
  ASSUME Bounded, TypeOK', Granted', RowsInv', NEW m \in Singles, NEW n \in 0..MaxCount,
         used[m] < prof.slots[m], Writes(m, n), UNCHANGED <<prof, grant, live>>,
         Exposure + Price[m] * n <= ExposureCap, Approval
  PROVE  ExposureInv'
<1> USE DEF Bounded
<1> DEFINE cost == Price[m] * n
<1>0. m \in Motors /\ m \notin Arbs /\ Arbs \subseteq Motors
  BY DEF Motors, Arbs, Singles
<1>i. PICK i \in Slots : i = used[m] + 1
  BY <1>0, WrittenRows DEF RowsInv
<1>1. /\ i \in Slots /\ \A o \in Motors \ {m} : used'[o] = used[o]
      /\ \A k \in Keys : ~(k[1] = m /\ k[2] = i) => row'[k] = row[k]
      /\ \A k \in Keys : k[1] = m /\ k[2] = i => Costs(k) = 0 /\ Costs(k)' = cost
  BY <1>0, <1>i, WrittenRows DEF RowsInv
<1>2. Costs(<<m, i, 1>>) = 0 /\ Costs(<<m, i, 1>>)' = cost
  <2>1. <<m, i, 1>> \in Keys /\ <<m, i, 1>>[1] = m /\ <<m, i, 1>>[2] = i
    BY <1>0, <1>1, KeysTyped
  <2> QED BY <1>1, <2>1
<1>3. cost \in Nat /\ Net \in Int
  BY <1>0, BoundsAssumption, ExposureOfNet
<1> HIDE DEF cost
<1>4. Net' = Net + cost
  <2>1. Net' = Net - Costs(<<m, i, 1>>) + Costs(<<m, i, 1>>)'
    BY <1>0, <1>1, NetOfAttempt
  <2> QED BY <1>2, <1>3, <2>1
<1>5. \A o \in Arbs : Pledged(o)' = Pledged(o)
  BY <1>0, <1>1, PledgeKept
<1>6. /\ \A o \in Arbs : PledgeOf'[o] = PledgeOf[o] /\ PledgeOf[o] \in Int
      /\ Pledges' \in Int
  BY <1>5, PledgeBound, PledgeBoundNext
<1>7. basis'.cap = ExposureCap /\ Exposure + cost <= ExposureCap
  BY DEF Approval, cost
<1>8. Net' + Pledges' <= Net + cost + SumFunctionOnSet(PledgeOf', Arbs)
  <2>1. Pledges' = SumFunctionOnSet(PledgeOf', Arbs)
    BY DEF Pledges
  <2> QED BY <1>3, <1>4, <1>6, <2>1
<1>9. Arbs \in SUBSET Arbs
  OBVIOUS
<1> QED BY <1>3, <1>7, <1>8, <1>9, ApprovalBounds

\* An entry keeps the bound: a grant pledges what its rows will cost.
LEMMA EntriesBound ==
  ASSUME Bounded, TypeOK', Granted', RowsInv', Entries
  PROVE  ExposureInv'
<1> USE DEF Bounded, ledger, capital
<1>a. /\ Arbs \subseteq Motors /\ "m2" \in Motors /\ "m5" \in Motors /\ "m2" \notin Arbs /\ "m5" \notin Arbs
      /\ "m2" \in Singles /\ "m5" \in Singles
  BY DEF Arbs, Singles, Motors
<1>b. ASSUME UNCHANGED row
      PROVE  Net' = Net /\ Net \in Int /\ \A m \in Arbs, i \in Slots : Discount(m, i)' = Discount(m, i)
  BY <1>b, NetOfSame, ExposureOfNet
<1>c. \A o \in Arbs : Pledged(o) \in Nat /\ Pledged(o)' \in Nat /\ UnitCost(o) * 0 = 0
  <2>1. \A o \in Arbs : UnitCost(o) \in Nat
    BY <1>a, UnitCosts, BoundsAssumption
  <2> QED BY <2>1, PledgeBound, PledgeBoundNext
<1>d. ASSUME NEW o \in Arbs, UNCHANGED <<row, used, grant>>, o \in live' <=> o \in live
      PROVE  Pledged(o)' = Pledged(o)
  BY <1>d, PledgeKept
<1>1. ASSUME NEW m \in Motors, Refuse(m) PROVE ExposureInv'
  <2>1. UNCHANGED <<prof, row, used, grant, live, basis>>
    BY <1>1 DEF Refuse
  <2>2. \A o \in Arbs : Pledged(o)' <= Pledged(o)
    BY <1>c, <1>d, <2>1
  <2>3. Net' <= Net
    BY <1>b, <2>1
  <2> QED BY <2>1, <2>2, <2>3, FallsBounds
<1>2. ASSUME NEW m \in Arbs, Grant(m) PROVE ExposureInv'
  <2> DEFINE cost == UnitCost(m) * Allowed(m)
             rest == SumFunctionOnSet(PledgeOf', Arbs \ {m})
  <2>1. /\ grant' = [grant EXCEPT ![m] = Allowed(m)] /\ Allowed(m) > 0 /\ m \notin live
        /\ basis' = [cap |-> ExposureCap, day |-> Aggregate]
        /\ UNCHANGED <<prof, row, used, live>>
    BY <1>2 DEF Grant, Passes, Approval, Wants
  <2>2. cost \in Nat /\ Exposure + cost <= ExposureCap
    BY <1>a, <2>1, AllowedFits
  <2>3. PledgeOf'[m] = cost
    BY <2>1 DEF PledgeOf, Pledged, TypeOK
  <2>4. \A o \in Arbs : PledgeOf'[o] \in Int
    BY PledgeBoundNext
  <2>5. Pledges' = cost + rest /\ rest \in Nat
    <3>1. Pledges' = PledgeOf'[m] + rest
      BY <2>4, FiniteRows, SumRemove DEF Pledges
    <3>2. Arbs \ {m} \in SUBSET Arbs
      OBVIOUS
    <3>3. rest \in Nat
      BY <3>2, PledgeBoundNext
    <3> QED BY <2>3, <3>1, <3>3
  <2> HIDE DEF cost
  <2>6. Net' + Pledges' <= Net + cost + SumFunctionOnSet(PledgeOf', Arbs \ {m})
    BY <1>b, <2>1, <2>2, <2>5
  <2>7. basis'.cap = ExposureCap /\ Arbs \ {m} \in SUBSET Arbs
    BY <2>1
  <2> QED BY <2>1, <2>2, <2>6, <2>7, ApprovalBounds
<1>3. ASSUME NEW m \in Arbs, Drop(m) PROVE ExposureInv'
  <2>1. grant' = [grant EXCEPT ![m] = 0] /\ m \notin live /\ UNCHANGED <<prof, row, used, live, basis>>
    BY <1>3 DEF Drop, Granted
  <2>2. Pledged(m)' = 0
    BY <1>c, <2>1 DEF Pledged, TypeOK
  <2>3. \A o \in Arbs \ {m} : Pledged(o)' = Pledged(o)
    <3> TAKE o \in Arbs \ {m}
    <3>1. grant'[o] = grant[o]
      BY <2>1 DEF TypeOK
    <3>2. o \in live => used[o] \in Slots
      BY BoundsAssumption DEF RowsInv, GrantsInv, TypeOK, Slots, Motors
    <3> QED BY <1>b, <2>1, <3>1, <3>2 DEF Pledged
  <2>4. \A o \in Arbs : Pledged(o)' <= Pledged(o)
    BY <1>c, <2>2, <2>3
  <2>5. Net' <= Net
    BY <1>b, <2>1
  <2> QED BY <2>1, <2>4, <2>5, FallsBounds
<1>4. ASSUME NEW m \in Arbs, Write(m) PROVE ExposureInv'
  <2> DEFINE n == grant[m]
  <2>1. /\ n > 0 /\ n \in 0..MaxCount /\ Writes(m, n) /\ m \notin live /\ used[m] < prof.slots[m]
        /\ grant' = [grant EXCEPT ![m] = 0] /\ live' = live \union {m}
        /\ UNCHANGED <<prof, basis>>
    BY <1>4 DEF Write, Granted, TypeOK
  <2>i. PICK i \in Slots : i = used[m] + 1
    BY <1>a, <2>1, WrittenRows DEF RowsInv
  <2>2. /\ i \in Slots /\ used'[m] = i /\ \A o \in Motors \ {m} : used'[o] = used[o]
        /\ \A k \in Keys : ~(k[1] = m /\ k[2] = i) => row'[k] = row[k]
        /\ \A k \in Keys : k[1] = m /\ k[2] = i =>
              /\ row[k].st = "none" /\ row'[k].st = "pending"
              /\ Costs(k) = 0 /\ Costs(k)' = Price[m] * n
    BY <1>a, <2>1, <2>i, WrittenRows DEF RowsInv
  <2> HIDE DEF n
  <2>3. /\ Costs(<<m, i, 1>>) = 0 /\ Costs(<<m, i, 1>>)' = Price[m] * n
        /\ Costs(<<m, i, 2>>) = 0 /\ Costs(<<m, i, 2>>)' = Price[m] * n
        /\ row[<<m, i, 1>>].st = "none" /\ row'[<<m, i, 1>>].st = "pending"
    <3>1. \A l \in {1, 2} : <<m, i, l>> \in Keys /\ <<m, i, l>>[1] = m /\ <<m, i, l>>[2] = i
      BY <2>2, KeysTyped
    <3> QED BY <2>2, <3>1
  <2>4. Discount(m, i) = 0 /\ Discount(m, i)' = 0
    <3>1. Pair(m, i) = 0
      BY <2>3 DEF Pair
    <3>3. Pair(m, i)' = 0
      BY <2>3 DEF Pair
    <3>2. 2 * Price[m] * 0 = 0
      BY <1>a, BoundsAssumption
    <3> QED BY <3>1, <3>2, <3>3 DEF Discount
  <2>5. Pledged(m) = 2 * (Price[m] * n) /\ Pledged(m)' = 0
    <3>1. \A p, q \in Nat : 2 * p * q = 2 * (p * q)
      OBVIOUS
    <3>2. Pledged(m) = UnitCost(m) * n /\ UnitCost(m) = 2 * Price[m] /\ Price[m] \in Nat /\ n \in Nat
      BY <1>a, <2>1, UnitCosts, BoundsAssumption DEF Pledged, n
    <3>3. Pledged(m)' = Discount(m, i)'
      BY <2>1, <2>2 DEF Pledged
    <3> QED BY <2>4, <3>1, <3>2, <3>3
  <2>6. Price[m] * n \in Nat
    BY <1>a, <2>1, BoundsAssumption
  <2>7. Net' = Net - Shown(m, i) + Shown(m, i)'
    BY <1>a, <2>2, NetOfAttempt
  <2>8. Net \in Int /\ Shown(m, i) = 0 /\ Shown(m, i)' = 2 * (Price[m] * n)
    <3>1. /\ Shown(m, i) = Costs(<<m, i, 1>>) + Costs(<<m, i, 2>>) - Discount(m, i)
          /\ Shown(m, i)' = Costs(<<m, i, 1>>)' + Costs(<<m, i, 2>>)' - Discount(m, i)'
          /\ Net \in Int
      BY <2>2, TypedShown
    <3> QED BY <2>3, <2>4, <2>6, <3>1
  <2>9. \A o \in Arbs \ {m} : Pledged(o)' = Pledged(o)
    <3> TAKE o \in Arbs \ {m}
    <3>1. /\ grant'[o] = grant[o] /\ used'[o] = used[o]
          /\ o \in live' <=> o \in live
      BY <1>a, <2>1, <2>2 DEF TypeOK
    <3>2. o \in live => used[o] \in Slots
      BY BoundsAssumption DEF RowsInv, GrantsInv, TypeOK, Slots, Motors
    <3>3. o \in live => \A l \in {1, 2} : row'[<<o, used[o], l>>] = row[<<o, used[o], l>>]
      BY <2>2, <3>2, KeysTyped
    <3>4. o \in live => Discount(o, used[o])' = Discount(o, used[o])
      BY <3>1, <3>3 DEF Discount, Pair
    <3> QED BY <3>1, <3>4 DEF Pledged
  <2>10. Net' + Pledged(m)' <= Net + Pledged(m)
    BY <2>5, <2>6, <2>7, <2>8
  <2> QED BY <2>1, <2>9, <2>10, MovesBounds
<1>5. ASSUME NEW m \in Arbs, AttemptEnds(m) PROVE ExposureInv'
  <2>1. m \in live /\ live' = live \ {m} /\ UNCHANGED <<prof, row, used, grant, basis>>
    BY <1>5 DEF AttemptEnds
  <2>2. Pledged(m)' = 0
    <3>1. grant[m] = 0
      BY <2>1, BoundsAssumption DEF Granted, TypeOK
    <3> QED BY <1>c, <2>1, <3>1 DEF Pledged
  <2>3. \A o \in Arbs \ {m} : Pledged(o)' = Pledged(o)
    BY <1>d, <2>1
  <2>4. \A o \in Arbs : Pledged(o)' <= Pledged(o)
    BY <1>c, <2>2, <2>3
  <2>5. Net' <= Net
    BY <1>b, <2>1
  <2> QED BY <2>1, <2>4, <2>5, FallsBounds
<1>6. CASE Reserve
  <2>1. /\ Writes("m2", Reserved) /\ Reserved \in 0..MaxCount /\ used["m2"] < prof.slots["m2"]
        /\ Reserved = Allowed("m2") /\ Allowed("m2") > 0 /\ Approval
        /\ UNCHANGED <<prof, grant, live>>
    BY <1>6, <1>a, AllowedFits DEF Reserve, Reserved, Wants, Passes
  <2>2. Exposure + Price["m2"] * Reserved <= ExposureCap
    <3>1. UnitCost("m2") = 1 * Price["m2"] /\ Price["m2"] \in Nat
      BY <1>a, UnitCosts, BoundsAssumption
    <3>2. UnitCost("m2") = Price["m2"]
      BY <3>1
    <3> QED BY <1>a, <2>1, <3>2, AllowedFits
  <2> QED BY <1>a, <2>1, <2>2, SingleBounds
<1>7. ASSUME NEW n \in 1..MaxCount, Quote(n) PROVE ExposureInv'
  <2>1. /\ Writes("m5", n) /\ n \in 0..MaxCount /\ used["m5"] < prof.slots["m5"]
        /\ ExposureCap - Exposure >= Price["m5"] * n /\ Approval
        /\ UNCHANGED <<prof, grant, live>>
    BY <1>7, <1>a DEF Quote, Wants
  <2>2. Exposure + Price["m5"] * n <= ExposureCap
    <3>1. Price["m5"] * n \in Nat /\ Exposure \in Nat /\ ExposureCap \in Nat
      BY <1>a, <2>1, BoundsAssumption, ExposureOfNet, CapitalType
    <3> QED BY <2>1, <3>1
  <2> QED BY <1>a, <2>1, <2>2, SingleBounds
<1> QED BY <1>1, <1>2, <1>3, <1>4, <1>5, <1>6, <1>7 DEF Entries

\* The bound is inductive.
LEMMA BoundedKept ==
  ASSUME Bounded, [Next]_vars
  PROVE  Bounded'
<1>1. TypeOK' /\ Granted'
  BY TypeKept DEF Bounded
<1>2. CASE UNCHANGED vars
  <2>1. UNCHANGED <<prof, row, used, grant, live, basis>>
    BY <1>2 DEF vars, ledger
  <2>2. RowsInv' /\ ExposureInv'
    BY <2>1 DEF Bounded, RowsInv, GrantsInv, KeysInv, ExposureInv, Net, CostOf, Costs,
                DiscountOf, Discount, Pair, Pledges, PledgeOf, Pledged, Allowance, Late
  <2> QED BY <1>1, <2>2 DEF Bounded
<1>3. CASE Entries
  BY <1>1, <1>3, EntriesRows, EntriesBound DEF Bounded
<1>4. CASE Outcomes
  BY <1>1, <1>4, OutcomesRows, OutcomesBound DEF Bounded
<1>5. CASE Surroundings
  BY <1>1, <1>5, SurroundingsRows, SurroundingsBound DEF Bounded
<1> QED BY <1>2, <1>3, <1>4, <1>5 DEF Next

\* There is no exposure at first.
LEMMA BoundedStarts ==
  ASSUME Init
  PROVE  Bounded
<1>1. TypeOK /\ Granted
  BY TypeStarts
<1>2. /\ \A k \in Keys : row[k].st = "none" /\ row[k].n = 0 /\ row[k].today = FALSE
      /\ \A m \in Arbs : grant[m] = 0
      /\ live = {} /\ basis.cap = 0
  BY DEF Init, Blank
<1>3. prof.tradeMax \in Nat /\ \A m \in Motors : UnitCost(m) * 0 = 0
  <2>1. \A m \in Motors : UnitCost(m) \in Nat
    BY UnitCosts, BoundsAssumption DEF Motors
  <2> QED BY <1>1, <2>1, ProfileTyped
<1>4. RowsInv
  <2>1. GrantsInv
    BY <1>2, <1>3 DEF GrantsInv, Motors
  <2>2. KeysInv
    BY <1>2, <1>3, KeysTyped DEF KeysInv
  <2> QED BY <2>1, <2>2 DEF RowsInv
<1>5. Net <= 0 /\ Net \in Int
  <2>1. \A k \in Keys : CostOf[k] = 0
    BY <1>2 DEF CostOf, Costs
  <2>2. SumFunctionOnSet(CostOf, Keys) = 0
    BY <2>1, FiniteRows, SumZero
  <2> QED BY <1>1, <2>2, TotalsType DEF Net
<1>6. Pledges = 0 /\ Allowance \in Nat
  <2>1. \A m \in Arbs : PledgeOf[m] = 0
    BY <1>2, <1>3 DEF PledgeOf, Pledged, Motors
  <2> QED BY <1>1, <1>4, <2>1, FiniteRows, SumZero, PledgeBound DEF Pledges
<1>7. ExposureInv
  BY <1>2, <1>5, <1>6 DEF ExposureInv
<1> QED BY <1>1, <1>4, <1>7 DEF Bounded

\* The types of the state, for every price, limit and profile.
THEOREM RiskTypeOK == Spec => []TypeOK
<1>1. TypeOK /\ Granted /\ [Next]_vars => TypeOK' /\ Granted'
  BY TypeKept
<1> QED BY <1>1, TypeStarts, PTL DEF Spec

\* In whatever order the motors check, write, fill and sell back, the exposure and
\* what was let pass stay within the cap of the last approval and one trade for each of
\* the motors that write late (calculate_position_size, get_mm_exposure_headroom).
THEOREM ExposureAlwaysBounded == Spec => []ExposureBounded
<1>1. Bounded => ExposureBounded
  <2> SUFFICES ASSUME Bounded PROVE ExposureBounded
    OBVIOUS
  <2>1. /\ Net \in Int /\ Exposure = IF Net >= 0 THEN Net ELSE 0
        /\ Pledges \in Nat /\ Allowance \in Nat /\ basis.cap \in Int
        /\ basis.cap >= 0 /\ Net + Pledges <= basis.cap + Allowance
    BY ExposureOfNet, PledgeBound DEF Bounded, ExposureInv, TypeOK
  <2>2. Pledges <= Allowance
    <3>1. Arbs \in SUBSET Arbs
      OBVIOUS
    <3> QED BY <3>1, PledgeBound DEF Bounded, Pledges
  <2>3. Exposure + Pledges <= basis.cap + Allowance
    BY <2>1, <2>2
  <2>4. Pledges = SumFunction([m \in Arbs |-> Pledged(m)])
    BY DEF Pledges, PledgeOf, SumFunction
  <2> QED BY <2>3, <2>4 DEF ExposureBounded, Allowance
<1>2. Bounded /\ [Next]_vars => Bounded'
  BY BoundedKept
<1> QED BY <1>1, <1>2, BoundedStarts, PTL DEF Spec

-----------------------------------------------------------------------------
(* The budget of the day *)

PlacedOf == [k \in Keys |-> PlacedToday(k)]
Placed   == SumFunctionOnSet(PlacedOf, Keys)

\* Under the experiment only Motor 1 has attempts, so only its grant is pledged.
BudgetInv ==
  /\ basis.day >= 0
  /\ prof.experiment => Placed + PledgedWithFees("m1") <= basis.day

Budgeted == TypeOK /\ Granted /\ RowsInv /\ BudgetInv

\* In the experiment the other motors have no attempt (_production_safety).
LEMMA ExperimentAlone ==
  ASSUME TypeOK, Granted, prof.experiment
  PROVE  (\A m \in Motors : used[m] < prof.slots[m] => m = "m1") /\ grant["rest"] = 0
<1>1. \A m \in Motors \ {"m1"} : prof.slots[m] = 0
  BY ProfilesAssumption DEF TypeOK, FailClosed
<1>2. \A m \in Motors : used[m] < prof.slots[m] => m = "m1"
  BY <1>1, BoundsAssumption DEF TypeOK
<1>3. "rest" \in Arbs /\ "rest" \in Motors
  BY DEF Arbs, Motors
<1>4. grant["rest"] \in Nat /\ ~(grant["rest"] > 0)
  BY <1>2, <1>3, BoundsAssumption DEF TypeOK, Granted
<1> QED BY <1>2, <1>4

\* The two legs of a contract cost their prices and their fees.
LEMMA PledgeType ==
  ASSUME TypeOK, NEW m \in Arbs
  PROVE  /\ PledgedWithFees(m) \in Nat
         /\ PledgedWithFees(m) = 2 * ((Price[m] + Fee) * grant[m])
         /\ Price[m] + Fee \in Nat
<1>1. Price[m] \in Nat /\ Fee \in Nat /\ grant[m] \in Nat
  BY BoundsAssumption DEF TypeOK, Motors
<1>2. UnitCost(m) = 2 * Price[m]
  BY UnitCosts
<1>3. \A p, q, g \in Nat : /\ (2 * p + 2 * q) * g = 2 * ((p + q) * g)
                           /\ (p + q) * g \in Nat
  <2> TAKE p, q, g \in Nat
  <2>1. \A s \in Nat : (2 * s) * g = 2 * (s * g)
    OBVIOUS
  <2>2. 2 * p + 2 * q = 2 * (p + q) /\ p + q \in Nat
    OBVIOUS
  <2> QED BY <2>1, <2>2
<1> QED BY <1>1, <1>2, <1>3 DEF PledgedWithFees

\* The same after a step.
LEMMA PledgeTypeNext ==
  TypeOK' => \A m \in Arbs : PledgedWithFees(m)' \in Nat
<1>1. TypeOK => \A m \in Arbs : PledgedWithFees(m) \in Nat
  BY PledgeType
<1>2. TypeOK' => (\A m \in Arbs : PledgedWithFees(m) \in Nat)'
  BY <1>1, PTL
<1> QED BY <1>2

\* What was placed today, row by row and together, is an amount.
LEMMA PlacedType ==
  ASSUME TypeOK
  PROVE  /\ \A k \in Keys : PlacedOf[k] = PlacedToday(k) /\ PlacedOf[k] \in Nat
         /\ Placed \in Nat
<1>1. \A k \in Keys : PlacedOf[k] = PlacedToday(k) /\ PlacedOf[k] \in Nat
  BY CostType DEF PlacedOf
<1> QED BY <1>1, FiniteRows, SumNat DEF Placed

\* The same after a step.
LEMMA PlacedTypeNext ==
  TypeOK' => /\ \A k \in Keys : PlacedOf'[k] = PlacedToday(k)' /\ PlacedOf'[k] \in Nat
             /\ Placed' \in Nat
<1>1. TypeOK => /\ \A k \in Keys : PlacedOf[k] = PlacedToday(k) /\ PlacedOf[k] \in Nat
                /\ Placed \in Nat
  BY PlacedType
<1>2. TypeOK' => (/\ \A k \in Keys : PlacedOf[k] = PlacedToday(k) /\ PlacedOf[k] \in Nat
                  /\ Placed \in Nat)'
  BY <1>1, PTL
<1>3. \A k \in Keys : PlacedOf'[k] = PlacedToday(k)'
  BY DEF PlacedOf
<1> QED BY <1>2, <1>3

\* What the gate counts as committed is what was placed today.
LEMMA CommittedIsPlaced ==
  ASSUME TypeOK, KeysInv
  PROVE  Committed = Placed
<1>1. \A k \in Keys : PlacedOf[k] \in Int /\ SpentOf[k] = PlacedOf[k]
  <2> TAKE k \in Keys
  <2>1. row[k].today => row[k].st # "none"
    BY DEF KeysInv
  <2>2. Spent(k) = PlacedToday(k)
    BY <2>1 DEF Spent, PlacedToday
  <2> QED BY <2>2, PlacedType DEF SpentOf, PlacedOf
<1>2. SumFunctionOnSet(SpentOf, Keys) = SumFunctionOnSet(PlacedOf, Keys)
  BY <1>1, FiniteRows, SumEqual
<1> QED BY <1>2, TotalsType DEF Placed

\* A step that places nothing more and grants nothing more keeps the budget.
LEMMA BudgetFalls ==
  ASSUME Budgeted, TypeOK', UNCHANGED <<prof, basis>>,
         \A k \in Keys : row'[k].today => row[k].today /\ row'[k].n <= row[k].n,
         grant'["m1"] <= grant["m1"]
  PROVE  BudgetInv'
<1> USE DEF Budgeted
<1>1. \A k \in Keys : PlacedOf'[k] \in Int /\ PlacedOf[k] \in Int /\ PlacedOf'[k] <= PlacedOf[k]
  <2> TAKE k \in Keys
  <2>1. /\ PlacedOf'[k] = PlacedToday(k)' /\ PlacedOf'[k] \in Nat
        /\ PlacedOf[k] = PlacedToday(k) /\ PlacedOf[k] \in Nat
    BY PlacedType, PlacedTypeNext
  <2>2. row'[k].n \in Nat /\ row[k].n \in Nat /\ Price[k[1]] + Fee \in Nat
    BY KeysTyped, BoundsAssumption DEF TypeOK
  <2>3. CASE row'[k].today
    <3>1. (Price[k[1]] + Fee) * row'[k].n <= (Price[k[1]] + Fee) * row[k].n
      BY <2>2, <2>3, ProductGrows
    <3> QED BY <2>1, <2>3, <3>1 DEF PlacedToday
  <2>4. CASE ~row'[k].today
    BY <2>1, <2>4 DEF PlacedToday
  <2> QED BY <2>1, <2>3, <2>4
<1>2. Placed' <= Placed
  <2>1. SumFunctionOnSet(PlacedOf', Keys) <= SumFunctionOnSet(PlacedOf, Keys)
    BY <1>1, FiniteRows, SumLeq
  <2>2. Placed' = SumFunctionOnSet(PlacedOf', Keys)
    BY DEF Placed
  <2> QED BY <2>1, <2>2 DEF Placed
<1>3. "m1" \in Arbs
  BY DEF Arbs
<1>4. PledgedWithFees("m1")' <= PledgedWithFees("m1")
  <2>1. UnitCost("m1") + 2 * Fee \in Nat
    BY <1>3, UnitCosts, BoundsAssumption DEF Motors
  <2>2. grant'["m1"] \in Nat /\ grant["m1"] \in Nat
    BY <1>3 DEF TypeOK
  <2>3. (UnitCost("m1") + 2 * Fee) * grant'["m1"] <= (UnitCost("m1") + 2 * Fee) * grant["m1"]
    BY <2>1, <2>2, ProductGrows
  <2>4. PledgedWithFees("m1")' = (UnitCost("m1") + 2 * Fee) * grant'["m1"]
    BY DEF PledgedWithFees, UnitCost
  <2> QED BY <2>3, <2>4 DEF PledgedWithFees
<1>5. /\ Placed \in Nat /\ Placed' \in Nat /\ basis.day \in Int
      /\ PledgedWithFees("m1") \in Nat /\ PledgedWithFees("m1")' \in Nat
  BY <1>3, PlacedType, PlacedTypeNext, PledgeType, PledgeTypeNext DEF TypeOK
<1> QED BY <1>2, <1>4, <1>5 DEF BudgetInv

\* An entry keeps the budget: what is granted is what its rows will commit.
LEMMA EntriesBudget ==
  ASSUME Budgeted, TypeOK', Granted', RowsInv', Entries
  PROVE  BudgetInv'
<1> USE DEF Budgeted, ledger, capital
<1>a. /\ Arbs \subseteq Motors /\ "m1" \in Arbs /\ "m2" \in Motors /\ "m5" \in Motors
  BY DEF Arbs, Singles, Motors
<1>t. /\ Placed \in Nat /\ Placed' \in Nat /\ basis.day \in Int /\ grant["m1"] \in Nat
      /\ \A m \in Arbs : PledgedWithFees(m) \in Nat /\ PledgedWithFees(m)' \in Nat
      /\ \A k \in Keys : row[k].n \in Nat
  BY <1>a, PlacedType, PlacedTypeNext, PledgeType, PledgeTypeNext DEF TypeOK
<1>1. ASSUME NEW m \in Motors, Refuse(m) PROVE BudgetInv'
  BY <1>1, <1>t, BudgetFalls DEF Refuse
<1>2. ASSUME NEW m \in Arbs, Grant(m) PROVE BudgetInv'
  <2>1. /\ grant' = [grant EXCEPT ![m] = Allowed(m)] /\ Allowed(m) > 0 /\ used[m] < prof.slots[m]
        /\ basis'.day = Aggregate /\ UNCHANGED <<prof, row>>
    BY <1>2 DEF Grant, Passes, Approval, Wants
  <2>2. CASE prof.experiment
    <3>1. m = "m1"
      BY <1>a, <2>1, <2>2, ExperimentAlone
    <3>2. Placed + (UnitCost(m) + 2 * Fee) * Allowed(m) <= Aggregate
      <4>1. Cardinality(Legs(m)) = 2
        BY UnitCosts
      <4> QED BY <1>a, <2>1, <2>2, <4>1, AllowedFits, CommittedIsPlaced DEF RowsInv
    <3>3. PledgedWithFees(m)' = (UnitCost(m) + 2 * Fee) * Allowed(m)
      <4>1. grant'[m] = Allowed(m)
        BY <2>1 DEF TypeOK
      <4> QED BY <4>1 DEF PledgedWithFees, UnitCost
    <3>4. Placed' = Placed
      BY <2>1 DEF Placed, PlacedOf, PlacedToday
    <3> QED BY <2>1, <3>1, <3>2, <3>3, <3>4, CapitalType DEF BudgetInv
  <2> QED BY <2>1, <2>2, CapitalType DEF BudgetInv
<1>3. ASSUME NEW m \in Arbs, Drop(m) PROVE BudgetInv'
  <2>1. grant'["m1"] <= grant["m1"]
    BY <1>a, <1>t, <1>3 DEF Drop, TypeOK
  <2> QED BY <1>3, <1>t, <2>1, BudgetFalls DEF Drop
<1>4. ASSUME NEW m \in Arbs, Write(m) PROVE BudgetInv'
  <2>1. /\ grant[m] > 0 /\ Writes(m, grant[m]) /\ used[m] < prof.slots[m]
        /\ grant' = [grant EXCEPT ![m] = 0] /\ UNCHANGED <<prof, basis>>
    BY <1>4 DEF Write, Granted
  <2>2. PICK n \in 0..MaxCount : n = grant[m]
    BY DEF TypeOK
  <2>3. CASE prof.experiment
    <3>1. m = "m1"
      BY <1>a, <2>1, <2>3, ExperimentAlone
    <3>2. PICK i \in Slots : i = used[m] + 1
      BY <1>a, <2>1, <2>2, WrittenRows DEF RowsInv
    <3>3. /\ \A k \in Keys : ~(k[1] = m /\ k[2] = i) => row'[k] = row[k]
          /\ \A k \in Keys : k[1] = m /\ k[2] = i => ~row[k].today /\ row'[k].today /\ row'[k].n = n
      BY <1>a, <2>1, <2>2, <3>2, WrittenRows DEF RowsInv
    <3>4. \A k \in Keys : /\ PlacedOf[k] \in Int /\ PlacedOf'[k] \in Int
                          /\ PlacedOf[k] = PlacedToday(k) /\ PlacedOf'[k] = PlacedToday(k)'
      BY PlacedType, PlacedTypeNext
    <3>5. \A k \in Keys : ~(k[1] = m /\ k[2] = i) => PlacedOf'[k] = PlacedOf[k]
      BY <3>3, <3>4 DEF PlacedToday
    <3>6. \A l \in {1, 2} : /\ <<m, i, l>> \in Keys /\ PlacedOf[<<m, i, l>>] = 0
                            /\ PlacedOf'[<<m, i, l>>] = (Price[m] + Fee) * n
      <4> TAKE l \in {1, 2}
      <4>1. <<m, i, l>> \in Keys /\ <<m, i, l>>[1] = m /\ <<m, i, l>>[2] = i
        BY KeysTyped
      <4>2. ~row[<<m, i, l>>].today /\ row'[<<m, i, l>>].today /\ row'[<<m, i, l>>].n = n
        BY <3>3, <4>1
      <4> QED BY <3>4, <4>1, <4>2 DEF PlacedToday
    <3>7. Placed' = Placed + 2 * ((Price[m] + Fee) * n)
      <4>1. Placed' = Placed - (PlacedOf[<<m, i, 1>>] + PlacedOf[<<m, i, 2>>])
                             + (PlacedOf'[<<m, i, 1>>] + PlacedOf'[<<m, i, 2>>])
        <5>1. Placed' = SumFunctionOnSet(PlacedOf', Keys)
          BY DEF Placed
        <5>2. m \in Motors
          BY <1>a
        <5> QED BY <5>1, <5>2, <3>4, <3>5, AttemptSum DEF Placed
      <4>2. (Price[m] + Fee) * n \in Nat
        BY <2>2, BoundsAssumption DEF Motors
      <4> QED BY <1>t, <3>6, <4>1, <4>2
    <3>8. PledgedWithFees(m) = 2 * ((Price[m] + Fee) * n)
      BY <2>2, PledgeType
    <3>9. PledgedWithFees(m)' = 0
      <4>1. grant'[m] = 0
        BY <2>1 DEF TypeOK
      <4>2. \A u \in Nat : u * 0 = 0
        OBVIOUS
      <4>3. UnitCost(m) + 2 * Fee \in Nat
        BY <1>a, UnitCosts, BoundsAssumption
      <4>4. PledgedWithFees(m)' = (UnitCost(m) + 2 * Fee) * grant'[m]
        BY DEF PledgedWithFees, UnitCost
      <4> QED BY <4>1, <4>2, <4>3, <4>4
    <3> QED BY <1>t, <2>1, <2>3, <3>1, <3>7, <3>8, <3>9 DEF BudgetInv
  <2> QED BY <2>1, <2>3 DEF BudgetInv
<1>5. ASSUME NEW m \in Arbs, AttemptEnds(m) PROVE BudgetInv'
  BY <1>5, <1>t, BudgetFalls DEF AttemptEnds
<1>6. CASE Reserve
  <2>1. UNCHANGED prof /\ basis'.day = Aggregate /\ ~prof.experiment
    BY <1>6, <1>a, ExperimentAlone DEF Reserve, Wants, Approval
  <2> QED BY <2>1, CapitalType DEF BudgetInv
<1>7. ASSUME NEW n \in 1..MaxCount, Quote(n) PROVE BudgetInv'
  <2>1. UNCHANGED prof /\ basis'.day = Aggregate /\ ~prof.experiment
    BY <1>7, <1>a, ExperimentAlone DEF Quote, Wants, Approval
  <2> QED BY <2>1, CapitalType DEF BudgetInv
<1> QED BY <1>1, <1>2, <1>3, <1>4, <1>5, <1>6, <1>7 DEF Entries

\* Whatever becomes of an entry, what it committed is not given back, nor made more.
LEMMA OutcomesBudget ==
  ASSUME Budgeted, TypeOK', Outcomes
  PROVE  BudgetInv'
<1> USE DEF Budgeted
<1>s. "filled" \in Statuses /\ "cancelled" \in Statuses /\ "settled" \in Statuses
  BY DEF Statuses
<1>n. \A k \in Keys : row[k].n \in 0..MaxCount /\ row[k].n \in Nat
  BY DEF TypeOK
<1>g. grant["m1"] <= grant["m1"]
  BY DEF TypeOK, Arbs
<1>1. ASSUME NEW k \in Keys, NEW st \in Statuses, NEW n \in 0..MaxCount, n <= row[k].n,
             Becomes(k, st, n)
      PROVE  BudgetInv'
  <2>1. /\ row'[k].n = n /\ row'[k].today = row[k].today
        /\ \A j \in Keys \ {k} : row'[j] = row[j]
        /\ UNCHANGED <<prof, grant, basis>>
    BY <1>1, BecomesTyped
  <2>2. \A j \in Keys : row'[j].today => row[j].today /\ row'[j].n <= row[j].n
    BY <1>1, <1>n, <2>1
  <2> QED BY <1>g, <2>1, <2>2, BudgetFalls
<1>2. ASSUME NEW k \in Keys, NEW n \in 1..MaxCount, Fills(k, n) PROVE BudgetInv'
  <2>1. n <= row[k].n /\ n \in 0..MaxCount /\ Becomes(k, "filled", n)
    BY <1>2 DEF Fills
  <2> QED BY <1>1, <1>s, <2>1
<1>3. ASSUME NEW k \in Keys, Kills(k) PROVE BudgetInv'
  <2>1. row[k].n <= row[k].n /\ Becomes(k, "cancelled", row[k].n)
    BY <1>3, <1>n DEF Kills
  <2> QED BY <1>1, <1>n, <1>s, <2>1
<1>4. ASSUME NEW k \in Keys, SellsBack(k) PROVE BudgetInv'
  <2>1. row[k].n <= row[k].n /\ Becomes(k, "settled", row[k].n)
    BY <1>4, <1>n DEF SellsBack
  <2> QED BY <1>1, <1>n, <1>s, <2>1
<1>5. ASSUME NEW m \in Motors, NEW i \in Slots, NEW won \in BOOLEAN, Settles(m, i, won)
      PROVE  BudgetInv'
  <2> DEFINE S == {k \in Keys : k[1] = m /\ k[2] = i /\ row[k].st = "filled"}
  <2>1. /\ row' = [k \in Keys |-> IF k \in S THEN [row[k] EXCEPT !.st = "settled"] ELSE row[k]]
        /\ UNCHANGED <<prof, grant, basis>>
    BY <1>5 DEF Settles
  <2> HIDE DEF S
  <2>2. \A k \in Keys : row[k] \in [st : Statuses, n : 0..MaxCount, today : BOOLEAN]
    BY DEF TypeOK
  <2>3. \A k \in Keys : row'[k].today = row[k].today /\ row'[k].n = row[k].n
    BY <2>1, <2>2
  <2>4. \A k \in Keys : row'[k].today => row[k].today /\ row'[k].n <= row[k].n
    BY <1>n, <2>3
  <2> QED BY <1>g, <2>1, <2>4, BudgetFalls
<1> QED BY <1>2, <1>3, <1>4, <1>5 DEF Outcomes

\* No row is written and nothing is approved by what surrounds the motors.
LEMMA SurroundingsBudget ==
  ASSUME Budgeted, TypeOK', Surroundings
  PROVE  BudgetInv'
<1> USE DEF Budgeted, ledger, capital
<1>1. /\ \A k \in Keys : row'[k].n = row[k].n
      /\ UNCHANGED <<prof, basis>>
      /\ UNCHANGED grant \/ \A m \in Arbs : grant'[m] = 0
  BY SurroundingsRows
<1>2. \A k \in Keys : row'[k].today => row[k].today
  <2>1. ASSUME NEW sunday \in BOOLEAN, NewExperimentDay(sunday)
        PROVE  \A k \in Keys : ~row'[k].today
    <3>1. row' = [k \in Keys |-> [row[k] EXCEPT !.today = FALSE]]
      BY <2>1 DEF NewExperimentDay
    <3>2. \A k \in Keys : row[k] \in [st : Statuses, n : 0..MaxCount, today : BOOLEAN]
      BY DEF TypeOK
    <3> QED BY <3>1, <3>2
  <2>2. CASE ~\E sunday \in BOOLEAN : NewExperimentDay(sunday)
    <3>1. UNCHANGED row
      BY <2>2 DEF Surroundings, Refresh, BalanceAges, Marks, NewPeriod, OthersPause, Resume,
                  Clear, Restart
    <3> QED BY <3>1
  <2> QED BY <2>1, <2>2
<1>3. grant'["m1"] <= grant["m1"]
  BY <1>1 DEF TypeOK, Arbs
<1>4. \A k \in Keys : row[k].n \in Nat
  BY DEF TypeOK
<1>5. \A k \in Keys : row'[k].today => row[k].today /\ row'[k].n <= row[k].n
  BY <1>1, <1>2, <1>4
<1> QED BY <1>1, <1>3, <1>5, BudgetFalls

\* The budget is inductive.
LEMMA BudgetKept ==
  ASSUME Budgeted, [Next]_vars
  PROVE  Budgeted'
<1>1. TypeOK' /\ Granted'
  BY TypeKept DEF Budgeted
<1>2. CASE UNCHANGED vars
  <2>1. UNCHANGED <<prof, row, used, grant, live, basis>>
    BY <1>2 DEF vars, ledger
  <2>2. RowsInv' /\ BudgetInv'
    BY <2>1 DEF Budgeted, RowsInv, GrantsInv, KeysInv, BudgetInv, Placed, PlacedOf,
                PlacedToday, PledgedWithFees, UnitCost
  <2> QED BY <1>1, <2>2 DEF Budgeted
<1>3. CASE Entries
  BY <1>1, <1>3, EntriesRows, EntriesBudget DEF Budgeted
<1>4. CASE Outcomes
  BY <1>1, <1>4, OutcomesRows, OutcomesBudget DEF Budgeted
<1>5. CASE Surroundings
  BY <1>1, <1>5, SurroundingsRows, SurroundingsBudget DEF Budgeted
<1> QED BY <1>2, <1>3, <1>4, <1>5 DEF Next

\* Nothing is spent at first.
LEMMA BudgetStarts ==
  ASSUME Init
  PROVE  Budgeted
<1>1. TypeOK /\ Granted /\ RowsInv
  BY BoundedStarts DEF Bounded
<1>2. (\A k \in Keys : ~row[k].today) /\ grant["m1"] = 0 /\ basis.day = 0 /\ "m1" \in Arbs
  BY DEF Init, Blank, Arbs
<1>3. Placed = 0
  <2>1. \A k \in Keys : PlacedOf[k] = 0
    BY <1>2 DEF PlacedOf, PlacedToday
  <2> QED BY <2>1, FiniteRows, SumZero DEF Placed
<1>4. PledgedWithFees("m1") = 0
  <2>1. UnitCost("m1") + 2 * Fee \in Nat
    BY <1>2, UnitCosts, BoundsAssumption DEF Motors
  <2>2. \A u \in Nat : u * 0 = 0
    OBVIOUS
  <2> QED BY <1>2, <2>1, <2>2 DEF PledgedWithFees
<1> QED BY <1>1, <1>2, <1>3, <1>4 DEF Budgeted, BudgetInv

\* The bank-200 experiment never commits more in a day than its budget, fees included
\* and counting what is approved and not yet written; closing, cancelling or winning
\* gives nothing back (_experiment_accounting_snapshot, calculate_position_size).
THEOREM BudgetAlwaysHolds == Spec => []DailyBudgetHolds
<1>1. Budgeted => DailyBudgetHolds
  <2> SUFFICES ASSUME Budgeted, prof.experiment
               PROVE  SumFunction([k \in Keys |-> PlacedToday(k)])
                        + SumFunction([m \in Arbs |-> PledgedWithFees(m)]) <= basis.day
    BY DEF DailyBudgetHolds
  <2> DEFINE pledge == [m \in Arbs |-> PledgedWithFees(m)]
  <2>1. Placed = SumFunction([k \in Keys |-> PlacedToday(k)])
    BY DEF Placed, PlacedOf, SumFunction
  <2>2. "m1" # "rest" /\ "m1" \in Arbs /\ "rest" \in Arbs /\ Arbs = {"m1", "rest"}
    BY DEF Arbs
  <2>3. pledge["m1"] = PledgedWithFees("m1") /\ pledge["m1"] \in Int
    BY <2>2, PledgeType DEF Budgeted
  <2>4. pledge["rest"] = 0
    <3>1. grant["rest"] = 0 /\ Price["rest"] + Fee \in Nat
      BY <2>2, ExperimentAlone, PledgeType DEF Budgeted
    <3>2. \A u \in Nat : 2 * (u * 0) = 0
      OBVIOUS
    <3>3. PledgedWithFees("rest") = 2 * ((Price["rest"] + Fee) * grant["rest"])
      BY <2>2, PledgeType DEF Budgeted
    <3> QED BY <2>2, <3>1, <3>2, <3>3
  <2>5. SumFunction([m \in Arbs |-> PledgedWithFees(m)]) = SumFunctionOnSet(pledge, Arbs)
    BY DEF SumFunction
  <2> HIDE DEF pledge
  <2>6. SumFunctionOnSet(pledge, Arbs) = PledgedWithFees("m1") + 0
    <3>1. pledge["rest"] \in Int
      BY <2>4
    <3>2. SumFunctionOnSet(pledge, {"m1", "rest"}) = pledge["m1"] + pledge["rest"]
      BY <2>2, <2>3, <3>1, SumOfTwo
    <3> QED BY <2>2, <2>3, <2>4, <3>2
  <2>7. PledgedWithFees("m1") + 0 = PledgedWithFees("m1")
    BY <2>2, PledgeType DEF Budgeted
  <2> QED BY <2>1, <2>5, <2>6, <2>7 DEF Budgeted, BudgetInv
<1>2. Budgeted /\ [Next]_vars => Budgeted'
  BY BudgetKept
<1> QED BY <1>1, <1>2, BudgetStarts, PTL DEF Spec

-----------------------------------------------------------------------------
\* The smallest of a set of places in the list of windows.
LEMMA MinBelow ==
  ASSUME NEW S \in SUBSET (1..4), NEW i \in S
  PROVE  Min(S) \in S /\ Min(S) <= i
<1>1. PICK m \in S : \A z \in S : m <= z
  <2>1. CASE 1 \in S
    BY <2>1
  <2>2. CASE 1 \notin S /\ 2 \in S
    BY <2>2
  <2>3. CASE 1 \notin S /\ 2 \notin S /\ 3 \in S
    BY <2>3
  <2>4. CASE 1 \notin S /\ 2 \notin S /\ 3 \notin S
    BY <2>4
  <2> QED BY <2>1, <2>2, <2>3, <2>4
<1> QED BY <1>1 DEF Min

-----------------------------------------------------------------------------
(* The capital follows the balance *)

\* The last balance read is taken, or close to the one that was.
Near ==
  raw # None =>
    cached = raw \/ 100 * Max({raw - cached, cached - raw}) < prof.smoothing * cached

CapitalInv ==
  /\ prof \in Profiles
  /\ cached \in Balances \union {None} /\ raw \in Balances \union {None}
  /\ Near

\* Every step keeps the capital near the last balance.
LEMMA CapitalKept ==
  ASSUME CapitalInv, [Next]_vars
  PROVE  CapitalInv'
<1> USE DEF ledger, capital
<1>1. CASE Entries
  BY <1>1
  DEF Entries, Refuse, Grant, Drop, Write, AttemptEnds, Reserve, Quote, CapitalInv, Near
<1>2. CASE Outcomes
  <2>1. ASSUME NEW k, NEW n, Fills(k, n) PROVE UNCHANGED <<prof, capital>>
    BY <2>1 DEF Fills, Becomes
  <2>2. ASSUME NEW k, Kills(k) \/ SellsBack(k) PROVE UNCHANGED <<prof, capital>>
    BY <2>2 DEF Kills, SellsBack, Becomes
  <2>3. ASSUME NEW m, NEW i, NEW won, Settles(m, i, won) PROVE UNCHANGED <<prof, capital>>
    BY <2>3 DEF Settles
  <2>4. UNCHANGED <<prof, capital>>
    BY <1>2, <2>1, <2>2, <2>3 DEF Outcomes
  <2> QED BY <2>4 DEF CapitalInv, Near
<1>3. ASSUME NEW b \in Balances, Refresh(b) PROVE CapitalInv'
  <2>1. /\ raw' = b /\ UNCHANGED prof
        /\ cached' = IF Moves(b) THEN b ELSE cached
    BY <1>3 DEF Refresh
  <2>2. CASE Moves(b)
    BY <2>1, <2>2 DEF CapitalInv, Near
  <2>3. CASE ~Moves(b)
    <3>1. cached \in Nat /\ b \in Nat /\ prof.smoothing \in Nat
      BY <2>3, BoundsAssumption, ProfilesAssumption DEF CapitalInv, Moves, ProfileType
    <3>2. prof.smoothing * cached \in Nat
      BY <3>1
    <3>3. Max({b - cached, cached - b}) \in Int
      BY <3>1, MaxOfTwo
    <3>4. 100 * Max({b - cached, cached - b}) < prof.smoothing * cached
      BY <2>3, <3>2, <3>3 DEF Moves
    <3> QED BY <2>1, <2>3, <3>4 DEF CapitalInv, Near
  <2> QED BY <2>2, <2>3
<1>4. CASE Restart
  BY <1>4 DEF Restart, CapitalInv, Near
<1>5. CASE /\ Surroundings
           /\ ~Restart /\ ~\E b \in Balances : Refresh(b)
  BY <1>5
  DEF Surroundings, BalanceAges, Marks, NewPeriod, NewExperimentDay, OthersPause, Resume, Clear,
      CapitalInv, Near
<1>6. CASE UNCHANGED vars
  BY <1>6 DEF vars, CapitalInv, Near
<1> QED BY <1>1, <1>2, <1>3, <1>4, <1>5, <1>6 DEF Next, Surroundings

\* The capital never drifts further from the last balance read than the smoothing,
\* however many changes too small to be taken follow each other
\* (refresh_capital_from_balance).
THEOREM DriftIsBounded == Spec => []SmallChangesAddUp
<1>1. Init => CapitalInv
  BY DEF Init, CapitalInv, Near
<1>2. CapitalInv /\ [Next]_vars => CapitalInv'
  BY CapitalKept
<1>3. CapitalInv => SmallChangesAddUp
  BY DEF CapitalInv, Near, SmallChangesAddUp
<1> QED BY <1>1, <1>2, <1>3, PTL DEF Spec

-----------------------------------------------------------------------------
(* A fatal loss stops the bot for good *)

\* A loss that must stop the bot is latched by the check that looks at it, whatever
\* other window loses with it: the day, which may be soft, is looked at last.
LEMMA FatalIsLatched ==
  ASSUME ~pause, ExperimentStop # "refuse", Fatal
  PROVE  StopOf = "latch"
<1>1. CASE ExperimentStop # "none"
  BY <1>1 DEF ExperimentStop, StopOf
<1>2. CASE ExperimentStop = "none"
  <2> DEFINE hit == {i \in 1..4 : Loses(Severity[i]) /\ (Severity[i] = "rolling" => prof.gated)}
  <2>1. PICK i \in 1..3 : Loses(Severity[i]) /\ (Severity[i] = "rolling" => prof.gated)
    <3>1. ~(prof.experiment /\ \E w \in Experiment : pnl[w] <= -Stop[w])
      BY <1>2 DEF ExperimentStop
    <3>2. Severity[1] = "rolling" /\ Severity[2] = "month" /\ Severity[3] = "week"
      BY DEF Severity
    <3> QED BY <3>1, <3>2 DEF Fatal
  <2>2. hit \in SUBSET (1..4) /\ i \in hit
    BY <2>1
  <2>3. Min(hit) \in 1..3
    <3> HIDE DEF hit
    <3>1. Min(hit) \in hit /\ Min(hit) <= i
      BY <2>2, MinBelow
    <3>2. Min(hit) \in 1..4
      BY <2>2, <3>1
    <3>3. Min(hit) <= 3
      BY <2>1, <3>1, <3>2
    <3> QED BY <3>2, <3>3
  <2>4. Severity[Min(hit)] # "day"
    <3> HIDE DEF hit
    <3> QED BY <2>3 DEF Severity
  <2>5. StopLoss = "latch"
    BY <2>2, <2>4 DEF StopLoss
  <2> QED BY <1>2, <2>5 DEF StopOf
<1> QED BY <1>1, <1>2

\* What a check has met is persisted, and what is persisted pauses.
LatchInv ==
  /\ prof \in Profiles
  /\ breached => ks
  /\ ks => pause

DatabaseWrites == \A p \in Profiles : "dbwrite" \notin p.faults

\* A check that meets a fatal loss latches it.
LEMMA CheckedLatches ==
  ASSUME DatabaseWrites, LatchInv, Checked, UNCHANGED prof
  PROVE  LatchInv'
<1>1. CASE StopOf = "latch"
  BY <1>1 DEF Checked, LatchInv, DatabaseWrites
<1>2. CASE StopOf # "latch"
  <2>1. ~(~pause /\ ExperimentStop # "refuse" /\ Fatal)
    BY <1>2, FatalIsLatched
  <2> QED BY <1>2, <2>1 DEF Checked, LatchInv
<1> QED BY <1>1, <1>2

\* Every step keeps the latch.
LEMMA LatchKept ==
  ASSUME DatabaseWrites, LatchInv, [Next]_vars
  PROVE  LatchInv'
<1> USE DEF ledger, capital
<1>1. CASE Entries
  <2>1. ASSUME NEW m \in Motors, Refuse(m) PROVE LatchInv'
    BY <2>1, CheckedLatches DEF Refuse
  <2>2. ASSUME NEW m \in Arbs, Grant(m) PROVE LatchInv'
    BY <2>2, CheckedLatches DEF Grant
  <2>3. ASSUME NEW m \in Arbs, Drop(m) \/ Write(m) \/ AttemptEnds(m) PROVE LatchInv'
    BY <2>3 DEF Drop, Write, AttemptEnds, LatchInv
  <2>4. CASE Reserve
    BY <2>4, CheckedLatches DEF Reserve
  <2>5. ASSUME NEW n \in 1..MaxCount, Quote(n) PROVE LatchInv'
    BY <2>5 DEF Quote, LatchInv
  <2> QED BY <1>1, <2>1, <2>2, <2>3, <2>4, <2>5 DEF Entries
<1>2. CASE Outcomes
  <2>1. UNCHANGED <<prof, ks, pause, breached>>
    BY <1>2 DEF Outcomes, Fills, Kills, SellsBack, Settles, Becomes
  <2> QED BY <2>1 DEF LatchInv
<1>3. CASE Surroundings
  <2>1. CASE Resume \/ Clear \/ Restart
    BY <2>1 DEF Resume, Clear, Restart, LatchInv
  <2>2. ASSUME NEW persisted \in BOOLEAN, OthersPause(persisted) PROVE LatchInv'
    <3>1. pause' /\ (ks => ks') /\ UNCHANGED <<prof, breached>>
      BY <2>2 DEF OthersPause
    <3> QED BY <3>1 DEF LatchInv
  <2>3. CASE \/ \E b \in Balances : Refresh(b)
             \/ BalanceAges
             \/ \E m \in Singles, b \in Bids \union {None} : Marks(m, b)
             \/ \E S \in prof.turns : NewPeriod(S)
             \/ \E sunday \in BOOLEAN : NewExperimentDay(sunday)
    <3>1. UNCHANGED <<prof, ks, pause, breached>>
      BY <2>3 DEF Refresh, BalanceAges, Marks, NewPeriod, NewExperimentDay
    <3> QED BY <3>1 DEF LatchInv
  <2> QED BY <1>3, <2>1, <2>2, <2>3 DEF Surroundings
<1>4. CASE UNCHANGED vars
  BY <1>4 DEF vars, LatchInv
<1> QED BY <1>1, <1>2, <1>3, <1>4 DEF Next

\* The functions an entry is seen by.
Grants == grant = [m \in Arbs |-> grant[m]] /\ used = [m \in Motors |-> used[m]]

\* Only a check that passed lets Motor 1, the REST motor or Motor 2 enter.
LEMMA EntryPasses ==
  ASSUME Grants, [Next]_vars
  PROVE  Grants' /\ (Entered => ~pause)
<1> USE DEF ledger, capital
<1>1. ASSUME UNCHANGED <<grant, used>> PROVE Grants' /\ ~Entered
  BY <1>1 DEF Grants, Entered
<1>2. CASE Entries
  <2>1. ASSUME NEW m \in Motors, Refuse(m) PROVE Grants' /\ ~Entered
    BY <2>1, <1>1 DEF Refuse
  <2>2. ASSUME NEW m \in Arbs, Grant(m) PROVE Grants' /\ ~pause
    <3>1. ~pause
      BY <2>2 DEF Grant, Passes, StopOf
    <3> QED BY <2>2, <3>1 DEF Grant, Grants
  <2>3. ASSUME NEW m \in Arbs, Drop(m) PROVE Grants' /\ ~Entered
    BY <2>3 DEF Drop, Grants, Entered
  <2>4. ASSUME NEW m \in Arbs, Write(m) PROVE Grants' /\ ~Entered
    BY <2>4 DEF Write, Writes, Grants, Entered, Motors, Arbs, Singles
  <2>5. ASSUME NEW m \in Arbs, AttemptEnds(m) PROVE Grants' /\ ~Entered
    BY <2>5, <1>1 DEF AttemptEnds
  <2>6. CASE Reserve
    <3>1. ~pause
      BY <2>6 DEF Reserve, Passes, StopOf
    <3> QED BY <2>6, <3>1 DEF Reserve, Writes, Grants
  <2>7. ASSUME NEW n \in 1..MaxCount, Quote(n) PROVE Grants' /\ ~Entered
    BY <2>7 DEF Quote, Writes, Grants, Entered, Motors, Arbs, Singles
  <2> QED BY <1>2, <2>1, <2>2, <2>3, <2>4, <2>5, <2>6, <2>7 DEF Entries
<1>3. CASE Outcomes
  BY <1>3, <1>1 DEF Outcomes, Fills, Kills, SellsBack, Settles, Becomes
<1>4. CASE Surroundings
  <2>1. CASE Restart
    BY <2>1 DEF Restart, Grants, Entered
  <2>2. CASE ~Restart
    BY <1>4, <2>2, <1>1
    DEF Surroundings, Refresh, BalanceAges, Marks, NewPeriod, NewExperimentDay, OthersPause,
        Resume, Clear
  <2> QED BY <2>1, <2>2
<1>5. CASE UNCHANGED vars
  BY <1>5, <1>1 DEF vars
<1> QED BY <1>2, <1>3, <1>4, <1>5 DEF Next

\* Where the kill-switch can be persisted, no entry is approved after a check met
\* a loss that stops the bot, until the operator clears it
\* (_check_timeframe_stop_losses, _check_experiment_stops, _trigger_kill_switch).
THEOREM FatalAlwaysLatches ==
  ASSUME DatabaseWrites
  PROVE  Spec => FatalLossLatches
<1>1. Init => LatchInv /\ Grants
  BY DEF Init, LatchInv, Grants
<1>2. LatchInv /\ [Next]_vars => LatchInv'
  BY LatchKept
<1>3. Grants /\ [Next]_vars => Grants'
  BY EntryPasses
<1>4. LatchInv /\ Grants /\ [Next]_vars => [Entered => ~breached]_vars
  BY EntryPasses DEF LatchInv
<1> QED BY <1>1, <1>2, <1>3, <1>4, PTL DEF Spec, FatalLossLatches

=============================================================================
