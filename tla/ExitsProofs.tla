----------------------------- MODULE ExitsProofs -----------------------------
(***************************************************************************)
(* Proofs about Exits, for every set of markets, lots and deployments.     *)
(* First what the sales and the settlement do to the lots of an arb that   *)
(* holds several, whatever fails.  Then, where one executor sells or no    *)
(* answer is lost, that the sales take no more than the lots hold and that *)
(* the rows agree with the account: a sale that no row accounts for is     *)
(* backed by open lots, and is the only one of its side of a market.       *)
(***************************************************************************)
EXTENDS Exits, Sums

USE DEF Braked

-----------------------------------------------------------------------------
(* What a step does to the BUY rows *)

Quiet ==
  /\ UNCHANGED rows
  /\ \/ legs' = legs
     \/ legs' = {}
     \/ legs' = {l \in Lots : lot[l] = "filled"}
     \/ legs' = legs \ Group

Closing == UNCHANGED legs /\ \E e, t, side, n : Close(e, t, side, n)

\* A sale finalised changes no lot, or closes those it sold.
LEMMA FinalizeMoves ==
  ASSUME NEW s, NEW n, Finalize(s, n)
  PROVE  UNCHANGED rows \/ \E e, t, side, m : Close(e, t, side, m)
BY DEF Finalize, Register, CannotRegister

\* A step leaves the lots alone, closes some, settles a group, or buys.
LEMMA StepMoves ==
  ASSUME [Next]_vars
  PROVE  Quiet \/ Closing \/ SettleGroup \/ \E l \in Lots, n \in 1..MaxSize : Bet(l, n)
<1> USE DEF Quiet, table
<1>1. ASSUME NEW e \in Engines, Engine(e) PROVE Quiet \/ Closing
  <2>1. CASE Load(e) \/ TickEnds(e) \/ ReconcileFails(e) \/ NoSale(e) \/ SendSale(e)
    BY <2>1 DEF Load, TickEnds, ReconcileFails, NoSale, SendSale
  <2>2. CASE Refused(e) \/ LoseAnswer(e) \/ \E w \in at[e].wants : Discard(e, w) \/ BeginExit(e, w)
    BY <2>2 DEF Refused, LoseAnswer, Discard, BeginExit
  <2>3. ASSUME NEW s, Free(s), UNCHANGED legs PROVE Quiet
    BY <2>3 DEF Free
  <2>4. ASSUME NEW s, NEW n, Finalize(s, n), UNCHANGED legs PROVE Quiet \/ Closing
    BY <2>4, FinalizeMoves DEF Closing
  <2>5. CASE ReconcileSale(e)
    <3>1. UNCHANGED legs /\ \E s : Finalize(s, sale[s].fill) \/ Free(s)
      BY <2>5 DEF ReconcileSale, Finalize
    <3> QED BY <3>1, <2>3, <2>4
  <2>6. CASE Answered(e)
    <3>1. UNCHANGED legs /\ \E s : Finalize(s, sale[s].fill) \/ Free(s)
      BY <2>6 DEF Answered
    <3> QED BY <3>1, <2>3, <2>4
  <2> QED BY <1>1, <2>1, <2>2, <2>5, <2>6 DEF Engine
<1>2. CASE Exchange
  BY <1>2 DEF Exchange, Vanish, Match, Resolve
<1>3. CASE ReadFilled \/ SkipGroup
  BY <1>3 DEF ReadFilled, SkipGroup
<1>4. CASE Sync \/ Pause \/ Resume \/ Crash \/ Boot
  BY <1>4 DEF Sync, Pause, Resume, Crash, Boot
<1>5. CASE UNCHANGED vars
  BY <1>5 DEF vars
<1> QED BY <1>1, <1>2, <1>3, <1>4, <1>5 DEF Next, Poller

\* _settle_originals touches open lots it may attribute, and only closes them.
LEMMA CloseMoves ==
  ASSUME NEW e, NEW t, NEW side, NEW n, Close(e, t, side, n)
  PROVE  /\ left' = [l \in Lots |-> left'[l]] /\ lot' = [l \in Lots |-> lot'[l]]
         /\ \A l \in Lots :
              /\ lot'[l] = lot[l] \/ (lot[l] = "filled" /\ lot'[l] = "closed")
              /\ left'[l] # left[l] => l \in Attributable(e, t, side)
              /\ lot[l] = "none" => left'[l] = left[l] /\ lot'[l] = lot[l]
<1> DEFINE S == Attributable(e, t, side)
<1>1. \A l \in S : l \in Lots /\ lot[l] = "filled"
  BY DEF Attributable, OpenLots
<1>2. /\ left' = [l \in Lots |-> IF l \in S THEN left[l] - Taken(S, l, n) ELSE left[l]]
      /\ lot' = [l \in Lots |-> IF l \in S /\ Taken(S, l, n) = left[l] THEN "closed" ELSE lot[l]]
  BY DEF Close
<1> HIDE DEF S
<1>3. ASSUME NEW l \in Lots
      PROVE  /\ lot'[l] = lot[l] \/ (lot[l] = "filled" /\ lot'[l] = "closed")
             /\ left'[l] # left[l] => l \in S
             /\ lot[l] = "none" => left'[l] = left[l] /\ lot'[l] = lot[l]
  BY <1>1, <1>2
<1> QED BY <1>2, <1>3 DEF S

-----------------------------------------------------------------------------
(* The settlement *)

\* Whatever the poller read of an arb, it read all of its filled lots, and while
\* it looks them up the arb gains none.
GroupInv ==
  /\ lot = [l \in Lots |-> lot[l]]
  /\ legs \subseteq Lots
  /\ GroupsSettleWhole
  /\ \A l \in legs, k \in Lots : Arb[k] = Arb[l] /\ lot[k] = "filled" => k \in legs

\* Every step keeps the groups that are being settled whole.
LEMMA GroupKept ==
  ASSUME GroupInv, [Next]_vars
  PROVE  GroupInv'
<1>1. CASE Quiet
  <2>1. UNCHANGED lot
    BY <1>1 DEF Quiet, rows
  <2>2. legs' \subseteq Lots
    BY <1>1 DEF Quiet, GroupInv
  <2>3. \A l \in legs', k \in Lots : Arb[k] = Arb[l] /\ lot[k] = "filled" => k \in legs'
    BY <1>1 DEF Quiet, GroupInv, Group
  <2> QED BY <2>1, <2>2, <2>3 DEF GroupInv, GroupsSettleWhole
<1>2. CASE Closing
  <2>1. UNCHANGED legs
    BY <1>2 DEF Closing
  <2>2. /\ lot' = [l \in Lots |-> lot'[l]]
        /\ \A l \in Lots : lot'[l] = lot[l] \/ (lot[l] = "filled" /\ lot'[l] = "closed")
    BY <1>2, CloseMoves DEF Closing
  <2> QED BY <2>1, <2>2 DEF GroupInv, GroupsSettleWhole
<1>3. CASE SettleGroup
  <2>1. /\ legs' = legs \ Group
        /\ lot' = [k \in Lots |-> IF k \in Group /\ lot[k] = "filled" THEN "settled" ELSE lot[k]]
    BY <1>3 DEF SettleGroup
  <2>2. \A k \in Lots, l \in legs : k \in Group /\ Arb[l] = Arb[k] => l \in Group
    BY DEF Group
  <2>3. \A k \in Group : k \in legs /\ k \in Lots
    BY DEF Group, GroupInv
  <2>4. GroupsSettleWhole'
    <3> SUFFICES ASSUME NEW k \in Lots, NEW l \in Lots,
                        Arb[k] = Arb[l], lot'[k] = "settled", lot'[l] = "filled"
                 PROVE  FALSE
      BY DEF GroupsSettleWhole
    <3>1. lot[l] = "filled" /\ l \notin Group
      BY <2>1
    <3>2. CASE lot[k] = "settled"
      BY <3>1, <3>2 DEF GroupInv, GroupsSettleWhole
    <3>3. CASE k \in Group
      <4>1. k \in legs /\ l \in legs
        BY <2>3, <3>1, <3>3 DEF GroupInv
      <4> QED BY <2>2, <3>1, <3>3, <4>1
    <3> QED BY <2>1, <3>2, <3>3
  <2>5. \A l \in legs', k \in Lots : Arb[k] = Arb[l] /\ lot'[k] = "filled" => k \in legs'
    BY <2>1, <2>2, <2>3 DEF GroupInv
  <2> QED BY <2>1, <2>4, <2>5 DEF GroupInv
<1>4. ASSUME NEW l \in Lots, NEW n \in 1..MaxSize, Bet(l, n) PROVE GroupInv'
  <2>1. /\ lot' = [lot EXCEPT ![l] = "filled"] /\ UNCHANGED legs /\ Owner[l] = "motor_2"
    BY <1>4 DEF Bet
  <2>2. \A k \in Lots : Arb[k] = Arb[l] => k = l
    BY <2>1, GroupsAssumption
  <2>3. \A k \in Lots : lot'[k] = IF k = l THEN "filled" ELSE lot[k]
    BY <2>1 DEF GroupInv
  <2> QED BY <2>1, <2>2, <2>3 DEF GroupInv, GroupsSettleWhole
<1> QED BY <1>1, <1>2, <1>3, <1>4, StepMoves

\* The filled legs of an arb are settled together, or all of them wait, whatever
\* the exits, the entries and a restart of the poller do in between (settle_once).
THEOREM GroupsAlwaysWhole == Spec => []GroupsSettleWhole
<1>1. Init => GroupInv
  BY DEF Init, GroupInv, GroupsSettleWhole
<1>2. GroupInv /\ [Next]_vars => GroupInv'
  BY GroupKept
<1>3. GroupInv => GroupsSettleWhole
  BY DEF GroupInv
<1> QED BY <1>1, <1>2, <1>3, PTL DEF Spec

-----------------------------------------------------------------------------
(* The exits *)

\* What a sale may take is alone in its arb.
LEMMA SoldIsAlone ==
  ASSUME NEW e, NEW t, NEW side, NEW l \in Attributable(e, t, side), NEW k \in OpenLots, k # l
  PROVE  Arb[k] # Arb[l]
<1>1. k \in Lots /\ l \in Lots
  BY DEF Attributable, OpenLots
<1>2. CASE Owner[l] = "motor_2"
  BY <1>1, <1>2, GroupsAssumption
<1>3. CASE Orphan(l)
  <2>1. Owner[l] = "motor_1" /\ ~Hedged(l)
    BY <1>3 DEF Orphan
  <2> SUFFICES ASSUME Arb[k] = Arb[l] PROVE FALSE
    OBVIOUS
  <2>2. Owner[k] = "motor_1" /\ Side[k] # Side[l]
    BY <1>1, <2>1, GroupsAssumption
  <2> QED BY <2>1, <2>2 DEF Hedged
<1> QED BY <1>2, <1>3 DEF Attributable

Counts == left = [l \in Lots |-> left[l]]

\* A step that takes from a lot with a strategy takes from one with no open sibling.
LEMMA HedgeStep ==
  ASSUME Counts, [Next]_vars
  PROVE  /\ Counts'
         /\ \A l \in Lots : lot[l] # "none" /\ left'[l] # left[l] =>
              \A k \in OpenLots : k # l => Arb[k] # Arb[l]
<1>1. CASE Quiet \/ SettleGroup
  BY <1>1 DEF Quiet, rows, SettleGroup, Counts
<1>2. CASE Closing
  <2>1. PICK e, t, side, n : Close(e, t, side, n)
    BY <1>2 DEF Closing
  <2>2. /\ left' = [l \in Lots |-> left'[l]]
        /\ \A l \in Lots : left'[l] # left[l] => l \in Attributable(e, t, side)
    BY <2>1, CloseMoves
  <2> QED BY <2>2, SoldIsAlone DEF Counts
<1>3. ASSUME NEW l \in Lots, NEW n \in 1..MaxSize, Bet(l, n)
      PROVE  /\ Counts'
             /\ \A k \in Lots : lot[k] # "none" => left'[k] = left[k]
  <2>1. lot[l] = "none" /\ left' = [left EXCEPT ![l] = n]
    BY <1>3 DEF Bet
  <2> QED BY <2>1 DEF Counts
<1> QED BY <1>1, <1>2, <1>3, StepMoves

\* No lot of an arb that holds two is sold, by either engine, at any tick, before
\* or after a crash (motor1_orphan_buys, _attributable_buys).
THEOREM HedgeAlwaysStays == Spec => HedgeStays
<1>1. Init => Counts
  BY ProfilesAssumption DEF Init, Counts, ProfileType
<1>2. Counts /\ [Next]_vars => Counts'
  BY HedgeStep
<1>3. Counts /\ [Next]_vars =>
        [\A l \in Lots : lot[l] # "none" /\ left'[l] # left[l] =>
           \A k \in OpenLots : k # l => Arb[k] # Arb[l]]_vars
  BY HedgeStep
<1> QED BY <1>1, <1>2, <1>3, PTL DEF Spec, HedgeStays

-----------------------------------------------------------------------------
(* What is sold, and what is open to be sold *)

\* The engine holds the lock of a market.
Locks(e, t) == at[e].pc \in {"reconcile", "book", "sent"} /\ at[e].now.ticker = t

\* What a sale has taken or may still take.
Amount(s) == IF sale[s].order = "flying" THEN sale[s].count ELSE sale[s].fill

\* A sale no row accounts for yet.
Claim(s) == sale[s].row = "pending" /\ Amount(s) > 0
On(s, t, d) == sale[s].ticker = t /\ sale[s].side = d

OpenFor(e, t, d) == Total(Attributable(e, t, d))

Numbers == 1..MaxSales

AmountOf(t, d)     == [s \in Numbers |-> IF s \in DOMAIN sale /\ On(s, t, d) THEN Amount(s) ELSE 0]
RegisteredOf(t, d) == [s \in Numbers |-> IF s \in DOMAIN sale /\ On(s, t, d) /\ sale[s].row = "settled"
                                         THEN sale[s].fill ELSE 0]
ClosedOf  == [l \in Lots |-> bought[l] - left[l]]

State ==
  [pc : {"down", "idle", "exits"}, wants : SUBSET Want]
    \union [pc : {"reconcile", "book", "sent"}, wants : SUBSET Want, now : Want]

\* Only an order that is done has filled; the row of one still flying is pending.
Sound(x) ==
  /\ x.by \in prof.engines /\ x.fill <= x.count
  /\ x.order # "done" => x.fill = 0
  /\ x.order = "flying" => x.row = "pending"

ShapeInv ==
  /\ at \in [Engines -> State] /\ sale \in Seq(Sale)
  /\ \A e \in Engines : at[e].pc \notin {"idle", "down"} => e \in prof.engines
  /\ \A s \in DOMAIN sale : Sound(sale[s])

\* A lot not bought is empty; a lot that is settled is of a market that resolved.
LotsInv ==
  \A l \in Lots : /\ lot[l] = "none" => left[l] = 0 /\ bought[l] = 0
                  /\ lot[l] = "settled" => Ticker[l] \in resolved

\* The sale an engine waits for is its last, and on the market it locked.
SentInv ==
  \A e \in Engines : at[e].pc = "sent" =>
    \E s \in DOMAIN sale :
      /\ sale[s].by = e /\ \A z \in DOMAIN sale : sale[z].by = e => z <= s
      /\ sale[s].row = "pending" /\ On(s, at[e].now.ticker, at[e].now.side)

LockInv == \A e, f \in Engines, t \in Tickers : Locks(e, t) /\ Locks(f, t) => e = f

\* A sale no row accounts for is waited for; or it could not be written, and nobody sells
\* on its market any more; or its executor is the only one.
OnlyOne(p) == \E e \in Engines : p.engines \subseteq {e}
ClaimsInv ==
  \A s \in DOMAIN sale : Claim(s) =>
    \/ at[sale[s].by].pc = "sent" /\ \A z \in DOMAIN sale : sale[z].by = sale[s].by => z <= s
    \/ Braked /\ \A e \in Engines : ~Locks(e, sale[s].ticker)
    \/ OnlyOne(prof)
KilledInv ==
  OnlyOne(prof) /\ Braked => \A e \in Engines, t \in Tickers : ~Locks(e, t)

\* There is one such sale of a side at most, and its lots are open.
BackedInv ==
  /\ \A s \in DOMAIN sale, e \in Engines, t \in Tickers, d \in Sides :
       Claim(s) /\ sale[s].by = e /\ On(s, t, d) /\ t \notin resolved => Amount(s) <= OpenFor(e, t, d)
  /\ \A s, z \in DOMAIN sale : Claim(s) /\ Claim(z) /\ On(z, sale[s].ticker, sale[s].side) => z = s
BookInv ==
  \A e \in Engines, t \in Tickers, d \in Sides :
    at[e].pc = "book" /\ at[e].now.ticker = t /\ at[e].now.side = d =>
      /\ t \notin resolved => at[e].now.count <= OpenFor(e, t, d)
      /\ \A s \in DOMAIN sale : Claim(s) => ~On(s, t, d)

\* What the SELL rows say was sold was taken from the BUY rows.
LedgerInv ==
  \A t \in Tickers, d \in Sides :
    \/ t \in resolved
    \/ Braked /\ \A e \in Engines : ~Locks(e, t)
    \/ SumFunctionOnSet(RegisteredOf(t, d), Numbers)
         <= SumFunctionOnSet(ClosedOf, Closable(t, d))

PotentialInv ==
  \A t \in Tickers, d \in Sides :
    \/ Misread(t, d)
    \/ SumFunctionOnSet(AmountOf(t, d), Numbers) <= SumFunctionOnSet(bought, Closable(t, d))

SalesInv == /\ ShapeInv /\ LotsInv /\ SentInv /\ LockInv /\ ClaimsInv /\ KilledInv
            /\ BackedInv /\ BookInv /\ LedgerInv /\ PotentialInv

-----------------------------------------------------------------------------
(* First in, first out *)

\* The lots of a sale give what it sold, when they hold it.
LEMMA TakenAll ==
  ASSUME NEW S \in SUBSET Lots, \A l \in S : left[l] \in Nat, NEW n \in Nat
  PROVE  /\ \A l \in S : Taken(S, l, n) \in 0..left[l]
         /\ n <= Total(S) => SumFunctionOnSet([l \in S |-> Taken(S, l, n)], S) = n
<1> DEFINE g == [l \in S |-> Taken(S, l, n)]
           Upto(T) == IF n <= Total(T) THEN n ELSE Total(T)
           Prefix(T) == \A k, l \in S : l \in T /\ k < l => k \in T
           Bad == {T \in SUBSET S : Prefix(T) /\ SumFunctionOnSet(g, T) # Upto(T)}
<1>0. /\ IsFiniteSet(S) /\ S \subseteq Nat
      /\ \A T \in SUBSET S : IsFiniteSet(T)
  BY LotsAssumption, FS_Subset
<1>1. \A T \in SUBSET S : Total(T) \in Nat
  BY <1>0, SumNat DEF Total
<1>2. ASSUME NEW l \in S
      PROVE  LET r == n - Total({k \in S : k < l})
                 m == IF r <= 0 THEN 0 ELSE r
             IN  Taken(S, l, n) = (IF left[l] <= m THEN left[l] ELSE m) /\ Taken(S, l, n) \in 0..left[l]
  <2> DEFINE r == n - Total({k \in S : k < l})
             m == IF r <= 0 THEN 0 ELSE r
  <2>1. Total({k \in S : k < l}) \in Nat
    BY <1>1
  <2>2. r \in Int /\ m \in Nat /\ left[l] \in Nat
    BY <2>1
  <2>3. Taken(S, l, n) = Min({left[l], Max({0, r})})
    BY DEF Taken
  <2> HIDE DEF r
  <2>4. Max({0, r}) = m
    BY <2>2, MaxOfTwo
  <2> HIDE DEF m
  <2>5. Min({left[l], m}) = IF left[l] <= m THEN left[l] ELSE m
    BY <2>2, MinOfTwo
  <2>6. Taken(S, l, n) = (IF left[l] <= m THEN left[l] ELSE m)
    BY <2>3, <2>4, <2>5
  <2>7. Taken(S, l, n) \in 0..left[l]
    BY <2>2, <2>6
  <2> QED BY <2>6, <2>7 DEF r, m
<1>3. \A l \in S : g[l] = Taken(S, l, n) /\ g[l] \in Int
  <2>1. \A l \in S : Taken(S, l, n) \in 0..left[l] /\ left[l] \in Nat
    BY <1>2
  <2>2. \A l \in S : Taken(S, l, n) \in Int
    BY <2>1
  <2> QED BY <2>2
<1> HIDE DEF g
<1>4. Bad = {}
  <2> SUFFICES ASSUME Bad # {} PROVE FALSE
    OBVIOUS
  <2>1. Bad \subseteq SUBSET S /\ Bad # {} /\ IsFiniteSet(S)
    BY <1>0
  <2>2. PICK T \in Bad : \A U \in Bad : ~(U \subseteq T /\ U # T)
    <3> HIDE DEF Bad
    <3> QED BY <2>1, SmallestSubset
  <2>3. T \in SUBSET S /\ Prefix(T) /\ SumFunctionOnSet(g, T) # Upto(T)
    OBVIOUS
  <2>4. T # {}
    <3>1. SumFunctionOnSet(g, {}) = 0 /\ Total({}) = 0
      BY FS_EmptySet, SumStep DEF Total
    <3> QED BY <2>3, <3>1
  <2>5. PICK x \in T : \A z \in T : z <= x
    <3>1. IsFiniteSet(T) /\ T \subseteq Int
      BY <1>0, <2>3
    <3> QED BY <2>4, <3>1, MaxOfSet
  <2> DEFINE U == T \ {x}
  <2>6. U \in SUBSET S /\ U = {k \in S : k < x} /\ x \in S
    <3>1. \A k \in T : k \in S /\ k \in Nat /\ (k # x => k < x)
      BY <1>0, <2>3, <2>5
    <3>2. \A k \in S : k \in Nat /\ (k < x => k \in T /\ k # x)
      BY <1>0, <2>3, <2>5
    <3> QED BY <3>1, <3>2
  <2>7. Prefix(U) /\ U \subseteq T /\ U # T
    BY <1>0, <2>5, <2>6
  <2>8. SumFunctionOnSet(g, U) = Upto(U)
    BY <2>2, <2>6, <2>7
  <2>9. SumFunctionOnSet(g, T) = g[x] + SumFunctionOnSet(g, U)
    <3>1. (\A y \in T : g[y] \in Int) /\ IsFiniteSet(T)
      BY <1>0, <1>3, <2>3
    <3> QED BY <2>5, <3>1, SumRemove
  <2>10. Total(T) = left[x] + Total(U)
    <3>1. (\A y \in T : left[y] \in Int) /\ IsFiniteSet(T)
      BY <1>0, <2>3
    <3> QED BY <2>5, <3>1, SumRemove DEF Total
  <2>11. LET r == n - Total(U)
             m == IF r <= 0 THEN 0 ELSE r
         IN  g[x] = IF left[x] <= m THEN left[x] ELSE m
    BY <1>2, <1>3, <2>6
  <2>12. Total(U) \in Nat /\ left[x] \in Nat
    BY <1>1, <2>6
  <2> HIDE DEF U, Bad
  <2> QED BY <2>3, <2>8, <2>9, <2>10, <2>11, <2>12
<1>5. S \notin Bad /\ Prefix(S) /\ S \in SUBSET S
  BY <1>4
<1>6. SumFunctionOnSet(g, S) = Upto(S)
  BY <1>5
<1>7. n <= Total(S) => SumFunctionOnSet(g, S) = n
  BY <1>6
<1> QED BY <1>2, <1>7 DEF g

-----------------------------------------------------------------------------
(* What a step does to the sales *)

\* Sale s alone changes, to what is given of it.
Moves(s, r, o, c, f) ==
  /\ sale' \in Seq(Sale) /\ DOMAIN sale' = DOMAIN sale /\ Len(sale') = Len(sale)
  /\ \A z \in DOMAIN sale \ {s} : sale'[z] = sale[z]
  /\ sale'[s].by = sale[s].by /\ sale'[s].ticker = sale[s].ticker /\ sale'[s].side = sale[s].side
  /\ sale'[s].row = r /\ sale'[s].order = o /\ sale'[s].count = c /\ sale'[s].fill = f

\* The fields of a sale.
LEMMA SaleTyped ==
  ASSUME ShapeInv, NEW s \in DOMAIN sale
  PROVE  /\ sale[s] \in Sale /\ sale[s].by \in Engines /\ sale[s].ticker \in Tickers
         /\ sale[s].side \in Sides /\ sale[s].count \in Nat /\ sale[s].fill \in Nat
         /\ Amount(s) \in Nat /\ s \in Nat
         /\ DOMAIN sale = 1..Len(sale) /\ Len(sale) \in Nat
<1>1. /\ sale \in Seq(Sale) /\ sale[s] \in Sale
      /\ DOMAIN sale = 1..Len(sale) /\ Len(sale) \in Nat
  BY DEF ShapeInv
<1>2. /\ sale[s].by \in Engines /\ sale[s].ticker \in Tickers /\ sale[s].side \in Sides
      /\ sale[s].count \in Nat /\ sale[s].fill \in Nat
  BY <1>1 DEF Sale
<1>3. Amount(s) \in Nat
  BY <1>2 DEF Amount
<1> QED BY <1>1, <1>2, <1>3

\* Every write of a sale in the model changes that sale alone.
LEMMA MovesWritten ==
  ASSUME ShapeInv, NEW s \in DOMAIN sale, NEW n \in Nat
  PROVE  /\ sale' = [sale EXCEPT ![s].row = "settled", ![s].count = n]
              => Moves(s, "settled", sale[s].order, n, sale[s].fill)
         /\ sale' = [sale EXCEPT ![s].row = "cancelled"]
              => Moves(s, "cancelled", sale[s].order, sale[s].count, sale[s].fill)
         /\ sale' = [sale EXCEPT ![s].row = "cancelled", ![s].order = "dead"]
              => Moves(s, "cancelled", "dead", sale[s].count, sale[s].fill)
         /\ sale' = [sale EXCEPT ![s].order = "done", ![s].fill = n]
              => Moves(s, sale[s].row, "done", sale[s].count, n)
         /\ sale' = [sale EXCEPT ![s].order = "dead"]
              => Moves(s, sale[s].row, "dead", sale[s].count, sale[s].fill)
         /\ sale' = sale => Moves(s, sale[s].row, sale[s].order, sale[s].count, sale[s].fill)
<1>1. ASSUME NEW x \in Sale, sale' = [sale EXCEPT ![s] = x]
      PROVE  /\ sale' \in Seq(Sale) /\ DOMAIN sale' = DOMAIN sale /\ Len(sale') = Len(sale)
             /\ \A z \in DOMAIN sale \ {s} : sale'[z] = sale[z]
             /\ sale'[s] = x
  BY <1>1 DEF ShapeInv
<1>2. sale[s] \in Sale
  BY SaleTyped
<1>s. "settled" \in SaleStatus /\ "cancelled" \in SaleStatus /\ "done" \in Order /\ "dead" \in Order
  BY DEF SaleStatus, Order
<1>3. ASSUME sale' = [sale EXCEPT ![s].row = "settled", ![s].count = n]
      PROVE  Moves(s, "settled", sale[s].order, n, sale[s].fill)
  <2> DEFINE x == [sale[s] EXCEPT !.row = "settled", !.count = n]
  <2>1. x \in Sale /\ x.by = sale[s].by /\ x.ticker = sale[s].ticker /\ x.side = sale[s].side
        /\ x.row = "settled" /\ x.order = sale[s].order /\ x.count = n /\ x.fill = sale[s].fill
    BY <1>2, <1>s DEF Sale
  <2>2. sale' = [sale EXCEPT ![s] = x]
    BY <1>3
  <2> HIDE DEF x
  <2> QED BY <1>1, <2>1, <2>2 DEF Moves
<1>4. ASSUME sale' = [sale EXCEPT ![s].row = "cancelled"]
      PROVE  Moves(s, "cancelled", sale[s].order, sale[s].count, sale[s].fill)
  <2> DEFINE x == [sale[s] EXCEPT !.row = "cancelled"]
  <2>1. x \in Sale /\ x.by = sale[s].by /\ x.ticker = sale[s].ticker /\ x.side = sale[s].side
        /\ x.row = "cancelled" /\ x.order = sale[s].order /\ x.count = sale[s].count
        /\ x.fill = sale[s].fill
    BY <1>2, <1>s DEF Sale
  <2>2. sale' = [sale EXCEPT ![s] = x]
    BY <1>4
  <2> HIDE DEF x
  <2> QED BY <1>1, <2>1, <2>2 DEF Moves
<1>5. ASSUME sale' = [sale EXCEPT ![s].row = "cancelled", ![s].order = "dead"]
      PROVE  Moves(s, "cancelled", "dead", sale[s].count, sale[s].fill)
  <2> DEFINE x == [sale[s] EXCEPT !.row = "cancelled", !.order = "dead"]
  <2>1. x \in Sale /\ x.by = sale[s].by /\ x.ticker = sale[s].ticker /\ x.side = sale[s].side
        /\ x.row = "cancelled" /\ x.order = "dead" /\ x.count = sale[s].count
        /\ x.fill = sale[s].fill
    BY <1>2, <1>s DEF Sale
  <2>2. sale' = [sale EXCEPT ![s] = x]
    BY <1>5
  <2> HIDE DEF x
  <2> QED BY <1>1, <2>1, <2>2 DEF Moves
<1>6. ASSUME sale' = [sale EXCEPT ![s].order = "done", ![s].fill = n]
      PROVE  Moves(s, sale[s].row, "done", sale[s].count, n)
  <2> DEFINE x == [sale[s] EXCEPT !.order = "done", !.fill = n]
  <2>1. x \in Sale /\ x.by = sale[s].by /\ x.ticker = sale[s].ticker /\ x.side = sale[s].side
        /\ x.row = sale[s].row /\ x.order = "done" /\ x.count = sale[s].count /\ x.fill = n
    BY <1>2, <1>s DEF Sale
  <2>2. sale' = [sale EXCEPT ![s] = x]
    BY <1>6
  <2> HIDE DEF x
  <2> QED BY <1>1, <2>1, <2>2 DEF Moves
<1>7. ASSUME sale' = [sale EXCEPT ![s].order = "dead"]
      PROVE  Moves(s, sale[s].row, "dead", sale[s].count, sale[s].fill)
  <2> DEFINE x == [sale[s] EXCEPT !.order = "dead"]
  <2>1. x \in Sale /\ x.by = sale[s].by /\ x.ticker = sale[s].ticker /\ x.side = sale[s].side
        /\ x.row = sale[s].row /\ x.order = "dead" /\ x.count = sale[s].count
        /\ x.fill = sale[s].fill
    BY <1>2, <1>s DEF Sale
  <2>2. sale' = [sale EXCEPT ![s] = x]
    BY <1>7
  <2> HIDE DEF x
  <2> QED BY <1>1, <2>1, <2>2 DEF Moves
<1>8. sale' = sale => Moves(s, sale[s].row, sale[s].order, sale[s].count, sale[s].fill)
  BY DEF ShapeInv, Moves
<1> QED BY <1>3, <1>4, <1>5, <1>6, <1>7, <1>8

\* The contracts of a set of lots.
LEMMA TotalType ==
  ASSUME TypeOK, NEW S \in SUBSET Lots
  PROVE  IsFiniteSet(S) /\ Total(S) \in Nat /\ \A l \in S : left[l] \in Nat /\ left[l] <= Total(S)
<1>1. IsFiniteSet(S) /\ \A l \in S : left[l] \in Nat
  <2>1. IsFiniteSet(S)
    BY LotsAssumption, FS_Subset
  <2>2. \A l \in Lots : left[l] \in 0..MaxSize
    BY DEF TypeOK
  <2> QED BY <2>1, <2>2, ProfilesAssumption
<1> QED BY <1>1, SumNat DEF Total

\* The lots a sale may take are open, and of its market and side.
LEMMA AttributableLots ==
  ASSUME NEW e, NEW t, NEW d
  PROVE  /\ Attributable(e, t, d) \subseteq Closable(t, d)
         /\ Attributable(e, t, d) \in SUBSET Lots
         /\ \A l \in Attributable(e, t, d) : lot[l] = "filled" /\ left[l] > 0
                                             /\ Ticker[l] = t /\ Side[l] = d
BY DEF Attributable, Closable, OpenLots, Orphan

\* What the exits of a market and side close, and what they leave alone.
LEMMA CloseTyped ==
  ASSUME TypeOK, NEW e, NEW t, NEW d, NEW n \in Nat, Close(e, t, d, n)
  PROVE  /\ lot' \in [Lots -> LotStatus] /\ left' \in [Lots -> 0..MaxSize] /\ bought' = bought
         /\ \A l \in Lots : left'[l] <= left[l]
         /\ \A l \in Lots \ Attributable(e, t, d) : lot'[l] = lot[l] /\ left'[l] = left[l]
         /\ \A l \in Attributable(e, t, d) :
              /\ left'[l] = left[l] - Taken(Attributable(e, t, d), l, n)
              /\ lot'[l] \in {"filled", "closed"}
              /\ lot'[l] = "filled" <=> left'[l] > 0
<1> DEFINE S == Attributable(e, t, d)
<1>1. /\ left' = [l \in Lots |-> IF l \in S THEN left[l] - Taken(S, l, n) ELSE left[l]]
      /\ lot' = [l \in Lots |-> IF l \in S /\ Taken(S, l, n) = left[l] THEN "closed" ELSE lot[l]]
      /\ bought' = bought
  BY DEF Close
<1>2. S \in SUBSET Lots /\ \A l \in S : lot[l] = "filled" /\ left[l] > 0
  BY AttributableLots
<1> HIDE DEF S
<1>3. \A l \in Lots : left[l] \in 0..MaxSize /\ lot[l] \in LotStatus
  BY DEF TypeOK
<1>4. \A l \in S : Taken(S, l, n) \in 0..left[l]
  <2>1. \A l \in S : left[l] \in Nat
    BY <1>2, <1>3
  <2> QED BY <1>2, <2>1, TakenAll
<1>5. "closed" \in LotStatus /\ MaxSize \in Nat
  BY ProfilesAssumption DEF LotStatus
<1>6. ASSUME NEW l \in S
      PROVE  /\ left'[l] = left[l] - Taken(S, l, n) /\ left'[l] \in 0..MaxSize /\ left'[l] <= left[l]
             /\ lot'[l] \in {"filled", "closed"} /\ (lot'[l] = "filled" <=> left'[l] > 0)
  <2>1. /\ left'[l] = left[l] - Taken(S, l, n)
        /\ lot'[l] = IF Taken(S, l, n) = left[l] THEN "closed" ELSE "filled"
    BY <1>1, <1>2
  <2>2. Taken(S, l, n) \in 0..left[l] /\ left[l] \in 0..MaxSize
    BY <1>2, <1>3, <1>4
  <2>3. \A a \in 0..MaxSize : \A b \in 0..a :
          a - b \in 0..MaxSize /\ a - b <= a /\ (b # a <=> a - b > 0)
    BY <1>5
  <2>4. /\ left'[l] \in 0..MaxSize /\ left'[l] <= left[l]
        /\ (Taken(S, l, n) # left[l] <=> left'[l] > 0)
    BY <2>1, <2>2, <2>3
  <2> QED BY <2>1, <2>4
<1>7. ASSUME NEW l \in Lots \ S PROVE left'[l] = left[l] /\ lot'[l] = lot[l]
  BY <1>1
<1>8. left' \in [Lots -> 0..MaxSize]
  <2>1. left' = [l \in Lots |-> left'[l]]
    BY <1>1
  <2>2. \A l \in Lots : left'[l] \in 0..MaxSize
    BY <1>3, <1>6, <1>7
  <2> QED BY <2>1, <2>2
<1>9. lot' \in [Lots -> LotStatus]
  BY <1>1, <1>3, <1>5
<1>10. \A l \in Lots : left'[l] <= left[l]
  BY <1>3, <1>6, <1>7
<1> QED BY <1>1, <1>6, <1>7, <1>8, <1>9, <1>10 DEF S

-----------------------------------------------------------------------------
(* What a step of an engine does *)

Others(e) == at' \in [Engines -> State] /\ \A f \in Engines \ {e} : at'[f] = at[f]
Retires(e) == Others(e) /\ at'[e].pc \in {"idle", "exits"}

\* The fields of what an engine is doing.
LEMMA StateParts ==
  ASSUME NEW x \in State
  PROVE  /\ x.pc \in {"down", "idle", "exits", "reconcile", "book", "sent"} /\ x.wants \in SUBSET Want
         /\ x.pc \in {"reconcile", "book", "sent"} => x.now \in Want
BY DEF State

\* An assignment to one engine leaves the others.
LEMMA AtChanged ==
  ASSUME ShapeInv, NEW e \in Engines, NEW x \in State, at' = [at EXCEPT ![e] = x]
  PROVE  Others(e) /\ at'[e] = x
BY DEF ShapeInv, Others

\* The exits an engine loads are of markets, sides and counts.
LEMMA LoadedTyped ==
  ASSUME TypeOK
  PROVE  Managed \subseteq Want /\ Bets \subseteq Want
<1>1. \A S \in SUBSET Lots : Total(S) \in Nat
  BY TotalType
<1>2. \A t \in Tickers : cache[t] \in Int /\ Size(cache[t]) \in Nat
  BY DEF TypeOK, Size
<1>3. Managed \subseteq Want
  <2> SUFFICES ASSUME NEW x \in Managed PROVE x \in Want
    OBVIOUS
  <2> DEFINE SideOf(t) == IF cache[t] > 0 THEN "yes" ELSE "no"
             strays(t) == {l \in Lots : /\ prof.orphans /\ Orphan(l) /\ Ticker[l] = t
                                        /\ Side[l] = SideOf(t)}
             bets(t) == {l \in OpenLots : /\ Owner[l] = "motor_2" /\ Ticker[l] = t
                                          /\ Side[l] = SideOf(t)}
             Count(t) == IF bets(t) # {} THEN Size(cache[t])
                                         ELSE Min({Size(cache[t]), Total(strays(t))})
  <2>0. PICK t \in Tickers : x = [ticker |-> t, side |-> SideOf(t), count |-> Count(t)]
    BY DEF Managed
  <2>1. Count(t) \in {Size(cache[t]), Min({Size(cache[t]), Total(strays(t))})}
    OBVIOUS
  <2>2. SideOf(t) \in Sides
    BY DEF Sides
  <2>3. strays(t) \in SUBSET Lots
    OBVIOUS
  <2> HIDE DEF strays, SideOf, bets, Count
  <2>4. Min({Size(cache[t]), Total(strays(t))}) \in Nat
    <3>1. Size(cache[t]) \in Nat /\ Total(strays(t)) \in Nat
      BY <1>1, <1>2, <2>3
    <3> QED BY <3>1, MinOfTwo
  <2>5. Count(t) \in Nat
    BY <1>2, <2>1, <2>4
  <2> QED BY <2>0, <2>2, <2>5 DEF Want
<1>4. Bets \subseteq Want
  <2> SUFFICES ASSUME NEW x \in Bets PROVE x \in Want
    OBVIOUS
  <2> DEFINE bets(t, side) == {l \in OpenLots : /\ Owner[l] = "motor_2" /\ Ticker[l] = t
                                                /\ Side[l] = side}
  <2>1. PICK t \in Tickers, d \in Sides : x = [ticker |-> t, side |-> d, count |-> Total(bets(t, d))]
    BY DEF Bets
  <2>2. bets(t, d) \in SUBSET Lots
    BY DEF OpenLots
  <2> HIDE DEF bets
  <2>3. Total(bets(t, d)) \in Nat
    BY <1>1, <2>2
  <2> QED BY <2>1, <2>3 DEF Want
<1> QED BY <1>3, <1>4

\* The steps that leave an engine without a lock, and everything else as it was.
LEMMA RetireSteps ==
  ASSUME TypeOK, ShapeInv, NEW e \in Engines,
         \/ Load(e) \/ TickEnds(e) \/ ReconcileFails(e) \/ NoSale(e) \/ LoseAnswer(e)
         \/ \E w \in at[e].wants : Discard(e, w)
  PROVE  /\ Retires(e) /\ e \in prof.engines
         /\ UNCHANGED <<prof, rows, sale, net, table, legs, resolved, brake, forgot>>
         /\ at[e].pc = "sent" => "lostsell" \in prof.faults
<1>e. at[e] \in State
  BY DEF ShapeInv
<1>n. {} \in SUBSET Want /\ at[e].wants \in SUBSET Want
  BY <1>e, StateParts
<1>1. ASSUME NEW x \in State, x.pc \in {"idle", "exits"}, at' = [at EXCEPT ![e] = x]
      PROVE  Retires(e)
  BY <1>1, AtChanged DEF Retires
<1>2. [pc |-> "idle", wants |-> {}] \in State /\ \A u \in SUBSET Want : [pc |-> "exits", wants |-> u] \in State
  BY <1>n DEF State
<1>3. CASE Load(e)
  <2>1. PICK due : /\ due \in SUBSET (IF e = "m3" THEN Managed ELSE Bets)
                   /\ at' = [at EXCEPT ![e] = [pc |-> "exits", wants |-> due]]
    BY <1>3 DEF Load
  <2>2. due \in SUBSET Want
    BY <2>1, LoadedTyped
  <2>3. Retires(e)
    BY <1>1, <1>2, <2>1, <2>2
  <2> QED BY <1>3, <2>3 DEF Load
<1>4. CASE TickEnds(e)
  <2>1. Retires(e)
    BY <1>1, <1>2, <1>4 DEF TickEnds, Resting
  <2> QED BY <1>4, <2>1 DEF TickEnds, ShapeInv
<1>5. CASE ReconcileFails(e) \/ NoSale(e) \/ LoseAnswer(e)
  <2>1. Retires(e)
    BY <1>1, <1>2, <1>5, <1>n DEF ReconcileFails, NoSale, LoseAnswer, Onward
  <2>2. at[e].pc \in {"reconcile", "book", "sent"} /\ (at[e].pc = "sent" => "lostsell" \in prof.faults)
    BY <1>5 DEF ReconcileFails, NoSale, LoseAnswer, Fault
  <2>3. e \in prof.engines
    BY <2>2 DEF ShapeInv
  <2> QED BY <1>5, <2>1, <2>2, <2>3 DEF ReconcileFails, NoSale, LoseAnswer
<1>6. ASSUME NEW w \in at[e].wants, Discard(e, w)
      PROVE  Retires(e) /\ e \in prof.engines /\ at[e].pc = "exits"
             /\ UNCHANGED <<prof, rows, sale, net, table, legs, resolved, brake, forgot>>
  <2>1. /\ at[e].pc = "exits" /\ at' = [at EXCEPT ![e].wants = at[e].wants \ {w}]
        /\ UNCHANGED <<prof, rows, sale, net, table, legs, resolved, brake, forgot>>
    BY <1>6 DEF Discard
  <2>2. at[e] = [pc |-> "exits", wants |-> at[e].wants]
    BY <1>e, <2>1 DEF State
  <2>3. at' = [at EXCEPT ![e] = [pc |-> "exits", wants |-> at[e].wants \ {w}]]
    <3>1. [at[e] EXCEPT !.wants = at[e].wants \ {w}] = [pc |-> "exits", wants |-> at[e].wants \ {w}]
      BY <2>2
    <3>2. at' = [at EXCEPT ![e] = [at[e] EXCEPT !.wants = at[e].wants \ {w}]]
      BY <2>1
    <3> QED BY <3>1, <3>2
  <2>4. at[e].wants \ {w} \in SUBSET Want
    BY <1>n
  <2>5. Retires(e)
    BY <1>1, <1>2, <2>3, <2>4
  <2> QED BY <2>1, <2>5 DEF ShapeInv
<1> QED BY <1>3, <1>4, <1>5, <1>6

\* Nothing of its own is unresolved and the market is free: the exit is sized by what is
\* open.
LEMMA DecidedTyped ==
  ASSUME NEW w \in Want, NEW u \in SUBSET Want, NEW open \in Nat
  PROVE  LET x == Decided(w, u, open) IN
         /\ x \in State
         /\ \/ x.pc = "exits"
            \/ /\ x.pc = "book" /\ x.now.ticker = w.ticker /\ x.now.side = w.side
               /\ x.now.count <= open
<1>1. CASE open = 0
  BY <1>1 DEF Decided, State
<1>2. CASE open # 0
  <2> DEFINE m == Min({w.count, open})
  <2>1. w.count \in Nat /\ w.ticker \in Tickers /\ w.side \in Sides
    BY DEF Want
  <2>2. m \in Nat /\ m <= open
    BY <2>1, MinOfTwo
  <2>3. Decided(w, u, open) = [pc |-> "book", wants |-> u, now |-> [w EXCEPT !.count = m]]
    BY <1>2 DEF Decided
  <2> HIDE DEF m
  <2> DEFINE v == [w EXCEPT !.count = m]
  <2>4. v \in Want /\ v.ticker = w.ticker /\ v.side = w.side /\ v.count = m
    BY <2>2 DEF Want
  <2>5. Decided(w, u, open) = [pc |-> "book", wants |-> u, now |-> v]
    BY <2>3
  <2> HIDE DEF v
  <2>6. [pc |-> "book", wants |-> u, now |-> v] \in State
    BY <2>4 DEF State
  <2> QED BY <2>2, <2>4, <2>5, <2>6
<1> QED BY <1>1, <1>2

\* An exit begins on a market that no engine has locked.
LEMMA BeginStep ==
  ASSUME TypeOK, ShapeInv, NEW e \in Engines, NEW w \in at[e].wants, BeginExit(e, w)
  PROVE  /\ Others(e) /\ e \in prof.engines /\ at[e].pc = "exits"
         /\ UNCHANGED <<prof, rows, sale, net, table, legs, resolved, brake, forgot>>
         /\ brake = "off" /\ LockFree(w.ticker) /\ w \in Want
         /\ \/ at'[e].pc = "exits"
            \/ at'[e].pc = "reconcile" /\ at'[e].now.ticker = w.ticker
            \/ /\ at'[e].pc = "book" /\ Unresolved(e, w) = {}
               /\ at'[e].now.ticker = w.ticker /\ at'[e].now.side = w.side
               /\ at'[e].now.count <= OpenFor(e, w.ticker, w.side)
<1>1. at[e] \in State /\ w \in Want /\ at[e].wants \ {w} \in SUBSET Want
  <2>1. at[e] \in State
    BY DEF ShapeInv
  <2> QED BY <2>1, StateParts
<1>2. /\ at[e].pc = "exits" /\ brake = "off" /\ LockFree(w.ticker)
      /\ UNCHANGED <<prof, rows, sale, net, table, legs, resolved, brake, forgot>>
      /\ at' = [at EXCEPT ![e] =
           IF Unresolved(e, w) = {} THEN Decided(w, at[e].wants \ {w}, Open(e, w))
           ELSE [pc |-> "reconcile", wants |-> at[e].wants \ {w}, now |-> w]]
  BY DEF BeginExit
<1>3. Open(e, w) = OpenFor(e, w.ticker, w.side) /\ Open(e, w) \in Nat
  BY AttributableLots, TotalType DEF Open, OpenFor
<1>4. e \in prof.engines
  BY <1>2 DEF ShapeInv
<1>5. CASE Unresolved(e, w) = {}
  <2> DEFINE x == Decided(w, at[e].wants \ {w}, Open(e, w))
  <2>1. at' = [at EXCEPT ![e] = x]
    BY <1>2, <1>5
  <2>2. /\ x \in State
        /\ \/ x.pc = "exits"
           \/ /\ x.pc = "book" /\ x.now.ticker = w.ticker /\ x.now.side = w.side
              /\ x.now.count <= Open(e, w)
    BY <1>1, <1>3, DecidedTyped
  <2> HIDE DEF x
  <2>3. Others(e) /\ at'[e] = x
    BY <2>1, <2>2, AtChanged
  <2> QED BY <1>1, <1>2, <1>3, <1>4, <1>5, <2>2, <2>3
<1>6. CASE Unresolved(e, w) # {}
  <2> DEFINE x == [pc |-> "reconcile", wants |-> at[e].wants \ {w}, now |-> w]
  <2>1. at' = [at EXCEPT ![e] = x]
    BY <1>2, <1>6
  <2>2. x \in State /\ x.pc = "reconcile" /\ x.now.ticker = w.ticker
    BY <1>1 DEF State
  <2> HIDE DEF x
  <2>3. Others(e) /\ at'[e] = x
    BY <2>1, <2>2, AtChanged
  <2> QED BY <1>1, <1>2, <1>4, <2>2, <2>3
<1> QED BY <1>5, <1>6

-----------------------------------------------------------------------------
(* What becomes of a sale that was answered *)

Registers(s) ==
  /\ sale[s].row = "pending" /\ sale[s].order = "done"
  /\ sale[s].fill > 0 /\ Moves(s, "settled", "done", sale[s].fill, sale[s].fill)
  /\ Close(sale[s].by, sale[s].ticker, sale[s].side, sale[s].fill)
  /\ UNCHANGED brake
Loses(s) ==
  /\ sale[s].fill > 0 /\ Braked' /\ UNCHANGED rows
  /\ \/ Moves(s, "pending", "done", sale[s].count, sale[s].fill)
     \/ Moves(s, "settled", "done", sale[s].fill, sale[s].fill)
Frees(s) ==
  /\ sale[s].fill = 0 /\ UNCHANGED <<rows, brake>>
  /\ \/ Moves(s, "cancelled", "done", sale[s].count, 0)
     \/ Moves(s, "pending", "done", sale[s].count, 0)

\* A sale of engine e on the market and side of its exit, answered and not written.
Answer(e, s) ==
  /\ s \in DOMAIN sale /\ sale[s].by = e /\ sale[s].row = "pending" /\ sale[s].order = "done"
  /\ On(s, at[e].now.ticker, at[e].now.side)
  /\ Registers(s) \/ Loses(s) \/ Frees(s)

\* _finalize_fill registers a sale or loses it; an empty one is freed.
LEMMA Written ==
  ASSUME ShapeInv, NEW s \in DOMAIN sale, sale[s].row = "pending", sale[s].order = "done",
         IF sale[s].fill > 0 THEN Finalize(s, sale[s].fill) ELSE Free(s)
  PROVE  Registers(s) \/ Loses(s) \/ Frees(s)
<1>1. sale[s].fill \in Nat
  BY SaleTyped
<1>2. CASE sale[s].fill > 0
  <2>1. \/ /\ sale' = [sale EXCEPT ![s].row = "settled", ![s].count = sale[s].fill]
           /\ Close(sale[s].by, sale[s].ticker, sale[s].side, sale[s].fill)
           /\ UNCHANGED brake
        \/ /\ sale' \in {sale, [sale EXCEPT ![s].row = "settled", ![s].count = sale[s].fill]}
           /\ Braked'
           /\ UNCHANGED rows
    BY <1>2 DEF Finalize, Register, CannotRegister
  <2> QED BY <1>1, <1>2, <2>1, MovesWritten DEF Registers, Loses
<1>3. CASE sale[s].fill = 0
  <2>1. sale' \in {Cancelled(s), sale} /\ UNCHANGED <<rows, brake>>
    BY <1>1, <1>3 DEF Free
  <2> QED BY <1>1, <1>3, <2>1, MovesWritten DEF Frees, Cancelled
<1> QED BY <1>1, <1>2, <1>3

\* The sale an engine waits for is the last it sent.
LEMMA SentIs ==
  ASSUME ShapeInv, SentInv, NEW e \in Engines, at[e].pc = "sent"
  PROVE  LET s == Sent(e) IN
         /\ s \in DOMAIN sale /\ sale[s].by = e /\ \A z \in DOMAIN sale : sale[z].by = e => z <= s
         /\ sale[s].row = "pending" /\ On(s, at[e].now.ticker, at[e].now.side)
<1> DEFINE S == {s \in DOMAIN sale : sale[s].by = e}
<1>1. PICK s \in DOMAIN sale :
        /\ sale[s].by = e /\ \A z \in DOMAIN sale : sale[z].by = e => z <= s
        /\ sale[s].row = "pending" /\ On(s, at[e].now.ticker, at[e].now.side)
  BY DEF SentInv
<1>2. DOMAIN sale = 1..Len(sale) /\ Len(sale) \in Nat
  BY <1>1, SaleTyped
<1>3. IsFiniteSet(S) /\ S # {} /\ S \subseteq Int /\ s \in S /\ \A z \in S : z <= s
  <2>1. IsFiniteSet(DOMAIN sale)
    BY <1>2, FS_Interval
  <2> QED BY <1>1, <1>2, <2>1, FS_Subset
<1> HIDE DEF S
<1>4. Max(S) = s
  <2>1. Max(S) \in S /\ \A z \in S : z <= Max(S)
    BY <1>3, MaxOfSet
  <2>2. Max(S) \in Int /\ s \in Int /\ Max(S) <= s /\ s <= Max(S)
    BY <1>3, <2>1
  <2> QED BY <2>2
<1>5. Sent(e) = s
  BY <1>4 DEF Sent, S
<1> QED BY <1>1, <1>5

\* The answer to the sale an engine waits for.
LEMMA AnsweredStep ==
  ASSUME ShapeInv, SentInv, NEW e \in Engines, Answered(e)
  PROVE  /\ at[e].pc = "sent" /\ e \in prof.engines /\ Others(e) /\ at'[e].pc = "exits"
         /\ UNCHANGED <<prof, net, table, legs, resolved, forgot>>
         /\ \E s : Answer(e, s) /\ \A z \in DOMAIN sale : sale[z].by = e => z <= s
<1>1. /\ at[e].pc = "sent" /\ sale[Sent(e)].order = "done"
      /\ at' = [at EXCEPT ![e] = Onward(e)]
      /\ UNCHANGED <<prof, net, table, legs, resolved, forgot>>
      /\ IF sale[Sent(e)].fill > 0 THEN Finalize(Sent(e), sale[Sent(e)].fill) ELSE Free(Sent(e))
  BY DEF Answered
<1>2. PICK s : s = Sent(e)
  OBVIOUS
<1>3. /\ s \in DOMAIN sale /\ sale[s].by = e /\ sale[s].row = "pending"
      /\ On(s, at[e].now.ticker, at[e].now.side)
      /\ \A z \in DOMAIN sale : sale[z].by = e => z <= s
  BY <1>1, <1>2, SentIs
<1>4. Registers(s) \/ Loses(s) \/ Frees(s)
  BY <1>1, <1>2, <1>3, Written
<1>5. Answer(e, s)
  BY <1>1, <1>2, <1>3, <1>4 DEF Answer
<1>6. Onward(e) \in State /\ Onward(e).pc = "exits"
  <2>1. at[e].wants \in SUBSET Want
    BY StateParts DEF ShapeInv
  <2> QED BY <2>1 DEF Onward, State
<1>7. Others(e) /\ at'[e].pc = "exits"
  BY <1>1, <1>6, AtChanged
<1> QED BY <1>1, <1>3, <1>5, <1>7 DEF ShapeInv

\* The answer of get_orders to a sale that was lost.
LEMMA ReconcileStep ==
  ASSUME TypeOK, ShapeInv, NEW e \in Engines, ReconcileSale(e)
  PROVE  /\ at[e].pc = "reconcile" /\ e \in prof.engines /\ Others(e)
         /\ UNCHANGED <<prof, net, table, legs, resolved, forgot>>
         /\ \E s, w :
              /\ Answer(e, s) /\ w = at[e].now
              /\ \/ at'[e].pc = "exits"
                 \/ brake' = brake /\ at'[e] = at[e]
                 \/ /\ brake' = brake /\ Unresolved(e, w) = {s}
                    /\ at'[e].pc = "book" /\ at'[e].now.ticker = w.ticker
                    /\ at'[e].now.side = w.side
                    /\ at'[e].now.count <= SumFunctionOnSet(left', Attributable(e, w.ticker, w.side)')
<1>1. at[e].pc = "reconcile" /\ UNCHANGED <<prof, net, table, legs, resolved, forgot>>
  BY DEF ReconcileSale
<1>2. PICK w \in {at[e].now}, s \in Unresolved(e, at[e].now) :
        /\ sale[s].order = "done"
        /\ IF sale[s].fill > 0 THEN Finalize(s, sale[s].fill) ELSE Free(s)
        /\ \/ /\ brake' = brake
              /\ at' = [at EXCEPT ![e] =
                   IF Unresolved(e, w) # {s} THEN @ ELSE Decided(w, @.wants, Open(e, w)')]
           \/ at' = [at EXCEPT ![e] = Onward(e)]
  BY DEF ReconcileSale, Finalize, Register, Free
<1>3. at[e] \in State /\ at[e].wants \in SUBSET Want /\ w \in Want /\ e \in prof.engines
  <2>1. at[e] \in State
    BY DEF ShapeInv
  <2> QED BY <1>1, <1>2, <2>1, StateParts DEF ShapeInv
<1>4. /\ s \in DOMAIN sale /\ sale[s].by = e /\ sale[s].row = "pending"
      /\ On(s, at[e].now.ticker, at[e].now.side)
  BY <1>2 DEF Unresolved, On
<1>5. Answer(e, s) /\ (Registers(s) \/ Loses(s) \/ Frees(s))
  BY <1>2, <1>4, Written DEF Answer
<1>6. Open(e, w)' = SumFunctionOnSet(left', Attributable(e, w.ticker, w.side)') /\ Open(e, w)' \in Nat
  <2>1. left' \in [Lots -> 0..MaxSize]
    <3>1. CASE Registers(s)
      <4>1. sale[s].fill \in Nat
        BY <1>4, SaleTyped
      <4> QED BY <3>1, <4>1, CloseTyped DEF Registers
    <3>2. CASE Loses(s) \/ Frees(s)
      BY <3>2 DEF Loses, Frees, rows, TypeOK
    <3> QED BY <1>5, <3>1, <3>2
  <2>2. Open(e, w)' = SumFunctionOnSet(left', Attributable(e, w.ticker, w.side)')
    BY DEF Open, Total
  <2>3. Attributable(e, w.ticker, w.side)' \in SUBSET Lots
    BY DEF Attributable, OpenLots
  <2>4. IsFiniteSet(Attributable(e, w.ticker, w.side)')
    BY <2>3, LotsAssumption, FS_Subset
  <2>5. \A l \in Attributable(e, w.ticker, w.side)' : left'[l] \in Nat
    BY <2>1, <2>3, ProfilesAssumption
  <2> QED BY <2>2, <2>4, <2>5, SumNat
<1>7. CASE at' = [at EXCEPT ![e] = Onward(e)]
  <2>1. at' = [at EXCEPT ![e] = Onward(e)] /\ Onward(e) \in State /\ Onward(e).pc = "exits"
    BY <1>3, <1>7 DEF Onward, State
  <2>2. Others(e) /\ at'[e].pc = "exits"
    BY <2>1, AtChanged
  <2> QED BY <1>1, <1>3, <1>5, <2>2
<1>8. CASE Unresolved(e, w) # {s} /\ brake' = brake /\ at' = [at EXCEPT ![e] = at[e]]
  <2>1. at' = [at EXCEPT ![e] = at[e]]
    BY <1>8
  <2>2. Others(e) /\ at'[e] = at[e]
    BY <1>3, <2>1, AtChanged
  <2> QED BY <1>1, <1>3, <1>5, <1>8, <2>2
<1>9. CASE /\ Unresolved(e, w) = {s} /\ brake' = brake
           /\ at' = [at EXCEPT ![e] = Decided(w, at[e].wants, Open(e, w)')]
  <2> DEFINE open == SumFunctionOnSet(left', Attributable(e, w.ticker, w.side)')
             x == Decided(w, at[e].wants, open)
  <2>1. at' = [at EXCEPT ![e] = x]
    BY <1>6, <1>9
  <2>2. open \in Nat
    BY <1>6
  <2> HIDE DEF open
  <2>3. /\ x \in State
        /\ \/ x.pc = "exits"
           \/ /\ x.pc = "book" /\ x.now.ticker = w.ticker /\ x.now.side = w.side
              /\ x.now.count <= open
    BY <1>3, <2>2, DecidedTyped
  <2> HIDE DEF x
  <2>4. Others(e) /\ at'[e] = x
    BY <2>1, <2>3, AtChanged
  <2> QED BY <1>1, <1>2, <1>3, <1>5, <1>9, <2>3, <2>4 DEF open
<1> QED BY <1>2, <1>7, <1>8, <1>9

\* The intent of a sale is a new row.
LEMMA SendStep ==
  ASSUME ShapeInv, NEW e \in Engines, SendSale(e)
  PROVE  LET w == at[e].now
             s == Len(sale) + 1
         IN
         /\ at[e].pc = "book" /\ e \in prof.engines /\ Others(e)
         /\ at'[e].pc = "sent" /\ at'[e].now = w /\ w \in Want
         /\ UNCHANGED <<prof, rows, net, table, legs, resolved, brake, forgot>>
         /\ w.ticker \notin resolved /\ Len(sale) < MaxSales
         /\ sale' \in Seq(Sale) /\ Len(sale') = s /\ DOMAIN sale' = DOMAIN sale \union {s}
         /\ s \notin DOMAIN sale
         /\ \A z \in DOMAIN sale : sale'[z] = sale[z]
         /\ sale'[s].by = e /\ sale'[s].ticker = w.ticker /\ sale'[s].side = w.side
         /\ sale'[s].count = w.count /\ sale'[s].row = "pending" /\ sale'[s].order = "flying"
         /\ sale'[s].fill = 0
<1> DEFINE w == at[e].now
           new == [by |-> e, ticker |-> w.ticker, side |-> w.side, count |-> w.count,
                   row |-> "pending", order |-> "flying", fill |-> 0]
<1>1. /\ at[e].pc = "book" /\ Len(sale) < MaxSales /\ w.ticker \notin resolved
      /\ sale' = Append(sale, new) /\ at' = [at EXCEPT ![e].pc = "sent"]
      /\ UNCHANGED <<prof, rows, net, table, legs, resolved, brake, forgot>>
  BY DEF SendSale
<1>2. at[e] \in State /\ w \in Want /\ at[e].wants \in SUBSET Want /\ e \in prof.engines
  <2>1. at[e] \in State
    BY DEF ShapeInv
  <2> QED BY <1>1, <2>1, StateParts DEF ShapeInv
<1>3. new \in Sale
  BY <1>2 DEF Sale, Want, SaleStatus, Order
<1>4. Others(e) /\ at'[e].pc = "sent" /\ at'[e].now = w
  <2> DEFINE x == [at[e] EXCEPT !.pc = "sent"]
  <2>1. at[e] = [pc |-> "book", wants |-> at[e].wants, now |-> w]
    BY <1>1, <1>2 DEF State
  <2>2. x = [pc |-> "sent", wants |-> at[e].wants, now |-> w]
    BY <2>1
  <2>3. [pc |-> "sent", wants |-> at[e].wants, now |-> w] \in State
    BY <1>2 DEF State
  <2>4. at' = [at EXCEPT ![e] = x]
    BY <1>1
  <2>5. x \in State /\ x.pc = "sent" /\ x.now = w
    BY <2>2, <2>3
  <2> HIDE DEF x
  <2> QED BY <2>4, <2>5, AtChanged
<1>5. sale \in Seq(Sale) /\ Len(sale) \in Nat
  BY DEF ShapeInv
<1>6. /\ new.by = e /\ new.ticker = w.ticker /\ new.side = w.side /\ new.count = w.count
      /\ new.row = "pending" /\ new.order = "flying" /\ new.fill = 0
  OBVIOUS
<1> HIDE DEF new, w
<1>7. /\ sale' \in Seq(Sale) /\ Len(sale') = Len(sale) + 1
      /\ DOMAIN sale' = 1..(Len(sale) + 1) /\ DOMAIN sale = 1..Len(sale)
      /\ \A z \in 1..Len(sale) : sale'[z] = sale[z]
      /\ sale'[Len(sale) + 1] = new
  BY <1>1, <1>3, <1>5
<1>8. DOMAIN sale' = DOMAIN sale \union {Len(sale) + 1} /\ Len(sale) + 1 \notin DOMAIN sale
  BY <1>5, <1>7
<1> QED BY <1>1, <1>2, <1>4, <1>6, <1>7, <1>8 DEF w

\* A sale refused never entered.
LEMMA RefusedStep ==
  ASSUME ShapeInv, SentInv, NEW e \in Engines, Refused(e)
  PROVE  /\ at[e].pc = "sent" /\ e \in prof.engines /\ Others(e) /\ at'[e].pc = "exits"
         /\ UNCHANGED <<prof, rows, net, table, legs, resolved, brake, forgot>>
         /\ \E s \in DOMAIN sale :
              /\ sale[s].by = e /\ sale[s].row = "pending" /\ sale[s].order = "flying"
              /\ \A z \in DOMAIN sale : sale[z].by = e => z <= s
              /\ Moves(s, "cancelled", "dead", sale[s].count, sale[s].fill)
<1>1. /\ at[e].pc = "sent" /\ sale[Sent(e)].order = "flying"
      /\ sale' = [sale EXCEPT ![Sent(e)].row = "cancelled", ![Sent(e)].order = "dead"]
      /\ at' = [at EXCEPT ![e] = Onward(e)]
      /\ UNCHANGED <<prof, rows, net, table, legs, resolved, brake, forgot>>
  BY DEF Refused
<1>2. PICK s : s = Sent(e)
  OBVIOUS
<1>3. /\ s \in DOMAIN sale /\ sale[s].by = e /\ sale[s].row = "pending"
      /\ \A z \in DOMAIN sale : sale[z].by = e => z <= s
  BY <1>1, <1>2, SentIs
<1>4. Moves(s, "cancelled", "dead", sale[s].count, sale[s].fill)
  BY <1>1, <1>2, <1>3, MovesWritten
<1>5. Onward(e) \in State /\ Onward(e).pc = "exits"
  <2>1. at[e].wants \in SUBSET Want
    BY StateParts DEF ShapeInv
  <2> QED BY <2>1 DEF Onward, State
<1>6. Others(e) /\ at'[e].pc = "exits"
  BY <1>1, <1>5, AtChanged
<1> QED BY <1>1, <1>2, <1>3, <1>4, <1>6 DEF ShapeInv

-----------------------------------------------------------------------------
(* Types *)

RowsType ==
  /\ lot \in [Lots -> LotStatus]
  /\ left \in [Lots -> 0..MaxSize] /\ bought \in [Lots -> 0..MaxSize]
  /\ \A l \in Lots : left[l] <= bought[l]
SalesType == sale \in Seq(Sale) /\ Len(sale) <= MaxSales /\ \A s \in DOMAIN sale : Sound(sale[s])
AtType    == at \in [Engines -> State]
             /\ \A e \in Engines : at[e].pc \notin {"idle", "down"} => e \in prof.engines
MarketType ==
  /\ net \in [Tickers -> Int] /\ cache \in [Tickers -> Int] /\ empties \in 0..1
  /\ legs \subseteq Lots /\ resolved \subseteq Tickers
  /\ brake \in {"off", "paused", "killed", "blind"} /\ forgot \in BOOLEAN
Typed == prof \in Profiles /\ RowsType /\ SalesType /\ AtType /\ MarketType /\ LotsInv

\* The types as the model states them.
LEMMA TypedMeans == Typed <=> TypeOK /\ ShapeInv /\ LotsInv
<1>1. ASSUME Typed PROVE TypeOK /\ ShapeInv /\ LotsInv
  <2>1. \A s \in DOMAIN sale : sale[s] \in Sale /\ sale[s].fill <= sale[s].count
    <3>1. sale \in Seq(Sale)
      BY <1>1 DEF Typed, SalesType
    <3> QED BY <1>1, <3>1 DEF Typed, SalesType, Sound
  <2>2. \A e \in Engines :
          /\ at[e].pc \in {"down", "idle", "exits", "reconcile", "book", "sent"}
          /\ at[e].wants \in SUBSET Want
          /\ at[e].pc \in {"reconcile", "book", "sent"} => at[e].now \in Want
    <3>1. \A e \in Engines : at[e] \in State
      BY <1>1 DEF Typed, AtType
    <3> QED BY <3>1, StateParts
  <2> QED BY <1>1, <2>1, <2>2
      DEF Typed, RowsType, SalesType, AtType, MarketType, TypeOK, ShapeInv
<1>2. ASSUME TypeOK, ShapeInv, LotsInv PROVE Typed
  BY <1>2 DEF Typed, RowsType, SalesType, AtType, MarketType, TypeOK, ShapeInv
<1> QED BY <1>1, <1>2

\* The same after a step.
LEMMA TypedMeansThen == Typed' <=> TypeOK' /\ ShapeInv' /\ LotsInv'
<1>1. Typed <=> TypeOK /\ ShapeInv /\ LotsInv
  BY TypedMeans
<1> QED BY <1>1, PTL

\* A change of one sale keeps the types of the sales.
LEMMA MovesTyped ==
  ASSUME Typed, NEW s \in DOMAIN sale, NEW r, NEW o, NEW c, NEW f, Moves(s, r, o, c, f),
         UNCHANGED prof, f <= c, o # "done" => f = 0, o = "flying" => r = "pending"
  PROVE  SalesType'
<1>1. /\ sale' \in Seq(Sale) /\ Len(sale') = Len(sale) /\ DOMAIN sale' = DOMAIN sale
      /\ \A z \in DOMAIN sale \ {s} : sale'[z] = sale[z]
      /\ sale'[s].by = sale[s].by
      /\ sale'[s].row = r /\ sale'[s].order = o /\ sale'[s].count = c /\ sale'[s].fill = f
  BY DEF Moves
<1>2. \A z \in DOMAIN sale : Sound(sale[z]) /\ Len(sale) <= MaxSales
  BY DEF Typed, SalesType
<1>3. Sound(sale[s])'
  BY <1>1, <1>2 DEF Sound
<1>4. \A z \in DOMAIN sale \ {s} : Sound(sale[z])'
  BY <1>1, <1>2 DEF Sound
<1> QED BY <1>1, <1>2, <1>3, <1>4 DEF SalesType

\* An answer keeps the types.
LEMMA AnswerTyped ==
  ASSUME Typed, NEW e \in Engines, NEW s, Answer(e, s), UNCHANGED <<prof, resolved>>
  PROVE  SalesType' /\ RowsType' /\ LotsInv' /\ brake' \in {"off", "paused", "killed", "blind"}
<1> USE TypedMeans
<1>1. s \in DOMAIN sale /\ sale[s].fill \in Nat /\ sale[s].fill <= sale[s].count /\ brake \in {"off", "paused", "killed", "blind"}
  BY SaleTyped DEF Answer, TypeOK
<1>2. CASE Registers(s)
  <2>1. /\ SalesType'
    BY <1>1, <1>2, MovesTyped DEF Registers
  <2> DEFINE S == Attributable(sale[s].by, sale[s].ticker, sale[s].side)
  <2>2. /\ lot' \in [Lots -> LotStatus] /\ left' \in [Lots -> 0..MaxSize] /\ bought' = bought
        /\ \A l \in Lots : left'[l] <= left[l]
        /\ \A l \in Lots \ S : lot'[l] = lot[l] /\ left'[l] = left[l]
        /\ \A l \in S : lot'[l] \in {"filled", "closed"}
    BY <1>1, <1>2, CloseTyped DEF Registers
  <2> HIDE DEF S
  <2>3. \A l \in Lots : left'[l] <= bought'[l]
    <3>1. \A l \in Lots : left[l] <= bought[l] /\ left[l] \in Int /\ bought[l] \in Int /\ left'[l] \in Int
      BY <2>2, ProfilesAssumption DEF TypeOK
    <3> QED BY <2>2, <3>1
  <2>4. LotsInv'
    BY <2>2 DEF LotsInv
  <2> QED BY <1>1, <1>2, <2>1, <2>2, <2>3, <2>4 DEF RowsType, Registers, TypeOK
<1>3. CASE Loses(s)
  <2>1. SalesType'
    BY <1>1, <1>3, MovesTyped DEF Loses
  <2> QED BY <1>3, <2>1 DEF Loses, rows, RowsType, TypeOK, LotsInv
<1>4. CASE Frees(s)
  <2>1. SalesType'
    BY <1>1, <1>4, MovesTyped DEF Frees
  <2> QED BY <1>1, <1>4, <2>1 DEF Frees, rows, RowsType, TypeOK, LotsInv
<1> QED BY <1>2, <1>3, <1>4 DEF Answer

\* A step of an engine keeps the types.
LEMMA EngineTyped ==
  ASSUME Typed, SentInv, NEW e \in Engines, Engine(e)
  PROVE  Typed'
<1> USE TypedMeans DEF table
<1>a. ASSUME e \in prof.engines, Others(e), UNCHANGED prof PROVE AtType'
  BY <1>a DEF AtType, Others, ShapeInv
<1>k. /\ RowsType /\ SalesType /\ MarketType /\ LotsInv /\ prof \in Profiles
      /\ UNCHANGED rows => RowsType'
      /\ UNCHANGED <<prof, sale>> => SalesType'
      /\ UNCHANGED <<net, table, legs, resolved, brake, forgot>> => MarketType'
      /\ UNCHANGED <<rows, resolved>> => LotsInv'
  BY DEF Typed, rows, RowsType, SalesType, MarketType, LotsInv, Sound
<1>1. CASE \/ Load(e) \/ TickEnds(e) \/ ReconcileFails(e) \/ NoSale(e) \/ LoseAnswer(e)
           \/ \E w \in at[e].wants : Discard(e, w)
  <2>1. /\ Others(e) /\ e \in prof.engines
        /\ UNCHANGED <<prof, rows, sale, net, table, legs, resolved, brake, forgot>>
    BY <1>1, RetireSteps DEF Retires
  <2> QED BY <1>a, <1>k, <2>1 DEF Typed
<1>2. ASSUME NEW w \in at[e].wants, BeginExit(e, w) PROVE Typed'
  <2>1. /\ Others(e) /\ e \in prof.engines
        /\ UNCHANGED <<prof, rows, sale, net, table, legs, resolved, brake, forgot>>
    BY <1>2, BeginStep
  <2> QED BY <1>a, <1>k, <2>1 DEF Typed
<1>3. CASE ReconcileSale(e) \/ Answered(e)
  <2>1. /\ Others(e) /\ e \in prof.engines
        /\ UNCHANGED <<prof, net, table, legs, resolved, forgot>>
        /\ \E s : Answer(e, s)
    BY <1>3, AnsweredStep, ReconcileStep
  <2> QED BY <1>a, <2>1, AnswerTyped DEF Typed, MarketType
<1>4. CASE SendSale(e)
  <2>0. PICK s : s = Len(sale) + 1
    OBVIOUS
  <2>1. /\ Others(e) /\ e \in prof.engines
        /\ UNCHANGED <<prof, rows, net, table, legs, resolved, brake, forgot>>
        /\ Len(sale) < MaxSales
        /\ sale' \in Seq(Sale) /\ Len(sale') = s /\ DOMAIN sale' = DOMAIN sale \union {s}
        /\ \A z \in DOMAIN sale : sale'[z] = sale[z]
        /\ sale'[s].by = e /\ sale'[s].row = "pending" /\ sale'[s].order = "flying"
        /\ sale'[s].fill = 0
    BY <1>4, <2>0, SendStep
  <2>2. sale'[s].count \in Nat
    <3>0. Len(sale) \in Nat
      BY DEF ShapeInv
    <3>2. s \in 1..Len(sale')
      BY <2>0, <2>1, <3>0
    <3>1. sale'[s] \in Sale
      BY <2>1, <3>2
    <3> QED BY <3>1 DEF Sale
  <2>3. Len(sale') <= MaxSales
    <3>1. Len(sale) \in Nat
      BY DEF ShapeInv
    <3> QED BY <2>0, <2>1, <3>1, ProfilesAssumption
  <2>4. Sound(sale[s])'
    BY <2>1, <2>2 DEF Sound
  <2>5. ASSUME NEW z \in DOMAIN sale PROVE Sound(sale[z])'
    <3>1. Sound(sale[z]) /\ sale'[z] = sale[z] /\ prof' = prof
      BY <2>1 DEF ShapeInv
    <3> QED BY <3>1 DEF Sound
  <2>6. SalesType'
    BY <2>1, <2>3, <2>4, <2>5 DEF SalesType
  <2> QED BY <1>a, <1>k, <2>1, <2>6 DEF Typed
<1>5. CASE Refused(e)
  <2>1. /\ Others(e) /\ e \in prof.engines
        /\ UNCHANGED <<prof, rows, net, table, legs, resolved, brake, forgot>>
    BY <1>5, RefusedStep
  <2>2. PICK s \in DOMAIN sale : /\ sale[s].order = "flying"
                                 /\ Moves(s, "cancelled", "dead", sale[s].count, sale[s].fill)
    BY <1>5, RefusedStep
  <2>3. sale[s].fill = 0 /\ sale[s].fill <= sale[s].count
    BY <2>2 DEF ShapeInv, Sound
  <2>4. SalesType'
    BY <2>1, <2>2, <2>3, MovesTyped
  <2> QED BY <1>a, <1>k, <2>1, <2>4 DEF Typed
<1> QED BY <1>1, <1>2, <1>3, <1>4, <1>5 DEF Engine

\* A restart gives a pending row a status that is not registered, or leaves it.
Rebooted ==
  /\ sale' \in Seq(Sale) /\ DOMAIN sale' = DOMAIN sale /\ Len(sale') = Len(sale)
  /\ \A s \in DOMAIN sale :
       /\ sale'[s].by = sale[s].by /\ sale'[s].ticker = sale[s].ticker
       /\ sale'[s].side = sale[s].side /\ sale'[s].count = sale[s].count
       /\ sale'[s].order = sale[s].order /\ sale'[s].fill = sale[s].fill
       /\ sale[s].order # "flying"
       /\ \/ sale'[s].row = sale[s].row
          \/ sale[s].row = "pending" /\ sale'[s].row \in {"filled", "cancelled", "error_missing"}

\* What reconcile_pending_trades makes of a row.
LEMMA ReconciledRow ==
  ASSUME NEW x \in Sale
  PROVE  /\ Reconciled(x) \in Sale
         /\ Reconciled(x).by = x.by /\ Reconciled(x).ticker = x.ticker
         /\ Reconciled(x).side = x.side /\ Reconciled(x).count = x.count
         /\ Reconciled(x).order = x.order /\ Reconciled(x).fill = x.fill
         /\ \/ Reconciled(x).row = x.row
            \/ x.row = "pending" /\ Reconciled(x).row \in {"filled", "cancelled", "error_missing"}
<1>1. ASSUME NEW r \in {"filled", "cancelled", "error_missing"}, x.row = "pending",
             Reconciled(x) = [x EXCEPT !.row = r]
      PROVE  /\ Reconciled(x) \in Sale
             /\ Reconciled(x).by = x.by /\ Reconciled(x).ticker = x.ticker
             /\ Reconciled(x).side = x.side /\ Reconciled(x).count = x.count
             /\ Reconciled(x).order = x.order /\ Reconciled(x).fill = x.fill
             /\ Reconciled(x).row = r
  BY <1>1 DEF Sale, SaleStatus
<1>2. CASE x.row # "pending"
  BY <1>2 DEF Reconciled
<1>3. CASE x.row = "pending"
  <2>1. PICK r \in {"filled", "cancelled", "error_missing"} : Reconciled(x) = [x EXCEPT !.row = r]
    BY <1>3 DEF Reconciled
  <2> QED BY <1>1, <1>3, <2>1
<1> QED BY <1>2, <1>3

\* The boot, as what it does to the sales.
LEMMA BootStep ==
  ASSUME ShapeInv, Boot
  PROVE  /\ Rebooted /\ \A e \in Engines : at[e].pc = "down" /\ at'[e].pc = "idle"
         /\ at' \in [Engines -> State]
         /\ UNCHANGED <<prof, rows, net, table, legs, resolved, brake, forgot>>
<1>1. /\ \A e \in Engines : at[e].pc = "down"
      /\ \A s \in DOMAIN sale : sale[s].order # "flying"
      /\ at' = [e \in Engines |-> Resting]
      /\ UNCHANGED <<prof, rows, net, table, legs, resolved, brake, forgot>>
  BY DEF Boot, Running
<1>2. PICK aged \in 0..Len(sale) :
        sale' = [s \in DOMAIN sale |-> IF s <= aged THEN Reconciled(sale[s]) ELSE sale[s]]
  BY DEF Boot
<1>3. sale \in Seq(Sale) /\ Len(sale) \in Nat /\ DOMAIN sale = 1..Len(sale)
      /\ \A s \in DOMAIN sale : sale[s] \in Sale
  BY DEF ShapeInv
<1>4. ASSUME NEW s \in DOMAIN sale
      PROVE  /\ sale'[s] \in Sale
             /\ sale'[s].by = sale[s].by /\ sale'[s].ticker = sale[s].ticker
             /\ sale'[s].side = sale[s].side /\ sale'[s].count = sale[s].count
             /\ sale'[s].order = sale[s].order /\ sale'[s].fill = sale[s].fill
             /\ \/ sale'[s].row = sale[s].row
                \/ sale[s].row = "pending" /\ sale'[s].row \in {"filled", "cancelled", "error_missing"}
  <2>1. sale'[s] \in {Reconciled(sale[s]), sale[s]}
    BY <1>2
  <2> QED BY <1>3, <2>1, ReconciledRow
<1>5. sale' \in Seq(Sale) /\ DOMAIN sale' = DOMAIN sale /\ Len(sale') = Len(sale)
  <2>1. sale' = [s \in 1..Len(sale) |-> sale'[s]]
    BY <1>2, <1>3
  <2>2. \A s \in 1..Len(sale) : sale'[s] \in Sale
    BY <1>3, <1>4
  <2> QED BY <1>3, <2>1, <2>2
<1>6. Resting \in State /\ Resting.pc = "idle"
  BY DEF Resting, State
<1>7. at' \in [Engines -> State] /\ \A e \in Engines : at'[e].pc = "idle"
  BY <1>1, <1>6
<1> QED BY <1>1, <1>4, <1>5, <1>7 DEF Rebooted

\* A sale is answered at the exchange.
LEMMA MatchStep ==
  ASSUME ShapeInv, NEW s \in DOMAIN sale, NEW n \in 0..sale[s].count, Match(s, n)
  PROVE  /\ n \in Nat /\ n <= sale[s].count /\ sale[s].order = "flying" /\ sale[s].row = "pending"
         /\ Moves(s, "pending", "done", sale[s].count, n)
         /\ net' = [net EXCEPT ![sale[s].ticker] = @ - Signed(sale[s].side, n)]
         /\ UNCHANGED <<prof, rows, table, at, legs, resolved, brake, forgot>>
<1>1. sale[s].count \in Nat
  BY SaleTyped
<1>2. n \in Nat /\ n <= sale[s].count
  BY <1>1
<1>3. sale[s].order = "flying" /\ sale[s].row = "pending"
  BY DEF Match, ShapeInv, Sound
<1>4. Moves(s, "pending", "done", sale[s].count, n)
  BY <1>2, <1>3, MovesWritten DEF Match
<1> QED BY <1>2, <1>3, <1>4 DEF Match

\* The request of a sale never arrives.
LEMMA VanishStep ==
  ASSUME ShapeInv, NEW s \in DOMAIN sale, Vanish(s)
  PROVE  /\ sale[s].order = "flying" /\ sale[s].row = "pending" /\ sale[s].fill = 0
         /\ Moves(s, "pending", "dead", sale[s].count, 0)
         /\ UNCHANGED <<prof, rows, net, table, at, legs, resolved, brake, forgot>>
<1>1. sale[s].order = "flying" /\ sale[s].row = "pending" /\ sale[s].fill = 0
  BY DEF Vanish, ShapeInv, Sound
<1>2. Moves(s, "pending", "dead", sale[s].count, 0)
  BY <1>1, MovesWritten DEF Vanish
<1> QED BY <1>1, <1>2 DEF Vanish

\* A side and a count.
LEMMA SignedType ==
  ASSUME NEW d, NEW n \in Int PROVE Signed(d, n) \in Int
BY DEF Signed

\* The types hold at the start.
LEMMA StartTyped == Init => Typed
<1> SUFFICES ASSUME Init PROVE Typed
  OBVIOUS
<1>1. /\ prof \in Profiles /\ lot = [l \in Lots |-> IF prof.held[l] > 0 THEN "filled" ELSE "none"]
      /\ left = prof.held /\ bought = prof.held /\ sale = <<>>
      /\ net = [t \in Tickers |-> SideNet(prof.held, t)]
      /\ cache = [t \in Tickers |-> 0] /\ empties = 0
      /\ at = [e \in Engines |-> Resting]
      /\ legs = {} /\ resolved = {} /\ brake = "off" /\ forgot = FALSE
  BY DEF Init
<1>2. prof.held \in [Lots -> 0..MaxSize] /\ MaxSize \in Nat
  BY <1>1, ProfilesAssumption DEF ProfileType
<1>3. \A l \in Lots : prof.held[l] \in Nat
  BY <1>2
<1>4. RowsType
  BY <1>1, <1>2, <1>3 DEF RowsType, LotStatus
<1>5. LotsInv
  BY <1>1, <1>3 DEF LotsInv
<1>6. SalesType
  BY <1>1, ProfilesAssumption DEF SalesType
<1>7. AtType
  <2>1. Resting \in State /\ Resting.pc = "idle"
    BY DEF Resting, State
  <2> QED BY <1>1, <2>1 DEF AtType
<1>8. \A t \in Tickers : SideNet(prof.held, t) \in Int
  <2> TAKE t \in Tickers
  <2> DEFINE S == {k \in Lots : Ticker[k] = t}
             f == [l \in S |-> Signed(Side[l], prof.held[l])]
  <2>1. IsFiniteSet(S)
    BY LotsAssumption, FS_Subset
  <2>2. \A l \in S : f[l] \in Int
    BY <1>3, SignedType
  <2>3. SideNet(prof.held, t) = SumFunction(f)
    BY DEF SideNet
  <2>4. DOMAIN f = S
    OBVIOUS
  <2> HIDE DEF S, f
  <2>5. SumFunctionOnSet(f, S) \in Int
    BY <2>1, <2>2, SumType
  <2> QED BY <2>3, <2>4, <2>5 DEF SumFunction, SumFunctionOnSet, FoldFunction
<1>9. MarketType
  <2>1. forgot \in BOOLEAN
    BY <1>1
  <2>2. /\ net \in [Tickers -> Int] /\ cache \in [Tickers -> Int] /\ empties \in 0..1
        /\ legs \subseteq Lots /\ resolved \subseteq Tickers
        /\ brake \in {"off", "paused", "killed", "blind"}
    BY <1>1, <1>8
  <2> QED BY <2>1, <2>2 DEF MarketType
<1> QED BY <1>1, <1>4, <1>5, <1>6, <1>7, <1>9 DEF Typed

\* A bet is a lot of its own.
LEMMA BetStep ==
  ASSUME TypeOK, NEW l \in Lots, NEW n \in 1..MaxSize, Bet(l, n)
  PROVE  /\ lot[l] = "none" /\ n \in Nat /\ n > 0
         /\ Owner[l] = "motor_2" /\ Ticker[l] \notin resolved
         /\ \A k \in Lots : /\ lot'[k] = IF k = l THEN "filled" ELSE lot[k]
                            /\ left'[k] = IF k = l THEN n ELSE left[k]
                            /\ bought'[k] = IF k = l THEN n ELSE bought[k]
         /\ lot' \in [Lots -> LotStatus]
         /\ left' \in [Lots -> 0..MaxSize] /\ bought' \in [Lots -> 0..MaxSize]
         /\ net' = [net EXCEPT ![Ticker[l]] = @ + Signed(Side[l], n)]
         /\ UNCHANGED <<prof, sale, table, at, legs, resolved, brake, forgot>>
<1>1. n \in Nat /\ n > 0 /\ n \in 0..MaxSize /\ "filled" \in LotStatus
  BY ProfilesAssumption DEF LotStatus
<1> QED BY <1>1 DEF Bet, TypeOK

\* A bet keeps the types.
LEMMA BetTyped ==
  ASSUME Typed, NEW l \in Lots, NEW n \in 1..MaxSize, Bet(l, n)
  PROVE  Typed'
<1> USE TypedMeans
<1>1. /\ lot[l] = "none" /\ n \in Nat /\ n > 0
      /\ \A k \in Lots : /\ lot'[k] = IF k = l THEN "filled" ELSE lot[k]
                         /\ left'[k] = IF k = l THEN n ELSE left[k]
                         /\ bought'[k] = IF k = l THEN n ELSE bought[k]
      /\ lot' \in [Lots -> LotStatus]
      /\ left' \in [Lots -> 0..MaxSize] /\ bought' \in [Lots -> 0..MaxSize]
      /\ net' = [net EXCEPT ![Ticker[l]] = @ + Signed(Side[l], n)]
      /\ UNCHANGED <<prof, sale, table, at, legs, resolved, brake, forgot>>
  BY BetStep
<1>2. net' \in [Tickers -> Int]
  <2>1. Ticker[l] \in Tickers /\ Signed(Side[l], n) \in Int
    BY <1>1, SignedType, LotsAssumption
  <2>2. net \in [Tickers -> Int]
    BY DEF TypeOK
  <2> QED BY <1>1, <2>1, <2>2
<1>3. RowsType'
  BY <1>1 DEF Typed, RowsType
<1>4. LotsInv'
  BY <1>1 DEF Typed, LotsInv
<1>5. SalesType'
  BY <1>1 DEF Typed, SalesType, Sound
<1>6. AtType' /\ MarketType' /\ prof' \in Profiles
  BY <1>1, <1>2 DEF Typed, AtType, MarketType, table
<1> QED BY <1>3, <1>4, <1>5, <1>6 DEF Typed

\* Every step keeps the types.
LEMMA TypedKept ==
  ASSUME Typed, SentInv, [Next]_vars
  PROVE  Typed'
<1> USE TypedMeans DEF table
<1>k. /\ RowsType /\ SalesType /\ MarketType /\ LotsInv /\ AtType /\ prof \in Profiles
      /\ UNCHANGED rows => RowsType'
      /\ UNCHANGED <<prof, sale>> => SalesType'
      /\ UNCHANGED <<prof, at>> => AtType'
      /\ UNCHANGED <<net, table, legs, resolved, brake, forgot>> => MarketType'
      /\ UNCHANGED <<rows, resolved>> => LotsInv'
  BY DEF Typed, rows, RowsType, SalesType, MarketType, AtType, LotsInv, Sound
<1>1. CASE Sync
  <2>1. UNCHANGED <<prof, rows, sale, net, at, legs, resolved, brake, forgot>>
    BY <1>1 DEF Sync
  <2>2. cache' \in [Tickers -> Int] /\ empties' \in 0..1
    <3>1. \A t \in Tickers : Position(t) \in Int
      BY <1>k DEF Position, MarketType
    <3>2. [t \in Tickers |-> Position(t)] \in [Tickers -> Int]
      BY <3>1
    <3>3. /\ cache' \in {cache, [t \in Tickers |-> Position(t)]}
          /\ empties' \in {0, 1}
      BY <1>1, <1>k DEF Sync, MarketType
    <3> QED BY <1>k, <3>2, <3>3 DEF MarketType
  <2>3. MarketType'
    BY <1>k, <2>1, <2>2 DEF MarketType
  <2> QED BY <1>k, <2>1, <2>3 DEF Typed
<1>2. ASSUME NEW s \in DOMAIN sale, Vanish(s) PROVE Typed'
  <2>1. /\ Moves(s, "pending", "dead", sale[s].count, 0) /\ sale[s].fill = 0
        /\ UNCHANGED <<prof, rows, net, table, at, legs, resolved, brake, forgot>>
    BY <1>2, VanishStep
  <2>2. 0 <= sale[s].count
    BY SaleTyped
  <2>3. SalesType'
    BY <2>1, <2>2, MovesTyped
  <2> QED BY <1>k, <2>1, <2>3 DEF Typed
<1>3. ASSUME NEW s \in DOMAIN sale, NEW n \in 0..sale[s].count, Match(s, n) PROVE Typed'
  <2>1. /\ n \in Nat /\ n <= sale[s].count
        /\ Moves(s, "pending", "done", sale[s].count, n)
        /\ net' = [net EXCEPT ![sale[s].ticker] = @ - Signed(sale[s].side, n)]
        /\ UNCHANGED <<prof, rows, table, at, legs, resolved, brake, forgot>>
    BY <1>3, MatchStep
  <2>2. SalesType'
    BY <2>1, MovesTyped
  <2>3. net' \in [Tickers -> Int]
    <3>1. sale[s].ticker \in Tickers /\ Signed(sale[s].side, n) \in Int
      BY <2>1, SaleTyped, SignedType
    <3>2. net \in [Tickers -> Int]
      BY <1>k DEF MarketType
    <3> QED BY <2>1, <3>1, <3>2
  <2>4. MarketType'
    BY <1>k, <2>1, <2>3 DEF MarketType
  <2> QED BY <1>k, <2>1, <2>2, <2>4 DEF Typed
<1>4. ASSUME NEW t \in Tickers, Resolve(t) PROVE Typed'
  <2>1. /\ resolved' = resolved \union {t}
        /\ UNCHANGED <<prof, rows, sale, net, table, at, legs, brake, forgot>>
    BY <1>4 DEF Resolve
  <2>2. MarketType' /\ LotsInv'
    BY <1>k, <2>1 DEF MarketType, LotsInv, rows
  <2> QED BY <1>k, <2>1, <2>2 DEF Typed
<1>5. CASE ReadFilled \/ SkipGroup
  <2>1. UNCHANGED <<prof, rows, sale, net, table, at, resolved, brake, forgot>> /\ legs' \subseteq Lots
    BY <1>5, <1>k DEF ReadFilled, SkipGroup, MarketType
  <2>2. MarketType'
    BY <1>k, <2>1 DEF MarketType
  <2> QED BY <1>k, <2>1, <2>2 DEF Typed
<1>6. CASE SettleGroup
  <2>1. /\ \A k \in Group : Ticker[k] \in resolved
        /\ lot' = [k \in Lots |-> IF k \in Group /\ lot[k] = "filled" THEN "settled" ELSE lot[k]]
        /\ legs' = legs \ Group
        /\ UNCHANGED <<prof, left, bought, sale, net, table, at, resolved, brake, forgot>>
    BY <1>6 DEF SettleGroup
  <2>2. RowsType'
    BY <1>k, <2>1 DEF RowsType, LotStatus
  <2>3. LotsInv'
    BY <1>k, <2>1 DEF LotsInv
  <2>4. MarketType'
    BY <1>k, <2>1 DEF MarketType
  <2> QED BY <1>k, <2>1, <2>2, <2>3, <2>4 DEF Typed
<1>7. CASE Pause \/ Resume
  <2>1. /\ UNCHANGED <<prof, rows, sale, net, table, at, legs, resolved>>
        /\ brake' \in {"off", "paused"} /\ forgot' \in {TRUE, forgot}
    BY <1>7 DEF Pause, Resume, Forgets
  <2>2. MarketType'
    BY <1>k, <2>1 DEF MarketType
  <2> QED BY <1>k, <2>1, <2>2 DEF Typed
<1>8. CASE Crash
  <2>1. /\ UNCHANGED <<prof, rows, sale, net, cache, resolved>>
        /\ at' = [e \in Engines |-> Dead] /\ legs' = {} /\ empties' = 0
        /\ brake' \in {"killed", "off"} /\ forgot' \in {TRUE, forgot}
    BY <1>8 DEF Crash, Forgets
  <2>2. MarketType'
    <3>1. forgot' \in BOOLEAN
      BY <1>k, <2>1 DEF MarketType
    <3>2. /\ net' \in [Tickers -> Int] /\ cache' \in [Tickers -> Int] /\ empties' \in 0..1
          /\ legs' \subseteq Lots /\ resolved' \subseteq Tickers
          /\ brake' \in {"off", "paused", "killed", "blind"}
      BY <1>k, <2>1 DEF MarketType
    <3> QED BY <3>1, <3>2 DEF MarketType
  <2>3. Dead \in State /\ Dead.pc = "down"
    BY DEF Dead, State
  <2>4. AtType'
    BY <2>1, <2>3 DEF AtType
  <2> QED BY <1>k, <2>1, <2>2, <2>4 DEF Typed
<1>9. CASE Boot
  <2>1. /\ Rebooted /\ \A e \in Engines : at[e].pc = "down" /\ at'[e].pc = "idle"
        /\ at' \in [Engines -> State]
        /\ UNCHANGED <<prof, rows, net, table, legs, resolved, brake, forgot>>
    BY <1>9, BootStep
  <2>2. SalesType'
    BY <1>k, <2>1 DEF SalesType, Sound, Rebooted
  <2>3. AtType'
    BY <2>1 DEF AtType
  <2> QED BY <1>k, <2>1, <2>2, <2>3 DEF Typed
<1>10. CASE UNCHANGED vars
  BY <1>k, <1>10 DEF Typed, vars
<1> QED BY <1>1, <1>2, <1>3, <1>4, <1>5, <1>6, <1>7, <1>8, <1>9, <1>10, EngineTyped, BetTyped
       DEF Next, Exchange, Poller

-----------------------------------------------------------------------------
(* The steps, one by one *)

\* What neither sells nor touches a row: the engines, the settlement's reading, the poller
\* of Motor 3 and the operator.
Calm ==
  /\ UNCHANGED <<prof, rows, sale, at, resolved, net>>
  /\ \/ brake' = brake \/ {brake, brake'} = {"off", "paused"}
     \/ brake = "blind" /\ brake' = "off" /\ forgot'

\* The settlement of lots of markets that resolved.
Settles ==
  /\ \A l \in Lots : lot'[l] # lot[l] => Ticker[l] \in resolved /\ lot'[l] = "settled"
  /\ UNCHANGED <<prof, left, bought, sale, at, resolved, net, brake>>

\* Every step is one of these.
LEMMA Steps ==
  ASSUME TypeOK, [Next]_vars
  PROVE  \/ \E e \in Engines : Engine(e)
         \/ \E l \in Lots, n \in 1..MaxSize : Bet(l, n)
         \/ \E s \in DOMAIN sale : Vanish(s) \/ \E n \in 0..sale[s].count : Match(s, n)
         \/ \E t \in Tickers : Resolve(t)
         \/ Crash \/ Boot \/ Calm \/ Settles
<1> USE DEF Calm, table
<1>1. CASE Sync \/ ReadFilled \/ SkipGroup
  BY <1>1 DEF Sync, ReadFilled, SkipGroup
<1>2. CASE SettleGroup
  <2>1. /\ \A k \in Group : Ticker[k] \in resolved
        /\ lot' = [k \in Lots |-> IF k \in Group /\ lot[k] = "filled" THEN "settled" ELSE lot[k]]
        /\ UNCHANGED <<prof, left, bought, sale, at, resolved, net, brake>>
    BY <1>2 DEF SettleGroup
  <2> QED BY <2>1 DEF Settles
<1>3. CASE Pause \/ Resume
  BY <1>3 DEF Pause, Resume, Forgets
<1>4. CASE UNCHANGED vars
  BY <1>4 DEF vars
<1> QED BY <1>1, <1>2, <1>3, <1>4 DEF Next, Exchange, Poller

\* The market an engine locks is one it had locked, or one that nobody had.
LEMMA EngineLocks ==
  ASSUME Typed, SentInv, NEW e \in Engines, Engine(e)
  PROVE  /\ Others(e) /\ e \in prof.engines
         /\ \A t : Locks(e, t)' => Locks(e, t) \/ (brake = "off" /\ LockFree(t))
         /\ brake' = brake \/ (Braked' /\ at'[e].pc = "exits")
<1> USE TypedMeans DEF Locks
<1>1. CASE \/ Load(e) \/ TickEnds(e) \/ ReconcileFails(e) \/ NoSale(e) \/ LoseAnswer(e)
           \/ \E w \in at[e].wants : Discard(e, w)
  BY <1>1, RetireSteps DEF Retires
<1>2. ASSUME NEW w \in at[e].wants, BeginExit(e, w)
      PROVE  /\ Others(e) /\ e \in prof.engines
             /\ \A t : Locks(e, t)' => Locks(e, t) \/ (brake = "off" /\ LockFree(t))
             /\ brake' = brake
  <2>1. /\ Others(e) /\ e \in prof.engines /\ brake' = brake
        /\ brake = "off" /\ LockFree(w.ticker)
        /\ at'[e].pc = "exits" \/ at'[e].now.ticker = w.ticker
    BY <1>2, BeginStep
  <2> QED BY <2>1
<1>3. CASE ReconcileSale(e)
  <2>1. /\ at[e].pc = "reconcile" /\ e \in prof.engines /\ Others(e)
        /\ \/ at'[e].pc = "exits"
           \/ brake' = brake /\ (at'[e] = at[e] \/ at'[e].now.ticker = at[e].now.ticker)
    BY <1>3, ReconcileStep
  <2>2. brake' = brake \/ Braked'
    <3>1. \E s : Answer(e, s)
      BY <1>3, ReconcileStep
    <3> QED BY <3>1 DEF Answer, Registers, Loses, Frees
  <2> QED BY <2>1, <2>2
<1>4. CASE Answered(e)
  <2>1. /\ at'[e].pc = "exits" /\ e \in prof.engines /\ Others(e) /\ \E s : Answer(e, s)
    BY <1>4, AnsweredStep
  <2> QED BY <2>1 DEF Answer, Registers, Loses, Frees
<1>5. CASE SendSale(e)
  BY <1>5, SendStep
<1>6. CASE Refused(e)
  BY <1>6, RefusedStep
<1> QED BY <1>1, <1>2, <1>3, <1>4, <1>5, <1>6 DEF Engine

\* A step of anything else locks nothing and kills nothing.
LEMMA OtherLocks ==
  ASSUME Typed, [Next]_vars, \A e \in Engines : ~Engine(e)
  PROVE  /\ \/ at' = at
            \/ /\ \A e \in Engines : at'[e].pc \in {"down", "idle"}
               /\ "crash" \in prof.faults \/ \A e \in Engines : at[e].pc = "down"
         /\ (Braked' => Braked) /\ (Braked => Braked' \/ forgot')
<1> USE TypedMeans
<1>1. ASSUME NEW l \in Lots, NEW n \in 1..MaxSize, Bet(l, n) PROVE at' = at /\ brake' = brake
  BY <1>1 DEF Bet
<1>2. ASSUME NEW s \in DOMAIN sale, Vanish(s) \/ \E n \in 0..sale[s].count : Match(s, n)
      PROVE  at' = at /\ brake' = brake
  BY <1>2 DEF Vanish, Match
<1>3. ASSUME NEW t \in Tickers, Resolve(t) PROVE at' = at /\ brake' = brake
  BY <1>3 DEF Resolve
<1>4. CASE Calm \/ Settles
  BY <1>4 DEF Calm, Settles
<1>5. CASE Crash
  BY <1>5 DEF Crash, Dead, Fault, Forgets
<1>6. CASE Boot
  BY <1>6, BootStep
<1> QED BY <1>1, <1>2, <1>3, <1>4, <1>5, <1>6, Steps

\* A market locked after a step was locked before it, or free for all.
LEMMA LocksFollow ==
  ASSUME Typed, SentInv, [Next]_vars, NEW e \in Engines, NEW t, Locks(e, t)'
  PROVE  \/ Locks(e, t)
         \/ /\ brake = "off" /\ \A f \in Engines : ~Locks(f, t)
            /\ \A f \in Engines \ {e} : at'[f] = at[f]
<1>1. ASSUME NEW f \in Engines, Engine(f)
      PROVE  \/ Locks(e, t)
             \/ /\ brake = "off" /\ \A g \in Engines : ~Locks(g, t)
                /\ \A g \in Engines \ {e} : at'[g] = at[g]
  BY <1>1, EngineLocks DEF Others, Locks, LockFree
<1>2. CASE \A f \in Engines : ~Engine(f)
  BY <1>2, OtherLocks DEF Locks
<1> QED BY <1>1, <1>2

\* Nobody sells on a market any more.
Frozen(t) == Braked /\ \A e \in Engines : ~Locks(e, t)

\* And nobody ever will, while the brake holds.
LEMMA FrozenStays ==
  ASSUME Typed, SentInv, [Next]_vars, ~forgot', NEW t, Frozen(t)
  PROVE  Frozen(t)'
<1>1. \A e \in Engines : ~Locks(e, t)'
  BY LocksFollow DEF Frozen
<1>2. Braked'
  BY EngineLocks, OtherLocks DEF Frozen
<1> QED BY <1>1, <1>2 DEF Frozen

\* The deployment does not change, and a result is final, as is a brake that was lost.
LEMMA ProfStays ==
  ASSUME [Next]_vars
  PROVE  prof' = prof /\ resolved \subseteq resolved' /\ (forgot => forgot')
<1>1. ASSUME NEW e \in Engines, Engine(e)
      PROVE  prof' = prof /\ resolved' = resolved /\ forgot' = forgot
  <2>1. CASE Load(e) \/ TickEnds(e) \/ ReconcileSale(e) \/ ReconcileFails(e)
    BY <2>1 DEF Load, TickEnds, ReconcileSale, ReconcileFails
  <2>2. CASE NoSale(e) \/ SendSale(e) \/ Answered(e) \/ Refused(e) \/ LoseAnswer(e)
    BY <2>2 DEF NoSale, SendSale, Answered, Refused, LoseAnswer
  <2>3. ASSUME NEW w \in at[e].wants, Discard(e, w) \/ BeginExit(e, w)
        PROVE  prof' = prof /\ resolved' = resolved /\ forgot' = forgot
    BY <2>3 DEF Discard, BeginExit
  <2> QED BY <1>1, <2>1, <2>2, <2>3 DEF Engine
<1>2. CASE Exchange
  <2>1. ASSUME NEW s \in DOMAIN sale, Vanish(s) \/ \E n \in 0..sale[s].count : Match(s, n)
        PROVE  prof' = prof /\ resolved' = resolved /\ forgot' = forgot
    BY <2>1 DEF Vanish, Match
  <2>2. ASSUME NEW t \in Tickers, Resolve(t)
        PROVE  prof' = prof /\ resolved \subseteq resolved' /\ forgot' = forgot
    BY <2>2 DEF Resolve
  <2> QED BY <1>2, <2>1, <2>2 DEF Exchange
<1>3. CASE Poller \/ Sync \/ \E l \in Lots, n \in 1..MaxSize : Bet(l, n)
  <2>1. CASE Poller
    BY <2>1 DEF Poller, ReadFilled, SettleGroup, SkipGroup
  <2>2. CASE Sync
    BY <2>2 DEF Sync
  <2>3. CASE \E l \in Lots, n \in 1..MaxSize : Bet(l, n)
    BY <2>3 DEF Bet
  <2> QED BY <1>3, <2>1, <2>2, <2>3
<1>4. CASE Pause \/ Resume \/ Crash \/ Boot
  <2>1. prof' = prof /\ resolved' = resolved
    BY <1>4 DEF Pause, Resume, Crash, Boot
  <2>2. forgot' = forgot \/ forgot' = TRUE
    BY <1>4 DEF Pause, Resume, Crash, Boot, Forgets
  <2> QED BY <2>1, <2>2
<1>5. CASE UNCHANGED vars
  BY <1>5 DEF vars
<1> QED BY <1>1, <1>2, <1>3, <1>4, <1>5 DEF Next

\* One engine at most has the lock of a market.
LEMMA LocksKept ==
  ASSUME Typed, SentInv, LockInv, KilledInv, [Next]_vars
  PROVE  LockInv' /\ KilledInv'
<1>1. LockInv'
  <2> SUFFICES ASSUME NEW e \in Engines, NEW f \in Engines, NEW t \in Tickers,
                      Locks(e, t)', Locks(f, t)'
               PROVE  e = f
    BY DEF LockInv
  <2> QED BY LocksFollow DEF LockInv, Locks
<1>2. KilledInv'
  <2> SUFFICES ASSUME OnlyOne(prof)', Braked', NEW e \in Engines, NEW t \in Tickers,
                      Locks(e, t)'
               PROVE  FALSE
    BY DEF KilledInv
  <2>1. prof' = prof /\ OnlyOne(prof)
    BY ProfStays DEF OnlyOne
  <2>2. CASE Braked
    BY <2>1, <2>2, LocksFollow DEF KilledInv
  <2>3. CASE ~Braked
    <3>1. PICK f \in Engines : Engine(f)
      BY <2>3, OtherLocks
    <3>2. /\ Others(f) /\ f \in prof.engines /\ at'[f].pc = "exits"
      BY <2>3, <3>1, EngineLocks
    <3>3. e # f /\ at'[e] = at[e]
      BY <3>2 DEF Locks, Others
    <3>4. e \in prof.engines
      BY <3>3, TypedMeans DEF ShapeInv, Locks
    <3> QED BY <2>1, <3>2, <3>3, <3>4 DEF OnlyOne
  <2> QED BY <2>2, <2>3
<1> QED BY <1>1, <1>2

-----------------------------------------------------------------------------
(* The sales only fall *)

\* A sale takes less as it is answered, and its row, once it has a status, keeps it.
Falls(s) ==
  /\ s \in DOMAIN sale'
  /\ sale'[s].by = sale[s].by /\ sale'[s].ticker = sale[s].ticker /\ sale'[s].side = sale[s].side
  /\ Amount(s)' <= Amount(s)
  /\ sale'[s].row = "pending" => sale[s].row = "pending"
  /\ sale[s].row # "pending" => sale'[s].row = sale[s].row /\ sale'[s].fill = sale[s].fill

\* A sale left as it was.
LEMMA SameFalls ==
  ASSUME Typed, UNCHANGED sale, NEW s \in DOMAIN sale
  PROVE  Falls(s)
<1>1. Amount(s) \in Nat
  BY TypedMeans, SaleTyped
<1> QED BY <1>1 DEF Falls, Amount

\* A pending sale that takes no more than before.
LEMMA MovesFall ==
  ASSUME Typed, NEW s \in DOMAIN sale, sale[s].row = "pending",
         NEW r, NEW o, NEW c \in Nat, NEW f \in Nat, Moves(s, r, o, c, f),
         (IF o = "flying" THEN c ELSE f) <= Amount(s)
  PROVE  \A z \in DOMAIN sale : Falls(z)
<1> SUFFICES ASSUME NEW z \in DOMAIN sale PROVE Falls(z)
  OBVIOUS
<1>1. Amount(z) \in Nat /\ DOMAIN sale' = DOMAIN sale
  BY TypedMeans, SaleTyped DEF Moves
<1>2. CASE z = s
  BY <1>1, <1>2 DEF Moves, Falls, Amount
<1>3. CASE z # s
  BY <1>1, <1>3 DEF Moves, Falls, Amount
<1> QED BY <1>2, <1>3

\* An answer takes no more than the sale could.
LEMMA AnswerFalls ==
  ASSUME Typed, NEW e, NEW s, Answer(e, s)
  PROVE  \A z \in DOMAIN sale : Falls(z)
<1>1. /\ s \in DOMAIN sale /\ sale[s].row = "pending" /\ sale[s].order = "done"
      /\ sale[s].fill \in Nat /\ sale[s].count \in Nat /\ Amount(s) = sale[s].fill
  BY TypedMeans, SaleTyped DEF Answer, Amount
<1>2. Registers(s) \/ Loses(s) \/ Frees(s)
  BY DEF Answer
<1> QED BY <1>1, <1>2, MovesFall DEF Registers, Loses, Frees

\* Every step, and only the intent of a sale is a new row.
LEMMA SalesFall ==
  ASSUME Typed, SentInv, [Next]_vars
  PROVE  /\ \A s \in DOMAIN sale : Falls(s)
         /\ (\A e \in Engines : ~SendSale(e)) => DOMAIN sale' = DOMAIN sale
<1> USE TypedMeans
<1>1. CASE UNCHANGED sale
  BY <1>1, SameFalls
<1>2. ASSUME NEW e \in Engines, SendSale(e) PROVE \A s \in DOMAIN sale : Falls(s)
  <2> SUFFICES ASSUME NEW s \in DOMAIN sale PROVE Falls(s)
    OBVIOUS
  <2>1. s \in DOMAIN sale' /\ sale'[s] = sale[s]
    BY <1>2, SendStep
  <2>2. Amount(s) \in Nat
    BY SaleTyped
  <2> QED BY <2>1, <2>2 DEF Falls, Amount
<1>3. ASSUME NEW e \in Engines, ReconcileSale(e) \/ Answered(e)
      PROVE  DOMAIN sale' = DOMAIN sale /\ \A s \in DOMAIN sale : Falls(s)
  <2>1. PICK s : Answer(e, s)
    BY <1>3, ReconcileStep, AnsweredStep
  <2> QED BY <2>1, AnswerFalls DEF Answer, Registers, Loses, Frees, Moves
<1>4. ASSUME NEW e \in Engines, Refused(e)
      PROVE  DOMAIN sale' = DOMAIN sale /\ \A s \in DOMAIN sale : Falls(s)
  <2>1. PICK s \in DOMAIN sale : /\ sale[s].row = "pending" /\ sale[s].order = "flying"
                                 /\ Moves(s, "cancelled", "dead", sale[s].count, sale[s].fill)
    BY <1>4, RefusedStep
  <2>2. sale[s].fill <= Amount(s) /\ sale[s].count \in Nat /\ sale[s].fill \in Nat
    BY <2>1, SaleTyped DEF ShapeInv, Sound, Amount
  <2> QED BY <2>1, <2>2, MovesFall DEF Moves
<1>5. ASSUME NEW e \in Engines, Engine(e), ~SendSale(e)
      PROVE  DOMAIN sale' = DOMAIN sale /\ \A s \in DOMAIN sale : Falls(s)
  <2>1. CASE \/ Load(e) \/ TickEnds(e) \/ ReconcileFails(e) \/ NoSale(e) \/ LoseAnswer(e)
             \/ \E w \in at[e].wants : Discard(e, w) \/ BeginExit(e, w)
    <3>1. UNCHANGED sale
      BY <2>1 DEF Load, TickEnds, ReconcileFails, NoSale, LoseAnswer, Discard, BeginExit
    <3> QED BY <1>1, <3>1
  <2> QED BY <1>3, <1>4, <1>5, <2>1 DEF Engine
<1>6. ASSUME NEW s \in DOMAIN sale, Vanish(s)
      PROVE  DOMAIN sale' = DOMAIN sale /\ \A z \in DOMAIN sale : Falls(z)
  <2>1. /\ sale[s].row = "pending" /\ Moves(s, "pending", "dead", sale[s].count, 0)
    BY <1>6, VanishStep
  <2>2. /\ (IF "dead" = "flying" THEN sale[s].count ELSE 0) <= Amount(s)
        /\ sale[s].count \in Nat /\ 0 \in Nat
    BY SaleTyped
  <2>3. \A z \in DOMAIN sale : Falls(z)
    BY <2>1, <2>2, MovesFall
  <2> QED BY <2>1, <2>3 DEF Moves
<1>7. ASSUME NEW s \in DOMAIN sale, NEW n \in 0..sale[s].count, Match(s, n)
      PROVE  DOMAIN sale' = DOMAIN sale /\ \A z \in DOMAIN sale : Falls(z)
  <2>1. /\ sale[s].row = "pending" /\ sale[s].order = "flying" /\ n \in Nat /\ n <= sale[s].count
        /\ Moves(s, "pending", "done", sale[s].count, n)
    BY <1>7, MatchStep
  <2>2. /\ (IF "done" = "flying" THEN sale[s].count ELSE n) <= Amount(s)
        /\ sale[s].count \in Nat
    BY <2>1, SaleTyped DEF Amount
  <2>3. \A z \in DOMAIN sale : Falls(z)
    BY <2>1, <2>2, MovesFall
  <2> QED BY <2>1, <2>3 DEF Moves
<1>8. CASE Boot
  <2>1. Rebooted
    BY <1>8, BootStep
  <2>2. \A s \in DOMAIN sale : Amount(s) \in Nat
    BY SaleTyped
  <2> QED BY <2>1, <2>2 DEF Rebooted, Falls, Amount
<1>9. ASSUME \/ \E l \in Lots, n \in 1..MaxSize : Bet(l, n)
             \/ \E t \in Tickers : Resolve(t)
             \/ Crash \/ Calm \/ Settles
      PROVE  UNCHANGED sale
  BY <1>9 DEF Bet, Resolve, Crash, Calm, Settles
<1> QED BY <1>1, <1>2, <1>5, <1>6, <1>7, <1>8, <1>9, Steps

\* Sale s is the last of engine e, and not written.
Last(e, s) ==
  /\ s \in DOMAIN sale /\ sale[s].by = e /\ \A z \in DOMAIN sale : sale[z].by = e => z <= s

\* An engine that waits for a sale, and still does after the step, waits for the same one.
LEMMA SentKept ==
  ASSUME Typed, SentInv, [Next]_vars
  PROVE  /\ SentInv'
         /\ \A e \in Engines, s \in DOMAIN sale :
              at[e].pc = "sent" /\ at'[e] = at[e] /\ Last(e, s) => Last(e, s)'
<1> USE TypedMeans
<1>1. ASSUME NEW e \in Engines, SendSale(e)
      PROVE  \E s \in DOMAIN sale' :
               /\ Last(e, s)' /\ sale'[s].row = "pending"
               /\ On(s, at[e].now.ticker, at[e].now.side)'
  <2>0. PICK s : s = Len(sale) + 1
    OBVIOUS
  <2>1. /\ at[e].pc = "book" /\ at'[e].now = at[e].now
        /\ DOMAIN sale' = DOMAIN sale \union {s}
        /\ sale'[s].by = e /\ sale'[s].row = "pending"
        /\ sale'[s].ticker = at[e].now.ticker /\ sale'[s].side = at[e].now.side
    BY <1>1, <2>0, SendStep
  <2>2. \A z \in DOMAIN sale' : z <= s
    <3>1. DOMAIN sale = 1..Len(sale) /\ Len(sale) \in Nat
      BY DEF ShapeInv
    <3> QED BY <2>0, <2>1, <3>1
  <2>3. (s \in DOMAIN sale' /\ Last(e, s)') /\ On(s, at[e].now.ticker, at[e].now.side)'
    BY <2>1, <2>2 DEF Last, On
  <2> QED BY <2>1, <2>3
<1>2. ASSUME NEW e \in Engines, at[e].pc = "sent", at'[e] = at[e], NEW s \in DOMAIN sale, Last(e, s)
      PROVE  Last(e, s)'
  <2>1. \A z \in DOMAIN sale : Falls(z)
    BY SalesFall
  <2>2. ASSUME NEW z \in DOMAIN sale' \ DOMAIN sale PROVE sale'[z].by # e
    <3>1. PICK f \in Engines : SendSale(f)
      BY <2>2, SalesFall
    <3>2. at[f].pc = "book" /\ z = Len(sale) + 1 /\ sale'[z].by = f
      BY <2>2, <3>1, SendStep
    <3> QED BY <1>2, <3>2
  <2> QED BY <1>2, <2>1, <2>2 DEF Last, Falls
<1>3. ASSUME NEW e \in Engines, at'[e].pc = "sent"
      PROVE  \E s \in DOMAIN sale' :
               /\ Last(e, s)' /\ sale'[s].row = "pending"
               /\ On(s, at[e].now.ticker, at[e].now.side)' /\ at'[e].now = at[e].now
  <2>1. CASE SendSale(e)
    BY <1>1, <2>1, SendStep
  <2>2. CASE ~SendSale(e)
    <3>1. at[e].pc = "sent" /\ at'[e] = at[e] /\ ~Answered(e) /\ ~Refused(e)
      <4>1. ASSUME NEW f \in Engines, Engine(f) PROVE at[e].pc = "sent" /\ at'[e] = at[e] /\ ~Answered(e) /\ ~Refused(e)
        <5>1. CASE f # e
          <6>1. at'[e] = at[e]
            BY <4>1, <5>1, EngineLocks DEF Others
          <6> QED BY <1>3, <6>1, AnsweredStep, RefusedStep
        <5>2. CASE f = e
          <6>1. CASE \/ Load(e) \/ TickEnds(e) \/ ReconcileFails(e) \/ NoSale(e) \/ LoseAnswer(e)
                     \/ \E w \in at[e].wants : Discard(e, w)
            BY <1>3, <6>1, RetireSteps DEF Retires
          <6>2. ~(\E w \in at[e].wants : BeginExit(e, w)) /\ ~ReconcileSale(e)
            BY <1>3, BeginStep, ReconcileStep
          <6>3. ~Answered(e) /\ ~Refused(e)
            BY <1>3, AnsweredStep, RefusedStep
          <6> QED BY <1>3, <2>2, <4>1, <5>2, <6>1, <6>2, <6>3 DEF Engine
        <5> QED BY <5>1, <5>2
      <4>2. CASE \A f \in Engines : ~Engine(f)
        BY <1>3, <4>2, OtherLocks DEF Engine
      <4> QED BY <4>1, <4>2
    <3>2. PICK s \in DOMAIN sale : /\ Last(e, s) /\ sale[s].row = "pending"
                                   /\ On(s, at[e].now.ticker, at[e].now.side)
      BY <3>1 DEF SentInv, Last
    <3>3. sale'[s].row = "pending"
      <4>1. CASE UNCHANGED sale
        BY <3>2, <4>1
      <4>2. ASSUME NEW z \in DOMAIN sale, NEW r, NEW o, NEW c, NEW k, Moves(z, r, o, c, k),
                   r = "pending" \/ sale[z].by # e
            PROVE  sale'[s].row = "pending"
        BY <3>2, <4>2 DEF Moves, Last
      <4>3. ASSUME NEW f \in Engines, f # e, Engine(f) PROVE sale'[s].row = "pending"
        <5>1. CASE ReconcileSale(f) \/ Answered(f)
          <6>1. PICK z : Answer(f, z)
            BY <5>1, ReconcileStep, AnsweredStep
          <6> QED BY <4>2, <4>3, <6>1 DEF Answer, Registers, Loses, Frees
        <5>2. CASE Refused(f)
          BY <4>2, <4>3, <5>2, RefusedStep
        <5>3. CASE SendSale(f)
          BY <3>2, <5>3, SendStep
        <5>4. CASE \/ Load(f) \/ TickEnds(f) \/ ReconcileFails(f) \/ NoSale(f) \/ LoseAnswer(f)
                   \/ \E w \in at[f].wants : Discard(f, w) \/ BeginExit(f, w)
          <6>1. UNCHANGED sale
            BY <5>4 DEF Load, TickEnds, ReconcileFails, NoSale, LoseAnswer, Discard, BeginExit
          <6> QED BY <4>1, <6>1
        <5> QED BY <4>3, <5>1, <5>2, <5>3, <5>4 DEF Engine
      <4>4. CASE Engine(e)
        <5>1. \/ Load(e) \/ TickEnds(e) \/ ReconcileFails(e) \/ NoSale(e) \/ LoseAnswer(e)
              \/ \E w \in at[e].wants : Discard(e, w) \/ BeginExit(e, w)
          BY <2>2, <3>1, <4>4, ReconcileStep DEF Engine
        <5>2. UNCHANGED sale
          BY <5>1 DEF Load, TickEnds, ReconcileFails, NoSale, LoseAnswer, Discard, BeginExit
        <5> QED BY <4>1, <5>2
      <4>5. ASSUME NEW z \in DOMAIN sale, Vanish(z) \/ \E n \in 0..sale[z].count : Match(z, n)
            PROVE  sale'[s].row = "pending"
        BY <4>2, <4>5, VanishStep, MatchStep
      <4>6. ~Boot
        BY <3>1, BootStep
      <4>7. ASSUME \/ \E l \in Lots, n \in 1..MaxSize : Bet(l, n)
                   \/ \E t \in Tickers : Resolve(t)
                   \/ Crash \/ Calm \/ Settles
            PROVE  UNCHANGED sale
        BY <4>7 DEF Bet, Resolve, Crash, Calm, Settles
      <4> QED BY <4>1, <4>3, <4>4, <4>5, <4>6, <4>7, Steps
    <3>4. Last(e, s)' /\ s \in DOMAIN sale'
      BY <1>2, <3>1, <3>2 DEF Last
    <3>5. On(s, at[e].now.ticker, at[e].now.side)'
      <4>1. Falls(s)
        BY SalesFall
      <4> QED BY <3>1, <3>2, <4>1 DEF Falls, On
    <3> QED BY <3>1, <3>3, <3>4, <3>5
  <2> QED BY <2>1, <2>2
<1>4. SentInv'
  BY <1>3 DEF SentInv, Last, On
<1> QED BY <1>2, <1>4

-----------------------------------------------------------------------------
(* The sales no row accounts for *)

\* The two executors read the intents of their own sales only.  A deployment that runs
\* both is one in which no answer is lost and no process dies.
OneSeller == \A p \in Profiles : OnlyOne(p) \/ p.faults \cap {"lostsell", "crash"} = {}

\* Only the intent of a sale starts a claim.
LEMMA ClaimStarts ==
  ASSUME Typed, SentInv, [Next]_vars, NEW s \in DOMAIN sale', Claim(s)'
  PROVE  \/ s \in DOMAIN sale /\ Claim(s) /\ Falls(s) /\ Amount(s) \in Nat
         \/ \E e \in Engines : /\ SendSale(e) /\ s = Len(sale) + 1 /\ s \notin DOMAIN sale
                               /\ at[e].pc = "book" /\ at'[e].pc = "sent" /\ sale'[s].by = e
                               /\ sale'[s].ticker = at[e].now.ticker
                               /\ sale'[s].side = at[e].now.side
                               /\ Amount(s)' = at[e].now.count
<1>1. CASE s \in DOMAIN sale
  <2>1. Falls(s) /\ Amount(s) \in Nat
    BY <1>1, SalesFall, TypedMeans, SaleTyped
  <2>2. s \in DOMAIN sale' /\ sale'[s].row = "pending" /\ Amount(s)' > 0 /\ Amount(s)' \in Int
    <3>1. sale' \in Seq(Sale)
      BY TypedKept DEF Typed, SalesType
    <3>2. sale'[s] \in Sale
      BY <3>1
    <3> QED BY <3>2 DEF Claim, Amount, Sale
  <2> QED BY <1>1, <2>1, <2>2 DEF Claim, Falls
<1>2. CASE s \notin DOMAIN sale
  <2>1. PICK e \in Engines : SendSale(e)
    BY <1>2, SalesFall
  <2>0. PICK z : z = Len(sale) + 1
    OBVIOUS
  <2>2. /\ at[e].pc = "book" /\ at'[e].pc = "sent"
        /\ DOMAIN sale' = DOMAIN sale \union {z}
        /\ sale'[z].by = e /\ sale'[z].ticker = at[e].now.ticker /\ sale'[z].side = at[e].now.side
        /\ sale'[z].count = at[e].now.count /\ sale'[z].order = "flying"
    BY <2>0, <2>1, TypedMeans, SendStep
  <2>3. s = z
    BY <1>2, <2>2
  <2> QED BY <1>2, <2>0, <2>1, <2>2, <2>3 DEF Amount
<1> QED BY <1>1, <1>2

\* Whoever sold without a row to show for it is still waiting, or has stopped.
LEMMA ClaimsKept ==
  ASSUME OneSeller, Typed, SentInv, LockInv, ClaimsInv, [Next]_vars, ~forgot'
  PROVE  ClaimsInv'
<1> USE TypedMeans
<1>0. prof' = prof /\ prof \in Profiles
  BY ProfStays DEF Typed
<1> SUFFICES ASSUME NEW s \in DOMAIN sale', Claim(s)'
             PROVE  \/ (at[sale[s].by].pc = "sent" /\ Last(sale[s].by, s))'
                    \/ Frozen(sale[s].ticker)'
                    \/ OnlyOne(prof)'
  BY DEF ClaimsInv, Last, Frozen
<1>1. ASSUME NEW e \in Engines, SendSale(e), s = Len(sale) + 1
      PROVE  (at[sale[s].by].pc = "sent" /\ Last(sale[s].by, s))'
  <2>1. /\ at'[e].pc = "sent" /\ DOMAIN sale' = DOMAIN sale \union {s} /\ sale'[s].by = e
    BY <1>1, SendStep
  <2>2. \A z \in DOMAIN sale' : z <= s
    <3>1. DOMAIN sale = 1..Len(sale) /\ Len(sale) \in Nat
      BY DEF ShapeInv
    <3> QED BY <1>1, <2>1, <3>1
  <2> QED BY <2>1, <2>2 DEF Last
<1>2. ASSUME s \in DOMAIN sale, Claim(s), Falls(s)
      PROVE  \/ (at[sale[s].by].pc = "sent" /\ Last(sale[s].by, s))'
             \/ Frozen(sale[s].ticker)'
             \/ OnlyOne(prof)'
  <2>0. PICK e \in Engines, t \in Tickers : e = sale[s].by /\ t = sale[s].ticker
    BY <1>2, SaleTyped
  <2>s. sale'[s].by = e /\ sale'[s].ticker = t
    BY <1>2, <2>0 DEF Falls
  <2>1. CASE OnlyOne(prof)
    BY <1>0, <2>1 DEF OnlyOne
  <2>2. CASE Frozen(t)
    <3>1. Frozen(t)'
      BY <2>2, FrozenStays
    <3> QED BY <2>s, <3>1 DEF Frozen, Locks
  <2>3. CASE at[e].pc = "sent" /\ Last(e, s) /\ ~OnlyOne(prof)
    <3>1. CASE at'[e] = at[e]
      <4>1. Last(e, s)'
        BY <1>2, <2>3, <3>1, SentKept
      <4> QED BY <2>s, <2>3, <3>1, <4>1
    <3>2. CASE Answered(e)
      <4>1. PICK z : Answer(e, z) /\ Last(e, z)
        BY <3>2, AnsweredStep DEF Last, Answer
      <4>2. z = s
        <5>1. z \in Nat /\ s \in Nat /\ z <= s /\ s <= z
          BY <2>3, <4>1, SaleTyped DEF Last
        <5> QED BY <5>1
      <4>3. Loses(s) /\ sale'[s].row = "pending"
        BY <4>1, <4>2 DEF Answer, Registers, Loses, Frees, Claim, Moves, Amount
      <4>4. /\ Braked' /\ Others(e) /\ at'[e].pc = "exits" /\ Locks(e, t)
        BY <2>0, <2>3, <3>2, <4>1, <4>2, <4>3, AnsweredStep DEF Loses, Answer, On, Locks
      <4>5. \A f \in Engines : ~Locks(f, t)'
        BY <4>4 DEF LockInv, Locks, Others
      <4>6. Frozen(t)'
        BY <4>4, <4>5 DEF Frozen
      <4> QED BY <2>s, <4>6 DEF Frozen, Locks
    <3>3. CASE Refused(e)
      <4>1. PICK z \in DOMAIN sale : Last(e, z) /\ Moves(z, "cancelled", "dead", sale[z].count, sale[z].fill)
        BY <3>3, RefusedStep DEF Last
      <4>2. z = s
        <5>1. z \in Nat /\ s \in Nat /\ z <= s /\ s <= z
          BY <2>3, <4>1, SaleTyped DEF Last
        <5> QED BY <5>1
      <4> QED BY <4>1, <4>2 DEF Moves, Claim
    <3>4. CASE LoseAnswer(e)
      BY <1>0, <2>3, <3>4 DEF LoseAnswer, Fault, OneSeller
    <3>5. CASE Engine(e) /\ at'[e] # at[e]
      <4>1. \/ Answered(e) \/ Refused(e) \/ LoseAnswer(e)
        BY <2>3, <3>5 DEF Engine, Load, TickEnds, Discard, BeginExit, ReconcileSale, ReconcileFails,
                          NoSale, SendSale
      <4> QED BY <3>2, <3>3, <3>4, <4>1
    <3>6. ASSUME NEW f \in Engines, f # e, Engine(f) PROVE at'[e] = at[e]
      BY <3>6, EngineLocks DEF Others
    <3>7. ASSUME \A f \in Engines : ~Engine(f), at'[e] # at[e] PROVE FALSE
      BY <1>0, <2>3, <3>7, OtherLocks DEF OneSeller
    <3> QED BY <3>1, <3>5, <3>6, <3>7
  <2> QED BY <1>2, <2>0, <2>1, <2>2, <2>3 DEF ClaimsInv, Last, Frozen
<1> QED BY <1>1, <1>2, ClaimStarts

-----------------------------------------------------------------------------
(* What is open to be sold *)

\* The steps that touch the BUY rows.
LEMMA RowsSteps ==
  ASSUME Typed, SentInv, [Next]_vars
  PROVE  \/ UNCHANGED rows
         \/ \E l \in Lots, n \in 1..MaxSize : Bet(l, n)
         \/ Settles
         \/ \E e \in Engines, z \in DOMAIN sale : Answer(e, z) /\ Registers(z)
<1> USE TypedMeans
<1>1. ASSUME NEW e \in Engines, ReconcileSale(e) \/ Answered(e)
      PROVE  UNCHANGED rows \/ \E f \in Engines, z \in DOMAIN sale : Answer(f, z) /\ Registers(z)
  <2>1. PICK z : Answer(e, z)
    BY <1>1, ReconcileStep, AnsweredStep
  <2> QED BY <2>1 DEF Answer, Loses, Frees
<1>2. ASSUME NEW e \in Engines, Engine(e), ~(ReconcileSale(e) \/ Answered(e))
      PROVE  UNCHANGED rows
  BY <1>2 DEF Engine, Load, TickEnds, Discard, BeginExit, ReconcileFails, NoSale, SendSale,
              Refused, LoseAnswer
<1>3. ASSUME NEW s \in DOMAIN sale, Vanish(s) \/ \E n \in 0..sale[s].count : Match(s, n)
      PROVE  UNCHANGED rows
  BY <1>3 DEF Vanish, Match
<1>4. ASSUME (\E t \in Tickers : Resolve(t)) \/ Crash \/ Boot \/ Calm PROVE UNCHANGED rows
  BY <1>4 DEF Resolve, Crash, Boot, Calm
<1> QED BY <1>1, <1>2, <1>3, <1>4, Steps

\* Nothing open on a side of a market closes, and no leg of an arb opens.
Stays(t, d) ==
  /\ \A l \in OpenLots : Ticker[l] = t /\ Side[l] = d => l \in OpenLots' /\ left'[l] = left[l]
  /\ \A l \in Lots : Owner[l] = "motor_1" /\ l \in OpenLots' => l \in OpenLots

\* What stays open may still be sold.
LEMMA OpenStays ==
  ASSUME TypeOK, TypeOK', prof' = prof, NEW t, NEW d, Stays(t, d), NEW e
  PROVE  OpenFor(e, t, d) <= SumFunctionOnSet(left', Attributable(e, t, d)')
<1> DEFINE S == Attributable(e, t, d)
<1>0. PICK T : T = Attributable(e, t, d)'
  OBVIOUS
<1>1. S \in SUBSET Lots /\ T \in SUBSET Lots
  BY <1>0 DEF Attributable, OpenLots
<1>2. \A l \in S : l \in OpenLots /\ Ticker[l] = t /\ Side[l] = d
  BY DEF Attributable
<1>3. \A l \in S : l \in OpenLots' /\ left'[l] = left[l]
  BY <1>2 DEF Stays
<1>4. \A l \in Lots : Hedged(l)' => Hedged(l)
  BY DEF Stays, Hedged, OpenLots
<1>5. \A l \in S : Orphan(l) => Orphan(l)'
  BY <1>1, <1>3, <1>4 DEF Orphan
<1>6. S \subseteq T
  BY <1>0, <1>2, <1>3, <1>5 DEF Attributable
<1> HIDE DEF S
<1>7. IsFiniteSet(S) /\ IsFiniteSet(T)
  BY <1>1, LotsAssumption, FS_Subset
<1>8. (\A l \in T : left'[l] \in Nat) /\ \A l \in S : left[l] \in Int /\ left'[l] = left[l]
  BY <1>1, <1>3, ProfilesAssumption DEF TypeOK
<1>9. SumFunctionOnSet(left', S) <= SumFunctionOnSet(left', T)
  BY <1>6, <1>7, <1>8, SumNat
<1>10. SumFunctionOnSet(left', S) = SumFunctionOnSet(left, S)
  BY <1>7, <1>8, SumEqual
<1> QED BY <1>0, <1>9, <1>10 DEF S, OpenFor, Total

\* Only a sale that registers takes from the open lots of its side.
LEMMA RowsStay ==
  ASSUME Typed, SentInv, [Next]_vars, NEW t, NEW d,
         t \notin resolved \/ t \notin resolved',
         \A z \in DOMAIN sale : Registers(z) => ~On(z, t, d)
  PROVE  Stays(t, d)
<1> USE TypedMeans
<1>0. t \notin resolved
  BY ProfStays
<1>1. CASE UNCHANGED rows
  BY <1>1 DEF rows, Stays, OpenLots
<1>2. ASSUME NEW l \in Lots, NEW n \in 1..MaxSize, Bet(l, n) PROVE Stays(t, d)
  BY <1>2, BetStep DEF Stays, OpenLots
<1>3. CASE Settles
  BY <1>0, <1>3 DEF Settles, Stays, OpenLots
<1>4. ASSUME NEW e \in Engines, NEW z \in DOMAIN sale, Answer(e, z), Registers(z)
      PROVE  Stays(t, d)
  <2> DEFINE S == Attributable(sale[z].by, sale[z].ticker, sale[z].side)
  <2>1. sale[z].fill \in Nat /\ ~On(z, t, d)
    BY <1>4, SaleTyped
  <2>2. /\ \A l \in Lots \ S : lot'[l] = lot[l] /\ left'[l] = left[l]
        /\ \A l \in S : lot'[l] = "filled" <=> left'[l] > 0
    BY <1>4, <2>1, CloseTyped DEF Registers
  <2>3. \A l \in S : l \in OpenLots /\ Ticker[l] = sale[z].ticker /\ Side[l] = sale[z].side
    BY DEF Attributable
  <2>4. \A l \in OpenLots : Ticker[l] = t /\ Side[l] = d => l \notin S
    BY <2>1, <2>3 DEF On
  <2> HIDE DEF S
  <2> QED BY <2>2, <2>3, <2>4 DEF Stays, OpenLots
<1> QED BY <1>1, <1>2, <1>3, <1>4, RowsSteps

\* What is open on a market without a result does not shrink, unless a sale registers.
LEMMA OpenGrows ==
  ASSUME Typed, SentInv, [Next]_vars, NEW e, NEW t, NEW d, t \notin resolved',
         \A z \in DOMAIN sale : Registers(z) => ~On(z, t, d)
  PROVE  OpenFor(e, t, d) <= OpenFor(e, t, d)' /\ OpenFor(e, t, d) \in Nat /\ OpenFor(e, t, d)' \in Nat
<1>1. TypeOK /\ TypeOK' /\ prof' = prof
  BY TypedMeans, TypedMeansThen, TypedKept, ProfStays
<1>2. OpenFor(e, t, d)' = SumFunctionOnSet(left', Attributable(e, t, d)')
  BY DEF OpenFor, Total
<1>3. OpenFor(e, t, d) <= SumFunctionOnSet(left', Attributable(e, t, d)')
  BY <1>1, OpenStays, RowsStay
<1>4. OpenFor(e, t, d) \in Nat
  BY <1>1, AttributableLots, TotalType DEF OpenFor
<1>5. SumFunctionOnSet(left', Attributable(e, t, d)') \in Nat
  <2>1. PICK T : T = Attributable(e, t, d)'
    OBVIOUS
  <2>2. T \in SUBSET Lots
    BY <2>1 DEF Attributable, OpenLots
  <2>3. IsFiniteSet(T)
    BY <2>2, LotsAssumption, FS_Subset
  <2>4. \A l \in T : left'[l] \in Nat
    BY <1>1, <2>2, ProfilesAssumption DEF TypeOK
  <2> QED BY <2>1, <2>3, <2>4, SumNat
<1> QED BY <1>2, <1>3, <1>4, <1>5

\* A sale that registers was a claim until then.
LEMMA RegistersClaim ==
  ASSUME NEW z, Registers(z)
  PROVE  Claim(z) /\ sale'[z].row = "settled" /\ DOMAIN sale' = DOMAIN sale
BY DEF Registers, Claim, Amount, Moves

\* An engine at the book is alone to sell on its market: no sale of it is pending.
LEMMA NoClaims ==
  ASSUME OneSeller, Typed, SentInv, LockInv, KilledInv, ClaimsInv,
         NEW e \in Engines, e \in prof.engines, NEW t \in Tickers, NEW s \in DOMAIN sale,
         sale[s].by # e, sale[s].ticker = t, Claim(s),
         Locks(e, t) \/ (brake = "off" /\ LockFree(t))
  PROVE  FALSE
<1> USE TypedMeans
<1>1. PICK f \in Engines : f = sale[s].by
  BY SaleTyped
<1>2. f # e /\ f \in prof.engines
  BY <1>1 DEF ShapeInv, Sound
<1>3. ~OnlyOne(prof)
  BY <1>2 DEF OnlyOne
<1>4. CASE at[f].pc = "sent" /\ \A z \in DOMAIN sale : sale[z].by = f => z <= s
  <2>1. PICK z \in DOMAIN sale : /\ sale[z].by = f /\ \A y \in DOMAIN sale : sale[y].by = f => y <= z
                                 /\ On(z, at[f].now.ticker, at[f].now.side)
    BY <1>4 DEF SentInv
  <2>2. z = s
    <3>1. z \in Nat /\ s \in Nat /\ z <= s /\ s <= z
      BY <1>1, <1>4, <2>1, SaleTyped
    <3> QED BY <3>1
  <2>3. Locks(f, t)
    BY <1>4, <2>1, <2>2 DEF Locks, On
  <2> QED BY <1>2, <2>3 DEF LockInv, LockFree, Locks
<1>5. CASE Braked /\ \A g \in Engines : ~Locks(g, t)
  BY <1>5
<1> QED BY <1>1, <1>3, <1>4, <1>5 DEF ClaimsInv

\* A claim stays backed by open lots, and the only one of its side.
LEMMA BackedKept ==
  ASSUME Typed, SentInv, LockInv, BackedInv, BookInv, [Next]_vars
  PROVE  BackedInv'
<1> USE TypedMeans
<1>1. ASSUME NEW s \in DOMAIN sale', NEW f \in Engines, NEW t \in Tickers, NEW d \in Sides,
             Claim(s)', sale'[s].by = f, On(s, t, d)', t \notin resolved'
      PROVE  Amount(s)' <= OpenFor(f, t, d)'
  <2>1. f = sale'[s].by /\ t = sale'[s].ticker /\ d = sale'[s].side
    BY <1>1 DEF On
  <2>2. CASE s \in DOMAIN sale /\ Claim(s) /\ Falls(s) /\ Amount(s) \in Nat
    <3>1. sale[s].by = f /\ sale[s].ticker = t /\ sale[s].side = d /\ Amount(s)' <= Amount(s)
      BY <2>1, <2>2 DEF Falls
    <3>2. t \notin resolved /\ t \notin resolved'
      BY <1>1, <2>1, ProfStays
    <3>3. Amount(s) <= OpenFor(f, t, d)
      BY <2>2, <3>1, <3>2 DEF BackedInv, On
    <3>4. ASSUME NEW z \in DOMAIN sale, Registers(z), On(z, t, d) PROVE FALSE
      <4>1. Claim(z) /\ sale'[z].row = "settled"
        BY <3>4, RegistersClaim
      <4>2. z = s
        BY <2>2, <3>1, <3>4, <4>1 DEF BackedInv, On
      <4> QED BY <1>1, <4>1, <4>2 DEF Claim
    <3>5. OpenFor(f, t, d) <= OpenFor(f, t, d)' /\ OpenFor(f, t, d) \in Nat /\ OpenFor(f, t, d)' \in Nat
      BY <3>2, <3>4, OpenGrows
    <3>6. Amount(s)' \in Int
      <4>1. sale' \in Seq(Sale)
        BY TypedKept DEF Typed, SalesType
      <4>2. sale'[s] \in Sale
        BY <4>1
      <4> QED BY <4>2 DEF Amount, Sale
    <3>7. Amount(s)' <= OpenFor(f, t, d)'
      BY <2>2, <3>1, <3>3, <3>5, <3>6
    <3> QED BY <2>1, <3>7
  <2>3. ASSUME NEW e \in Engines, SendSale(e), s \notin DOMAIN sale, at[e].pc = "book", f = e,
               t = at[e].now.ticker, d = at[e].now.side, Amount(s)' = at[e].now.count
        PROVE  Amount(s)' <= OpenFor(f, t, d)'
    <3>1. t \notin resolved /\ t \notin resolved'
      BY <1>1, <2>1, ProfStays
    <3>2. Amount(s)' <= OpenFor(f, t, d)
      BY <2>3, <3>1 DEF BookInv
    <3>3. \A z \in DOMAIN sale : ~Registers(z)
      <4>1. DOMAIN sale' # DOMAIN sale
        BY <1>1, <2>3
      <4> QED BY <4>1, RegistersClaim
    <3>4. OpenFor(f, t, d) <= OpenFor(f, t, d)' /\ OpenFor(f, t, d) \in Nat /\ OpenFor(f, t, d)' \in Nat
      BY <3>1, <3>3, OpenGrows
    <3>5. Amount(s)' \in Int
      <4>1. at[e] \in State
        BY DEF ShapeInv
      <4>2. at[e].now \in Want
        BY <2>3, <4>1, StateParts
      <4> QED BY <2>3, <4>2 DEF Want
    <3> QED BY <3>2, <3>4, <3>5
  <2>4. Amount(s)' <= OpenFor(f, t, d)'
         \/ (s \in DOMAIN sale /\ Claim(s) /\ Falls(s) /\ Amount(s) \in Nat)
    BY <1>1, <2>1, <2>3, ClaimStarts
  <2> QED BY <2>1, <2>2, <2>4
<1>2. ASSUME NEW s \in DOMAIN sale', Claim(s)', NEW z \in DOMAIN sale', Claim(z)',
             sale'[z].ticker = sale'[s].ticker, sale'[z].side = sale'[s].side
      PROVE  z = s
  <2>1. CASE s \in DOMAIN sale /\ z \in DOMAIN sale
    <3>1. Claim(s) /\ Falls(s) /\ Claim(z) /\ Falls(z)
      BY <1>2, <2>1, ClaimStarts
    <3> QED BY <1>2, <2>1, <3>1 DEF Falls, On, BackedInv
  <2>2. CASE s \notin DOMAIN sale /\ z \notin DOMAIN sale
    BY <1>2, <2>2, ClaimStarts
  <2>3. ASSUME NEW x \in DOMAIN sale', Claim(x)', x \notin DOMAIN sale,
               NEW y \in DOMAIN sale, y \in DOMAIN sale', Claim(y)',
               sale'[x].ticker = sale'[y].ticker, sale'[x].side = sale'[y].side
        PROVE  FALSE
    <3>1. PICK e \in Engines : /\ at[e].pc = "book" /\ sale'[x].ticker = at[e].now.ticker
                               /\ sale'[x].side = at[e].now.side
      BY <2>3, ClaimStarts
    <3>2. Claim(y) /\ Falls(y) /\ sale[y].ticker \in Tickers /\ sale[y].side \in Sides
      BY <2>3, ClaimStarts, SaleTyped
    <3> QED BY <2>3, <3>1, <3>2 DEF BookInv, On, Falls
  <2> QED BY <1>2, <2>1, <2>2, <2>3
<1> QED BY <1>1, <1>2 DEF BackedInv, On

\* So does the exit of an engine that is at the book.
LEMMA BookKept ==
  ASSUME OneSeller, Typed, SentInv, LockInv, KilledInv, ClaimsInv, BookInv, [Next]_vars
  PROVE  BookInv'
<1> USE TypedMeans
<1> SUFFICES ASSUME NEW e \in Engines, NEW t \in Tickers, NEW d \in Sides,
                    at'[e].pc = "book", at'[e].now.ticker = t, at'[e].now.side = d
             PROVE  /\ t \notin resolved' => at'[e].now.count <= OpenFor(e, t, d)'
                    /\ \A s \in DOMAIN sale' : Claim(s)' => ~On(s, t, d)'
  BY DEF BookInv
<1>0. at' \in [Engines -> State] /\ at'[e].now.count \in Int
  <2>1. at' \in [Engines -> State]
    BY TypedKept DEF Typed, AtType
  <2>2. at'[e].now \in Want
    BY <2>1, StateParts
  <2> QED BY <2>1, <2>2 DEF Want
<1>1. CASE at'[e] = at[e]
  <2>1. ASSUME NEW s \in DOMAIN sale, Claim(s), On(s, t, d) PROVE FALSE
    BY <1>1, <2>1 DEF BookInv
  <2>2. ASSUME NEW s \in DOMAIN sale', Claim(s)', On(s, t, d)' PROVE FALSE
    <3>1. CASE s \in DOMAIN sale /\ Claim(s) /\ Falls(s)
      BY <2>1, <2>2, <3>1 DEF Falls, On
    <3>2. ASSUME NEW f \in Engines, at[f].pc = "book", at'[f].pc = "sent",
                 sale'[s].ticker = at[f].now.ticker
          PROVE  FALSE
      <4>1. f # e /\ Locks(f, t) /\ Locks(e, t)
        BY <1>1, <2>2, <3>2 DEF Locks, On
      <4> QED BY <4>1 DEF LockInv
    <3> QED BY <2>2, <3>1, <3>2, ClaimStarts
  <2>3. ASSUME t \notin resolved' PROVE at'[e].now.count <= OpenFor(e, t, d)'
    <3>1. t \notin resolved
      BY <2>3, ProfStays
    <3>2. at[e].now.count <= OpenFor(e, t, d)
      BY <1>1, <3>1 DEF BookInv
    <3>3. \A z \in DOMAIN sale : Registers(z) => ~On(z, t, d)
      BY <2>1, RegistersClaim
    <3>4. OpenFor(e, t, d) <= OpenFor(e, t, d)' /\ OpenFor(e, t, d) \in Nat /\ OpenFor(e, t, d)' \in Nat
      BY <2>3, <3>3, OpenGrows
    <3> QED BY <1>0, <1>1, <3>2, <3>4
  <2> QED BY <2>2, <2>3
<1>2. ASSUME NEW w \in at[e].wants, BeginExit(e, w)
      PROVE  /\ t \notin resolved' => at'[e].now.count <= OpenFor(e, t, d)'
             /\ \A s \in DOMAIN sale' : Claim(s)' => ~On(s, t, d)'
  <2>1. /\ e \in prof.engines /\ brake = "off" /\ LockFree(t) /\ Unresolved(e, w) = {}
        /\ w.ticker = t /\ w.side = d
        /\ at'[e].now.count <= OpenFor(e, t, d) /\ sale' = sale
    BY <1>2, BeginStep
  <2>2. ASSUME NEW s \in DOMAIN sale', Claim(s)', On(s, t, d)' PROVE FALSE
    <3>1. Claim(s) /\ On(s, t, d) /\ s \in DOMAIN sale
      BY <2>1, <2>2 DEF Claim, Amount, On
    <3>2. sale[s].by # e
      BY <2>1, <3>1 DEF Unresolved, Claim, On
    <3> QED BY <2>1, <3>1, <3>2, NoClaims DEF On
  <2>3. ASSUME t \notin resolved' PROVE at'[e].now.count <= OpenFor(e, t, d)'
    <3>1. \A z \in DOMAIN sale : ~Registers(z)
      BY <2>1, RegistersClaim DEF Claim
    <3>2. OpenFor(e, t, d) <= OpenFor(e, t, d)' /\ OpenFor(e, t, d) \in Nat /\ OpenFor(e, t, d)' \in Nat
      BY <2>3, <3>1, OpenGrows
    <3> QED BY <1>0, <2>1, <3>2
  <2> QED BY <2>2, <2>3
<1>3. ASSUME ReconcileSale(e), at'[e] # at[e]
      PROVE  /\ t \notin resolved' => at'[e].now.count <= OpenFor(e, t, d)'
             /\ \A s \in DOMAIN sale' : Claim(s)' => ~On(s, t, d)'
  <2>1. PICK z, w : /\ Answer(e, z) /\ w = at[e].now /\ brake' = brake /\ Unresolved(e, w) = {z}
                    /\ w.ticker = t /\ w.side = d
                    /\ at'[e].now.count <= SumFunctionOnSet(left', Attributable(e, w.ticker, w.side)')
    BY <1>3, ReconcileStep
  <2>2. at[e].pc = "reconcile" /\ e \in prof.engines /\ Locks(e, t)
    BY <1>3, <2>1, ReconcileStep DEF Locks
  <2>3. at'[e].now.count <= OpenFor(e, t, d)'
    BY <2>1 DEF OpenFor, Total
  <2>4. ASSUME NEW s \in DOMAIN sale, Claim(s), On(s, t, d) PROVE s = z
    <3>1. sale[s].by = e
      BY <2>2, <2>4, NoClaims DEF On
    <3> QED BY <2>1, <2>4, <3>1 DEF Unresolved, Claim, On
  <2>5. ~(Loses(z) /\ Claim(z))
    <3> SUFFICES ASSUME Loses(z), Claim(z) PROVE FALSE
      OBVIOUS
    <3>1. Braked /\ z \in DOMAIN sale /\ sale[z].by = e /\ sale[z].ticker = t
      BY <2>1 DEF Loses, Answer, On
    <3>2. ~OnlyOne(prof)
      BY <2>2, <3>1 DEF KilledInv
    <3> QED BY <2>2, <3>1, <3>2 DEF ClaimsInv
  <2>6. ~Claim(z)'
    <3>1. Loses(z) => Claim(z)
      BY <2>1 DEF Loses, Answer, Claim, Amount
    <3>2. Registers(z) \/ Frees(z)
      BY <2>1, <2>5, <3>1 DEF Answer
    <3> QED BY <3>2 DEF Registers, Frees, Moves, Claim, Amount
  <2>7. ASSUME NEW s \in DOMAIN sale', Claim(s)', On(s, t, d)' PROVE FALSE
    <3>1. ~(\E f \in Engines : SendSale(f) /\ at'[f].pc = "sent")
      <4>1. Others(e) /\ DOMAIN sale' = DOMAIN sale
        BY <1>3, <2>1, ReconcileStep DEF Answer, Registers, Loses, Frees, Moves
      <4>2. \A f \in Engines : SendSale(f) => DOMAIN sale' # DOMAIN sale
        BY SendStep
      <4> QED BY <4>1, <4>2
    <3>2. s \in DOMAIN sale /\ Claim(s) /\ Falls(s)
      BY <2>7, <3>1, ClaimStarts
    <3> QED BY <2>4, <2>6, <2>7, <3>2 DEF Falls, On
  <2> QED BY <2>3, <2>7
<1>4. ASSUME Engine(e), at'[e] # at[e]
      PROVE  ReconcileSale(e) \/ \E w \in at[e].wants : BeginExit(e, w)
  <2>1. ~(\/ Load(e) \/ TickEnds(e) \/ ReconcileFails(e) \/ NoSale(e) \/ LoseAnswer(e)
          \/ \E w \in at[e].wants : Discard(e, w))
    BY RetireSteps DEF Retires
  <2>2. ~(Answered(e) \/ Refused(e) \/ SendSale(e))
    BY AnsweredStep, RefusedStep, SendStep
  <2> QED BY <1>4, <2>1, <2>2 DEF Engine
<1>5. ASSUME NEW f \in Engines, f # e, Engine(f) PROVE at'[e] = at[e]
  BY <1>5, EngineLocks DEF Others
<1>6. ASSUME \A f \in Engines : ~Engine(f) PROVE at'[e] = at[e]
  BY <1>6, OtherLocks
<1> QED BY <1>1, <1>2, <1>3, <1>4, <1>5, <1>6

-----------------------------------------------------------------------------
(* What the rows say was sold *)

\* The sales are finitely many.
LEMMA NumbersOfSales ==
  ASSUME Typed
  PROVE  IsFiniteSet(Numbers) /\ DOMAIN sale \subseteq Numbers
<1>1. /\ DOMAIN sale = 1..Len(sale) /\ Len(sale) \in Nat /\ Len(sale) <= MaxSales /\ MaxSales \in Nat
  BY ProfilesAssumption DEF Typed, SalesType
<1>2. IsFiniteSet(1..MaxSales)
  BY <1>1, FS_Interval
<1> QED BY <1>1, <1>2 DEF Numbers

\* A row is registered by the answer to its sale, with the lots or without them.
LEMMA SettledBy ==
  ASSUME Typed, SentInv, [Next]_vars, NEW s \in DOMAIN sale,
         sale[s].row = "pending", sale'[s].row = "settled"
  PROVE  \E e \in Engines : /\ ReconcileSale(e) \/ Answered(e)
                            /\ Answer(e, s) /\ (Registers(s) \/ Loses(s))
<1> USE TypedMeans
<1>1. sale' # sale
  OBVIOUS
<1>2. ASSUME NEW e \in Engines, ReconcileSale(e) \/ Answered(e)
      PROVE  Answer(e, s) /\ (Registers(s) \/ Loses(s))
  <2>1. PICK z : Answer(e, z)
    BY <1>2, ReconcileStep, AnsweredStep
  <2>2. z = s
    BY <2>1 DEF Answer, Registers, Loses, Frees, Moves
  <2> QED BY <2>1, <2>2 DEF Answer, Frees, Moves
<1>3. ASSUME NEW e \in Engines, Engine(e), ~(ReconcileSale(e) \/ Answered(e)) PROVE FALSE
  <2>1. CASE SendSale(e)
    BY <2>1, SendStep
  <2>2. CASE Refused(e)
    BY <2>2, RefusedStep DEF Moves
  <2>3. CASE ~SendSale(e) /\ ~Refused(e)
    BY <1>1, <1>3, <2>3 DEF Engine, Load, TickEnds, Discard, BeginExit, ReconcileFails, NoSale,
       LoseAnswer
  <2> QED BY <2>1, <2>2, <2>3
<1>4. ASSUME NEW z \in DOMAIN sale, Vanish(z) \/ \E n \in 0..sale[z].count : Match(z, n) PROVE FALSE
  BY <1>4, VanishStep, MatchStep DEF Moves
<1>5. ~Boot
  BY BootStep DEF Rebooted
<1>6. ~(\/ \E l \in Lots, n \in 1..MaxSize : Bet(l, n)
        \/ \E t \in Tickers : Resolve(t)
        \/ Crash \/ Calm \/ Settles)
  BY <1>1 DEF Bet, Resolve, Crash, Calm, Settles
<1> QED BY <1>2, <1>3, <1>4, <1>5, <1>6, Steps

\* A sale that could not be written stops the selling on its market.
LEMMA LosesFreezes ==
  ASSUME Typed, SentInv, LockInv, KilledInv, ClaimsInv, [Next]_vars,
         NEW e \in Engines, ReconcileSale(e) \/ Answered(e), NEW s, Answer(e, s), Loses(s), NEW t,
         sale[s].ticker = t
  PROVE  Frozen(t)'
<1> USE TypedMeans
<1>1. /\ s \in DOMAIN sale /\ sale[s].by = e /\ Claim(s) /\ Braked'
      /\ at[e].now.ticker = t
  BY DEF Answer, Loses, Claim, Amount, On
<1>2. at[e].pc \in {"reconcile", "sent"} /\ Others(e) /\ Locks(e, t) /\ t \in Tickers /\ e \in prof.engines
  BY <1>1, AnsweredStep, ReconcileStep, SaleTyped DEF Locks
<1>3. at'[e].pc = "exits"
  <2>1. CASE Answered(e)
    BY <2>1, AnsweredStep
  <2>2. CASE ReconcileSale(e) /\ ~Braked
    BY <1>1, <2>2, ReconcileStep
  <2>3. CASE ReconcileSale(e) /\ Braked
    <3>1. at[e].pc = "reconcile"
      BY <2>3, ReconcileStep
    <3>2. OnlyOne(prof)
      BY <1>1, <1>2, <3>1 DEF ClaimsInv
    <3> QED BY <1>2, <2>3, <3>2 DEF KilledInv
  <2> QED BY <2>1, <2>2, <2>3
<1>4. \A f \in Engines : ~Locks(f, t)'
  BY <1>2, <1>3 DEF LockInv, Locks, Others
<1> QED BY <1>1, <1>4 DEF Frozen

\* What the exits took from the lots never shrinks.
LEMMA ClosedGrows ==
  ASSUME Typed, SentInv, [Next]_vars
  PROVE  \A l \in Lots : /\ ClosedOf[l] \in Nat /\ ClosedOf'[l] \in Nat /\ ClosedOf[l] <= ClosedOf'[l]
                         /\ bought[l] \in Nat /\ bought'[l] \in Nat /\ bought[l] <= bought'[l]
<1> USE TypedMeans
<1>1. /\ \A l \in Lots : left[l] \in Nat /\ bought[l] \in Nat /\ left[l] <= bought[l]
      /\ \A l \in Lots : left'[l] \in Nat /\ bought'[l] \in Nat /\ left'[l] <= bought'[l]
  <2>1. RowsType /\ RowsType'
    BY TypedKept DEF Typed
  <2> QED BY <2>1, ProfilesAssumption DEF RowsType
<1>2. \A l \in Lots : bought[l] - left[l] <= bought'[l] - left'[l] /\ bought[l] <= bought'[l]
  <2>1. CASE UNCHANGED rows
    BY <1>1, <2>1 DEF rows
  <2>2. ASSUME NEW k \in Lots, NEW n \in 1..MaxSize, Bet(k, n)
        PROVE  \A l \in Lots : bought[l] - left[l] <= bought'[l] - left'[l] /\ bought[l] <= bought'[l]
    <3>1. left[k] = 0 /\ bought[k] = 0 /\ n \in Nat
      BY <2>2, BetStep DEF LotsInv
    <3>2. \A l \in Lots : /\ left'[l] = IF l = k THEN n ELSE left[l]
                          /\ bought'[l] = IF l = k THEN n ELSE bought[l]
      BY <2>2, BetStep
    <3> QED BY <1>1, <3>1, <3>2
  <2>3. CASE Settles
    BY <1>1, <2>3 DEF Settles
  <2>4. ASSUME NEW e \in Engines, NEW z \in DOMAIN sale, Answer(e, z), Registers(z)
        PROVE  \A l \in Lots : bought[l] - left[l] <= bought'[l] - left'[l] /\ bought[l] <= bought'[l]
    <3>1. sale[z].fill \in Nat
      BY SaleTyped
    <3>2. bought' = bought /\ \A l \in Lots : left'[l] <= left[l]
      BY <2>4, <3>1, CloseTyped DEF Registers
    <3> QED BY <1>1, <3>2
  <2> QED BY <2>1, <2>2, <2>3, <2>4, RowsSteps
<1>3. \A l \in Lots : ClosedOf[l] = bought[l] - left[l] /\ ClosedOf'[l] = bought'[l] - left'[l]
  BY DEF ClosedOf
<1> QED BY <1>1, <1>2, <1>3

\* A sale that registers takes from the lots what its row says.
LEMMA SoldIsTaken ==
  ASSUME Typed, BackedInv, NEW e \in Engines, NEW z \in DOMAIN sale, Answer(e, z), Registers(z),
         NEW t \in Tickers, NEW d \in Sides, On(z, t, d), t \notin resolved,
         NEW S, Attributable(e, t, d) \subseteq S, S \in SUBSET Lots, NEW x,
         \A l \in S : x[l] = left[l] - left'[l]
  PROVE  /\ IsFiniteSet(S) /\ (\A l \in S : x[l] \in Int)
         /\ SumFunctionOnSet(x, S) = sale[z].fill
<1> USE TypedMeans
<1> DEFINE A == Attributable(e, t, d)
           n == sale[z].fill
           f == [l \in A |-> Taken(A, l, n)]
<1>1. /\ n \in Nat /\ n <= OpenFor(e, t, d)
      /\ sale[z].by = e /\ sale[z].ticker = t /\ sale[z].side = d
  <2>1. Claim(z) /\ Amount(z) = n /\ sale[z].by = e
    BY DEF Registers, Claim, Amount, Answer
  <2>2. n \in Nat
    BY SaleTyped
  <2> QED BY <2>1, <2>2 DEF BackedInv, On
<1>2. /\ A \in SUBSET Lots
      /\ \A l \in Lots \ A : left'[l] = left[l]
      /\ \A l \in A : left'[l] = left[l] - Taken(A, l, n)
  BY <1>1, CloseTyped, AttributableLots DEF Registers
<1>3. IsFiniteSet(S) /\ IsFiniteSet(A)
  BY <1>2, LotsAssumption, FS_Subset
<1>4. \A l \in Lots : left[l] \in Nat
  BY ProfilesAssumption DEF TypeOK
<1>5. \A l \in A : left[l] \in Nat
  BY <1>2, <1>4
<1>6. n <= Total(A)
  BY <1>1 DEF OpenFor
<1> HIDE DEF A, n
<1>7. /\ \A l \in A : Taken(A, l, n) \in 0..left[l]
      /\ SumFunctionOnSet(f, A) = n
  BY <1>1, <1>2, <1>5, <1>6, TakenAll
<1>8. \A l \in A : f[l] = Taken(A, l, n) /\ f[l] \in Int
  BY <1>7
<1> HIDE DEF f
<1>9. \A l \in A : x[l] = f[l]
  <2> TAKE l \in A
  <2>1. l \in S /\ x[l] = left[l] - left'[l] /\ left'[l] = left[l] - Taken(A, l, n)
    BY <1>2 DEF A
  <2>2. left[l] \in Int /\ Taken(A, l, n) \in Int
    BY <1>5, <1>8
  <2> QED BY <1>8, <2>1, <2>2
<1>10. \A l \in S \ A : x[l] = 0
  BY <1>2, <1>4
<1>11. SumFunctionOnSet(x, S) = SumFunctionOnSet(f, A)
  <2>1. A \subseteq S
    BY DEF A
  <2> QED BY <1>3, <1>8, <1>9, <1>10, <2>1, SumFilter
<1>12. \A l \in S : x[l] \in Int
  BY <1>8, <1>9, <1>10
<1> QED BY <1>3, <1>7, <1>11, <1>12 DEF n

\* What registers was taken; what is lost freezes its market.
LEMMA LedgerKept ==
  ASSUME Typed, SentInv, LockInv, KilledInv, ClaimsInv, BackedInv, LedgerInv, [Next]_vars,
         ~forgot'
  PROVE  LedgerInv'
<1> USE TypedMeans
<1> SUFFICES ASSUME NEW t \in Tickers, NEW d \in Sides, t \notin resolved', ~Frozen(t)'
             PROVE  SumFunctionOnSet(RegisteredOf(t, d), Numbers)'
                      <= SumFunctionOnSet(ClosedOf', Closable(t, d))
  <2>1. ASSUME NEW t \in Tickers, NEW d \in Sides
        PROVE  SumFunctionOnSet(ClosedOf, Closable(t, d))' = SumFunctionOnSet(ClosedOf', Closable(t, d))
    BY DEF Closable
  <2> QED BY <2>1 DEF LedgerInv, Frozen
<1> DEFINE S == Closable(t, d)
<1>0. PICK f, g, c, k : /\ f = RegisteredOf(t, d) /\ g = RegisteredOf(t, d)'
                        /\ c = ClosedOf /\ k = ClosedOf'
  OBVIOUS
<1>1. t \notin resolved /\ ~Frozen(t)
  BY ProfStays, FrozenStays
<1>2. SumFunctionOnSet(f, Numbers) <= SumFunctionOnSet(c, S)
  BY <1>0, <1>1 DEF LedgerInv, Frozen
<1>3. IsFiniteSet(Numbers) /\ DOMAIN sale \subseteq Numbers /\ IsFiniteSet(S) /\ S \in SUBSET Lots
  <2>1. S \in SUBSET Lots
    BY DEF Closable
  <2>2. IsFiniteSet(S)
    BY <2>1, LotsAssumption, FS_Subset
  <2> QED BY <2>1, <2>2, NumbersOfSales
<1>4. \A l \in S : c[l] \in Int /\ k[l] \in Int /\ c[l] <= k[l]
  BY <1>0, <1>3, ClosedGrows
<1>5. \A s \in Numbers :
        /\ f[s] = IF s \in DOMAIN sale /\ On(s, t, d) /\ sale[s].row = "settled" THEN sale[s].fill ELSE 0
        /\ f[s] \in Nat
  <2>1. \A s \in DOMAIN sale : sale[s].fill \in Nat
    BY SaleTyped
  <2> QED BY <1>0, <2>1 DEF RegisteredOf
<1>6. \A s \in Numbers :
        g[s] = IF s \in DOMAIN sale' /\ On(s, t, d)' /\ sale'[s].row = "settled" THEN sale'[s].fill ELSE 0
  BY <1>0 DEF RegisteredOf
<1> HIDE DEF S
<1>7. ASSUME NEW e \in Engines, NEW z \in DOMAIN sale, Answer(e, z), Registers(z), On(z, t, d)
      PROVE  SumFunctionOnSet(g, Numbers) <= SumFunctionOnSet(k, S)
  <2> DEFINE x == [l \in S |-> left[l] - left'[l]]
  <2>1. /\ (\A l \in S : x[l] \in Int) /\ SumFunctionOnSet(x, S) = sale[z].fill
    <3>1. Attributable(e, t, d) \subseteq S
      BY AttributableLots DEF S
    <3>2. \A l \in S : x[l] = left[l] - left'[l]
      OBVIOUS
    <3> HIDE DEF x
    <3> QED BY <1>1, <1>3, <1>7, <3>1, <3>2, SoldIsTaken
  <2>2. \A l \in S : k[l] = c[l] + x[l]
    <3>1. bought' = bought /\ \A l \in Lots : left[l] \in Int /\ left'[l] \in Int /\ bought[l] \in Int
      <4>1. sale[z].fill \in Nat
        BY SaleTyped
      <4>2. bought' = bought
        BY <1>7, <4>1, CloseTyped DEF Registers
      <4>3. RowsType /\ RowsType'
        BY TypedKept DEF Typed
      <4> QED BY <4>2, <4>3, ProfilesAssumption DEF RowsType
    <3>2. \A l \in S : k[l] = bought'[l] - left'[l] /\ c[l] = bought[l] - left[l]
      BY <1>0, <1>3 DEF ClosedOf
    <3> QED BY <1>3, <3>1, <3>2
  <2> HIDE DEF x
  <2>3. SumFunctionOnSet(k, S) = SumFunctionOnSet(c, S) + SumFunctionOnSet(x, S)
    BY <1>3, <1>4, <2>1, <2>2, SumPlus
  <2>4. /\ f[z] = 0 /\ g[z] = sale[z].fill /\ sale[z].fill \in Nat /\ z \in Numbers
        /\ \A s \in Numbers \ {z} : g[s] = f[s]
    <3>1. sale[z].fill \in Nat
      BY SaleTyped
    <3>2. /\ DOMAIN sale' = DOMAIN sale /\ \A s \in DOMAIN sale \ {z} : sale'[s] = sale[s]
          /\ sale'[z].ticker = sale[z].ticker /\ sale'[z].side = sale[z].side
          /\ sale'[z].row = "settled" /\ sale'[z].fill = sale[z].fill /\ sale[z].row = "pending"
      BY <1>7 DEF Registers, Moves
    <3>3. g[z] = sale[z].fill /\ f[z] = 0 /\ z \in Numbers
      BY <1>3, <1>5, <1>6, <1>7, <3>2 DEF On
    <3>4. \A s \in Numbers \ {z} : g[s] = f[s]
      BY <1>5, <1>6, <3>2 DEF On
    <3> QED BY <3>1, <3>3, <3>4
  <2>5. \A s \in Numbers : f[s] \in Int /\ g[s] \in Int
    BY <1>5, <2>4
  <2>6. SumFunctionOnSet(g, Numbers) = SumFunctionOnSet(f, Numbers) - f[z] + g[z]
    BY <1>3, <2>4, <2>5, SumOneChanged
  <2>7. /\ SumFunctionOnSet(f, Numbers) \in Int /\ SumFunctionOnSet(c, S) \in Int
        /\ SumFunctionOnSet(x, S) \in Int
    BY <1>3, <1>4, <2>1, <2>5, SumType
  <2> QED BY <1>2, <2>1, <2>3, <2>4, <2>6, <2>7
<1>8. ASSUME \A e \in Engines, z \in DOMAIN sale : Answer(e, z) /\ Registers(z) => ~On(z, t, d)
      PROVE  SumFunctionOnSet(g, Numbers) <= SumFunctionOnSet(k, S)
  <2>1. \A s \in Numbers : g[s] \in Int /\ g[s] <= f[s]
    <3> SUFFICES ASSUME NEW s \in Numbers, s \in DOMAIN sale', On(s, t, d)', sale'[s].row = "settled"
                 PROVE  g[s] = f[s]
      BY <1>5, <1>6
    <3>1. s \in DOMAIN sale
      <4> SUFFICES ASSUME s \notin DOMAIN sale PROVE FALSE
        OBVIOUS
      <4>1. PICK e \in Engines : SendSale(e)
        BY SalesFall
      <4>2. s = Len(sale) + 1 /\ sale'[s].row = "pending"
        <5>1. s = Len(sale) + 1
          BY <4>1, SendStep
        <5> QED BY <4>1, <5>1, SendStep
      <4> QED BY <4>2
    <3>2. Falls(s) /\ On(s, t, d)
      BY <3>1, SalesFall DEF Falls, On
    <3>3. CASE sale[s].row # "pending"
      BY <1>5, <1>6, <3>1, <3>2, <3>3 DEF Falls
    <3>4. CASE sale[s].row = "pending"
      <4>1. PICK e \in Engines : /\ ReconcileSale(e) \/ Answered(e)
                                 /\ Answer(e, s) /\ (Registers(s) \/ Loses(s))
        BY <3>1, <3>4, SettledBy
      <4>2. Answer(e, s) /\ Loses(s) /\ sale[s].ticker = t
        BY <1>8, <3>1, <3>2, <4>1 DEF On
      <4> QED BY <4>1, <4>2, LosesFreezes
    <3> QED BY <3>3, <3>4
  <2>2. SumFunctionOnSet(g, Numbers) <= SumFunctionOnSet(f, Numbers)
    BY <1>3, <1>5, <2>1, SumLeq
  <2>3. SumFunctionOnSet(c, S) <= SumFunctionOnSet(k, S)
    BY <1>3, <1>4, SumLeq
  <2>4. /\ SumFunctionOnSet(f, Numbers) \in Int /\ SumFunctionOnSet(g, Numbers) \in Int
        /\ SumFunctionOnSet(c, S) \in Int /\ SumFunctionOnSet(k, S) \in Int
    BY <1>3, <1>4, <1>5, <2>1, SumType
  <2> QED BY <1>2, <2>2, <2>3, <2>4
<1>9. SumFunctionOnSet(g, Numbers) <= SumFunctionOnSet(k, S)
  BY <1>7, <1>8
<1>10. SumFunctionOnSet(RegisteredOf(t, d), Numbers)' = SumFunctionOnSet(g, Numbers)
  BY <1>0 DEF Numbers
<1> QED BY <1>0, <1>9, <1>10 DEF S

-----------------------------------------------------------------------------
(* What the sales may take *)

\* A status once given is never taken back.
LEMMA MisreadStays ==
  ASSUME Typed, SentInv, [Next]_vars, NEW t, NEW d, Misread(t, d)
  PROVE  Misread(t, d)'
<1>1. PICK s \in DOMAIN sale : /\ sale[s].ticker = t /\ sale[s].side = d /\ sale[s].fill > 0
                               /\ sale[s].row # "settled" /\ sale[s].row # "pending"
  BY DEF Misread, Unregistered
<1>2. Falls(s)
  BY SalesFall
<1> QED BY <1>1, <1>2 DEF Misread, Unregistered, Falls

\* What is open and what was closed is what was bought.
LEMMA BoughtIs ==
  ASSUME TypeOK, NEW S \in SUBSET Lots
  PROVE  /\ SumFunctionOnSet(bought, S) = SumFunctionOnSet(ClosedOf, S) + Total(S)
         /\ SumFunctionOnSet(ClosedOf, S) \in Int
<1>1. \A l \in S : ClosedOf[l] \in Int /\ left[l] \in Int /\ bought[l] = ClosedOf[l] + left[l]
  <2>1. \A l \in Lots : left[l] \in Int /\ bought[l] \in Int
    BY ProfilesAssumption DEF TypeOK
  <2> QED BY <2>1 DEF ClosedOf
<1>2. IsFiniteSet(S)
  BY LotsAssumption, FS_Subset
<1> QED BY <1>1, <1>2, SumPlus, SumType DEF Total

\* With none misread and none claimed, what the sales took is what their rows say.
LEMMA TakenIsRegistered ==
  ASSUME Typed, NEW t, NEW d, ~Misread(t, d), \A s \in DOMAIN sale : Claim(s) => ~On(s, t, d)
  PROVE  SumFunctionOnSet(AmountOf(t, d), Numbers) = SumFunctionOnSet(RegisteredOf(t, d), Numbers)
<1> USE TypedMeans
<1>1. ASSUME NEW s \in Numbers
      PROVE  RegisteredOf(t, d)[s] \in Int /\ AmountOf(t, d)[s] = RegisteredOf(t, d)[s]
  <2>1. CASE s \in DOMAIN sale /\ On(s, t, d)
    <3>1. sale[s].fill \in Nat /\ Amount(s) \in Nat /\ Sound(sale[s])
      BY <2>1, SaleTyped DEF ShapeInv
    <3>2. CASE sale[s].row = "settled"
      BY <1>1, <2>1, <3>1, <3>2 DEF AmountOf, RegisteredOf, Amount, Sound
    <3>3. CASE sale[s].row # "settled"
      <4>1. Amount(s) = 0
        <5>1. CASE sale[s].row = "pending"
          BY <2>1, <3>1, <5>1 DEF Claim
        <5>2. CASE sale[s].row # "pending"
          <6>1. ~(sale[s].fill > 0)
            BY <2>1, <3>3, <5>2 DEF Misread, Unregistered, On
          <6> QED BY <3>1, <5>2, <6>1 DEF Sound, Amount
        <5> QED BY <5>1, <5>2
      <4> QED BY <1>1, <2>1, <3>3, <4>1 DEF AmountOf, RegisteredOf
    <3> QED BY <3>2, <3>3
  <2>2. CASE ~(s \in DOMAIN sale /\ On(s, t, d))
    BY <1>1, <2>2 DEF AmountOf, RegisteredOf
  <2> QED BY <2>1, <2>2
<1>2. IsFiniteSet(Numbers)
  BY NumbersOfSales
<1> QED BY <1>1, <1>2, SumEqual

\* A sale is sent only for what is open and not sold yet.
LEMMA PotentialKept ==
  ASSUME Typed, SentInv, BookInv, LedgerInv, PotentialInv, [Next]_vars
  PROVE  PotentialInv'
<1> USE TypedMeans
<1> SUFFICES ASSUME NEW t \in Tickers, NEW d \in Sides, ~Misread(t, d)'
             PROVE  SumFunctionOnSet(AmountOf(t, d), Numbers)'
                      <= SumFunctionOnSet(bought', Closable(t, d))
  <2>1. ASSUME NEW t \in Tickers, NEW d \in Sides
        PROVE  SumFunctionOnSet(bought, Closable(t, d))' = SumFunctionOnSet(bought', Closable(t, d))
    BY DEF Closable
  <2> QED BY <2>1 DEF PotentialInv
<1> DEFINE S == Closable(t, d)
<1>0. PICK f, g : f = AmountOf(t, d) /\ g = AmountOf(t, d)'
  OBVIOUS
<1>1. ~Misread(t, d)
  BY MisreadStays
<1>2. SumFunctionOnSet(f, Numbers) <= SumFunctionOnSet(bought, S)
  BY <1>0, <1>1 DEF PotentialInv
<1>3. IsFiniteSet(Numbers) /\ DOMAIN sale \subseteq Numbers /\ IsFiniteSet(S) /\ S \in SUBSET Lots
  <2>1. S \in SUBSET Lots
    BY DEF Closable
  <2>2. IsFiniteSet(S)
    BY <2>1, LotsAssumption, FS_Subset
  <2> QED BY <2>1, <2>2, NumbersOfSales
<1>4. \A l \in S : bought[l] \in Int /\ bought'[l] \in Int /\ bought[l] <= bought'[l]
  BY <1>3, ClosedGrows
<1>5. \A s \in Numbers : /\ f[s] = IF s \in DOMAIN sale /\ On(s, t, d) THEN Amount(s) ELSE 0
                         /\ f[s] \in Nat
  <2>1. \A s \in DOMAIN sale : Amount(s) \in Nat
    BY SaleTyped
  <2> QED BY <1>0, <2>1 DEF AmountOf
<1>6. \A s \in Numbers : g[s] = IF s \in DOMAIN sale' /\ On(s, t, d)' THEN Amount(s)' ELSE 0
  BY <1>0 DEF AmountOf
<1>7. \A s \in DOMAIN sale' : Amount(s)' \in Int
  <2> TAKE s \in DOMAIN sale'
  <2>1. sale' \in Seq(Sale)
    BY TypedKept DEF Typed, SalesType
  <2>2. sale'[s] \in Sale
    BY <2>1
  <2> QED BY <2>2 DEF Amount, Sale
<1>8. \A s \in Numbers : g[s] \in Int
  BY <1>6, <1>7
<1>9. \A s \in Numbers : s \in DOMAIN sale \/ s \notin DOMAIN sale' => g[s] <= f[s]
  <2> SUFFICES ASSUME NEW s \in Numbers, s \in DOMAIN sale, s \in DOMAIN sale', On(s, t, d)'
               PROVE  g[s] <= f[s]
    BY <1>5, <1>6
  <2>1. Falls(s) /\ On(s, t, d)
    BY SalesFall DEF Falls, On
  <2> QED BY <1>5, <1>6, <2>1 DEF Falls
<1>10. SumFunctionOnSet(bought, S) <= SumFunctionOnSet(bought', S)
  BY <1>3, <1>4, SumLeq
<1>11. /\ SumFunctionOnSet(f, Numbers) \in Int /\ SumFunctionOnSet(g, Numbers) \in Int
       /\ SumFunctionOnSet(bought, S) \in Int /\ SumFunctionOnSet(bought', S) \in Int
  BY <1>3, <1>4, <1>5, <1>8, SumType
<1>12. CASE \A s \in Numbers : g[s] <= f[s]
  <2>1. SumFunctionOnSet(g, Numbers) <= SumFunctionOnSet(f, Numbers)
    BY <1>3, <1>5, <1>8, <1>12, SumLeq
  <2> QED BY <1>0, <1>2, <1>10, <1>11, <2>1 DEF Numbers
<1>13. CASE \E s \in Numbers : ~(g[s] <= f[s])
  <2>1. PICK s \in Numbers : s \in DOMAIN sale' /\ s \notin DOMAIN sale /\ On(s, t, d)'
    BY <1>5, <1>6, <1>9, <1>13
  <2>2. PICK e \in Engines : SendSale(e)
    BY <2>1, SalesFall
  <2>0. PICK z : z = Len(sale) + 1
    OBVIOUS
  <2>3. /\ at[e].pc = "book" /\ at[e].now \in Want /\ at[e].now.ticker \notin resolved
        /\ UNCHANGED rows
        /\ DOMAIN sale' = DOMAIN sale \union {z}
        /\ \A y \in DOMAIN sale : sale'[y] = sale[y]
        /\ sale'[z].ticker = at[e].now.ticker /\ sale'[z].side = at[e].now.side
        /\ sale'[z].count = at[e].now.count /\ sale'[z].order = "flying"
    BY <2>0, <2>2, SendStep
  <2>4. /\ s = z /\ at[e].now.ticker = t /\ at[e].now.side = d
        /\ Amount(s)' = at[e].now.count /\ at[e].now.count \in Nat
    <3>1. s = z
      BY <2>1, <2>3
    <3> QED BY <2>1, <2>3, <3>1 DEF Want, On, Amount
  <2>5. /\ at[e].now.count <= OpenFor(e, t, d)
        /\ \A y \in DOMAIN sale : Claim(y) => ~On(y, t, d)
    BY <2>3, <2>4 DEF BookInv
  <2>6. SumFunctionOnSet(f, Numbers) = SumFunctionOnSet(RegisteredOf(t, d), Numbers)
    BY <1>0, <1>1, <2>5, TakenIsRegistered
  <2>7. SumFunctionOnSet(RegisteredOf(t, d), Numbers) <= SumFunctionOnSet(ClosedOf, S)
    <3>1. Locks(e, t)
      BY <2>3, <2>4 DEF Locks
    <3> QED BY <2>3, <2>4, <3>1 DEF LedgerInv
  <2>8. g[s] = at[e].now.count /\ f[s] = 0 /\ \A y \in Numbers \ {s} : g[y] = f[y]
    <3>1. g[s] = at[e].now.count /\ f[s] = 0
      BY <1>5, <1>6, <2>1, <2>4
    <3>2. \A y \in DOMAIN sale : Amount(y)' = Amount(y) /\ (On(y, t, d)' <=> On(y, t, d))
      BY <2>3 DEF Amount, On
    <3>3. \A y \in Numbers \ {s} : y \in DOMAIN sale' <=> y \in DOMAIN sale
      BY <2>3, <2>4
    <3> QED BY <1>5, <1>6, <3>1, <3>2, <3>3
  <2>9. SumFunctionOnSet(g, Numbers) = SumFunctionOnSet(f, Numbers) - f[s] + g[s]
    BY <1>3, <1>5, <1>8, <2>8, SumOneChanged
  <2>10. OpenFor(e, t, d) <= Total(S) /\ OpenFor(e, t, d) \in Nat /\ Total(S) \in Nat
    <3>1. Attributable(e, t, d) \subseteq S /\ \A l \in S : left[l] \in Nat
      BY <1>3, AttributableLots, TotalType
    <3>2. /\ SumFunctionOnSet(left, Attributable(e, t, d)) <= SumFunctionOnSet(left, S)
          /\ SumFunctionOnSet(left, S) \in Nat
      BY <1>3, <3>1, SumNat
    <3>3. Total(Attributable(e, t, d)) \in Nat
      BY AttributableLots, TotalType
    <3> QED BY <3>2, <3>3 DEF OpenFor, Total
  <2>11. /\ SumFunctionOnSet(bought, S) = SumFunctionOnSet(ClosedOf, S) + Total(S)
         /\ SumFunctionOnSet(ClosedOf, S) \in Int
    BY <1>3, BoughtIs
  <2>12. SumFunctionOnSet(g, Numbers) <= SumFunctionOnSet(bought, S)
    BY <1>11, <2>4, <2>5, <2>6, <2>7, <2>8, <2>9, <2>10, <2>11
  <2>13. SumFunctionOnSet(g, Numbers) <= SumFunctionOnSet(bought', S)
    BY <1>10, <1>11, <2>12
  <2> QED BY <1>0, <2>13 DEF Numbers
<1> QED BY <1>12, <1>13

-----------------------------------------------------------------------------
(* The invariant *)

\* The invariant holds at the start.
LEMMA SalesStart == Init => Typed /\ SalesInv
<1> SUFFICES ASSUME Init PROVE Typed /\ SalesInv
  OBVIOUS
<1>1. Typed
  BY StartTyped
<1>2. /\ sale = <<>> /\ DOMAIN sale = {} /\ brake = "off" /\ left = bought
      /\ at = [e \in Engines |-> Resting]
  BY DEF Init
<1>3. \A e \in Engines : at[e].pc = "idle"
  BY <1>2 DEF Resting
<1>4. ShapeInv /\ LotsInv /\ TypeOK
  BY <1>1, TypedMeans
<1>5. SentInv /\ LockInv /\ ClaimsInv /\ KilledInv /\ BackedInv /\ BookInv
  BY <1>2, <1>3 DEF SentInv, LockInv, ClaimsInv, KilledInv, BackedInv, BookInv, Locks
<1>6. ASSUME NEW t \in Tickers, NEW d \in Sides
      PROVE  /\ SumFunctionOnSet(RegisteredOf(t, d), Numbers) = 0
             /\ SumFunctionOnSet(AmountOf(t, d), Numbers) = 0
             /\ SumFunctionOnSet(ClosedOf, Closable(t, d)) \in Nat
             /\ SumFunctionOnSet(bought, Closable(t, d)) \in Nat
  <2>1. IsFiniteSet(Numbers)
    BY <1>1, NumbersOfSales
  <2>2. \A s \in Numbers : RegisteredOf(t, d)[s] = 0 /\ AmountOf(t, d)[s] = 0
    BY <1>2 DEF RegisteredOf, AmountOf
  <2>3. Closable(t, d) \in SUBSET Lots
    BY DEF Closable
  <2>4. IsFiniteSet(Closable(t, d))
    BY <2>3, LotsAssumption, FS_Subset
  <2>5. \A l \in Lots : bought[l] \in Nat /\ left[l] \in Nat /\ left[l] <= bought[l]
    BY <1>4, ProfilesAssumption DEF TypeOK
  <2>6. \A l \in Lots : ClosedOf[l] \in Nat
    BY <2>5 DEF ClosedOf
  <2>7. \A l \in Closable(t, d) : bought[l] \in Nat /\ ClosedOf[l] \in Nat
    BY <2>3, <2>5, <2>6
  <2> QED BY <2>1, <2>2, <2>4, <2>7, SumZero, SumNat
<1>7. LedgerInv /\ PotentialInv
  BY <1>6 DEF LedgerInv, PotentialInv
<1> QED BY <1>1, <1>4, <1>5, <1>7 DEF SalesInv

\* Every step keeps it, while no brake was lost.
LEMMA SalesKept ==
  ASSUME OneSeller, Typed, SalesInv, [Next]_vars, ~forgot'
  PROVE  SalesInv'
<1> USE DEF SalesInv
<1>1. Typed' /\ SentInv' /\ LockInv' /\ KilledInv'
  BY TypedKept, SentKept, LocksKept
<1>2. ShapeInv' /\ LotsInv'
  BY <1>1, TypedMeansThen
<1>3. ClaimsInv' /\ BackedInv' /\ BookInv'
  BY ClaimsKept, BackedKept, BookKept
<1>4. LedgerInv' /\ PotentialInv'
  BY LedgerKept, PotentialKept
<1> QED BY <1>1, <1>2, <1>3, <1>4

\* It bounds what the sales filled.
LEMMA SalesClose ==
  ASSUME Typed, forgot \/ PotentialInv
  PROVE  SellOnlyCloses
<1> USE TypedMeans
<1> SUFFICES ASSUME NEW t \in Tickers, NEW d \in Sides, ~Misread(t, d), ~forgot
             PROVE  Fills(t, d) <= SumFunctionOnSet(bought, Closable(t, d))
  BY DEF SellOnlyCloses
<1> DEFINE f == [s \in DOMAIN sale |-> sale[s].fill]
           S == {s \in DOMAIN sale : sale[s].ticker = t /\ sale[s].side = d}
           g == [s \in Numbers |-> IF s \in S THEN sale[s].fill ELSE 0]
<1>1. IsFiniteSet(Numbers) /\ S \subseteq Numbers /\ S \subseteq DOMAIN sale
  BY NumbersOfSales
<1>2. \A s \in DOMAIN sale : sale[s].fill \in Nat /\ Amount(s) \in Nat /\ sale[s].fill <= Amount(s)
  BY SaleTyped DEF Amount, ShapeInv, Sound
<1>3. \A s \in S : f[s] \in Int /\ g[s] = f[s]
  BY <1>1, <1>2
<1>4. \A s \in Numbers \ S : g[s] = 0
  OBVIOUS
<1>5. \A s \in Numbers : /\ g[s] \in Int /\ AmountOf(t, d)[s] \in Int /\ g[s] <= AmountOf(t, d)[s]
  BY <1>1, <1>2 DEF AmountOf, On
<1>6. Fills(t, d) = SumFunctionOnSet(f, S)
  BY DEF Fills
<1>7. Closable(t, d) \in SUBSET Lots /\ IsFiniteSet(Closable(t, d))
  <2>1. Closable(t, d) \in SUBSET Lots
    BY DEF Closable
  <2> QED BY <2>1, LotsAssumption, FS_Subset
<1>8. SumFunctionOnSet(bought, Closable(t, d)) \in Int
  <2>1. \A l \in Closable(t, d) : bought[l] \in Int
    BY <1>7, ProfilesAssumption DEF TypeOK
  <2> QED BY <1>7, <2>1, SumType
<1> HIDE DEF f, g, S
<1>9. SumFunctionOnSet(g, Numbers) = SumFunctionOnSet(f, S)
  BY <1>1, <1>3, <1>4, SumFilter
<1>10. SumFunctionOnSet(g, Numbers) <= SumFunctionOnSet(AmountOf(t, d), Numbers)
  BY <1>1, <1>5, SumLeq
<1>11. SumFunctionOnSet(AmountOf(t, d), Numbers) <= SumFunctionOnSet(bought, Closable(t, d))
  BY DEF PotentialInv
<1>12. SumFunctionOnSet(g, Numbers) \in Int /\ SumFunctionOnSet(AmountOf(t, d), Numbers) \in Int
  BY <1>1, <1>5, SumType
<1> QED BY <1>6, <1>8, <1>9, <1>10, <1>11, <1>12

\* Where one executor sells, or no answer is lost and no process dies, no more is sold of a
\* side of a market than the exits may close, unless the boot closed the intent of a sale
\* that filled (executor.py, exit_position and _reconcile_pending_sells), or the pause of a
\* sale that could not be written was not persisted and is lifted (executor.py:477-489).
THEOREM SalesAlwaysClose ==
  ASSUME OneSeller
  PROVE  Spec => []SellOnlyCloses
<1> DEFINE Inv == Typed /\ SentInv /\ (forgot \/ SalesInv)
<1>1. Init => Inv
  BY SalesStart DEF SalesInv
<1>2. Inv /\ [Next]_vars => Inv'
  <2> SUFFICES ASSUME Inv, [Next]_vars PROVE Inv'
    OBVIOUS
  <2>1. Typed' /\ SentInv'
    BY TypedKept, SentKept
  <2>2. ASSUME ~forgot' PROVE SalesInv'
    BY <2>2, SalesKept, ProfStays
  <2> QED BY <2>1, <2>2
<1>3. Inv => SellOnlyCloses
  BY SalesClose DEF SalesInv
<1> QED BY <1>1, <1>2, <1>3, PTL DEF Spec

\* The types of the exits, whatever runs and fails.
THEOREM ExitsTypeOK == Spec => []TypeOK
<1>1. Init => Typed /\ SentInv
  BY SalesStart DEF SalesInv
<1>2. Typed /\ SentInv /\ [Next]_vars => (Typed /\ SentInv)'
  BY TypedKept, SentKept
<1>3. Typed => TypeOK
  BY TypedMeans
<1> QED BY <1>1, <1>2, <1>3, PTL DEF Spec

-----------------------------------------------------------------------------
(* The balance of the rows and the account *)

HeldOf(t) == [l \in Lots |-> IF Ticker[l] = t /\ lot[l] = "filled"
                             THEN Signed(Side[l], left[l]) ELSE 0]
OwedOf(t) == [s \in Numbers |-> IF s \in DOMAIN sale /\ sale[s].ticker = t /\ sale[s].row # "settled"
                                THEN Signed(sale[s].side, sale[s].fill) ELSE 0]

\* What the account holds of a market is what its lots hold, less the sales not registered.
BalanceInv ==
  \A t \in Tickers :
    \/ t \in resolved \/ Braked
    \/ net[t] = SumFunctionOnSet(HeldOf(t), Lots) - SumFunctionOnSet(OwedOf(t), Numbers)

\* A count on the side yes is positive, on the side no negative.
LEMMA SignedIs ==
  /\ \A d : Signed(d, 0) = 0
  /\ \A d, n : n \in Int => Signed(d, n) \in Int
  /\ \A n : Signed("yes", n) = n
  /\ \A n : Signed("no", n) = 0 - n
BY DEF Signed

\* The terms of the balance are integers.
LEMMA BalanceTypes ==
  ASSUME Typed, NEW t
  PROVE  /\ IsFiniteSet(Lots) /\ IsFiniteSet(Numbers) /\ DOMAIN sale \subseteq Numbers
         /\ \A l \in Lots : HeldOf(t)[l] = (IF Ticker[l] = t /\ lot[l] = "filled"
                                            THEN Signed(Side[l], left[l]) ELSE 0)
                            /\ HeldOf(t)[l] \in Int
         /\ \A s \in Numbers : /\ OwedOf(t)[s] = IF s \in DOMAIN sale /\ sale[s].ticker = t /\ sale[s].row # "settled"
                                                 THEN Signed(sale[s].side, sale[s].fill) ELSE 0
                               /\ OwedOf(t)[s] \in Int
<1> USE TypedMeans
<1>1. \A l \in Lots : left[l] \in Int
  BY ProfilesAssumption DEF TypeOK
<1>2. \A s \in DOMAIN sale : sale[s].fill \in Int
  BY SaleTyped
<1>3. \A l \in Lots : Signed(Side[l], left[l]) \in Int
  BY <1>1, SignedIs
<1>4. \A s \in DOMAIN sale : Signed(sale[s].side, sale[s].fill) \in Int
  BY <1>2, SignedIs
<1>5. \A l \in Lots : HeldOf(t)[l] = (IF Ticker[l] = t /\ lot[l] = "filled"
                                      THEN Signed(Side[l], left[l]) ELSE 0)
  BY DEF HeldOf
<1>6. \A s \in Numbers : OwedOf(t)[s] = IF s \in DOMAIN sale /\ sale[s].ticker = t /\ sale[s].row # "settled"
                                        THEN Signed(sale[s].side, sale[s].fill) ELSE 0
  BY DEF OwedOf
<1> QED BY <1>3, <1>4, <1>5, <1>6, NumbersOfSales, LotsAssumption

\* The same after a step.
LEMMA BalanceTypesThen ==
  ASSUME Typed', NEW t
  PROVE  /\ \A l \in Lots : HeldOf(t)'[l] = (IF Ticker[l] = t /\ lot'[l] = "filled"
                                             THEN Signed(Side[l], left'[l]) ELSE 0)
                            /\ HeldOf(t)'[l] \in Int
         /\ \A s \in Numbers : /\ OwedOf(t)'[s] = IF s \in DOMAIN sale' /\ sale'[s].ticker = t /\ sale'[s].row # "settled"
                                                  THEN Signed(sale'[s].side, sale'[s].fill) ELSE 0
                               /\ OwedOf(t)'[s] \in Int
<1>1. RowsType' /\ SalesType'
  BY DEF Typed
<1>2. \A l \in Lots : left'[l] \in Int
  BY <1>1, ProfilesAssumption DEF RowsType
<1>3. \A s \in DOMAIN sale' : sale'[s].fill \in Int
  <2> TAKE s \in DOMAIN sale'
  <2>1. sale'[s] \in Sale
    BY <1>1 DEF SalesType
  <2> QED BY <2>1 DEF Sale
<1>4. \A l \in Lots : Signed(Side[l], left'[l]) \in Int
  BY <1>2, SignedIs
<1>5. \A s \in DOMAIN sale' : Signed(sale'[s].side, sale'[s].fill) \in Int
  BY <1>3, SignedIs
<1>6. \A l \in Lots : HeldOf(t)'[l] = (IF Ticker[l] = t /\ lot'[l] = "filled"
                                       THEN Signed(Side[l], left'[l]) ELSE 0)
  BY DEF HeldOf, Signed
<1>7. \A s \in Numbers : OwedOf(t)'[s] = IF s \in DOMAIN sale' /\ sale'[s].ticker = t /\ sale'[s].row # "settled"
                                         THEN Signed(sale'[s].side, sale'[s].fill) ELSE 0
  BY DEF OwedOf, Signed, Numbers
<1> QED BY <1>4, <1>5, <1>6, <1>7

\* The account starts with what the rows hold.
LEMMA BalanceStart == Init => BalanceInv
<1> SUFFICES ASSUME Init, NEW t \in Tickers
             PROVE  net[t] = SumFunctionOnSet(HeldOf(t), Lots) - SumFunctionOnSet(OwedOf(t), Numbers)
  BY DEF BalanceInv
<1>1. Typed
  BY StartTyped
<1> DEFINE S == {k \in Lots : Ticker[k] = t}
           f == [l \in S |-> Signed(Side[l], prof.held[l])]
<1>2. /\ net[t] = SideNet(prof.held, t) /\ sale = <<>> /\ DOMAIN sale = {} /\ left = prof.held
      /\ \A l \in Lots : lot[l] = IF prof.held[l] > 0 THEN "filled" ELSE "none"
  BY DEF Init
<1>3. SideNet(prof.held, t) = SumFunctionOnSet(f, S)
  BY DEF SideNet, SumFunction
<1>4. SumFunctionOnSet(OwedOf(t), Numbers) = 0
  BY <1>1, <1>2, BalanceTypes, SumZero
<1>5. \A l \in Lots : HeldOf(t)[l] = IF Ticker[l] = t THEN Signed(Side[l], prof.held[l]) ELSE 0
  <2> TAKE l \in Lots
  <2>1. left[l] \in Nat
    BY <1>1, TypedMeans, ProfilesAssumption DEF TypeOK
  <2>2. CASE prof.held[l] > 0
    BY <1>1, <1>2, <2>2, BalanceTypes
  <2>3. CASE prof.held[l] = 0
    BY <1>1, <1>2, <2>3, BalanceTypes, SignedIs
  <2> QED BY <1>2, <2>1, <2>2, <2>3
<1>6. \A l \in S : f[l] \in Int /\ HeldOf(t)[l] = f[l]
  BY <1>1, <1>5, BalanceTypes
<1>7. \A l \in Lots \ S : HeldOf(t)[l] = 0
  BY <1>5
<1>8. S \subseteq Lots /\ IsFiniteSet(Lots)
  BY LotsAssumption
<1> HIDE DEF S, f
<1>9. SumFunctionOnSet(HeldOf(t), Lots) = SumFunctionOnSet(f, S)
  BY <1>6, <1>7, <1>8, SumFilter
<1>10. SumFunctionOnSet(f, S) \in Int
  <2>1. IsFiniteSet(S)
    BY <1>8, FS_Subset
  <2> QED BY <1>6, <2>1, SumType
<1> QED BY <1>2, <1>3, <1>4, <1>9, <1>10

\* A sale that registers leaves the lots with what the account still holds.
LEMMA BalanceRegisters ==
  ASSUME Typed, Typed', BackedInv, NEW e \in Engines, NEW z \in DOMAIN sale, Answer(e, z), Registers(z),
         NEW t \in Tickers, t \notin resolved
  PROVE  SumFunctionOnSet(HeldOf(t)', Lots) - SumFunctionOnSet(OwedOf(t)', Numbers)
           = SumFunctionOnSet(HeldOf(t), Lots) - SumFunctionOnSet(OwedOf(t), Numbers)
<1> USE TypedMeans
<1>0. PICK h, k, f, g, d : /\ h = HeldOf(t) /\ k = HeldOf(t)' /\ f = OwedOf(t) /\ g = OwedOf(t)'
                           /\ d = sale[z].side
  OBVIOUS
<1> DEFINE A == Attributable(sale[z].by, sale[z].ticker, sale[z].side)
           n == sale[z].fill
           x == [l \in Lots |-> left[l] - left'[l]]
<1>1. /\ IsFiniteSet(Lots) /\ IsFiniteSet(Numbers) /\ DOMAIN sale \subseteq Numbers
      /\ \A l \in Lots : h[l] \in Int /\ k[l] \in Int
      /\ \A s \in Numbers : f[s] \in Int /\ g[s] \in Int
  BY <1>0, BalanceTypes, BalanceTypesThen
<1>h. \A l \in Lots : /\ h[l] = IF Ticker[l] = t /\ lot[l] = "filled" THEN Signed(Side[l], left[l]) ELSE 0
                      /\ k[l] = IF Ticker[l] = t /\ lot'[l] = "filled" THEN Signed(Side[l], left'[l]) ELSE 0
  BY <1>0, BalanceTypes, BalanceTypesThen
<1>f. \A s \in Numbers :
        /\ f[s] = IF s \in DOMAIN sale /\ sale[s].ticker = t /\ sale[s].row # "settled"
                  THEN Signed(sale[s].side, sale[s].fill) ELSE 0
        /\ g[s] = IF s \in DOMAIN sale' /\ sale'[s].ticker = t /\ sale'[s].row # "settled"
                  THEN Signed(sale'[s].side, sale'[s].fill) ELSE 0
  BY <1>0, BalanceTypes, BalanceTypesThen
<1>2. n \in Nat /\ d \in Sides /\ sale[z].by = e
  BY <1>0, SaleTyped DEF Answer
<1>3. /\ \A l \in Lots \ A : lot'[l] = lot[l] /\ left'[l] = left[l]
      /\ \A l \in A : lot'[l] = "filled" <=> left'[l] > 0
  BY <1>2, CloseTyped DEF Registers
<1>4. \A l \in A : l \in Lots /\ lot[l] = "filled" /\ Ticker[l] = sale[z].ticker /\ Side[l] = d
  BY <1>0 DEF Attributable, OpenLots
<1>5. /\ DOMAIN sale' = DOMAIN sale /\ \A s \in DOMAIN sale \ {z} : sale'[s] = sale[s]
      /\ sale'[z].row = "settled" /\ sale[z].row = "pending"
  BY DEF Registers, Moves
<1>6. \A l \in Lots : left[l] \in Nat /\ left'[l] \in Nat
  <2>1. RowsType /\ RowsType'
    BY DEF Typed
  <2> QED BY <2>1, ProfilesAssumption DEF RowsType
<1>s. /\ SumFunctionOnSet(h, Lots) \in Int /\ SumFunctionOnSet(k, Lots) \in Int
      /\ SumFunctionOnSet(f, Numbers) \in Int /\ SumFunctionOnSet(g, Numbers) \in Int
  BY <1>1, SumType
<1>7. CASE sale[z].ticker # t
  <2>1. \A l \in Lots : k[l] = h[l]
    <3> HIDE DEF A
    <3> QED BY <1>h, <1>3, <1>4, <1>7
  <2>2. \A s \in Numbers : g[s] = f[s]
    <3>1. sale'[z].ticker = sale[z].ticker
      BY DEF Registers, Moves
    <3> QED BY <1>f, <1>5, <1>7, <3>1
  <2>3. SumFunctionOnSet(k, Lots) = SumFunctionOnSet(h, Lots) /\ SumFunctionOnSet(g, Numbers) = SumFunctionOnSet(f, Numbers)
    BY <1>1, <2>1, <2>2, SumEqual
  <2> QED BY <1>0, <2>3
<1>8. CASE sale[z].ticker = t
  <2>1. (\A l \in Lots : x[l] \in Int) /\ SumFunctionOnSet(x, Lots) = n
    <3>1. On(z, t, d) /\ Attributable(e, t, d) \subseteq Lots /\ d \in Sides
      BY <1>0, <1>2, <1>8, AttributableLots DEF On
    <3>2. \A l \in Lots : x[l] = left[l] - left'[l]
      OBVIOUS
    <3>3. PICK S : S = Lots
      OBVIOUS
    <3>4. S \in SUBSET Lots /\ Attributable(e, t, d) \subseteq S /\ \A l \in S : x[l] = left[l] - left'[l]
      BY <3>1, <3>3
    <3> HIDE DEF x
    <3>5. (\A l \in S : x[l] \in Int) /\ SumFunctionOnSet(x, S) = sale[z].fill
      BY <3>1, <3>4, SoldIsTaken
    <3> QED BY <3>3, <3>5
  <2>2. \A l \in Lots : x[l] = left[l] - left'[l]
    OBVIOUS
  <2> HIDE DEF x, A
  <2>3. \A l \in Lots : IF d = "yes" THEN h[l] = k[l] + x[l] ELSE k[l] = h[l] + x[l]
    <3> TAKE l \in Lots
    <3>1. CASE l \notin A
      BY <1>1, <1>h, <1>3, <1>6, <2>2, <3>1
    <3>2. CASE l \in A
      <4>1. h[l] = Signed(d, left[l])
        BY <1>h, <1>4, <1>8, <3>2
      <4>2. k[l] = Signed(d, left'[l])
        <5>1. CASE left'[l] > 0
          BY <1>h, <1>3, <1>4, <1>8, <3>2, <5>1
        <5>2. CASE left'[l] = 0
          BY <1>h, <1>3, <1>4, <1>8, <3>2, <5>2, SignedIs
        <5> QED BY <1>6, <5>1, <5>2
      <4> QED BY <1>6, <2>2, <4>1, <4>2 DEF Signed
    <3> QED BY <3>1, <3>2
  <2>4. IF d = "yes" THEN SumFunctionOnSet(h, Lots) = SumFunctionOnSet(k, Lots) + n
                     ELSE SumFunctionOnSet(k, Lots) = SumFunctionOnSet(h, Lots) + n
    BY <1>1, <2>1, <2>3, SumPlus
  <2>5. g[z] = 0 /\ f[z] = Signed(d, n) /\ z \in Numbers /\ \A s \in Numbers \ {z} : g[s] = f[s]
    BY <1>0, <1>1, <1>f, <1>5, <1>8
  <2>6. SumFunctionOnSet(g, Numbers) = SumFunctionOnSet(f, Numbers) - f[z] + g[z]
    BY <1>1, <2>5, SumOneChanged
  <2> HIDE DEF n
  <2>7. SumFunctionOnSet(k, Lots) - SumFunctionOnSet(g, Numbers) = SumFunctionOnSet(h, Lots) - SumFunctionOnSet(f, Numbers)
    BY <1>s, <1>2, <2>4, <2>5, <2>6 DEF Signed
  <2> QED BY <1>0, <2>7
<1> QED BY <1>7, <1>8

\* What leaves the lots and what is owed of a market as they were leaves the balance.
LEMMA BalanceSame ==
  ASSUME Typed, Typed', NEW t \in Tickers,
         \A l \in Lots : Ticker[l] = t => lot'[l] = lot[l] /\ left'[l] = left[l],
         \A s \in Numbers : OwedOf(t)'[s] = OwedOf(t)[s]
  PROVE  SumFunctionOnSet(HeldOf(t)', Lots) - SumFunctionOnSet(OwedOf(t)', Numbers)
           = SumFunctionOnSet(HeldOf(t), Lots) - SumFunctionOnSet(OwedOf(t), Numbers)
<1>0. PICK h, k, f, g : h = HeldOf(t) /\ k = HeldOf(t)' /\ f = OwedOf(t) /\ g = OwedOf(t)'
  OBVIOUS
<1>1. /\ IsFiniteSet(Lots) /\ IsFiniteSet(Numbers)
      /\ \A l \in Lots : h[l] \in Int /\ k[l] = h[l]
      /\ \A s \in Numbers : f[s] \in Int /\ g[s] = f[s]
  BY <1>0, BalanceTypes, BalanceTypesThen
<1>2. SumFunctionOnSet(k, Lots) = SumFunctionOnSet(h, Lots) /\ SumFunctionOnSet(g, Numbers) = SumFunctionOnSet(f, Numbers)
  BY <1>1, SumEqual
<1> QED BY <1>0, <1>2

\* A sale that fills nothing owes nothing.
LEMMA OwedSame ==
  ASSUME Typed, Typed', NEW t \in Tickers,
         \A s \in DOMAIN sale : /\ s \in DOMAIN sale'
                                /\ sale'[s].ticker = sale[s].ticker /\ sale'[s].side = sale[s].side
                                /\ sale'[s].fill = sale[s].fill
                                /\ sale[s].fill = 0 \/ (sale'[s].row = "settled" <=> sale[s].row = "settled"),
         \A s \in DOMAIN sale' \ DOMAIN sale : sale'[s].fill = 0
  PROVE  \A s \in Numbers : OwedOf(t)'[s] = OwedOf(t)[s]
<1> SUFFICES ASSUME NEW s \in Numbers PROVE OwedOf(t)'[s] = OwedOf(t)[s]
  OBVIOUS
<1>1. /\ OwedOf(t)'[s] = IF s \in DOMAIN sale' /\ sale'[s].ticker = t /\ sale'[s].row # "settled"
                         THEN Signed(sale'[s].side, sale'[s].fill) ELSE 0
      /\ OwedOf(t)[s] = IF s \in DOMAIN sale /\ sale[s].ticker = t /\ sale[s].row # "settled"
                        THEN Signed(sale[s].side, sale[s].fill) ELSE 0
  BY BalanceTypes, BalanceTypesThen
<1> QED BY <1>1, SignedIs

\* A change of a sale that fills nothing.
LEMMA MovesOwe ==
  ASSUME Typed, Typed', NEW t \in Tickers, NEW s \in DOMAIN sale, sale[s].fill = 0,
         NEW r, NEW o, NEW c, Moves(s, r, o, c, 0)
  PROVE  \A z \in Numbers : OwedOf(t)'[z] = OwedOf(t)[z]
BY OwedSame DEF Moves

\* Every step keeps the balance.
LEMMA BalanceKept ==
  ASSUME Typed, Typed', SentInv, BackedInv, BalanceInv, [Next]_vars, ~forgot'
  PROVE  BalanceInv'
<1> USE TypedMeans
<1> SUFFICES ASSUME NEW t \in Tickers, t \notin resolved', ~Braked'
             PROVE  net'[t] = SumFunctionOnSet(HeldOf(t)', Lots) - SumFunctionOnSet(OwedOf(t)', Numbers)
  <2>1. ASSUME NEW t \in Tickers
        PROVE  (net[t] = SumFunctionOnSet(HeldOf(t), Lots) - SumFunctionOnSet(OwedOf(t), Numbers))'
                 <=> net'[t] = SumFunctionOnSet(HeldOf(t)', Lots) - SumFunctionOnSet(OwedOf(t)', Numbers)
    BY DEF Numbers
  <2> QED BY <2>1 DEF BalanceInv
<1>1. t \notin resolved
  BY ProfStays
<1>2. ~Braked
  BY EngineLocks, OtherLocks
<1>3. net[t] = SumFunctionOnSet(HeldOf(t), Lots) - SumFunctionOnSet(OwedOf(t), Numbers)
  BY <1>1, <1>2 DEF BalanceInv
<1>4. ASSUME net'[t] = net[t],
             \A l \in Lots : Ticker[l] = t => lot'[l] = lot[l] /\ left'[l] = left[l],
             \A s \in Numbers : OwedOf(t)'[s] = OwedOf(t)[s]
      PROVE  net'[t] = SumFunctionOnSet(HeldOf(t)', Lots) - SumFunctionOnSet(OwedOf(t)', Numbers)
  BY <1>3, <1>4, BalanceSame
<1>5. UNCHANGED sale => \A s \in Numbers : OwedOf(t)'[s] = OwedOf(t)[s]
  BY OwedSame
<1>6. ASSUME NEW e \in Engines, Engine(e)
      PROVE  net'[t] = SumFunctionOnSet(HeldOf(t)', Lots) - SumFunctionOnSet(OwedOf(t)', Numbers)
  <2>1. CASE ReconcileSale(e) \/ Answered(e)
    <3>1. PICK s : Answer(e, s) /\ net' = net
      BY <2>1, ReconcileStep, AnsweredStep
    <3>2. CASE Registers(s)
      BY <1>1, <1>3, <3>1, <3>2, BalanceRegisters DEF Answer
    <3>3. CASE Frees(s)
      <4>1. \A z \in Numbers : OwedOf(t)'[z] = OwedOf(t)[z]
        BY <3>1, <3>3, MovesOwe DEF Frees, Answer
      <4>2. UNCHANGED rows
        BY <3>3 DEF Frees
      <4> QED BY <1>4, <3>1, <4>1, <4>2 DEF rows
    <3> QED BY <3>1, <3>2, <3>3 DEF Answer, Loses
  <2>2. CASE SendSale(e)
    <3>0. PICK z : z = Len(sale) + 1
      OBVIOUS
    <3>1. /\ UNCHANGED <<rows, net>> /\ DOMAIN sale' = DOMAIN sale \union {z}
          /\ \A s \in DOMAIN sale : sale'[s] = sale[s]
          /\ sale'[z].fill = 0
      BY <2>2, <3>0, SendStep
    <3>2. \A s \in Numbers : OwedOf(t)'[s] = OwedOf(t)[s]
      BY <3>1, OwedSame
    <3> QED BY <1>4, <3>1, <3>2 DEF rows
  <2>3. CASE Refused(e)
    <3>1. PICK s \in DOMAIN sale : /\ sale[s].order = "flying"
                                   /\ Moves(s, "cancelled", "dead", sale[s].count, sale[s].fill)
      BY <2>3, RefusedStep
    <3>2. sale[s].fill = 0 /\ UNCHANGED <<rows, net>>
      BY <2>3, <3>1, RefusedStep DEF ShapeInv, Sound
    <3>3. \A z \in Numbers : OwedOf(t)'[z] = OwedOf(t)[z]
      BY <3>1, <3>2, MovesOwe
    <3> QED BY <1>4, <3>2, <3>3 DEF rows
  <2>4. CASE \/ Load(e) \/ TickEnds(e) \/ ReconcileFails(e) \/ NoSale(e) \/ LoseAnswer(e)
             \/ \E w \in at[e].wants : Discard(e, w) \/ BeginExit(e, w)
    <3>1. UNCHANGED <<rows, net, sale>>
      BY <2>4 DEF Load, TickEnds, ReconcileFails, NoSale, LoseAnswer, Discard, BeginExit
    <3> QED BY <1>4, <1>5, <3>1 DEF rows
  <2> QED BY <1>6, <2>1, <2>2, <2>3, <2>4 DEF Engine
<1>7. ASSUME NEW l \in Lots, NEW n \in 1..MaxSize, Bet(l, n)
      PROVE  net'[t] = SumFunctionOnSet(HeldOf(t)', Lots) - SumFunctionOnSet(OwedOf(t)', Numbers)
  <2>1. /\ lot[l] = "none" /\ n \in Nat
        /\ \A k \in Lots : /\ lot'[k] = IF k = l THEN "filled" ELSE lot[k]
                           /\ left'[k] = IF k = l THEN n ELSE left[k]
        /\ net' = [net EXCEPT ![Ticker[l]] = @ + Signed(Side[l], n)] /\ sale' = sale
    BY <1>7, BetStep
  <2>2. net \in [Tickers -> Int] /\ Signed(Side[l], n) \in Int
    BY <2>1, SignedIs DEF TypeOK
  <2>3. CASE Ticker[l] # t
    <3>1. net'[t] = net[t] /\ \A k \in Lots : Ticker[k] = t => lot'[k] = lot[k] /\ left'[k] = left[k]
      BY <2>1, <2>2, <2>3
    <3> QED BY <1>4, <1>5, <2>1, <3>1
  <2>4. CASE Ticker[l] = t
    <3>0. PICK h, k, f, g : h = HeldOf(t) /\ k = HeldOf(t)' /\ f = OwedOf(t) /\ g = OwedOf(t)'
      OBVIOUS
    <3>1. /\ IsFiniteSet(Lots) /\ IsFiniteSet(Numbers)
          /\ \A x \in Lots : h[x] \in Int /\ k[x] \in Int
          /\ \A x \in Lots \ {l} : k[x] = h[x]
          /\ h[l] = 0 /\ k[l] = Signed(Side[l], n)
          /\ \A s \in Numbers : f[s] \in Int /\ g[s] = f[s]
      BY <1>5, <2>1, <2>4, <3>0, BalanceTypes, BalanceTypesThen
    <3>2. SumFunctionOnSet(k, Lots) = SumFunctionOnSet(h, Lots) - h[l] + k[l]
      BY <3>1, SumOneChanged
    <3>3. SumFunctionOnSet(g, Numbers) = SumFunctionOnSet(f, Numbers)
      BY <3>1, SumEqual
    <3>4. SumFunctionOnSet(h, Lots) \in Int /\ SumFunctionOnSet(f, Numbers) \in Int
      BY <3>1, SumType
    <3>5. net'[t] = net[t] + Signed(Side[l], n)
      BY <2>1, <2>2, <2>4
    <3>6. net'[t] = SumFunctionOnSet(k, Lots) - SumFunctionOnSet(g, Numbers)
      BY <1>3, <2>2, <3>0, <3>1, <3>2, <3>3, <3>4, <3>5
    <3> QED BY <3>0, <3>6
  <2> QED BY <2>3, <2>4
<1>8. ASSUME NEW s \in DOMAIN sale, Vanish(s)
      PROVE  net'[t] = SumFunctionOnSet(HeldOf(t)', Lots) - SumFunctionOnSet(OwedOf(t)', Numbers)
  <2>1. /\ sale[s].fill = 0 /\ Moves(s, "pending", "dead", sale[s].count, 0) /\ UNCHANGED <<rows, net>>
    BY <1>8, VanishStep
  <2>2. \A z \in Numbers : OwedOf(t)'[z] = OwedOf(t)[z]
    BY <2>1, MovesOwe
  <2> QED BY <1>4, <2>1, <2>2 DEF rows
<1>9. ASSUME NEW s \in DOMAIN sale, NEW n \in 0..sale[s].count, Match(s, n)
      PROVE  net'[t] = SumFunctionOnSet(HeldOf(t)', Lots) - SumFunctionOnSet(OwedOf(t)', Numbers)
  <2>1. /\ n \in Nat /\ sale[s].fill = 0 /\ sale[s].row = "pending"
        /\ Moves(s, "pending", "done", sale[s].count, n)
        /\ net' = [net EXCEPT ![sale[s].ticker] = @ - Signed(sale[s].side, n)]
        /\ UNCHANGED rows
    BY <1>9, MatchStep DEF ShapeInv, Sound
  <2>2. net \in [Tickers -> Int] /\ Signed(sale[s].side, n) \in Int
    BY <2>1, SignedIs DEF TypeOK
  <2>3. CASE sale[s].ticker # t
    <3>1. \A z \in Numbers : OwedOf(t)'[z] = OwedOf(t)[z]
      <4>1. /\ DOMAIN sale' = DOMAIN sale
            /\ \A z \in DOMAIN sale : sale[z].ticker = t => sale'[z] = sale[z]
            /\ \A z \in DOMAIN sale : sale'[z].ticker = t <=> sale[z].ticker = t
        BY <2>1, <2>3 DEF Moves
      <4> QED BY <4>1, BalanceTypes, BalanceTypesThen
    <3>2. net'[t] = net[t]
      BY <2>1, <2>2, <2>3
    <3> QED BY <1>4, <2>1, <3>1, <3>2 DEF rows
  <2>4. CASE sale[s].ticker = t
    <3>0. PICK h, k, f, g : h = HeldOf(t) /\ k = HeldOf(t)' /\ f = OwedOf(t) /\ g = OwedOf(t)'
      OBVIOUS
    <3>1. /\ IsFiniteSet(Lots) /\ IsFiniteSet(Numbers) /\ s \in Numbers
          /\ \A x \in Lots : h[x] \in Int /\ k[x] = h[x]
      BY <2>1, <3>0, BalanceTypes, BalanceTypesThen DEF rows
    <3>2. /\ \A z \in Numbers : f[z] \in Int /\ g[z] \in Int
          /\ \A z \in Numbers \ {s} : g[z] = f[z]
          /\ f[s] = Signed(sale[s].side, 0) /\ g[s] = Signed(sale[s].side, n)
      <4>1. /\ DOMAIN sale' = DOMAIN sale /\ \A z \in DOMAIN sale \ {s} : sale'[z] = sale[z]
            /\ sale'[s].ticker = t /\ sale'[s].side = sale[s].side
            /\ sale'[s].row = "pending" /\ sale'[s].fill = n
        BY <2>1, <2>4 DEF Moves
      <4>2. \A z \in Numbers : f[z] \in Int /\ g[z] \in Int
        BY <3>0, BalanceTypes, BalanceTypesThen
      <4>3. \A z \in Numbers \ {s} : g[z] = f[z]
        BY <3>0, <4>1, BalanceTypes, BalanceTypesThen
      <4>4. f[s] = Signed(sale[s].side, 0) /\ g[s] = Signed(sale[s].side, n)
        BY <2>1, <2>4, <3>0, <3>1, <4>1, BalanceTypes, BalanceTypesThen
      <4> QED BY <4>2, <4>3, <4>4
    <3>3. SumFunctionOnSet(k, Lots) = SumFunctionOnSet(h, Lots)
      BY <3>1, SumEqual
    <3>4. SumFunctionOnSet(g, Numbers) = SumFunctionOnSet(f, Numbers) - f[s] + g[s]
      BY <3>1, <3>2, SumOneChanged
    <3>5. SumFunctionOnSet(h, Lots) \in Int /\ SumFunctionOnSet(f, Numbers) \in Int /\ f[s] = 0
      BY <3>1, <3>2, SumType, SignedIs
    <3>6. net'[t] = net[t] - Signed(sale[s].side, n)
      BY <2>1, <2>2, <2>4
    <3>7. net'[t] = SumFunctionOnSet(k, Lots) - SumFunctionOnSet(g, Numbers)
      BY <1>3, <2>2, <3>0, <3>2, <3>3, <3>4, <3>5, <3>6
    <3> QED BY <3>0, <3>7
  <2> QED BY <2>3, <2>4
<1>10. CASE Boot
  <2>1. Rebooted /\ UNCHANGED <<rows, net>>
    BY <1>10, BootStep
  <2>2. \A s \in Numbers : OwedOf(t)'[s] = OwedOf(t)[s]
    BY <2>1, OwedSame DEF Rebooted
  <2> QED BY <1>4, <2>1, <2>2 DEF rows
<1>11. CASE (\E u \in Tickers : Resolve(u)) \/ Crash \/ Calm
  <2>1. UNCHANGED <<rows, net, sale>>
    BY <1>11 DEF Resolve, Crash, Calm
  <2> QED BY <1>4, <1>5, <2>1 DEF rows
<1>12. CASE Settles
  <2>1. UNCHANGED <<left, net, sale>> /\ \A l \in Lots : Ticker[l] = t => lot'[l] = lot[l]
    BY <1>1, <1>12 DEF Settles
  <2> QED BY <1>4, <1>5, <2>1
<1> QED BY <1>6, <1>7, <1>8, <1>9, <1>10, <1>11, <1>12, Steps

\* The balance over all lots and sales is the one over the open and unregistered.
LEMMA BalanceMeans ==
  ASSUME Typed, forgot \/ BalanceInv
  PROVE  RowsMatchAccount
<1> USE TypedMeans
<1> SUFFICES ASSUME NEW t \in Tickers, t \notin resolved, ~Braked, ~forgot
             PROVE  net[t] = SumFunctionOnSet([l \in Lots |-> Signed(Side[l], left[l])],
                                              {l \in OpenLots : Ticker[l] = t})
                           - SumFunctionOnSet([s \in DOMAIN sale |-> Signed(sale[s].side, sale[s].fill)],
                                              Unregistered(t, "yes") \union Unregistered(t, "no"))
  BY DEF RowsMatchAccount
<1> DEFINE f == [l \in Lots |-> Signed(Side[l], left[l])]
           S == {l \in OpenLots : Ticker[l] = t}
           g == [s \in DOMAIN sale |-> Signed(sale[s].side, sale[s].fill)]
           U == Unregistered(t, "yes") \union Unregistered(t, "no")
<1>1. SumFunctionOnSet(HeldOf(t), Lots) = SumFunctionOnSet(f, S)
  <2>1. \A l \in Lots : left[l] \in Nat
    BY ProfilesAssumption DEF TypeOK
  <2>2. S \subseteq Lots /\ \A l \in S : f[l] \in Int /\ HeldOf(t)[l] = f[l]
    BY BalanceTypes DEF OpenLots
  <2>3. \A l \in Lots \ S : HeldOf(t)[l] = 0
    <3> TAKE l \in Lots \ S
    <3>1. CASE lot[l] = "filled" /\ Ticker[l] = t
      <4>1. left[l] = 0
        BY <2>1, <3>1 DEF OpenLots
      <4> QED BY <4>1, BalanceTypes, SignedIs
    <3> QED BY <3>1, BalanceTypes
  <2>4. IsFiniteSet(Lots)
    BY LotsAssumption
  <2> HIDE DEF f, S
  <2> QED BY <2>2, <2>3, <2>4, SumFilter
<1>2. SumFunctionOnSet(OwedOf(t), Numbers) = SumFunctionOnSet(g, U)
  <2>1. \A s \in DOMAIN sale : sale[s].fill \in Nat /\ sale[s].side \in {"yes", "no"}
    BY SaleTyped DEF Sides
  <2>2. U = {s \in DOMAIN sale : sale[s].ticker = t /\ sale[s].fill > 0 /\ sale[s].row # "settled"}
    BY <2>1 DEF Unregistered
  <2>3. U \subseteq Numbers /\ IsFiniteSet(Numbers) /\ DOMAIN sale \subseteq Numbers
    BY <2>2, NumbersOfSales
  <2>4. \A s \in U : g[s] \in Int /\ OwedOf(t)[s] = g[s]
    BY <2>2, <2>3, BalanceTypes
  <2>5. \A s \in Numbers \ U : OwedOf(t)[s] = 0
    <3> TAKE s \in Numbers \ U
    <3>1. CASE s \in DOMAIN sale /\ sale[s].ticker = t /\ sale[s].row # "settled"
      <4>1. sale[s].fill = 0
        BY <2>1, <2>2, <3>1
      <4> QED BY <4>1, BalanceTypes, SignedIs
    <3> QED BY <3>1, BalanceTypes
  <2> HIDE DEF g, U
  <2> QED BY <2>3, <2>4, <2>5, SumFilter
<1> QED BY <1>1, <1>2 DEF BalanceInv

\* Under the same condition the ledger and the account agree on every market without a
\* result, until a sale cannot be written: the exits then stop, and stay so unless that
\* pause was not persisted and is lifted (executor.py, _finalize_fill, _settle_originals
\* and _engage_preventive_pause).
THEOREM AccountAlwaysMatches ==
  ASSUME OneSeller
  PROVE  Spec => []RowsMatchAccount
<1> DEFINE Inv == Typed /\ SentInv /\ (forgot \/ (SalesInv /\ BalanceInv))
<1>1. Init => Inv
  BY SalesStart, BalanceStart DEF SalesInv
<1>2. Inv /\ [Next]_vars => Inv'
  <2> SUFFICES ASSUME Inv, [Next]_vars PROVE Inv'
    OBVIOUS
  <2>1. Typed' /\ SentInv'
    BY TypedKept, SentKept
  <2>2. ASSUME ~forgot' PROVE SalesInv' /\ BalanceInv'
    <3>1. SalesInv /\ BalanceInv
      BY <2>2, ProfStays
    <3>2. SalesInv'
      BY <2>2, <3>1, SalesKept
    <3>3. SentInv /\ BackedInv
      BY <3>1 DEF SalesInv
    <3> QED BY <2>1, <2>2, <3>1, <3>2, <3>3, BalanceKept
  <2> QED BY <2>1, <2>2
<1>3. Inv => RowsMatchAccount
  BY BalanceMeans
<1> QED BY <1>1, <1>2, <1>3, PTL DEF Spec

=============================================================================
