-------------------------- MODULE MarketMakerProofs --------------------------
(***************************************************************************)
(* Proofs about MarketMaker, for every set of markets, every size and cap, *)
(* and every number of orders, crashes and kills.                          *)
(***************************************************************************)
EXTENDS MarketMaker, Sums

-----------------------------------------------------------------------------
(* The inductive invariants *)

\* What has filled of an order fits its status, and an order has a row.
OrderFacts ==
  \A o \in Orders :
    /\ ord[o] \in {"none", "flying", "lost"} => fill[o] = 0
    /\ ord[o] = "resting" => fill[o] < Size
    /\ ord[o] = "executed" => fill[o] = Size
    /\ ord[o] # "none" => row[o] # "none"

\* A managed order is known to the exchange, and pending while it rests; a side
\* of a market has one; an order on its way is pending.
ManagedFacts ==
  /\ \A o \in live :
       /\ ord[o] \in {"resting", "executed", "canceled"}
       /\ ord[o] = "resting" => row[o] = "pending"
  /\ \A o, p \in live : o[1] = p[1] /\ o[2] = p[2] => o = p
  /\ \A o \in Orders : ord[o] = "flying" => row[o] = "pending"

\* Something is wanted in the last phase of the tick only, of a market that was
\* visited; a process that is down manages nothing.
TickFacts ==
  /\ pc # "quote" => want = Settled
  /\ want # Settled => cur \notin round
  /\ pc = "down" => live = {}

\* Orders nobody manages that can fill, or that filled on a row still pending.
Unmanaged == {o \in Orders \ live : Open(o) \/ (row[o] = "pending" /\ fill[o] > 0)}

\* Such an order is in the reconciler's hands, then its market is in doubt, and
\* its side is not quoted.
UnmanagedKnown ==
  \A o \in Unmanaged :
    /\ pc = "orphans" => o \in todo \/ o[1] \in report
    /\ pc = "apply" => o[1] \in corrupted
    /\ pc = "quote" => /\ o[1] \in corrupted \/ o[1] \notin round
                       /\ o[1] = cur => want[o[2]] # "new"

QuoteInv == ManagedFacts /\ UnmanagedKnown /\ OneQuotePerSide

\* While cancel_all holds, this tick neither may quote nor wants to.
KillInv == killCancelled => live = {} /\ ~allowed /\ \A s \in Sides : want[s] # "new"

-----------------------------------------------------------------------------
(* Facts about the data *)

\* An order names a market and a side.
LEMMA OrderParts == \A o \in Orders : o[1] \in Tickers /\ o[2] \in Sides
BY DEF Orders

\* The status that closes a row, and the one the boot gives it.
LEMMA Statuses ==
  /\ {"none", "pending", "filled", "cancelled", "cancelled_all", "error"} \subseteq RowStatus
  /\ \A n : Closed(n) \in {"filled", "cancelled"}
  /\ \A o : BootStatus(o) \in {"filled", "cancelled", "error"}
BY DEF RowStatus, Closed, BootStatus

\* A plan withdraws, keeps or renews each side.
LEMMA PlanType ==
  ASSUME NEW t \in Tickers, NEW w \in Plans(t)
  PROVE  /\ w \in [Sides -> {"keep", "none", "new"}]
         /\ (\E s \in Sides : w[s] = "new") => allowed /\ t \notin corrupted
<1>1. CASE allowed /\ t \notin corrupted
  BY <1>1 DEF Plans
<1>2. CASE ~(allowed /\ t \notin corrupted)
  BY <1>2, Zenon DEF Plans
<1>. QED
  BY <1>1, <1>2

\* Every order managed is dropped and its row closed; some are cancelled.
LEMMA CancelAllEffect ==
  ASSUME TypeOK, CancelAll
  PROVE  /\ live' = {} /\ UNCHANGED <<rfill, fill>>
         /\ row' = [o \in Orders |-> IF o \in live THEN "cancelled_all" ELSE row[o]]
         /\ ord' \in [Orders -> OrderStatus]
         /\ \A o \in Orders : \/ ord'[o] = ord[o]
                              \/ ord[o] = "resting" /\ ord'[o] = "canceled" /\ o \in live
         /\ corrupted' = corrupted \union MarketsOf(live)
<1>1. PICK failed : ord' = [o \in Orders |-> IF o \in live \ failed /\ ord[o] = "resting"
                                               THEN "canceled" ELSE ord[o]]
  BY DEF CancelAll
<1>. QED
  BY <1>1 DEF CancelAll, TypeOK, OrderStatus

-----------------------------------------------------------------------------
(* Type correctness *)

\* The first state has the types.
LEMMA TypeInit == Init => TypeOK /\ OrderFacts
<1> SUFFICES ASSUME Init PROVE TypeOK /\ OrderFacts
  OBVIOUS
<1> USE QuotingAssumption, BoundsAssumption
<1>1. Settled \in [Sides -> {"keep", "none", "new"}]
  BY DEF Settled
<1>2. TypeOK
  <2>1. 0 \in 0..Size /\ 0 \in 0..MaxCrashes /\ 0 \in 0..MaxKills
    OBVIOUS
  <2>2. /\ row \in [Orders -> RowStatus] /\ rfill \in [Orders -> 0..Size]
        /\ ord \in [Orders -> OrderStatus] /\ fill \in [Orders -> 0..Size]
        /\ inv \in [Tickers -> Int]
    BY <2>1 DEF Init, RowStatus, OrderStatus
  <2>. QED
    BY <1>1, <2>1, <2>2 DEF Init, TypeOK
<1>. QED
  BY <1>2 DEF Init, OrderFacts

\* Every step keeps them.
LEMMA TypeStep == TypeOK /\ OrderFacts /\ [Next]_vars => TypeOK' /\ OrderFacts'
<1> SUFFICES ASSUME TypeOK, OrderFacts, [Next]_vars PROVE TypeOK' /\ OrderFacts'
  OBVIOUS
<1> USE QuotingAssumption, BoundsAssumption
<1>0. Settled \in [Sides -> {"keep", "none", "new"}]
  BY DEF Settled
<1>a. /\ Orphans \subseteq Orders /\ Phantoms \subseteq Orders /\ Missing \subseteq Orders
      /\ Unapplied \subseteq Orders /\ MarketsOf(live) \subseteq Tickers
      /\ MarketsOf(Missing \union Phantoms) \subseteq Tickers
  BY OrderParts DEF Orphans, Phantoms, Missing, Unapplied, Pending, MarketsOf, TypeOK
<1>1. CASE TickPanics
  <2>1. row' \in [Orders -> RowStatus]
    BY <1>1, CancelAllEffect, Statuses DEF TickPanics, TypeOK
  <2>2. TypeOK'
    BY <1>1, <2>1, CancelAllEffect, <1>a DEF TickPanics, TypeOK, book, tick
  <2>. QED
    BY <1>1, <2>2, CancelAllEffect DEF TickPanics, OrderFacts, TypeOK
<1>2. CASE TickKilled \/ TickStarts \/ EndTick \/ EndReconcile \/ GetOrdersFails
           \/ EngageKillSwitch \/ ClearKillSwitch
  <2>1. UNCHANGED <<row, rfill, ord, fill>>
    BY <1>2 DEF TickKilled, TickStarts, StartTick, EndTick, EndReconcile, GetOrdersFails,
       EngageKillSwitch, ClearKillSwitch, ledger, exchange
  <2>2. ASSUME TickKilled \/ TickStarts \/ EndTick PROVE TypeOK'
    BY <2>1, <2>2 DEF TickKilled, TickStarts, StartTick, EndTick, TypeOK, book, tick
  <2>3. ASSUME EndReconcile \/ GetOrdersFails PROVE TypeOK'
    BY <2>1, <2>3 DEF EndReconcile, GetOrdersFails, TypeOK, book, tick, flags
  <2>4. ASSUME EngageKillSwitch PROVE TypeOK'
    BY <2>1, <2>4 DEF EngageKillSwitch, TypeOK, book, tick
  <2>5. ASSUME ClearKillSwitch PROVE TypeOK'
    BY <2>1, <2>5 DEF ClearKillSwitch, TypeOK, book, tick
  <2>6. TypeOK'
    BY <1>2, <2>2, <2>3, <2>4, <2>5
  <2>. QED
    BY <2>1, <2>6 DEF OrderFacts
<1>3. CASE GetOrders
  <2>1. row' \in [Orders -> RowStatus] /\ rfill' \in [Orders -> 0..Size]
    BY <1>3, Statuses DEF GetOrders, TypeOK
  <2>2. TypeOK'
    BY <1>3, <2>1, <1>a DEF GetOrders, TypeOK, exchange, book, flags
  <2>3. \A o \in Orders : row[o] # "none" => row'[o] # "none"
    BY <1>3, Statuses DEF GetOrders, TypeOK
  <2>. QED
    BY <1>3, <2>2, <2>3 DEF GetOrders, OrderFacts, exchange
<1>4. ASSUME NEW o \in Orders, CancelOrphan(o) PROVE TypeOK' /\ OrderFacts'
  <2>1. CASE UNCHANGED <<ledger, ord>> /\ report' = report \union {o[1]}
    BY <1>4, <2>1, OrderParts DEF CancelOrphan, TypeOK, OrderFacts, ledger, book, flags
  <2>2. CASE /\ ord[o] = "resting" /\ ord' = [ord EXCEPT ![o] = "canceled"]
             /\ CloseRow(o) \/ UNCHANGED ledger
             /\ UNCHANGED report
    <3>1. /\ row' \in [Orders -> RowStatus] /\ rfill' \in [Orders -> 0..Size]
          /\ \A p \in Orders : row[p] # "none" => row'[p] # "none"
      BY <2>2, Statuses DEF CloseRow, TypeOK, ledger
    <3>. QED
      BY <1>4, <2>2, <3>1 DEF CancelOrphan, TypeOK, OrderStatus, OrderFacts, book, flags
  <2>. QED
    BY <1>4, <2>1, <2>2 DEF CancelOrphan
<1>5. ASSUME NEW o \in Orders, ApplyFill(o) PROVE TypeOK' /\ OrderFacts'
  <2>1. inv' \in [Tickers -> Int]
    BY <1>5, OrderParts DEF ApplyFill, TypeOK
  <2>. QED
    BY <1>5, <2>1 DEF ApplyFill, TypeOK, OrderFacts, ledger, exchange, tick, flags
<1>6. CASE EndApply
  BY <1>6 DEF EndApply, TypeOK, OrderFacts, ledger, exchange, book, flags
<1>7. ASSUME NEW t \in Tickers, Quote(t) PROVE TypeOK' /\ OrderFacts'
  BY <1>7, PlanType DEF Quote, TypeOK, OrderFacts, ledger, exchange, book, flags
<1>8. ASSUME NEW s \in Sides, CancelQuote(s) PROVE TypeOK' /\ OrderFacts'
  <2>1. PICK o \in Live(cur, s) :
          /\ live' = live \ {o}
          /\ \/ /\ ord[o] = "resting" /\ ord' = [ord EXCEPT ![o] = "canceled"]
                /\ CloseRow(o)
                /\ want' = [want EXCEPT ![s] = IF @ = "none" THEN "keep" ELSE @]
                /\ UNCHANGED corrupted
             \/ /\ corrupted' = corrupted \union {cur}
                /\ want' = [want EXCEPT ![s] = "keep"]
                /\ UNCHANGED <<ledger, ord>>
    BY <1>8 DEF CancelQuote
  <2>2. o \in Orders
    BY DEF Live, TypeOK
  <2>3. want' \in [Sides -> {"keep", "none", "new"}]
    BY <2>1 DEF TypeOK
  <2>4. /\ row' \in [Orders -> RowStatus] /\ rfill' \in [Orders -> 0..Size]
        /\ \A p \in Orders : row[p] # "none" => row'[p] # "none"
    BY <2>1, <2>2, Statuses DEF CloseRow, TypeOK, ledger
  <2>5. TypeOK'
    BY <1>8, <2>1, <2>2, <2>3, <2>4 DEF CancelQuote, TypeOK, OrderStatus, book, flags
  <2>. QED
    BY <1>8, <2>1, <2>2, <2>4, <2>5 DEF CancelQuote, OrderFacts, TypeOK
<1>9. ASSUME NEW s \in Sides, Place(s) PROVE TypeOK' /\ OrderFacts'
  <2>1. PICK o \in Orders :
          /\ Fresh(o)
          /\ \E r \in {"pending", "cancelled"} : row' = [row EXCEPT ![o] = r]
          /\ \E st \in {"none", "resting", "flying"} :
                ord' = ord \/ ord' = [ord EXCEPT ![o] = st]
          /\ live' \in {live, live \union {o}}
          /\ corrupted' \in {corrupted, corrupted \union {cur}}
    BY <1>9 DEF Place
  <2>2. row[o] = "none" /\ ord[o] = "none" /\ fill[o] = 0
    BY <2>1 DEF Fresh, OrderFacts
  <2>3. row' \in [Orders -> RowStatus] /\ ord' \in [Orders -> OrderStatus]
    BY <2>1, Statuses DEF TypeOK, OrderStatus
  <2>4. want' \in [Sides -> {"keep", "none", "new"}]
    BY <1>9 DEF Place, TypeOK
  <2>5. TypeOK'
    BY <1>9, <2>1, <2>3, <2>4 DEF Place, TypeOK, book, flags
  <2>. QED
    BY <1>9, <2>1, <2>2, <2>5 DEF Place, OrderFacts, TypeOK
<1>10. ASSUME NEW s \in Sides, NotPlaced(s) PROVE TypeOK' /\ OrderFacts'
  <2>1. want' \in [Sides -> {"keep", "none", "new"}]
    BY <1>10 DEF NotPlaced, TypeOK
  <2>. QED
    BY <1>10, <2>1 DEF NotPlaced, TypeOK, OrderFacts, ledger, exchange, book, flags
<1>11. ASSUME NEW o \in Orders, Arrive(o) \/ CancelledThere(o) PROVE TypeOK' /\ OrderFacts'
  <2>1. \E st \in {"resting", "lost", "canceled"} : ord' = [ord EXCEPT ![o] = st]
    BY <1>11 DEF Arrive, CancelledThere
  <2>2. ord[o] \in {"flying", "resting"} /\ UNCHANGED fill
    BY <1>11 DEF Arrive, CancelledThere, exchange
  <2>3. ord[o] = "flying" => fill[o] = 0
    BY DEF OrderFacts
  <2>4. ord[o] = "resting" => ord'[o] = "canceled"
    BY <1>11 DEF Arrive, CancelledThere, TypeOK
  <2>5. TypeOK'
    BY <1>11, <2>1 DEF Arrive, CancelledThere, TypeOK, OrderStatus, ledger, book, tick, flags
  <2>. QED
    BY <1>11, <2>1, <2>2, <2>3, <2>4, <2>5
    DEF Arrive, CancelledThere, OrderFacts, TypeOK, ledger
<1>12. ASSUME NEW o \in Orders, Fill(o) PROVE TypeOK' /\ OrderFacts'
  <2>1. fill[o] < Size /\ fill[o] \in Nat /\ fill[o] + 1 \in 0..Size
    BY <1>12 DEF Fill, OrderFacts, TypeOK
  <2>2. TypeOK'
    BY <1>12, <2>1 DEF Fill, TypeOK, OrderStatus, ledger, book, tick, flags
  <2>. QED
    BY <1>12, <2>1, <2>2 DEF Fill, OrderFacts, TypeOK, ledger
<1>13. ASSUME Forget, crashes < MaxCrashes
       PROVE  /\ pc' = "down" /\ crashes' \in 0..MaxCrashes /\ applied' = {}
              /\ inv' \in [Tickers -> Int] /\ want' = Settled
              /\ todo' = {} /\ report' = {} /\ round' = {}
              /\ killCancelled' = FALSE /\ allowed' = FALSE /\ UNCHANGED <<cur, ks, kills>>
  BY <1>13 DEF Forget, TypeOK
<1>14. CASE Crash
  BY <1>0, <1>13, <1>14 DEF Crash, TypeOK, OrderFacts, ledger, exchange
<1>15. CASE Shutdown
  <2>1. row' \in [Orders -> RowStatus]
    BY <1>15, CancelAllEffect, Statuses DEF Shutdown, TypeOK
  <2>2. TypeOK'
    BY <1>0, <1>13, <1>15, <2>1, CancelAllEffect, <1>a DEF Shutdown, TypeOK
  <2>. QED
    BY <1>15, <2>2, CancelAllEffect DEF Shutdown, OrderFacts, TypeOK
<1>16. CASE Boot
  <2>1. PICK aged :
          /\ row' = [o \in Orders |-> IF o \in aged THEN BootStatus(o) ELSE row[o]]
          /\ rfill' = [o \in Orders |-> IF o \in aged /\ BootStatus(o) = "filled"
                                          THEN Size ELSE rfill[o]]
    BY <1>16 DEF Boot
  <2>2. row' \in [Orders -> RowStatus] /\ rfill' \in [Orders -> 0..Size]
    BY <2>1, Statuses DEF TypeOK
  <2>3. \A o \in Orders : row[o] # "none" => row'[o] # "none"
    BY <2>1, Statuses
  <2>4. TypeOK'
    BY <1>16, <2>2 DEF Boot, TypeOK, exchange, book, tick, flags
  <2>. QED
    BY <1>16, <2>3, <2>4 DEF Boot, OrderFacts, exchange
<1>17. CASE UNCHANGED vars
  BY <1>17 DEF vars, TypeOK, OrderFacts, ledger, exchange, book, tick, flags
<1>. QED
  BY <1>1, <1>2, <1>3, <1>4, <1>5, <1>6, <1>7, <1>8, <1>9, <1>10, <1>11, <1>12, <1>14, <1>15,
     <1>16, <1>17 DEF Next, Tick

\* Every variable keeps its type, for every constant the assumptions allow.
THEOREM TypeCorrect == Spec => []TypeOK
<1>1. Spec => [](TypeOK /\ OrderFacts)
  BY TypeInit, TypeStep, PTL DEF Spec
<1>. QED
  BY <1>1, PTL

-----------------------------------------------------------------------------
(* The phases of a tick *)

\* Every step keeps what a tick may do with what it wants.
LEMMA TickStep == TypeOK /\ TickFacts /\ [Next]_vars => TickFacts'
<1> SUFFICES ASSUME TypeOK, TickFacts, [Next]_vars PROVE TickFacts'
  OBVIOUS
<1>1. ASSUME NEW o \in Orders,
             CancelOrphan(o) \/ ApplyFill(o) \/ Arrive(o) \/ Fill(o) \/ CancelledThere(o)
      PROVE  TickFacts'
  BY <1>1 DEF CancelOrphan, ApplyFill, Arrive, Fill, CancelledThere, TickFacts, tick, Settled
<1>2. ASSUME NEW t \in Tickers, Quote(t) PROVE TickFacts'
  BY <1>2 DEF Quote, TickFacts
<1>3. ASSUME NEW s \in Sides, CancelQuote(s) \/ Place(s) \/ NotPlaced(s) PROVE TickFacts'
  <2>1. pc = "quote" /\ want[s] # "keep" /\ UNCHANGED <<pc, round, cur>>
    BY <1>3 DEF CancelQuote, Place, NotPlaced, Turn
  <2>2. want # Settled
    BY <2>1 DEF Settled
  <2>. QED
    BY <2>1, <2>2 DEF TickFacts
<1>4. CASE TickPanics
  BY <1>4, CancelAllEffect DEF TickPanics, TickFacts, tick, Settled
<1>5. CASE TickKilled \/ TickStarts \/ GetOrders \/ GetOrdersFails \/ EndReconcile
           \/ EndApply \/ EndTick
  BY <1>5 DEF TickKilled, TickStarts, StartTick, GetOrders, GetOrdersFails,
     EndReconcile, EndApply, EndTick, TickFacts, tick, Settled
<1>6. CASE Crash \/ Shutdown
  BY <1>6, CancelAllEffect DEF Crash, Shutdown, Forget, TickFacts, Settled
<1>7. CASE Boot \/ EngageKillSwitch \/ ClearKillSwitch
  BY <1>7 DEF Boot, EngageKillSwitch, ClearKillSwitch, TickFacts, tick, Settled
<1>8. CASE UNCHANGED vars
  BY <1>8 DEF vars, TickFacts, tick, Settled
<1>. QED
  BY <1>1, <1>2, <1>3, <1>4, <1>5, <1>6, <1>7, <1>8 DEF Next, Tick

-----------------------------------------------------------------------------
(* One quote per side *)

\* Queries are answered; every other fault may happen.
Answered == "query" \notin Faults

\* There is no order at first.
LEMMA QuoteInit == Init => TickFacts /\ QuoteInv
BY DEF Init, TickFacts, Settled, QuoteInv, ManagedFacts, UnmanagedKnown, Unmanaged,
   OneQuotePerSide, Open

\* A step that opens no order, and manages no other one, keeps one quote per side.
LEMMA NoneOpened ==
  ASSUME OneQuotePerSide, \A o \in Orders : Open(o)' => Open(o)
  PROVE  OneQuotePerSide'
BY DEF OneQuotePerSide

\* The orders nobody manages stay so: what a step must do for UnmanagedKnown when
\* it neither opens nor drops one.
LEMMA NoneDropped ==
  ASSUME UnmanagedKnown, UNCHANGED <<pc, live, todo, report, corrupted, round, cur, want>>,
         Unmanaged' \subseteq Unmanaged
  PROVE  UnmanagedKnown'
BY DEF UnmanagedKnown

\* Every step keeps one order to a side, if get_orders answers.
LEMMA QuoteStep ==
  ASSUME Answered, TypeOK, OrderFacts, TickFacts, QuoteInv, [Next]_vars
  PROVE  QuoteInv'
<1> USE OrderParts
<1>1. CASE TickPanics
  <2>1. \A o \in Orders : Open(o)' => Open(o)
    BY <1>1, CancelAllEffect DEF TickPanics, Open
  <2>2. ManagedFacts'
    BY <1>1, CancelAllEffect DEF TickPanics, QuoteInv, ManagedFacts
  <2>3. UnmanagedKnown'
    BY <1>1 DEF TickPanics, UnmanagedKnown
  <2>. QED
    BY <2>1, <2>2, <2>3, NoneOpened DEF QuoteInv
<1>2. CASE TickKilled \/ TickStarts \/ EndTick
  BY <1>2 DEF TickKilled, TickStarts, StartTick, EndTick, QuoteInv, ManagedFacts,
     UnmanagedKnown, OneQuotePerSide, Open, ledger, exchange
<1>3. CASE GetOrders
  <2>1. UNCHANGED <<ord, live>>
    BY <1>3 DEF GetOrders, exchange
  <2>2. ManagedFacts'
    BY <1>3, <2>1 DEF GetOrders, Resolved, Final, Pending, QuoteInv, ManagedFacts, TypeOK
  <2>3. ASSUME NEW o \in Unmanaged' PROVE o \in todo' \/ o[1] \in report'
    <3>1. o \in Orders \ live /\ ord[o] \in {"flying", "resting"}
      <4>1. CASE Open(o)
        BY <2>1, <2>3, <4>1 DEF Unmanaged, Open
      <4>2. CASE ~Open(o)
        <5>1. /\ o \in Orders \ live /\ row'[o] = "pending" /\ fill[o] > 0
              /\ ord[o] \in OrderStatus
          BY <1>3, <2>1, <2>3, <4>2 DEF GetOrders, exchange, Unmanaged, Open, TypeOK
        <5>2. ord[o] \in {"resting", "executed", "canceled"}
          BY <5>1 DEF OrderFacts, OrderStatus
        <5>3. row'[o] = IF o \in Resolved THEN Closed(fill[o]) ELSE row[o]
          BY <1>3, <5>1 DEF GetOrders
        <5>4. o \notin Resolved /\ row[o] = "pending"
          BY <5>1, <5>3, Statuses
        <5> QED
          BY <5>1, <5>2, <5>4 DEF Resolved, Final, Pending
      <4> QED
        BY <4>1, <4>2
    <3>2. CASE ord[o] = "flying"
      BY <1>3, <3>1, <3>2 DEF GetOrders, QuoteInv, ManagedFacts, Missing, Pending, MarketsOf
    <3>3. CASE ord[o] = "resting"
      BY <1>3, <3>1, <3>3 DEF GetOrders, Orphans, Phantoms, Pending
    <3>. QED
      BY <3>1, <3>2, <3>3
  <2>4. UnmanagedKnown'
    BY <1>3, <2>3 DEF GetOrders, UnmanagedKnown
  <2>. QED
    BY <2>1, <2>2, <2>4, NoneOpened DEF QuoteInv, Open
<1>4. CASE GetOrdersFails
  BY <1>4 DEF GetOrdersFails, Answered
<1>5. ASSUME NEW o \in Orders, CancelOrphan(o) PROVE QuoteInv'
  <2>1. /\ pc = "orphans" /\ UNCHANGED <<live, pc>> /\ todo' = todo \ {o}
        /\ \/ /\ ord[o] = "resting" /\ ord' = [ord EXCEPT ![o] = "canceled"]
              /\ CloseRow(o) \/ (UNCHANGED ledger /\ row[o] # "pending")
              /\ UNCHANGED report
           \/ report' = report \union {o[1]} /\ UNCHANGED <<ledger, ord>>
        /\ UNCHANGED fill
    BY <1>5 DEF CancelOrphan
  <2>2. \A p \in Orders : \/ ord'[p] = ord[p]
                          \/ p = o /\ ord[p] = "resting" /\ ord'[p] = "canceled"
    BY <2>1 DEF TypeOK
  <2>3. \A p \in Orders : Open(p)' => Open(p)
    BY <2>2 DEF Open
  <2>4. /\ \A p \in Orders : row'[p] = row[p] \/ (p = o /\ ord'[o] = "canceled")
        /\ (row'[o] = row[o] /\ ord'[o] = ord[o]) \/ row'[o] # "pending"
    BY <2>1, Statuses DEF CloseRow, TypeOK, ledger
  <2>5. ManagedFacts'
    BY <2>1, <2>2, <2>4 DEF QuoteInv, ManagedFacts, TypeOK
  <2>6. \A p \in Unmanaged' : p \in todo' \/ p[1] \in report'
    <3>1. ASSUME NEW p \in Unmanaged'
          PROVE  p \in Unmanaged /\ (p = o => ord'[o] = ord[o])
      <4>1. CASE p = o /\ ord'[o] = "canceled" /\ row'[o] # "pending"
        BY <3>1, <4>1 DEF Unmanaged, Open
      <4>2. CASE ord'[p] = ord[p]
        <5>1. row'[p] # row[p] => row'[p] # "pending" /\ ~Open(p)'
          BY <2>4, <3>1, <4>2 DEF Unmanaged, Open
        <5> QED
          BY <2>1, <2>3, <3>1, <4>2, <5>1 DEF Unmanaged
      <4> QED
        BY <2>2, <2>4, <3>1, <4>1, <4>2 DEF Unmanaged
    <3> QED
      BY <2>1, <3>1 DEF QuoteInv, UnmanagedKnown, TypeOK
  <2>7. UnmanagedKnown'
    BY <2>1, <2>6 DEF UnmanagedKnown
  <2>. QED
    BY <2>3, <2>5, <2>7, NoneOpened DEF QuoteInv
<1>6. CASE EndReconcile
  BY <1>6 DEF EndReconcile, QuoteInv, ManagedFacts, UnmanagedKnown, Unmanaged,
     OneQuotePerSide, Open, ledger, exchange
<1>7. ASSUME NEW o \in Orders, ApplyFill(o) PROVE QuoteInv'
  BY <1>7 DEF ApplyFill, QuoteInv, ManagedFacts, UnmanagedKnown, Unmanaged,
     OneQuotePerSide, Open, ledger, exchange, tick
<1>8. CASE EndApply
  <2>1. want = Settled
    BY <1>8 DEF EndApply, TickFacts
  <2>2. \A s \in Sides : want[s] # "new"
    BY <2>1 DEF Settled
  <2>3. UnmanagedKnown'
    BY <1>8, <2>2 DEF EndApply, QuoteInv, UnmanagedKnown, Unmanaged, Open, exchange, ledger
  <2>. QED
    BY <1>8, <2>3 DEF EndApply, QuoteInv, ManagedFacts, OneQuotePerSide, Open, ledger, exchange
<1>9. ASSUME NEW t \in Tickers, Quote(t) PROVE QuoteInv'
  <2>1. (\E s \in Sides : want'[s] = "new") => t \notin corrupted
    BY <1>9, PlanType DEF Quote
  <2>2. pc = "quote" /\ pc' = "quote" /\ t \in round /\ round' = round \ {t} /\ cur' = t
        /\ UNCHANGED <<live, corrupted, row, ord, fill>>
    BY <1>9 DEF Quote, exchange, ledger
  <2>3. \A o \in Unmanaged : o[1] \in corrupted \/ o[1] \notin round
    BY <2>2 DEF QuoteInv, UnmanagedKnown
  <2>4. Unmanaged' = Unmanaged
    BY <2>2 DEF Unmanaged, Open
  <2>5. ASSUME NEW o \in Unmanaged'
        PROVE  /\ o[1] \in corrupted' \/ o[1] \notin round'
               /\ o[1] = cur' => want'[o[2]] # "new"
    BY <2>1, <2>2, <2>3, <2>4, <2>5 DEF Unmanaged
  <2>6. UnmanagedKnown'
    BY <2>2, <2>5 DEF UnmanagedKnown
  <2>. QED
    BY <1>9, <2>6 DEF Quote, QuoteInv, ManagedFacts, OneQuotePerSide, Open, ledger, exchange
<1>10. ASSUME NEW s \in Sides, CancelQuote(s) PROVE QuoteInv'
  <2>1. PICK o \in Live(cur, s) :
          /\ live' = live \ {o}
          /\ \/ /\ ord[o] = "resting" /\ ord' = [ord EXCEPT ![o] = "canceled"]
                /\ CloseRow(o)
                /\ want' = [want EXCEPT ![s] = IF @ = "none" THEN "keep" ELSE @]
                /\ UNCHANGED corrupted
             \/ /\ corrupted' = corrupted \union {cur}
                /\ want' = [want EXCEPT ![s] = "keep"]
                /\ UNCHANGED <<ledger, ord>>
    BY <1>10 DEF CancelQuote
  <2>2. o \in Orders /\ o[1] = cur /\ o[2] = s
    BY DEF Live, TypeOK
  <2>3. pc = "quote" /\ pc' = "quote" /\ UNCHANGED <<round, cur, fill>>
    BY <1>10 DEF CancelQuote, Turn
  <2>4. \A p \in Orders : \/ ord'[p] = ord[p]
                          \/ p = o /\ ord[p] = "resting" /\ ord'[p] = "canceled"
    BY <2>1, <2>2 DEF TypeOK
  <2>5. \A p \in Orders : Open(p)' => Open(p)
    BY <2>4 DEF Open
  <2>6. /\ \A p \in Orders : row'[p] = row[p] \/ (p = o /\ ord'[o] = "canceled")
        /\ row'[o] = row[o] \/ row'[o] # "pending"
    BY <2>1, <2>2, Statuses DEF CloseRow, TypeOK, ledger
  <2>7. ManagedFacts'
    BY <2>1, <2>2, <2>4, <2>6 DEF QuoteInv, ManagedFacts, TypeOK
  <2>8. \A r \in Sides : want'[r] = "new" => want[r] = "new"
    BY <2>1 DEF TypeOK
  <2>9. ASSUME NEW p \in Unmanaged'
        PROVE  /\ p[1] \in corrupted' \/ p[1] \notin round'
               /\ p[1] = cur' => want'[p[2]] # "new"
    <3>1. /\ p \in Orders /\ p \notin live'
          /\ Open(p) \/ (row[p] = "pending" /\ fill[p] > 0)
      BY <2>3, <2>5, <2>6, <2>9, Statuses DEF Unmanaged
    <3>2. CASE p \in live
      <4>1. p = o
        BY <2>1, <3>1, <3>2
      <4>2. corrupted' = corrupted \union {cur} /\ want' = [want EXCEPT ![s] = "keep"]
        <5>1. CASE CloseRow(o) /\ ord' = [ord EXCEPT ![o] = "canceled"]
          <6>1. row'[o] # "pending" /\ ~Open(o)'
            BY <2>2, <5>1, Statuses DEF CloseRow, Open, TypeOK
          <6> QED
            BY <2>9, <4>1, <6>1 DEF Unmanaged
        <5> QED
          BY <2>1, <5>1
      <4>. QED
        BY <2>2, <4>1, <4>2 DEF TypeOK
    <3>3. CASE p \notin live
      <4>1. p[1] \in corrupted \/ p[1] \notin round
        BY <2>3, <3>1, <3>3 DEF QuoteInv, UnmanagedKnown, Unmanaged
      <4>2. p[1] = cur => want[p[2]] # "new"
        BY <2>3, <3>1, <3>3 DEF QuoteInv, UnmanagedKnown, Unmanaged
      <4>. QED
        BY <2>1, <2>3, <2>8, <3>1, <4>1, <4>2
    <3>. QED
      BY <3>2, <3>3
  <2>10. UnmanagedKnown'
    BY <2>3, <2>9 DEF UnmanagedKnown
  <2>. QED
    BY <2>5, <2>7, <2>10, NoneOpened DEF QuoteInv
<1>11. ASSUME NEW s \in Sides, Place(s) PROVE QuoteInv'
  <2>1. PICK o \in Orders :
          /\ o[1] = cur /\ o[2] = s /\ Fresh(o)
          /\ \/ /\ row' = [row EXCEPT ![o] = "pending"]
                /\ ord' = [ord EXCEPT ![o] = "resting"]
                /\ live' = live \union {o}
                /\ UNCHANGED corrupted
             \/ /\ row' = [row EXCEPT ![o] = "cancelled"]
                /\ ord' \in {ord, [ord EXCEPT ![o] = "resting"]}
                /\ UNCHANGED <<live, corrupted>>
             \/ /\ row' = [row EXCEPT ![o] = "pending"]
                /\ ord' = [ord EXCEPT ![o] = "flying"]
                /\ corrupted' = corrupted \union {cur}
                /\ UNCHANGED live
    BY <1>11 DEF Place
  <2>2. /\ pc = "quote" /\ pc' = "quote" /\ want[s] = "new" /\ Live(cur, s) = {}
        /\ want' = [want EXCEPT ![s] = "keep"] /\ UNCHANGED <<round, cur, fill>>
    BY <1>11 DEF Place, Turn
  <2>3. row[o] = "none" /\ ord[o] = "none"
    BY <2>1 DEF Fresh, OrderFacts
  <2>4. o \notin live /\ \A p \in live : ~(p[1] = cur /\ p[2] = s)
    BY <2>1, <2>2 DEF Live
  <2>5. \A p \in Orders : p # o => ord'[p] = ord[p] /\ row'[p] = row[p]
    BY <2>1 DEF TypeOK
  <2>6. \A p \in Orders : Open(p) => ~(p[1] = cur /\ p[2] = s)
    <3>1. \A p \in Unmanaged : ~(p[1] = cur /\ p[2] = s)
      BY <2>2 DEF QuoteInv, UnmanagedKnown
    <3>. QED
      BY <2>4, <3>1 DEF Unmanaged
  <2>7. OneQuotePerSide'
    BY <2>1, <2>5, <2>6 DEF QuoteInv, OneQuotePerSide, Open
  <2>8. ManagedFacts'
    <3>1. /\ ord'[o] \in {"none", "resting", "flying"}
          /\ ord'[o] = "flying" => row'[o] = "pending"
          /\ o \in live' => ord'[o] = "resting" /\ row'[o] = "pending"
      BY <2>1, <2>3, <2>4 DEF TypeOK
    <3>2. live' \subseteq live \union {o}
      BY <2>1
    <3>3. (\A p, q \in live : p[1] = q[1] /\ p[2] = q[2] => p = q)'
      BY <2>1, <2>4, <3>2 DEF QuoteInv, ManagedFacts
    <3>4. (\A p \in live : /\ ord[p] \in {"resting", "executed", "canceled"}
                           /\ ord[p] = "resting" => row[p] = "pending")'
      BY <2>5, <3>1, <3>2 DEF QuoteInv, ManagedFacts, TypeOK
    <3>5. (\A p \in Orders : ord[p] = "flying" => row[p] = "pending")'
      BY <2>5, <3>1 DEF QuoteInv, ManagedFacts
    <3>. QED
      BY <3>3, <3>4, <3>5 DEF ManagedFacts
  <2>9. ASSUME NEW p \in Unmanaged'
        PROVE  /\ p[1] \in corrupted' \/ p[1] \notin round'
               /\ p[1] = cur' => want'[p[2]] # "new"
    <3>1. cur \notin round
      BY <2>2 DEF TickFacts, Settled
    <3>2. CASE p = o
      BY <2>1, <2>2, <3>1, <3>2 DEF TypeOK
    <3>3. CASE p # o
      <4>1. p \in Unmanaged
        BY <2>1, <2>2, <2>5, <2>9, <3>3 DEF Unmanaged, Open
      <4>2. /\ p[1] \in corrupted \/ p[1] \notin round
            /\ p[1] = cur => want[p[2]] # "new"
        BY <2>2, <4>1 DEF QuoteInv, UnmanagedKnown
      <4>3. p[2] \in Sides
        BY <4>1 DEF Unmanaged
      <4>. QED
        BY <2>1, <2>2, <4>2, <4>3 DEF TypeOK
    <3>. QED
      BY <3>2, <3>3
  <2>10. UnmanagedKnown'
    BY <2>2, <2>9 DEF UnmanagedKnown
  <2>. QED
    BY <2>7, <2>8, <2>10 DEF QuoteInv
<1>12. ASSUME NEW s \in Sides, NotPlaced(s) PROVE QuoteInv'
  <2>1. /\ UNCHANGED <<row, ord, fill, live, corrupted, pc, round, cur>>
        /\ want' = [want EXCEPT ![s] = "keep"] /\ pc = "quote"
    BY <1>12 DEF NotPlaced, Turn, ledger, exchange
  <2>2. \A r \in Sides : want'[r] = "new" => want[r] = "new"
    BY <2>1 DEF TypeOK
  <2>3. UnmanagedKnown'
    BY <2>1, <2>2 DEF QuoteInv, UnmanagedKnown, Unmanaged, Open
  <2>. QED
    BY <2>1, <2>3 DEF QuoteInv, ManagedFacts, OneQuotePerSide, Open
<1>13. ASSUME NEW o \in Orders, Arrive(o) \/ Fill(o) \/ CancelledThere(o) PROVE QuoteInv'
  <2>1. UNCHANGED <<row, live, corrupted, pc, todo, report, round, cur, want>>
    BY <1>13 DEF Arrive, Fill, CancelledThere, ledger, tick
  <2>2. /\ \A p \in Orders : p # o => ord'[p] = ord[p]
        /\ \/ ord[o] = "flying" /\ ord'[o] \in {"resting", "lost"}
           \/ ord[o] = "resting" /\ ord'[o] \in {"resting", "executed", "canceled"}
    BY <1>13 DEF Arrive, Fill, CancelledThere, TypeOK
  <2>3. \A p \in Orders : Open(p)' => Open(p)
    BY <2>2 DEF Open
  <2>4. ManagedFacts'
    BY <2>1, <2>2 DEF QuoteInv, ManagedFacts, TypeOK
  <2>5. \A p \in Orders : fill'[p] > 0 => fill[p] > 0 \/ Open(p)
    BY <1>13, <2>2 DEF Arrive, Fill, CancelledThere, Open, TypeOK
  <2>6. Unmanaged' \subseteq Unmanaged
    BY <2>1, <2>3, <2>5 DEF Unmanaged
  <2>. QED
    BY <2>1, <2>3, <2>4, <2>6, NoneOpened, NoneDropped DEF QuoteInv
<1>14. CASE Crash
  BY <1>14 DEF Crash, Forget, QuoteInv, ManagedFacts, UnmanagedKnown, OneQuotePerSide, Open,
     ledger, exchange
<1>15. CASE Shutdown
  <2>1. \A o \in Orders : Open(o)' => Open(o)
    BY <1>15, CancelAllEffect DEF Shutdown, Open
  <2>2. ManagedFacts'
    BY <1>15, CancelAllEffect DEF Shutdown, QuoteInv, ManagedFacts
  <2>3. UnmanagedKnown'
    BY <1>15 DEF Shutdown, Forget, UnmanagedKnown
  <2>. QED
    BY <2>1, <2>2, <2>3, NoneOpened DEF QuoteInv
<1>16. CASE Boot
  <2>1. PICK aged \in SUBSET {o \in Pending : ord[o] # "flying"} :
          row' = [o \in Orders |-> IF o \in aged THEN BootStatus(o) ELSE row[o]]
    BY <1>16 DEF Boot
  <2>2. UNCHANGED <<ord, live>> /\ pc' = "sleep"
    BY <1>16 DEF Boot, exchange
  <2>3. UnmanagedKnown' /\ OneQuotePerSide'
    BY <2>2 DEF QuoteInv, UnmanagedKnown, OneQuotePerSide, Open
  <2>4. live' = {} /\ \A o \in Orders : ord'[o] = "flying" => row'[o] = "pending"
    BY <1>16, <2>1, <2>2 DEF Boot, TickFacts, QuoteInv, ManagedFacts
  <2>. QED
    BY <2>3, <2>4 DEF QuoteInv, ManagedFacts
<1>17. CASE EngageKillSwitch \/ ClearKillSwitch
  BY <1>17 DEF EngageKillSwitch, ClearKillSwitch, QuoteInv, ManagedFacts, UnmanagedKnown,
     Unmanaged, OneQuotePerSide, Open, ledger, exchange, tick
<1>18. CASE UNCHANGED vars
  BY <1>18 DEF vars, QuoteInv, ManagedFacts, UnmanagedKnown, Unmanaged, OneQuotePerSide, Open,
     ledger, exchange, tick
<1>. QED
  BY <1>1, <1>2, <1>3, <1>4, <1>5, <1>6, <1>7, <1>8, <1>9, <1>10, <1>11, <1>12, <1>13, <1>14,
     <1>15, <1>16, <1>17, <1>18 DEF Next, Tick

\* If get_orders always answers, a side of a market never has two orders that can
\* fill, whatever requests and cancels are lost and whenever the process stops.
THEOREM NeverTwoQuotes == ASSUME Answered PROVE Spec => []OneQuotePerSide
<1>1. Init => TypeOK /\ OrderFacts /\ TickFacts /\ QuoteInv
  BY TypeInit, QuoteInit
<1>2. TypeOK /\ OrderFacts /\ TickFacts /\ QuoteInv /\ [Next]_vars
      => TypeOK' /\ OrderFacts' /\ TickFacts' /\ QuoteInv'
  BY TypeStep, TickStep, QuoteStep, Answered
<1>3. QuoteInv => OneQuotePerSide
  BY DEF QuoteInv
<1>. QED
  BY <1>1, <1>2, <1>3, PTL DEF Spec

-----------------------------------------------------------------------------
(* The ledger tells the truth *)

\* No repeated order is refused: what a 4xx says of a new order is then true.
RefusedIsAbsent == "again" \notin Faults

\* There is no row at first.
LEMMA TruthInit == Init => RowsTellTruth
BY DEF Init, RowsTellTruth

\* A closed row stays true while its order cannot fill any more: what a step must
\* do for RowsTellTruth when it leaves the rows alone.
LEMMA TruthKept ==
  ASSUME RowsTellTruth, UNCHANGED <<row, rfill>>,
         \A o \in Orders : Open(o)' => Open(o),
         \A o \in Orders : fill'[o] = fill[o] \/ Open(o)
  PROVE  RowsTellTruth'
BY DEF RowsTellTruth, Open

\* Every step keeps the rows true, if no repeated order is refused.
LEMMA TruthStep ==
  ASSUME RefusedIsAbsent, TypeOK, OrderFacts, RowsTellTruth, [Next]_vars
  PROVE  RowsTellTruth'
<1> USE OrderParts
<1>1. CASE TickPanics \/ Shutdown
  <2>1. CancelAll
    BY <1>1 DEF TickPanics, Shutdown
  <2>2. \A o \in Orders : /\ Open(o)' => Open(o)
                          /\ row'[o] \in {"filled", "cancelled"} => row'[o] = row[o]
                          /\ rfill'[o] = rfill[o] /\ fill'[o] = fill[o]
    BY <2>1, CancelAllEffect DEF Open
  <2>. QED
    BY <2>2 DEF RowsTellTruth
<1>2. CASE TickKilled \/ TickStarts \/ EndTick \/ EndReconcile \/ GetOrdersFails \/ EndApply
           \/ EngageKillSwitch \/ ClearKillSwitch \/ Crash
  BY <1>2, TruthKept DEF TickKilled, TickStarts, StartTick, EndTick, EndReconcile, GetOrdersFails,
     EndApply, EngageKillSwitch, ClearKillSwitch, Crash, ledger, exchange, Open
<1>3. CASE GetOrders
  <2>1. \A o \in Orders : \/ row'[o] = row[o] /\ rfill'[o] = rfill[o]
                          \/ ~Open(o) /\ rfill'[o] = fill[o]
    BY <1>3 DEF GetOrders, Resolved, Final, Open
  <2>. QED
    BY <1>3, <2>1 DEF GetOrders, RowsTellTruth, Open, exchange
<1>4. ASSUME NEW o \in Orders, ord' = [ord EXCEPT ![o] = "canceled"], UNCHANGED fill,
             CloseRow(o) \/ UNCHANGED ledger
      PROVE  RowsTellTruth'
  <2>1. \A p \in Orders : /\ p # o => row'[p] = row[p] /\ rfill'[p] = rfill[p] /\ ord'[p] = ord[p]
                          /\ ~Open(o)'
    BY <1>4 DEF CloseRow, ledger, TypeOK, Open
  <2>2. rfill'[o] = fill[o] \/ UNCHANGED ledger
    BY <1>4 DEF CloseRow, TypeOK
  <2>3. UNCHANGED ledger => row'[o] = row[o] /\ rfill'[o] = rfill[o]
    BY DEF ledger
  <2>. QED
    BY <1>4, <2>1, <2>2, <2>3 DEF RowsTellTruth, Open
<1>5. ASSUME NEW o \in Orders, CancelOrphan(o) PROVE RowsTellTruth'
  <2>1. CASE UNCHANGED <<ledger, ord, fill>>
    BY <2>1, TruthKept DEF ledger, Open
  <2>. QED
    BY <1>4, <1>5, <2>1 DEF CancelOrphan
<1>6. ASSUME NEW o \in Orders, ApplyFill(o) PROVE RowsTellTruth'
  BY <1>6, TruthKept DEF ApplyFill, ledger, exchange, Open
<1>7. ASSUME NEW t \in Tickers, Quote(t) PROVE RowsTellTruth'
  BY <1>7, TruthKept DEF Quote, ledger, exchange, Open
<1>8. ASSUME NEW s \in Sides, CancelQuote(s) PROVE RowsTellTruth'
  <2>1. CASE UNCHANGED <<ledger, ord, fill>>
    BY <2>1, TruthKept DEF ledger, Open
  <2>2. live \subseteq Orders /\ Live(cur, s) \subseteq Orders
    BY DEF Live, TypeOK
  <2>. QED
    BY <1>4, <1>8, <2>1, <2>2 DEF CancelQuote
<1>9. ASSUME NEW s \in Sides, Place(s) PROVE RowsTellTruth'
  <2>1. PICK o \in Orders :
          /\ Fresh(o)
          /\ \/ row' = [row EXCEPT ![o] = "cancelled"] /\ ord' = ord
             \/ /\ row' = [row EXCEPT ![o] = "pending"]
                /\ \E st \in OrderStatus : ord' = [ord EXCEPT ![o] = st]
    BY <1>9 DEF Place, RefusedIsAbsent, OrderStatus
  <2>2. ~Open(o)
    BY <2>1 DEF Fresh, OrderFacts, Open
  <2>3. \A p \in Orders : /\ p # o => row'[p] = row[p] /\ ord'[p] = ord[p]
                          /\ row'[o] = "pending" \/ (row'[o] = "cancelled" /\ ord' = ord)
    BY <2>1 DEF TypeOK
  <2>4. UNCHANGED <<rfill, fill>>
    BY <1>9 DEF Place
  <2>. QED
    BY <2>2, <2>3, <2>4 DEF RowsTellTruth, Open
<1>10. ASSUME NEW s \in Sides, NotPlaced(s) PROVE RowsTellTruth'
  BY <1>10, TruthKept DEF NotPlaced, ledger, exchange, Open
<1>11. ASSUME NEW o \in Orders, Arrive(o) \/ Fill(o) \/ CancelledThere(o) PROVE RowsTellTruth'
  <2>1. UNCHANGED <<row, rfill>> /\ Open(o)
    BY <1>11 DEF Arrive, Fill, CancelledThere, ledger, Open
  <2>2. \A p \in Orders : p # o => ord'[p] = ord[p] /\ fill'[p] = fill[p]
    BY <1>11 DEF Arrive, Fill, CancelledThere, TypeOK
  <2>3. \A p \in Orders : (Open(p)' => Open(p)) /\ (fill'[p] = fill[p] \/ Open(p))
    BY <2>1, <2>2 DEF Open
  <2>. QED
    BY <2>1, <2>3, TruthKept
<1>12. CASE Boot
  <2>1. PICK aged \in SUBSET {o \in Pending : ord[o] # "flying"} :
          /\ row' = [o \in Orders |-> IF o \in aged THEN BootStatus(o) ELSE row[o]]
          /\ rfill' = [o \in Orders |-> IF o \in aged /\ BootStatus(o) = "filled"
                                          THEN Size ELSE rfill[o]]
    BY <1>12 DEF Boot
  <2>2. UNCHANGED <<ord, fill>>
    BY <1>12 DEF Boot, exchange
  <2>3. ASSUME NEW o \in Orders
        PROVE  /\ BootStatus(o) = "filled" => ord[o] = "executed"
               /\ BootStatus(o) = "cancelled" => ord[o] = "canceled"
    BY Zenon DEF BootStatus
  <2>. QED
    BY <2>1, <2>2, <2>3 DEF RowsTellTruth, Open, OrderFacts
<1>13. CASE UNCHANGED vars
  BY <1>13, TruthKept DEF vars, ledger, exchange, Open
<1>. QED
  BY <1>1, <1>2, <1>3, <1>5, <1>6, <1>7, <1>8, <1>9, <1>10, <1>11, <1>12, <1>13 DEF Next, Tick

\* If no repeated order is refused, a filled row has the count of an order that is
\* closed, and no cancelled row hides an order that can still fill.
THEOREM LedgerIsTrue == ASSUME RefusedIsAbsent PROVE Spec => []RowsTellTruth
<1>1. Init => TypeOK /\ OrderFacts /\ RowsTellTruth
  BY TypeInit, TruthInit
<1>2. TypeOK /\ OrderFacts /\ RowsTellTruth /\ [Next]_vars
      => TypeOK' /\ OrderFacts' /\ RowsTellTruth'
  BY TypeStep, TruthStep, RefusedIsAbsent
<1>. QED
  BY <1>1, <1>2, PTL DEF Spec

-----------------------------------------------------------------------------
(* The kill-switch *)

\* Every step keeps a killed bot from quoting.
LEMMA KillStep ==
  ASSUME TypeOK, TickFacts, KillInv, [Next]_vars
  PROVE  KillInv'
<1>1. CASE TickPanics
  <2>1. \A s \in Sides : want'[s] # "new"
    BY <1>1 DEF TickPanics, TickFacts, Settled, tick
  <2>. QED
    BY <1>1, <2>1, CancelAllEffect DEF TickPanics, KillInv
<1>2. CASE TickKilled \/ GetOrders \/ GetOrdersFails \/ EndReconcile \/ EndApply \/ EndTick
           \/ EngageKillSwitch \/ ClearKillSwitch \/ Boot
  BY <1>2 DEF TickKilled, GetOrders, GetOrdersFails, EndReconcile, EndApply, EndTick,
     EngageKillSwitch, ClearKillSwitch, Boot, KillInv, tick, flags
<1>3. CASE TickStarts \/ Crash \/ Shutdown
  BY <1>3 DEF TickStarts, StartTick, Crash, Shutdown, Forget, KillInv
<1>4. ASSUME NEW o \in Orders,
             CancelOrphan(o) \/ ApplyFill(o) \/ Arrive(o) \/ Fill(o) \/ CancelledThere(o)
      PROVE  KillInv'
  BY <1>4 DEF CancelOrphan, ApplyFill, Arrive, Fill, CancelledThere, KillInv, tick, flags
<1>5. ASSUME NEW t \in Tickers, Quote(t) PROVE KillInv'
  BY <1>5, PlanType DEF Quote, KillInv, flags
<1>6. ASSUME NEW s \in Sides, CancelQuote(s) PROVE KillInv'
  BY <1>6 DEF CancelQuote, Live, KillInv, flags
<1>7. ASSUME NEW s \in Sides, Place(s) PROVE KillInv'
  BY <1>7 DEF Place, KillInv, flags
<1>8. ASSUME NEW s \in Sides, NotPlaced(s) PROVE KillInv'
  BY <1>8 DEF NotPlaced, KillInv, flags
<1>9. CASE UNCHANGED vars
  BY <1>9 DEF vars, KillInv, tick, flags
<1>. QED
  BY <1>1, <1>2, <1>3, <1>4, <1>5, <1>6, <1>7, <1>8, <1>9 DEF Next, Tick

\* From cancel_all to the first tick with the switch clear, no quote is managed,
\* whatever the environment does.
THEOREM KilledManagesNothing == Spec => []KillStops
<1>1. Init => TypeOK /\ OrderFacts /\ TickFacts /\ KillInv
  BY TypeInit, QuoteInit DEF Init, KillInv
<1>2. TypeOK /\ OrderFacts /\ TickFacts /\ KillInv /\ [Next]_vars
      => TypeOK' /\ OrderFacts' /\ TickFacts' /\ KillInv'
  BY TypeStep, TickStep, KillStep
<1>3. KillInv => KillStops
  BY DEF KillInv, KillStops
<1>. QED
  BY <1>1, <1>2, <1>3, PTL DEF Spec

-----------------------------------------------------------------------------
(* Fills are not forgotten *)

\* A step of a tick closes the row of an order that filled as a filled one.
LEMMA FillsStep ==
  ASSUME TypeOK, OrderFacts, [Next]_vars, pc \notin {"sleep", "down"},
         NEW p \in Pending, fill[p] > 0
  PROVE  row'[p] \in {"pending", "filled"}
<1>0. p \in Orders /\ row[p] = "pending"
  BY DEF Pending
<1>1. CASE UNCHANGED row
  BY <1>0, <1>1
<1>2. CASE GetOrders
  BY <1>0, <1>2 DEF GetOrders, Closed
<1>3. ASSUME NEW o \in Orders, CloseRow(o) PROVE row'[p] \in {"pending", "filled"}
  <2>1. CASE p = o
    BY <1>3, <2>1 DEF CloseRow, Closed, TypeOK
  <2>2. CASE p # o
    BY <1>0, <1>3, <2>2 DEF CloseRow, TypeOK
  <2>. QED
    BY <2>1, <2>2
<1>4. ASSUME NEW o \in Orders, CancelOrphan(o) PROVE row'[p] \in {"pending", "filled"}
  BY <1>1, <1>3, <1>4 DEF CancelOrphan, ledger
<1>5. ASSUME NEW s \in Sides, CancelQuote(s) PROVE row'[p] \in {"pending", "filled"}
  <2>1. Live(cur, s) \subseteq Orders
    BY DEF Live, TypeOK
  <2>. QED
    BY <1>1, <1>3, <1>5, <2>1 DEF CancelQuote, ledger
<1>6. ASSUME NEW s \in Sides, Place(s) PROVE row'[p] \in {"pending", "filled"}
  <2>1. PICK o \in Orders : Fresh(o) /\ \E r : row' = [row EXCEPT ![o] = r]
    BY <1>6 DEF Place
  <2>. QED
    BY <1>0, <2>1 DEF Fresh, TypeOK
<1>7. ASSUME NEW o \in Orders, ApplyFill(o) \/ Arrive(o) \/ Fill(o) \/ CancelledThere(o)
      PROVE  UNCHANGED row
  BY <1>7 DEF ApplyFill, Arrive, Fill, CancelledThere, ledger
<1>8. CASE TickPanics \/ Shutdown \/ Boot
  BY <1>8 DEF TickPanics, Shutdown, Boot
<1>9. ASSUME \/ TickKilled \/ TickStarts \/ GetOrdersFails \/ EndReconcile \/ EndApply \/ EndTick
             \/ Crash \/ EngageKillSwitch \/ ClearKillSwitch \/ UNCHANGED vars
             \/ \E t \in Tickers : Quote(t)
             \/ \E s \in Sides : NotPlaced(s)
      PROVE  UNCHANGED row
  BY <1>9 DEF TickKilled, TickStarts, StartTick, GetOrdersFails, EndReconcile, EndApply, EndTick,
     Crash, EngageKillSwitch, ClearKillSwitch, Quote, NotPlaced, ledger, vars
<1>. QED
  BY <1>1, <1>2, <1>4, <1>5, <1>6, <1>7, <1>8, <1>9 DEF Next, Tick

\* Inside a tick, a row that reserves contracts which filled gives them up to a
\* filled row only.
THEOREM TickKeepsFills == Spec => FillsKept
<1> DEFINE Kept == pc \notin {"sleep", "down"} =>
                     \A o \in Pending : fill[o] > 0 => row'[o] \in {"pending", "filled"}
<1>1. TypeOK /\ OrderFacts /\ [Next]_vars => [Kept]_vars
  BY FillsStep
<1>. QED
  BY <1>1, TypeInit, TypeStep, PTL DEF Spec, FillsKept

-----------------------------------------------------------------------------
(* The canary cap *)

\* What a row reserves of the cap.
Reserved(o) == IF row[o] = "pending" THEN Size ELSE IF row[o] = "filled" THEN rfill[o] ELSE 0

\* The orders are finitely many.
LEMMA OrdersFinite == IsFiniteSet(Orders)
<1> DEFINE N == MaxOrders["buy"] + MaxOrders["sell"]
           P == (Tickers \X Sides) \X (0..N)
           f == [o \in Orders |-> <<<<o[1], o[2]>>, o[3]>>]
<1>1. MaxOrders["buy"] \in Nat /\ MaxOrders["sell"] \in Nat
  BY QuotingAssumption DEF Sides
<1>2. IsFiniteSet(P)
  <2>1. IsFiniteSet(Sides)
    BY SmallSets DEF Sides
  <2>2. IsFiniteSet(Tickers \X Sides)
    BY <2>1, TickersAssumption, FS_Product
  <2>3. IsFiniteSet(0..N)
    BY <1>1, FS_Interval
  <2> QED
    BY <2>2, <2>3, FS_Product
<1>3. ASSUME NEW o \in Orders
      PROVE  /\ o[1] \in Tickers /\ o[2] \in Sides /\ o[3] \in 0..N
             /\ o = <<o[1], o[2], o[3]>>
  <2>1. PICK t \in Tickers, r \in Sides : \E n \in 1..MaxOrders[r] : o = <<t, r, n>>
    BY DEF Orders
  <2> QED
    BY <1>1, <2>1 DEF Sides
<1>4. f \in Injection(Orders, P)
  <2>1. f \in [Orders -> P]
    BY <1>3
  <2>2. ASSUME NEW o \in Orders, NEW p \in Orders, f[o] = f[p] PROVE o = p
    <3>1. o[1] = p[1] /\ o[2] = p[2] /\ o[3] = p[3]
      BY <2>2
    <3> QED
      BY <1>3, <3>1
  <2> QED
    BY <2>1, <2>2 DEF Injection, IsInjective
<1> QED
  BY <1>2, <1>4, FS_Injection

\* A row reserves no more than the size of a quote.
LEMMA ReservedType ==
  ASSUME TypeOK, NEW o \in Orders
  PROVE  Reserved(o) \in 0..Size
BY QuotingAssumption DEF TypeOK, Reserved

\* The cost that Fits compares with the cap is what the rows reserve.
LEMMA OpenCostIsReserved ==
  ASSUME TypeOK
  PROVE  OpenCost >= SumFunctionOnSet([o \in Orders |-> Reserved(o)], Orders)
<1> DEFINE R == [o \in Orders |-> Reserved(o)]
           F == {o \in Orders : row[o] = "filled"}
           E == Orders \ (Pending \cup F)
<1>1. /\ IsFiniteSet(Pending) /\ IsFiniteSet(F) /\ IsFiniteSet(E) /\ IsFiniteSet(Pending \cup F)
      /\ Pending \cap F = {} /\ (Pending \cup F) \cap E = {} /\ (Pending \cup F) \cup E = Orders
  <2>1. Pending \subseteq Orders /\ F \subseteq Orders /\ E \subseteq Orders
    BY DEF Pending
  <2> QED
    BY <2>1, OrdersFinite, FS_Subset, FS_Union DEF Pending
<1>2. \A o \in Orders : R[o] = Reserved(o) /\ R[o] \in Int
  BY ReservedType
<1>3. /\ \A o \in Pending : o \in Orders /\ R[o] = Size
      /\ \A o \in F : o \in Orders /\ R[o] = rfill[o] /\ rfill[o] \in Int
      /\ \A o \in E : o \in Orders /\ R[o] = 0
  BY <1>2 DEF Pending, Reserved, TypeOK
<1>4. Size \in Int
  BY QuotingAssumption
<1> HIDE DEF R, F, E
<1>5. SumFunctionOnSet(R, Orders) = SumFunctionOnSet(R, Pending \cup F) + SumFunctionOnSet(R, E)
  <2>1. \A o \in (Pending \cup F) \cup E : R[o] \in Int
    BY <1>1, <1>2
  <2>2. SumFunctionOnSet(R, (Pending \cup F) \cup E)
        = SumFunctionOnSet(R, Pending \cup F) + SumFunctionOnSet(R, E)
    BY <1>1, <2>1, SumUnion
  <2> QED
    BY <1>1, <2>2
<1>6. SumFunctionOnSet(R, Pending \cup F) = SumFunctionOnSet(R, Pending) + SumFunctionOnSet(R, F)
  <2>1. \A o \in Pending \cup F : R[o] \in Int
    BY <1>2, <1>3
  <2> QED
    BY <1>1, <2>1, SumUnion
<1>7. SumFunctionOnSet(R, Pending) <= Size * Cardinality(Pending)
  <2>1. \A o \in Pending : R[o] \in Int /\ R[o] <= Size
    BY <1>2, <1>3, <1>4
  <2> QED
    BY <1>1, <1>4, <2>1, SumBound
<1>8. SumFunctionOnSet(R, F) = SumFunctionOnSet(rfill, F)
  BY <1>1, <1>3, SumEqual
<1>9. SumFunctionOnSet(R, E) = 0
  BY <1>1, <1>3, SumZero
<1>10. /\ SumFunctionOnSet(R, Pending) \in Int /\ SumFunctionOnSet(rfill, F) \in Int
       /\ Size * Cardinality(Pending) \in Int
  <2>1. Cardinality(Pending) \in Nat
    BY <1>1, FS_CardinalityType
  <2>2. \A o \in Pending : R[o] \in Int
    BY <1>2, <1>3
  <2> QED
    BY <1>1, <1>3, <1>4, <2>1, <2>2, SumType
<1>11. Filled = SumFunctionOnSet(rfill, F)
  BY DEF Filled, F
<1>12. OpenCost >= SumFunctionOnSet(R, Orders)
  BY <1>5, <1>6, <1>7, <1>8, <1>9, <1>10, <1>11 DEF OpenCost
<1> QED
  BY <1>12 DEF R

\* The cost is a number.
LEMMA OpenCostType ==
  ASSUME TypeOK
  PROVE  OpenCost \in Int
<1>1. PICK F : F = {o \in Orders : row[o] = "filled"}
  OBVIOUS
<1>2. /\ F \subseteq Orders /\ Pending \subseteq Orders
      /\ \A o \in F : rfill[o] \in Int
  BY <1>1 DEF Pending, TypeOK
<1>3. IsFiniteSet(F) /\ IsFiniteSet(Pending)
  BY <1>2, OrdersFinite, FS_Subset
<1>4. SumFunctionOnSet(rfill, F) \in Int /\ Cardinality(Pending) \in Nat
  BY <1>2, <1>3, SumType, FS_CardinalityType
<1> QED
  BY <1>1, <1>4, QuotingAssumption DEF OpenCost, Filled

\* A managed order is known to the exchange, and pending while it rests.
LiveFacts ==
  \A o \in live : ord[o] \in {"resting", "executed", "canceled"}
                  /\ (ord[o] = "resting" => row[o] = "pending")

\* A filled row has the count of an order that is closed.
FilledTrue == \A o \in Orders : row[o] = "filled" => ~Open(o) /\ rfill[o] = fill[o]

\* What a step does to order o whose row it leaves alone.
Still(o) ==
  /\ row'[o] = row[o] /\ rfill'[o] = rfill[o]
  /\ Open(o)' => Open(o)
  /\ fill'[o] = fill[o] \/ (Open(o) /\ fill'[o] = fill[o] + 1)
  /\ o \in live' => o \in live /\ (ord'[o] = "resting" => ord[o] = "resting")
                    /\ ord'[o] \in {"resting", "executed", "canceled"}

\* What it does to an order whose row it closes.
Closes(o) ==
  /\ row'[o] \in {"filled", "cancelled", "cancelled_all", "error"}
  /\ row'[o] = "filled" => row[o] = "pending" /\ ~Open(o)' /\ rfill'[o] = fill[o]
  /\ row[o] = "pending" \/ rfill'[o] = rfill[o]
  /\ Open(o)' => Open(o)
  /\ fill'[o] = fill[o]
  /\ o \in live' => o \in live /\ ord'[o] \in {"executed", "canceled"}

\* What it does to an order it sends.
Sent(o) ==
  /\ row[o] = "none" /\ row'[o] \in {"pending", "cancelled"}
  /\ ord'[o] \in {"none", "resting", "flying"} /\ fill[o] = 0
  /\ rfill'[o] = rfill[o] /\ fill'[o] = fill[o]
  /\ o \in live' => o \in live \/ (ord'[o] = "resting" /\ row'[o] = "pending")

\* Every step leaves an order alone or closes its row, except the one it sends,
\* under the cap.
LEMMA EveryOrder ==
  ASSUME TypeOK, OrderFacts, TickFacts, LiveFacts, [Next]_vars
  PROVE  \/ \A o \in Orders : Still(o) \/ Closes(o)
         \/ \E s \in Sides, o \in Orders :
              /\ Place(s) /\ o[1] = cur /\ o[2] = s /\ Fits /\ Sent(o) /\ o \notin live
              /\ \A p \in Orders \ {o} : Still(p)
<1>0. live \subseteq Orders
  BY DEF TypeOK
<1>1. ASSUME UNCHANGED <<row, rfill, ord, fill>>, live' \subseteq live, NEW o \in Orders
      PROVE  Still(o)
  BY <1>1 DEF Still, Open, LiveFacts
<1>2. ASSUME CancelAll, NEW o \in Orders PROVE Still(o) \/ Closes(o)
  <2>1. CASE o \in live
    BY <1>2, <2>1, CancelAllEffect DEF Closes, Open
  <2>2. CASE o \notin live
    BY <1>2, <2>2, CancelAllEffect DEF Still, Open
  <2> QED
    BY <2>1, <2>2
<1>3. CASE TickPanics \/ Shutdown
  BY <1>2, <1>3 DEF TickPanics, Shutdown
<1>4. CASE \/ TickKilled \/ TickStarts \/ GetOrdersFails \/ EndReconcile \/ EndApply \/ EndTick
           \/ Crash \/ EngageKillSwitch \/ ClearKillSwitch \/ UNCHANGED vars
  BY <1>1, <1>4 DEF TickKilled, TickStarts, StartTick, GetOrdersFails, EndReconcile, EndApply,
     EndTick, Crash, EngageKillSwitch, ClearKillSwitch, ledger, exchange, vars
<1>5. ASSUME \/ \E o \in Orders : ApplyFill(o)
             \/ \E t \in Tickers : Quote(t)
             \/ \E s \in Sides : NotPlaced(s)
      PROVE  \A o \in Orders : Still(o)
  <2>1. UNCHANGED <<row, rfill, ord, fill, live>>
    BY <1>5 DEF ApplyFill, Quote, NotPlaced, ledger, exchange
  <2> QED
    BY <1>1, <2>1
<1>6. CASE GetOrders
  <2>1. UNCHANGED <<ord, fill, live>>
    BY <1>6 DEF GetOrders, exchange
  <2>2. ASSUME NEW o \in Orders PROVE Still(o) \/ Closes(o)
    <3>1. CASE o \in Resolved
      <4>1. row'[o] = Closed(fill[o]) /\ rfill'[o] = fill[o]
        BY <1>6, <3>1 DEF GetOrders
      <4>2. row[o] = "pending" /\ ord[o] \in {"executed", "canceled"}
        BY <3>1 DEF Resolved, Final, Pending
      <4> QED
        BY <2>1, <4>1, <4>2, Statuses DEF Closes, Open
    <3>2. CASE o \notin Resolved
      BY <1>6, <2>1, <3>2 DEF GetOrders, Still, Open, LiveFacts
    <3> QED
      BY <3>1, <3>2
  <2> QED
    BY <2>2
<1>7. ASSUME NEW o \in Orders, ord[o] = "resting", ord' = [ord EXCEPT ![o] = "canceled"],
             row[o] = "pending", CloseRow(o), UNCHANGED fill, live' \subseteq live,
             NEW p \in Orders
      PROVE  Still(p) \/ Closes(p)
  <2>1. CASE p = o
    <3>1. row'[p] = Closed(fill[p]) /\ rfill'[p] = fill[p] /\ ord'[p] = "canceled" /\ row[p] = "pending"
      BY <1>7, <2>1 DEF CloseRow, TypeOK
    <3> QED
      BY <1>7, <3>1, Statuses DEF Closes, Open
  <2>2. CASE p # o
    <3>1. row'[p] = row[p] /\ rfill'[p] = rfill[p] /\ ord'[p] = ord[p] /\ fill'[p] = fill[p]
      BY <1>7, <2>2 DEF CloseRow, TypeOK
    <3> QED
      BY <1>7, <3>1 DEF Still, Open, LiveFacts
  <2> QED
    BY <2>1, <2>2
<1>8. ASSUME NEW o \in Orders, ord[o] = "resting", ord' = [ord EXCEPT ![o] = "canceled"],
             UNCHANGED <<row, rfill, fill, live>>, NEW p \in Orders
      PROVE  Still(p)
  <2>1. ord'[p] = ord[p] \/ (ord[p] = "resting" /\ ord'[p] = "canceled")
    BY <1>8 DEF TypeOK
  <2> QED
    BY <1>8, <2>1 DEF Still, Open, LiveFacts
<1>9. ASSUME NEW o \in Orders, CancelOrphan(o), NEW p \in Orders PROVE Still(p) \/ Closes(p)
  <2>1. UNCHANGED <<fill, live>>
    BY <1>9 DEF CancelOrphan
  <2>2. CASE ord[o] = "resting" /\ ord' = [ord EXCEPT ![o] = "canceled"] /\ CloseRow(o)
             /\ row[o] = "pending"
    BY <1>7, <2>1, <2>2
  <2>3. CASE ord[o] = "resting" /\ ord' = [ord EXCEPT ![o] = "canceled"] /\ UNCHANGED ledger
    BY <1>8, <2>1, <2>3 DEF ledger
  <2>4. CASE UNCHANGED <<ledger, ord>>
    BY <1>1, <2>1, <2>4 DEF ledger
  <2> QED
    BY <1>9, <2>2, <2>3, <2>4 DEF CancelOrphan
<1>10. ASSUME NEW s \in Sides, CancelQuote(s), NEW p \in Orders PROVE Still(p) \/ Closes(p)
  <2>1. PICK o \in Live(cur, s) :
          /\ live' = live \ {o}
          /\ \/ ord[o] = "resting" /\ ord' = [ord EXCEPT ![o] = "canceled"] /\ CloseRow(o)
             \/ UNCHANGED <<ledger, ord>>
    BY <1>10 DEF CancelQuote
  <2>2. UNCHANGED fill /\ o \in live /\ o \in Orders
    BY <1>0, <1>10 DEF CancelQuote, Live
  <2>3. CASE ord[o] = "resting" /\ ord' = [ord EXCEPT ![o] = "canceled"] /\ CloseRow(o)
    BY <1>7, <2>1, <2>2, <2>3 DEF LiveFacts
  <2>4. CASE UNCHANGED <<ledger, ord>>
    BY <1>1, <2>1, <2>2, <2>4 DEF ledger
  <2> QED
    BY <2>1, <2>3, <2>4
<1>11. ASSUME NEW s \in Sides, Place(s)
       PROVE  \E o \in Orders : /\ Place(s) /\ o[1] = cur /\ o[2] = s /\ Fits /\ Sent(o)
                                /\ o \notin live /\ \A p \in Orders \ {o} : Still(p)
  <2>1. PICK o \in Orders :
          /\ o[1] = cur /\ o[2] = s /\ Fresh(o)
          /\ \/ /\ row' = [row EXCEPT ![o] = "pending"]
                /\ ord' = [ord EXCEPT ![o] = "resting"]
                /\ live' = live \union {o}
             \/ /\ row' = [row EXCEPT ![o] = "cancelled"]
                /\ ord' \in {ord, [ord EXCEPT ![o] = "resting"]}
                /\ live' = live
             \/ /\ row' = [row EXCEPT ![o] = "pending"]
                /\ ord' = [ord EXCEPT ![o] = "flying"]
                /\ live' = live
    BY <1>11 DEF Place
  <2>2. /\ Fits /\ UNCHANGED <<rfill, fill>> /\ o \notin live
    BY <1>11, <2>1 DEF Place, Live
  <2>3. row[o] = "none" /\ ord[o] = "none" /\ fill[o] = 0
    BY <2>1 DEF Fresh, OrderFacts
  <2>4. /\ row'[o] \in {"pending", "cancelled"} /\ ord'[o] \in {"none", "resting", "flying"}
        /\ o \in live' => ord'[o] = "resting" /\ row'[o] = "pending"
    BY <2>1, <2>2, <2>3 DEF TypeOK
  <2>5. \A p \in Orders \ {o} : row'[p] = row[p] /\ ord'[p] = ord[p] /\ (p \in live' => p \in live)
    BY <2>1 DEF TypeOK
  <2>6. \A p \in Orders \ {o} : Still(p)
    BY <2>2, <2>5 DEF Still, Open, LiveFacts
  <2> QED
    BY <1>11, <2>1, <2>2, <2>3, <2>4, <2>6 DEF Sent
<1>12. ASSUME NEW o \in Orders, Arrive(o) \/ Fill(o) \/ CancelledThere(o), NEW p \in Orders
       PROVE  Still(p)
  <2>1. UNCHANGED <<row, rfill, live>>
    BY <1>12 DEF Arrive, Fill, CancelledThere, ledger
  <2>2. CASE p # o
    <3>1. ord'[p] = ord[p] /\ fill'[p] = fill[p]
      BY <1>12, <2>2 DEF Arrive, Fill, CancelledThere, TypeOK
    <3> QED
      BY <2>1, <3>1 DEF Still, Open, LiveFacts
  <2>3. CASE p = o
    <3>1. /\ fill'[o] = fill[o] \/ fill'[o] = fill[o] + 1
          /\ \/ ord[o] = "flying" /\ ord'[o] \in {"resting", "lost"}
             \/ ord[o] = "resting" /\ ord'[o] \in {"resting", "executed", "canceled"}
      BY <1>12 DEF Arrive, Fill, CancelledThere, TypeOK
    <3> QED
      BY <2>1, <2>3, <3>1 DEF Still, Open, LiveFacts
  <2> QED
    BY <2>2, <2>3
<1>13. ASSUME Boot, NEW o \in Orders PROVE Still(o) \/ Closes(o)
  <2>1. PICK aged \in SUBSET {p \in Pending : ord[p] # "flying"} :
          /\ row' = [p \in Orders |-> IF p \in aged THEN BootStatus(p) ELSE row[p]]
          /\ rfill' = [p \in Orders |-> IF p \in aged /\ BootStatus(p) = "filled"
                                          THEN Size ELSE rfill[p]]
    BY <1>13 DEF Boot
  <2>2. UNCHANGED <<ord, fill, live>>
    BY <1>13 DEF Boot, exchange
  <2>3. BootStatus(o) \in {"filled", "cancelled", "error"} /\ (BootStatus(o) = "filled" => ord[o] = "executed")
    BY Zenon DEF BootStatus
  <2>4. CASE o \notin aged
    BY <2>1, <2>2, <2>4 DEF Still, Open, LiveFacts
  <2>5. CASE o \in aged
    <3>1. /\ row[o] = "pending" /\ row'[o] = BootStatus(o)
          /\ rfill'[o] = IF BootStatus(o) = "filled" THEN Size ELSE rfill[o]
      BY <2>1, <2>5 DEF Pending
    <3>4. o \notin live
      BY <1>13 DEF Boot, TickFacts
    <3>2. CASE BootStatus(o) = "filled"
      BY <2>2, <2>3, <3>1, <3>2 DEF Closes, Open, OrderFacts, LiveFacts
    <3>3. CASE BootStatus(o) # "filled"
      BY <2>2, <2>3, <3>1, <3>3, <3>4 DEF Closes, Open
    <3> QED
      BY <3>2, <3>3, <3>4
  <2> QED
    BY <2>4, <2>5
<1> QED
  BY <1>3, <1>4, <1>5, <1>6, <1>9, <1>10, <1>11, <1>12, <1>13 DEF Next, Tick

\* Every step keeps LiveFacts.
LEMMA LiveFactsStep ==
  ASSUME TypeOK, OrderFacts, TickFacts, LiveFacts, [Next]_vars
  PROVE  LiveFacts'
<1>1. ASSUME NEW o \in live', o \in Orders, Still(o) \/ Closes(o) \/ (Sent(o) /\ o \notin live)
      PROVE  ord'[o] \in {"resting", "executed", "canceled"} /\ (ord'[o] = "resting" => row'[o] = "pending")
  BY <1>1 DEF Still, Closes, Sent, LiveFacts
<1>2. \A o \in Orders : Still(o) \/ Closes(o) \/ (Sent(o) /\ o \notin live)
  BY EveryOrder
<1>3. live' \subseteq Orders
  BY TypeStep DEF TypeOK
<1> QED
  BY <1>1, <1>2, <1>3 DEF LiveFacts

\* Every step keeps FilledTrue.
LEMMA FilledTrueStep ==
  ASSUME TypeOK, OrderFacts, TickFacts, LiveFacts, FilledTrue, [Next]_vars
  PROVE  FilledTrue'
<1>1. \A o \in Orders : Still(o) \/ Closes(o) \/ Sent(o)
  BY EveryOrder
<1>2. ASSUME NEW o \in Orders, row'[o] = "filled" PROVE ~Open(o)' /\ rfill'[o] = fill'[o]
  BY <1>1, <1>2 DEF Still, Closes, Sent, FilledTrue
<1> QED
  BY <1>2 DEF FilledTrue

\* What the rows reserve fits the canary cap.
Capped == SumFunctionOnSet([o \in Orders |-> Reserved(o)], Orders) <= MaxOpen

\* No step but the one that sends an order reserves more, and that one fits.
LEMMA CappedStep ==
  ASSUME TypeOK, TypeOK', OrderFacts, TickFacts, LiveFacts, Capped, [Next]_vars
  PROVE  Capped'
<1>0. PICK h, g : h = [o \in Orders |-> Reserved(o)] /\ g = [o \in Orders |-> Reserved(o)']
  OBVIOUS
<1>1. /\ \A o \in Orders : h[o] = Reserved(o) /\ h[o] \in 0..Size
      /\ \A o \in Orders : g[o] = Reserved(o)' /\ g[o] \in 0..Size
  <2>1. \A o \in Orders : Reserved(o) \in 0..Size
    BY ReservedType
  <2>2. \A o \in Orders : Reserved(o)' \in 0..Size
    BY QuotingAssumption DEF TypeOK, Reserved
  <2> QED
    BY <1>0, <2>1, <2>2
<1>2. Size \in Nat /\ MaxOpen \in Nat /\ IsFiniteSet(Orders)
  BY QuotingAssumption, OrdersFinite
<1>3. SumFunctionOnSet(h, Orders) <= MaxOpen
  BY <1>0 DEF Capped
<1>4. SumFunctionOnSet(h, Orders) \in Int /\ SumFunctionOnSet(g, Orders) \in Int
  <2>1. \A o \in Orders : h[o] \in Int /\ g[o] \in Int
    BY <1>1, <1>2
  <2> QED
    BY <1>2, <2>1, SumType
<1>5. ASSUME NEW o \in Orders, Still(o) \/ Closes(o) PROVE g[o] <= h[o]
  <2>1. CASE Still(o)
    BY <1>1, <1>2, <2>1 DEF Still, Reserved
  <2>2. CASE Closes(o) /\ row'[o] = "filled"
    <3>1. g[o] \in 0..Size /\ h[o] = Size
      BY <1>1, <2>2 DEF Closes, Reserved
    <3> QED
      BY <1>2, <3>1
  <2>3. CASE Closes(o) /\ row'[o] # "filled"
    <3>1. g[o] = 0 /\ h[o] \in 0..Size
      BY <1>1, <2>3 DEF Closes, Reserved
    <3> QED
      BY <1>2, <3>1
  <2> QED
    BY <1>5, <2>1, <2>2, <2>3
<1>6. CASE \A o \in Orders : Still(o) \/ Closes(o)
  <2>1. \A o \in Orders : g[o] \in Int /\ h[o] \in Int /\ g[o] <= h[o]
    BY <1>1, <1>2, <1>5, <1>6
  <2>2. SumFunctionOnSet(g, Orders) <= SumFunctionOnSet(h, Orders)
    BY <1>2, <2>1, SumLeq
  <2> QED
    BY <1>0, <1>2, <1>3, <1>4, <2>2 DEF Capped
<1>7. ASSUME NEW o \in Orders, Fits, \A p \in Orders \ {o} : Still(p)
      PROVE  SumFunctionOnSet(g, Orders) <= MaxOpen
  <2>1. PICK k : k = [h EXCEPT ![o] = Size]
    OBVIOUS
  <2>2. /\ \A p \in Orders \ {o} : k[p] = h[p]
        /\ k[o] = Size
        /\ \A p \in Orders : k[p] \in Int /\ h[p] \in Int /\ g[p] \in Int
    BY <1>0, <1>1, <1>2, <2>1
  <2>3. \A p \in Orders : g[p] <= k[p]
    BY <1>1, <1>2, <1>5, <1>7, <2>2
  <2>4. SumFunctionOnSet(g, Orders) <= SumFunctionOnSet(k, Orders)
    BY <1>2, <2>2, <2>3, SumLeq
  <2>5. SumFunctionOnSet(k, Orders) = SumFunctionOnSet(h, Orders) - h[o] + k[o]
    BY <1>2, <2>2, SumOneChanged
  <2>6. SumFunctionOnSet(h, Orders) <= OpenCost
    BY <1>0, <1>4, OpenCostIsReserved
  <2>7. h[o] \in Nat /\ SumFunctionOnSet(k, Orders) \in Int
    BY <1>1, <1>2, <2>2, SumType
  <2>8. OpenCost \in Int
    BY OpenCostType
  <2> QED
    BY <1>2, <1>4, <1>7, <2>2, <2>4, <2>5, <2>6, <2>7, <2>8 DEF Fits
<1>8. SumFunctionOnSet(g, Orders) <= MaxOpen
  <2>1. CASE \A o \in Orders : Still(o) \/ Closes(o)
    BY <1>0, <1>6, <2>1 DEF Capped
  <2> QED
    BY <1>7, <2>1, EveryOrder
<1> QED
  BY <1>0, <1>8 DEF Capped

\* The inductive invariant behind CanaryCap.
CanaryInv == TypeOK /\ OrderFacts /\ TickFacts /\ LiveFacts /\ FilledTrue /\ Capped

\* The invariant behind CanaryCap holds at the start.
LEMMA CanaryInit == Init => CanaryInv
<1> SUFFICES ASSUME Init PROVE CanaryInv
  OBVIOUS
<1>1. TypeOK /\ OrderFacts /\ TickFacts
  BY TypeInit, QuoteInit
<1>2. LiveFacts /\ FilledTrue
  BY DEF Init, LiveFacts, FilledTrue
<1>3. PICK h : h = [o \in Orders |-> Reserved(o)]
  OBVIOUS
<1>4. \A o \in Orders : h[o] = 0
  BY <1>3 DEF Init, Reserved
<1>5. SumFunctionOnSet(h, Orders) = 0
  BY <1>4, OrdersFinite, SumZero
<1> QED
  BY <1>1, <1>2, <1>3, <1>5, QuotingAssumption DEF CanaryInv, Capped

\* What may still be lost on the rows that count is at most what they reserve.
LEMMA CanaryHolds == CanaryInv => CanaryCap
<1> SUFFICES ASSUME CanaryInv PROVE CanaryCap
  OBVIOUS
<1>0. TypeOK /\ FilledTrue /\ OrderFacts /\ Capped /\ Size \in Nat
  BY QuotingAssumption DEF CanaryInv
<1>1. PICK h, a, S : /\ h = [o \in Orders |-> Reserved(o)]
                     /\ a = [o \in Orders |-> AtRisk(o)]
                     /\ S = {o \in Orders : row[o] \in {"pending", "filled"}}
  OBVIOUS
<1>2. \A o \in S : /\ a[o] = AtRisk(o) /\ h[o] = Reserved(o)
                   /\ row[o] \in {"pending", "filled"} /\ o \in Orders
                   /\ fill[o] \in 0..Size
  BY <1>0, <1>1 DEF TypeOK
<1>3. \A o \in S : a[o] \in Nat /\ h[o] \in Nat /\ a[o] <= h[o]
  <2> TAKE o \in S
  <2>1. CASE row[o] = "pending"
    <3>1. h[o] = Size
      BY <1>2, <2>1 DEF Reserved
    <3>2. a[o] \in 0..Size
      BY <1>0, <1>2 DEF AtRisk
    <3> QED
      BY <1>0, <3>1, <3>2
  <2>2. CASE row[o] = "filled"
    <3>1. ~Open(o) /\ rfill[o] = fill[o]
      BY <1>0, <1>2, <2>2 DEF FilledTrue
    <3>2. a[o] = fill[o] /\ h[o] = fill[o]
      BY <1>2, <2>2, <3>1 DEF AtRisk, Reserved
    <3> QED
      BY <1>0, <1>2, <3>2
  <2> QED
    BY <1>2, <2>1, <2>2
<1>4. \A o \in Orders : h[o] \in Nat
  BY <1>0, <1>1, ReservedType
<1>5. S \subseteq Orders /\ IsFiniteSet(S) /\ IsFiniteSet(Orders)
  BY <1>1, OrdersFinite, FS_Subset
<1>6. SumFunctionOnSet(a, S) <= SumFunctionOnSet(h, S)
  <2>1. \A o \in S : a[o] \in Int /\ h[o] \in Int /\ a[o] <= h[o]
    BY <1>3
  <2> QED
    BY <1>5, <2>1, SumLeq
<1>7. SumFunctionOnSet(h, S) <= SumFunctionOnSet(h, Orders)
  BY <1>4, <1>5, SumNat
<1>8. SumFunctionOnSet(h, Orders) <= MaxOpen
  BY <1>0, <1>1 DEF Capped
<1>9. /\ SumFunctionOnSet(a, S) \in Int /\ SumFunctionOnSet(h, S) \in Int
      /\ SumFunctionOnSet(h, Orders) \in Int /\ MaxOpen \in Int
  <2>1. (\A o \in S : a[o] \in Int /\ h[o] \in Int) /\ \A o \in Orders : h[o] \in Int
    BY <1>3, <1>4
  <2> QED
    BY <1>5, <2>1, SumType, QuotingAssumption
<1>10. SumFunctionOnSet(a, S) <= MaxOpen
  BY <1>6, <1>7, <1>8, <1>9
<1> QED
  BY <1>1, <1>10 DEF CanaryCap

\* What is really at risk at the exchange never exceeds the canary cap, whatever
\* answers are lost, requests repeated and whenever the process stops.
THEOREM CanaryCapHolds == Spec => []CanaryCap
<1>1. CanaryInv /\ [Next]_vars => CanaryInv'
  BY TypeStep, TickStep, LiveFactsStep, FilledTrueStep, CappedStep DEF CanaryInv
<1> QED
  BY <1>1, CanaryInit, CanaryHolds, PTL DEF Spec

-----------------------------------------------------------------------------
(* The inventory cap *)

\* The inventory of t, as a position on side s.
InvOf(t, s) == IF s = "buy" THEN inv[t] ELSE 0 - inv[t]

\* What each order applied adds to it.
AppliedOf(t, s) ==
  [o \in Orders |-> IF o \in applied /\ o[1] = t THEN (IF o[2] = s THEN rfill[o] ELSE -rfill[o]) ELSE 0]

\* The inventory is the sum of the orders applied, which are closed.
BookInv ==
  /\ \A o \in applied : ~Open(o) /\ rfill[o] = fill[o] /\ row[o] \notin {"none", "pending"}
  /\ \A t \in Tickers, s \in Sides : InvOf(t, s) = SumFunctionOnSet(AppliedOf(t, s), Orders)

\* Orders of the ticker being synchronised that filled after the fills were applied.
Late(s) == {o \in Orders : o[1] = cur /\ o[2] = s /\ row[o] = "filled" /\ o \notin applied}

\* Every fill known was applied when a ticker is visited; while a quote is wanted,
\* the inventory is below the cap and only the quote it replaces filled since.
FreshInv ==
  pc = "quote" =>
    /\ \A o \in Orders : o[1] \in round /\ row[o] = "filled" => o \in applied
    /\ \A s \in Sides : want[s] = "new" =>
         /\ InvOf(cur, s) < MaxInventory
         /\ \A o \in Late(s) : fill[o] < Size /\ \A p \in Late(s) : p = o
         /\ Live(cur, s) # {} => Late(s) = {}

\* The most the position of t can grow to on side s, order by order.
WorstOf(t, s) ==
  [o \in Orders |-> IF o[1] = t THEN (IF o[2] = s THEN AtRisk(o) ELSE -fill[o]) ELSE 0]

\* It fits the cap.
Bounded ==
  \A t \in Tickers, s \in Sides :
    SumFunctionOnSet(WorstOf(t, s), Orders) <= MaxInventory + 2 * (Size - 1)

\* A step of the book applies one fill, forgets all, or does nothing.
LEMMA BookSteps ==
  ASSUME [Next]_vars
  PROVE  \/ UNCHANGED <<applied, inv>>
         \/ applied' = {} /\ inv' = [t \in Tickers |-> 0]
         \/ \E o \in Orders : ApplyFill(o)
<1>1. CASE TickPanics \/ TickKilled \/ TickStarts \/ GetOrders \/ GetOrdersFails
           \/ EndReconcile \/ EndApply \/ EndTick
  BY <1>1 DEF TickPanics, TickKilled, TickStarts, StartTick, GetOrders, GetOrdersFails,
     EndReconcile, EndApply, EndTick, book
<1>2. CASE \E o \in Orders : CancelOrphan(o) \/ Arrive(o) \/ Fill(o) \/ CancelledThere(o)
  BY <1>2 DEF CancelOrphan, Arrive, Fill, CancelledThere, book
<1>3. CASE \E t \in Tickers : Quote(t)
  BY <1>3 DEF Quote, book
<1>4. CASE \E s \in Sides : CancelQuote(s) \/ Place(s) \/ NotPlaced(s)
  BY <1>4 DEF CancelQuote, Place, NotPlaced, book
<1>5. CASE Crash \/ Shutdown
  BY <1>5 DEF Crash, Shutdown, Forget
<1>6. CASE Boot \/ EngageKillSwitch \/ ClearKillSwitch \/ UNCHANGED vars
  BY <1>6 DEF Boot, EngageKillSwitch, ClearKillSwitch, vars, book
<1> QED
  BY <1>1, <1>2, <1>3, <1>4, <1>5, <1>6 DEF Next, Tick

\* Every step keeps the inventory equal to the orders applied.
LEMMA BookStep ==
  ASSUME TypeOK, TypeOK', OrderFacts, TickFacts, LiveFacts, FilledTrue, BookInv, [Next]_vars
  PROVE  BookInv'
<1>0. applied \subseteq Orders /\ inv \in [Tickers -> Int] /\ \A o \in Orders : rfill[o] \in Int
  BY QuotingAssumption DEF TypeOK
<1>1. \A o \in Orders : Still(o) \/ Closes(o) \/ Sent(o)
  BY EveryOrder
<1>2. \A o \in applied : /\ ~Open(o)' /\ rfill'[o] = rfill[o] /\ fill'[o] = fill[o]
                         /\ row'[o] \notin {"none", "pending"}
  <2> TAKE o \in applied
  <2>1. ~Open(o) /\ row[o] \notin {"none", "pending"} /\ o \in Orders
    BY <1>0 DEF BookInv
  <2> QED
    BY <1>1, <2>1 DEF Still, Closes, Sent
<1>3. ASSUME UNCHANGED <<applied, inv>> PROVE BookInv'
  <2>1. \A o \in applied' : ~Open(o)' /\ rfill'[o] = fill'[o] /\ row'[o] \notin {"none", "pending"}
    BY <1>2, <1>3 DEF BookInv
  <2>2. ASSUME NEW t \in Tickers, NEW s \in Sides
        PROVE  InvOf(t, s)' = SumFunctionOnSet(AppliedOf(t, s)', Orders)
    <3>1. AppliedOf(t, s)' = AppliedOf(t, s)
      BY <1>2, <1>3 DEF AppliedOf
    <3>2. InvOf(t, s)' = InvOf(t, s)
      BY <1>3 DEF InvOf
    <3> QED
      BY <3>1, <3>2 DEF BookInv
  <2> QED
    BY <2>1, <2>2 DEF BookInv
<1>4. ASSUME applied' = {}, inv' = [t \in Tickers |-> 0] PROVE BookInv'
  <2>1. ASSUME NEW t \in Tickers, NEW s \in Sides
        PROVE  InvOf(t, s)' = SumFunctionOnSet(AppliedOf(t, s)', Orders)
    <3>1. PICK h : h = AppliedOf(t, s)'
      OBVIOUS
    <3>2. \A o \in Orders : h[o] = 0
      BY <1>4, <3>1 DEF AppliedOf
    <3>3. SumFunctionOnSet(h, Orders) = 0
      BY <3>2, OrdersFinite, SumZero
    <3>4. InvOf(t, s)' = 0
      <4>1. inv'[t] = 0
        BY <1>4
      <4> QED
        BY <4>1 DEF InvOf
    <3> QED
      BY <3>1, <3>3, <3>4
  <2> QED
    BY <1>4, <2>1 DEF BookInv
<1>5. ASSUME NEW o \in Orders, ApplyFill(o) PROVE BookInv'
  <2>1. /\ UNCHANGED <<row, rfill, ord, fill>> /\ row[o] = "filled" /\ o \notin applied
        /\ applied' = applied \union {o}
        /\ inv' = [inv EXCEPT ![o[1]] = IF o[2] = "buy" THEN @ + rfill[o] ELSE @ - rfill[o]]
    BY <1>5 DEF ApplyFill, Unapplied, ledger, exchange
  <2>2. \A p \in applied' : ~Open(p)' /\ rfill'[p] = fill'[p] /\ row'[p] \notin {"none", "pending"}
    BY <2>1 DEF BookInv, FilledTrue, Open
  <2>3. ASSUME NEW t \in Tickers, NEW s \in Sides
        PROVE  InvOf(t, s)' = SumFunctionOnSet(AppliedOf(t, s)', Orders)
    <3>1. PICK h, g : h = AppliedOf(t, s) /\ g = AppliedOf(t, s)'
      OBVIOUS
    <3>2. /\ \A p \in Orders : h[p] \in Int /\ g[p] \in Int
          /\ \A p \in Orders \ {o} : g[p] = h[p]
          /\ h[o] = 0
          /\ g[o] = IF o[1] = t THEN (IF o[2] = s THEN rfill[o] ELSE -rfill[o]) ELSE 0
      BY <1>0, <2>1, <3>1 DEF AppliedOf
    <3>3. SumFunctionOnSet(g, Orders) = SumFunctionOnSet(h, Orders) - h[o] + g[o]
      BY <3>2, OrdersFinite, SumOneChanged
    <3>4. InvOf(t, s) = SumFunctionOnSet(h, Orders) /\ InvOf(t, s) \in Int
      BY <1>0, <3>1 DEF BookInv, InvOf
    <3>5. InvOf(t, s)' = InvOf(t, s) + g[o]
      <4>1. CASE o[1] = t
        BY <1>0, <2>1, <3>2, <4>1, OrderParts DEF InvOf, Sides
      <4>2. CASE o[1] # t
        BY <1>0, <2>1, <3>2, <4>2, OrderParts DEF InvOf
      <4> QED
        BY <4>1, <4>2
    <3> QED
      BY <3>1, <3>2, <3>3, <3>4, <3>5
  <2> QED
    BY <2>2, <2>3 DEF BookInv
<1> QED
  BY <1>3, <1>4, <1>5, BookSteps

\* A new quote is only wanted below the cap.
LEMMA PlanBelowCap ==
  ASSUME TypeOK, NEW t \in Tickers, NEW w \in Plans(t), NEW s \in Sides, w[s] = "new"
  PROVE  InvOf(t, s) < MaxInventory
<1>1. allowed /\ t \notin corrupted
  BY PlanType
<1>2. s \notin Withdrawn(t)
  BY <1>1 DEF Plans
<1>3. inv[t] \in Int /\ MaxInventory \in Int
  BY QuotingAssumption DEF TypeOK
<1>4. CASE s = "buy"
  BY <1>2, <1>3, <1>4 DEF Withdrawn, InvOf
<1>5. CASE s = "sell"
  BY <1>2, <1>3, <1>5 DEF Withdrawn, InvOf
<1> QED
  BY <1>4, <1>5 DEF Sides

\* Every step keeps FreshInv: inside a tick, no fill is applied and nothing else closes a row.
LEMMA FreshStep ==
  ASSUME TypeOK, OrderFacts, TickFacts, LiveFacts, ManagedFacts, FilledTrue, FreshInv, [Next]_vars
  PROVE  FreshInv'
<1>0. live \subseteq Orders
  BY DEF TypeOK
<1>1. ASSUME pc' # "quote" PROVE FreshInv'
  BY <1>1 DEF FreshInv
<1>2. ASSUME UNCHANGED <<row, applied, inv, live, pc, round, cur>>,
             \A s \in Sides : want'[s] = "new" => want[s] = "new",
             \A o \in Orders : fill'[o] = fill[o] \/ Open(o)
      PROVE  FreshInv'
  <2>1. ASSUME pc = "quote" PROVE \A o \in Orders : o[1] \in round' /\ row'[o] = "filled" => o \in applied'
    BY <1>2, <2>1 DEF FreshInv
  <2>2. ASSUME NEW s \in Sides PROVE Late(s)' = Late(s) /\ Live(cur, s)' = Live(cur, s)
    BY <1>2 DEF Late, Live
  <2>3. ASSUME pc = "quote", NEW s \in Sides, want'[s] = "new"
        PROVE  /\ InvOf(cur, s)' < MaxInventory
               /\ \A o \in Late(s)' : fill'[o] < Size /\ \A p \in Late(s)' : p = o
               /\ Live(cur, s)' # {} => Late(s)' = {}
    <3>1. /\ InvOf(cur, s) < MaxInventory
          /\ \A o \in Late(s) : fill[o] < Size /\ \A p \in Late(s) : p = o
          /\ Live(cur, s) # {} => Late(s) = {}
      BY <1>2, <2>3 DEF FreshInv
    <3>2. InvOf(cur, s)' = InvOf(cur, s)
      BY <1>2 DEF InvOf
    <3>3. \A o \in Late(s) : fill'[o] = fill[o]
      BY <1>2 DEF Late, FilledTrue
    <3> QED
      BY <2>2, <3>1, <3>2, <3>3
  <2> QED
    BY <1>2, <2>1, <2>3 DEF FreshInv
<1>3. CASE TickPanics \/ TickKilled \/ TickStarts \/ GetOrders \/ GetOrdersFails
           \/ EndReconcile \/ EndTick \/ Crash \/ Shutdown \/ Boot
  BY <1>1, <1>3 DEF TickPanics, TickKilled, TickStarts, StartTick, GetOrders, GetOrdersFails,
     EndReconcile, EndTick, Crash, Shutdown, Boot, Forget
<1>4. ASSUME NEW o \in Orders, CancelOrphan(o) \/ ApplyFill(o) PROVE FreshInv'
  BY <1>1, <1>4 DEF CancelOrphan, ApplyFill
<1>5. CASE EndApply
  <2>1. /\ pc = "apply" /\ UNCHANGED <<row, applied, want>>
        /\ \A o \in Orders : row[o] = "filled" => o \in applied
    BY <1>5 DEF EndApply, Unapplied, ledger, book
  <2>2. \A s \in Sides : want'[s] # "new"
    BY <2>1 DEF TickFacts, Settled
  <2> QED
    BY <2>1, <2>2 DEF FreshInv
<1>6. ASSUME NEW t \in Tickers, Quote(t) PROVE FreshInv'
  <2>1. /\ pc = "quote" /\ t \in round /\ round' = round \ {t} /\ cur' = t /\ want' \in Plans(t)
        /\ UNCHANGED <<row, fill, applied, inv, live>>
    BY <1>6 DEF Quote, ledger, exchange, book
  <2>2. \A o \in Orders : o[1] \in round /\ row[o] = "filled" => o \in applied
    BY <2>1 DEF FreshInv
  <2>3. \A s \in Sides : Late(s)' = {}
    BY <2>1, <2>2 DEF Late
  <2>4. ASSUME NEW s \in Sides, want'[s] = "new" PROVE InvOf(cur, s)' < MaxInventory
    <3>1. InvOf(t, s) < MaxInventory
      BY <2>1, <2>4, PlanBelowCap
    <3>2. InvOf(cur, s)' = InvOf(t, s)
      BY <2>1 DEF InvOf
    <3> QED
      BY <3>1, <3>2
  <2> QED
    BY <2>1, <2>2, <2>3, <2>4 DEF FreshInv
<1>7. ASSUME NEW s \in Sides, CancelQuote(s) PROVE FreshInv'
  <2>1. PICK o \in Live(cur, s) :
          /\ live' = live \ {o}
          /\ \/ /\ ord[o] = "resting" /\ row' = [row EXCEPT ![o] = Closed(fill[o])]
                /\ want' = [want EXCEPT ![s] = IF @ = "none" THEN "keep" ELSE @]
             \/ /\ want' = [want EXCEPT ![s] = "keep"]
                /\ row' = row
    BY <1>7 DEF CancelQuote, CloseRow, ledger
  <2>2. /\ o \in Orders /\ o[1] = cur /\ o[2] = s /\ o \in live
        /\ pc = "quote" /\ UNCHANGED <<fill, applied, inv, pc, round, cur>> /\ want[s] # "keep"
    BY <1>0, <1>7 DEF CancelQuote, Turn, Live, book
  <2>3. cur \notin round
    BY <2>2 DEF TickFacts, Settled
  <2>4. \A p \in Orders \ {o} : row'[p] = row[p]
    BY <2>1, <2>2 DEF TypeOK
  <2>5. \A p \in Orders : p[1] \in round' /\ row'[p] = "filled" => p \in applied'
    BY <2>2, <2>3, <2>4 DEF FreshInv
  <2>6. ASSUME NEW r \in Sides, want'[r] = "new"
        PROVE  /\ InvOf(cur, r)' < MaxInventory
               /\ \A p \in Late(r)' : fill'[p] < Size /\ \A q \in Late(r)' : q = p
               /\ Live(cur, r)' # {} => Late(r)' = {}
    <3>1. want[r] = "new" /\ (r = s => ord[o] = "resting")
      BY <2>1, <2>6 DEF TypeOK
    <3>2. /\ InvOf(cur, r) < MaxInventory
          /\ \A p \in Late(r) : fill[p] < Size /\ \A q \in Late(r) : q = p
          /\ Live(cur, r) # {} => Late(r) = {}
      BY <2>2, <3>1 DEF FreshInv
    <3>3. InvOf(cur, r)' = InvOf(cur, r)
      BY <2>2 DEF InvOf
    <3>4. CASE r = s
      <4>1. Late(r) = {} /\ Late(r)' \subseteq {o}
        BY <2>1, <2>2, <2>4, <3>2, <3>4 DEF Late
      <4>2. fill[o] < Size
        BY <2>2, <3>1, <3>4 DEF OrderFacts
      <4>3. Live(cur, r)' = {}
        BY <2>1, <2>2, <3>4 DEF Live, ManagedFacts
      <4> QED
        BY <2>2, <3>2, <3>3, <4>1, <4>2, <4>3
    <3>5. CASE r # s
      <4>1. Late(r)' = Late(r)
        BY <2>2, <2>4, <3>5 DEF Late
      <4>2. Live(cur, r)' = Live(cur, r)
        BY <2>1, <2>2, <3>5 DEF Live
      <4> QED
        BY <2>2, <3>2, <3>3, <4>1, <4>2
    <3> QED
      BY <3>4, <3>5
  <2> QED
    BY <2>5, <2>6 DEF FreshInv
<1>8. ASSUME NEW s \in Sides, Place(s) PROVE FreshInv'
  <2>1. PICK o \in Orders :
          /\ o[1] = cur /\ o[2] = s
          /\ live' \subseteq live \union {o}
          /\ \E st \in {"pending", "cancelled"} : row' = [row EXCEPT ![o] = st]
          /\ live \subseteq live'
    BY <1>8 DEF Place
  <2>2. /\ pc = "quote" /\ UNCHANGED <<fill, applied, inv, pc, round, cur>> /\ want[s] # "keep"
        /\ want' = [want EXCEPT ![s] = "keep"]
    BY <1>8 DEF Place, Turn, book
  <2>3. /\ \A p \in Orders \ {o} : row'[p] = row[p]
        /\ row'[o] # "filled"
        /\ \A r \in Sides : want'[r] = "new" => r # s /\ want[r] = "new"
    BY <2>1, <2>2 DEF TypeOK
  <2>4. \A p \in Orders : p[1] \in round' /\ row'[p] = "filled" => p \in applied'
    BY <2>2, <2>3 DEF FreshInv
  <2>5. ASSUME NEW r \in Sides, want'[r] = "new"
        PROVE  /\ InvOf(cur, r)' < MaxInventory
               /\ \A p \in Late(r)' : fill'[p] < Size /\ \A q \in Late(r)' : q = p
               /\ Live(cur, r)' # {} => Late(r)' = {}
    <3>1. /\ InvOf(cur, r) < MaxInventory
          /\ \A p \in Late(r) : fill[p] < Size /\ \A q \in Late(r) : q = p
          /\ Live(cur, r) # {} => Late(r) = {}
      BY <2>2, <2>3, <2>5 DEF FreshInv
    <3>2. InvOf(cur, r)' = InvOf(cur, r)
      BY <2>2 DEF InvOf
    <3>3. Late(r)' = Late(r) /\ Live(cur, r)' = Live(cur, r)
      BY <2>1, <2>2, <2>3, <2>5 DEF Late, Live
    <3> QED
      BY <2>2, <3>1, <3>2, <3>3
  <2> QED
    BY <2>4, <2>5 DEF FreshInv
<1>9. ASSUME NEW s \in Sides, NotPlaced(s) PROVE FreshInv'
  <2>1. /\ UNCHANGED <<row, fill, applied, inv, live, pc, round, cur>>
        /\ want' = [want EXCEPT ![s] = "keep"]
    BY <1>9 DEF NotPlaced, ledger, exchange, book
  <2> QED
    BY <1>2, <2>1 DEF TypeOK
<1>10. ASSUME NEW o \in Orders, Arrive(o) \/ Fill(o) \/ CancelledThere(o) PROVE FreshInv'
  <2>1. UNCHANGED <<row, applied, inv, live, pc, round, cur, want>>
    BY <1>10 DEF Arrive, Fill, CancelledThere, ledger, book, tick
  <2>2. \A p \in Orders : fill'[p] = fill[p] \/ Open(p)
    BY <1>10 DEF Arrive, Fill, CancelledThere, Open, TypeOK
  <2> QED
    BY <1>2, <2>1, <2>2
<1>11. CASE EngageKillSwitch \/ ClearKillSwitch \/ UNCHANGED vars
  <2>1. UNCHANGED <<row, fill, applied, inv, live, pc, round, cur, want>>
    BY <1>11 DEF EngageKillSwitch, ClearKillSwitch, vars, ledger, exchange, book, tick
  <2> QED
    BY <1>2, <2>1
<1> QED
  BY <1>3, <1>4, <1>5, <1>6, <1>7, <1>8, <1>9, <1>10, <1>11 DEF Next, Tick

\* What each order may add, before and after a step.
LEMMA WorstTypes ==
  ASSUME TypeOK, NEW t, NEW s
  PROVE  \A o \in Orders :
           /\ WorstOf(t, s)[o] \in Int /\ AtRisk(o) \in 0..Size /\ fill[o] \in 0..AtRisk(o)
           /\ WorstOf(t, s)[o] = IF o[1] = t THEN (IF o[2] = s THEN AtRisk(o) ELSE -fill[o]) ELSE 0
<1> TAKE o \in Orders
<1>1. fill[o] \in 0..Size /\ Size \in Nat
  BY QuotingAssumption DEF TypeOK
<1>2. AtRisk(o) \in 0..Size /\ fill[o] \in 0..AtRisk(o)
  BY <1>1 DEF AtRisk
<1>3. WorstOf(t, s)[o] = IF o[1] = t THEN (IF o[2] = s THEN AtRisk(o) ELSE -fill[o]) ELSE 0
  BY DEF WorstOf
<1> QED
  BY <1>1, <1>2, <1>3

\* The same, after the step.
LEMMA WorstTypesThen ==
  ASSUME TypeOK', NEW t, NEW s
  PROVE  \A o \in Orders :
           /\ WorstOf(t, s)'[o] \in Int /\ AtRisk(o)' \in 0..Size /\ fill'[o] \in 0..AtRisk(o)'
           /\ WorstOf(t, s)'[o] = IF o[1] = t THEN (IF o[2] = s THEN AtRisk(o)' ELSE -fill'[o]) ELSE 0
<1> TAKE o \in Orders
<1>1. fill'[o] \in 0..Size /\ Size \in Nat
  BY QuotingAssumption DEF TypeOK
<1>2. AtRisk(o)' \in 0..Size /\ fill'[o] \in 0..AtRisk(o)'
  BY <1>1 DEF AtRisk
<1>3. WorstOf(t, s)'[o] = IF o[1] = t THEN (IF o[2] = s THEN AtRisk(o)' ELSE -fill'[o]) ELSE 0
  BY DEF WorstOf
<1> QED
  BY <1>1, <1>2, <1>3

\* Only an order sent risks more than before, and nothing that filled is undone.
LEMMA RiskFalls ==
  ASSUME TypeOK, TypeOK', NEW o \in Orders, Still(o) \/ Closes(o)
  PROVE  AtRisk(o)' <= AtRisk(o) /\ fill[o] <= fill'[o]
<1>1. fill[o] \in Int /\ fill'[o] \in Int /\ Size \in Int /\ fill[o] <= Size /\ fill'[o] <= Size
  BY QuotingAssumption DEF TypeOK
<1>2. fill'[o] = fill[o] \/ (Open(o) /\ fill'[o] = fill[o] + 1)
  BY DEF Still, Closes
<1>3. Open(o)' => Open(o)
  BY DEF Still, Closes
<1> QED
  BY <1>1, <1>2, <1>3 DEF AtRisk

\* A fill that is lost stays lost.
LEMMA LostStays ==
  ASSUME TypeOK, OrderFacts, TickFacts, LiveFacts, [Next]_vars, Lost' = {}
  PROVE  Lost = {}
<1> SUFFICES ASSUME NEW o \in Lost PROVE FALSE
  OBVIOUS
<1>1. o \in Orders /\ fill[o] > 0 /\ row[o] \notin {"pending", "filled"} /\ fill[o] \in Int
  BY DEF Lost, TypeOK
<1>2. Still(o) \/ Closes(o) \/ Sent(o)
  BY <1>1, EveryOrder
<1>3. fill'[o] > 0 /\ row'[o] \notin {"pending", "filled"}
  BY <1>1, <1>2 DEF Still, Closes, Sent
<1> QED
  BY <1>1, <1>3 DEF Lost

\* The order sent fits the cap with all that may fill on its side.
LEMMA QuoteFits ==
  ASSUME TypeOK, TypeOK', OrderFacts, ManagedFacts, UnmanagedKnown, FilledTrue, BookInv, FreshInv,
         Lost = {}, NEW s \in Sides, NEW o \in Orders, Place(s), o[1] = cur, o[2] = s, Sent(o),
         \A p \in Orders \ {o} : Still(p), NEW t, t = cur
  PROVE  SumFunctionOnSet(WorstOf(t, s)', Orders) <= MaxInventory + 2 * (Size - 1)
<1>0. /\ Size \in Nat \ {0} /\ MaxInventory \in Nat /\ IsFiniteSet(Orders) /\ cur \in Tickers
  BY QuotingAssumption, OrdersFinite DEF TypeOK
<1>1. pc = "quote" /\ want[s] = "new" /\ Live(cur, s) = {}
  BY DEF Place, Turn
<1>2. /\ InvOf(cur, s) < MaxInventory
      /\ \A p \in Late(s) : fill[p] < Size /\ \A q \in Late(s) : q = p
  BY <1>1 DEF FreshInv
<1>3. ASSUME NEW p \in Orders \ {o}, p[1] = cur, p[2] = s
      PROVE  /\ AtRisk(p) = fill[p]
             /\ fill[p] = 0 \/ p \in Late(s) \/ (p \in applied /\ rfill[p] = fill[p])
  <2>1. p \notin live
    BY <1>1, <1>3 DEF Live
  <2>2. p \notin Unmanaged
    BY <1>1, <1>3 DEF UnmanagedKnown
  <2>3. ~Open(p) /\ ~(row[p] = "pending" /\ fill[p] > 0)
    BY <2>1, <2>2 DEF Unmanaged
  <2>4. fill[p] > 0 => row[p] = "filled"
    BY <2>3 DEF Lost
  <2>5. fill[p] \in Nat
    BY DEF TypeOK
  <2>6. row[p] = "filled" => p \in Late(s) \/ p \in applied
    BY <1>3 DEF Late
  <2>7. p \in applied => rfill[p] = fill[p]
    BY DEF BookInv
  <2> QED
    BY <2>3, <2>4, <2>5, <2>6, <2>7 DEF AtRisk
<1>4. PICK b, w : b = AppliedOf(cur, s) /\ w = WorstOf(t, s)'
  OBVIOUS
<1>5. SumFunctionOnSet(b, Orders) <= MaxInventory - 1 /\ SumFunctionOnSet(b, Orders) \in Int
  <2>1. InvOf(cur, s) = SumFunctionOnSet(b, Orders)
    BY <1>0, <1>4 DEF BookInv
  <2>2. InvOf(cur, s) \in Int
    BY <1>0 DEF InvOf, TypeOK
  <2> QED
    BY <1>0, <1>2, <2>1, <2>2
<1>6. /\ \A p \in Orders : b[p] = IF p \in applied /\ p[1] = cur
                                    THEN (IF p[2] = s THEN rfill[p] ELSE -rfill[p]) ELSE 0
      /\ \A p \in Orders : b[p] \in Int
  <2>1. \A p \in Orders : rfill[p] \in Int
    BY <1>0 DEF TypeOK
  <2> QED
    BY <1>4, <2>1 DEF AppliedOf
<1>7. /\ \A p \in Orders : /\ w[p] = IF p[1] = cur THEN (IF p[2] = s THEN AtRisk(p)' ELSE -fill'[p]) ELSE 0
                           /\ w[p] \in Int /\ AtRisk(p)' \in 0..Size
  BY <1>4, WorstTypesThen
<1>8. o \notin applied /\ b[o] = 0
  BY <1>6 DEF BookInv, Sent
<1>9. ASSUME NEW p \in Orders \ {o}, p \notin Late(s) PROVE w[p] <= b[p]
  <2>1. AtRisk(p)' <= AtRisk(p) /\ fill[p] <= fill'[p] /\ fill[p] \in Nat /\ fill'[p] \in Nat
    BY RiskFalls DEF TypeOK
  <2>2. CASE p[1] = cur /\ p[2] = s
    <3>1. w[p] <= fill[p]
      BY <1>0, <1>3, <1>7, <2>1, <2>2
    <3>2. fill[p] = 0 \/ (p \in applied /\ rfill[p] = fill[p])
      BY <1>3, <1>9, <2>2
    <3>3. b[p] = IF p \in applied THEN rfill[p] ELSE 0
      BY <1>6, <2>2
    <3>4. p \in applied => rfill[p] = fill[p]
      BY DEF BookInv
    <3> QED
      BY <1>7, <2>1, <3>1, <3>2, <3>3, <3>4
  <2>3. CASE p[1] = cur /\ p[2] # s
    <3>1. w[p] = -fill'[p]
      BY <1>7, <2>3
    <3>2. b[p] = IF p \in applied THEN -rfill[p] ELSE 0
      BY <1>6, <2>3
    <3>3. p \in applied => rfill[p] = fill[p]
      BY DEF BookInv
    <3>4. CASE p \in applied
      BY <2>1, <3>1, <3>2, <3>3, <3>4
    <3>5. CASE p \notin applied
      BY <2>1, <3>1, <3>2, <3>5
    <3> QED
      BY <3>4, <3>5
  <2>4. CASE p[1] # cur
    BY <1>6, <1>7, <2>4
  <2> QED
    BY <2>2, <2>3, <2>4
<1>10. ASSUME NEW p \in Orders \ {o}, p \in Late(s) PROVE w[p] <= Size - 1 /\ b[p] = 0
  <2>1. p[1] = cur /\ p[2] = s /\ p \notin applied /\ fill[p] < Size
    BY <1>2, <1>10 DEF Late
  <2>2. AtRisk(p)' <= AtRisk(p) /\ AtRisk(p) = fill[p] /\ fill[p] \in Nat
    BY <1>3, <2>1, RiskFalls DEF TypeOK
  <2> QED
    BY <1>0, <1>6, <1>7, <2>1, <2>2
<1>11. PICK c : c = [b EXCEPT ![o] = Size]
  OBVIOUS
<1>12. /\ \A p \in Orders \ {o} : c[p] = b[p]
       /\ c[o] = Size /\ w[o] <= c[o]
       /\ \A p \in Orders : c[p] \in Int
  <2>1. DOMAIN b = Orders
    BY <1>4 DEF AppliedOf
  <2>2. c = [p \in Orders |-> IF p = o THEN Size ELSE b[p]]
    BY <1>4, <1>11 DEF AppliedOf
  <2>3. w[o] <= Size
    BY <1>0, <1>7
  <2> QED
    BY <1>0, <1>6, <2>2, <2>3
<1>13. SumFunctionOnSet(c, Orders) = SumFunctionOnSet(b, Orders) - b[o] + c[o]
  BY <1>0, <1>6, <1>12, SumOneChanged
<1>14. CASE \A p \in Orders \ {o} : p \notin Late(s)
  <2>1. \A p \in Orders : w[p] \in Int /\ c[p] \in Int /\ w[p] <= c[p]
    BY <1>7, <1>9, <1>12, <1>14
  <2>2. SumFunctionOnSet(w, Orders) <= SumFunctionOnSet(c, Orders)
    BY <1>0, <2>1, SumLeq
  <2>3. SumFunctionOnSet(w, Orders) \in Int
    BY <1>0, <2>1, SumType
  <2> QED
    BY <1>0, <1>4, <1>5, <1>8, <1>12, <1>13, <2>2, <2>3
<1>15. ASSUME NEW q \in Orders \ {o}, q \in Late(s)
       PROVE  SumFunctionOnSet(w, Orders) <= MaxInventory + 2 * (Size - 1)
  <2>1. PICK d : d = [p \in Orders |-> IF p = q THEN Size - 1 ELSE c[p]]
    OBVIOUS
  <2>2. /\ \A p \in Orders \ {q} : d[p] = c[p]
        /\ d[q] = Size - 1 /\ c[q] = 0
        /\ \A p \in Orders : d[p] \in Int
    BY <1>0, <1>10, <1>12, <1>15, <2>1
  <2>3. SumFunctionOnSet(d, Orders) = SumFunctionOnSet(c, Orders) - c[q] + d[q]
    BY <1>0, <1>12, <2>2, SumOneChanged
  <2>4. \A p \in Orders : w[p] \in Int /\ d[p] \in Int /\ w[p] <= d[p]
    <3> TAKE p \in Orders
    <3>1. CASE p = q
      BY <1>7, <1>10, <1>15, <2>2, <3>1
    <3>2. CASE p = o
      BY <1>7, <1>12, <1>15, <2>2, <3>2
    <3>3. CASE p # o /\ p # q
      <4>1. p \notin Late(s)
        BY <1>2, <1>15, <3>3
      <4> QED
        BY <1>7, <1>9, <1>12, <2>2, <3>3, <4>1
    <3> QED
      BY <3>1, <3>2, <3>3
  <2>5. SumFunctionOnSet(w, Orders) <= SumFunctionOnSet(d, Orders)
    BY <1>0, <2>4, SumLeq
  <2>6. SumFunctionOnSet(w, Orders) \in Int /\ SumFunctionOnSet(d, Orders) \in Int
    BY <1>0, <2>4, SumType
  <2> QED
    BY <1>0, <1>5, <1>8, <1>12, <1>13, <2>2, <2>3, <2>5, <2>6
<1> QED
  BY <1>4, <1>14, <1>15

\* Every step keeps the worst position within the cap, as long as no fill was lost.
LEMMA BoundedStep ==
  ASSUME TypeOK, TypeOK', OrderFacts, TickFacts, LiveFacts, ManagedFacts, UnmanagedKnown, FilledTrue,
         BookInv, FreshInv, Lost = {}, Bounded, [Next]_vars
  PROVE  Bounded'
<1>0. IsFiniteSet(Orders) /\ Size \in Nat /\ MaxInventory \in Nat
  BY OrdersFinite, QuotingAssumption
<1>1. ASSUME NEW t \in Tickers, NEW r \in Sides,
             \A o \in Orders : WorstOf(t, r)'[o] <= WorstOf(t, r)[o]
      PROVE  SumFunctionOnSet(WorstOf(t, r)', Orders) <= MaxInventory + 2 * (Size - 1)
  <2>1. PICK h, g : h = WorstOf(t, r) /\ g = WorstOf(t, r)'
    OBVIOUS
  <2>2. \A o \in Orders : g[o] \in Int /\ h[o] \in Int /\ g[o] <= h[o]
    BY <1>1, <2>1, WorstTypes, WorstTypesThen
  <2>3. SumFunctionOnSet(g, Orders) <= SumFunctionOnSet(h, Orders)
    BY <1>0, <2>2, SumLeq
  <2>4. SumFunctionOnSet(g, Orders) \in Int /\ SumFunctionOnSet(h, Orders) \in Int
    BY <1>0, <2>2, SumType
  <2>5. SumFunctionOnSet(h, Orders) <= MaxInventory + 2 * (Size - 1)
    BY <2>1 DEF Bounded
  <2> QED
    BY <1>0, <2>1, <2>3, <2>4, <2>5
<1>2. ASSUME NEW t \in Tickers, NEW r \in Sides, NEW o \in Orders, Still(o) \/ Closes(o)
      PROVE  WorstOf(t, r)'[o] <= WorstOf(t, r)[o]
  <2>1. /\ AtRisk(o)' <= AtRisk(o) /\ fill[o] <= fill'[o]
        /\ fill[o] \in Int /\ fill'[o] \in Int /\ AtRisk(o) \in Int /\ AtRisk(o)' \in Int
    <3>1. fill[o] \in Int /\ fill'[o] \in Int
      BY DEF TypeOK
    <3> QED
      BY <1>2, <3>1, RiskFalls, WorstTypes, WorstTypesThen
  <2>2. WorstOf(t, r)[o] = IF o[1] = t THEN (IF o[2] = r THEN AtRisk(o) ELSE -fill[o]) ELSE 0
    BY WorstTypes
  <2>3. WorstOf(t, r)'[o] = IF o[1] = t THEN (IF o[2] = r THEN AtRisk(o)' ELSE -fill'[o]) ELSE 0
    BY WorstTypesThen
  <2> QED
    BY <2>1, <2>2, <2>3
<1>3. ASSUME \A o \in Orders : Still(o) \/ Closes(o), NEW t \in Tickers, NEW r \in Sides
      PROVE  SumFunctionOnSet(WorstOf(t, r)', Orders) <= MaxInventory + 2 * (Size - 1)
  BY <1>1, <1>2, <1>3
<1>4. ASSUME NEW s \in Sides, NEW o \in Orders, Place(s), o[1] = cur, o[2] = s, Sent(o),
             \A p \in Orders \ {o} : Still(p), NEW t \in Tickers, NEW r \in Sides
      PROVE  SumFunctionOnSet(WorstOf(t, r)', Orders) <= MaxInventory + 2 * (Size - 1)
  <2>1. CASE t = cur /\ r = s
    BY <1>4, <2>1, QuoteFits
  <2>2. CASE ~(t = cur /\ r = s)
    <3>1. fill[o] = 0 /\ fill'[o] = 0
      BY <1>4 DEF Sent
    <3>2. WorstOf(t, r)'[o] <= WorstOf(t, r)[o]
      BY <1>4, <2>2, <3>1, WorstTypes, WorstTypesThen
    <3> QED
      BY <1>1, <1>2, <1>4, <3>2
  <2> QED
    BY <2>1, <2>2
<1>5. ASSUME NEW t \in Tickers, NEW r \in Sides
      PROVE  SumFunctionOnSet(WorstOf(t, r)', Orders) <= MaxInventory + 2 * (Size - 1)
  BY <1>3, <1>4, EveryOrder
<1> QED
  BY <1>5 DEF Bounded

\* The inductive invariant behind InventoryCap.
InventoryInv ==
  /\ TypeOK /\ OrderFacts /\ TickFacts /\ LiveFacts /\ FilledTrue
  /\ QuoteInv /\ BookInv /\ FreshInv
  /\ Lost = {} => Bounded

\* The invariant behind InventoryCap holds at the start.
LEMMA InventoryInit == Init => InventoryInv
<1> SUFFICES ASSUME Init PROVE InventoryInv
  OBVIOUS
<1>1. TypeOK /\ OrderFacts /\ TickFacts /\ QuoteInv
  BY TypeInit, QuoteInit
<1>2. LiveFacts /\ FilledTrue /\ FreshInv
  BY DEF Init, LiveFacts, FilledTrue, FreshInv
<1>3. ASSUME NEW t \in Tickers, NEW s \in Sides
      PROVE  SumFunctionOnSet(AppliedOf(t, s), Orders) = 0 /\ SumFunctionOnSet(WorstOf(t, s), Orders) = 0
  <2>1. PICK h, g : h = AppliedOf(t, s) /\ g = WorstOf(t, s)
    OBVIOUS
  <2>2. \A o \in Orders : h[o] = 0 /\ g[o] = 0
    BY <1>1, <2>1, WorstTypes DEF Init, AppliedOf, AtRisk, Open
  <2> QED
    BY <2>1, <2>2, OrdersFinite, SumZero
<1>4. BookInv
  <2>1. \A t \in Tickers, s \in Sides : InvOf(t, s) = 0
    BY DEF Init, InvOf
  <2> QED
    BY <1>3, <2>1 DEF BookInv, Init
<1>5. Bounded
  <2>1. 0 <= MaxInventory + 2 * (Size - 1)
    BY QuotingAssumption
  <2> QED
    BY <1>3, <2>1 DEF Bounded
<1> QED
  BY <1>1, <1>2, <1>4, <1>5 DEF InventoryInv

\* The position is at most the worst it can grow to, on either side.
LEMMA InventoryHolds == InventoryInv => InventoryCap
<1> SUFFICES ASSUME InventoryInv, Lost = {}, NEW t \in Tickers
             PROVE  /\ Position(t) <= MaxInventory + 2 * (Size - 1)
                    /\ -Position(t) <= MaxInventory + 2 * (Size - 1)
  BY DEF InventoryCap
<1>0. TypeOK /\ Bounded /\ IsFiniteSet(Orders) /\ Size \in Nat /\ MaxInventory \in Nat
  BY OrdersFinite, QuotingAssumption DEF InventoryInv
<1>1. PICK f, S, u, v, x, y, z :
        /\ f = [o \in Orders |-> IF o[2] = "buy" THEN fill[o] ELSE -fill[o]]
        /\ S = {o \in Orders : o[1] = t}
        /\ u = WorstOf(t, "buy") /\ v = WorstOf(t, "sell")
        /\ x = [o \in Orders |-> IF o[1] = t THEN f[o] ELSE 0]
        /\ y = [o \in Orders |-> 0 - x[o]]
        /\ z = [o \in Orders |-> 0]
  OBVIOUS
<1>2. \A o \in Orders : fill[o] \in Nat /\ f[o] \in Int /\ x[o] \in Int /\ y[o] \in Int /\ y[o] = 0 - x[o]
  <2>1. \A o \in Orders : fill[o] \in Nat
    BY <1>0 DEF TypeOK
  <2>2. \A o \in Orders : f[o] \in Int
    BY <1>1, <2>1
  <2> QED
    BY <1>1, <2>1, <2>2
<1>3. Position(t) = SumFunctionOnSet(x, Orders)
  <2>1. /\ S \subseteq Orders /\ \A o \in S : f[o] \in Int /\ x[o] = f[o]
        /\ \A o \in Orders \ S : x[o] = 0
    BY <1>1, <1>2
  <2>2. SumFunctionOnSet(x, Orders) = SumFunctionOnSet(f, S)
    BY <1>0, <2>1, SumFilter
  <2> QED
    BY <1>1, <2>2 DEF Position
<1>4. SumFunctionOnSet(x, Orders) + SumFunctionOnSet(y, Orders) = 0
  <2>1. \A o \in Orders : x[o] \in Int /\ y[o] \in Int /\ z[o] = x[o] + y[o] /\ z[o] = 0
    BY <1>1, <1>2
  <2>2. SumFunctionOnSet(z, Orders) = SumFunctionOnSet(x, Orders) + SumFunctionOnSet(y, Orders)
    BY <1>0, <2>1, SumPlus
  <2>3. SumFunctionOnSet(z, Orders) = 0
    BY <1>0, <2>1, SumZero
  <2> QED
    BY <2>2, <2>3
<1>5. \A o \in Orders : /\ u[o] \in Int /\ v[o] \in Int /\ x[o] <= u[o] /\ y[o] <= v[o]
  <2> TAKE o \in Orders
  <2>1. /\ u[o] \in Int /\ v[o] \in Int /\ AtRisk(o) \in Int /\ fill[o] <= AtRisk(o) /\ fill[o] \in Nat
        /\ u[o] = IF o[1] = t THEN (IF o[2] = "buy" THEN AtRisk(o) ELSE -fill[o]) ELSE 0
        /\ v[o] = IF o[1] = t THEN (IF o[2] = "sell" THEN AtRisk(o) ELSE -fill[o]) ELSE 0
    BY <1>0, <1>1, WorstTypes
  <2>2. x[o] = IF o[1] = t THEN (IF o[2] = "buy" THEN fill[o] ELSE -fill[o]) ELSE 0
    BY <1>1
  <2>3. o[2] = "buy" \/ o[2] = "sell"
    BY OrderParts DEF Sides
  <2>4. CASE o[1] = t /\ o[2] = "buy"
    BY <1>2, <2>1, <2>2, <2>4
  <2>5. CASE o[1] = t /\ o[2] = "sell"
    BY <1>2, <2>1, <2>2, <2>5
  <2>6. CASE o[1] # t
    BY <1>2, <2>1, <2>2, <2>6
  <2> QED
    BY <2>3, <2>4, <2>5, <2>6
<1>6. /\ SumFunctionOnSet(x, Orders) <= SumFunctionOnSet(u, Orders)
      /\ SumFunctionOnSet(y, Orders) <= SumFunctionOnSet(v, Orders)
  BY <1>0, <1>2, <1>5, SumLeq
<1>7. /\ SumFunctionOnSet(u, Orders) <= MaxInventory + 2 * (Size - 1)
      /\ SumFunctionOnSet(v, Orders) <= MaxInventory + 2 * (Size - 1)
  BY <1>0, <1>1 DEF Bounded, Sides
<1>8. /\ SumFunctionOnSet(u, Orders) \in Int /\ SumFunctionOnSet(v, Orders) \in Int
      /\ SumFunctionOnSet(x, Orders) \in Int /\ SumFunctionOnSet(y, Orders) \in Int
  BY <1>0, <1>2, <1>5, SumType
<1> QED
  BY <1>0, <1>3, <1>4, <1>6, <1>7, <1>8

\* If get_orders always answers, the position of every market stays within the
\* inventory cap and what one replacement can add, until a fill is lost.
THEOREM InventoryCapHolds == ASSUME Answered PROVE Spec => []InventoryCap
<1>1. InventoryInv /\ [Next]_vars => InventoryInv'
  <2> SUFFICES ASSUME InventoryInv, [Next]_vars PROVE InventoryInv'
    OBVIOUS
  <2>1. TypeOK' /\ OrderFacts' /\ TickFacts' /\ LiveFacts' /\ FilledTrue' /\ QuoteInv'
    BY Answered, TypeStep, TickStep, LiveFactsStep, FilledTrueStep, QuoteStep DEF InventoryInv
  <2>2. BookInv' /\ FreshInv'
    BY <2>1, BookStep, FreshStep DEF InventoryInv, QuoteInv
  <2>3. ASSUME Lost' = {} PROVE Bounded'
    <3>1. Lost = {}
      BY <2>3, LostStays DEF InventoryInv
    <3> QED
      BY <2>1, <3>1, BoundedStep DEF InventoryInv, QuoteInv
  <2> QED
    BY <2>1, <2>2, <2>3 DEF InventoryInv
<1> QED
  BY <1>1, InventoryInit, InventoryHolds, PTL DEF Spec
=============================================================================
