------------------------- MODULE RestExecutorProofs -------------------------
(***************************************************************************)
(* Proofs about RestExecutor, for every set of legs, every number of       *)
(* contracts, attempts, retries and crashes.                               *)
(***************************************************************************)
EXTENDS RestExecutor, TLAPS

-----------------------------------------------------------------------------
(* Facts about the operators the actions are built from *)

\* Written yields statuses, whatever update is lost.
LEMMA WrittenType ==
  ASSUME NEW r \in [Keys -> RowStatus], NEW W, NEW s \in RowStatus, NEW lost
  PROVE  Written(r, W, s, lost) \in [Keys -> RowStatus]
BY DEF Written

\* The statuses a row may get.
LEMMA Statuses == {"pending", "filled", "settled", "cancelled"} \subseteq RowStatus
BY DEF RowStatus

\* Written leaves a row alone or gives it the status s.
LEMMA WrittenEffect ==
  ASSUME NEW r \in [Keys -> RowStatus], NEW W, NEW s, NEW lost, NEW k \in Keys
  PROVE  /\ Written(r, W, s, lost)[k] \in {r[k], s}
         /\ k \notin W => Written(r, W, s, lost)[k] = r[k]
BY DEF Written

PausesType ==
  ksDb \in BOOLEAN /\ execPaused \in BOOLEAN /\ botPaused \in BOOLEAN /\ unheard \in BOOLEAN

\* Halt keeps the pauses Boolean.
LEMMA HaltType ==
  ASSUME TypeOK, NEW stop \in BOOLEAN, NEW trip \in BOOLEAN, Halt(stop, trip)
  PROVE  PausesType'
BY DEF TypeOK, Halt, EngageKillSwitch, PausesType

\* Continue moves to one of three places and keeps its sets of legs.
LEMMA ContinueType ==
  ASSUME TypeOK, NEW A \in SUBSET Legs, NEW B \in SUBSET Legs, Continue(A, B)
  PROVE  /\ pc' \in {"idle", "resolve", "rollback"}
         /\ todo' \in SUBSET Legs /\ seen' \in SUBSET Legs
         /\ recent' \in Nat
BY DEF TypeOK, Continue

\* LegDone goes on with the rollback or ends it.
LEMMA LegDoneType ==
  ASSUME TypeOK, NEW allClosed \in BOOLEAN, NEW unsaved \in BOOLEAN, LegDone(allClosed, unsaved)
  PROVE  /\ todo' \in SUBSET Legs /\ tries' = 0 /\ sell' = "none" /\ clean' \in BOOLEAN
         /\ pc' \in {"idle", "rollback"}
         /\ PausesType'
<1>1. Halt(unsaved \/ (todo = {leg} /\ ~allClosed), todo = {leg} /\ recent >= Threshold)
  BY DEF LegDone, Trips
<1>2. PausesType'
  BY <1>1, HaltType, BoundsAssumption DEF TypeOK
<1>3. /\ todo' \in SUBSET Legs /\ tries' = 0 /\ sell' = "none"
      /\ pc' \in {"idle", "rollback"}
  BY DEF LegDone, TypeOK
<1>4. clean' \in BOOLEAN
  BY DEF LegDone
<1>. QED
  BY <1>2, <1>3, <1>4

-----------------------------------------------------------------------------
(* Type correctness *)

\* The first state has the types.
LEMMA TypeInit == Init => TypeOK
<1> SUFFICES ASSUME Init PROVE TypeOK
  OBVIOUS
<1>1. row \in [Keys -> RowStatus]
  BY DEF Init, RowStatus
<1>2. ord \in [Keys -> OrderStatus] /\ sold \in [Keys -> Nat]
  BY DEF Init, OrderStatus
<1>3. pos \in [Tickers -> Int]
  BY DEF Init
<1>4. res \in [Legs -> LegState \union {"none"}]
  BY DEF Init
<1>5. leg \in Legs /\ todo \subseteq Legs /\ seen \subseteq Legs
  BY LegsAssumption DEF Init
<1>6. att \in 0..MaxAttempts /\ tries \in 0..(MaxRetries - 1) /\ crashes \in 0..MaxCrashes
  BY BoundsAssumption DEF Init
<1>. QED
  BY <1>1, <1>2, <1>3, <1>4, <1>5, <1>6 DEF Init, TypeOK

\* What the operator may change keeps its type.
LEMMA PauseType ==
  ASSUME TypeOK, UNCHANGED <<row, exchange, att, pc, local, recent, execOn, crashes>>,
         PausesType', checked' \in BOOLEAN
  PROVE  TypeOK'
BY DEF TypeOK, exchange, local, PausesType

\* Every step keeps them.
LEMMA TypeStep == TypeOK /\ [Next]_vars => TypeOK'
<1> SUFFICES ASSUME TypeOK, [Next]_vars PROVE TypeOK'
  OBVIOUS
<1> USE LegsAssumption, BoundsAssumption
<1>1. CASE Execute
  <2>1. att + 1 \in Attempts
    BY <1>1 DEF Execute, Start, TypeOK, Attempts
  <2>2. row' \in [Keys -> RowStatus]
    BY <1>1, WrittenType DEF Execute, Start, TypeOK, RowStatus
  <2>3. ord' \in [Keys -> OrderStatus]
    BY <1>1 DEF Execute, Start, TypeOK, OrderStatus
  <2>4. res' \in [Legs -> LegState \union {"none"}]
    BY <1>1 DEF Execute, Start
  <2>5. pc' = "hard" /\ att' = att + 1
        /\ UNCHANGED <<pauses, sold, pos, sell, todo, tries,
                       clean, recent, process>>
        /\ leg' = HardLeg /\ said' = FALSE /\ seen' = {}
    BY <1>1 DEF Execute, Start
  <2>6. leg' \in Legs /\ said' \in BOOLEAN /\ seen' \subseteq Legs
    BY <2>5
  <2>7. /\ UNCHANGED <<ksDb, execPaused, botPaused, unheard, execOn, crashes, checked>>
        /\ UNCHANGED <<sold, pos, sell, todo, tries, clean, recent>>
    BY <2>5 DEF pauses, process
  <2>8. att' \in 0..MaxAttempts /\ att' \in Attempts /\ pc' = "hard"
    BY <2>1, <2>5 DEF Attempts
  <2>. QED
    BY <2>2, <2>3, <2>4, <2>6, <2>7, <2>8 DEF TypeOK
<1>2. CASE HardFills
  <2>1. row' \in [Keys -> RowStatus]
    <3>1. PICK lost : row' = Written(row, {Key(HardLeg)}, "filled", lost)
      BY <1>2 DEF HardFills
    <3>. QED
      BY <3>1, WrittenType, Statuses DEF TypeOK
  <2>2. PausesType'
    BY <1>2, HaltType DEF HardFills
  <2>3. ord' \in [Keys -> OrderStatus]
    BY <1>2 DEF HardFills, TypeOK, OrderStatus
  <2>4. res' \in [Legs -> LegState \union {"none"}]
    BY <1>2 DEF HardFills, TypeOK, LegState
  <2>. QED
    BY <1>2, <2>1, <2>2, <2>3, <2>4 DEF HardFills, TypeOK, process, pauses, PausesType
<1>3. CASE HardKilled
  <2>1. row' \in [Keys -> RowStatus]
    <3>1. PICK lost : row' = Written(row, {att} \X Legs, "cancelled", lost)
      BY <1>3 DEF HardKilled
    <3>. QED
      BY <3>1, WrittenType, Statuses DEF TypeOK
  <2>2. /\ UNCHANGED exchange /\ UNCHANGED local /\ UNCHANGED pauses /\ UNCHANGED process
        /\ UNCHANGED <<att, recent>> /\ pc' = "idle"
    BY <1>3 DEF HardKilled
  <2>3. PausesType'
    BY <2>2 DEF TypeOK, pauses, PausesType
  <2>. QED
    BY <2>1, <2>2, <2>3 DEF TypeOK, exchange, local, process, pauses, PausesType
<1>4. CASE HardUnknown
  <2>1. row' \in [Keys -> RowStatus]
    <3>1. PICK lost : row' = Written(row, {att} \X CheapLegs, "cancelled", lost)
      BY <1>4 DEF HardUnknown
    <3>. QED
      BY <3>1, WrittenType, Statuses DEF TypeOK
  <2>2. /\ UNCHANGED exchange /\ UNCHANGED pauses /\ UNCHANGED process
        /\ UNCHANGED <<att, res, leg, said, tries, clean, recent>>
        /\ pc = "hard" /\ pc' = "resolve" /\ todo' = {HardLeg} /\ seen' = {}
    BY <1>4 DEF HardUnknown
  <2>. QED
    BY <2>1, <2>2, LegsAssumption DEF TypeOK, pauses, exchange, process, PausesType
<1>5. ASSUME NEW l \in Legs, CheapAnswers(l) PROVE TypeOK'
  BY <1>5 DEF CheapAnswers, TypeOK, Outcomes, ledger, exchange, process, pauses, PausesType
<1>6. CASE CheapJoin
  <2>1. row' \in [Keys -> RowStatus]
    <3>1. PICK lostFill, lostKill :
            row' = Written(Written(row, {att} \X (LegsThat("FILL") \ {HardLeg}), "filled", lostFill),
                           {att} \X LegsThat("KILL"), "cancelled", lostKill)
      BY <1>6 DEF CheapJoin
    <3>2. Written(row, {att} \X (LegsThat("FILL") \ {HardLeg}), "filled", lostFill)
            \in [Keys -> RowStatus]
      BY WrittenType, Statuses DEF TypeOK
    <3>. QED
      BY <3>1, <3>2, WrittenType, Statuses
  <2>2. PausesType'
    BY <1>6, HaltType DEF CheapJoin
  <2>3. /\ pc' \in {"idle", "resolve", "rollback"}
        /\ todo' \in SUBSET Legs /\ seen' \in SUBSET Legs /\ recent' \in Nat
    BY <1>6, ContinueType DEF CheapJoin, TypeOK, LegsThat
  <2>. QED
    BY <1>6, <2>1, <2>2, <2>3 DEF CheapJoin, TypeOK, exchange, process, pauses, PausesType
<1>7. ASSUME NEW l \in Legs, QueryOrders(l) PROVE TypeOK'
  BY <1>7 DEF QueryOrders, TypeOK, ledger, exchange, process, pauses, PausesType
<1>8. ASSUME NEW l \in Legs, NEW held \in BOOLEAN, Judged(l, held), pc \in {"resolve", "position"},
             UNCHANGED <<exchange, att, res, leg, said, tries, clean, process>>
      PROVE  TypeOK'
  <2>1. row' \in [Keys -> RowStatus]
    <3>1. PICK lost : row' = Written(row, {Key(l)}, IF held THEN "filled" ELSE "cancelled", lost)
      BY <1>8 DEF Judged
    <3>. QED
      BY <3>1, WrittenType, Statuses DEF TypeOK
  <2>2. PausesType'
    BY <1>8, HaltType DEF Judged
  <2>3. /\ pc' \in {"idle", "resolve", "rollback"}
        /\ todo' \in SUBSET Legs /\ seen' \in SUBSET Legs /\ recent' \in Nat
    BY <1>8, ContinueType DEF Judged, TypeOK
  <2>. QED
    BY <1>8, <2>1, <2>2, <2>3 DEF TypeOK, exchange, process, pauses, PausesType
<1>9. ASSUME NEW l \in Legs, QueryOrdersFails(l) PROVE TypeOK'
  BY <1>8, <1>9 DEF QueryOrdersFails
<1>10. CASE QueryPositions \/ QueryPositionsFails
  <2>1. (said \/ pos[Ticker[Key(leg)]] # 0) \in BOOLEAN
    BY DEF TypeOK
  <2>. QED
    BY <1>8, <1>10, <2>1 DEF QueryPositions, QueryPositionsFails, TypeOK
<1>11. ASSUME NEW l \in Legs, SendSell(l) PROVE TypeOK'
  BY <1>11 DEF SendSell, TypeOK, ledger, process, pauses, PausesType
<1>13. CASE SellClosed
  <2>1. row' \in [Keys -> RowStatus]
    <3>1. PICK lost : row' = Written(row, {Key(leg)}, "settled", lost)
      BY <1>13 DEF SellClosed
    <3>. QED
      BY <3>1, WrittenType, Statuses DEF TypeOK
  <2>2. PICK lost : LegDone(clean, lost # {})
    BY <1>13 DEF SellClosed
  <2>3. /\ todo' \in SUBSET Legs /\ tries' = 0 /\ sell' = "none" /\ clean' \in BOOLEAN
        /\ pc' \in {"idle", "rollback"}
        /\ PausesType'
    BY <2>2, LegDoneType DEF TypeOK
  <2>4. /\ pc = "rollback"
        /\ UNCHANGED <<ord, sold, pos, att, res, seen, leg, said, recent, process>>
    BY <1>13 DEF SellClosed
  <2>. QED
    BY <2>1, <2>3, <2>4 DEF TypeOK, process, pauses, PausesType
<1>14. CASE SellAgain
  BY <1>14 DEF SellAgain, Retry, TypeOK, ledger, process, pauses, PausesType
<1>15. CASE SellGivenUp
  <2>1. Key(leg) \in Keys
    BY <1>15 DEF SellGivenUp, TypeOK, Key, Keys
  <2>2. PICK lost : LegDone(FALSE, lost # {})
    BY <1>15 DEF SellGivenUp
  <2>3. /\ todo' \in SUBSET Legs /\ tries' = 0 /\ sell' = "none" /\ clean' \in BOOLEAN
        /\ pc' \in {"idle", "rollback"}
        /\ PausesType'
    BY <2>2, LegDoneType
  <2>. QED
    BY <1>15, <2>1, <2>3 DEF SellGivenUp, TypeOK, process, pauses, PausesType
<1>16. CASE WindowExpires
  BY <1>16 DEF WindowExpires, TypeOK, ledger, exchange, local, process, pauses, PausesType
<1>17. ASSUME NEW k \in Keys, FillBuy(k) \/ MissBuy(k) \/ LoseBuy(k) PROVE TypeOK'
  <2>1. ord' \in [Keys -> OrderStatus]
    BY <1>17 DEF FillBuy, MissBuy, LoseBuy, TypeOK, OrderStatus
  <2>2. pos' \in [Tickers -> Int]
    BY <1>17 DEF FillBuy, MissBuy, LoseBuy, TypeOK, Signed
  <2>. QED
    BY <1>17, <2>1, <2>2 DEF FillBuy, MissBuy, LoseBuy, TypeOK, ledger, local, process, pauses, PausesType
<1>18. ASSUME NEW n \in 0..Count, MatchSell(n) PROVE TypeOK'
  <2>. /\ n \in Nat /\ -n \in Int
    OBVIOUS
  <2>1. sold' \in [Keys -> Nat]
    <3>1. \A k \in Keys : sold[k] \in Nat /\ sold[k] + n \in Nat
      BY DEF TypeOK
    <3>. QED
      BY <1>18, <3>1 DEF MatchSell, TypeOK
  <2>2. pos' \in [Tickers -> Int]
    <3>1. Signed(leg, n) \in Int
      BY DEF Signed
    <3>2. \A t \in Tickers : pos[t] - Signed(leg, n) \in Int
      BY <3>1 DEF TypeOK
    <3>. QED
      BY <1>18, <3>2 DEF MatchSell, TypeOK
  <2>. QED
    BY <1>18, <2>1, <2>2 DEF MatchSell, TypeOK, ledger, process, pauses, PausesType
<1>19. CASE Crash
  <2>1. res' \in [Legs -> LegState \union {"none"}]
    BY <1>19 DEF Crash
  <2>2. tries' \in 0..(MaxRetries - 1) /\ crashes' \in 0..MaxCrashes
    BY <1>19 DEF Crash, TypeOK
  <2>. QED
    BY <1>19, <2>1, <2>2 DEF Crash, TypeOK, ledger, exchange
<1>20. CASE Boot
  <2>1. row' \in [Keys -> RowStatus]
    BY <1>20 DEF Boot, Rehydrated, TypeOK, Reconciled, RowStatus
  <2>2. botPaused' \in BOOLEAN /\ execOn' \in BOOLEAN
    BY <1>20 DEF Boot, Rehydrated, TypeOK
  <2>. QED
    BY <1>20, <2>1, <2>2 DEF Boot, TypeOK, local
<1>21. CASE AdminPause \/ AdminResume
  BY <1>21, PauseType DEF AdminPause, AdminResume, ledger, process, TypeOK, pauses, PausesType
<1>26. CASE EngageByScript
  BY <1>26, PauseType DEF EngageByScript, process, TypeOK, PausesType
<1>27. CASE EngageElsewhere
  BY <1>27, PauseType DEF EngageElsewhere, EngageKillSwitch, process, TypeOK, PausesType
<1>23. CASE CheckPositions
  BY <1>23, PauseType DEF CheckPositions, ledger, TypeOK, pauses, PausesType
<1>24. CASE ClearKillSwitch
  BY <1>24, PauseType DEF ClearKillSwitch, TypeOK, pauses, PausesType
<1>25. CASE CancelClear
  BY <1>25, PauseType DEF CancelClear, ledger, TypeOK, pauses, PausesType
<1>22. CASE UNCHANGED vars
  BY <1>22 DEF vars, TypeOK, ledger, exchange, local, pauses, PausesType
<1>. QED
  BY <1>1, <1>2, <1>3, <1>4, <1>5, <1>6, <1>7, <1>9, <1>10, <1>11, <1>13, <1>14, <1>15,
     <1>16, <1>17, <1>18, <1>19, <1>20, <1>21, <1>22, <1>23, <1>24, <1>25,
     <1>26, <1>27
  DEF Next, Executor, Exchange, Operator

\* Every variable keeps its type: the trade rows their statuses, the suspended
\* execute() a current attempt.
THEOREM TypeCorrect == Spec => []TypeOK
BY TypeInit, TypeStep, PTL DEF Spec

-----------------------------------------------------------------------------
(* Orders come after intents, cheap legs after the hard one *)

\* Attempts not started have no order; attempts started have all their rows.
Started ==
  \A a \in Attempts : \A l \in Legs :
    /\ a > att => ord[<<a, l>>] = "none"
    /\ a <= att => row[<<a, l>>] # "none"

OrderInv == Started /\ HardBeforeCheap

\* What an action must do for OrderInv when it leaves the orders alone.
LEMMA OrdersKept ==
  ASSUME TypeOK, OrderInv, UNCHANGED <<ord, att>>,
         \A k \in Keys : row'[k] = "none" => row[k] = "none"
  PROVE  OrderInv'
<1>1. \A a \in Attempts : \A l \in Legs : <<a, l>> \in Keys
  BY DEF Keys
<1>. QED
  BY <1>1 DEF OrderInv, Started, HardBeforeCheap

\* There is no order at first.
LEMMA OrderInit == Init => OrderInv
<1> SUFFICES ASSUME Init PROVE OrderInv
  OBVIOUS
<1>1. \A a \in Attempts : \A l \in Legs : <<a, l>> \in Keys /\ ord[<<a, l>>] = "none" /\ ~(a <= att)
  BY BoundsAssumption DEF Init, Keys, Attempts
<1>. QED
  BY <1>1 DEF OrderInv, Started, HardBeforeCheap, CheapLegs

\* Every step keeps the orders with the attempt that sent them.
LEMMA OrderStep == TypeOK /\ OrderInv /\ [Next]_vars => OrderInv'
<1> SUFFICES ASSUME TypeOK, OrderInv, [Next]_vars PROVE OrderInv'
  OBVIOUS
<1> USE LegsAssumption, BoundsAssumption
<1>0. \A a \in Attempts : \A l \in Legs : <<a, l>> \in Keys
  BY DEF Keys
<1>1. CASE Execute
  <2>1. att' = att + 1 /\ att + 1 \in Attempts
    BY <1>1 DEF Execute, Start, TypeOK, Attempts
  <2>2. ASSUME NEW a \in Attempts, NEW l \in Legs
        PROVE  /\ a = att + 1 /\ l = HardLeg => ord'[<<a, l>>] = "flying"
               /\ a # att + 1 \/ l # HardLeg => ord'[<<a, l>>] = ord[<<a, l>>]
    BY <1>1, <1>0 DEF Execute, Start, TypeOK
  <2>3. ASSUME NEW a \in Attempts, NEW l \in Legs
        PROVE  /\ a = att + 1 => row'[<<a, l>>] = "pending"
               /\ a # att + 1 => row'[<<a, l>>] = row[<<a, l>>]
    BY <1>1, <1>0 DEF Execute, Start, Written
  <2>4. Started'
    <3> SUFFICES ASSUME NEW a \in Attempts, NEW l \in Legs
                 PROVE  /\ a > att' => ord'[<<a, l>>] = "none"
                        /\ a <= att' => row'[<<a, l>>] # "none"
      BY DEF Started
    <3>1. a \in Nat /\ att \in Nat
      BY DEF TypeOK, Attempts
    <3>2. CASE a = att + 1
      BY <2>1, <2>3, <3>1, <3>2
    <3>3. CASE a # att + 1
      <4>1. ord'[<<a, l>>] = ord[<<a, l>>] /\ row'[<<a, l>>] = row[<<a, l>>]
        BY <2>2, <2>3, <3>3
      <4>. QED
        BY <2>1, <3>1, <3>3, <4>1 DEF OrderInv, Started
    <3>. QED
      BY <3>2, <3>3
  <2>5. HardBeforeCheap'
    <3> SUFFICES ASSUME NEW a \in Attempts, NEW l \in CheapLegs, ord'[<<a, l>>] # "none"
                 PROVE  ord'[<<a, HardLeg>>] = "executed"
      BY DEF HardBeforeCheap
    <3>1. l \in Legs /\ l # HardLeg
      BY DEF CheapLegs
    <3>2. ord[<<a, l>>] # "none"
      BY <2>2, <3>1
    <3>3. a # att + 1
      <4>1. a \in Nat /\ att \in Nat
        BY DEF TypeOK, Attempts
      <4>2. a > att => ord[<<a, l>>] = "none"
        BY <3>1 DEF OrderInv, Started
      <4>. QED
        BY <3>2, <4>1, <4>2
    <3>. QED
      BY <2>2, <3>2, <3>3 DEF OrderInv, HardBeforeCheap
  <2>. QED
    BY <2>4, <2>5 DEF OrderInv
<1>2. CASE HardFills
  <2>1. att \in Attempts /\ ord[<<att, HardLeg>>] = "executed" /\ att' = att
    BY <1>2 DEF HardFills, Outcomes, TypeOK, Key
  <2>2. ASSUME NEW a \in Attempts, NEW l \in Legs
        PROVE  /\ a = att /\ l # HardLeg => ord'[<<a, l>>] = "flying"
               /\ a # att \/ l = HardLeg => ord'[<<a, l>>] = ord[<<a, l>>]
    BY <1>2, <1>0 DEF HardFills, CheapLegs
  <2>3. \A k \in Keys : row'[k] = "none" => row[k] = "none"
    <3>1. PICK lost : row' = Written(row, {Key(HardLeg)}, "filled", lost)
      BY <1>2 DEF HardFills
    <3>. QED
      BY <3>1, WrittenEffect DEF TypeOK
  <2>4. Started'
    BY <1>0, <2>1, <2>2, <2>3 DEF OrderInv, Started, TypeOK, Attempts
  <2>5. HardBeforeCheap'
    BY <2>1, <2>2 DEF OrderInv, HardBeforeCheap, CheapLegs
  <2>. QED
    BY <2>4, <2>5 DEF OrderInv
<1>3. CASE HardKilled
  <2>1. PICK lost : row' = Written(row, {att} \X Legs, "cancelled", lost)
    BY <1>3 DEF HardKilled
  <2>. QED
    BY <1>3, <2>1, WrittenEffect, OrdersKept DEF HardKilled, exchange, TypeOK
<1>4. CASE HardUnknown
  <2>1. PICK lost : row' = Written(row, {att} \X CheapLegs, "cancelled", lost)
    BY <1>4 DEF HardUnknown
  <2>. QED
    BY <1>4, <2>1, WrittenEffect, OrdersKept DEF HardUnknown, exchange, TypeOK
<1>5. ASSUME NEW l \in Legs, CheapAnswers(l) PROVE OrderInv'
  BY <1>5, OrdersKept DEF CheapAnswers, ledger, exchange
<1>6. CASE CheapJoin
  <2>1. PICK lostFill, lostKill :
          row' = Written(Written(row, {att} \X (LegsThat("FILL") \ {HardLeg}), "filled", lostFill),
                         {att} \X LegsThat("KILL"), "cancelled", lostKill)
    BY <1>6 DEF CheapJoin
  <2> DEFINE between == Written(row, {att} \X (LegsThat("FILL") \ {HardLeg}), "filled", lostFill)
  <2>2. between \in [Keys -> RowStatus]
    BY WrittenType, Statuses DEF TypeOK
  <2>3. \A k \in Keys : between[k] = "none" => row[k] = "none"
    BY WrittenEffect DEF TypeOK
  <2> HIDE DEF between
  <2>4. \A k \in Keys : row'[k] = "none" => between[k] = "none"
    <3>1. row' = Written(between, {att} \X LegsThat("KILL"), "cancelled", lostKill)
      BY <2>1 DEF between
    <3>. QED
      BY <2>2, <3>1, WrittenEffect
  <2>. QED
    BY <1>6, <2>3, <2>4, OrdersKept DEF CheapJoin, exchange
<1>7. ASSUME NEW l \in Legs, QueryOrders(l) PROVE OrderInv'
  BY <1>7, OrdersKept DEF QueryOrders, ledger, exchange
<1>8. ASSUME NEW l \in Legs, NEW held \in BOOLEAN, Judged(l, held), UNCHANGED <<exchange, att>>
      PROVE  OrderInv'
  <2>1. PICK lost : row' = Written(row, {Key(l)}, IF held THEN "filled" ELSE "cancelled", lost)
    BY <1>8 DEF Judged
  <2>2. \A k \in Keys : row'[k] = "none" => row[k] = "none"
    BY <2>1, WrittenEffect DEF TypeOK
  <2>. QED
    BY <1>8, <2>2, OrdersKept DEF exchange
<1>9. ASSUME NEW l \in Legs, QueryOrdersFails(l) PROVE OrderInv'
  BY <1>8, <1>9 DEF QueryOrdersFails
<1>10. CASE QueryPositions \/ QueryPositionsFails
  <2>1. (said \/ pos[Ticker[Key(leg)]] # 0) \in BOOLEAN
    BY DEF TypeOK
  <2>. QED
    BY <1>8, <1>10, <2>1 DEF QueryPositions, QueryPositionsFails, TypeOK
<1>11. ASSUME NEW l \in Legs, SendSell(l) PROVE OrderInv'
  BY <1>11, OrdersKept DEF SendSell, ledger
<1>12. CASE SellClosed
  <2>1. PICK lost : row' = Written(row, {Key(leg)}, "settled", lost)
    BY <1>12 DEF SellClosed
  <2>. QED
    BY <1>12, <2>1, WrittenEffect, OrdersKept DEF SellClosed, TypeOK
<1>13. CASE SellAgain
  BY <1>13, OrdersKept DEF SellAgain, Retry, ledger
<1>14. CASE SellGivenUp
  BY <1>14, OrdersKept DEF SellGivenUp
<1>15. CASE WindowExpires \/ Crash
  BY <1>15, OrdersKept DEF WindowExpires, Crash, ledger, exchange
<1>16. ASSUME NEW k \in Keys, FillBuy(k) \/ MissBuy(k) \/ LoseBuy(k) PROVE OrderInv'
  <2>1. ord[k] = "flying" /\ UNCHANGED <<row, att>>
    BY <1>16 DEF FillBuy, MissBuy, LoseBuy, ledger
  <2>2. PICK s \in {"executed", "canceled", "lost"} : ord' = [ord EXCEPT ![k] = s]
    BY <1>16 DEF FillBuy, MissBuy, LoseBuy
  <2>3. \A j \in Keys : /\ ord'[j] = "none" <=> ord[j] = "none"
                        /\ ord[j] = "executed" => ord'[j] = "executed"
    BY <2>1, <2>2 DEF TypeOK
  <2>4. \A a \in Attempts : \A l \in Legs : <<a, l>> \in Keys /\ CheapLegs \subseteq Legs
    BY <1>0 DEF CheapLegs
  <2>. QED
    BY <2>1, <2>3, <2>4 DEF OrderInv, Started, HardBeforeCheap
<1>17. ASSUME NEW n \in 0..Count, MatchSell(n) PROVE OrderInv'
  BY <1>17, OrdersKept DEF MatchSell, ledger
<1>18. CASE Boot
  <2>1. \A k \in Keys : row'[k] = "none" => row[k] = "none"
    BY <1>18 DEF Boot, Rehydrated, Reconciled
  <2>. QED
    BY <1>18, <2>1, OrdersKept DEF Boot, Rehydrated
<1>19. CASE Operator
  BY <1>19, OrdersKept DEF Operator, AdminPause, AdminResume, EngageByScript,
       EngageElsewhere, CheckPositions, ClearKillSwitch,
       CancelClear, ledger, exchange
<1>20. CASE UNCHANGED vars
  BY <1>20, OrdersKept DEF vars, ledger, exchange
<1>. QED
  BY <1>1, <1>2, <1>3, <1>4, <1>5, <1>6, <1>7, <1>9, <1>10, <1>11, <1>12, <1>13, <1>14,
     <1>15, <1>16, <1>17, <1>18, <1>19, <1>20
  DEF Next, Executor, Exchange

\* The guardrail hard-leg-first, whatever the environment does: a cheap leg is
\* under way only if the hard leg was bought.
THEOREM HardFirst == Spec => []HardBeforeCheap
<1>1. OrderInv => HardBeforeCheap
  BY DEF OrderInv
<1>. QED
  BY <1>1, OrderInit, OrderStep, TypeCorrect, PTL DEF Spec

\* No order without a persisted intent, whatever the environment does.
THEOREM IntentsFirst == Spec => []IntentBeforeOrder
<1>1. TypeOK /\ OrderInv => IntentBeforeOrder
  <2> SUFFICES ASSUME TypeOK, OrderInv, NEW k \in Keys, ord[k] # "none" PROVE row[k] # "none"
    BY DEF IntentBeforeOrder
  <2>1. PICK a \in Attempts, l \in Legs : k = <<a, l>>
    BY DEF Keys
  <2>. QED
    BY <2>1 DEF OrderInv, Started, TypeOK, Attempts
<1>. QED
  BY <1>1, OrderInit, OrderStep, TypeCorrect, PTL DEF Spec

-----------------------------------------------------------------------------
(* The ledger loses no position *)

\* An order whose fate the exchange has settled.
Decided == {"executed", "canceled", "lost"}

\* A closed row has no contracts behind it: its order never bought, or all it
\* bought was sold.
ClosedRows ==
  \A k \in Keys :
    /\ row[k] \in {"cancelled", "error_missing"} => ord[k] \in {"none", "canceled", "lost"}
    /\ row[k] = "settled" => sold[k] >= Count

\* What execute() knows while it waits for the hard leg, and for the cheap ones.
HardStage ==
  pc = "hard" => \A l \in Legs : /\ row[Key(l)] = "pending" /\ res[l] = "none"
                                 /\ l # HardLeg => ord[Key(l)] = "none"
CheapStage ==
  pc = "cheap" =>
    \A l \in Legs :
      /\ res[l] = "KILL" => ord[Key(l)] = "canceled"
      /\ res[l] = "ERROR_RED" => ord[Key(l)] \in Decided

\* What it knows of the legs it reconciles.
ResolveStage ==
  /\ pc \in {"resolve", "position"} => \A l \in todo : ord[Key(l)] \in Decided
  /\ pc = "position" => leg \in todo /\ (said <=> ord[Key(leg)] = "executed")

\* A sell belongs to the leg being rolled back; "full" means all was sold.
SellStage ==
  /\ sell # "none" => pc \in {"rollback", "down"}
  /\ sell = "full" => sold[Key(leg)] >= Count

VisibleInv == ClosedRows /\ HardStage /\ CheapStage /\ ResolveStage /\ SellStage

\* Every answer is read as the exchange settled it: no buy is still under way
\* when the client gives up on it, and a fill is never mistaken for a kill.
PlainAnswers == "late" \notin Faults /\ "unreadable" \notin Faults

\* Writing s into rows whose contracts justify it keeps ClosedRows.
LEMMA WriteCloses ==
  ASSUME TypeOK, ClosedRows, UNCHANGED <<ord, sold>>,
         NEW W \in SUBSET Keys, NEW s, NEW lost, row' = Written(row, W, s, lost),
         s \in {"cancelled", "error_missing"} => \A k \in W : ord[k] \in {"none", "canceled", "lost"},
         s = "settled" => \A k \in W : sold[k] >= Count
  PROVE  ClosedRows'
<1> SUFFICES ASSUME NEW k \in Keys
             PROVE  /\ row'[k] \in {"cancelled", "error_missing"}
                         => ord'[k] \in {"none", "canceled", "lost"}
                    /\ row'[k] = "settled" => sold'[k] >= Count
  BY DEF ClosedRows
<1>1. row'[k] = row[k] \/ (k \in W /\ row'[k] = s)
  BY WrittenEffect DEF TypeOK
<1>. QED
  BY <1>1 DEF ClosedRows

\* The answer _place_fok reads tells what became of the order.
LEMMA AnswerMeaning ==
  ASSUME PlainAnswers, NEW l \in Legs, NEW r \in Outcomes(l)
  PROVE  /\ r = "FILL" => ord[Key(l)] = "executed"
         /\ r = "KILL" => ord[Key(l)] = "canceled"
         /\ r = "ERROR_RED" => ord[Key(l)] \in Decided
BY DEF PlainAnswers, Outcomes, Decided

\* There is nothing to see at first.
LEMMA VisibleInit == Init => VisibleInv
BY DEF Init, VisibleInv, ClosedRows, HardStage, CheapStage, ResolveStage, SellStage

\* Once reconciliation moves on, what is left to reconcile was to reconcile before.
LEMMA ContinueStage ==
  ASSUME TypeOK, NEW A \in SUBSET Legs, NEW B \in SUBSET Legs, Continue(A, B),
         \A l \in A : ord[Key(l)] \in Decided, UNCHANGED <<exchange, att>>, sell = "none"
  PROVE  HardStage' /\ CheapStage' /\ ResolveStage' /\ SellStage'
<1>1. pc' \in {"idle", "resolve", "rollback"} /\ (pc' = "resolve" => todo' = A)
  BY DEF Continue
<1>. QED
  BY <1>1 DEF HardStage, CheapStage, ResolveStage, SellStage, exchange, Key

\* Every step keeps what filled visible in the rows, if answers are plain.
LEMMA VisibleStep ==
  ASSUME PlainAnswers
  PROVE  TypeOK /\ OrderInv /\ VisibleInv /\ [Next]_vars => VisibleInv'
<1> SUFFICES ASSUME TypeOK, OrderInv, VisibleInv, [Next]_vars PROVE VisibleInv'
  OBVIOUS
<1> USE LegsAssumption, BoundsAssumption
<1>0. ASSUME att \in Attempts PROVE \A l \in Legs : Key(l) \in Keys
  BY <1>0 DEF Key, Keys
<1>a. ASSUME UNCHANGED <<row, exchange, att, pc, res, todo, leg, said>> PROVE VisibleInv'
  BY <1>a DEF VisibleInv, ClosedRows, HardStage, CheapStage, ResolveStage, SellStage, exchange, Key
<1>1. CASE Execute
  <2>1. att' = att + 1 /\ att + 1 \in Attempts /\ pc' = "hard" /\ sell' = "none" /\ UNCHANGED sold
    BY <1>1 DEF Execute, Start, TypeOK, Attempts, VisibleInv, SellStage
  <2>2. ASSUME NEW l \in Legs
        PROVE  /\ row'[<<att + 1, l>>] = "pending" /\ res'[l] = "none"
               /\ l # HardLeg => ord'[<<att + 1, l>>] = ord[<<att + 1, l>>]
    BY <1>1, <2>1 DEF Execute, Start, Written, TypeOK, Keys
  <2>3. \A l \in Legs : ord[<<att + 1, l>>] = "none"
    BY <2>1 DEF OrderInv, Started, TypeOK
  <2>4. HardStage'
    BY <2>1, <2>2, <2>3 DEF HardStage, Key
  <2>5. ClosedRows'
    <3> SUFFICES ASSUME NEW k \in Keys
                 PROVE  /\ row'[k] \in {"cancelled", "error_missing"}
                             => ord'[k] \in {"none", "canceled", "lost"}
                        /\ row'[k] = "settled" => sold'[k] >= Count
      BY DEF ClosedRows
    <3>1. row'[k] = "pending" \/ (k # <<att + 1, HardLeg>> /\ row'[k] = row[k])
      BY <1>1, <2>1 DEF Execute, Start, Written
    <3>2. k # <<att + 1, HardLeg>> => ord'[k] = ord[k]
      BY <1>1, <2>1 DEF Execute, Start, TypeOK, Keys
    <3>. QED
      BY <2>1, <3>1, <3>2 DEF VisibleInv, ClosedRows
  <2>. QED
    BY <2>1, <2>4, <2>5 DEF VisibleInv, CheapStage, ResolveStage, SellStage
<1>2. CASE HardFills
  <2>1. att \in Attempts /\ att' = att /\ pc = "hard" /\ pc' = "cheap" /\ sell = "none"
        /\ UNCHANGED <<sold, sell>>
    BY <1>2 DEF HardFills, TypeOK, VisibleInv, SellStage
  <2>2. ASSUME NEW k \in Keys
        PROVE  /\ row'[k] \in {row[k], "filled"}
               /\ ord'[k] # ord[k] => row'[k] \in {"pending", "filled"}
    <3>1. PICK lost : row' = Written(row, {Key(HardLeg)}, "filled", lost)
      BY <1>2 DEF HardFills
    <3>2. row'[k] \in {row[k], "filled"}
      BY <3>1, WrittenEffect DEF TypeOK
    <3>3. ord'[k] # ord[k] => \E l \in Legs : k = Key(l)
      BY <1>2 DEF HardFills, CheapLegs, Key
    <3>. QED
      BY <2>1, <3>2, <3>3 DEF VisibleInv, HardStage
  <2>3. ClosedRows'
    BY <2>1, <2>2 DEF VisibleInv, ClosedRows
  <2>4. CheapStage'
    <3>1. \A l \in Legs : res'[l] \in {"none", "FILL"}
      BY <1>2 DEF HardFills, TypeOK, VisibleInv, HardStage
    <3>. QED
      BY <3>1 DEF CheapStage
  <2>. QED
    BY <2>1, <2>3, <2>4 DEF VisibleInv, HardStage, ResolveStage, SellStage
<1>3. CASE HardKilled
  <2>1. att \in Attempts /\ pc = "hard" /\ pc' = "idle" /\ sell = "none"
        /\ UNCHANGED <<ord, sold, sell>>
    BY <1>3 DEF HardKilled, TypeOK, exchange, VisibleInv, SellStage
  <2>2. ord[Key(HardLeg)] = "canceled"
    BY <1>3, AnswerMeaning DEF HardKilled
  <2>3. \A k \in {att} \X Legs : ord[k] \in {"none", "canceled", "lost"}
    BY <2>1, <2>2 DEF VisibleInv, HardStage, Key
  <2>4. PICK lost : row' = Written(row, {att} \X Legs, "cancelled", lost)
    BY <1>3 DEF HardKilled
  <2>5. {att} \X Legs \in SUBSET Keys
    BY <2>1 DEF Keys
  <2>6. ClosedRows'
    BY <2>1, <2>3, <2>4, <2>5, WriteCloses DEF VisibleInv
  <2>. QED
    BY <2>1, <2>6 DEF VisibleInv, HardStage, CheapStage, ResolveStage, SellStage
<1>4. CASE HardUnknown
  <2>1. att \in Attempts /\ att' = att /\ pc = "hard" /\ pc' = "resolve" /\ sell = "none"
        /\ todo' = {HardLeg} /\ UNCHANGED <<ord, sold, sell>>
    BY <1>4 DEF HardUnknown, TypeOK, exchange, VisibleInv, SellStage
  <2>2. ord[Key(HardLeg)] \in Decided
    BY <1>4, AnswerMeaning DEF HardUnknown
  <2>3. \A k \in {att} \X CheapLegs : ord[k] \in {"none", "canceled", "lost"}
    BY <2>1 DEF VisibleInv, HardStage, Key, CheapLegs
  <2>4. PICK lost : row' = Written(row, {att} \X CheapLegs, "cancelled", lost)
    BY <1>4 DEF HardUnknown
  <2>5. {att} \X CheapLegs \in SUBSET Keys
    BY <2>1 DEF Keys, CheapLegs
  <2>6. ClosedRows'
    BY <2>1, <2>3, <2>4, <2>5, WriteCloses DEF VisibleInv
  <2>. QED
    BY <2>1, <2>2, <2>6 DEF VisibleInv, HardStage, CheapStage, ResolveStage, SellStage, Key
<1>5. ASSUME NEW l \in Legs, CheapAnswers(l) PROVE VisibleInv'
  <2>1. PICK r \in Outcomes(l) : res' = [res EXCEPT ![l] = r]
    BY <1>5 DEF CheapAnswers
  <2>2. pc = "cheap" /\ sell = "none" /\ UNCHANGED <<row, exchange, att, pc, todo, leg, said>>
    BY <1>5 DEF CheapAnswers, ledger, VisibleInv, SellStage
  <2>3. CheapStage'
    <3>1. \A j \in Legs : res'[j] = IF j = l THEN r ELSE res[j]
      BY <2>1 DEF TypeOK
    <3>2. \A j \in Legs : Key(j)' = Key(j) /\ ord' = ord
      BY <2>2 DEF Key, exchange
    <3>. QED
      BY <2>2, <3>1, <3>2, AnswerMeaning DEF VisibleInv, CheapStage
  <2>. QED
    BY <2>2, <2>3 DEF VisibleInv, ClosedRows, HardStage, ResolveStage, SellStage, exchange
<1>6. CASE CheapJoin
  <2>1. att \in Attempts /\ att' = att /\ pc = "cheap" /\ sell = "none"
        /\ UNCHANGED <<ord, sold, sell>> /\ UNCHANGED exchange
    BY <1>6 DEF CheapJoin, TypeOK, exchange, VisibleInv, SellStage
  <2> DEFINE F == {att} \X (LegsThat("FILL") \ {HardLeg})
             K == {att} \X LegsThat("KILL")
  <2>2. PICK lostFill, lostKill :
          row' = Written(Written(row, F, "filled", lostFill), K, "cancelled", lostKill)
    BY <1>6 DEF CheapJoin
  <2>3. F \in SUBSET Keys /\ K \in SUBSET Keys
    BY <2>1 DEF Keys, LegsThat
  <2>4. \A k \in K : ord[k] = "canceled"
    BY <2>1 DEF VisibleInv, CheapStage, LegsThat, Key
  <2> HIDE DEF F, K
  <2>5. Written(row, F, "filled", lostFill) \in [Keys -> RowStatus]
    BY WrittenType, Statuses DEF TypeOK
  <2>6. ClosedRows'
    <3> SUFFICES ASSUME NEW k \in Keys
                 PROVE  /\ row'[k] \in {"cancelled", "error_missing"}
                             => ord'[k] \in {"none", "canceled", "lost"}
                        /\ row'[k] = "settled" => sold'[k] >= Count
      BY DEF ClosedRows
    <3>1. Written(row, F, "filled", lostFill)[k] \in {row[k], "filled"}
      BY WrittenEffect DEF TypeOK
    <3>2. \/ row'[k] = Written(row, F, "filled", lostFill)[k]
          \/ row'[k] = "cancelled" /\ k \in K
      BY <2>2, <2>5, WrittenEffect
    <3>. QED
      BY <2>1, <2>4, <3>1, <3>2 DEF VisibleInv, ClosedRows
  <2>7. \A l \in LegsThat("ERROR_RED") : ord[Key(l)] \in Decided
    BY <2>1 DEF VisibleInv, CheapStage, LegsThat
  <2>8. HardStage' /\ CheapStage' /\ ResolveStage' /\ SellStage'
    <3>1. CASE LegsThat("FILL") = Legs
      <4>1. pc' = "idle"
        BY <1>6, <3>1 DEF CheapJoin
      <4>. QED
        BY <2>1, <4>1 DEF HardStage, CheapStage, ResolveStage, SellStage
    <3>2. CASE LegsThat("FILL") # Legs
      <4>1. Continue(LegsThat("ERROR_RED"), LegsThat("FILL"))
        BY <1>6, <3>2 DEF CheapJoin
      <4>2. LegsThat("ERROR_RED") \in SUBSET Legs /\ LegsThat("FILL") \in SUBSET Legs
        BY DEF LegsThat
      <4>. QED
        BY <2>1, <2>7, <4>1, <4>2, ContinueStage
    <3>. QED
      BY <3>1, <3>2
  <2>. QED
    BY <2>6, <2>8 DEF VisibleInv
<1>7. ASSUME NEW l \in Legs, QueryOrders(l) PROVE VisibleInv'
  <2>1. pc = "resolve" /\ pc' = "position" /\ leg' = l /\ l \in todo /\ sell = "none"
        /\ said' = (ord[Key(l)] = "executed") /\ UNCHANGED <<row, exchange, att, todo>>
    BY <1>7 DEF QueryOrders, ledger, VisibleInv, SellStage
  <2>2. ResolveStage'
    BY <2>1 DEF VisibleInv, ResolveStage, exchange, Key
  <2>. QED
    BY <2>1, <2>2 DEF VisibleInv, ClosedRows, HardStage, CheapStage, SellStage, exchange
<1>8. ASSUME NEW l \in todo, NEW held \in BOOLEAN, Judged(l, held),
             pc \in {"resolve", "position"}, UNCHANGED <<exchange, att>>,
             ~held => ord[Key(l)] # "executed"
      PROVE  VisibleInv'
  <2>1. l \in Legs /\ att \in Attempts /\ sell = "none" /\ UNCHANGED <<ord, sold>>
        /\ ord[Key(l)] \in Decided
    BY <1>8 DEF TypeOK, VisibleInv, SellStage, ResolveStage, exchange
  <2>2. PICK lost : row' = Written(row, {Key(l)}, IF held THEN "filled" ELSE "cancelled", lost)
    BY <1>8 DEF Judged
  <2>3. {Key(l)} \in SUBSET Keys
    BY <1>0, <2>1
  <2>4. ClosedRows'
    BY <1>8, <2>1, <2>2, <2>3, WriteCloses DEF VisibleInv, Decided
  <2>5. Continue(todo \ {l}, IF held THEN seen \union {l} ELSE seen)
    BY <1>8 DEF Judged
  <2>6. /\ todo \ {l} \in SUBSET Legs
        /\ (IF held THEN seen \union {l} ELSE seen) \in SUBSET Legs
    BY <2>1 DEF TypeOK
  <2>7. \A j \in todo \ {l} : ord[Key(j)] \in Decided
    BY <1>8 DEF VisibleInv, ResolveStage
  <2>8. HardStage' /\ CheapStage' /\ ResolveStage' /\ SellStage'
    BY <1>8, <2>1, <2>5, <2>6, <2>7, ContinueStage
  <2>. QED
    BY <2>4, <2>8 DEF VisibleInv
<1>9. ASSUME NEW l \in Legs, QueryOrdersFails(l) PROVE VisibleInv'
  BY <1>8, <1>9 DEF QueryOrdersFails
<1>10. CASE QueryPositions
  <2> DEFINE held == said \/ pos[Ticker[Key(leg)]] # 0
  <2>1. held \in BOOLEAN /\ leg \in todo /\ (~held => ord[Key(leg)] # "executed")
    BY <1>10 DEF QueryPositions, TypeOK, VisibleInv, ResolveStage
  <2>2. Judged(leg, held) /\ pc = "position" /\ UNCHANGED <<exchange, att>>
    BY <1>10 DEF QueryPositions
  <2> HIDE DEF held
  <2>. QED
    BY <1>8, <2>1, <2>2
<1>11. CASE QueryPositionsFails
  BY <1>8, <1>11 DEF QueryPositionsFails, VisibleInv, ResolveStage
<1>12. ASSUME NEW l \in Legs, SendSell(l) PROVE VisibleInv'
  <2>1. pc = "rollback" /\ sell' = "sent" /\ UNCHANGED <<row, ord, sold, att, pc, res, todo, said>>
    BY <1>12 DEF SendSell, ledger
  <2>. QED
    BY <2>1 DEF VisibleInv, ClosedRows, HardStage, CheapStage, ResolveStage, SellStage
<1>13. ASSUME NEW allClosed \in BOOLEAN, NEW unsaved \in BOOLEAN, LegDone(allClosed, unsaved)
       PROVE  HardStage' /\ CheapStage' /\ ResolveStage' /\ SellStage'
  <2>1. pc' \in {"idle", "rollback"} /\ sell' = "none"
    BY <1>13 DEF LegDone
  <2>. QED
    BY <2>1 DEF HardStage, CheapStage, ResolveStage, SellStage
<1>14. CASE SellClosed
  <2>1. att \in Attempts /\ sold[Key(leg)] >= Count /\ UNCHANGED <<ord, sold>>
    BY <1>14 DEF SellClosed, TypeOK, VisibleInv, SellStage
  <2>2. PICK lost : row' = Written(row, {Key(leg)}, "settled", lost) /\ LegDone(clean, lost # {})
    BY <1>14 DEF SellClosed
  <2>3. {Key(leg)} \in SUBSET Keys
    BY <1>0, <2>1 DEF TypeOK
  <2>4. ClosedRows'
    BY <2>1, <2>2, <2>3, WriteCloses DEF VisibleInv
  <2>5. clean \in BOOLEAN /\ (lost # {}) \in BOOLEAN
    BY DEF TypeOK
  <2>. QED
    BY <1>13, <2>2, <2>4, <2>5 DEF VisibleInv
<1>15. CASE SellAgain
  <2>1. pc = "rollback" /\ sell' = "none" /\ UNCHANGED <<row, ord, sold, att, pc, res, todo, leg, said>>
    BY <1>15 DEF SellAgain, Retry, ledger
  <2>. QED
    BY <2>1 DEF VisibleInv, ClosedRows, HardStage, CheapStage, ResolveStage, SellStage
<1>16. CASE SellGivenUp
  <2>1. PICK lost : LegDone(FALSE, lost # {})
    BY <1>16 DEF SellGivenUp
  <2>2. ClosedRows'
    BY <1>16 DEF SellGivenUp, VisibleInv, ClosedRows
  <2>. QED
    BY <1>13, <2>1, <2>2 DEF VisibleInv
<1>17. CASE WindowExpires
  BY <1>a, <1>17 DEF WindowExpires, ledger, local
<1>18. ASSUME NEW k \in Keys, FillBuy(k) \/ MissBuy(k) \/ LoseBuy(k) PROVE VisibleInv'
  <2>1. ord[k] = "flying" /\ UNCHANGED <<row, sold, sell, att, pc, local>>
    BY <1>18 DEF FillBuy, MissBuy, LoseBuy, ledger
  <2>2. \A j \in Keys : j # k => ord'[j] = ord[j]
    BY <1>18 DEF FillBuy, MissBuy, LoseBuy, TypeOK
  <2>3. ClosedRows'
    BY <2>1, <2>2 DEF VisibleInv, ClosedRows
  <2>4. ASSUME pc \in {"hard", "cheap", "resolve", "position"}, NEW l \in Legs, ord[Key(l)] # "flying"
        PROVE  ord'[Key(l)] = ord[Key(l)]
    <3>1. Key(l) \in Keys
      BY <1>0, <2>4 DEF TypeOK
    <3>. QED
      BY <2>1, <2>2, <2>4, <3>1
  <2>5. \A l \in Legs : Key(l)' = Key(l)
    BY <2>1 DEF Key
  <2>6. HardStage'
    BY <2>1, <2>4, <2>5 DEF VisibleInv, HardStage, local
  <2>7. CheapStage'
    BY <2>1, <2>4, <2>5 DEF VisibleInv, CheapStage, Decided, local
  <2>8. ResolveStage'
    BY <2>1, <2>4, <2>5 DEF VisibleInv, ResolveStage, Decided, TypeOK, local
  <2>9. SellStage'
    BY <2>1 DEF VisibleInv, SellStage, local, Key
  <2>. QED
    BY <2>3, <2>6, <2>7, <2>8, <2>9 DEF VisibleInv
<1>19. ASSUME NEW n \in 0..Count, MatchSell(n) PROVE VisibleInv'
  <2>1. sell = "sent" /\ sell' = (IF n = Count THEN "full" ELSE "short") /\ att \in Attempts
        /\ UNCHANGED <<row, ord, att, pc, res, todo, leg, said>>
    BY <1>19 DEF MatchSell, TypeOK, ledger
  <2>2. Key(leg) \in Keys
    BY <1>0, <2>1 DEF TypeOK
  <2>3. ASSUME NEW k \in Keys
        PROVE  /\ sold[k] \in Nat /\ sold'[k] >= sold[k]
               /\ k = Key(leg) => sold'[k] = sold[k] + n
    BY <1>19 DEF MatchSell, TypeOK
  <2>4. ClosedRows'
    <3>1. \A k \in Keys : sold[k] >= Count => sold'[k] >= Count
      <4> SUFFICES ASSUME NEW k \in Keys, sold[k] >= Count PROVE sold'[k] >= Count
        OBVIOUS
      <4>1. sold'[k] \in Nat
        BY <1>19 DEF MatchSell, TypeOK
      <4>. QED
        BY <2>3, <4>1
    <3>. QED
      BY <2>1, <3>1 DEF VisibleInv, ClosedRows
  <2>5. SellStage'
    <3>1. Key(leg)' = Key(leg)
      BY <2>1 DEF Key
    <3>2. n = Count => sold'[Key(leg)] >= Count
      BY <2>2, <2>3
    <3>. QED
      BY <2>1, <3>1, <3>2 DEF VisibleInv, SellStage
  <2>. QED
    BY <2>1, <2>4, <2>5 DEF VisibleInv, HardStage, CheapStage, ResolveStage, SellStage, Key
<1>20. CASE Crash
  <2>1. pc' = "down" /\ UNCHANGED <<row, exchange, att, leg>>
    BY <1>20 DEF Crash, ledger, local
  <2>. QED
    BY <2>1 DEF VisibleInv, ClosedRows, HardStage, CheapStage, ResolveStage, SellStage, exchange,
       Key
<1>21. CASE Boot
  <2>1. pc' = "idle" /\ sell' = "none" /\ UNCHANGED <<ord, sold>>
    BY <1>21 DEF Boot, Rehydrated
  <2>2. ASSUME NEW k \in Keys
        PROVE  row'[k] = row[k] \/ (row'[k] = Reconciled(k) /\ ord[k] # "flying")
    BY <1>21 DEF Boot, Rehydrated
  <2>3. ClosedRows'
    BY <2>1, <2>2 DEF VisibleInv, ClosedRows, Reconciled, TypeOK, OrderStatus
  <2>. QED
    BY <2>1, <2>3 DEF VisibleInv, HardStage, CheapStage, ResolveStage, SellStage
<1>22. CASE Operator
  BY <1>a, <1>22 DEF Operator, AdminPause, AdminResume, EngageByScript,
       EngageElsewhere, CheckPositions, ClearKillSwitch,
       CancelClear, ledger, local
<1>23. CASE UNCHANGED vars
  BY <1>a, <1>23 DEF vars, ledger, local
<1>. QED
  BY <1>1, <1>2, <1>3, <1>4, <1>5, <1>6, <1>7, <1>9, <1>10, <1>11, <1>12, <1>14, <1>15,
     <1>16, <1>17, <1>18, <1>19, <1>20, <1>21, <1>22, <1>23
  DEF Next, Executor, Exchange

\* No position escapes the ledger: contracts held are on a row the RiskManager
\* counts, however answers are lost, rollbacks fall short, row updates fail and
\* the process restarts, as long as answers mean what they say.
THEOREM LedgerSeesHeld == ASSUME PlainAnswers PROVE Spec => []HeldIsVisible
<1>1. TypeOK /\ OrderInv /\ VisibleInv => HeldIsVisible
  <2> SUFFICES ASSUME TypeOK, OrderInv, VisibleInv, NEW k \in Keys, Held(k) > 0
               PROVE  row[k] \in {"pending", "filled"}
    BY DEF HeldIsVisible
  <2>1. sold[k] \in Nat /\ row[k] \in RowStatus
    BY DEF TypeOK
  <2>2. ord[k] = "executed" /\ sold[k] < Count
    BY <2>1, BoundsAssumption DEF Held
  <2>3. row[k] \notin {"cancelled", "error_missing", "settled"}
    BY <2>1, <2>2, BoundsAssumption DEF VisibleInv, ClosedRows
  <2>4. PICK a \in Attempts, l \in Legs : k = <<a, l>>
    BY DEF Keys
  <2>5. row[k] # "none"
    BY <2>2, <2>4 DEF OrderInv, Started, TypeOK, Attempts
  <2>. QED
    BY <2>1, <2>3, <2>5 DEF RowStatus
<1>. QED
  BY <1>1, OrderInit, OrderStep, VisibleInit, VisibleStep, TypeCorrect, PTL DEF Spec

-----------------------------------------------------------------------------
(* The kill-switch and the breaker *)

\* While the process is up, the persisted kill-switch means a paused bot, unless
\* the script persisted it and the process has not heard; an executor that is not
\* paused has fewer than Threshold recent rollbacks.
GateInv ==
  /\ ksDb /\ pc # "down" => botPaused \/ unheard
  /\ ~execPaused /\ pc # "rollback" => recent < Threshold

\* The gates agree with the switch and the breaker at first.
LEMMA GateInit == Init => GateInv
BY BoundsAssumption DEF Init, GateInv

\* Every step keeps the gates in agreement with the switch and the breaker.
LEMMA GateStep == TypeOK /\ GateInv /\ [Next]_vars => GateInv'
<1> SUFFICES ASSUME TypeOK, GateInv, [Next]_vars PROVE GateInv'
  OBVIOUS
<1> USE BoundsAssumption
<1>1. ASSUME NEW stop, NEW trip, Halt(stop, trip)
      PROVE  /\ ksDb' => ksDb \/ stop
             /\ stop => botPaused' /\ execPaused'
             /\ trip => execPaused'
             /\ botPaused => botPaused'
             /\ execPaused => execPaused'
             /\ unheard => unheard' \/ botPaused'
  BY <1>1 DEF Halt, EngageKillSwitch
<1>2. CASE Execute \/ HardKilled \/ HardUnknown \/ Crash
  BY <1>2 DEF Execute, Start, HardKilled, HardUnknown, Crash, GateInv, pauses, ledger
<1>3. CASE HardFills
  <2>1. PICK lost : Halt(lost # {}, FALSE)
    BY <1>3 DEF HardFills
  <2>. QED
    BY <1>1, <1>3, <2>1 DEF HardFills, GateInv
<1>4. ASSUME NEW l \in Legs, CheapAnswers(l) \/ QueryOrders(l) \/ SendSell(l) PROVE GateInv'
  BY <1>4 DEF CheapAnswers, QueryOrders, SendSell, GateInv, ledger, pauses
<1>5. CASE CheapJoin
  <2>1. PICK lost : Halt(lost # {}, FALSE)
    BY <1>5 DEF CheapJoin
  <2>2. pc' \in {"idle", "resolve", "rollback"} /\ (pc' # "rollback" => UNCHANGED recent)
    BY <1>5 DEF CheapJoin, Continue
  <2>. QED
    BY <1>1, <1>5, <2>1, <2>2 DEF CheapJoin, GateInv
<1>6. ASSUME NEW l, NEW held, Judged(l, held), pc \in {"resolve", "position"} PROVE GateInv'
  <2>1. PICK lost : Halt(held /\ lost # {}, FALSE)
    BY <1>6 DEF Judged
  <2>2. pc' \in {"idle", "resolve", "rollback"} /\ (pc' # "rollback" => UNCHANGED recent)
    BY <1>6 DEF Judged, Continue
  <2>. QED
    BY <1>1, <1>6, <2>1, <2>2 DEF GateInv
<1>7. ASSUME NEW l \in Legs, QueryOrdersFails(l) PROVE GateInv'
  BY <1>6, <1>7 DEF QueryOrdersFails
<1>8. CASE QueryPositions \/ QueryPositionsFails
  BY <1>6, <1>8 DEF QueryPositions, QueryPositionsFails
<1>9. ASSUME NEW allClosed, NEW unsaved, LegDone(allClosed, unsaved), pc = "rollback",
             UNCHANGED recent
      PROVE  GateInv'
  <2>1. Halt(unsaved \/ (todo = {leg} /\ ~allClosed), todo = {leg} /\ recent >= Threshold)
    BY <1>9 DEF LegDone, Trips
  <2>2. pc' = (IF todo = {leg} THEN "idle" ELSE "rollback")
    BY <1>9 DEF LegDone
  <2>3. recent \in Nat
    BY DEF TypeOK
  <2>4. (ksDb' => botPaused' \/ unheard') /\ (execPaused => execPaused')
    BY <1>1, <1>9, <2>1 DEF GateInv
  <2>5. todo = {leg} /\ recent >= Threshold => execPaused'
    BY <1>1, <2>1
  <2>6. CASE todo = {leg}
    BY <1>9, <2>2, <2>3, <2>4, <2>5, <2>6 DEF GateInv
  <2>7. CASE todo # {leg}
    BY <2>2, <2>4, <2>7 DEF GateInv
  <2>. QED
    BY <2>6, <2>7
<1>10. CASE SellClosed \/ SellGivenUp
  BY <1>9, <1>10 DEF SellClosed, SellGivenUp
<1>11. CASE SellAgain
  BY <1>11 DEF SellAgain, Retry, GateInv, ledger, pauses
<1>12. CASE WindowExpires
  BY <1>12 DEF WindowExpires, GateInv, TypeOK, ledger, pauses
<1>13. CASE Exchange
  BY <1>13 DEF Exchange, FillBuy, MissBuy, LoseBuy, MatchSell, GateInv, ledger, pauses
<1>14. CASE Boot
  BY <1>14 DEF Boot, Rehydrated, GateInv, local
<1>15. CASE Operator
  <2>1. CASE AdminPause \/ AdminResume
    BY <2>1 DEF AdminPause, AdminResume, GateInv, ledger
  <2>2. CASE EngageByScript
    BY <2>2 DEF EngageByScript, GateInv
  <2>3. CASE EngageElsewhere
    BY <2>3 DEF EngageElsewhere, GateInv
  <2>4. CASE CheckPositions \/ ClearKillSwitch \/ CancelClear
    BY <2>4 DEF CheckPositions, ClearKillSwitch, CancelClear, GateInv, ledger, pauses
  <2>. QED
    BY <1>15, <2>1, <2>2, <2>3, <2>4 DEF Operator
<1>16. CASE UNCHANGED vars
  BY <1>16 DEF vars, GateInv, ledger, pauses
<1>. QED
  BY <1>2, <1>3, <1>4, <1>5, <1>7, <1>8, <1>10, <1>11, <1>12, <1>13, <1>14, <1>15, <1>16
  DEF Next, Executor

\* Only Execute starts an attempt, and it asks every pause first.
LEMMA StartIsExecute ==
  ASSUME [Next]_vars, att' # att
  PROVE  pc = "idle" /\ ~execPaused /\ ~botPaused
<1>1. CASE Execute
  BY <1>1 DEF Execute, Start
<1>2. CASE Executor \/ WindowExpires
  BY <1>2 DEF Executor, HardFills, HardKilled, HardUnknown, CheapAnswers, CheapJoin,
       QueryOrders, QueryOrdersFails, QueryPositions, QueryPositionsFails, SendSell,
       SellClosed, SellAgain, Retry, SellGivenUp, WindowExpires
<1>3. CASE Exchange \/ Crash \/ Boot \/ Operator
  BY <1>3 DEF Exchange, FillBuy, MissBuy, LoseBuy, MatchSell, Crash, Boot, Rehydrated, Operator,
       AdminPause, AdminResume, EngageByScript,
       EngageElsewhere, CheckPositions, ClearKillSwitch,
       CancelClear
<1>4. CASE UNCHANGED vars
  BY <1>4 DEF vars
<1>. QED
  BY <1>1, <1>2, <1>3, <1>4 DEF Next

\* While the kill-switch is persisted no attempt starts, across restarts and
\* resumes, except in a process that engage_kill_switch.py found running unpaused
\* and whose POST has not reached it.
THEOREM KillSwitchStops == Spec => KillSwitchBlocks
<1>1. GateInv /\ [Next]_vars => [att' # att => ~ksDb \/ unheard]_vars
  BY StartIsExecute DEF GateInv
<1>. QED
  BY <1>1, GateInit, GateStep, TypeCorrect, PTL DEF Spec, KillSwitchBlocks

\* No attempt starts with Threshold rollbacks in the window of the breaker.
THEOREM BreakerStops == Spec => BreakerBlocks
<1>1. GateInv /\ [Next]_vars => [att' # att => recent < Threshold]_vars
  BY StartIsExecute DEF GateInv
<1>. QED
  BY <1>1, GateInit, GateStep, TypeCorrect, PTL DEF Spec, BreakerBlocks

-----------------------------------------------------------------------------
(* The executor implements AtomicArb *)

\* The failures the promise is made for: the process stays up, a buy may go
\* unanswered, a row or the kill-switch may fail to be written, and every leg
\* has a market of its own.
WithinItsFailures ==
  /\ MaxCrashes = 0
  /\ Faults \subseteq {"lostbuy", "rowwrite", "kswrite", "script", "elsewhere"}
  /\ \A j, k \in Keys : Ticker[j] = Ticker[k] => j = k

Bought(k) == ord[k] = "executed"

\* The process is up, and attempts to come have no rows.
AheadInv ==
  /\ pc # "down" /\ execOn
  /\ \A a \in Attempts : a > att => row[<<a, HardLeg>>] = "none"

\* A buy is under way only while execute() awaits it.
FlyingInv ==
  \A a \in Attempts, l \in Legs :
    ord[<<a, l>>] = "flying" =>
      /\ a = att
      /\ (pc = "hard" /\ l = HardLeg) \/ (pc = "cheap" /\ res[l] = "none")

\* What is bought of a leg is sold whole or not at all, and its market shows it.
AllOrNone ==
  \A k \in Keys :
    /\ sold[k] = 0 \/ (sold[k] = Count /\ Bought(k))
    /\ pos[Ticker[k]] = Signed(k[2], Held(k))

\* Before the rollback nothing is sold, and what the legs answered is true.
BuyStage ==
  /\ pc \in {"hard", "cheap", "resolve", "position"} => \A l \in Legs : sold[Key(l)] = 0
  /\ pc = "hard" => /\ \A l \in CheapLegs : ord[Key(l)] = "none"
                    /\ \A l \in Legs : res[l] = "none"
  /\ pc = "cheap" => \A l \in Legs : /\ res[l] = "FILL" => Bought(Key(l))
                                     /\ res[l] = "KILL" => ord[Key(l)] = "canceled"

\* While legs are reconciled, those not to reconcile any more are in seen if and
\* only if they were bought.
JudgeStage ==
  /\ pc \in {"resolve", "position"} =>
       /\ seen \intersect todo = {}
       /\ \A l \in Legs \ todo : l \in seen <=> Bought(Key(l))
  /\ pc = "position" => leg \in todo /\ (said <=> Bought(Key(leg)))

\* The rollback still has to sell what is in todo, all of it bought; what it
\* passed over unsold it has not forgotten.
UnwindStage ==
  /\ pc = "rollback" =>
       /\ \A l \in todo : Bought(Key(l)) /\ (sold[Key(l)] = 0 \/ (l = leg /\ sell = "full"))
       /\ \A l \in Legs \ todo : Bought(Key(l)) /\ sold[Key(l)] = 0 => ~clean
  /\ sell # "none" => pc = "rollback" /\ leg \in todo
  /\ sell = "full" => sold[Key(leg)] = Count

\* An attempt that ended with some of its legs has stopped the executor.
StuckInv == \A a \in Attempts : OutcomeOf(a) = "stuck" => execPaused

CoreInv == AheadInv /\ FlyingInv /\ AllOrNone /\ BuyStage /\ JudgeStage /\ UnwindStage

\* A leg counts for yes or against it.
LEMMA SignedIs ==
  ASSUME NEW l, NEW n \in Int
  PROVE  /\ Signed(l, n) = (IF l \in YesLegs THEN n ELSE 0 - n) /\ Signed(l, n) \in Int
         /\ Signed(l, n) = 0 <=> n = 0
BY DEF Signed

\* The key of a leg is of the attempt that runs.
LEMMA KeyIs == \A l \in Legs : att \in Attempts => Key(l) \in Keys /\ Key(l)[1] = att /\ Key(l)[2] = l
BY DEF Key, Keys

\* Under AllOrNone a leg is held whole or not at all.
LEMMA HeldIs ==
  ASSUME TypeOK, AllOrNone, NEW k \in Keys
  PROVE  /\ Held(k) = (IF Bought(k) /\ sold[k] = 0 THEN Count ELSE 0)
         /\ pos[Ticker[k]] = 0 <=> ~(Bought(k) /\ sold[k] = 0)
<1>1. sold[k] \in Nat /\ (sold[k] = 0 \/ (sold[k] = Count /\ Bought(k)))
  BY DEF TypeOK, AllOrNone
<1>2. Held(k) = (IF Bought(k) /\ sold[k] = 0 THEN Count ELSE 0)
  BY <1>1, BoundsAssumption DEF Held, Bought
<1>3. pos[Ticker[k]] = Signed(k[2], Held(k)) /\ Held(k) \in Int
  BY <1>2, BoundsAssumption DEF AllOrNone
<1>4. Signed(k[2], Held(k)) = 0 <=> Held(k) = 0
  BY <1>3, SignedIs
<1>. QED
  BY <1>2, <1>3, <1>4, BoundsAssumption

\* There is no attempt at first.
LEMMA CoreInit == Init => CoreInv
<1> SUFFICES ASSUME Init PROVE CoreInv
  OBVIOUS
<1> USE LegsAssumption, BoundsAssumption
<1>1. AheadInv
  BY DEF Init, AheadInv, Keys
<1>2. FlyingInv
  BY DEF Init, FlyingInv, Keys
<1>3. AllOrNone
  <2> SUFFICES ASSUME NEW k \in Keys
               PROVE  sold[k] = 0 /\ pos[Ticker[k]] = Signed(k[2], Held(k))
    BY DEF AllOrNone
  <2>1. sold[k] = 0 /\ Held(k) = 0
    BY DEF Init, Held
  <2>2. pos[Ticker[k]] = 0
    BY DEF Init, Tickers
  <2>. QED
    BY <2>1, <2>2, SignedIs
<1>4. BuyStage /\ JudgeStage /\ UnwindStage
  BY DEF Init, BuyStage, JudgeStage, UnwindStage
<1>. QED
  BY <1>1, <1>2, <1>3, <1>4 DEF CoreInv

\* What a step keeps of AllOrNone when it neither buys nor sells.
LEMMA AllOrNoneKept ==
  ASSUME AllOrNone, UNCHANGED <<sold, pos>>,
         \A k \in Keys : (ord[k] = "executed") <=> (ord'[k] = "executed")
  PROVE  AllOrNone'
<1> SUFFICES ASSUME NEW k \in Keys
             PROVE  /\ sold'[k] = 0 \/ (sold'[k] = Count /\ ord'[k] = "executed")
                    /\ pos'[Ticker[k]] = Signed(k[2], Held(k)')
  BY DEF AllOrNone, Bought
<1>1. Held(k)' = Held(k)
  BY DEF Held
<1>. QED
  BY <1>1 DEF AllOrNone, Bought

\* Continue meets the stage it moves to, if what it is told is true.
LEMMA ContinueCore ==
  ASSUME TypeOK, NEW A \in SUBSET Legs, NEW B \in SUBSET Legs, Continue(A, B),
         UNCHANGED <<exchange, att>>, sell = "none",
         A \intersect B = {},
         \A l \in Legs \ A : l \in B <=> Bought(Key(l)),
         \A l \in Legs : sold[Key(l)] = 0
  PROVE  BuyStage' /\ JudgeStage' /\ UnwindStage'
<1>1. UNCHANGED <<ord, sold, sell, att>> /\ \A l \in Legs : Key(l)' = Key(l)
  BY DEF exchange, Key
<1>2. BuyStage'
  BY <1>1 DEF Continue, BuyStage
<1>3. JudgeStage'
  BY <1>1 DEF Continue, JudgeStage, Bought
<1>4. UnwindStage'
  BY <1>1 DEF Continue, UnwindStage, Bought
<1>. QED
  BY <1>2, <1>3, <1>4

\* The legs are asked for one after the other, and nothing is being sold yet.
LEMMA NothingFlies ==
  ASSUME FlyingInv, OrderInv, TypeOK, pc \in {"resolve", "position", "rollback", "idle"}
  PROVE  \A k \in Keys : ord[k] # "flying"
BY DEF FlyingInv, Keys

\* Nothing is in flight if no order flies.
LEMMA FlyingGone ==
  ASSUME \A k \in Keys : ord[k] # "flying", UNCHANGED ord
  PROVE  FlyingInv'
<1>1. \A a \in Attempts, l \in Legs : <<a, l>> \in Keys
  BY DEF Keys
<1>. QED
  BY <1>1 DEF FlyingInv

\* The attempts to come stay untouched.
LEMMA AheadKept ==
  ASSUME TypeOK, AheadInv, pc' # "down", execOn', att' = att,
         \A a \in Attempts : a > att => row'[<<a, HardLeg>>] = row[<<a, HardLeg>>]
  PROVE  AheadInv'
BY DEF AheadInv

\* A write to rows of the current attempt touches no attempt to come.
LEMMA WriteBehind ==
  ASSUME TypeOK, NEW r \in [Keys -> RowStatus], NEW W, NEW s, NEW lost, \A k \in W : k[1] = att,
         NEW a \in Attempts, a > att
  PROVE  Written(r, W, s, lost)[<<a, HardLeg>>] = r[<<a, HardLeg>>]
<1>1. <<a, HardLeg>> \in Keys /\ <<a, HardLeg>>[1] = a /\ a # att
  BY LegsAssumption DEF Keys, TypeOK, Attempts
<1>2. <<a, HardLeg>> \notin W
  BY <1>1
<1>. QED
  BY <1>1, <1>2, WrittenEffect

\* The start of an attempt (execute).
LEMMA CoreExecute ==
  ASSUME TypeOK, OrderInv, CoreInv, Execute PROVE CoreInv'
<1> USE LegsAssumption, BoundsAssumption
<1>0. \A a \in Attempts : \A l \in Legs : <<a, l>> \in Keys
  BY DEF Keys
<1>1. /\ pc = "idle" /\ pc' = "hard" /\ att' = att + 1 /\ att + 1 \in Attempts
      /\ UNCHANGED <<pauses, sold, pos, sell, todo, tries, clean, recent, process>>
      /\ att \in 0..MaxAttempts
  BY DEF Execute, Start, TypeOK, Attempts
<1>2. ASSUME NEW a \in Attempts, NEW l \in Legs
      PROVE  /\ a = att + 1 /\ l = HardLeg => ord'[<<a, l>>] = "flying"
             /\ a # att + 1 \/ l # HardLeg => ord'[<<a, l>>] = ord[<<a, l>>]
  BY <1>0 DEF Execute, Start, TypeOK
<1>3. \A l \in Legs : ord[<<att + 1, l>>] = "none" /\ sold[<<att + 1, l>>] = 0
  <2> SUFFICES ASSUME NEW l \in Legs
               PROVE  ord[<<att + 1, l>>] = "none" /\ sold[<<att + 1, l>>] = 0
    OBVIOUS
  <2>1. ord[<<att + 1, l>>] = "none"
    BY <1>1 DEF OrderInv, Started
  <2>. QED
    BY <2>1, <1>1, <1>0 DEF CoreInv, AllOrNone, Bought
<1>4. AheadInv'
  <2> SUFFICES ASSUME NEW a \in Attempts, a > att + 1
               PROVE  row'[<<a, HardLeg>>] = "none"
    BY <1>1 DEF CoreInv, AheadInv, process
  <2>1. a # att + 1 /\ a > att
    BY <1>1 DEF Attempts
  <2>2. row[<<a, HardLeg>>] = "none"
    BY <2>1 DEF CoreInv, AheadInv
  <2>3. row' = Written(row, {att + 1} \X Legs, "pending", {}) /\ <<a, HardLeg>> \in Keys
    BY <1>0 DEF Execute, Start
  <2>4. <<a, HardLeg>> \notin {att + 1} \X Legs
    BY <2>1
  <2>. QED
    BY <2>2, <2>3, <2>4 DEF Written
<1>5. FlyingInv'
  <2> SUFFICES ASSUME NEW a \in Attempts, NEW l \in Legs, ord'[<<a, l>>] = "flying"
               PROVE  a = att + 1 /\ l = HardLeg
    BY <1>1 DEF FlyingInv
  <2>1. ord[<<a, l>>] # "flying"
    BY <1>1 DEF CoreInv, FlyingInv
  <2>. QED
    BY <1>2, <2>1
<1>6. AllOrNone'
  <2>1. \A k \in Keys : (ord[k] = "executed") <=> (ord'[k] = "executed")
    <3> SUFFICES ASSUME NEW a \in Attempts, NEW l \in Legs
                 PROVE  (ord[<<a, l>>] = "executed") <=> (ord'[<<a, l>>] = "executed")
      BY DEF Keys
    <3>. QED
      BY <1>2, <1>3
  <2>. QED
    BY <1>1, <2>1, AllOrNoneKept DEF CoreInv
<1>7. BuyStage'
  <2>1. \A l \in Legs : Key(l)' = <<att + 1, l>>
    BY <1>1 DEF Key
  <2>2. \A l \in Legs : res'[l] = "none"
    BY DEF Execute, Start
  <2>3. \A l \in CheapLegs : l \in Legs /\ l # HardLeg
    BY DEF CheapLegs
  <2>. QED
    BY <1>1, <1>2, <1>3, <2>1, <2>2, <2>3 DEF BuyStage
<1>8. JudgeStage' /\ UnwindStage'
  BY <1>1 DEF CoreInv, JudgeStage, UnwindStage
<1>. QED
  BY <1>4, <1>5, <1>6, <1>7, <1>8 DEF CoreInv

\* The hard leg fills.
LEMMA CoreHardFills ==
  ASSUME WithinItsFailures, TypeOK, OrderInv, CoreInv, HardFills PROVE CoreInv'
<1> USE LegsAssumption, BoundsAssumption
<1>0. \A a \in Attempts : \A l \in Legs : <<a, l>> \in Keys
  BY DEF Keys
<1>1. /\ pc = "hard" /\ pc' = "cheap" /\ att \in Attempts /\ ord[<<att, HardLeg>>] = "executed"
      /\ res' = [res EXCEPT ![HardLeg] = "FILL"]
      /\ UNCHANGED <<sold, pos, sell, att, todo, seen, leg, said, tries, clean, recent, process>>
  BY DEF HardFills, Outcomes, TypeOK, Key
<1>2. ASSUME NEW a \in Attempts, NEW l \in Legs
      PROVE  /\ a = att /\ l # HardLeg => ord'[<<a, l>>] = "flying"
             /\ a # att \/ l = HardLeg => ord'[<<a, l>>] = ord[<<a, l>>]
  BY <1>0 DEF HardFills, CheapLegs
<1>3. /\ \A l \in Legs : l # HardLeg => ord[<<att, l>>] = "none"
      /\ \A l \in Legs : res[l] = "none" /\ sold[<<att, l>>] = 0
  BY <1>1 DEF CoreInv, BuyStage, Key, CheapLegs
<1>4. AheadInv'
  <2>1. PICK lost : row' = Written(row, {Key(HardLeg)}, "filled", lost)
    BY DEF HardFills
  <2>2. \A k \in {Key(HardLeg)} : k[1] = att
    BY DEF Key
  <2>3. \A a \in Attempts : a > att => row'[<<a, HardLeg>>] = row[<<a, HardLeg>>]
    BY <2>1, <2>2, WriteBehind DEF TypeOK
  <2>. QED
    BY <1>1, <2>3, AheadKept DEF CoreInv, AheadInv, process
<1>5. \A l \in Legs : l # HardLeg => res'[l] = "none"
  BY <1>1, <1>3 DEF TypeOK
<1>6. FlyingInv'
  <2> SUFFICES ASSUME NEW a \in Attempts, NEW l \in Legs, ord'[<<a, l>>] = "flying"
               PROVE  a = att /\ res'[l] = "none"
    BY <1>1 DEF FlyingInv
  <2>1. ord[<<a, l>>] = "flying" => a = att /\ l = HardLeg
    BY <1>1 DEF CoreInv, FlyingInv
  <2>. QED
    BY <1>1, <1>2, <1>5, <2>1
<1>7. AllOrNone'
  <2>1. \A k \in Keys : (ord[k] = "executed") <=> (ord'[k] = "executed")
    <3> SUFFICES ASSUME NEW a \in Attempts, NEW l \in Legs
                 PROVE  (ord[<<a, l>>] = "executed") <=> (ord'[<<a, l>>] = "executed")
      BY DEF Keys
    <3>. QED
      BY <1>2, <1>3
  <2>. QED
    BY <1>1, <2>1, AllOrNoneKept DEF CoreInv
<1>8. BuyStage'
  <2>1. \A l \in Legs : Key(l)' = <<att, l>>
    BY <1>1 DEF Key
  <2>2. ord'[<<att, HardLeg>>] = "executed"
    BY <1>1, <1>2
  <2>. QED
    BY <1>1, <1>3, <1>5, <2>1, <2>2 DEF BuyStage, Bought
<1>9. JudgeStage' /\ UnwindStage'
  BY <1>1 DEF CoreInv, JudgeStage, UnwindStage
<1>. QED
  BY <1>4, <1>6, <1>7, <1>8, <1>9 DEF CoreInv

\* The hard leg is killed, or its answer is lost.
LEMMA CoreHardEnds ==
  ASSUME WithinItsFailures, TypeOK, OrderInv, CoreInv, HardKilled \/ HardUnknown PROVE CoreInv'
<1> USE LegsAssumption, BoundsAssumption
<1>1. /\ pc = "hard" /\ pc' \in {"idle", "resolve"} /\ att \in Attempts
      /\ UNCHANGED <<exchange, att, process>>
      /\ ord[Key(HardLeg)] # "flying"
  BY DEF HardKilled, HardUnknown, Outcomes, TypeOK, WithinItsFailures
<1>2. UNCHANGED <<ord, sold, pos, sell>> /\ sell = "none" /\ \A l \in Legs : Key(l)' = Key(l)
  BY <1>1 DEF exchange, CoreInv, UnwindStage, Key
<1>3. AheadInv'
  <2>1. PICK W, lost : row' = Written(row, W, "cancelled", lost) /\ W \subseteq {att} \X Legs
    BY DEF HardKilled, HardUnknown, CheapLegs
  <2>2. \A k \in W : k[1] = att
    BY <2>1
  <2>3. \A a \in Attempts : a > att => row'[<<a, HardLeg>>] = row[<<a, HardLeg>>]
    BY <2>1, <2>2, WriteBehind DEF TypeOK
  <2>. QED
    BY <1>1, <2>3, AheadKept DEF CoreInv, AheadInv, process
<1>4. \A k \in Keys : ord[k] # "flying"
  BY <1>1 DEF CoreInv, FlyingInv, Keys, Key
<1>5. FlyingInv'
  BY <1>2, <1>4, FlyingGone
<1>6. AllOrNone'
  BY <1>2, AllOrNoneKept DEF CoreInv
<1>7. (\A l \in Legs : sold[Key(l)] = 0) /\ \A l \in CheapLegs : ord[Key(l)] = "none"
  BY <1>1 DEF CoreInv, BuyStage
<1>8. BuyStage' /\ UnwindStage'
  BY <1>1, <1>2, <1>7 DEF BuyStage, UnwindStage
<1>9. JudgeStage'
  <2>1. pc' = "resolve" => todo' = {HardLeg} /\ seen' = {}
    BY <1>1 DEF HardKilled, HardUnknown
  <2>2. \A l \in Legs \ {HardLeg} : ~Bought(Key(l))
    BY <1>7 DEF CheapLegs, Bought
  <2>. QED
    BY <1>1, <1>2, <2>1, <2>2 DEF JudgeStage, Bought
<1>. QED
  BY <1>3, <1>5, <1>6, <1>8, <1>9 DEF CoreInv

\* A cheap leg answers.
LEMMA CoreCheapAnswers ==
  ASSUME WithinItsFailures, TypeOK, OrderInv, CoreInv, NEW l \in Legs, CheapAnswers(l)
  PROVE  CoreInv'
<1>1. /\ pc = "cheap" /\ pc' = pc /\ res[l] = "none" /\ att \in Attempts
      /\ UNCHANGED <<row, ord, sold, pos, sell, att, execOn>>
      /\ \A j \in Legs : Key(j)' = Key(j)
  BY DEF CheapAnswers, TypeOK, ledger, exchange, process, Key
<1>2. PICK r \in Outcomes(l) : res' = [res EXCEPT ![l] = r]
  BY DEF CheapAnswers
<1>3. /\ r = "FILL" => ord[Key(l)] = "executed"
      /\ r = "KILL" => ord[Key(l)] = "canceled"
      /\ ord[Key(l)] # "flying"
  BY <1>2 DEF Outcomes, WithinItsFailures
<1>4. res'[l] = r /\ \A j \in Legs : j # l => res'[j] = res[j]
  BY <1>2 DEF TypeOK
<1>5. AheadInv' /\ AllOrNone'
  BY <1>1, AheadKept, AllOrNoneKept DEF CoreInv, AheadInv
<1>6. FlyingInv'
  BY <1>1, <1>3, <1>4 DEF CoreInv, FlyingInv, Key
<1>7. BuyStage'
  BY <1>1, <1>3, <1>4 DEF CoreInv, BuyStage, Bought
<1>8. JudgeStage' /\ UnwindStage'
  BY <1>1 DEF CoreInv, JudgeStage, UnwindStage
<1>. QED
  BY <1>5, <1>6, <1>7, <1>8 DEF CoreInv

\* All cheap legs have answered: the attempt is whole, or is to be resolved.
LEMMA CoreCheapJoin ==
  ASSUME WithinItsFailures, TypeOK, OrderInv, CoreInv, CheapJoin PROVE CoreInv'
<1> USE LegsAssumption, BoundsAssumption
<1>1. /\ pc = "cheap" /\ (\A l \in Legs : res[l] # "none") /\ att \in Attempts
      /\ UNCHANGED <<ord, sold, pos, sell, att, execOn>> /\ sell = "none"
      /\ UNCHANGED exchange
  BY DEF CheapJoin, TypeOK, exchange, process, CoreInv, UnwindStage
<1>2. \A l \in Legs : Key(l)' = Key(l)
  BY <1>1 DEF Key
<1>3. pc' # "down"
  BY DEF CheapJoin, Continue
<1>4. AheadInv'
  <2>1. PICK lostFill, lostKill :
          row' = Written(Written(row, {att} \X (LegsThat("FILL") \ {HardLeg}), "filled", lostFill),
                         {att} \X LegsThat("KILL"), "cancelled", lostKill)
    BY DEF CheapJoin
  <2> DEFINE between == Written(row, {att} \X (LegsThat("FILL") \ {HardLeg}), "filled", lostFill)
  <2>2. between \in [Keys -> RowStatus]
    BY WrittenType, Statuses DEF TypeOK
  <2>3. \A a \in Attempts : a > att => between[<<a, HardLeg>>] = row[<<a, HardLeg>>]
    BY WriteBehind DEF TypeOK
  <2>4. row' = Written(between, {att} \X LegsThat("KILL"), "cancelled", lostKill)
    BY <2>1
  <2> HIDE DEF between
  <2>5. \A a \in Attempts : a > att => row'[<<a, HardLeg>>] = between[<<a, HardLeg>>]
    BY <2>2, <2>4, WriteBehind
  <2>. QED
    BY <1>1, <1>3, <2>3, <2>5, AheadKept DEF CoreInv, AheadInv
<1>5. \A k \in Keys : ord[k] # "flying"
  BY <1>1 DEF CoreInv, FlyingInv, Keys
<1>6. FlyingInv' /\ AllOrNone'
  BY <1>1, <1>5, FlyingGone, AllOrNoneKept DEF CoreInv
<1>7. CASE LegsThat("FILL") = Legs
  <2>1. pc' = "idle"
    BY <1>7 DEF CheapJoin
  <2>. QED
    BY <1>1, <1>4, <1>6, <2>1 DEF CoreInv, BuyStage, JudgeStage, UnwindStage
<1>8. CASE LegsThat("FILL") # Legs
  <2>1. Continue(LegsThat("ERROR_RED"), LegsThat("FILL"))
    BY <1>8 DEF CheapJoin
  <2>2. /\ LegsThat("ERROR_RED") \in SUBSET Legs /\ LegsThat("FILL") \in SUBSET Legs
        /\ LegsThat("ERROR_RED") \intersect LegsThat("FILL") = {}
    BY DEF LegsThat
  <2>3. \A l \in Legs \ LegsThat("ERROR_RED") : l \in LegsThat("FILL") <=> Bought(Key(l))
    <3> SUFFICES ASSUME NEW l \in Legs, res[l] # "ERROR_RED"
                 PROVE  res[l] = "FILL" <=> Bought(Key(l))
      BY DEF LegsThat
    <3>1. res[l] \in {"FILL", "KILL"}
      BY <1>1 DEF TypeOK, LegState
    <3>. QED
      BY <1>1, <3>1 DEF CoreInv, BuyStage, Bought
  <2>4. \A l \in Legs : sold[Key(l)] = 0
    BY <1>1 DEF CoreInv, BuyStage
  <2>. QED
    BY <1>1, <1>4, <1>6, <2>1, <2>2, <2>3, <2>4, ContinueCore DEF CoreInv
<1>. QED
  BY <1>7, <1>8

\* The first source, the orders, answers for a leg.
LEMMA CoreQueryOrders ==
  ASSUME TypeOK, OrderInv, CoreInv, NEW l \in Legs, QueryOrders(l) PROVE CoreInv'
<1>1. /\ pc = "resolve" /\ pc' = "position" /\ l \in todo /\ leg' = l /\ att \in Attempts
      /\ said' = (ord[Key(l)] = "executed") /\ sell = "none"
      /\ UNCHANGED <<row, ord, sold, pos, sell, att, todo, seen, execOn>>
      /\ \A j \in Legs : Key(j)' = Key(j)
  BY DEF QueryOrders, TypeOK, ledger, exchange, process, Key, CoreInv, UnwindStage
<1>2. \A k \in Keys : ord[k] # "flying"
  BY <1>1, NothingFlies DEF CoreInv
<1>3. AheadInv' /\ AllOrNone' /\ FlyingInv'
  BY <1>1, <1>2, AheadKept, AllOrNoneKept, FlyingGone DEF CoreInv, AheadInv
<1>4. BuyStage' /\ UnwindStage'
  BY <1>1 DEF CoreInv, BuyStage, UnwindStage
<1>5. JudgeStage'
  BY <1>1 DEF CoreInv, JudgeStage, Bought
<1>. QED
  BY <1>3, <1>4, <1>5 DEF CoreInv

\* The second source, the positions, answers for those in doubt.
LEMMA CoreQueryPositions ==
  ASSUME TypeOK, OrderInv, CoreInv, QueryPositions PROVE CoreInv'
<1> DEFINE held == said \/ pos[Ticker[Key(leg)]] # 0
<1>1. /\ pc = "position" /\ leg \in todo /\ leg \in Legs /\ att \in Attempts /\ sell = "none"
      /\ UNCHANGED <<ord, sold, pos, sell, att, execOn>> /\ UNCHANGED exchange
  BY DEF QueryPositions, TypeOK, exchange, process, CoreInv, JudgeStage, UnwindStage
<1>2. Judged(leg, held) /\ held \in BOOLEAN
  BY DEF QueryPositions, TypeOK
<1>3. \A l \in Legs : sold[Key(l)] = 0
  BY <1>1 DEF CoreInv, BuyStage
<1>4. held <=> Bought(Key(leg))
  <2>1. said <=> Bought(Key(leg))
    BY <1>1 DEF CoreInv, JudgeStage
  <2>2. Key(leg) \in Keys
    BY <1>1, KeyIs
  <2>3. pos[Ticker[Key(leg)]] = 0 <=> ~(Bought(Key(leg)) /\ sold[Key(leg)] = 0)
    BY <2>2, HeldIs DEF CoreInv
  <2>. QED
    BY <1>1, <1>3, <2>1, <2>3
<1> HIDE DEF held
<1>5. Continue(todo \ {leg}, IF held THEN seen \union {leg} ELSE seen)
  BY <1>2 DEF Judged
<1>6. pc' # "down"
  BY <1>5 DEF Continue
<1>7. AheadInv'
  <2>1. PICK lost : row' = Written(row, {Key(leg)}, IF held THEN "filled" ELSE "cancelled", lost)
    BY <1>2 DEF Judged
  <2>2. \A k \in {Key(leg)} : k[1] = att
    BY DEF Key
  <2>3. \A a \in Attempts : a > att => row'[<<a, HardLeg>>] = row[<<a, HardLeg>>]
    BY <2>1, <2>2, WriteBehind DEF TypeOK
  <2>. QED
    BY <1>1, <1>6, <2>3, AheadKept DEF CoreInv, AheadInv
<1>8. \A k \in Keys : ord[k] # "flying"
  BY <1>1, NothingFlies DEF CoreInv
<1>9. AllOrNone' /\ FlyingInv'
  BY <1>1, <1>8, AllOrNoneKept, FlyingGone DEF CoreInv
<1>10. PICK B : B = (IF held THEN seen \union {leg} ELSE seen)
  OBVIOUS
<1>11. /\ \A l \in Legs \ todo : l \in seen <=> Bought(Key(l))
       /\ seen \intersect todo = {} /\ todo \subseteq Legs /\ seen \subseteq Legs
  BY <1>1 DEF CoreInv, JudgeStage, TypeOK
<1>12. (todo \ {leg}) \intersect B = {} /\ B \subseteq Legs
  BY <1>1, <1>10, <1>11
<1>13. \A l \in Legs \ (todo \ {leg}) : l \in B <=> Bought(Key(l))
  BY <1>1, <1>4, <1>10, <1>11
<1>. QED
  BY <1>1, <1>3, <1>5, <1>7, <1>9, <1>10, <1>11, <1>12, <1>13, ContinueCore DEF CoreInv

\* A rollback sends its sell.
LEMMA CoreSendSell ==
  ASSUME TypeOK, OrderInv, CoreInv, NEW l \in Legs, SendSell(l) PROVE CoreInv'
<1>1. /\ pc = "rollback" /\ pc' = pc /\ l \in todo /\ leg' = l /\ att \in Attempts
      /\ sell = "none" /\ sell' = "sent"
      /\ UNCHANGED <<row, ord, sold, pos, att, todo, seen, clean, execOn>>
      /\ \A j \in Legs : Key(j)' = Key(j)
  BY DEF SendSell, TypeOK, ledger, process, Key
<1>2. \A k \in Keys : ord[k] # "flying"
  BY <1>1, NothingFlies DEF CoreInv
<1>3. AheadInv' /\ AllOrNone' /\ FlyingInv'
  BY <1>1, <1>2, AheadKept, AllOrNoneKept, FlyingGone DEF CoreInv, AheadInv
<1>4. BuyStage' /\ JudgeStage'
  BY <1>1 DEF BuyStage, JudgeStage
<1>5. UnwindStage'
  BY <1>1 DEF CoreInv, UnwindStage, Bought, TypeOK
<1>. QED
  BY <1>3, <1>4, <1>5 DEF CoreInv

\* A leg is sold, or given up with the switch.
LEMMA CoreSold ==
  ASSUME WithinItsFailures, TypeOK, OrderInv, CoreInv, SellClosed \/ SellGivenUp PROVE CoreInv'
<1> USE BoundsAssumption
<1>1. /\ pc = "rollback" /\ att \in Attempts /\ leg \in todo
      /\ UNCHANGED <<ord, sold, pos, att, leg, execOn>>
      /\ \A j \in Legs : Key(j)' = Key(j)
      /\ sell = "full" \/ SellGivenUp
  BY DEF SellClosed, SellGivenUp, NotSold, TypeOK, process, Key, CoreInv, UnwindStage
<1>2. PICK allClosed, unsaved :
        /\ LegDone(allClosed, unsaved)
        /\ allClosed => clean /\ sell = "full"
  <2>1. CASE SellClosed
    <3>1. sell = "full" /\ \E lost : LegDone(clean, lost # {})
      BY <2>1 DEF SellClosed
    <3>. QED
      BY <3>1
  <2>2. CASE SellGivenUp
    <3>1. \E lost : LegDone(FALSE, lost # {})
      BY <2>2 DEF SellGivenUp
    <3>. QED
      BY <3>1
  <2>. QED
    BY <2>1, <2>2
<1>3. /\ sell' = "none" /\ todo' = todo \ {leg} /\ pc' \in {"idle", "rollback"}
      /\ pc' = "rollback" => (clean' => allClosed)
  BY <1>2 DEF LegDone
<1>4. AheadInv'
  <2>1. PICK W, s, lost : (row' = Written(row, W, s, lost) /\ W \subseteq {Key(leg)}) \/ row' = row
    BY DEF SellClosed, SellGivenUp
  <2>2. \A k \in W : W \subseteq {Key(leg)} => k[1] = att
    BY DEF Key
  <2>3. \A a \in Attempts : a > att => row'[<<a, HardLeg>>] = row[<<a, HardLeg>>]
    BY <2>1, <2>2, WriteBehind DEF TypeOK
  <2>. QED
    BY <1>1, <1>3, <2>3, AheadKept DEF CoreInv, AheadInv
<1>5. \A k \in Keys : ord[k] # "flying"
  BY <1>1, NothingFlies DEF CoreInv
<1>6. AllOrNone' /\ FlyingInv'
  BY <1>1, <1>5, AllOrNoneKept, FlyingGone DEF CoreInv
<1>7. BuyStage' /\ JudgeStage'
  BY <1>3 DEF BuyStage, JudgeStage
<1>8. UnwindStage'
  <2>1. sell = "full" => sold[Key(leg)] = Count
    BY DEF CoreInv, UnwindStage
  <2>2. ASSUME NEW l \in todo, l # leg PROVE Bought(Key(l)) /\ sold[Key(l)] = 0
    BY <1>1, <2>2 DEF CoreInv, UnwindStage
  <2>3. ASSUME pc' = "rollback", NEW l \in Legs \ (todo \ {leg}), Bought(Key(l)), sold[Key(l)] = 0
        PROVE  ~clean'
    <3>1. CASE l = leg
      BY <1>2, <1>3, <2>1, <2>3, <3>1
    <3>2. CASE l # leg
      <4>1. ~clean
        BY <1>1, <2>3, <3>2 DEF CoreInv, UnwindStage
      <4>. QED
        BY <1>2, <1>3, <2>3, <4>1
    <3>. QED
      BY <3>1, <3>2
  <2>. QED
    BY <1>1, <1>3, <2>2, <2>3 DEF UnwindStage, Bought, TypeOK
<1>. QED
  BY <1>4, <1>6, <1>7, <1>8 DEF CoreInv

\* A sell is sent again.
LEMMA CoreSellAgain ==
  ASSUME WithinItsFailures, TypeOK, OrderInv, CoreInv, SellAgain PROVE CoreInv'
<1>1. /\ pc = "rollback" /\ pc' = pc /\ att \in Attempts /\ sell = "short" /\ sell' = "none"
      /\ UNCHANGED <<row, ord, sold, pos, att, todo, seen, leg, clean, execOn>>
      /\ \A j \in Legs : Key(j)' = Key(j)
  BY DEF SellAgain, Retry, NotSold, WithinItsFailures, TypeOK, ledger, process, Key
<1>2. \A k \in Keys : ord[k] # "flying"
  BY <1>1, NothingFlies DEF CoreInv
<1>3. AheadInv' /\ AllOrNone' /\ FlyingInv'
  BY <1>1, <1>2, AheadKept, AllOrNoneKept, FlyingGone DEF CoreInv, AheadInv
<1>4. BuyStage' /\ JudgeStage'
  BY <1>1 DEF BuyStage, JudgeStage
<1>5. UnwindStage'
  BY <1>1 DEF CoreInv, UnwindStage, Bought, TypeOK
<1>. QED
  BY <1>3, <1>4, <1>5 DEF CoreInv

\* The window, the operator and a step that changes nothing.
LEMMA CoreQuiet ==
  ASSUME TypeOK, CoreInv,
         WindowExpires \/ Operator \/ UNCHANGED vars
  PROVE  CoreInv'
<1>1. UNCHANGED <<row, exchange, att, pc, local, execOn>>
  BY DEF WindowExpires, Operator, AdminPause, AdminResume, EngageByScript,
       EngageElsewhere, CheckPositions, ClearKillSwitch,
     CancelClear, vars, ledger, process
<1>2. /\ UNCHANGED <<ord, sold, pos, sell, att, pc, res, todo, seen, leg, said, clean>>
      /\ leg \in Legs /\ todo \subseteq Legs /\ \A j \in Legs : Key(j)' = Key(j)
  BY <1>1 DEF exchange, local, Key, TypeOK
<1>3. AheadInv' /\ AllOrNone'
  BY <1>1, <1>2, AheadKept, AllOrNoneKept DEF CoreInv, AheadInv
<1>4. FlyingInv'
  BY <1>2 DEF CoreInv, FlyingInv
<1>5. BuyStage'
  BY <1>2 DEF CoreInv, BuyStage, Bought, CheapLegs
<1>7. JudgeStage'
  BY <1>2 DEF CoreInv, JudgeStage, Bought
<1>6. UnwindStage'
  BY <1>2 DEF CoreInv, UnwindStage, Bought, TypeOK
<1>. QED
  BY <1>3, <1>4, <1>5, <1>6, <1>7 DEF CoreInv

\* The exchange fills, misses or loses a buy.
LEMMA CoreBuy ==
  ASSUME WithinItsFailures, TypeOK, OrderInv, CoreInv, NEW k \in Keys,
         FillBuy(k) \/ MissBuy(k) \/ LoseBuy(k)
  PROVE  CoreInv'
<1> USE BoundsAssumption
<1>1. /\ ord[k] = "flying" /\ UNCHANGED <<row, sold, sell, att, pc, local, execOn>>
      /\ UNCHANGED <<res, todo, seen, leg, said, clean>>
      /\ \A j \in Legs : Key(j)' = Key(j)
  BY DEF FillBuy, MissBuy, LoseBuy, ledger, process, local, Key
<1>2. /\ ord'[k] \in {"executed", "canceled", "lost"}
      /\ \A j \in Keys : j # k => ord'[j] = ord[j]
  BY DEF FillBuy, MissBuy, LoseBuy, TypeOK
<1>3. PICK a \in Attempts, l \in Legs : k = <<a, l>>
  BY DEF Keys
<1>4. /\ a = att /\ k = Key(l) /\ k[2] = l /\ pc \in {"hard", "cheap"} /\ sell = "none"
      /\ (pc = "hard" /\ l = HardLeg) \/ (pc = "cheap" /\ res[l] = "none")
      /\ att \in Attempts
  BY <1>1, <1>3 DEF CoreInv, FlyingInv, Key, UnwindStage
<1>5. \A j \in Legs : Key(j) \in Keys /\ (j # l => Key(j) # k)
  BY <1>4, KeyIs DEF Key
<1>6. sold[k] = 0
  BY <1>1 DEF CoreInv, AllOrNone, Bought
<1>7. AheadInv'
  BY <1>1, AheadKept DEF CoreInv, AheadInv
<1>8. FlyingInv'
  <2>1. \A b \in Attempts, j \in Legs : <<b, j>> \in Keys
    BY DEF Keys
  <2>. QED
    BY <1>1, <1>2, <2>1 DEF CoreInv, FlyingInv
<1>9. AllOrNone'
  <2>1. CASE FillBuy(k)
    <3> SUFFICES ASSUME NEW j \in Keys
                 PROVE  /\ sold'[j] = 0 \/ (sold'[j] = Count /\ ord'[j] = "executed")
                        /\ pos'[Ticker[j]] = Signed(j[2], Held(j)')
      BY DEF AllOrNone, Bought
    <3>1. /\ ord' = [ord EXCEPT ![k] = "executed"]
          /\ pos' = [pos EXCEPT ![Ticker[k]] = @ + Signed(k[2], Count)]
          /\ Ticker[j] \in Tickers /\ Ticker[k] \in Tickers
      BY <2>1 DEF FillBuy, Tickers
    <3>2. CASE j = k
      <4>1. Held(j) = 0 /\ pos[Ticker[k]] = 0
        BY <1>1, <3>2, HeldIs DEF CoreInv, Bought
      <4>2. ord'[k] = "executed" /\ Held(j)' = Count
        BY <1>1, <1>6, <3>1, <3>2 DEF Held, TypeOK
      <4>3. pos'[Ticker[k]] = pos[Ticker[k]] + Signed(k[2], Count)
        BY <3>1 DEF TypeOK
      <4>4. Signed(k[2], Count) \in Int
        BY SignedIs
      <4>. QED
        BY <1>1, <1>6, <3>2, <4>1, <4>2, <4>3, <4>4
    <3>3. CASE j # k
      <4>1. Ticker[j] # Ticker[k]
        BY <3>3 DEF WithinItsFailures
      <4>2. pos'[Ticker[j]] = pos[Ticker[j]] /\ ord'[j] = ord[j]
        BY <1>2, <3>1, <3>3, <4>1 DEF TypeOK
      <4>3. Held(j)' = Held(j)
        BY <1>1, <4>2 DEF Held
      <4>. QED
        BY <1>1, <4>2, <4>3 DEF CoreInv, AllOrNone, Bought
    <3>. QED
      BY <3>2, <3>3
  <2>2. CASE MissBuy(k) \/ LoseBuy(k)
    <3>1. UNCHANGED pos /\ ord'[k] # "executed"
      BY <2>2 DEF MissBuy, LoseBuy, TypeOK
    <3>2. \A j \in Keys : (ord[j] = "executed") <=> (ord'[j] = "executed")
      BY <1>1, <1>2, <3>1
    <3>. QED
      BY <1>1, <3>1, <3>2, AllOrNoneKept DEF CoreInv
  <2>. QED
    BY <2>1, <2>2
<1>10. BuyStage'
  <2>1. pc = "hard" => l = HardLeg
    BY <1>4
  <2>2. pc = "cheap" => res[l] = "none"
    BY <1>4
  <2>3. \A j \in CheapLegs : j \in Legs /\ j # HardLeg
    BY DEF CheapLegs
  <2>. QED
    BY <1>1, <1>2, <1>4, <1>5, <2>1, <2>2, <2>3 DEF CoreInv, BuyStage, Bought
<1>11. JudgeStage' /\ UnwindStage'
  BY <1>1, <1>4 DEF JudgeStage, UnwindStage
<1>. QED
  BY <1>7, <1>8, <1>9, <1>10, <1>11 DEF CoreInv

\* The exchange matches a sell.
LEMMA CoreMatchSell ==
  ASSUME WithinItsFailures, TypeOK, OrderInv, CoreInv, NEW n \in 0..Count, MatchSell(n)
  PROVE  CoreInv'
<1> USE BoundsAssumption
<1>1. /\ sell = "sent" /\ pc = "rollback" /\ leg \in todo /\ leg \in Legs /\ att \in Attempts
      /\ n \in {0, Count} /\ n \in Int
      /\ sell' = (IF n = Count THEN "full" ELSE "short")
      /\ UNCHANGED <<row, ord, att, pc, res, todo, seen, leg, said, clean, execOn>>
      /\ \A j \in Legs : Key(j)' = Key(j)
  BY DEF MatchSell, WithinItsFailures, TypeOK, ledger, process, Key, CoreInv, UnwindStage
<1>2. Key(leg) \in Keys /\ Key(leg)[2] = leg
  BY <1>1, KeyIs
<1>3. Bought(Key(leg)) /\ sold[Key(leg)] = 0
  BY <1>1 DEF CoreInv, UnwindStage
<1>4. /\ sold'[Key(leg)] = n
      /\ \A j \in Keys : j # Key(leg) => sold'[j] = sold[j]
  BY <1>1, <1>2, <1>3 DEF MatchSell, TypeOK
<1>5. AheadInv'
  BY <1>1, AheadKept DEF CoreInv, AheadInv
<1>6. FlyingInv'
  <2>1. \A k \in Keys : ord[k] # "flying"
    BY <1>1, NothingFlies DEF CoreInv
  <2>. QED
    BY <1>1, <2>1, FlyingGone
<1>7. AllOrNone'
  <2> SUFFICES ASSUME NEW j \in Keys
               PROVE  /\ sold'[j] = 0 \/ (sold'[j] = Count /\ ord'[j] = "executed")
                      /\ pos'[Ticker[j]] = Signed(j[2], Held(j)')
    BY DEF AllOrNone, Bought
  <2>1. /\ pos' = [pos EXCEPT ![Ticker[Key(leg)]] = @ - Signed(leg, n)]
        /\ Ticker[j] \in Tickers /\ Ticker[Key(leg)] \in Tickers
    BY <1>2 DEF MatchSell, Tickers
  <2>2. CASE j = Key(leg)
    <3>1. Held(j) = Count /\ pos[Ticker[j]] = Signed(leg, Count)
      BY <1>2, <1>3, <2>2, HeldIs DEF CoreInv, AllOrNone
    <3>2. pos'[Ticker[j]] = pos[Ticker[j]] - Signed(leg, n)
      BY <2>1, <2>2 DEF TypeOK
    <3>3. Held(j)' = Count - n
      BY <1>1, <1>3, <1>4, <2>2 DEF Held, Bought
    <3>4. Signed(leg, Count) - Signed(leg, n) = Signed(leg, Count - n)
      BY <1>1, SignedIs
    <3>. QED
      BY <1>1, <1>2, <1>3, <1>4, <2>2, <3>1, <3>2, <3>3, <3>4 DEF Bought
  <2>3. CASE j # Key(leg)
    <3>1. Ticker[j] # Ticker[Key(leg)]
      BY <1>2, <2>3 DEF WithinItsFailures
    <3>2. pos'[Ticker[j]] = pos[Ticker[j]] /\ sold'[j] = sold[j]
      BY <1>4, <2>1, <2>3, <3>1 DEF TypeOK
    <3>3. Held(j)' = Held(j)
      BY <1>1, <3>2 DEF Held
    <3>. QED
      BY <1>1, <3>2, <3>3 DEF CoreInv, AllOrNone, Bought
  <2>. QED
    BY <2>2, <2>3
<1>8. BuyStage' /\ JudgeStage'
  BY <1>1 DEF BuyStage, JudgeStage
<1>9. UnwindStage'
  <2>1. \A j \in Legs : Key(j) \in Keys /\ (j # leg => Key(j) # Key(leg))
    BY <1>1, KeyIs DEF Key
  <2>2. \A j \in todo : j # leg => Bought(Key(j)) /\ sold'[Key(j)] = 0
    BY <1>1, <1>4, <2>1 DEF CoreInv, UnwindStage, TypeOK
  <2>3. sold'[Key(leg)] = 0 \/ sell' = "full"
    BY <1>1, <1>4
  <2>4. ASSUME NEW j \in Legs \ todo, Bought(Key(j)), sold'[Key(j)] = 0 PROVE ~clean
    BY <1>1, <1>4, <2>1, <2>4 DEF CoreInv, UnwindStage
  <2>5. sell' = "full" => sold'[Key(leg)] = Count
    BY <1>1, <1>4
  <2>. QED
    BY <1>1, <1>3, <2>2, <2>3, <2>4, <2>5 DEF UnwindStage, Bought, TypeOK
<1>. QED
  BY <1>5, <1>6, <1>7, <1>8, <1>9 DEF CoreInv

\* What the hypotheses exclude.
LEMMA NoSuchStep ==
  ASSUME WithinItsFailures, TypeOK, AheadInv
  PROVE  /\ ~Crash /\ ~Boot /\ ~QueryPositionsFails
         /\ \A l \in Legs : ~QueryOrdersFails(l)
<1>1. ~Crash /\ ~Boot
  BY BoundsAssumption DEF WithinItsFailures, Crash, Boot, AheadInv, TypeOK
<1>2. \A l \in Legs : ~QueryOrdersFails(l)
  BY DEF WithinItsFailures, QueryOrdersFails
<1>3. ~QueryPositionsFails
  BY DEF WithinItsFailures, QueryPositionsFails
<1>. QED
  BY <1>1, <1>2, <1>3

\* Every step keeps an attempt on its way to whole, empty or halted.
LEMMA CoreStep ==
  ASSUME WithinItsFailures, TypeOK, OrderInv, CoreInv, [Next]_vars
  PROVE  CoreInv'
<1>1. /\ ~Crash /\ ~Boot /\ ~QueryPositionsFails
      /\ \A l \in Legs : ~QueryOrdersFails(l)
  BY NoSuchStep DEF CoreInv
<1>4. CASE Executor
  <2>1. CASE HardFills \/ HardKilled \/ HardUnknown \/ CheapJoin \/ \E l \in Legs : CheapAnswers(l)
    BY <2>1, CoreHardFills, CoreHardEnds, CoreCheapAnswers, CoreCheapJoin
  <2>2. CASE QueryPositions \/ \E l \in Legs : QueryOrders(l)
    BY <2>2, CoreQueryOrders, CoreQueryPositions
  <2>3. CASE SellClosed \/ SellAgain \/ SellGivenUp \/ \E l \in Legs : SendSell(l)
    BY <2>3, CoreSendSell, CoreSold, CoreSellAgain
  <2>. QED
    BY <1>1, <1>4, <2>1, <2>2, <2>3 DEF Executor
<1>5. CASE Exchange
  BY <1>5, CoreBuy, CoreMatchSell DEF Exchange
<1>6. CASE Execute
  BY <1>6, CoreExecute
<1>7. CASE WindowExpires \/ Operator \/ UNCHANGED vars
  BY <1>7, CoreQuiet
<1>. QED
  BY <1>1, <1>4, <1>5, <1>6, <1>7 DEF Next

-----------------------------------------------------------------------------
(* What a step does to the outcomes of the attempts *)

\* An attempt has no outcome before it starts and while it is under way.
LEMMA OutcomeIs ==
  ASSUME TypeOK, OrderInv, AheadInv, NEW a \in Attempts
  PROVE  /\ OutcomeOf(a) \in {"new", "working", "noop", "captured", "unwound", "stuck"}
         /\ OutcomeOf(a) = "new" <=> a > att
         /\ OutcomeOf(a) = "working" <=> a = att /\ pc # "idle"
<1>1. row[<<a, HardLeg>>] = "none" <=> a > att
  BY LegsAssumption DEF OrderInv, Started, AheadInv, TypeOK, Attempts
<1>2. a \in Int /\ att \in Int
  BY DEF TypeOK, Attempts
<1>. QED
  BY <1>1, <1>2 DEF OutcomeOf

\* What does not touch an attempt keeps its outcome.
LEMMA OutcomeKept ==
  ASSUME NEW a \in Attempts,
         row'[<<a, HardLeg>>] = "none" <=> row[<<a, HardLeg>>] = "none",
         (a = att' /\ pc' # "idle") <=> (a = att /\ pc # "idle"),
         ~(a = att /\ pc # "idle") =>
           \A l \in Legs : ord'[<<a, l>>] = ord[<<a, l>>] /\ sold'[<<a, l>>] = sold[<<a, l>>]
  PROVE  OutcomeOf(a)' = OutcomeOf(a)
<1>1. CASE a = att /\ pc # "idle"
  BY <1>1 DEF OutcomeOf
<1>2. CASE ~(a = att /\ pc # "idle")
  <2>1. \A l \in Legs : Held(<<a, l>>)' = Held(<<a, l>>)
    BY <1>2 DEF Held
  <2>. QED
    BY <1>2, <2>1 DEF OutcomeOf
<1>. QED
  BY <1>1, <1>2

\* Every step but Execute leaves the other attempts alone, and the current one
\* too once it has ended.
LEMMA StepLocal ==
  ASSUME WithinItsFailures, TypeOK, OrderInv, CoreInv, [Next]_vars, ~Execute
  PROVE  /\ att' = att /\ execOn' = execOn
         /\ execPaused => execPaused'
         /\ botPaused => botPaused' \/ AdminResume
         /\ \A k \in Keys : k[1] # att => ord'[k] = ord[k] /\ sold'[k] = sold[k]
         /\ pc = "idle" => pc' = "idle" /\ UNCHANGED <<ord, sold>>
<1> DEFINE Goal == /\ att' = att /\ execOn' = execOn
                   /\ execPaused => execPaused'
                   /\ botPaused => botPaused' \/ AdminResume
                   /\ \A k \in Keys : k[1] # att => ord'[k] = ord[k] /\ sold'[k] = sold[k]
                   /\ pc = "idle" => pc' = "idle" /\ UNCHANGED <<ord, sold>>
<1> SUFFICES Goal
  OBVIOUS
<1>0. ASSUME NEW stop, NEW trip, Halt(stop, trip)
      PROVE  (execPaused => execPaused') /\ (botPaused => botPaused')
  BY <1>0 DEF Halt
<1>1. /\ ~Crash /\ ~Boot /\ ~QueryPositionsFails
      /\ \A l \in Legs : ~QueryOrdersFails(l)
  BY NoSuchStep DEF CoreInv
<1>2. CASE HardFills
  <2>1. \A k \in Keys : k[1] # att => ord'[k] = ord[k]
    BY <1>2 DEF HardFills
  <2>2. PICK lost : Halt(lost # {}, FALSE)
    BY <1>2 DEF HardFills
  <2>. QED
    BY <1>0, <1>2, <2>1, <2>2 DEF HardFills, process, pauses
<1>3. CASE HardKilled \/ HardUnknown
  BY <1>3 DEF HardKilled, HardUnknown, exchange, pauses, process
<1>4. CASE CheapJoin
  <2>1. PICK lost : Halt(lost # {}, FALSE)
    BY <1>4 DEF CheapJoin
  <2>. QED
    BY <1>0, <1>4, <2>1 DEF CheapJoin, exchange, process, pauses
<1>5. CASE \E l \in Legs : CheapAnswers(l) \/ QueryOrders(l) \/ SendSell(l)
  BY <1>5 DEF CheapAnswers, QueryOrders, SendSell, exchange, process, pauses
<1>6. CASE QueryPositions
  <2>1. PICK stop : Halt(stop, FALSE)
    BY <1>6 DEF QueryPositions, Judged
  <2>. QED
    BY <1>0, <1>6, <2>1 DEF QueryPositions, exchange, process, pauses
<1>7. CASE SellClosed \/ SellGivenUp
  <2>1. PICK stop, trip : Halt(stop, trip)
    BY <1>7 DEF SellClosed, SellGivenUp, LegDone
  <2>. QED
    BY <1>0, <1>7, <2>1 DEF SellClosed, SellGivenUp, process, pauses
<1>8. CASE SellAgain
  BY <1>8 DEF SellAgain, Retry, process, pauses
<1>9. CASE WindowExpires \/ Operator \/ UNCHANGED vars
  BY <1>9 DEF WindowExpires, Operator, AdminPause, AdminResume, EngageByScript,
       EngageElsewhere, CheckPositions, ClearKillSwitch,
     CancelClear, exchange, process, vars, pauses
<1>10. ASSUME NEW k \in Keys, FillBuy(k) \/ MissBuy(k) \/ LoseBuy(k) PROVE Goal
  <2>1. ord[k] = "flying" /\ k[1] = att /\ pc # "idle"
    BY <1>10 DEF FillBuy, MissBuy, LoseBuy, CoreInv, FlyingInv, Keys
  <2>2. \A j \in Keys : j # k => ord'[j] = ord[j]
    BY <1>10 DEF FillBuy, MissBuy, LoseBuy, TypeOK
  <2>. QED
    BY <1>10, <2>1, <2>2 DEF FillBuy, MissBuy, LoseBuy, process, pauses
<1>11. ASSUME NEW n \in 0..Count, MatchSell(n) PROVE Goal
  <2>1. pc # "idle" /\ Key(leg)[1] = att
    BY <1>11 DEF MatchSell, CoreInv, UnwindStage, Key
  <2>2. \A j \in Keys : j[1] # att => sold'[j] = sold[j]
    BY <1>11, <2>1 DEF MatchSell, TypeOK
  <2>. QED
    BY <1>11, <2>1, <2>2 DEF MatchSell, process, pauses
<1>. HIDE DEF Goal
<1>. QED
  BY <1>1, <1>2, <1>3, <1>4, <1>5, <1>6, <1>7, <1>8, <1>9, <1>10, <1>11
  DEF Next, Executor, Exchange

\* An attempt that ends with all its legs, or with none, is not stuck.
LEMMA WholeEnds ==
  ASSUME TypeOK, TypeOK', OrderInv', AllOrNone, NEW a \in Attempts, a = att, att' = att,
         pc' = "idle", UNCHANGED <<ord, sold>>,
         \/ \A l \in Legs : Bought(Key(l)) /\ sold[Key(l)] = 0
         \/ \A l \in Legs : ~(Bought(Key(l)) /\ sold[Key(l)] = 0)
  PROVE  OutcomeOf(a)' # "stuck"
<1>1. row'[<<a, HardLeg>>] # "none"
  BY LegsAssumption DEF OrderInv, Started, TypeOK, Attempts
<1>2. \A l \in Legs : Key(l) \in Keys /\ Key(l) = <<a, l>>
  BY DEF Key, Keys
<1>3. \A l \in Legs : Held(<<a, l>>)' = Held(<<a, l>>)
  BY DEF Held
<1>4. CASE \A l \in Legs : Bought(Key(l)) /\ sold[Key(l)] = 0
  <2>1. \A l \in Legs : Held(<<a, l>>)' = Count
    BY <1>2, <1>3, <1>4, HeldIs
  <2>. QED
    BY <1>1, <2>1 DEF OutcomeOf
<1>5. CASE \A l \in Legs : ~(Bought(Key(l)) /\ sold[Key(l)] = 0)
  <2>1. \A l \in Legs : Held(<<a, l>>)' = 0
    BY <1>2, <1>3, <1>5, HeldIs
  <2>. QED
    BY <1>1, <2>1 DEF OutcomeOf
<1>. QED
  BY <1>4, <1>5

\* The one way to end with some of the legs stops the executor.
LEMMA EndsWell ==
  ASSUME WithinItsFailures, TypeOK, TypeOK', OrderInv, OrderInv', CoreInv, [Next]_vars,
         pc # "idle", pc' = "idle", NEW a \in Attempts, a = att
  PROVE  OutcomeOf(a)' = "stuck" => execPaused'
<1>1. CASE HardKilled
  <2>1. UNCHANGED <<ord, sold, att>> /\ pc = "hard" /\ ord[Key(HardLeg)] = "canceled"
    BY <1>1 DEF HardKilled, exchange, Outcomes, WithinItsFailures
  <2>2. \A l \in Legs : ~Bought(Key(l))
    BY <2>1 DEF CoreInv, BuyStage, CheapLegs, Bought
  <2>. QED
    BY <2>1, <2>2, WholeEnds DEF CoreInv
<1>2. CASE CheapJoin
  <2>1. UNCHANGED <<ord, sold, att>> /\ pc = "cheap" /\ \A l \in Legs : res[l] # "none"
    BY <1>2 DEF CheapJoin, exchange
  <2>2. \A l \in Legs : /\ sold[Key(l)] = 0
                        /\ res[l] = "FILL" => Bought(Key(l))
                        /\ res[l] = "KILL" => ~Bought(Key(l))
    BY <2>1 DEF CoreInv, BuyStage, Bought
  <2>3. CASE LegsThat("FILL") = Legs
    <3>1. \A l \in Legs : Bought(Key(l)) /\ sold[Key(l)] = 0
      BY <2>2, <2>3 DEF LegsThat
    <3>. QED
      BY <2>1, <3>1, WholeEnds DEF CoreInv
  <2>4. CASE LegsThat("FILL") # Legs
    <3>1. LegsThat("ERROR_RED") = {} /\ LegsThat("FILL") = {}
      BY <1>2, <2>4 DEF CheapJoin, Continue
    <3>2. \A l \in Legs : res[l] = "KILL"
      BY <2>1, <3>1 DEF LegsThat, TypeOK, LegState
    <3>. QED
      BY <2>1, <2>2, <3>2, WholeEnds DEF CoreInv
  <2>. QED
    BY <2>3, <2>4
<1>3. CASE QueryPositions
  <2>1. /\ UNCHANGED <<ord, sold, att>> /\ pc = "position" /\ leg \in todo /\ att \in Attempts
        /\ leg \in Legs
    BY <1>3 DEF QueryPositions, exchange, CoreInv, JudgeStage, TypeOK
  <2>2. PICK held : /\ held = (said \/ pos[Ticker[Key(leg)]] # 0)
                    /\ Continue(todo \ {leg}, IF held THEN seen \union {leg} ELSE seen)
    BY <1>3 DEF QueryPositions, Judged
  <2>3. todo = {leg} /\ ~held /\ seen = {}
    BY <2>1, <2>2 DEF Continue
  <2>4. ~Bought(Key(leg))
    BY <2>1, <2>2, <2>3 DEF CoreInv, JudgeStage
  <2>5. \A l \in Legs : ~Bought(Key(l))
    BY <2>1, <2>3, <2>4 DEF CoreInv, JudgeStage
  <2>. QED
    BY <2>1, <2>5, WholeEnds DEF CoreInv
<1>4. CASE SellClosed
  <2>1. PICK lost : LegDone(clean, lost # {})
    BY <1>4 DEF SellClosed
  <2>2. /\ UNCHANGED <<ord, sold, att>> /\ pc = "rollback" /\ sold[Key(leg)] = Count
        /\ todo = {leg}
    BY <1>4, <2>1 DEF SellClosed, LegDone, CoreInv, UnwindStage
  <2>3. ~clean => execPaused'
    BY <2>1, <2>2 DEF LegDone, Halt
  <2>4. ASSUME clean PROVE \A l \in Legs : ~(Bought(Key(l)) /\ sold[Key(l)] = 0)
    BY <2>2, <2>4, BoundsAssumption DEF CoreInv, UnwindStage
  <2>. QED
    BY <2>2, <2>3, <2>4, WholeEnds DEF CoreInv
<1>5. CASE SellGivenUp
  <2>1. PICK lost : LegDone(FALSE, lost # {})
    BY <1>5 DEF SellGivenUp
  <2>. QED
    BY <2>1 DEF LegDone, Halt
<1>6. ~Execute /\ ~Boot
  BY DEF Execute, Start, Boot, CoreInv, AheadInv
<1>7. ~HardFills /\ ~HardUnknown /\ ~SellAgain /\ ~QueryPositionsFails
      /\ \A l \in Legs : /\ ~CheapAnswers(l) /\ ~QueryOrders(l) /\ ~SendSell(l)
                         /\ ~QueryOrdersFails(l)
  BY DEF HardFills, HardUnknown, SellAgain, Retry, QueryPositionsFails, CheapAnswers, QueryOrders,
     SendSell, QueryOrdersFails, WithinItsFailures
<1>8. ~WindowExpires /\ ~Exchange /\ ~Crash /\ ~Operator /\ ~UNCHANGED vars
  BY DEF WindowExpires, Exchange, FillBuy, MissBuy, LoseBuy, MatchSell, Crash, Operator, AdminPause,
     AdminResume, EngageByScript, EngageElsewhere, CheckPositions, ClearKillSwitch, CancelClear, vars
<1>. QED
  BY <1>1, <1>2, <1>3, <1>4, <1>5, <1>6, <1>7, <1>8 DEF Next, Executor

-----------------------------------------------------------------------------
(* The refinement *)

\* Nothing is stuck at first.
LEMMA StuckInit == Init => StuckInv
<1> SUFFICES ASSUME Init, NEW a \in Attempts PROVE OutcomeOf(a) = "new"
  BY DEF StuckInv
<1>1. <<a, HardLeg>> \in Keys
  BY LegsAssumption DEF Keys
<1>. QED
  BY <1>1 DEF Init, OutcomeOf

\* A step that is not Execute keeps the outcome of every attempt, but that of
\* the current one when it ends.
LEMMA OutcomesKept ==
  ASSUME WithinItsFailures, TypeOK, TypeOK', OrderInv, OrderInv', CoreInv, CoreInv', [Next]_vars,
         ~Execute, NEW a \in Attempts, a # att \/ pc = "idle" \/ pc' # "idle"
  PROVE  OutcomeOf(a)' = OutcomeOf(a)
<1>1. /\ att' = att
      /\ \A k \in Keys : k[1] # att => ord'[k] = ord[k] /\ sold'[k] = sold[k]
      /\ pc = "idle" => pc' = "idle" /\ UNCHANGED <<ord, sold>>
  BY StepLocal
<1>2. row'[<<a, HardLeg>>] = "none" <=> row[<<a, HardLeg>>] = "none"
  <2>1. row[<<a, HardLeg>>] = "none" <=> a > att
    BY LegsAssumption DEF OrderInv, Started, CoreInv, AheadInv, TypeOK, Attempts
  <2>2. row'[<<a, HardLeg>>] = "none" <=> a > att'
    BY LegsAssumption DEF OrderInv, Started, CoreInv, AheadInv, TypeOK, Attempts
  <2>. QED
    BY <1>1, <2>1, <2>2
<1>3. (a = att' /\ pc' # "idle") <=> (a = att /\ pc # "idle")
  BY <1>1
<1>4. ~(a = att /\ pc # "idle") =>
        \A l \in Legs : ord'[<<a, l>>] = ord[<<a, l>>] /\ sold'[<<a, l>>] = sold[<<a, l>>]
  <2>1. \A l \in Legs : <<a, l>> \in Keys /\ <<a, l>>[1] = a
    BY DEF Keys
  <2>. QED
    BY <1>1, <2>1
<1>. QED
  BY <1>2, <1>3, <1>4, OutcomeKept

\* Execute gives the next attempt, and no other, a new outcome.
LEMMA OutcomesExecute ==
  ASSUME TypeOK, TypeOK', OrderInv, OrderInv', CoreInv, CoreInv', Execute, NEW a \in Attempts
  PROVE  OutcomeOf(a)' = IF a = att + 1 THEN "working" ELSE OutcomeOf(a)
<1>1. /\ pc = "idle" /\ pc' = "hard" /\ att' = att + 1 /\ UNCHANGED sold
      /\ att \in Nat /\ a \in Nat
  BY DEF Execute, Start, TypeOK, Attempts
<1>2. CASE a = att + 1
  <2>1. row'[<<a, HardLeg>>] # "none"
    BY <1>1, <1>2, LegsAssumption DEF OrderInv, Started
  <2>. QED
    BY <1>1, <1>2, <2>1 DEF OutcomeOf
<1>3. CASE a # att + 1
  <2>1. row[<<a, HardLeg>>] = "none" <=> a > att
    BY <1>1, LegsAssumption DEF OrderInv, Started, CoreInv, AheadInv
  <2>2. row'[<<a, HardLeg>>] = "none" <=> a > att'
    BY <1>1, LegsAssumption DEF OrderInv, Started, CoreInv, AheadInv
  <2>3. \A l \in Legs : ord'[<<a, l>>] = ord[<<a, l>>]
    <3>1. \A l \in Legs : <<a, l>> \in Keys /\ <<a, l>> \notin {att + 1} \X {HardLeg}
      BY <1>3 DEF Keys
    <3>. QED
      BY <3>1 DEF Execute, Start
  <2>4. OutcomeOf(a)' = OutcomeOf(a)
    BY <1>1, <1>3, <2>1, <2>2, <2>3, OutcomeKept
  <2>. QED
    BY <1>3, <2>4
<1>. QED
  BY <1>2, <1>3

\* Every step keeps the executor paused once a leg is stuck.
LEMMA StuckStep ==
  ASSUME WithinItsFailures, TypeOK, TypeOK', OrderInv, OrderInv', CoreInv, CoreInv', StuckInv,
         [Next]_vars
  PROVE  StuckInv'
<1> SUFFICES ASSUME NEW a \in Attempts, OutcomeOf(a)' = "stuck" PROVE execPaused'
  BY DEF StuckInv
<1>1. CASE Execute
  <2>1. UNCHANGED execPaused
    BY <1>1 DEF Execute, Start, pauses
  <2>2. OutcomeOf(a) = "stuck"
    BY <1>1, OutcomesExecute
  <2>. QED
    BY <2>1, <2>2 DEF StuckInv
<1>2. CASE ~Execute /\ (a # att \/ pc = "idle" \/ pc' # "idle")
  <2>1. OutcomeOf(a)' = OutcomeOf(a)
    BY <1>2, OutcomesKept
  <2>. QED
    BY <1>2, <2>1, StepLocal DEF StuckInv
<1>3. CASE a = att /\ pc # "idle" /\ pc' = "idle"
  BY <1>3, EndsWell
<1>. QED
  BY <1>1, <1>2, <1>3

Arb == [a \in Attempts |-> OutcomeOf(a)]
Halted == execPaused \/ botPaused \/ ~execOn

\* The first state is one of the abstract specification.
LEMMA AtomicStart == Init => Atomic!Init
<1> SUFFICES ASSUME Init PROVE Atomic!Init
  OBVIOUS
<1>1. \A a \in Attempts : OutcomeOf(a) = "new"
  <2> SUFFICES ASSUME NEW a \in Attempts PROVE OutcomeOf(a) = "new"
    OBVIOUS
  <2>1. <<a, HardLeg>> \in Keys
    BY LegsAssumption DEF Keys
  <2>. QED
    BY <2>1 DEF Init, OutcomeOf
<1>2. (execPaused \/ botPaused \/ ~execOn) = FALSE
  BY DEF Init
<1>. QED
  BY <1>1, <1>2 DEF Atomic!Init, Atomic!Attempts, Attempts

\* Every step of the executor is a step of AtomicArb, or none.
LEMMA AtomicStep ==
  ASSUME WithinItsFailures, TypeOK, TypeOK', OrderInv, OrderInv', CoreInv, CoreInv', StuckInv,
         StuckInv', [Next]_vars
  PROVE  [Atomic!Next]_(Atomic!vars)
<1> DEFINE new == [a \in Attempts |-> OutcomeOf(a)']
<1>0. Arb' = new /\ Attempts = Atomic!Attempts
  BY DEF Arb, Atomic!Attempts, Attempts
<1>a. Halted \in BOOLEAN /\ Halted' \in BOOLEAN
  BY DEF Halted
<1>1. CASE Execute
  <2>1. ~Halted /\ Halted' = Halted /\ att + 1 \in Attempts /\ pc = "idle" /\ att \in Nat
    BY <1>1 DEF Execute, Start, Halted, pauses, process, TypeOK, Attempts
  <2>2. Arb' = [Arb EXCEPT ![att + 1] = "working"]
    BY <1>0, <1>1, OutcomesExecute DEF Arb
  <2>3. Arb[att + 1] = "new"
    BY <2>1, OutcomeIs DEF CoreInv, Arb
  <2>4. \A b \in 1..((att + 1) - 1) : Arb[b] \in Atomic!Outcome
    <3> SUFFICES ASSUME NEW b \in 1..((att + 1) - 1) PROVE Arb[b] \in Atomic!Outcome
      OBVIOUS
    <3>1. b \in Attempts /\ ~(b > att)
      BY <2>1, BoundsAssumption DEF Attempts
    <3>2. OutcomeOf(b) \in Atomic!Outcome
      BY <2>1, <3>1, OutcomeIs DEF CoreInv, Atomic!Outcome
    <3>. QED
      BY <3>1, <3>2 DEF Arb
  <2>5. Atomic!Begin(att + 1)
    BY <2>1, <2>2, <2>3, <2>4 DEF Atomic!Begin, Arb, Halted
  <2>. QED
    BY <1>0, <2>1, <2>5 DEF Atomic!Next
<1>2. CASE ~Execute /\ pc # "idle" /\ pc' = "idle"
  <2>1. att \in Attempts /\ att' = att
    BY <1>2, StepLocal DEF TypeOK, CoreInv, AheadInv
  <2>2. PICK t \in Attempts : t = att
    BY <2>1
  <2>3. Arb[t] = "working"
    BY <1>2, <2>2, OutcomeIs DEF CoreInv, Arb
  <2>4. OutcomeOf(t)' \in Atomic!Outcome
    <3>1. row'[<<t, HardLeg>>] # "none"
      BY <2>1, <2>2, LegsAssumption DEF OrderInv, Started, Attempts
    <3>. QED
      BY <1>2, <3>1 DEF OutcomeOf, Atomic!Outcome
  <2>5. Arb' = [Arb EXCEPT ![t] = OutcomeOf(t)']
    <3>1. \A a \in Attempts : a # t => OutcomeOf(a)' = OutcomeOf(a)
      BY <1>2, <2>2, OutcomesKept
    <3>. QED
      BY <1>0, <3>1 DEF Arb
  <2>6. CASE OutcomeOf(t)' = "stuck"
    <3>1. Halted'
      BY <1>2, <2>2, <2>6, EndsWell DEF Halted
    <3>2. Atomic!Stick(t)
      BY <1>a, <2>3, <2>5, <2>6, <3>1 DEF Atomic!Stick, Arb, Halted
    <3>. QED
      BY <1>0, <3>2 DEF Atomic!Next
  <2>7. CASE OutcomeOf(t)' # "stuck"
    <3>1. Halted => Halted'
      <4>1. ~AdminResume
        BY <1>2 DEF AdminResume
      <4>. QED
        BY <1>2, <4>1, StepLocal DEF Halted
    <3>2. Halted' \in {Halted, TRUE}
      BY <1>a, <3>1
    <3>3. \E r \in Atomic!Outcome \ {"stuck"} : Arb' = [Arb EXCEPT ![t] = r]
      BY <2>4, <2>5, <2>7
    <3>4. Atomic!Finish(t)
      BY <2>3, <3>2, <3>3 DEF Atomic!Finish, Arb, Halted
    <3>. QED
      BY <1>0, <3>4 DEF Atomic!Next
  <2>. QED
    BY <2>6, <2>7
<1>3. CASE ~Execute /\ (pc = "idle" \/ pc' # "idle")
  <2>1. Arb' = Arb
    BY <1>0, <1>3, OutcomesKept DEF Arb
  <2>2. CASE Halted'
    <3>1. Atomic!Stop
      BY <1>a, <2>1, <2>2 DEF Atomic!Stop, Arb, Halted
    <3>. QED
      BY <3>1 DEF Atomic!Next
  <2>3. CASE ~Halted'
    <3>1. ~execPaused
      BY <1>3, <2>3, StepLocal DEF Halted
    <3>2. \A a \in Attempts : Arb[a] # "stuck"
      BY <3>1 DEF StuckInv, Arb
    <3>3. Atomic!Release
      BY <1>0, <1>a, <2>1, <2>3, <3>2 DEF Atomic!Release, Arb, Halted
    <3>. QED
      BY <3>3 DEF Atomic!Next
  <2>. QED
    BY <2>2, <2>3
<1>. QED
  BY <1>1, <1>2, <1>3

\* The executor is an atomic arbitrage, for every number of legs, contracts and
\* attempts: all the legs, or none, or a halted motor.
THEOREM ExecutorIsAtomic == ASSUME WithinItsFailures PROVE Spec => ImplementsAtomicArb
<1>1. Init => CoreInv /\ StuckInv /\ Atomic!Init
  BY CoreInit, StuckInit, AtomicStart
<1>2. TypeOK /\ TypeOK' /\ OrderInv /\ OrderInv' /\ CoreInv /\ StuckInv /\ [Next]_vars
        => CoreInv' /\ StuckInv' /\ [Atomic!Next]_(Atomic!vars)
  BY CoreStep, StuckStep, AtomicStep
<1>. QED
  BY <1>1, <1>2, TypeCorrect, OrderInit, OrderStep, PTL DEF Spec, ImplementsAtomicArb, Atomic!Spec
=============================================================================
