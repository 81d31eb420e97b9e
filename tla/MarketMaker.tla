----------------------------- MODULE MarketMaker -----------------------------
(***************************************************************************)
(* Motor 5, the market maker, trading live: the engine's tick              *)
(* (motor_5_mm/engine.py), the executor that places and cancels its quotes *)
(* (executor.py), the reconciler that compares them with the exchange      *)
(* (reconciler.py), and the boot that takes over after a crash.            *)
(*                                                                         *)
(* A tick looks at the kill-switch, reconciles, applies the fills it finds *)
(* to the inventory, and then brings the quotes of each ticker in line     *)
(* with what the quoter wants.  The loop is the only task that touches the *)
(* motor's state; fills, late requests and cancels by the exchange come    *)
(* between its awaits.  A request and its answer are one action: nothing   *)
(* else reads what the answer changes.                                     *)
(*                                                                         *)
(* Prices are left out: a quote is kept or replaced, and every contract    *)
(* costs one.                                                              *)
(***************************************************************************)
EXTENDS Integers, FiniteSets, FiniteSetsExt, Functions

CONSTANTS
  Tickers,       \* markets the motor quotes
  MaxOrders,     \* bound: orders on each side of a market
  Size,          \* MOTOR_MM_QUOTE_SIZE_CONTRACTS
  MaxInventory,  \* MOTOR_MM_MAX_INVENTORY_CONTRACTS
  MaxOpen,       \* MOTOR_MM_MAX_EXPOSURE_USD, in contracts
  MaxCrashes,    \* bound: stops of the process
  MaxKills,      \* bound: engagements of the kill-switch
  Faults         \* what the environment is allowed to do, see FaultKinds

FaultKinds ==
  { "place",     \* the answer to a new order never arrives
    "again",     \* its first answer is lost, and the client's retry is refused
                 \* because the order is there
    "cancel",    \* the answer to a cancel never arrives
    "query" }    \* get_orders fails

Sides  == {"buy", "sell"}
\* Client order ids: the n-th order on a side of a market.
Orders == UNION {Tickers \X {s} \X (1..MaxOrders[s]) : s \in Sides}

ASSUME TickersAssumption == IsFiniteSet(Tickers)

ASSUME QuotingAssumption ==
  /\ Size \in Nat \ {0}
  /\ MaxInventory \in Nat \ {0}
  /\ MaxOpen \in Nat
  /\ MaxOrders \in [Sides -> Nat]

ASSUME BoundsAssumption == MaxCrashes \in Nat /\ MaxKills \in Nat

ASSUME FaultsAssumption == Faults \subseteq FaultKinds

RowStatus ==
  { "none", "pending", "filled", "cancelled",
    "cancelled_all",  \* cancelled, with the note of cancel_all
    "error" }         \* error or error_missing, set at boot
OrderStatus == {"none", "flying", "lost", "resting", "executed", "canceled"}

VARIABLES
  \* the SQLite ledger
  row,           \* status of the trade row of each order
  rfill,         \* its filled_count
  ks,            \* the persisted kill-switch is engaged
  \* the exchange
  ord,           \* status of each order
  fill,          \* contracts of it that filled
  \* the executor and the engine
  live,          \* Motor5Executor._live: orders this process manages
  corrupted,     \* tickers in doubt
  applied,       \* _settled_coids: orders whose fill is in the inventory
  inv,           \* net inventory of each ticker
  killCancelled, \* _kill_cancelled
  allowed,       \* quotes_allowed of this tick
  pc,            \* the phase of the tick
  todo,          \* orders the reconciler still has to cancel
  report,        \* corrupted_tickers of its report
  round,         \* tickers this tick has not visited yet
  cur,           \* ticker being synchronised
  want,          \* what is left to do on each side of it
  crashes, kills

ledger   == <<row, rfill>>
exchange == <<ord, fill>>
book     == <<applied, inv>>
tick     == <<todo, report, round, cur, want>>
flags    == <<ks, killCancelled, allowed, crashes, kills>>
vars     == <<ledger, exchange, live, corrupted, book, pc, tick, flags>>

TypeOK ==
  /\ row \in [Orders -> RowStatus]
  /\ rfill \in [Orders -> 0..Size]
  /\ ord \in [Orders -> OrderStatus]
  /\ fill \in [Orders -> 0..Size]
  /\ live \subseteq Orders
  /\ corrupted \subseteq Tickers
  /\ applied \subseteq Orders
  /\ inv \in [Tickers -> Int]
  /\ pc \in {"sleep", "reconcile", "orphans", "apply", "quote", "down"}
  /\ todo \subseteq Orders
  /\ report \subseteq Tickers
  /\ round \subseteq Tickers
  /\ cur \in Tickers
  /\ want \in [Sides -> {"keep", "none", "new"}]
  /\ ks \in BOOLEAN /\ killCancelled \in BOOLEAN /\ allowed \in BOOLEAN
  /\ crashes \in 0..MaxCrashes
  /\ kills \in 0..MaxKills

Settled == [s \in Sides |-> "keep"]

Init ==
  /\ row = [o \in Orders |-> "none"] /\ rfill = [o \in Orders |-> 0]
  /\ ord = [o \in Orders |-> "none"] /\ fill = [o \in Orders |-> 0]
  /\ live = {} /\ corrupted = {} /\ applied = {}
  /\ inv = [t \in Tickers |-> 0]
  /\ pc = "sleep"
  /\ todo = {} /\ report = {} /\ round = {}
  /\ cur \in Tickers
  /\ want = Settled
  /\ ks = FALSE /\ killCancelled = FALSE /\ allowed = FALSE
  /\ crashes = 0 /\ kills = 0

Pending    == {o \in Orders : row[o] = "pending"}
Live(t, s) == {o \in live : o[1] = t /\ o[2] = s}
MarketsOf(S) == {o[1] : o \in S}

-----------------------------------------------------------------------------
(* Start of the tick *)

\* cancel_all: every order managed is dropped and its row closed, whatever
\* becomes of the cancels, which neither check nor report what filled first.
CancelAll ==
  \E failed \in IF "cancel" \in Faults THEN SUBSET live ELSE {{}} :
    /\ ord' = [o \in Orders |-> IF o \in live \ failed /\ ord[o] = "resting"
                                  THEN "canceled" ELSE ord[o]]
    /\ row' = [o \in Orders |-> IF o \in live THEN "cancelled_all" ELSE row[o]]
    /\ live' = {}
    /\ corrupted' = corrupted \union MarketsOf(live)
    /\ UNCHANGED <<rfill, fill>>

\* The kill-switch is engaged: cancel_all, once.
TickPanics ==
  /\ pc = "sleep" /\ ks /\ ~killCancelled
  /\ CancelAll
  /\ killCancelled' = TRUE
  /\ allowed' = FALSE
  /\ pc' = "reconcile"
  /\ UNCHANGED <<book, tick, ks, crashes, kills>>

TickKilled ==
  /\ pc = "sleep" /\ ks /\ killCancelled
  /\ allowed' = FALSE
  /\ pc' = "reconcile"
  /\ UNCHANGED <<ledger, exchange, live, corrupted, book, tick, ks, killCancelled,
                 crashes, kills>>

StartTick(panicked) ==
  /\ pc = "sleep" /\ ~ks
  /\ killCancelled' = panicked
  /\ allowed' \in BOOLEAN
  /\ pc' = "reconcile"
  /\ UNCHANGED <<ledger, exchange, live, corrupted, book, tick, ks, crashes, kills>>

\* The switch is clear; the operator may have paused the quotes.  Mutant: the
\* next engagement finds cancel_all already done.
TickStartsKeeps == StartTick(killCancelled)
TickStarts == StartTick(FALSE)

-----------------------------------------------------------------------------
(* MMReconciler.reconcile *)

\* The row of a closed order of which n contracts filled.  Mutant: what filled
\* before a cancel is forgotten.
ClosedForgets(n) == "cancelled"
Closed(n) == IF n > 0 THEN "filled" ELSE "cancelled"

\* Mutant: an order is closed as soon as it fills in part.
FinalEarly(o) == ord[o] \in {"executed", "canceled"} \/ fill[o] > 0
Final(o) == ord[o] \in {"executed", "canceled"}

\* Resting orders nobody manages: orphans, whose row is pending, and phantoms,
\* whose row is not.  Mutant: the reconciler is not told what is managed.
OrphansUnknown == {}
Orphans  == {o \in Pending \ live : ord[o] = "resting"}
Phantoms == {o \in Orders \ Pending : ord[o] = "resting"}

\* Pending rows whose order is closed.  Mutant: managed orders are left alone.
ResolvedUnmanaged == {o \in Pending \ live : Final(o)}
Resolved == {o \in Pending : Final(o)}

\* Pending rows get_orders knows nothing of.
Missing == {o \in Pending : ord[o] \in {"none", "flying", "lost"}}

\* get_orders answered: pending rows take the outcome of their order.
GetOrders ==
  /\ pc = "reconcile"
  /\ row' = [o \in Orders |-> IF o \in Resolved THEN Closed(fill[o]) ELSE row[o]]
  /\ rfill' = [o \in Orders |-> IF o \in Resolved THEN fill[o] ELSE rfill[o]]
  /\ todo' = Orphans \union Phantoms
  /\ report' = MarketsOf(Missing \union Phantoms)
  /\ pc' = "orphans"
  /\ UNCHANGED <<exchange, live, corrupted, book, round, cur, want, flags>>

\* It did not: the report is empty, and the engine takes it for the truth.
GetOrdersFails ==
  /\ pc = "reconcile" /\ "query" \in Faults
  /\ corrupted' = {}
  /\ pc' = "apply"
  /\ UNCHANGED <<ledger, exchange, live, book, tick, flags>>

\* The row of o is closed by the answer to its cancel.
CloseRow(o) ==
  /\ row' = [row EXCEPT ![o] = Closed(fill[o])]
  /\ rfill' = [rfill EXCEPT ![o] = fill[o]]

CancelOrphan(o) ==
  /\ pc = "orphans" /\ o \in todo
  /\ todo' = todo \ {o}
  /\ \/ /\ ord[o] = "resting"
        /\ ord' = [ord EXCEPT ![o] = "canceled"]
        /\ IF row[o] = "pending" THEN CloseRow(o) ELSE UNCHANGED ledger
        /\ UNCHANGED report
     \/ /\ ord[o] # "resting" \/ "cancel" \in Faults
        /\ report' = report \union {o[1]}
        /\ UNCHANGED <<ledger, ord>>
  /\ UNCHANGED <<fill, live, corrupted, book, pc, round, cur, want, flags>>

EndReconcile ==
  /\ pc = "orphans" /\ todo = {}
  /\ corrupted' = report
  /\ report' = {}
  /\ pc' = "apply"
  /\ UNCHANGED <<ledger, exchange, live, book, todo, round, cur, want, flags>>

-----------------------------------------------------------------------------
(* _apply_settled_fills *)

Unapplied == {o \in Orders : row[o] = "filled" /\ o \notin applied}

\* One filled row, once per order.
ApplyFill(o) ==
  /\ pc = "apply" /\ o \in Unapplied
  /\ applied' = applied \union {o}
  /\ inv' = [inv EXCEPT ![o[1]] = IF o[2] = "buy" THEN @ + rfill[o] ELSE @ - rfill[o]]
  /\ UNCHANGED <<ledger, exchange, live, corrupted, pc, tick, flags>>

EndApply ==
  /\ pc = "apply" /\ Unapplied = {}
  /\ round' = Tickers
  /\ pc' = "quote"
  /\ UNCHANGED <<ledger, exchange, live, corrupted, book, todo, report, cur, want, flags>>

-----------------------------------------------------------------------------
(* Motor5Executor.sync_quotes and retire_ticker *)

\* The inventory cap: the quoter withdraws the side that would add to it.  Mutant:
\* the other side.
WithdrawnSwapped(t) == {s \in Sides : \/ s = "sell" /\ inv[t] >= MaxInventory
                                      \/ s = "buy" /\ inv[t] <= -MaxInventory}
Withdrawn(t) == {s \in Sides : \/ s = "buy" /\ inv[t] >= MaxInventory
                               \/ s = "sell" /\ inv[t] <= -MaxInventory}

\* What may be asked of the sides of t: to retire it (no fair value, no book, no
\* spread, or in doubt), or to quote it, where a quote that did not change stays.
Plans(t) ==
  {w \in [Sides -> {"keep", "none", "new"}] :
     \A s \in Sides : w[s] = IF Live(t, s) = {} THEN "keep" ELSE "none"}
  \union
  IF allowed /\ t \notin corrupted
    THEN {w \in [Sides -> {"keep", "none", "new"}] :
            \A s \in Sides :
              IF s \in Withdrawn(t)
                THEN w[s] = IF Live(t, s) = {} THEN "keep" ELSE "none"
                ELSE w[s] = "new" \/ (w[s] = "keep" /\ Live(t, s) # {})}
    ELSE {}

Quote(t) ==
  /\ pc = "quote" /\ want = Settled
  /\ t \in round
  /\ round' = round \ {t}
  /\ cur' = t
  /\ want' \in Plans(t)
  /\ UNCHANGED <<ledger, exchange, live, corrupted, book, pc, todo, report, flags>>

\* The bid comes before the ask.
Turn(s) == pc = "quote" /\ want[s] # "keep" /\ (s = "sell" => want["buy"] = "keep")

\* _cancel: the order leaves _live whatever happens.  Its row is closed if the
\* cancel is confirmed; otherwise the ticker is in doubt, and nothing is placed.
CancelQuote(s) ==
  /\ Turn(s)
  /\ \E o \in Live(cur, s) :
       /\ live' = live \ {o}
       /\ \/ /\ ord[o] = "resting"
             /\ ord' = [ord EXCEPT ![o] = "canceled"]
             /\ CloseRow(o)
             /\ want' = [want EXCEPT ![s] = IF @ = "none" THEN "keep" ELSE @]
             /\ UNCHANGED corrupted
          \/ /\ ord[o] # "resting" \/ "cancel" \in Faults
             /\ corrupted' = corrupted \union {cur}
             /\ want' = [want EXCEPT ![s] = "keep"]
             /\ UNCHANGED <<ledger, ord>>
  /\ UNCHANGED <<fill, book, pc, todo, report, round, cur, flags>>

Filled == SumFunctionOnSet(rfill, {o \in Orders : row[o] = "filled"})

\* _mm_open_cost_usd: a pending row reserves its whole count, a filled one what
\* filled.  Mutant: what rests is not counted.
OpenCostFilled == Filled
OpenCost == Size * Cardinality(Pending) + Filled

\* The canary cap.
Fits == OpenCost + Size <= MaxOpen

\* A client order id never used before.
Fresh(o) == row[o] = "none" /\ \A n \in 1..(o[3] - 1) : row[<<o[1], o[2], n>>] # "none"

\* _place: the intent is persisted, then the order goes out post-only; it rests,
\* it is rejected, or nobody knows.  It may still be on its way.  Any 4xx counts
\* as rejected, the one that answers a retry too.
Place(s) ==
  /\ Turn(s) /\ want[s] = "new" /\ Live(cur, s) = {}
  /\ want' = [want EXCEPT ![s] = "keep"]
  /\ Fits
  /\ \E o \in Orders :
       /\ o[1] = cur /\ o[2] = s /\ Fresh(o)
       /\ \/ /\ row' = [row EXCEPT ![o] = "pending"]
             /\ ord' = [ord EXCEPT ![o] = "resting"]
             /\ live' = live \union {o}
             /\ UNCHANGED corrupted
          \/ /\ row' = [row EXCEPT ![o] = "cancelled"]
             /\ ord' \in {ord} \union IF "again" \in Faults
                                      THEN {[ord EXCEPT ![o] = "resting"]} ELSE {}
             /\ UNCHANGED <<live, corrupted>>
          \/ /\ "place" \in Faults
             /\ row' = [row EXCEPT ![o] = "pending"]
             /\ ord' = [ord EXCEPT ![o] = "flying"]
             /\ corrupted' = corrupted \union {cur}
             /\ UNCHANGED live
  /\ UNCHANGED <<rfill, fill, book, pc, todo, report, round, cur, flags>>

\* No headroom, no room under the canary cap, or the intent could not be written.
NotPlaced(s) ==
  /\ Turn(s) /\ want[s] = "new" /\ Live(cur, s) = {}
  /\ want' = [want EXCEPT ![s] = "keep"]
  /\ UNCHANGED <<ledger, exchange, live, corrupted, book, pc, todo, report, round, cur, flags>>

EndTick ==
  /\ pc = "quote" /\ round = {} /\ want = Settled
  /\ allowed' = FALSE
  /\ pc' = "sleep"
  /\ UNCHANGED <<ledger, exchange, live, corrupted, book, tick, ks, killCancelled,
                 crashes, kills>>

-----------------------------------------------------------------------------
(* The exchange *)

Arrive(o) ==
  /\ ord[o] = "flying"
  /\ ord' \in {[ord EXCEPT ![o] = s] : s \in {"resting", "lost"}}
  /\ UNCHANGED <<ledger, fill, live, corrupted, book, pc, tick, flags>>

Fill(o) ==
  /\ ord[o] = "resting"
  /\ fill' = [fill EXCEPT ![o] = @ + 1]
  /\ ord' = [ord EXCEPT ![o] = IF fill[o] + 1 = Size THEN "executed" ELSE "resting"]
  /\ UNCHANGED <<ledger, live, corrupted, book, pc, tick, flags>>

\* By the exchange, by hand in its web page, or by a cancel that arrives late.
CancelledThere(o) ==
  /\ ord[o] = "resting"
  /\ ord' = [ord EXCEPT ![o] = "canceled"]
  /\ UNCHANGED <<ledger, fill, live, corrupted, book, pc, tick, flags>>

-----------------------------------------------------------------------------
(* The process and the operator *)

\* What dies with the process.
Forget ==
  /\ pc' = "down"
  /\ crashes' = crashes + 1
  /\ applied' = {}
  /\ inv' = [t \in Tickers |-> 0]
  /\ killCancelled' = FALSE /\ allowed' = FALSE
  /\ todo' = {} /\ report' = {} /\ round' = {} /\ want' = Settled
  /\ UNCHANGED <<cur, ks, kills>>

\* Also a tick that raises: run() then leaves without cancel_all.
Crash ==
  /\ pc # "down" /\ crashes < MaxCrashes
  /\ live' = {} /\ corrupted' = {}
  /\ Forget
  /\ UNCHANGED <<ledger, exchange>>

\* A signal lets the tick end, and then cancels every quote.
Shutdown ==
  /\ pc = "sleep" /\ crashes < MaxCrashes
  /\ CancelAll
  /\ Forget

\* What reconcile_pending_trades, made for orders that never rest, gives to the
\* row of a pending order.
BootStatus(o) ==
  CASE ord[o] = "executed" -> "filled"
    [] ord[o] = "canceled" -> "cancelled"
    [] OTHER -> "error"

\* aged is the pending rows older than 30 seconds, whose requests have arrived
\* or never will; none if get_orders fails.
Boot ==
  /\ pc = "down"
  /\ \E aged \in SUBSET {o \in Pending : ord[o] # "flying"} :
       /\ row' = [o \in Orders |-> IF o \in aged THEN BootStatus(o) ELSE row[o]]
       /\ rfill' = [o \in Orders |-> IF o \in aged /\ BootStatus(o) = "filled"
                                       THEN Size ELSE rfill[o]]
  /\ corrupted' = {}
  /\ pc' = "sleep"
  /\ UNCHANGED <<exchange, live, book, tick, flags>>

EngageKillSwitch ==
  /\ ~ks /\ kills < MaxKills
  /\ ks' = TRUE /\ kills' = kills + 1
  /\ UNCHANGED <<ledger, exchange, live, corrupted, book, pc, tick, killCancelled, allowed,
                 crashes>>

\* The script that clears it runs beside the process.
ClearKillSwitch ==
  /\ ks
  /\ ks' = FALSE
  /\ UNCHANGED <<ledger, exchange, live, corrupted, book, pc, tick, killCancelled, allowed,
                 crashes, kills>>

-----------------------------------------------------------------------------

Tick ==
  \/ TickPanics \/ TickKilled \/ TickStarts
  \/ GetOrders \/ GetOrdersFails
  \/ \E o \in Orders : CancelOrphan(o) \/ ApplyFill(o)
  \/ EndReconcile \/ EndApply
  \/ \E t \in Tickers : Quote(t)
  \/ \E s \in Sides : CancelQuote(s) \/ Place(s) \/ NotPlaced(s)
  \/ EndTick

Next ==
  \/ Tick
  \/ \E o \in Orders : Arrive(o) \/ Fill(o) \/ CancelledThere(o)
  \/ Crash \/ Shutdown \/ Boot
  \/ EngageKillSwitch \/ ClearKillSwitch

Spec == Init /\ [][Next]_vars

\* The loop ticks every LOOP_INTERVAL_SEC, its requests are answered or time
\* out, and the container is restarted.
FairSpec == Spec /\ WF_vars(Tick) /\ WF_vars(Boot)

-----------------------------------------------------------------------------
(* Properties *)

Open(o) == ord[o] \in {"flying", "resting"}

\* executor.py: "Jamas re-colocar a ciegas".  A side of a market never has two
\* orders that can fill, through lost answers, failed cancels, restarts and
\* cancel_all.
OneQuotePerSide ==
  \A o, p \in Orders : Open(o) /\ Open(p) /\ o[1] = p[1] /\ o[2] = p[2] => o = p

\* What the ledger says of an order is final, and exact for those that filled.
RowsTellTruth ==
  \A o \in Orders :
    /\ row[o] = "filled" => ~Open(o) /\ rfill[o] = fill[o]
    /\ row[o] = "cancelled" => ~Open(o)

\* A row whose order has filled contracts only stops reserving them by becoming
\* filled; cancel_all (before the tick) and the boot are the two exceptions.
FillsKept ==
  [][pc \notin {"sleep", "down"} =>
       \A o \in Pending : fill[o] > 0 => row'[o] \in {"pending", "filled"}]_vars

\* Orders that filled on a row nobody counts any more.
Lost == {o \in Orders : fill[o] > 0 /\ row[o] \notin {"pending", "filled"}}

\* Contracts held of t at the exchange.
Position(t) ==
  SumFunctionOnSet([o \in Orders |-> IF o[2] = "buy" THEN fill[o] ELSE -fill[o]],
                   {o \in Orders : o[1] = t})

\* The inventory cap holds at the exchange, as far as it can while no fill was
\* lost: the quote that reaches it may be a replaced one that had filled all but
\* one contract, and its replacement.
InventoryCap ==
  Lost = {} => \A t \in Tickers : /\ Position(t) <= MaxInventory + 2 * (Size - 1)
                                  /\ -Position(t) <= MaxInventory + 2 * (Size - 1)

\* The canary cap bounds what is really at risk at the exchange, what filled and
\* what may still fill, on the rows not yet closed as empty.
AtRisk(o) == IF Open(o) THEN Size ELSE fill[o]
CanaryCap ==
  SumFunctionOnSet([o \in Orders |-> AtRisk(o)],
                   {o \in Orders : row[o] \in {"pending", "filled"}}) <= MaxOpen

\* From cancel_all until the kill-switch is cleared and a tick begins, the motor
\* manages no quote: nothing is placed in between.
KillStops == killCancelled => live = {}

\* Again and again every order that filled whole, and was not closed by
\* cancel_all or the boot, is in the inventory.
FillsReachInventory ==
  []<>(\A o \in Orders : ord[o] = "executed" /\ row[o] \in {"pending", "filled"} =>
                            o \in applied)
=============================================================================
