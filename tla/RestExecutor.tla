---------------------------- MODULE RestExecutor ----------------------------
(***************************************************************************)
(* The executor of the REST arbitrage motor (motor_rest_arb/executor.py)   *)
(* with the exchange it talks to, the trade ledger it writes, and the boot *)
(* sequence that takes over after a crash.                                 *)
(*                                                                         *)
(* One arbitrage attempt buys Count contracts of every leg.  The hard leg  *)
(* is sent alone as fill-or-kill; the cheap legs go out only once it has   *)
(* filled.  A leg whose answer is lost is reconciled against two sources.  *)
(* Whatever is then believed held without its siblings is sold back        *)
(* immediate-or-cancel, and what cannot be sold engages the kill-switch.   *)
(*                                                                         *)
(* asyncio runs one task at a time, so an action is the code between two   *)
(* awaits.  Actions of the exchange, of the operator and crashes may come  *)
(* between any two of them.                                                *)
(***************************************************************************)
EXTENDS Integers, FiniteSets

CONSTANTS
  Legs,         \* legs of an opportunity
  HardLeg,      \* the leg select_hard_leg picks
  Ticker,       \* market of each leg of each attempt; a binary arb has both
                \* legs on one market, a later attempt may meet it again
  YesLegs,      \* legs bought on the yes side
  Count,        \* contracts per leg
  MaxAttempts,  \* bound: opportunities executed
  MaxRetries,   \* ROLLBACK_MAX_RETRIES
  Threshold,    \* CIRCUIT_BREAKER_THRESHOLD
  MaxCrashes,   \* bound: process crashes
  Flaky,        \* bound: attempts whose row updates may fail
  Faults        \* what the environment is allowed to do, see FaultKinds

FaultKinds ==
  { "lostbuy",     \* the answer to a buy never arrives, or the request does not
    "late",        \* a buy is still under way when the client gives up on it
    "unreadable",  \* a filled buy answers without a fill count
    "lostsell",    \* the answer to a rollback sell never arrives
    "partial",     \* a rollback sell fills part of its contracts
    "query",       \* get_orders or get_positions fails
    "rowwrite",    \* an update of a trade row fails
    "kswrite",     \* persisting the kill-switch fails
    "script",      \* the operator runs engage_kill_switch.py
    "elsewhere" }  \* another motor of this process fires its kill-switch

Attempts  == 1..MaxAttempts
Keys      == Attempts \X Legs
Tickers   == {Ticker[k] : k \in Keys}
CheapLegs == Legs \ {HardLeg}

ASSUME LegsAssumption ==
  /\ IsFiniteSet(Legs)
  /\ HardLeg \in Legs
  /\ CheapLegs # {}
  /\ YesLegs \subseteq Legs
  /\ DOMAIN Ticker = Keys

ASSUME BoundsAssumption ==
  /\ Count \in Nat \ {0}
  /\ MaxAttempts \in Nat
  /\ MaxRetries \in Nat \ {0}
  /\ Threshold \in Nat \ {0}
  /\ MaxCrashes \in Nat
  /\ Flaky \subseteq Attempts

ASSUME FaultsAssumption == Faults \subseteq FaultKinds

RowStatus   == {"none", "pending", "filled", "settled", "cancelled", "error_missing"}
OrderStatus == {"none", "flying", "executed", "canceled", "lost"}
LegState    == {"FILL", "KILL", "ERROR_RED"}

VARIABLES
  \* the SQLite ledger
  row,         \* status of the trade row of each leg of each attempt
  ksDb,        \* the persisted kill-switch is engaged
  \* the exchange
  ord,         \* the buy order of each leg
  sold,        \* contracts of each leg the rollback sold
  pos,         \* net position in each market, yes minus no
  sell,        \* the outstanding rollback sell
  \* the executor's memory
  att,         \* opportunities executed so far; the current one while pc # "idle"
  pc,          \* where execute() is suspended
  res,         \* LegResult of each leg
  todo,        \* legs the current phase still has to treat
  seen,        \* filled_legs: legs to roll back
  leg,         \* the leg being reconciled or sold
  said,        \* orders_says_filled of the leg being reconciled
  tries,       \* sells already sent for the leg being sold
  clean,       \* all_closed
  recent,      \* rollbacks inside ROLLBACK_WINDOW_SEC
  execPaused,  \* RestExecutor._paused
  execOn,      \* the engine was built with an executor (not shadow)
  botPaused,   \* BotState.is_paused
  unheard,     \* engage_kill_switch.py persisted the switch while this process ran
               \* unpaused, and no pause has reached it since
  crashes,
  checked      \* clear_kill_switch.py saw every position at zero, and waits for CLEAR

ledger   == <<row, ksDb>>
exchange == <<ord, sold, pos, sell>>
local    == <<res, todo, seen, leg, said, tries, clean>>
pauses   == <<ksDb, execPaused, botPaused, unheard>>
process  == <<execOn, crashes, checked>>
vars     == <<ledger, exchange, att, pc, local, recent, execPaused, execOn, botPaused, unheard,
              crashes, checked>>

Key(l) == <<att, l>>

TypeOK ==
  /\ row \in [Keys -> RowStatus]
  /\ ksDb \in BOOLEAN
  /\ ord \in [Keys -> OrderStatus]
  /\ sold \in [Keys -> Nat]
  /\ pos \in [Tickers -> Int]
  /\ sell \in {"none", "sent", "full", "short"}
  /\ att \in 0..MaxAttempts
  /\ pc \in {"idle", "hard", "cheap", "resolve", "position", "rollback", "down"}
  /\ pc \notin {"idle", "down"} => att \in Attempts
  /\ sell # "none" => att \in Attempts
  /\ res \in [Legs -> LegState \union {"none"}]
  /\ todo \subseteq Legs
  /\ seen \subseteq Legs
  /\ leg \in Legs
  /\ said \in BOOLEAN
  /\ tries \in 0..(MaxRetries - 1)
  /\ clean \in BOOLEAN
  /\ recent \in Nat
  /\ execPaused \in BOOLEAN
  /\ execOn \in BOOLEAN
  /\ botPaused \in BOOLEAN
  /\ unheard \in BOOLEAN
  /\ crashes \in 0..MaxCrashes
  /\ checked \in BOOLEAN

Init ==
  /\ row = [k \in Keys |-> "none"]
  /\ ksDb = FALSE
  /\ ord = [k \in Keys |-> "none"]
  /\ sold = [k \in Keys |-> 0]
  /\ pos = [t \in Tickers |-> 0]
  /\ sell = "none"
  /\ att = 0
  /\ pc = "idle"
  /\ res = [l \in Legs |-> "none"]
  /\ todo = {}
  /\ seen = {}
  /\ leg = HardLeg
  /\ said = FALSE
  /\ tries = 0
  /\ clean = TRUE
  /\ recent = 0
  /\ execPaused = FALSE
  /\ execOn = TRUE
  /\ botPaused = FALSE
  /\ unheard = FALSE
  /\ crashes = 0
  /\ checked = FALSE

-----------------------------------------------------------------------------
(* Writing the ledger *)

\* The rows of W that one update may fail to reach.
Unwritten(W) == IF "rowwrite" \in Faults THEN SUBSET {k \in W : k[1] \in Flaky} ELSE {{}}

\* The rows of W take the status s, those of lost excepted.
Written(r, W, s, lost) == [k \in Keys |-> IF k \in W \ lost THEN s ELSE r[k]]

\* engage_kill_switch, called inside a try: it may fail to persist.
EngageKillSwitch == ksDb' \in (IF "kswrite" \in Faults THEN {ksDb, TRUE} ELSE {TRUE})

\* A position is open that nobody manages: stop the executor and the bot, and
\* persist it.  trip is the circuit breaker, which stops the executor only.
Halt(stop, trip) ==
  /\ execPaused' = (execPaused \/ stop \/ trip)
  /\ botPaused' = (botPaused \/ stop)
  /\ unheard' = (unheard /\ ~stop)
  /\ IF stop THEN EngageKillSwitch ELSE UNCHANGED ksDb

-----------------------------------------------------------------------------
(* execute() *)

\* An opportunity passes the executor's own pause and check_pre_trade; the
\* intents of the legs persisted are written, then those sent go out.
Start(persisted, sent) ==
  /\ pc = "idle"
  /\ execOn /\ ~execPaused /\ ~botPaused
  /\ att < MaxAttempts
  /\ att' = att + 1
  /\ row' = Written(row, {att + 1} \X persisted, "pending", {})
  /\ ord' = [k \in Keys |-> IF k \in {att + 1} \X sent THEN "flying" ELSE ord[k]]
  /\ res' = [l \in Legs |-> "none"]
  /\ seen' = {} /\ leg' = HardLeg /\ said' = FALSE
  /\ pc' = "hard"
  /\ UNCHANGED <<pauses, sold, pos, sell, todo, tries, clean, recent, process>>

\* Mutants: every leg at once, as before hard-leg-first; the hard intent only.
ExecuteParallel == Start(Legs, Legs)
ExecuteHardIntent == Start({HardLeg}, {HardLeg})

\* The intent of every leg is persisted, the hard leg alone is sent.
Execute == Start(Legs, {HardLeg})

\* What _place_fok can make of the answer to the buy of leg l.
Outcomes(l) ==
  LET o == ord[Key(l)] IN
    {r \in LegState :
       \/ r = "FILL" /\ o = "executed"
       \/ r = "KILL" /\ (o = "canceled" \/ (o = "executed" /\ "unreadable" \in Faults))
       \/ r = "ERROR_RED" /\ \/ o = "lost"
                             \/ o \in {"executed", "canceled"} /\ "lostbuy" \in Faults
                             \/ o = "flying" /\ "late" \in Faults}

\* The hard leg filled: its row says so (or the bot stops), and the cheap legs
\* go out together.
HardFills ==
  /\ pc = "hard" /\ "FILL" \in Outcomes(HardLeg)
  /\ \E lost \in Unwritten({Key(HardLeg)}) :
       /\ row' = Written(row, {Key(HardLeg)}, "filled", lost)
       /\ Halt(lost # {}, FALSE)
  /\ ord' = [k \in Keys |-> IF k \in {att} \X CheapLegs THEN "flying" ELSE ord[k]]
  /\ res' = [res EXCEPT ![HardLeg] = "FILL"]
  /\ pc' = "cheap"
  /\ UNCHANGED <<sold, pos, sell, att, todo, seen, leg, said, tries,
                 clean, recent, process>>

\* The hard leg was killed: nothing was bought, every row is closed.
HardKilled ==
  /\ pc = "hard" /\ "KILL" \in Outcomes(HardLeg)
  /\ \E lost \in Unwritten({att} \X Legs) :
       row' = Written(row, {att} \X Legs, "cancelled", lost)
  /\ pc' = "idle"
  /\ UNCHANGED <<pauses, exchange, att, local, recent, process>>

\* Nobody knows what became of the hard leg: the cheap ones are not sent, and
\* it alone is reconciled.
HardUnknown ==
  /\ pc = "hard" /\ "ERROR_RED" \in Outcomes(HardLeg)
  /\ \E lost \in Unwritten({att} \X CheapLegs) :
       row' = Written(row, {att} \X CheapLegs, "cancelled", lost)
  /\ pc' = "resolve"
  /\ todo' = {HardLeg}
  /\ seen' = {}
  /\ UNCHANGED <<pauses, exchange, att, res, leg, said, tries, clean,
                 recent, process>>

\* One of the parallel _place_fok tasks returns; its row is not touched yet.
CheapAnswers(l) ==
  /\ pc = "cheap" /\ res[l] = "none"
  /\ \E r \in Outcomes(l) : res' = [res EXCEPT ![l] = r]
  /\ UNCHANGED <<ledger, exchange, att, pc, todo, seen, leg, said, tries, clean,
                 recent, pauses, process>>

LegsThat(r) == {l \in Legs : res[l] = r}

\* Where execute() goes once toResolve is left to reconcile and held to roll back.
Continue(toResolve, held) ==
  /\ seen' = held
  /\ \/ toResolve # {} /\ pc' = "resolve" /\ todo' = toResolve /\ UNCHANGED recent
     \/ toResolve = {} /\ held = {} /\ pc' = "idle" /\ todo' = {} /\ UNCHANGED recent
     \/ /\ toResolve = {} /\ held # {}
        /\ pc' = "rollback" /\ todo' = held /\ recent' = recent + 1

\* Every cheap leg has answered: the rows are updated, then either the arb is
\* complete or what is unknown is reconciled and what filled is rolled back.
CheapJoin ==
  /\ pc = "cheap" /\ \A l \in Legs : res[l] # "none"
  /\ \E lostFill \in Unwritten({att} \X (LegsThat("FILL") \ {HardLeg})),
        lostKill \in Unwritten({att} \X LegsThat("KILL")) :
       /\ row' = Written(Written(row, {att} \X (LegsThat("FILL") \ {HardLeg}), "filled", lostFill),
                         {att} \X LegsThat("KILL"), "cancelled", lostKill)
       /\ Halt(lostFill # {}, FALSE)
  /\ IF LegsThat("FILL") = Legs
       THEN pc' = "idle" /\ UNCHANGED <<todo, seen, recent>>
       ELSE Continue(LegsThat("ERROR_RED"), LegsThat("FILL"))
  /\ UNCHANGED <<exchange, att, res, leg, said, tries, clean, process>>

-----------------------------------------------------------------------------
(* _resolve_exposure and _reconcile_leg *)

\* The verdict on leg l: a row that says filled and a place in the rollback,
\* or a cancelled row.
Judged(l, held) ==
  /\ \E lost \in Unwritten({Key(l)}) :
       /\ row' = Written(row, {Key(l)}, IF held THEN "filled" ELSE "cancelled", lost)
       /\ Halt(held /\ lost # {}, FALSE)
  /\ Continue(todo \ {l}, IF held THEN seen \union {l} ELSE seen)

\* get_orders answered: an order not listed, or not executed, counts as not filled.
QueryOrders(l) ==
  /\ pc = "resolve" /\ l \in todo
  /\ leg' = l
  /\ said' = (ord[Key(l)] = "executed")
  /\ pc' = "position"
  /\ UNCHANGED <<ledger, exchange, att, res, todo, seen, tries, clean, recent,
                 pauses, process>>

\* get_orders failed: the leg is assumed held.
QueryOrdersFails(l) ==
  /\ pc = "resolve" /\ l \in todo /\ "query" \in Faults
  /\ Judged(l, TRUE)
  /\ UNCHANGED <<exchange, att, res, leg, said, tries, clean, process>>

\* Mutant: the optimistic source is believed when the two disagree.
QueryPositionsOptimist ==
  /\ pc = "position"
  /\ Judged(leg, said /\ pos[Ticker[Key(leg)]] # 0)
  /\ UNCHANGED <<exchange, att, res, leg, said, tries, clean, process>>

\* get_positions answered: only two sources that both say no clear the leg.
\* The second one knows the market, not the leg.
QueryPositions ==
  /\ pc = "position"
  /\ Judged(leg, said \/ pos[Ticker[Key(leg)]] # 0)
  /\ UNCHANGED <<exchange, att, res, leg, said, tries, clean, process>>

QueryPositionsFails ==
  /\ pc = "position" /\ "query" \in Faults
  /\ Judged(leg, TRUE)
  /\ UNCHANGED <<exchange, att, res, leg, said, tries, clean, process>>

-----------------------------------------------------------------------------
(* _rollback and _sell_to_exit *)

\* One sell of Count contracts at one cent; a retry sends the same again.
SendSell(l) ==
  /\ pc = "rollback" /\ l \in todo
  /\ sell = "none"
  /\ tries > 0 => l = leg
  /\ leg' = l
  /\ sell' = "sent"
  /\ UNCHANGED <<ledger, ord, sold, pos, att, pc, res, todo, seen, said, tries, clean,
                 recent, pauses, process>>

\* The breaker trips: the window holds Threshold rollbacks.
Trips == recent >= Threshold

\* The rollback is done with the current leg; after the last one a leg left
\* open engages the kill-switch, and the breaker looks at the window.  unsaved
\* is a critical row update that failed.
LegDone(allClosed, unsaved) ==
  LET last == todo = {leg} IN
  /\ todo' = todo \ {leg}
  /\ tries' = 0
  /\ sell' = "none"
  /\ clean' = (allClosed \/ last)
  /\ pc' = IF last THEN "idle" ELSE "rollback"
  /\ Halt(unsaved \/ (last /\ ~allClosed), last /\ Trips)

\* Mutant: all_closed remembers the last leg only.
SellClosedForgets ==
  /\ pc = "rollback" /\ sell = "full"
  /\ \E lost \in Unwritten({Key(leg)}) :
       /\ row' = Written(row, {Key(leg)}, "settled", lost)
       /\ LegDone(TRUE, lost # {})
  /\ UNCHANGED <<ord, sold, pos, att, res, seen, leg, said, recent, process>>

\* The answer says all Count contracts were sold: the loss is realised.
SellClosed ==
  /\ pc = "rollback" /\ sell = "full"
  /\ \E lost \in Unwritten({Key(leg)}) :
       /\ row' = Written(row, {Key(leg)}, "settled", lost)
       /\ LegDone(clean, lost # {})
  /\ UNCHANGED <<ord, sold, pos, att, res, seen, leg, said, recent, process>>

\* The answer does not say so, or there is none.
NotSold == sell = "short" \/ (sell # "none" /\ "lostsell" \in Faults)

Retry(n) ==
  /\ pc = "rollback" /\ NotSold
  /\ tries' = n
  /\ sell' = "none"
  /\ UNCHANGED <<ledger, ord, sold, pos, att, pc, res, todo, seen, leg, said, clean,
                 recent, pauses, process>>

\* Mutants: retries without a bound; retries not counted.
SellAgainUnbounded == Retry(tries + 1)
SellAgainUncounted == tries + 1 < MaxRetries /\ Retry(tries)

SellAgain == tries + 1 < MaxRetries /\ Retry(tries + 1)

\* The retries are used up: the row stays filled, with the note.
SellGivenUp ==
  /\ pc = "rollback" /\ NotSold
  /\ tries + 1 = MaxRetries
  /\ \E lost \in Unwritten({Key(leg)}) : LegDone(FALSE, lost # {})
  /\ UNCHANGED <<row, ord, sold, pos, att, res, seen, leg, said, recent, process>>

\* A rollback leaves the window of the breaker.
WindowExpires ==
  /\ recent > 0 /\ pc = "idle"
  /\ recent' = recent - 1
  /\ UNCHANGED <<ledger, exchange, att, pc, local, pauses, process>>

-----------------------------------------------------------------------------
(* The exchange *)

Signed(l, n) == IF l \in YesLegs THEN n ELSE -n

\* A fill-or-kill buy fills whole.
FillBuy(k) ==
  /\ ord[k] = "flying"
  /\ ord' = [ord EXCEPT ![k] = "executed"]
  /\ pos' = [pos EXCEPT ![Ticker[k]] = @ + Signed(k[2], Count)]
  /\ UNCHANGED <<ledger, sold, sell, att, pc, local, recent, pauses, process>>

\* Or not at all, or the request never arrives.
MissBuy(k) ==
  /\ ord[k] = "flying"
  /\ ord' = [ord EXCEPT ![k] = "canceled"]
  /\ UNCHANGED <<ledger, sold, pos, sell, att, pc, local, recent, pauses, process>>

LoseBuy(k) ==
  /\ ord[k] = "flying" /\ "lostbuy" \in Faults
  /\ ord' = [ord EXCEPT ![k] = "lost"]
  /\ UNCHANGED <<ledger, sold, pos, sell, att, pc, local, recent, pauses, process>>

\* An immediate-or-cancel sell takes what the bids give.  Selling what is not
\* held opens the other side: the exchange nets.
MatchSell(n) ==
  /\ sell = "sent"
  /\ n \in {0, Count} \/ "partial" \in Faults
  /\ sold' = [sold EXCEPT ![Key(leg)] = @ + n]
  /\ pos' = [pos EXCEPT ![Ticker[Key(leg)]] = @ - Signed(leg, n)]
  /\ sell' = IF n = Count THEN "full" ELSE "short"
  /\ UNCHANGED <<ledger, ord, att, pc, res, todo, seen, leg, said, tries, clean,
                 recent, pauses, process>>

-----------------------------------------------------------------------------
(* Crashes, boot and the operator *)

\* The memory of the process is gone, its pauses included; a sell already sent
\* may still match.
Crash ==
  /\ pc # "down"
  /\ crashes < MaxCrashes
  /\ crashes' = crashes + 1
  /\ pc' = "down"
  /\ res' = [l \in Legs |-> "none"]
  /\ todo' = {} /\ seen' = {} /\ said' = FALSE /\ tries' = 0 /\ clean' = TRUE
  /\ recent' = 0
  /\ execPaused' = FALSE /\ botPaused' = FALSE /\ unheard' = FALSE
  /\ UNCHANGED <<ledger, exchange, att, leg, execOn, checked>>

\* reconcile_pending_trades gives the row of k, pending for long enough, the
\* status its order has at the exchange.
Reconciled(k) ==
  CASE ord[k] = "executed" -> "filled"
    [] ord[k] = "canceled" -> "cancelled"
    [] OTHER -> "error_missing"

\* What the boot restores of the kill-switch; the mutant starts unpaused.
RehydratedNever == FALSE
Rehydrated == ksDb

\* Boot: the persisted kill-switch is restored and decides whether the executor
\* is built; pending rows older than 30 seconds (those up to attempt aged) are
\* reconciled.  aged = 0 also stands for a get_orders that fails.  Requests of
\* the dead process have reached the exchange, or never will.
Boot ==
  /\ pc = "down"
  /\ sell # "sent" /\ \A k \in Keys : ord[k] # "flying"
  /\ \E aged \in 0..att :
       row' = [k \in Keys |-> IF row[k] = "pending" /\ k[1] <= aged
                                THEN Reconciled(k) ELSE row[k]]
  /\ botPaused' = Rehydrated
  /\ execOn' = ~Rehydrated
  /\ pc' = "idle"
  /\ sell' = "none"
  /\ UNCHANGED <<ksDb, execPaused, unheard, ord, sold, pos, att, local, recent, crashes, checked>>

\* POST /admin/pause and /admin/resume; resume is refused while the persisted
\* kill-switch is engaged.
AdminPause ==
  /\ pc # "down" /\ ~botPaused
  /\ botPaused' = TRUE
  /\ unheard' = FALSE
  /\ UNCHANGED <<ledger, exchange, att, pc, local, recent, execPaused, process>>

AdminResume ==
  /\ pc # "down" /\ botPaused /\ ~ksDb
  /\ botPaused' = FALSE
  /\ UNCHANGED <<ledger, exchange, att, pc, local, recent, execPaused, unheard, process>>

\* scripts/engage_kill_switch.py, a process of its own, persists the switch if it
\* is not, and then tries POST /admin/pause once: that is AdminPause above, in a
\* later step or, if it fails, in none.  A process running unpaused has not
\* heard of it.
EngageByScript ==
  /\ "script" \in Faults /\ ~ksDb
  /\ ksDb' = TRUE
  /\ unheard' = (pc # "down" /\ ~botPaused)
  /\ UNCHANGED <<row, exchange, att, pc, local, recent, execPaused, botPaused, process>>

\* The kill-switch of another motor of this process, the daily stop loss say:
\* it pauses the bot and persists between two awaits.
EngageElsewhere ==
  /\ "elsewhere" \in Faults /\ pc # "down"
  /\ botPaused' = TRUE
  /\ unheard' = FALSE
  /\ EngageKillSwitch
  /\ UNCHANGED <<row, exchange, att, pc, local, recent, execPaused, process>>

\* scripts/clear_kill_switch.py, a process of its own: it reads every position at
\* zero, then waits for the operator to type CLEAR.
CheckPositions ==
  /\ ~checked
  /\ ksDb /\ \A t \in Tickers : pos[t] = 0
  /\ checked' = TRUE
  /\ UNCHANGED <<ledger, exchange, att, pc, local, recent, pauses, execOn, crashes>>

ClearKillSwitch ==
  /\ checked
  /\ checked' = FALSE
  /\ ksDb' = FALSE
  /\ unheard' = FALSE
  /\ UNCHANGED <<row, exchange, att, pc, local, recent, execPaused, botPaused, execOn, crashes>>

CancelClear ==
  /\ checked
  /\ checked' = FALSE
  /\ UNCHANGED <<ledger, exchange, att, pc, local, recent, pauses, execOn, crashes>>

-----------------------------------------------------------------------------

Executor ==
  \/ HardFills \/ HardKilled \/ HardUnknown
  \/ \E l \in Legs : CheapAnswers(l)
  \/ CheapJoin
  \/ \E l \in Legs : QueryOrders(l) \/ QueryOrdersFails(l)
  \/ QueryPositions \/ QueryPositionsFails
  \/ \E l \in Legs : SendSell(l)
  \/ SellClosed \/ SellAgain \/ SellGivenUp

Exchange ==
  \/ \E k \in Keys : FillBuy(k) \/ MissBuy(k) \/ LoseBuy(k)
  \/ \E n \in 0..Count : MatchSell(n)

Operator ==
  \/ AdminPause \/ AdminResume
  \/ EngageByScript \/ EngageElsewhere
  \/ CheckPositions \/ ClearKillSwitch \/ CancelClear

Next ==
  \/ Execute \/ Executor \/ WindowExpires
  \/ Exchange
  \/ Crash \/ Boot
  \/ Operator

Spec == Init /\ [][Next]_vars

\* An awaited request is answered or times out, and the event loop resumes the
\* task that waited for it; the container is restarted after a crash.
FairSpec == Spec /\ WF_vars(Executor) /\ WF_vars(Exchange) /\ WF_vars(Boot)

-----------------------------------------------------------------------------
(* Properties *)

\* Contracts of leg k the account holds because of this executor.
Held(k) == (IF ord[k] = "executed" THEN Count ELSE 0) - sold[k]

\* A cheap leg is never on its way unless the hard leg of its attempt was
\* bought: the guardrail "hard-leg-first" of execute().
HardBeforeCheap ==
  \A a \in Attempts : \A l \in CheapLegs :
    ord[<<a, l>>] # "none" => ord[<<a, HardLeg>>] = "executed"

\* No order exists whose intent was not persisted first, whatever crashes.
IntentBeforeOrder == \A k \in Keys : ord[k] # "none" => row[k] # "none"

\* The ledger never loses a position: contracts held are on a row the
\* RiskManager counts, through kills, unknown answers, rollbacks, failed row
\* updates and reboots.
HeldIsVisible == \A k \in Keys : Held(k) > 0 => row[k] \in {"pending", "filled"}

\* While the kill-switch is persisted no attempt starts, whoever persisted it and
\* through reboots and resumes, but in the one case engage_kill_switch.py warns
\* of: a process that ran unpaused when the script wrote the row, and that
\* neither its POST nor another pause has reached since.
KillSwitchBlocks == [][att' # att => ~ksDb \/ unheard]_vars

\* The breaker: no attempt starts with Threshold rollbacks in the window.
BreakerBlocks == [][att' # att => recent < Threshold]_vars

\* Every attempt ends: execute() returns, or the process goes down.
AttemptEnds == (pc \notin {"idle", "down"}) ~> (pc \in {"idle", "down"})

-----------------------------------------------------------------------------
(* What execute() implements when a buy may go unanswered and a sell may find  *)
(* no bid, the failures it was written for                                     *)

\* The outcome of attempt a, read off the exchange.
OutcomeOf(a) ==
  IF row[<<a, HardLeg>>] = "none" THEN "new"
  ELSE IF a = att /\ pc # "idle" THEN "working"
  ELSE IF \A l \in Legs : ord[<<a, l>>] # "executed" THEN "noop"
  ELSE IF \A l \in Legs : Held(<<a, l>>) = Count THEN "captured"
  ELSE IF \A l \in Legs : Held(<<a, l>>) = 0 THEN "unwound"
  ELSE "stuck"

Atomic == INSTANCE AtomicArb WITH
            arb    <- [a \in Attempts |-> OutcomeOf(a)],
            halted <- execPaused \/ botPaused \/ ~execOn

\* The executor is an atomic arbitrage: all legs, none, or a halted motor.
ImplementsAtomicArb == Atomic!Spec
=============================================================================
