# A verification project for botkalshi

botkalshi trades prediction-market contracts on Kalshi.  It is one Python process (asyncio, a
FastAPI thread for health and administration) over one SQLite file.  Each strategy is a "motor":
an engine that looks for opportunities, and an executor that turns one into orders.  Money is
lost where the bot's idea of what it holds and the exchange's come apart, so that is what this
project is about: what happens to orders, ledger rows, positions and pauses when answers are
lost, orders fill between two awaits, writes fail, the process dies, or the operator acts; and
whether the numbers an order is decided by are those the account is charged and paid.

| Module | Models | Proofs |
|---|---|---|
| `RestExecutor`, `AtomicArb` | the executor of the REST arbitrage motor, and what it promises | `RestExecutorProofs` |
| `MarketMaker` | Motor 5, the market maker, trading live | `MarketMakerProofs` |
| `MotorOne` | Motor 1: engine, executor, breaker, pauses and who lifts them | `MotorOneProofs` |
| `RiskGate` | the RiskManager: exposure, budgets, stop-losses, capital | `RiskGateProofs` |
| `Exits` | the exit engines of Motors 2 and 3 and the settlement poller on one ledger | `ExitsProofs` |
| `OrderBookV2` | the books of one WebSocket subscription, their gaps and recoveries | `OrderBookV2Proofs` |
| `ArbMath` | fees, detection and payout of an arbitrage | |
| `RestEngine` | the engine of the REST arbitrage, from a ticker message to the executor | `RulesProofs` |
| `ExitRules` | when an exit engine sells, and the cents the ledger books | `RulesProofs` |
| `BookLevels` | the levels of one book, built from snapshots and deltas | `RulesProofs` |
| `QuoteRules` | Motor 5 in shadow: quotes, simulated fills, cohorts | `RulesProofs` |
| `Consensus` | Motor 2's choice of a game, its fair value and its bet | `RulesProofs` |

`MC*.tla` and `MC*.cfg` are the instances TLC checks (`MCRules` takes the last six of the table).
`Sums` holds the lemmas about sums over finite sets that the proofs share.
`PROJECT.json` is the index: components, runs, mutants, the source lines of every definition,
hazards, findings, theorems.

## 1. Inventory

Paths are under `src/src/`.  *M* = modelled, *p* = partly, *–* = not (section 13 says why).

| Component (source) | State it keeps | Operations | What makes it correct | |
|---|---|---|---|---|
| REST arb executor (`strategies/motor_rest_arb/executor.py`) | breaker window, `_paused`, rows of its legs | `execute`, `_place_fok`, `_reconcile_leg`, `_rollback`, `_sell_to_exit`, `_fire_kill_switch` | all legs or none, or a halted motor; nothing sent before the hard leg fills; no contract off the ledger | M |
| REST arb engine (`motor_rest_arb/engine.py`, `trigger.py`) | tickers, universe, one task | ticker handler, groups, thresholds, gates, resize | what it hands over pays what it promised | M |
| Settlement poller (`motor_rest_arb/settlement.py`) | none (reads rows) | `settle_once` | an arb is settled whole, once, for what it pays | M |
| Kill-switch and pauses (`storage/models.py`, `monitoring/health.py`, `scripts/engage_kill_switch.py`, `scripts/clear_kill_switch.py`) | one row of operational state; `BotState` | engage, rehydrate, clear, admin pause/resume | once persisted it stops trading until it is cleared; engaged by the script, once the process hears of it | M |
| Boot and runner (`runner.py`, `reconcile_pending_trades`) | tasks | rehydrate, reconcile, build motors, supervise, shut down | rows left pending get the outcome of their order | p |
| Motor 5 executor (`motor_5_mm/executor.py`) | `_live`, `corrupted` | `sync_quotes`, `retire_ticker`, `_place`, `_cancel`, `cancel_all` | one quote per side; never re-place blindly; exposure cap | M |
| Motor 5 reconciler (`motor_5_mm/reconciler.py`) | none | `reconcile`, `_cancel_orphan` | rows take the outcome of their order; orphans and phantoms go | M |
| Motor 5 engine (`motor_5_mm/engine.py`, `quoter.py`, `fees.py`, `shadow_fills.py`) | inventory, `_settled_coids`, the run of the experiment | the tick, live and in shadow | every fill reaches the inventory once; a clean cohort missed none; caps; quotes rest | p |
| Motor 1 executor (`motor_1_arbitrage/executor.py`) | local pause, breaker, event exposure | `execute`, rollback, abort, auto-resume | as the REST executor; nobody's pause is lifted but the breaker's | M |
| Motor 1 engine (`motor_1_arbitrage/engine.py`) | confirm ticks, cooldowns, one task | detection, second look, execution | at most one execution | p |
| Order book V2 (`orderbook_manager_v2.py`, `orderbook.py`) | books, sids, sequence numbers, buffers | handlers, recovery in chunks, seeding, levels | a book that reads fresh equals the exchange's; a blind one is seeded | p |
| Motor 2 (`motor_2_consensus/`) | rows, dedup | match, consensus, size, entry; exit engine | the line is of its own game; the bet is worth its price; sold once | p |
| Motor 3 (`motor_3_clv/`) | peaks, locks, portfolio table | poller, rules, exit executor | a position is closed once; a hedge never broken; a price exit loses by nothing but a fall of the bid | M |
| RiskManager (`risk/manager.py`) | lock, capital, windows of PnL | `check_pre_trade`, `check_and_reserve`, refresh, stops | limits hold between motors; a fatal loss latches | M |
| REST client, WebSocket client, data capture | throttle, connection | requests with retries, dispatch, seed watchdog | an exit is never blocked; a repeated POST does no harm | p |
| Arithmetic (`math/`) | – | fees, detection, Kelly, no-vig | cents never lost to rounding | M |
| Motors 6, 8, 9; book V1; fair-value book; reports; configuration | – | observe and record | – | – |

How they interact.  The engines call their executors with `await`.  The executors write an intent
row, call the REST client, and write the outcome; `check_pre_trade` and every cap read those rows,
so a row with the wrong status is an exposure the bot does not see.  The exit engines and the
settlement poller close rows that other motors wrote.  The kill-switch is a row plus the in-memory
`BotState`, with one *reason*, that every motor, the watchdog and the FastAPI handlers set; a boot
restores it from the row.  Two scripts are other processes on the same database:
`clear_kill_switch.py`, and `engage_kill_switch.py`, which persists the switch first and then tries
`POST /admin/pause` once; if that fails the process trades on until something pauses or restarts it.
At boot `reconcile_pending_trades`, written for Motor 1's fill-or-kill orders, goes over the pending
rows of every motor before any engine starts.

What is hard in it: a task is suspended at every `await`, and the exchange, the operator, another
motor and the clearing script act meanwhile; a lost answer leaves an order in an unknown state;
orders fill between a cancel and its answer; row updates fail after the fill they record; a crash
forgets everything but SQLite; a pause has one reason and several owners; a limit is checked
under a lock and spent after it; and rounding up once per order makes the edge of ten contracts
another edge than that of four.  `PROJECT.json` lists these hazards with the line where each
bites and the property that covers it.

## 2. Plan

Done: the two executors that hold real money with several legs or resting orders
(`RestExecutor`, `MarketMaker`); the order books; Motor 1 with its brakes; the RiskManager
between motors; exits and settlement on one ledger; the calculations on both ends of an order;
and the proofs of section 11.

Compositions: `RestExecutor` implements `AtomicArb`; in `Exits` two engines with an executor each,
the portfolio poller, the settlement poller and the boot share one ledger; in `RiskGate` four motors
share one gate; `RestEngine`, `ExitRules`, `QuoteRules` and `Consensus` share `ArbMath`.

What would come next: the refinement of `AtomicArb` through crashes, which needs a weaker promise;
several sids and a reconnection in `OrderBookV2`; markouts in `QuoteRules`; Motor 1's orphan sold by
the module `Exits` instead of by an action of `MotorOne`.

## 3. RestExecutor

**State.**  The ledger: `row` (status of each leg's row), `ksDb` (the persisted switch), `exposed`
(rows noted `exposed_killswitch`).  The exchange: `ord` (each buy), `sold`, `pos` (net position per
market), `sell` (the outstanding sell).  The executor: `pc` says at which `await` `execute()` is
suspended, `res` is the `LegResult` of each leg, `todo`, `seen`, `leg`, `said`, `tries`, `clean` are
its loop variables, `recent` the breaker's window, `execPaused` and `botPaused` the two pauses in
memory, `execOn` whether the boot built an executor at all.  `unheard` is history: the script
persisted the switch while this process ran unpaused, and no pause has reached the process since.

**Actions.**  Each is the code between two awaits.

| Action | Code |
|---|---|
| `Execute` | pause check, `check_pre_trade`, intents of *all* legs, the hard leg is sent |
| `HardFills`, `HardKilled`, `HardUnknown` | the three answers of `_place_fok` for the hard leg |
| `CheapAnswers`, `CheapJoin` | the parallel cheap legs, and what follows `gather` |
| `QueryOrders(Fails)`, `QueryPositions(Fails)` | `_reconcile_leg`, two sources |
| `SendSell`, `SellClosed`, `SellAgain`, `SellGivenUp` | `_rollback`, `_sell_to_exit`, the breaker, `_fire_kill_switch` |
| `FillBuy`, `MissBuy`, `LoseBuy`, `MatchSell` | the exchange |
| `EngageByScript`, `EngageElsewhere` | the kill-switch from outside: `scripts/engage_kill_switch.py`, whose pause is a later `AdminPause` or none; another motor of this process, which pauses and persists |
| `Crash`, `Boot`, `AdminPause`, `AdminResume`, `CheckPositions`, `ClearKillSwitch`, `CancelClear` | process and operator |

`Faults` says what the environment may do; its members are explained in the module.  The
idealisations: one executor, attempts one after the other (the engine awaits `execute`); a boot
happens when the dead process's requests have reached the exchange or are lost; the second boot
source (age of a row) is a choice of attempts; `WindowExpires` happens between attempts.  A boot
while the switch is engaged gives an engine without an executor, in shadow, until the next boot.

**Properties.**  `HardBeforeCheap`, `IntentBeforeOrder`, `HeldIsVisible` (contracts held are on a
row the RiskManager counts), `KillSwitchBlocks` (no attempt starts while the switch is persisted,
unless it is `unheard`: the script's own warning), `AttemptEnds`, and `ImplementsAtomicArb`: with `arb`
read off the exchange and the rows and `halted` off the pauses, `RestExecutor` implements
`AtomicArb`, in which an attempt ends with all legs, none, or stuck with the motor halted in the
same step.  The refinement holds under the failures `execute()` handles (`lostbuy`, `rowwrite`,
`kswrite`, sells that find no bid), with the switch engaged from outside at any moment, and without
crashes; with lost sells or crashes it fails
(section 10).  Under those failures it is a theorem (section 11); `BreakerBlocks` is one too, and
not run.

| Run | Instance | Shows |
|---|---|---|
| `rest_ledger` | 2 attempts on one binary market, threshold 1, 2 sell tries, 1 crash; `lostbuy`, `query`, `rowwrite` (the last in the first attempt), `script`, `elsewhere` | type, order discipline, ledger, the switch blocks through boots, resumes, clears and engagements from outside, `AttemptEnds` under fairness |
| `rest_atomic` | 2 attempts over different markets, threshold 2; `lostbuy`, `rowwrite`, `kswrite`, `script`, `elsewhere` | refinement of `AtomicArb` |

*Why these bounds.*  Legs interact only through the hard/cheap distinction and a shared market: the
first run has two legs on one market, the second a market per leg.  Two retries are the least with a
retry that is not the last, two attempts the least for anything that outlives one.  One crash may
come at every suspension point.  `Flaky` bounds the attempts whose row updates may fail: in the
first run the first of the two, since no step of the model reads the rows of the other attempt.
With one contract a sell fills whole or not at all; partial sells of this executor (fault `partial`)
are left to the proofs, which hold for any `Count`, and to `MotorOne`, whose run has two contracts.

*Deadlock* is not checked: when all attempts are used and nothing is pending the system rests.

*Fairness.*  Weak on the executor (an awaited request is answered or times out and asyncio resumes
the task), on the exchange (an accepted fill-or-kill or immediate-or-cancel order is decided at
once) and on the boot (the container is restarted).  None on the operator, on crashes, or on new
attempts.

## 4. MarketMaker

**State.**  `row`, `rfill` (status and `filled_count`), `ks`; at the exchange `ord`, `fill`; in the
executor `live` (`_live`), `corrupted`; in the engine `applied` (`_settled_coids`), `inv`,
`killCancelled`, `allowed` (`quotes_allowed` of this tick); and the tick itself: `pc`, `todo`,
`report`, `round`, `cur`, `want`.  An order is a ticker, a side and a number; prices are left out, so
a quote is kept, replaced or withdrawn, and every contract costs one.

**Actions.**  The tick is *sleep*, *reconcile* (`TickPanics` | `TickKilled` | `TickStarts`), then
`GetOrders` or `GetOrdersFails`, *orphans* (`CancelOrphan`* `EndReconcile`), *apply* (`ApplyFill`*
`EndApply`), *quote* (for each ticker `Quote`, then per side `CancelQuote`, `Place` | `NotPlaced`;
`EndTick`).  Around it `Arrive`, `Fill`, `CancelledThere` (the exchange), `Crash`, `Shutdown`, `Boot`,
`EngageKillSwitch`, `ClearKillSwitch`.  A request and its answer are one action, because nothing
else reads what the answer changes; what matters, a fill between two awaits, comes between actions.
`allowed` is chosen freely each tick: it stands for the pause of quotes, the maintenance hours and a
`check_pre_trade` that refuses.  A ticker without fair value, book or spread is retired: `Plans`.

Assumptions on the environment, and where the code is nondeterministic: the exchange refuses a
client order id it has seen (fault `again`); an order whose request is lost never appears later than
the process's next boot; `Boot` may close any subset of the pending rows that are not on their way,
which covers the 30 seconds of `reconcile_pending_trades` and a query that fails.
`_rehidratar_inventory` replays shadow fills of the same experiment at boot; in live mode there are
none, and the inventory starts empty as in `Boot`.

**Properties.**  `OneQuotePerSide`, `RowsTellTruth`, `FillsKept` (an action property), `InventoryCap`,
`CanaryCap`, `KillStops`, and `FillsReachInventory` (liveness).  `InventoryCap` says what the code
really achieves: the cap may be passed by `2*(Size-1)` contracts, since a replaced quote may have
filled all but one contract when its replacement goes out; it is stated for states in which no fill
was lost (`Lost = {}`), because `cancel_all` and the boot do lose fills (section 10).  Both caps are
also proved, for any number of markets, sizes and orders (section 11); `TickersAssumption` says the
markets are finitely many, as a sum over their orders needs.

| Run | Instance | Shows |
|---|---|---|
| `mm_quotes` | 1 ticker, two bids and one ask of 2 contracts, crash, kill, lost answers and cancels | `OneQuotePerSide`, `RowsTellTruth`, `InventoryCap`, `FillsKept`, `FillsReachInventory`, under `FairSpec` |
| `mm_faults` | 2 tickers sharing a cap of one contract, a bid each, every fault | `CanaryCap`, `KillStops` |

*Why these bounds.*  Two bids are the least for a replacement, an ask the least for a netted
position; two contracts the least for a partial fill.  Tickers interact through the canary cap only
(besides each being in `corrupted` or not), so two tickers are needed for that and one for the rest.
`mm_quotes` leaves out `query` and `again` because `OneQuotePerSide` and `RowsTellTruth` fail with
them.  With the first, a reconcile without an answer clears the doubt
and two bids rest (section 10); the second needs an exchange that refuses the repetition of a POST
it accepted, which `_place` then reads as "the order does not exist".

*Fairness.*  `WF(Tick)`: the loop ticks every `LOOP_INTERVAL_SEC` and its requests end; `WF(Boot)`.
The exchange is given none: `FillsReachInventory` does not rest on orders filling.  It says that
again and again every order that filled whole is in the inventory, whatever new fills come in
between; after the last order of the bounded instance it means they all stay there.

## 5. OrderBookV2

**State.**  `log` is what the exchange emitted: for each sequence number a market, a kind (delta or the
snapshot after a subscribe), whether it was lost on the way, and `shown`, the number from which on the
snapshots of the exchange contain it; `closed` the markets that settled.
`mgr` is the `OrderbookManagerV2` of one sid, a record with the fields of the class: `books` (none,
live, stale) and their `seq`, `bootstrap`, `tickers`, `lastSeq`, `recovering`, `pendingDeltas`,
`requests` (`_pending_snapshot_requests`), `failures`, `dead`, `disabled`, `started`
(`_last_recovery_start_mono` is set), `deferred`.  `asked` and `answers` are the requests and
snapshots under way, `seeding` the suspended call of `seed_blind_sids`.  What a delta says is reduced
to whether a book has it: `missing[t]` are the deltas a book should contain at its number and does
not.  A book that misses something may underflow or cross at any delta, or may not; one that misses
nothing does neither.

**Handlers.** The dispatcher awaits a handler to its end, so a message is one action.  The methods
call each other with early returns and exceptions, so each is an operator from a manager to the set
of managers it may leave, tagged with how it ended (`queued`, `applied`, `desync`; `started`,
`nothing`, `raised`).  The sort, the two drains and the chunks are recursive functions and closed
forms rather than folds, so that they can be proved about.  `Dispatch` is the tail of
`handle_message`; `FireDeferred`, `BufferIt`, `Gap`, `InSequence` are its parts in order.  The clock
is not a variable: where the code compares times (the minimum interval, the timeout, the backoff)
both outcomes are possible, except where the code itself has just set the time.  `seed_blind_sids`
runs in another task: with the fault `slow` it is cut at each `await send_command`, before and
after, and the dispatcher may run there.

**Environment.**  `Emit`, `Answer` (with the number the exchange has reached), `Ignore`, `Reject`
(code 15), `Settle`.  A snapshot may be older than its number, as the source says of the exchange
(`config.py:549-552`, `orderbook_manager_v2.py:144-148` and `1449-1451`, `orderbook.py:403-411`): it
then lacks the deltas the exchange shows late, up to `MaxLag` numbers after their own (`Unshown`).
The faults are `loss`, `silence`, `reject`, `send` (no connection: the call raises), `slow` and
`noid` (a snapshot without its request's id); `MaxFaults` bounds the first four and the deltas shown
late together, `MaxClosed` the markets that settle.  Deltas arrive in order; a snapshot may arrive
after deltas that are newer than it.

**Properties.**  `ServedIsTrue` relates what readers see to what the exchange sent: a served book lacks
no delta up to the baseline, but for those in `unseen`, the history of the numbers the code throws
away knowing it (the buffer of an aborted or refused recovery, gaps swallowed in the backoff,
numbers jumped over by a first baseline or by a drain, which does not look for gaps).  The
other exception are the deltas in `Late`, those that a snapshot left out though its number says
otherwise: nothing the manager checks can show it, and the hole stays until the next snapshot.  These
lists are the honest measure of the manager: each entry is a way a book that is not asked for again
can be served with a hole.  `GapBlindsAll`, the three ways of going on after a gap;
`BlindIsSeeded`, liveness.  The first two are proved (section 11), for any number of markets, messages,
requests and faults.

| Run | Instance | Shows |
|---|---|---|
| `ob_books` | 2 markets up to symmetry, 3 messages, a request each, 2 faults of `loss`, `silence`, `reject`, `send` and of deltas shown one number late, one settlement | `ServedIsTrue`, `GapBlindsAll` |
| `ob_seeds` | 2 markets in one request, 3 messages, 1 fault of `loss`, `silence`, `send`, and `slow` | `BlindIsSeeded`, under `FairSpec` |

*Why these bounds.*  A gap needs three messages (a baseline, a loss, the one that shows it), and a
fourth adds nothing new up to the end of a recovery, since answers, timeouts and retries come on
their own; `ServedIsTrue` was also explored with four messages, `loss` and `silence`, and snapshots
as new as their number.  Two markets are the least for a book that suffers from another's gap, and
with `ChunkSize = 1` for a recovery of several requests.  Buffers of one and two messages overflow,
and two failures open the breaker.  There are ids for two recoveries at once.  The false gap of
section 10 happens within these bounds.

*What the runs leave out.*  With `slow`, `ServedIsTrue` fails: a recovery whose
first request is answered before the second is registered completes early, and the late snapshot
takes the book back.  With `noid`, a snapshot without an id that arrives after its recovery is
handled as one of the stream and moves the baseline over a loss.  Both are listed as hazards or here
and not as runs; they are what `ServedAlwaysTrue` assumes away (`RequestsKnown`).  It assumes nothing
else; what its statement excepts is `unseen` and `Late`.  `ob_seeds` asks whether a book is seeded at
all, which does not depend on what a snapshot contains, and has no late deltas and no settlements.

*Fairness.*  Weak on answers, on reading them, and on the watchdog (every 30 seconds, longer than the
minimum interval of 5).  None on messages, so a recovery that waits for a lost answer stays until a
message finds the timeout; `BlindIsSeeded` names that case (`Waiting`) and excepts it.

## 6. MotorOne

**State.**  The ledger: `row` (status and count of each leg of each attempt), the breaker's window as
numbers of events (`clean`, `aborts`, `aborts24`), `ks`, and `table` (`portfolio_positions`).  The
exchange: `fill` and `sold` per leg.  The executor's memory: `local` (the pause of an orphan and its
stage of observation), `resumes`, `mem` (`EventExposureTracker`), the attempt and the sale under way.
The engine's: `pc` (at which await the execution task is), `target`, `streak` (confirmation ticks),
`cool`.  The process: `pause`, the one reason of `BotState`.  Five history variables state the
properties: `standing` (pauses set by others that nobody lifted), `unheard` (the script persisted the
switch and the process has not been paused since), `orphans`, `excused`, `forgotten`.

**Actions.**  `Tick`, `CoolsOff` are the engine; `Approve`, `Reject` what `execute` and the
RiskManager decide, `LocallyPaused` the local pause and its release, with the automatic resume
before them; `PersistIntents`, `Hard*`, `Cheap*` the legs and each of their outcomes (filled,
killed, short, in doubt, with what the row says after each); `Sold`, `SoldUnanswered`, `NoBid`,
`Abort` the iterative rollback, with the breaker, the event persisted, the pause it chooses, and the
escalation.  Around them `Sync` (the portfolio poller), `SellOrphan` (Motor 3), `WindowMoves`,
`DayPasses`, `GracePasses` (clocks), `Others` (the watchdog, the operator, another motor's
`EngageKillSwitch`), `ScriptPersists` and `ScriptPauses` (the script's two steps, of which the
second may never come), `AdminResume`, `ClearKillSwitch`, `Crash`, `Boot`.

**Properties.**  `HeldIsVisible`; `OrphanStopsMotor` (no approval while a leg this process abandoned
leaves its market exposed); `KillSwitchBlocks` (none while the switch is persisted and not `unheard`);
`OnlyTheBreakerLifts` (the automatic resume lifts the
breaker's pause and no other); `BreakerHolds`; `RepeatedOrphansEscalate`; `PauseEnds` (liveness: the
motor's own pause ends once the orphan is sold).

| Run | Instance | Shows |
|---|---|---|
| `m1_pauses` | 1 market, 1 attempt of 2 contracts that reaches the exchange, 2 sell tries, breaker at 1, 1 automatic resume, 1 crash; buys and sells lost or short, the capture's death, other motors, the operator | the seven properties, under `FairSpec` |
| `m1_lifted` (violation) | the same motor, 1 contract, no loss, pauses that fall while a leg is out | `KillSwitchBlocks` |

*Why these bounds.*  Two contracts are the least with a fill, a sale or a rollback in part; two
tries the least with one that is not the last; the counters of the window move on their own, so
threshold, resumes and escalation are reached with one attempt that trades.  `m1_pauses` leaves out
`midway`: with pauses in the middle of an attempt the two kill-switch properties fail, which is the
run `m1_lifted`.  It leaves out `dbwrite` and `bootread` for size; what is said there is proved with
them where it holds (section 11).

*Fairness.*  Weak on the executor, on the poller, on Motor 3 and on the cooldown: timers and
requests with a timeout.  Strong on a signal that reaches `execute`, since signals come again and
again but most die in the engine.

*Idealised.*  Motor 3 may sell only what the rows show as an orphan, as an action of this module;
its races are in `Exits`.  Two windows of the code, 60 minutes and 24 hours, are two counters.

## 7. RiskGate

**State.**  `row`, `used`, `pnl` by window, `ks`, `pause`; the capital: `cached`, `raw`, `fresh`,
`mark`; `grant` (approved and not written) and `live` (still trading) per motor; `prof`, the
settings of the deployment.  `basis` and `breached` are history.

**Actions.**  Motor 1 and the REST motor pass the check (`Grant`, `Refuse`) and write later (`Write`,
`Drop`); Motor 2 does both under the lock (`Reserve`); Motor 5 reads the headroom and writes
(`Quote`).  `StopOf` is the order of the stops in the source: pause, the experiment's, then
`Severity`; `Checked` is what a check leaves behind, the kill-switch included.  Then what the
attempts do to rows (`Fills`, `Kills`, `SellsBack`, `Settles`), the capital (`Refresh`,
`BalanceAges`, `Marks`), periods that turn, pauses, clears and restarts.

**Properties.**  `ExposureBounded` is what the lock really guarantees: the cap may be passed, since
Motor 1 and the REST motor write after it is released, but by one trade for each of them, whatever
the capital does meanwhile.  `DailyBudgetHolds`: the experiment never commits more in a day than its
budget.  `SmallChangesAddUp`: withdrawals too small to be taken one by one are taken once they add
up.  `FatalLossLatches`: once a check met a loss that stops the bot, no entry until it is cleared,
though the day looks fine again, the week turns or the process restarts.

| Run | Instance | Shows |
|---|---|---|
| `risk_gate` | five deployments: Motors 1, 2 and 5 under one cap; Motors 1 and REST, which write late, and 2; Motors 1 and 5 under a moving balance and a restart; the bank-200 experiment; Motor 2 losing through days, weeks, months and pauses | the four properties |

*Why these bounds.*  A cap of two trades and three motors is the least in which two late writers
pass it; three balances within 5 % of each other the least that drift; a losing bet costs a whole
daily stop, two a weekly one.  The deployments are separate because their interesting parts do not
interact (the experiment runs Motor 1 alone by validation, `FailClosed`).

*Idealised.*  Every leg of a motor has one price and one fee; amounts are in one small unit.  The
discount is that of a binary pair; the multi-outcome discount is not modelled.

## 8. Exits

**State.**  Lots (BUY rows): `lot`, `left`, `bought`; `sale`, the SELL rows and their orders; `net`,
the account; `cache` and `empties`, the portfolio table and its deferred first empty answer; `at`,
what each engine is doing and what it found when its tick began; `legs`, the settlement poller's
reading; `resolved`; `brake`: off, a plain pause, a pause with the switch persisted, or `blind`, the
pause in memory of a sale that could not be written when the switch could not be written either.
`forgot` is history: a resume or a restart lifted a blind brake.

**Actions.**  `Load` begins a tick of an engine; `Discard`, `BeginExit` are the per-ticker lock and
what is read again under it; `ReconcileSale`, `ReconcileFails`, `NoSale` the lost sale that must be
resolved first; `SendSale`, `Answered`, `Refused`, `LoseAnswer` the sale, whose fill is written
(`Register`) or not (`CannotRegister`: the rows stay as they are or only the SELL row is written,
and `_engage_preventive_pause` pauses, and persists the switch if the database lets it); `Match`,
`Vanish`, `Resolve` the exchange; `ReadFilled`, `SettleGroup`, `SkipGroup` the poller; `Bet`,
`Sync`, `Pause`, `Resume`, `Crash`, `Boot` the rest.  Which positions are due is any subset: the
rules are in `ExitRules`.

**Properties.**  `SellOnlyCloses` (no more is sold of a side than was bought, since a second sale
opens the opposite position); `RowsMatchAccount` (open lots, less sales not registered, are what the
account holds, unless the brake stands for a sale that could not be written); `HedgeStays` (of an
arb that holds two lots none is sold); `GroupsSettleWhole`.

| Run | Instance | Shows |
|---|---|---|
| `exits_once` | 8 lots on 3 markets, at most 2 sales, in five deployments: both engines with every answer received; each alone with lost answers, partial fills and reads that fail; arbs that settle beside paused exits; a process that dies anywhere, over a database that may refuse the rows of a sale and then the switch | the four properties |
| `exits_crossed` (violation) | both engines, lost answers | `SellOnlyCloses` |

*Why these bounds.*  A sale that is retried is the second, so two sales.  The lots are an owned bet
and one to come, an orphan, a hedge, and the two legs of a REST arb on markets of which one also
holds a bet: each pair that the attribution or the grouping must tell apart.  Of two contracts one
may fill alone.

*Assumed.*  A market resolves when no order of ours is on its way to it.  The first two properties have
two exemptions, both behaviours of the code.  `Misread`: `reconcile_pending_trades` closes the SELL row
of a dead process without closing its lots.  `forgot`: with the switch unwritten, a restart or a resume
forgets the pause, and the lots are sold a second time; without this exemption TLC shows the oversale.

## 9. The calculations: ArbMath, RestEngine, ExitRules, BookLevels, QuoteRules, Consensus

`ArbMath` has no state: `kalshi_fee_cents` and `kalshi_maker_fee_cents` with their ceiling once per
order, the two detectors, the payout of a leg.  The others are small state machines round a
calculation, because what goes wrong is in what it is applied to: a count that was resized, a row
that was split, a book that was stale.  The run `rules` starts in one of five parts and stays in it
(`MCRules`); parts share nothing but `ArbMath`.

| Part | Operations | Property |
|---|---|---|
| `RestEngine` | `on_ticker` (both looks at a message), `update_universe`, the freshness of a group, thresholds, both gates, `_resized` | `ArbPays`: what reaches the executor is within what was authorised and visible and pays, whichever outcome resolves and by the settlement's own formula, the net it was accepted for, and that is positive |
| `ExitRules` | take profit, trailing stop, exit by time, `_exit_locked`, `_settle_originals`, payout | `ExitsKeepProfit`: a sale decided by price gains on one lot of any count, and does not lose on two sold whole, but for the fall of the bid since the decision: at most two cents for each contract and cent; `LedgerNeverFlatters`: booked PnL is at most what the account gained, and short by at most a cent per sale |
| `BookLevels` | `apply_snapshot`, `apply_delta`, `mark_stale`, `top_of_book` | `BookIsReal`: fed in sequence a book is the exchange's, cent by cent; no phantom size but after a lost removal |
| `QuoteRules` | the shadow tick, `compute_quote`, `fills_for_quote`, the run of the experiment, its finalisation | `CleanTellsAll`, `ShadowCap`, `QuoteRests` |
| `Consensus` | `match_outcomes`, `_select_candidate`, the consensus, Kelly and the flat share, `execute` | `BetIsSound`: a bet has the line of its own game, before it began, is worth its price at the count bought, and within its share |

*Bounds.*  They are chosen where rounding bites: asks of 31 and 32 cents, whose edge the fees of a few
contracts eat; prices at half a cent; lots of one and three contracts whose average is rounded; two
levels, 39.5 and 40.5 cents, that the rounding of halves to even puts into one cent; a book at the
first cent; two games of the same teams in a day and one the next; a third bookmaker who is soft,
stale or incomplete; a capital whose flat share is a fraction of a cent that, rounded to the nearest
as the detector does, pays for one contract more than rounded down.

*Idealised.*  One execution, one position, one book, one market and one signal at a time.  Motor 5 with
maker fees and size 1, as the experiment requires.  In `Consensus` the starting times of the feed do
not move, names are compared as sets (what the matcher does to text is left out), one bet per event
is on, and odds are taken live.

## 10. Findings, and what the code does otherwise than one expects

Two runs end in a violation TLC finds; `PROJECT.json` quotes the lines.  `m1_lifted`: the breaker
overwrites the reason of a kill-switch pause, and its automatic resume then lifts it, against
the docstring of `_maybe_auto_resume`.  `exits_crossed`: an exit executor looks only for the unanswered
sales of its own strategy, and both close the bets of Motor 2.

What follows is not run, but is a behaviour the modules have; where a property must not speak of
it, its statement or the faults of its run say so.

- REST executor: a sell whose answer is lost is sent again in full; in a rollback the switch is
  persisted after the last leg, so a crash before leaves an exposed leg and no switch; the second
  source answers for the market and not for the leg.
- REST executor and Motor 1: `engage_kill_switch.py` persists the switch from its own process; if its
  `POST /admin/pause` fails, attempts go on under a persisted switch until something pauses the
  process or it restarts, as the script itself prints.
- Market maker: `cancel_all` closes the rows of orders that filled; a `get_orders` that fails clears
  the doubtful tickers; the refusal of a repeated POST is read as an order that does not exist.
- Order book V2: the first delta of a market not seeded yet makes the next message a gap, and all
  books of the sid go blind; a drain does not look for gaps; a snapshot older than its number seeds a
  book without the deltas in between, and no check sees it until the next snapshot.
- Motor 1: the pause for an orphan, the breaker's pause and the resumes of the day are lost by a
  restart; a boot that cannot read the kill-switch starts unpaused; an abort counts twice in the
  window; the exposure of an event ignores what was sold and legs in doubt; a cheap leg in doubt
  stays pending until the next boot; the fills in part of both legs look like a hedge to Motor 3; a
  rollback that never finds a bid is only logged.
- RiskManager: the experiment's daily refusal returns before the stop-losses of longer periods are
  looked at; `_trigger_kill_switch` returns without persisting when the bot is already paused.
- Exits: the boot may close the intent of a sale that filled and leave its lots open; the pause is
  read before the lock and not under it; a lost sale followed by the resolution settles its lots as
  if unsold; `_engage_preventive_pause` swallows a switch it could not write, and a restart or a resume
  then sells again what was sold; a price exit sells at the bid read again under the lock, with no look
  at the profit, so it can lose against the average paid, which the comment at `engine.py:141-142`
  excludes; a pending SELL row whose request never arrived blocks until the next boot; an arb read
  while one leg is still pending is settled without it.
- Consensus: of a doubleheader of which the feed lists one game, either event takes its line.

## 11. Proofs

TLAPS proves the following for every value of the constants that the named assumptions of the
modules allow (any number of legs, attempts, retries, markets, orders, contracts, crashes, lots).

| Theorem | Statement | Extra assumption |
|---|---|---|
| `RestExecutorProofs!TypeCorrect` | `Spec => []TypeOK` | – |
| `HardFirst` | `Spec => []HardBeforeCheap` | – |
| `IntentsFirst` | `Spec => []IntentBeforeOrder` | – |
| `LedgerSeesHeld` | `Spec => []HeldIsVisible` | `PlainAnswers`: a buy is over when its answer is, and a fill answers with its count |
| `KillSwitchStops` | `Spec => KillSwitchBlocks` | – |
| `BreakerStops` | `Spec => BreakerBlocks` | – |
| `ExecutorIsAtomic` | `Spec => ImplementsAtomicArb` | `WithinItsFailures`: no crash; of the faults `lostbuy`, `rowwrite`, `kswrite`; a market per leg |
| `MarketMakerProofs!TypeCorrect` | `Spec => []TypeOK` | – |
| `NeverTwoQuotes` | `Spec => []OneQuotePerSide` | `Answered`: `get_orders` answers |
| `InventoryCapHolds` | `Spec => []InventoryCap` | `Answered` |
| `CanaryCapHolds` | `Spec => []CanaryCap` | – |
| `LedgerIsTrue` | `Spec => []RowsTellTruth` | `RefusedIsAbsent`: no repeated order is refused |
| `KilledManagesNothing` | `Spec => []KillStops` | – |
| `TickKeepsFills` | `Spec => FillsKept` | – |
| `MotorOneProofs!BreakerAlwaysHolds` | `Spec => BreakerHolds` | – |
| `HeldAlwaysVisible` | `Spec => []HeldIsVisible` | – |
| `OrphansAlwaysStop` | `Spec => OrphanStopsMotor` | `"poller" \notin Faults`: the portfolio poller runs |
| `KillSwitchAlwaysBlocks` | `Spec => KillSwitchBlocks` | `Orderly`: pauses come between attempts, and a boot can read the switch |
| `NobodyElseIsLifted` | `Spec => OnlyTheBreakerLifts` | `Orderly` |
| `RepetitionAlwaysEscalates` | `Spec => RepeatedOrphansEscalate` | `Orderly` |
| `RiskGateProofs!RiskTypeOK` | `Spec => []TypeOK` | – |
| `ExposureAlwaysBounded` | `Spec => []ExposureBounded` | – |
| `BudgetAlwaysHolds` | `Spec => []DailyBudgetHolds` | – |
| `DriftIsBounded` | `Spec => []SmallChangesAddUp` | – |
| `FatalAlwaysLatches` | `Spec => FatalLossLatches` | `DatabaseWrites`: the switch can be persisted |
| `ExitsProofs!ExitsTypeOK` | `Spec => []TypeOK` | – |
| `SalesAlwaysClose` | `Spec => []SellOnlyCloses` | `OneSeller`: one executor sells, or no answer is lost and no process dies |
| `AccountAlwaysMatches` | `Spec => []RowsMatchAccount` | `OneSeller` |
| `GroupsAlwaysWhole` | `Spec => []GroupsSettleWhole` | – |
| `HedgeAlwaysStays` | `Spec => HedgeStays` | – |
| `RulesProofs!ArbAlwaysPays` | `EngineSpec => []ArbPays` | – |
| `BookAlwaysReal` | `BookSpec => []BookIsReal` | – |
| `CleanCohorts` | `QuoteSpec => []CleanTellsAll` | – |
| `CapHolds` | `QuoteSpec => []ShadowCap` | – |
| `QuotesRest` | `QuoteSpec => []QuoteRests` | – |
| `LedgerAlwaysHonest` | `ExitSpec => []LedgerNeverFlatters` | – |
| `ProfitAlwaysKept` | `ExitSpec => ExitsKeepProfit` | – |
| `BetAlwaysSound` | `ConsensusSpec => BetIsSound` | `KeysTellTheGame`: the key of an event has the teams, the day and the hour of its game; `EdgeIsAPoint`: the threshold is a point or more, or the fee is counted by the contract |
| `OrderBookV2Proofs!OrderBookV2Type` | `Spec => []TypeOK` | – |
| `GapAlwaysBlinds` | `Spec => GapBlindsAll` | – |
| `ServedAlwaysTrue` | `Spec => []ServedIsTrue` | `RequestsKnown`: a request is registered before the next message is handled, and an answer names its request |

The extra assumptions are not conveniences.  Without `Orderly` the run `m1_lifted` is a
counterexample, and without `OneSeller` the run `exits_crossed`.  Without `Answered` two bids rest;
without `RefusedIsAbsent` the refusal of a repeated order closes the row of one that rests; without
`PlainAnswers` a fill without a readable count is taken for a kill, as the docstring of
`_create_order_filled` accepts; without `DatabaseWrites` a restart forgets the stop.  With the poller
off, the table that releases the pause of an orphan is never updated, and TLC finds the motor
trading beside it.  A crash in a rollback, or a sell whose answer is lost, ends an attempt neither
whole nor empty with nobody halted, which is why `WithinItsFailures` is the promise's own list
(section 10); with two legs on one market the second source answers for the wrong leg.  Without
`RequestsKnown` a late snapshot takes a book back, or moves the baseline over a loss (section 5).
`EngineSpec`, `BookSpec`, `QuoteSpec`, `ExitSpec` and `ConsensusSpec` are the parts of the run `rules`
that start with the engine, the book, the quotes, the exits and the bets.  The games and keys of that
run satisfy `KeysTellTheGame`: two games of a day told apart by the hour, and a key without an hour.

**Arguments.**

*Sums.*  The exposures, caps and balances are sums over rows, and a step changes one or two terms of
one.  The lemmas of `Sums` say what that does to the sum: its type, its sign, its order (`SumEqual`
and the like), a term moved, a set split.  Sums are defined by a fold, so each lemma is proved
without an induction scheme: the set of subsets for which it fails, if there are any, has a smallest
member, and taking one element from it gives a smaller one.

*Orders of the REST executor*: `OrderInv` adds to `HardBeforeCheap` that attempts not started have no
order and attempts started have every row.  *Its ledger*: `VisibleInv` says, for each suspension
point, which legs may be held (`HardStage`, `CheapStage`, `ResolveStage`, `SellStage`) and that a row
closed as empty or settled (`ClosedRows`) has no contracts and no order that could still give some.
*The switch and the breaker*: `GateInv` ties what is persisted to the pause in memory whenever the
process is up and has heard of it, and the executor's pause to the window outside the rollback.

*The refinement*: the abstract state is read off the exchange, the rows and the pauses, so the proof
has to know, at each await, what the exchange holds of the legs the executor has not heard of.
`CoreInv` says it: `AheadInv` that attempts to come have nothing, `AllOrNone` that attempts behind
hold all their legs, none, or left them exposed; `FlyingInv` what a leg on its way may become; and
`BuyStage`, `JudgeStage`, `UnwindStage` what the results in memory say of the legs while they are
bought, looked up and sold back.  `StuckInv` adds that a leg left exposed has the motor halted.  Then
every step of the executor ends the abstract attempt as it should, or stutters.

*One quote per side*: the property alone is not inductive, since a new order may land on one that
nobody manages any more.  `ManagedFacts` says what a managed order can be; `UnmanagedKnown` follows
the others through the tick: in `todo` or `report` while the reconciler works, their market in
`corrupted` (or already visited) afterwards, their side never wanted new.  `TickFacts` says when
something is wanted at all, `OrderFacts` bounds what filled.  It is here that `Answered` is used:
`GetOrdersFails` is the one action that destroys `UnmanagedKnown`.  *Truth of rows*: inductive with
`OrderFacts`.  *Kill-switch*: `KillInv` adds that the tick is not allowed to quote and wants nothing.
*The caps of Motor 5*: in `CanaryInv`, `Capped` bounds the rows, which bound what is at risk because a
row closed with a count has it from an order that can fill no more (`FilledTrue`).  In `InventoryInv`
the inventory is the sum of the orders applied (the invariant's `BookInv`); when a ticker is visited
every fill known was applied (`FreshInv`), so what the position may still come to is bounded by the
inventory, one new quote and the one it replaced (`Bounded`).

*The brakes of Motor 1*: `BrakeInv` has a part per brake.  `BreakerInv` keeps the pause while the
window is full; `EscalateInv` keeps the switch engaged while aborts repeat; `OthersInv` says that
while the switch (unless unheard) or another's pause stands the process is paused *for it*, and no
leg is going out, since a leg going out is what lets a rollback overwrite the reason.  Most steps do
not touch a brake; they are `Quiet`, and one lemma serves them all.  *Its ledger*: `LedgerInv`;
`Backed` is its part for one key, so each step is proved for the key it changes, and `Sent` says
what the rows of a leg in flight are. *Its orphans*: `OrphanInv`.  While a leg goes out there is no
orphan and no pause of the motor's own (`LocalFacts`, `Attributed`); afterwards an abandoned leg is
of the market the motor is paused for, or the process is paused for it.  And once the poller has
looked, a table that shows the market empty is right (`Polled`): nobody buys in it, and Motor 3
sells at most what the table shows, so it never shows nothing there.  No order among the pauses is
needed, so `Orderly` is not assumed.

*The exposure*: `Granted` and `RowsInv` say that no row passes what its motor was let pass;
`ExposureInv` that the exposure with what is approved and not yet written stays within the cap of the
last approval (`basis`) and one trade for each late writer.  An entry under the lock starts a new
basis; a late write turns a pledge into a row of at most its amount; fills, sales and settlements
only lower the sum.  *The budget*: `BudgetInv`, the same for the entries of the day with their fees;
nothing lowers it but midnight, and the fee is not linear in the count, so the pledge is counted with
the fee it will have.
*The capital*: `Near` is exactly the test `_refresh` makes before it leaves the cached capital alone.
*The latch*: `LatchInv` says that a breach nobody cleared is persisted, and that what is persisted
pauses; `Grants` that the tables are functions, so that an entry changes a grant.

*Sales*: a sale is a *claim* from its intent until its row is closed.  `ClaimsInv` says who waits for
it: its engine, or the only executor at its next look, or nobody because the write that failed left
the brake on.  All of it holds until a blind brake is lifted (`forgot`), which is where both statements
end.  `BackedInv`: there is one claim of a side at most and its lots are open; the parts on locks
(`LockInv`, `SentInv`) keep a second engine out.  `PotentialInv`, the property itself, then follows
from the rows, since what the SELL rows registered was taken from the BUY rows (`LedgerInv`).
*The account*: `BalanceInv` writes the account as the lots' contracts less the sales not registered,
term by term, and each of fill, registration and settlement moves a term from one sum to the other.
*Groups*: `GroupInv` adds that whatever the poller read of an arb, it read all of its filled lots, and
the arb gains none meanwhile; so a group it settles is settled whole.  *Hedges*: `SoldIsAlone`, that
what an executor may close has no open sibling: of Motor 1 by the definition of an orphan and
`GroupsAssumption`, of Motor 2 because a bet is a group of its own.

*The arbitrage*: `EngineInv` says that what flies through the gates was detected sound
(`OpportunityIsSound`), and that a resize keeps the legs and recomputes the fees.  `SettlesAtNet` is
the arithmetic: in a binary arb one leg wins, in a group of outcomes all or all but one, so payouts
less costs and fees are the same however it resolves, and equal to the net.
*The book*: `BookInv` compares the book with the exchange's bucket by bucket, a cent collecting the
levels that round into it; a delta moves the same amount in both.

*Quotes*: `QuoterSound` derives the bounds of a quote from the arithmetic of `compute_quote` (products
and floors, in `Products`, `DivBelow`, `Spread`); `CapInv` ties the inventory in memory to the rows
while a run lasts, which a restart must rebuild; `CleanTellsAll` is inductive with `Kept`.

*The ledger of the exits*: a row that was split may have less of its fee left than its count would
pay, since the fee of the part sold was rounded up, and what it lacks is a cent that a later sale is
charged.  So `LedgerNeverFlatters` is not inductive: a gap between ledger and account says nothing of
how much is still to come.  `LedgerInv` bounds the gap with the fees that the open rows would pay in
full (`InFull`) instead of those left on them (`OnRows`).  By `FeesAddUp` a split costs at most a cent
of that, and `SaleSettles` adds up the rows of a sale: its proceeds telescope to the one exit fee of
the SELL row, and only one row of a sale can be split (`Stopped`).

*The profit of an exit*: the rule sees one contract at the rounded average; the sale pays fees that
are rounded up per lot, at the bid it finds.  One lot of many contracts pays no more than as many
lots of one (`FeeByOne`); and while the bid moves a cent the fee of a contract moves by less than
one (`RawFeeMoves`, `FeeMoves`), so the sale pays what it would have paid at the decision's bid less
at most two cents for each contract and cent of the fall (`SalePays`). Two lots of d contracts gain
at least d cents by the rule, lose at most d/2 to the average, and pay entry fees that the tangent
of the fee at the average bounds (`FeeAround`), rounded up twice; that is enough from three
contracts on, and with one contract in each lot a fee is one cent or two, by the price (`FeeOfOne`).

*A bet*: `BetInv` says that a signal on its way is sound (`SignalSound`): the line of its own game,
and an edge over the threshold at the count it was measured at.  `ChosenIsItsGame` shows that if
every game it could be is listed, the one chosen is its own, or nothing is chosen; `FairIs` that the
median of each outcome over their sum is a fraction of a positive total (`RankedIs`: there is a
value of every rank).  Only the executor raises a bet, to a count that is not the one measured: if
the fee was counted by the contract, more contracts pay no more each (`WorthByOne`); if it was
counted at the stake, rounding costs fewer contracts up to a cent more, which a point of edge pays
for (`WorthByCent`).  That is the reason for `EdgeIsAPoint`: the defaults satisfy it twice, with
three points and `MOTOR_2_FEE_AT_STAKE_COUNT` off; a threshold under a point with the flag on would
not promise a gain.  `StakeFits` bounds the stake, flat or a quarter of Kelly, through their
roundings: down, and for the flat share to the nearest cent, which may add half of one.

*The handlers of the order book* are operators from a manager to the managers it may leave, calling
each other.  So each has lemmas about any sound manager, and the actions only cite them: what it
keeps the types of (`Sound`), what the caller sees unchanged (`Recovered`, `Restarted`, `SameView`).
The sort and the drains are recursive functions; `Climb` is the induction over their index, for one set
at a time, and `RecursionExists` that such a function exists.  *A gap*: `GapBlinds` follows the three
branches down to the books.

*Served books*: `ServedIsTrue` is not inductive.  It says nothing of the future, and a book may be
kept or taken back with a hole that the buffer, or the next message, was to show.  The invariant is
`Orderly`, in four parts.  `Within`: what the sid, its books and its buffer know is of the log, and
the buffer is the log's, ascending.  `Covers`: each delta of a served book's market above the book's
number is unseen, or held in the buffer, or lost and above the baseline, so that the next message
shows the gap.  `Settled`: a sid that does not recover waits for no answer, and keeps nothing it did
not give up. `Awaits`: an answer on its way to a pending request is `Fitting`, its snapshot brings
the book to where the buffer takes over; it is this part that a request registered late, or an
answer without its name, destroys.  `Orderly` takes the history and how much of it is dealt with as
parameters, since inside a handler the message at hand is in the log and not yet in the books.  The
drain sets the baseline first and reads the buffer after, so `Covers` fails in its loop: `Draining`
says instead what is still to come from the rows left.  A snapshot older than its number enters
through `Unshown`: what it leaves out is in `Late` for good, and `Covers` need say no more of it.
TLC checked `Orderly` in `ob_books` before it was proved.

**Only model-checked.**

- Liveness under fairness (`AttemptEnds`, `FillsReachInventory`, `BlindIsSeeded`, `PauseEnds`) and
  ENABLED, which the prover does not do.
- Of the refinement, what is beyond `WithinItsFailures`: it is false there.
- Nothing else of what the runs check: every invariant and action property has its theorem.

## 12. How to run

`tlc -config MCRest_ledger.cfg MCRestExecutor.tla`, and so on: `MCRest_*` with `MCRestExecutor`,
`MCMM_*` with `MCMarketMaker`, `MCOB_*` with `MCOrderBookV2`, `MCM1_*` with `MCMotorOne`,
`MCRisk_gate` with `MCRiskGate`, `MCExits_*` with `MCExits`, `MCRules` with `MCRules`.  `tlapm
<Module>Proofs.tla` for the proofs.  The definitions commented as mutants are the plausible bugs
each property is shown to catch; `PROJECT.json` pairs them.  No run checks deadlock: the bounded
systems come to rest when their attempts, messages or sales are used up, and a stopped bot is a
legal end.

## 13. Not modelled

- Order book V1: superseded by V2 by a configuration flag.  Motors 6, 8 and 9: they record and
  never trade.  The fair-value book: a dictionary with a time to live; `MarketMaker` lets every ticker
  lose and regain its fair value at any tick.
- In Order book V2: alerts, the trust embargo, several sids, and a reconnection, which gives a new
  sid with a baseline of its own.
- In Motor 5: markouts and their rows; the fill feed, which only changes a log line; the request and
  the cache of the fee policy.
- In Motor 2: what the matcher does to the text of a name, the odds sources and their cache.
- In the RiskManager: the discount of a multi-outcome hedge, and the reports.
- In the REST engine: the edge windows it records.  Its discovery is `update_universe` with any
  new markets; an outcome that is not listed yet is outside the source (`ArbPays` speaks of whole groups).
- Migrations, retention, disk guard, Telegram, dashboards, analytics, signing, configuration and its
  validation: they read, format or do I/O and decide nothing about orders.
- The last-200 limit of `get_orders`, client-side throttling, and the HTTP codes beyond "an answer,
  a refusal, or nothing".
