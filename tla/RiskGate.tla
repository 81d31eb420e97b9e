------------------------------ MODULE RiskGate ------------------------------
(***************************************************************************)
(* The gate every entry of the bot passes (risk/manager.py): the pause,    *)
(* the limits of the bank-200 experiment, the stop-losses on the realized  *)
(* loss, the floor on the capital, the loss on paper, and the sizing under *)
(* the cap on the exposure of all motors together; and the capital all of  *)
(* that is measured against, refreshed from the balance at Kalshi.         *)
(*                                                                         *)
(* The body of the check runs under a lock and never waits, so it is one   *)
(* action.  Motors differ in when they write what was granted: Motor 2     *)
(* under the same lock, Motor 5 in the step that reads the headroom, Motor *)
(* 1 and the REST motor after the lock is released.                        *)
(*                                                                         *)
(* Money is in one unit; a leg of a motor has one price and one fee.       *)
(***************************************************************************)
EXTENDS Integers, FiniteSets, FiniteSetsExt, Functions

Arbs    == {"m1", "rest"}
Singles == {"m2", "m5"}
Motors  == Arbs \union Singles

\* Windows of realized profit and loss: the calendar ones and the rolling one, in UTC,
\* and those of the experiment, its week in Los Angeles and everything since its start.
Calendar   == {"rolling", "month", "week", "day"}
Experiment == {"total", "xweek"}
Windows    == Calendar \union Experiment

CONSTANTS
  Profiles,       \* settings the process may be started with, see ProfileType
  None,           \* no balance known, no mark
  Balances,       \* cash the account may hold
  Bids,           \* marks of an open position
  MaxSlots,       \* bound: attempts of a motor
  MaxCount,       \* contracts an opportunity offers
  Price,          \* [Motors -> price of a leg]
  Fee,            \* fee of a contract
  UnitPct,        \* limits_for_capital: a unit is this percentage of the capital
  RefUnit,        \* REFERENCE_UNIT_USD
  AggregateUnits, \* AGGREGATE_UNITS
  HardCap,        \* PROD_CAPITAL_HARD_CAP_USD
  Stop,           \* [Experiment -> loss that stops the experiment]
  MaxRestarts     \* bound: restarts of the process

Slots == 1..MaxSlots
Legs(m) == IF m \in Arbs THEN {1, 2} ELSE {1}
Keys == {k \in Motors \X Slots \X {1, 2} : k[3] \in Legs(k[1])}

ASSUME BoundsAssumption ==
  /\ None \notin Int
  /\ Balances \subseteq Nat /\ Bids \subseteq Nat
  /\ MaxSlots \in Nat /\ MaxCount \in Nat \ {0}
  /\ Price \in [Motors -> Nat \ {0}] /\ Fee \in Nat
  /\ UnitPct \in Nat /\ RefUnit \in Nat /\ AggregateUnits \in Nat /\ HardCap \in Nat
  /\ Stop \in [Experiment -> Nat \ {0}]
  /\ MaxRestarts \in Nat

Limit == [pct : Nat, floor : Nat]

\* slots: attempts each motor may make, 0 when its execution is disabled.  soft is
\* DAILY_STOP_ENTRIES_ONLY, gated ROLLING_DRAWDOWN_STOP_ENABLED and onPaper
\* UNREALIZED_STOP_ENABLED; the rest are the settings of the same meaning.  Bounds of
\* an instance: offer, the contracts of an opportunity; turns, the windows that may
\* turn, together, while it lasts; the faults; the balances.
FaultKinds ==
  { "dbwrite",   \* the kill-switch cannot be persisted
    "others",    \* pauses that do not come from here
    "restart" }  \* the process restarts
ProfileType ==
  [ slots : [Motors -> 0..MaxSlots], offer : 1..MaxCount, turns : SUBSET SUBSET Calendar,
    faults : SUBSET FaultKinds, balances : SUBSET Balances,
    experiment : BOOLEAN, dynamic : BOOLEAN, soft : BOOLEAN, gated : BOOLEAN,
    onPaper : BOOLEAN,
    active : Nat, cap : Nat, floor : Nat, safety : Nat, smoothing : Nat,
    exposure : Nat, trade : Nat, tradeMax : Nat,
    loss : [Calendar -> Limit], latent : Limit ]

\* _production_safety: in production only Motor 1 opens under the experiment, with
\* the capital of every balance taken as it comes.
FailClosed(p) ==
  p.experiment => /\ p.dynamic
                  /\ p.smoothing = 0
                  /\ \A m \in Motors \ {"m1"} : p.slots[m] = 0

ASSUME ProfilesAssumption ==
  /\ Profiles \subseteq ProfileType
  /\ \A p \in Profiles : FailClosed(p)

VARIABLES
  prof,      \* settings of this deployment
  row,       \* the trade rows: status, contracts, and placed today or not
  used,      \* attempts written by each motor
  pnl,       \* realized profit and loss, by window
  ks,        \* the persisted kill-switch is engaged
  pause,     \* BotState.is_paused
  cached,    \* _cached_capital_usd
  raw,       \* _last_raw_balance_usd
  fresh,     \* _last_balance_at is not older than EXPERIMENT_BALANCE_MAX_AGE_SEC
  mark,      \* _marks: the fresh bid of each directional motor's position
  grant,     \* contracts approved and not written yet, by motor
  live,      \* motors whose attempt is still trading
  restarts,
  \* history
  basis,     \* the cap on the exposure at the last approval, the daily budget then
  breached   \* a check met a loss that stops the bot, and nobody cleared it since

ledger  == <<row, used, pnl, ks>>
capital == <<cached, raw, fresh, mark>>
vars    == <<prof, ledger, pause, capital, grant, live, restarts, basis, breached>>

Statuses == {"none", "pending", "filled", "settled", "cancelled"}
Blank    == [st |-> "none", n |-> 0, today |-> FALSE]

TypeOK ==
  /\ prof \in Profiles
  /\ row \in [Keys -> [st : Statuses, n : 0..MaxCount, today : BOOLEAN]]
  /\ used \in [Motors -> 0..MaxSlots]
  /\ pnl \in [Windows -> Int]
  /\ ks \in BOOLEAN /\ pause \in BOOLEAN
  /\ cached \in Balances \union {None}
  /\ raw \in Balances \union {None}
  /\ fresh \in BOOLEAN
  /\ mark \in [Singles -> Bids \union {None}]
  /\ grant \in [Arbs -> 0..MaxCount]
  /\ live \subseteq Arbs
  /\ restarts \in 0..MaxRestarts
  /\ basis \in [cap : Int, day : Int]
  /\ breached \in BOOLEAN

Init ==
  /\ prof \in Profiles
  /\ row = [k \in Keys |-> Blank]
  /\ used = [m \in Motors |-> 0]
  /\ pnl = [w \in Windows |-> 0]
  /\ ks = FALSE /\ pause = FALSE
  /\ cached = None /\ raw = None /\ fresh = FALSE
  /\ mark = [m \in Singles |-> None]
  /\ grant = [m \in Arbs |-> 0]
  /\ live = {}
  /\ restarts = 0
  /\ basis = [cap |-> 0, day |-> 0]
  /\ breached = FALSE

-----------------------------------------------------------------------------
(* The capital and what is left of it *)

Percent(x, p) == (x * p) \div 100

\* Cash times the safety factor, under the ceiling.
Usable(c) == Min({Percent(c, prof.safety), prof.cap})

\* _get_effective_capital_usd
Capital ==
  IF ~prof.dynamic THEN prof.active
  ELSE Min({HardCap, IF cached = None THEN prof.active ELSE Max({Usable(cached), prof.floor})})

\* can_open_new_positions
CanOpen ==
  /\ prof.experiment => cached # None /\ fresh
  /\ prof.dynamic /\ cached # None => Usable(cached) >= prof.floor

\* limits_for_capital
Unit      == Min({RefUnit, Percent(Capital, UnitPct)})
Aggregate == AggregateUnits * Unit

\* Mutant: a resting order is not exposure.
CostsFilled(k) == IF row[k].st = "filled" THEN Price[k[1]] * row[k].n ELSE 0

\* A pending row counts whole, a filled one for what it filled.
Costs(k) == IF row[k].st \in {"pending", "filled"} THEN Price[k[1]] * row[k].n ELSE 0

\* The pair of an arbitrage whose two legs filled pays the same whatever happens.
Pair(m, i) ==
  IF \A l \in {1, 2} : row[<<m, i, l>>].st = "filled"
  THEN Min({row[<<m, i, l>>].n : l \in {1, 2}}) ELSE 0
Discount(m, i) == 2 * Price[m] * Pair(m, i)

\* _get_current_exposure_usd
Exposure ==
  Max({0, SumFunction([k \in Keys |-> Costs(k)])
          - SumFunction([g \in Arbs \X Slots |-> Discount(g[1], g[2])])})

\* Mutant: what was closed gives its budget back.
SpentOpen(k) ==
  IF row[k].today /\ row[k].st \in {"pending", "filled"} THEN (Price[k[1]] + Fee) * row[k].n ELSE 0

\* _experiment_accounting_snapshot: entries of today count whatever became of them.
Spent(k) ==
  IF row[k].today /\ row[k].st # "none" THEN (Price[k[1]] + Fee) * row[k].n ELSE 0
Committed == SumFunction([k \in Keys |-> Spent(k)])

ExposureCap ==
  LET c == Percent(Capital, prof.exposure)
  IN  IF prof.experiment THEN Min({c, Aggregate}) ELSE c

TradeCap ==
  Min({Percent(Capital, prof.trade), prof.tradeMax} \union IF prof.experiment THEN {Unit} ELSE {})

UnitCost(m) == Cardinality(Legs(m)) * Price[m]

\* The sizing: under the cap of a trade, the exposure left and the day's budget,
\* fees included.
Allowed(m) ==
  LET left   == ExposureCap - Exposure
      usable == Min({TradeCap, left} \union
                    IF prof.experiment THEN {Max({0, Aggregate - Committed})} ELSE {})
  IN  IF left <= 0 THEN 0
      ELSE Min({prof.offer, usable \div (UnitCost(m) + Cardinality(Legs(m)) * Fee)})

-----------------------------------------------------------------------------
(* The stops *)

LossLimit(l) == Max({Percent(Capital, l.pct), l.floor})
Loses(w)     == pnl[w] < 0 /\ -pnl[w] >= LossLimit(prof.loss[w])

\* Mutant: the day is looked at first, and hides what is worse.
SeverityDayFirst == <<"day", "rolling", "month", "week">>

\* _stop_loss_snapshot lists the windows from the most severe.
Severity == <<"rolling", "month", "week", "day">>

\* _check_timeframe_stop_losses
StopLoss ==
  LET hit == {i \in 1..4 : Loses(Severity[i]) /\ (Severity[i] = "rolling" => prof.gated)}
  IN  IF hit = {} THEN "none"
      ELSE IF Severity[Min(hit)] = "day" /\ prof.soft THEN "refuse" ELSE "latch"

\* _check_experiment_stops
ExperimentStop ==
  IF ~prof.experiment THEN "none"
  ELSE IF \E w \in Experiment : pnl[w] <= -Stop[w] THEN "latch"
  ELSE IF Committed >= Aggregate THEN "refuse" ELSE "none"

StopOf == IF pause THEN "refuse"
          ELSE IF ExperimentStop # "none" THEN ExperimentStop ELSE StopLoss

\* _check_unrealized_stop: directional positions with a fresh mark.
PaperLoss(k) ==
  IF row[k].st = "filled" /\ mark[k[1]] # None
  THEN (mark[k[1]] - Price[k[1]]) * row[k].n ELSE 0
OnPaper ==
  LET loss == SumFunction([k \in {j \in Keys : j[1] \in Singles} |-> PaperLoss(k)])
  IN  prof.onPaper /\ loss < 0 /\ -loss >= LossLimit(prof.latent)

Passes(m) == StopOf = "none" /\ CanOpen /\ ~OnPaper /\ Allowed(m) > 0

\* A loss that must stop the bot, whichever window is looked at first.
Fatal ==
  \/ \E w \in {"month", "week"} : Loses(w)
  \/ prof.gated /\ Loses("rolling")
  \/ prof.experiment /\ \E w \in Experiment : pnl[w] <= -Stop[w]

\* _trigger_kill_switch, when the check asks for it.  A check that refuses for the
\* pause or for the budget of the day looks at no window.
Checked ==
  /\ IF StopOf = "latch"
     THEN pause' = TRUE /\ (ks' = TRUE \/ ("dbwrite" \in prof.faults /\ UNCHANGED ks))
     ELSE UNCHANGED <<pause, ks>>
  /\ breached' = (breached \/ (~pause /\ ExperimentStop # "refuse" /\ Fatal))

\* The motor is between attempts and has one left.
Wants(m) == used[m] < prof.slots[m] /\ (m \in Arbs => grant[m] = 0 /\ m \notin live)

Approval == basis' = [cap |-> ExposureCap, day |-> Aggregate]

Intent(n) == [st |-> "pending", n |-> n, today |-> TRUE]

\* The rows of the next attempt of m are written, for n contracts.
Writes(m, n) ==
  /\ row' = [k \in Keys |-> IF k[1] = m /\ k[2] = used[m] + 1 THEN Intent(n) ELSE row[k]]
  /\ used' = [used EXCEPT ![m] = @ + 1]

-----------------------------------------------------------------------------
(* Entries *)

Refuse(m) ==
  /\ m # "m5"
  /\ Wants(m)
  /\ ~Passes(m)
  /\ Checked
  /\ UNCHANGED <<prof, row, used, pnl, capital, grant, live, restarts, basis>>

\* check_pre_trade: the lock is released, the rows are written later.
Grant(m) ==
  /\ m \in Arbs
  /\ Wants(m)
  /\ Passes(m)
  /\ Checked
  /\ grant' = [grant EXCEPT ![m] = Allowed(m)]
  /\ Approval
  /\ UNCHANGED <<prof, row, used, pnl, capital, live, restarts>>

\* The balance, the event or the net at the authorised count stop the attempt, or
\* its rows cannot be written.
Drop(m) ==
  /\ grant[m] > 0
  /\ grant' = [grant EXCEPT ![m] = 0]
  /\ UNCHANGED <<prof, ledger, pause, capital, live, restarts, basis, breached>>

Write(m) ==
  /\ grant[m] > 0
  /\ Writes(m, grant[m])
  /\ grant' = [grant EXCEPT ![m] = 0]
  /\ live' = live \union {m}
  /\ UNCHANGED <<prof, pnl, ks, pause, capital, restarts, basis, breached>>

\* check_and_reserve writes what the decision allows.
Reserved == Allowed("m2")

\* Motor2Executor.execute: one open position, and the row under the lock.
Reserve ==
  /\ Wants("m2")
  /\ \A i \in Slots : row[<<"m2", i, 1>>].st \notin {"pending", "filled"}
  /\ Passes("m2")
  /\ Checked
  /\ Writes("m2", Reserved)
  /\ Approval
  /\ UNCHANGED <<prof, pnl, capital, grant, live, restarts>>

\* Motor5Executor._place: the headroom, and the row in the same step; no other
\* limit of the gate applies to a quote.
Quote(n) ==
  /\ Wants("m5")
  /\ n <= prof.offer
  /\ ~pause
  /\ ExposureCap - Exposure >= Price["m5"] * n
  /\ Writes("m5", n)
  /\ Approval
  /\ UNCHANGED <<prof, pnl, ks, pause, capital, grant, live, restarts, breached>>

-----------------------------------------------------------------------------
(* What becomes of an entry *)

Becomes(k, st, n) ==
  /\ row' = [row EXCEPT ![k] = [@ EXCEPT !.st = st, !.n = n]]
  /\ UNCHANGED <<prof, used, ks, pause, capital, grant, live, restarts, basis, breached>>

Fills(k, n) ==
  /\ row[k].st = "pending"
  /\ n <= row[k].n
  /\ Becomes(k, "filled", n)
  /\ UNCHANGED pnl

Kills(k) ==
  /\ row[k].st = "pending"
  /\ Becomes(k, "cancelled", row[k].n)
  /\ UNCHANGED pnl

Realizes(p) == pnl' = [w \in Windows |-> pnl[w] + p]

\* A leg without its sibling, or with a shorter one while the attempt lasts, is sold
\* back at a loss; the later sale is Motor 3's.
SellsBack(k) ==
  LET sibling == row[<<k[1], k[2], 3 - k[3]>>]
  IN  /\ k[1] \in Arbs
      /\ row[k].st = "filled"
      /\ \/ sibling.st # "filled"
         \/ sibling.n # row[k].n /\ k[1] \in live /\ k[2] = used[k[1]]
      /\ Becomes(k, "settled", row[k].n)
      /\ Realizes(-row[k].n)

AttemptEnds(m) ==
  /\ m \in live
  /\ live' = live \ {m}
  /\ UNCHANGED <<prof, ledger, pause, capital, grant, restarts, basis, breached>>

\* The market resolves: a pair pays its edge, a position all or nothing.
Settles(m, i, won) ==
  LET ks_ == {k \in Keys : k[1] = m /\ k[2] = i /\ row[k].st = "filled"}
      paid == IF Cardinality(ks_) = 2 \/ won THEN SumFunction([k \in ks_ |-> row[k].n])
              ELSE -SumFunction([k \in ks_ |-> Costs(k)])
  IN  /\ ks_ # {}
      /\ m \notin live \/ i # used[m]
      /\ \A l \in Legs(m) : row[<<m, i, l>>].st # "pending"
      /\ row' = [k \in Keys |-> IF k \in ks_ THEN [row[k] EXCEPT !.st = "settled"] ELSE row[k]]
      /\ Realizes(paid)
      /\ UNCHANGED <<prof, used, ks, pause, capital, grant, live, restarts, basis, breached>>

-----------------------------------------------------------------------------
(* Capital, marks and the calendar *)

\* Mutant: the change is measured from the last balance read.
MovesFromRaw(b) == raw = None \/ raw <= 0 \/ 100 * Max({b - raw, raw - b}) >= prof.smoothing * raw

\* The anti-churn of refresh_capital_from_balance: a small change is not taken.
Moves(b) ==
  cached = None \/ cached <= 0 \/ 100 * Max({b - cached, cached - b}) >= prof.smoothing * cached

\* refresh_capital_from_balance; a failure leaves everything as it was.
Refresh(b) ==
  /\ prof.dynamic
  /\ b \in prof.balances
  /\ raw' = b
  /\ cached' = IF Moves(b) THEN b ELSE cached
  /\ fresh' = prof.experiment
  /\ UNCHANGED <<prof, ledger, pause, mark, grant, live, restarts, basis, breached>>

BalanceAges ==
  /\ prof.experiment
  /\ fresh
  /\ fresh' = FALSE
  /\ UNCHANGED <<prof, ledger, pause, cached, raw, mark, grant, live, restarts, basis, breached>>

\* record_mark, and UNREALIZED_MARK_TTL_SEC passing.
Marks(m, b) ==
  /\ prof.onPaper
  /\ mark[m] # b
  /\ \E k \in Keys : k[1] = m /\ row[k].st = "filled"
  /\ mark' = [mark EXCEPT ![m] = b]
  /\ UNCHANGED <<prof, ledger, pause, cached, raw, fresh, grant, live, restarts, basis, breached>>

\* Midnight, Monday, the first of the month; the rolling window forgets by itself.
NewPeriod(S) ==
  /\ \E w \in S : pnl[w] # 0
  /\ pnl' = [w \in Windows |-> IF w \in S THEN 0 ELSE pnl[w]]
  /\ UNCHANGED <<prof, row, used, ks, pause, capital, grant, live, restarts, basis, breached>>

\* Midnight in Los Angeles, on a Sunday or not; the attempts of the day are over.
NewExperimentDay(sunday) ==
  /\ prof.experiment
  /\ live = {} /\ \A m \in Arbs : grant[m] = 0
  /\ \E k \in Keys : row[k].today
  /\ row' = [k \in Keys |-> [row[k] EXCEPT !.today = FALSE]]
  /\ pnl' = [pnl EXCEPT !["xweek"] = IF sunday THEN 0 ELSE @]
  /\ UNCHANGED <<prof, used, ks, pause, capital, grant, live, restarts, basis, breached>>

-----------------------------------------------------------------------------
(* Pauses and restarts *)

OthersPause(persisted) ==
  /\ "others" \in prof.faults
  /\ pause' = TRUE
  /\ ks' = (ks \/ persisted)
  /\ UNCHANGED <<prof, row, used, pnl, capital, grant, live, restarts, basis, breached>>

\* POST /admin/resume, and the automatic resume of Motor 1.
Resume ==
  /\ pause /\ ~ks
  /\ pause' = FALSE
  /\ UNCHANGED <<prof, ledger, capital, grant, live, restarts, basis, breached>>

\* scripts/clear_kill_switch.py and the restart it asks for.
Clear ==
  /\ ks
  /\ \A k \in Keys : row[k].st \notin {"pending", "filled"}
  /\ ks' = FALSE
  /\ breached' = FALSE
  /\ UNCHANGED <<prof, row, used, pnl, pause, capital, grant, live, restarts, basis>>

Restart ==
  /\ "restart" \in prof.faults
  /\ restarts < MaxRestarts
  /\ restarts' = restarts + 1
  /\ pause' = ks
  /\ cached' = None /\ raw' = None /\ fresh' = FALSE
  /\ mark' = [m \in Singles |-> None]
  /\ grant' = [m \in Arbs |-> 0]
  /\ live' = {}
  /\ UNCHANGED <<prof, ledger, basis, breached>>

-----------------------------------------------------------------------------

Entries ==
  \/ \E m \in Motors : Refuse(m)
  \/ \E m \in Arbs : Grant(m) \/ Drop(m) \/ Write(m) \/ AttemptEnds(m)
  \/ Reserve
  \/ \E n \in 1..MaxCount : Quote(n)

Outcomes ==
  \/ \E k \in Keys : \/ \E n \in 1..MaxCount : Fills(k, n)
                     \/ Kills(k)
                     \/ SellsBack(k)
  \/ \E m \in Motors, i \in Slots, won \in BOOLEAN : Settles(m, i, won)

Surroundings ==
  \/ \E b \in Balances : Refresh(b)
  \/ BalanceAges
  \/ \E m \in Singles, b \in Bids \union {None} : Marks(m, b)
  \/ \E S \in prof.turns : NewPeriod(S)
  \/ \E sunday \in BOOLEAN : NewExperimentDay(sunday)
  \/ \E persisted \in BOOLEAN : OthersPause(persisted)
  \/ Resume \/ Clear \/ Restart

Next == Entries \/ Outcomes \/ Surroundings

Spec == Init /\ [][Next]_vars

-----------------------------------------------------------------------------
(* Properties *)

\* What the gate has let pass and the exposure does not show, or may stop hiding: a
\* grant not written yet, and the pair of an attempt that may still be sold apart.
Pledged(m) == IF m \in live THEN Discount(m, used[m]) ELSE UnitCost(m) * grant[m]

\* The lock does not make the check and the write one step for Motor 1 and the REST
\* motor.  So the exposure may pass the cap, but by one trade for each of the two, when
\* it runs, at the most, whatever the order of checks, writes, fills and sales back, and whatever
\* the capital does meanwhile.
Late == {m \in Arbs : prof.slots[m] > 0}
ExposureBounded ==
  Exposure + SumFunction([m \in Arbs |-> Pledged(m)]) <= basis.cap + prof.tradeMax * Cardinality(Late)

\* The experiment never commits more in a day than its budget: closing, winning or
\* cancelling gives nothing back.
PlacedToday(k)     == IF row[k].today THEN (Price[k[1]] + Fee) * row[k].n ELSE 0
PledgedWithFees(m) == (UnitCost(m) + 2 * Fee) * grant[m]
DailyBudgetHolds ==
  prof.experiment =>
    SumFunction([k \in Keys |-> PlacedToday(k)])
      + SumFunction([m \in Arbs |-> PledgedWithFees(m)]) <= basis.day

\* Withdrawals too small to be taken one by one do not add up unseen: the capital the
\* limits are measured against stays within the smoothing of the last balance read.
SmallChangesAddUp ==
  raw # None => \/ cached = raw
                \/ 100 * Max({raw - cached, cached - raw}) < prof.smoothing * cached

\* A loss that must stop the bot stops it for good: once a check has met one, no entry
\* is approved until the operator clears the switch, although the day looks fine
\* again, the week turns or the process restarts.
Entered ==
  \/ \E m \in Arbs : grant[m] = 0 /\ grant'[m] # 0
  \/ used'["m2"] # used["m2"]
FatalLossLatches == [][Entered => ~breached]_vars

=============================================================================
