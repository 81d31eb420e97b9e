------------------------------ MODULE MotorOne ------------------------------
(***************************************************************************)
(* Motor 1, the binary arbitrage on the WebSocket book: its engine and its *)
(* executor (motor_1_arbitrage/engine.py, executor.py), the guard on the   *)
(* exposure of an event, the brakes they share with the rest of the bot    *)
(* and the ways each brake is released.                                    *)
(*                                                                         *)
(* An attempt buys yes and no of one market, the hard leg first.  What     *)
(* fills without its sibling is sold back; a sale that would lose too much *)
(* is abandoned, and the orphan pauses the motor, or the whole bot.  Motor *)
(* 3 sells the orphan later, and the pause of the motor ends when the      *)
(* portfolio table shows the market flat.                                  *)
(*                                                                         *)
(* A request and its answer are one action: what changes at the exchange   *)
(* in between is seen by nobody else.  A crash may fall in between.        *)
(***************************************************************************)
EXTENDS Integers, FiniteSets, Functions

CONSTANTS
  Tickers,          \* markets, an event each
  NoTicker,         \* no market
  Count,            \* contracts per leg
  MaxAttempts,      \* bound: attempts that reach the exchange
  MaxRetries,       \* max_rollback_retries
  ConfirmTicks,     \* MOTOR_1_CONFIRM_TICKS
  MaxNaked,         \* MAX_EVENT_DIRECTIONAL_EXPOSURE_USD, in contracts
  Threshold,        \* MOTOR_1_BREAKER_THRESHOLD
  CountClean,       \* MOTOR_1_BREAKER_COUNT_CLEAN_ROLLBACKS
  MaxResumes,       \* MOTOR_1_BREAKER_MAX_RESUMES_PER_DAY, 0 when auto-resume is off
  SmallOrphan,      \* contracts below MOTOR_1_ORPHAN_KILL_SWITCH_USD, 0 when the
                    \* proportional pause is off
  EscalateCount,    \* MOTOR_1_ORPHAN_ESCALATE_COUNT
  MaxCrashes,       \* bound: process crashes
  Faults            \* what the environment is allowed to do, see FaultKinds

FaultKinds ==
  { "lostbuy",      \* the answer to a buy never arrives, or the request does not
    "lostsell",     \* the answer to a rollback sell never arrives
    "shortbuy",     \* a fill-or-kill buy fills part of its contracts
    "shortsell",    \* a sell fills part of its contracts
    "dbwrite",      \* a write to the database fails
    "bootread",     \* the kill-switch cannot be read at boot
    "poller",       \* the portfolio poller is off
    "capture",      \* the capture of market data dies
    "elsewhere",    \* another motor engages the kill-switch
    "script",       \* the operator runs engage_kill_switch.py
    "person",       \* the operator pauses and resumes by hand
    "midway" }      \* pauses may come while an attempt is under way

Attempts == 1..MaxAttempts
Legs     == {"hard", "cheap"}
Keys     == Attempts \X Legs

ASSUME TickersAssumption == IsFiniteSet(Tickers) /\ NoTicker \notin Tickers

ASSUME BoundsAssumption ==
  /\ Count \in Nat \ {0}
  /\ MaxAttempts \in Nat
  /\ MaxRetries \in Nat \ {0}
  /\ ConfirmTicks \in Nat \ {0}
  /\ MaxNaked \in Nat
  /\ Threshold \in Nat \ {0}
  /\ CountClean \in BOOLEAN
  /\ MaxResumes \in Nat
  /\ SmallOrphan \in Nat
  /\ EscalateCount \in Nat \ {0}
  /\ MaxCrashes \in Nat

ASSUME FaultsAssumption == Faults \subseteq FaultKinds

\* "error" stands for the statuses error and error_missing.
RowStatus == {"none", "pending", "filled", "settled", "cancelled", "error"}
Row       == [st : RowStatus, n : 0..Count]

\* BotState.pause_reason: startswith("circuit_breaker") tells the pause of the
\* breaker from those of the kill-switch, of an abort, of the watchdog and of
\* the operator.
Reasons == {"none", "breaker", "other"}

\* A pause of the motor alone: young until the poller has synced once after the
\* rollback that caused it, ripe when the grace of LOCAL_PAUSE_MIN_SEC, two
\* rounds of the poller and more, has passed.
Stages  == {"young", "synced", "ripe"}
NoPause == [ticker |-> NoTicker, stage |-> "young"]
NoSale  == [leg |-> "hard", tries |-> 0, left |-> 0]

VARIABLES
  \* the SQLite ledger
  row,        \* the trade row of each leg of each attempt
  clean,      \* atomic_rollback events in the breaker's window
  aborts,     \* rollback_aborted_slippage events in that window
  aborts24,   \* and in the last 24 hours
  ks,         \* the persisted kill-switch is engaged
  table,      \* portfolio_positions: the net position of each market
  \* the exchange
  fill,       \* contracts each buy filled
  sold,       \* contracts of each leg sold back
  \* the executor's memory
  local,      \* the pause of this motor alone
  resumes,    \* _resumes_today
  mem,        \* EventExposureTracker: fills of each leg, by market
  market,     \* the market of each attempt
  att,        \* attempts so far; the current one while pc is past "balance"
  sale,       \* the leg being sold back, the sells sent, the contracts left
  todo,       \* legs still to sell back after it
  \* the engine's memory
  pc,         \* where the execution task is suspended
  target,     \* the ticker of the opportunity under execution
  streak,     \* consecutive ticks with a crossed book; ConfirmTicks - 1 stands for
              \* that many or more, all the next tick asks
  cool,       \* tickers in their cooldown
  \* the process
  pause,      \* BotState.pause_reason, "none" when not paused
  crashes,
  \* history
  unheard,    \* engage_kill_switch.py persisted the kill-switch under a process that
              \* was not paused for good, and no such pause has reached it since
  standing,   \* pauses set by others, or by an abort, that nobody has lifted
  orphans,    \* legs abandoned since the boot, until the pause they caused ends
  excused,    \* an abort was not persisted whole, or the operator cleared the
              \* kill-switch, in the last 24 hours
  forgotten   \* a restart or the operator lifted the breaker's pause, and its
              \* window has not emptied since

ledger   == <<row, clean, aborts, aborts24, ks>>
exchange == <<fill, sold>>
rolling  == <<sale, todo>>
engine   == <<pc, target, streak, cool>>
process  == <<crashes, unheard>>
vars     == <<ledger, table, exchange, local, resumes, mem, market, att, rolling, engine,
              pause, process, standing, orphans, excused, forgotten>>

Key(l)     == <<att, l>>
Sibling(l) == IF l = "hard" THEN "cheap" ELSE "hard"

\* Contracts of a leg held at the exchange, and the net position in a market:
\* above zero on the side of the hard leg, below on that of the cheap one.
Held(k) == fill[k] - sold[k]
OnHard(t)  == {k \in Keys : k[2] = "hard" /\ market[k[1]] = t}
OnCheap(t) == {k \in Keys : k[2] = "cheap" /\ market[k[1]] = t}
Abs(x) == IF x < 0 THEN -x ELSE x
Net(t) == LET h == [k \in Keys |-> Held(k)]
          IN  SumFunctionOnSet(h, OnHard(t)) - SumFunctionOnSet(h, OnCheap(t))

RowsOK == row \in [Keys -> Row]

HeldOK == fill \in [Keys -> 0..Count] /\ sold \in [Keys -> Nat]

BrakesOK ==
  /\ clean \in Nat /\ aborts \in Nat /\ aborts24 \in Nat
  /\ aborts <= aborts24
  /\ resumes \in 0..MaxResumes
  /\ ks \in BOOLEAN /\ excused \in BOOLEAN /\ forgotten \in BOOLEAN /\ unheard \in BOOLEAN
  /\ pause \in Reasons
  /\ standing \subseteq Reasons
  /\ crashes \in 0..MaxCrashes

SignalsOK ==
  /\ streak \in [Tickers -> 0..(ConfirmTicks - 1)]
  /\ cool \subseteq Tickers
  /\ mem \in [Tickers -> [Legs -> Nat]]
  /\ DOMAIN table = Tickers

\* An execution under way has a market, and its legs an attempt on it.
AttemptOK ==
  /\ pc \in {"idle", "task", "balance", "hard", "cheap", "sell", "down"}
  /\ target \in Tickers \union {NoTicker}
  /\ pc \in {"task", "balance", "hard", "cheap", "sell"} => target \in Tickers
  /\ market \in [Attempts -> Tickers \union {NoTicker}]
  /\ att \in 0..MaxAttempts
  /\ pc \in {"hard", "cheap", "sell"} => att \in Attempts /\ market[att] = target

RollbackOK ==
  /\ sale \in [leg : Legs, tries : 0..MaxRetries, left : 0..Count]
  /\ todo \subseteq Legs

OrphansOK ==
  /\ local \in [ticker : Tickers \union {NoTicker}, stage : Stages]
  /\ orphans \subseteq Keys

TypeOK ==
  RowsOK /\ HeldOK /\ BrakesOK /\ SignalsOK /\ AttemptOK /\ RollbackOK /\ OrphansOK

Init ==
  /\ row = [k \in Keys |-> [st |-> "none", n |-> 0]]
  /\ clean = 0 /\ aborts = 0 /\ aborts24 = 0
  /\ ks = FALSE
  /\ table = [t \in Tickers |-> 0]
  /\ fill = [k \in Keys |-> 0]
  /\ sold = [k \in Keys |-> 0]
  /\ local = NoPause
  /\ resumes = 0
  /\ mem = [t \in Tickers |-> [l \in Legs |-> 0]]
  /\ market = [a \in Attempts |-> NoTicker]
  /\ att = 0
  /\ sale = NoSale
  /\ todo = {}
  /\ pc = "idle"
  /\ target = NoTicker
  /\ streak = [t \in Tickers |-> 0]
  /\ cool = {}
  /\ pause = "none"
  /\ crashes = 0
  /\ unheard = FALSE
  /\ standing = {}
  /\ orphans = {}
  /\ excused = FALSE
  /\ forgotten = FALSE

-----------------------------------------------------------------------------
(* Leaving an attempt *)

\* execute() returned False: the ticker cools down and its streak starts anew.
Failed ==
  /\ pc' = "idle"
  /\ cool' = cool \union {target}
  /\ streak' = [streak EXCEPT ![target] = 0]
  /\ UNCHANGED target

\* An exception left execute(), or it returned True: no cooldown, no reset.
Left ==
  /\ pc' = "idle"
  /\ UNCHANGED <<target, streak, cool>>

GoesTo(p) ==
  /\ pc' = p
  /\ UNCHANGED <<target, streak, cool>>

DbFails == "dbwrite" \in Faults

\* The row of each leg in f takes the status and the count f gives it.
Wrote(f) == row' = [k \in Keys |-> IF k[1] = att /\ k[2] \in DOMAIN f THEN f[k[2]] ELSE row[k]]

Cancelled(l) == [st |-> "cancelled", n |-> row[Key(l)].n]

-----------------------------------------------------------------------------
(* Motor1Engine._tick, for one ticker; the loop over tickers never awaits *)

\* The book of t is crossed or not, fit to execute or not: MOTOR_1_BOOK_TRUST_SEC
\* and the floor and the ceiling of the edge decide, and the book is outside.
Tick(t, crossed, fit) ==
  /\ pc # "down"
  /\ fit => crossed
  /\ LET s == IF crossed THEN streak[t] + 1 ELSE 0
     IN  /\ streak' = [streak EXCEPT ![t] = IF s < ConfirmTicks THEN s ELSE ConfirmTicks - 1]
         /\ IF fit /\ s = ConfirmTicks /\ t \notin cool /\ pc = "idle"
            THEN pc' = "task" /\ target' = t
            ELSE UNCHANGED <<pc, target>>
  /\ UNCHANGED <<ledger, table, exchange, local, resumes, mem, market, att, rolling, cool,
                 pause, process, standing, orphans, excused, forgotten>>

CoolsOff(t) ==
  /\ t \in cool
  /\ cool' = cool \ {t}
  /\ UNCHANGED <<ledger, table, exchange, local, resumes, mem, market, att, rolling, pc, target,
                 streak, pause, process, standing, orphans, excused, forgotten>>

\* _execute_and_record detects once more, and the cross is gone.
CrossDied ==
  /\ pc = "task"
  /\ Left
  /\ UNCHANGED <<ledger, table, exchange, local, resumes, mem, market, att, rolling, pause,
                 process, standing, orphans, excused, forgotten>>

-----------------------------------------------------------------------------
(* execute(), up to the approval *)

\* Mutant: the pause of the motor has no exit.
ReleasableNever == FALSE

\* Mutant: the grace is not waited for.
ReleasableAtOnce == local.ticker # NoTicker /\ table[local.ticker] = 0

\* _maybe_release_local_pause: the grace has passed and the table shows no
\* position in the market of the orphan.
Releasable == local.stage = "ripe" /\ table[local.ticker] = 0

\* Rollbacks that count for the breaker.
Counted(c, a) == a + (IF CountClean THEN c ELSE 0)

\* Mutant: any pause is lifted once the window is quiet.
AutoResumesAny ==
  /\ pause # "none"
  /\ aborts = 0
  /\ Counted(clean, aborts) < Threshold
  /\ resumes < MaxResumes

\* _maybe_auto_resume: only a pause of the breaker, its window below the
\* threshold and free of orphans, and resumes left today.
AutoResumes ==
  /\ pause = "breaker"
  /\ aborts = 0
  /\ Counted(clean, aborts) < Threshold
  /\ resumes < MaxResumes

\* check_new_arb: the residue of the event in memory and in the table.
EventAllows(t) ==
  /\ Abs(mem[t]["hard"] - mem[t]["cheap"]) <= MaxNaked
  /\ Abs(table[t]) <= MaxNaked

LocallyPaused ==
  /\ pc = "task"
  /\ local # NoPause
  /\ ~Releasable
  /\ Failed
  /\ UNCHANGED <<ledger, table, exchange, local, resumes, mem, market, att, rolling, pause,
                 process, standing, orphans, excused, forgotten>>

\* From the release to the verdict: is_paused and what else RiskManager
\* refuses for, the edge at the authorised count, the guard of the event.
Enters(approved) ==
  /\ pc = "task"
  /\ local # NoPause => Releasable
  /\ local' = NoPause
  /\ orphans' = IF local = NoPause THEN orphans ELSE {}
  /\ IF AutoResumes
     THEN /\ pause' = "none"
          /\ resumes' = resumes + 1
          /\ standing' = standing \ {"breaker"}
     ELSE UNCHANGED <<pause, resumes, standing>>
  /\ approved => pause' = "none" /\ EventAllows(target)
  /\ UNCHANGED <<ledger, table, exchange, mem, market, att, rolling, process, excused, forgotten>>

Approve == Enters(TRUE) /\ GoesTo("balance")

Reject == Enters(FALSE) /\ Failed

-----------------------------------------------------------------------------
(* execute(), from the balance to the legs *)

BalanceShort ==
  /\ pc = "balance"
  /\ Failed
  /\ UNCHANGED <<ledger, table, exchange, local, resumes, mem, market, att, rolling, pause,
                 process, standing, orphans, excused, forgotten>>

\* _persist_intents, one transaction for both rows, and the hard leg goes out.
PersistIntents ==
  /\ pc = "balance"
  /\ \/ /\ att < MaxAttempts
        /\ att' = att + 1
        /\ market' = [market EXCEPT ![att + 1] = target]
        /\ row' = [k \in Keys |-> IF k[1] = att + 1 THEN [st |-> "pending", n |-> Count]
                                  ELSE row[k]]
        /\ GoesTo("hard")
     \/ DbFails /\ Left /\ UNCHANGED <<att, market, row>>
  /\ UNCHANGED <<clean, aborts, aborts24, ks, table, exchange, local, resumes, mem, rolling,
                 pause, process, standing, orphans, excused, forgotten>>

\* The order of leg l fills n contracts.
Bought(l, n) == fill' = [fill EXCEPT ![Key(l)] = n]
Remembered(l, n) == mem' = [mem EXCEPT ![target][l] = @ + n]
FilledRow(n) == [st |-> "filled", n |-> n]

\* Mutant: the event is counted before it is inserted.
BreakerTripsLate(c) == Counted(c - 1, aborts) >= Threshold

\* _execute_iterative_rollback up to its first await: _check_circuit_breaker
\* inserts the event, counts it, and pauses whatever the pause was.
BreakerTrips(c) == Counted(c, aborts) >= Threshold

StartRollback(legs, n) ==
  \/ /\ clean' = clean + 1
     /\ IF BreakerTrips(clean + 1)
        THEN pause' = "breaker" /\ standing' = standing \union {"breaker"}
        ELSE UNCHANGED <<pause, standing>>
     /\ sale' = [leg |-> "hard", tries |-> 0, left |-> n]
     /\ todo' = legs \ {"hard"}
     /\ GoesTo("sell")
  \/ DbFails /\ Left /\ UNCHANGED <<clean, pause, standing, sale, todo>>

\* The hard leg killed, or in doubt: nothing else is sent.
HardKilled ==
  /\ pc = "hard"
  /\ \/ Wrote([l \in Legs |-> Cancelled(l)]) /\ Failed
     \/ DbFails /\ UNCHANGED row /\ Left
  /\ UNCHANGED <<clean, aborts, aborts24, ks, table, exchange, local, resumes, mem, market, att,
                 rolling, pause, process, standing, orphans, excused, forgotten>>

HardInDoubt(n) ==
  /\ pc = "hard"
  /\ "lostbuy" \in Faults
  /\ Bought("hard", n)
  /\ Wrote([l \in {"cheap"} |-> Cancelled(l)])
  /\ Failed
  /\ UNCHANGED <<clean, aborts, aborts24, ks, table, sold, local, resumes, mem, market, att,
                 rolling, pause, process, standing, orphans, excused, forgotten>>

HardFilled ==
  /\ pc = "hard"
  /\ Bought("hard", Count)
  /\ Remembered("hard", Count)
  /\ \/ Wrote([l \in {"hard"} |-> FilledRow(Count)]) /\ GoesTo("cheap")
     \/ DbFails /\ UNCHANGED row /\ Left
  /\ UNCHANGED <<clean, aborts, aborts24, ks, table, sold, local, resumes, market, att, rolling,
                 pause, process, standing, orphans, excused, forgotten>>

HardShort(n) ==
  /\ pc = "hard"
  /\ "shortbuy" \in Faults
  /\ n < Count
  /\ Bought("hard", n)
  /\ Remembered("hard", n)
  /\ Wrote([l \in Legs |-> IF l = "hard" THEN FilledRow(n) ELSE Cancelled(l)])
  /\ StartRollback({"hard"}, n)
  /\ UNCHANGED <<aborts, aborts24, ks, table, sold, local, resumes, market, att, process,
                 orphans, excused, forgotten>>

CheapFilled ==
  /\ pc = "cheap"
  /\ Bought("cheap", Count)
  /\ Remembered("cheap", Count)
  /\ \/ Wrote([l \in {"cheap"} |-> FilledRow(Count)])
     \/ DbFails /\ UNCHANGED row
  /\ Left
  /\ UNCHANGED <<clean, aborts, aborts24, ks, table, sold, local, resumes, market, att, rolling,
                 pause, process, standing, orphans, excused, forgotten>>

CheapKilled ==
  /\ pc = "cheap"
  /\ \/ /\ Wrote([l \in {"cheap"} |-> Cancelled(l)])
        /\ StartRollback({"hard"}, Count)
     \/ DbFails /\ Left /\ UNCHANGED <<row, clean, pause, standing, rolling>>
  /\ UNCHANGED <<aborts, aborts24, ks, table, exchange, local, resumes, mem, market, att,
                 process, orphans, excused, forgotten>>

\* The cheap leg in doubt keeps its pending row, and the hard one is sold back.
CheapInDoubt(n) ==
  /\ pc = "cheap"
  /\ "lostbuy" \in Faults
  /\ Bought("cheap", n)
  /\ StartRollback({"hard"}, Count)
  /\ UNCHANGED <<row, aborts, aborts24, ks, table, sold, local, resumes, mem, market, att,
                 process, orphans, excused, forgotten>>

CheapShort(n) ==
  /\ pc = "cheap"
  /\ "shortbuy" \in Faults
  /\ n < Count
  /\ Bought("cheap", n)
  /\ Remembered("cheap", n)
  /\ Wrote([l \in {"cheap"} |-> FilledRow(n)])
  /\ StartRollback({"hard", "cheap"}, Count)
  /\ UNCHANGED <<aborts, aborts24, ks, table, sold, local, resumes, market, att, process,
                 orphans, excused, forgotten>>

-----------------------------------------------------------------------------
(* _execute_iterative_rollback, one try per action *)

TriesLeft == sale.tries + 1 < MaxRetries

\* The try is over: another for the same leg, the next leg, or the end.
NextSale(left, abandoned) ==
  IF left > 0 /\ ~abandoned /\ TriesLeft
  THEN /\ sale' = [sale EXCEPT !.tries = @ + 1, !.left = left]
       /\ UNCHANGED todo
       /\ GoesTo("sell")
  ELSE IF todo # {}
  THEN /\ sale' = [leg |-> "cheap", tries |-> 0, left |-> row[Key("cheap")].n]
       /\ todo' = {}
       /\ GoesTo("sell")
  ELSE /\ sale' = NoSale
       /\ UNCHANGED todo
       /\ Failed

\* Mutant: the row is closed by the first sale, whatever is left.
SettledWhole(r, m) == [st |-> "settled", n |-> r.n]

\* _settle_rollback_fill: the row is settled, or keeps what is left.
Settled(r, m) == IF m >= r.n THEN [st |-> "settled", n |-> r.n] ELSE [r EXCEPT !.n = @ - m]

NoBid ==
  /\ pc = "sell"
  /\ NextSale(sale.left, FALSE)
  /\ UNCHANGED <<ledger, table, exchange, local, resumes, mem, market, att, pause, process,
                 standing, orphans, excused, forgotten>>

Sold(n) ==
  /\ pc = "sell"
  /\ n <= sale.left
  /\ n < sale.left => "shortsell" \in Faults
  /\ sold' = [sold EXCEPT ![Key(sale.leg)] = @ + n]
  /\ \/ row' = [row EXCEPT ![Key(sale.leg)] = Settled(@, n)]
     \/ DbFails /\ UNCHANGED row
  /\ NextSale(sale.left - n, FALSE)
  /\ UNCHANGED <<clean, aborts, aborts24, ks, table, fill, local, resumes, mem, market, att,
                 pause, process, standing, orphans, excused, forgotten>>

\* An exception, though everything was sold; one that sold nothing is NoBid.
SoldUnanswered ==
  /\ pc = "sell"
  /\ "lostsell" \in Faults
  /\ sold' = [sold EXCEPT ![Key(sale.leg)] = @ + sale.left]
  /\ NextSale(sale.left, FALSE)
  /\ UNCHANGED <<ledger, table, fill, local, resumes, mem, market, att, pause, process,
                 standing, orphans, excused, forgotten>>

\* Mutant: small orphans are never one too many.
LocalAlways == sale.left <= SmallOrphan

\* _pause_on_aborted_rollback: a small orphan pauses this motor, unless it is
\* one too many in 24 hours.
LocalOnly == sale.left <= SmallOrphan /\ aborts24 + 1 < EscalateCount

\* The event, then the kill-switch, in one try: the first to fail ends both.
PersistAbort ==
  LET event == aborts' = aborts + 1 /\ aborts24' = aborts24 + 1
  IN  \/ event /\ ks' = (ks \/ ~LocalOnly) /\ UNCHANGED excused
      \/ DbFails /\ ~LocalOnly /\ event /\ UNCHANGED ks /\ excused' = TRUE
      \/ DbFails /\ UNCHANGED <<aborts, aborts24, ks>> /\ excused' = TRUE

Abort ==
  /\ pc = "sell"
  /\ IF LocalOnly
     THEN /\ local' = [ticker |-> target, stage |-> "young"]
          /\ UNCHANGED <<pause, standing>>
     ELSE /\ pause' = "other"
          /\ standing' = standing \union {"other"}
          /\ UNCHANGED local
  /\ unheard' = (unheard /\ LocalOnly)
  /\ PersistAbort
  /\ orphans' = orphans \union {Key(sale.leg)}
  /\ NextSale(sale.left, TRUE)
  /\ UNCHANGED <<row, clean, table, exchange, resumes, mem, market, att, crashes, forgotten>>

-----------------------------------------------------------------------------
(* Around the motor *)

\* PortfolioPoller.sync_once copies the positions of the exchange.
Sync ==
  /\ "poller" \notin Faults
  /\ table' = [t \in Tickers |-> Net(t)]
  /\ local' = IF local.stage = "young" /\ local # NoPause /\ pc # "sell"
              THEN [local EXCEPT !.stage = "synced"] ELSE local
  /\ UNCHANGED <<ledger, exchange, resumes, mem, market, att, rolling, engine, pause, process,
                 standing, orphans, excused, forgotten>>

\* LOCAL_PAUSE_MIN_SEC passes; two rounds of the poller fit in it.
GracePasses ==
  /\ local # NoPause
  /\ local.stage = "synced" \/ "poller" \in Faults
  /\ local.stage # "ripe"
  /\ local' = [local EXCEPT !.stage = "ripe"]
  /\ UNCHANGED <<ledger, table, exchange, resumes, mem, market, att, rolling, engine, pause,
                 process, standing, orphans, excused, forgotten>>

\* Motor 3 sells a filled leg whose sibling is not filled, up to the position
\* on its side.
SellOrphan(k) ==
  LET t == market[k[1]]
      r == row[k]
      p == IF k[2] = "hard" THEN table[t] ELSE -table[t]
      m == IF p < r.n THEN p ELSE r.n
  IN  /\ pc \in {"idle", "task", "balance"}
      /\ pause = "none"
      /\ r.st = "filled"
      /\ row[<<k[1], Sibling(k[2])>>].st # "filled"
      /\ m \in 1..r.n
      /\ table[t] = Net(t)
      /\ sold' = [sold EXCEPT ![k] = @ + m]
      /\ row' = [row EXCEPT ![k] = Settled(@, m)]
      /\ UNCHANGED <<clean, aborts, aborts24, ks, table, fill, local, resumes, mem, market, att,
                     rolling, engine, pause, process, standing, orphans, excused, forgotten>>

\* An hour passes, or a day: older events leave the windows first.
WindowMoves(c, a) ==
  /\ pc = "idle"
  /\ c < clean /\ a <= aborts
  /\ clean' = c /\ aborts' = a
  /\ forgotten' = (forgotten /\ c >= Threshold)
  /\ UNCHANGED <<row, aborts24, ks, table, exchange, local, resumes, mem, market, att, rolling,
                 engine, pause, process, standing, orphans, excused>>

DayPasses ==
  /\ pc = "idle"
  /\ aborts24 + clean + resumes > 0
  /\ clean' = 0 /\ aborts' = 0 /\ aborts24' = 0
  /\ resumes' = 0
  /\ excused' = FALSE /\ forgotten' = FALSE
  /\ UNCHANGED <<row, ks, table, exchange, local, mem, market, att, rolling, engine, pause,
                 process, standing, orphans>>

\* A pause that others set, over whatever pause there was.
Others(fault) ==
  /\ fault \in Faults
  /\ pc # "down"
  /\ pc # "idle" => "midway" \in Faults
  /\ pause' = "other"
  /\ unheard' = FALSE
  /\ standing' = standing \union {"other"}
  /\ UNCHANGED <<row, clean, aborts, aborts24, table, exchange, local, resumes, mem, market, att,
                 rolling, engine, crashes, orphans, excused, forgotten>>

WatchdogPauses   == Others("capture") /\ UNCHANGED ks
AdminPause       == Others("person") /\ UNCHANGED ks
EngageKillSwitch == Others("elsewhere") /\ ks' = TRUE

\* scripts/engage_kill_switch.py, a process of its own, persists the kill-switch
\* if it is not; whatever the motor is doing, it does not notice.
ScriptPersists ==
  /\ "script" \in Faults
  /\ ~ks
  /\ ks' = TRUE
  /\ unheard' = (pc # "down" /\ pause # "other")
  /\ UNCHANGED <<row, clean, aborts, aborts24, table, exchange, local, resumes, mem, market, att,
                 rolling, engine, pause, crashes, standing, orphans, excused, forgotten>>

\* Then it tries POST /admin/pause once, which may fail: this step may never come.
ScriptPauses == unheard /\ Others("script") /\ UNCHANGED ks

\* POST /admin/resume is refused while the kill-switch is engaged, and leaves
\* the pause of the motor alone.
AdminResume ==
  /\ "person" \in Faults
  /\ pc # "down"
  /\ pc # "idle" => "midway" \in Faults
  /\ ~ks
  /\ pause # "none"
  /\ pause' = "none"
  /\ standing' = {}
  /\ forgotten' = (clean >= Threshold)
  /\ orphans' = {k \in orphans : market[k[1]] = local.ticker}
  /\ UNCHANGED <<ledger, table, exchange, local, resumes, mem, market, att, rolling, engine,
                 process, excused>>

\* scripts/clear_kill_switch.py, with every position at zero; the pause of the
\* process stays until a restart.
ClearKillSwitch ==
  /\ ks
  /\ pc \in {"idle", "down"}
  /\ \A t \in Tickers : Net(t) = 0
  /\ ks' = FALSE
  /\ excused' = TRUE
  /\ unheard' = FALSE
  /\ UNCHANGED <<row, clean, aborts, aborts24, table, exchange, local, resumes, mem, market, att,
                 rolling, engine, pause, crashes, standing, orphans, forgotten>>

\* The process dies; what is at the exchange fills, or not.
Crash ==
  /\ pc # "down"
  /\ crashes < MaxCrashes
  /\ crashes' = crashes + 1
  /\ \/ UNCHANGED exchange
     \/ pc \in {"hard", "cheap"} /\ Bought(pc, Count) /\ UNCHANGED sold
     \/ /\ pc = "sell"
        /\ sold' = [sold EXCEPT ![Key(sale.leg)] = @ + sale.left]
        /\ UNCHANGED fill
  /\ pc' = "down"
  /\ local' = NoPause
  /\ resumes' = 0
  /\ mem' = [t \in Tickers |-> [l \in Legs |-> 0]]
  /\ sale' = NoSale /\ todo' = {}
  /\ target' = NoTicker
  /\ streak' = [t \in Tickers |-> 0]
  /\ cool' = {}
  /\ pause' = "none"
  /\ unheard' = FALSE
  /\ orphans' = {}
  /\ standing' = {}
  /\ forgotten' = (clean >= Threshold)
  /\ UNCHANGED <<ledger, table, market, att, excused>>

\* What reconcile_pending_trades makes of a row: executed, or cancelled, or
\* missing at the exchange.
Reconciled(k) == IF fill[k] > 0 THEN {"filled"} ELSE {"cancelled", "error"}

\* Mutant: a restart forgets the kill-switch.
NotRehydrated == "none"

\* _rehydrate_kill_switch.
Rehydrated == IF ks THEN "other" ELSE "none"

\* The boot rehydrates the pause, then runs reconcile_pending_trades: rows younger than 30
\* seconds wait for another boot, and so do all when get_orders fails.
Boot(old) ==
  /\ pc = "down"
  /\ \A k \in old : row[k].st = "pending"
  /\ \E r \in [old -> RowStatus] :
       /\ \A k \in old : r[k] \in Reconciled(k)
       /\ row' = [k \in Keys |-> IF k \in old THEN [row[k] EXCEPT !.st = r[k]] ELSE row[k]]
  /\ \/ pause' = Rehydrated
     \/ "bootread" \in Faults /\ pause' = "none"
  /\ standing' = IF ks THEN {"other"} ELSE {}
  /\ GoesTo("idle")
  /\ UNCHANGED <<clean, aborts, aborts24, ks, table, exchange, local, resumes, mem, market, att,
                 rolling, process, orphans, excused, forgotten>>

-----------------------------------------------------------------------------

Engine ==
  \/ \E t \in Tickers : \/ \E crossed, fit \in BOOLEAN : Tick(t, crossed, fit)
                        \/ CoolsOff(t)
  \/ CrossDied

Executor ==
  \/ LocallyPaused \/ Approve \/ Reject \/ BalanceShort \/ PersistIntents
  \/ HardKilled \/ HardFilled \/ CheapKilled \/ CheapFilled
  \/ \E n \in {0, Count} : HardInDoubt(n) \/ CheapInDoubt(n)
  \/ \E n \in 1..Count : HardShort(n) \/ CheapShort(n) \/ Sold(n)
  \/ NoBid \/ SoldUnanswered \/ Abort

Clock ==
  \/ \E c \in 0..(clean - 1), a \in 0..aborts : WindowMoves(c, a)
  \/ DayPasses
  \/ GracePasses

Surroundings ==
  \/ Sync
  \/ \E k \in Keys : SellOrphan(k)
  \/ WatchdogPauses \/ AdminPause \/ AdminResume \/ EngageKillSwitch \/ ClearKillSwitch
  \/ ScriptPersists \/ ScriptPauses
  \/ Crash
  \/ \E old \in SUBSET Keys : Boot(old)

Next == Engine \/ Executor \/ Clock \/ Surroundings

Spec == Init /\ [][Next]_vars

\* The loop ticks every second and its requests end; the poller and Motor 3 run
\* on their own timers.  Signals keep coming on every market, and not all of
\* them die before execute() is called.
Fairness ==
  /\ WF_vars(Executor)
  /\ SF_vars(LocallyPaused \/ Approve \/ Reject)
  /\ WF_vars(GracePasses)
  /\ WF_vars(Sync)
  /\ WF_vars(\E k \in Keys : SellOrphan(k))
  /\ \A t \in Tickers : WF_vars(CoolsOff(t)) /\ SF_vars(Tick(t, TRUE, TRUE))

FairSpec == Spec /\ Fairness

-----------------------------------------------------------------------------
(* Properties *)

\* Whatever the database, the exchange and the process do, a contract the motor
\* holds is on a row that RiskManager counts as exposure (pending or filled).
Visible(k) == IF row[k].st \in {"pending", "filled"} THEN row[k].n ELSE 0
HeldIsVisible == \A k \in Keys : Held(k) <= Visible(k)

\* No attempt is approved while a leg this process abandoned leaves its market
\* exposed: the pause, local or global, ends with its cause and not before.
Approved == pc = "task" /\ pc' = "balance"
OrphanStopsMotor ==
  [][Approved => \A k \in orphans : Net(market[k[1]]) = 0]_vars

\* No attempt is approved with the persisted kill-switch engaged, through
\* restarts, resumes by hand and resumes of the breaker itself, but in the one
\* case engage_kill_switch.py warns of: a process that was running when the
\* script wrote the row, and that neither its POST nor another pause that lasts
\* has reached since.
KillSwitchBlocks == [][Approved => ~ks \/ unheard]_vars

\* The automatic resume lifts the pause of the breaker and no other: a pause
\* that someone else set, and nobody lifted, stays.
OnlyTheBreakerLifts ==
  [][resumes' > resumes => standing \subseteq {"breaker"}]_vars

\* Rollbacks do not repeat: with a threshold of them in the window no attempt is
\* approved, unless a restart or the operator lifted the breaker's pause, which
\* lives in memory.  An abandoned sale is counted twice, as a rollback and as an
\* abort, but after the check; so it is rollbacks that the threshold bounds.
BreakerHolds ==
  [][Approved /\ CountClean /\ ~forgotten => clean < Threshold]_vars

\* The repetition of small orphans stops the whole bot: with as many abandoned
\* sales in 24 hours as the limit no attempt is approved, restarts included, as
\* long as the aborts and the kill-switch reached the database and the operator
\* has not cleared it.
RepeatedOrphansEscalate ==
  [][Approved /\ ~excused => aborts24 < EscalateCount]_vars

\* The pause of the motor ends once the rollback is over: Motor 3 closes the
\* orphan, the poller sees it and an attempt releases the pause, unless the
\* whole bot is stopped.  Motor 3 leaves an arb alone while both its rows are
\* filled, and acts on what the rows say, so they must say what is held.
LedgerTrue == \A k \in Keys : Held(k) = IF row[k].st = "filled" THEN row[k].n ELSE 0
PauseEnds ==
  (/\ local # NoPause
   /\ pc # "sell"
   /\ LedgerTrue
   /\ \A k \in orphans : row[<<k[1], Sibling(k[2])>>].st # "filled")
    ~> (local = NoPause \/ pause # "none")

=============================================================================
