------------------------------- MODULE Exits -------------------------------
(***************************************************************************)
(* How a position ends: sold early by one of the two exit engines, those   *)
(* of Motor 2 and Motor 3 (motor_2_consensus/exit_engine.py and            *)
(* motor_3_clv/engine.py, poller.py, orphans.py), through an executor of   *)
(* the class both instantiate (motor_3_clv/executor.py), or settled with   *)
(* its market by the settlement poller (motor_rest_arb/settlement.py).     *)
(*                                                                         *)
(* A lot is a BUY row.  Which positions are due for an exit depends on     *)
(* prices and time (module ExitRules): here any subset of them may be.     *)
(***************************************************************************)
EXTENDS Integers, Sequences, FiniteSets, FiniteSetsExt, Functions

CONSTANTS
  Tickers,    \* markets
  Lots,       \* BUY rows, numbered in the order of placed_at
  Owner,      \* the strategy of each lot
  Ticker,     \* its market
  Side,       \* yes or no
  Arb,        \* the arb_id of its notes; a bet is a group of its own
  Profiles,   \* deployments: which engines run, what is held, what may fail
  MaxSize,    \* bound: contracts of a lot
  MaxSales    \* bound: sales

FaultKinds ==
  { "lostsell",   \* the answer to a sale never arrives, or the request does not
    "partial",    \* a sale fills part of its contracts
    "api",        \* a read of the exchange fails
    "dbwrite",    \* a write to the database fails
    "person",     \* the operator pauses and resumes
    "crash" }     \* the process dies and is restarted

Motors  == {"motor_1", "motor_2", "motor_rest"}
Engines == {"m2", "m3"}
Sides   == {"yes", "no"}

ASSUME LotsAssumption ==
  /\ Lots \in SUBSET (Nat \ {0}) /\ IsFiniteSet(Lots)
  /\ Owner \in [Lots -> Motors]
  /\ Ticker \in [Lots -> Tickers]
  /\ Side \in [Lots -> Sides]
  /\ Arb \in [Lots -> Nat]

\* The lots of an arb are of one motor, those of Motor 1 on the two sides of a
\* market.
ASSUME GroupsAssumption ==
  \A k, l \in Lots : k # l /\ Arb[k] = Arb[l] =>
    /\ Owner[k] = Owner[l] /\ Owner[l] # "motor_2"
    /\ Owner[l] = "motor_1" => Ticker[k] = Ticker[l] /\ Side[k] # Side[l]

\* held: contracts of each lot at the start, 0 for one not bought yet.
\* bets: lots Motor 2 may buy.  orphans: MOTOR_3_MANAGES_ORPHANS.
ProfileType == [ engines : SUBSET Engines, orphans : BOOLEAN,
                 held : [Lots -> 0..MaxSize], bets : SUBSET Lots, faults : SUBSET FaultKinds ]

ASSUME ProfilesAssumption ==
  Profiles \subseteq ProfileType /\ MaxSize \in Nat /\ MaxSales \in Nat

VARIABLES
  prof,      \* the deployment
  lot,       \* the status of each BUY row; "closed" is settled with closed_by_clv
  left,      \* its count: contracts not sold yet
  bought,    \* what it was at the fill
  sale,      \* the SELL rows and their orders, in the order they were sent
  net,       \* contracts the account holds of each market, no as negative
  cache,     \* the portfolio table: the same, as the poller last wrote it
  empties,   \* consecutive syncs that found nothing, up to the one deferred
  at,        \* what each engine is doing
  legs,      \* lots the settlement poller read and has not looked up yet
  resolved,  \* markets with a result
  brake,     \* off; paused; killed: paused with the persisted kill-switch; blind:
             \* paused after a sale that could not be written, but not persisted
  forgot     \* a resume or a restart lifted the brake while it was blind

rows  == <<lot, left, bought>>
table == <<cache, empties>>
vars  == <<prof, rows, sale, net, table, at, legs, resolved, brake, forgot>>

Fault(f) == f \in prof.faults

LotStatus  == {"none", "filled", "settled", "closed"}
SaleStatus == {"pending", "settled", "cancelled", "filled", "error_missing"}
Order      == {"flying", "done", "dead"}

Want == [ticker : Tickers, side : Sides, count : Nat]
Sale == [by : Engines, ticker : Tickers, side : Sides, count : Nat,
         row : SaleStatus, order : Order, fill : Nat]

TypeOK ==
  /\ prof \in Profiles
  /\ lot \in [Lots -> LotStatus]
  /\ left \in [Lots -> 0..MaxSize] /\ bought \in [Lots -> 0..MaxSize]
  /\ \A l \in Lots : left[l] <= bought[l]
  /\ \A s \in DOMAIN sale : sale[s] \in Sale /\ sale[s].fill <= sale[s].count
  /\ Len(sale) <= MaxSales
  /\ net \in [Tickers -> Int] /\ cache \in [Tickers -> Int] /\ empties \in 0..1
  /\ \A e \in Engines :
       /\ at[e].pc \in {"down", "idle", "exits", "reconcile", "book", "sent"}
       /\ at[e].wants \in SUBSET Want
       /\ at[e].pc \in {"reconcile", "book", "sent"} => at[e].now \in Want
  /\ legs \subseteq Lots /\ resolved \subseteq Tickers
  /\ brake \in {"off", "paused", "killed", "blind"} /\ forgot \in BOOLEAN

-----------------------------------------------------------------------------
(* What the rows and the account say *)

Signed(side, n) == IF side = "yes" THEN n ELSE 0 - n
Size(n) == IF n < 0 THEN 0 - n ELSE n
Total(S) == SumFunctionOnSet(left, S)

OpenLots == {l \in Lots : lot[l] = "filled" /\ left[l] > 0}

\* The two sides of an arb of Motor 1 are open: a hedge.  The mutant looks at
\* the side it would sell only.
HedgedOnSide(l) ==
  \E k \in OpenLots : Owner[k] = "motor_1" /\ Arb[k] = Arb[l] /\ Side[k] = Side[l] /\ k # l
Hedged(l) ==
  \E k \in OpenLots : Owner[k] = "motor_1" /\ Arb[k] = Arb[l] /\ Side[k] # Side[l]

Orphan(l) == l \in OpenLots /\ Owner[l] = "motor_1" /\ ~Hedged(l)

\* The lots an executor of engine e may close: both close the bets of Motor 2,
\* that of Motor 3 also the orphans of Motor 1.
Attributable(e, t, side) ==
  { l \in OpenLots :
      /\ Ticker[l] = t /\ Side[l] = side
      /\ Owner[l] = "motor_2" \/ (e = "m3" /\ prof.orphans /\ Orphan(l)) }

\* What get_positions answers; a market that resolved has no position.
Position(t) == IF t \in resolved THEN 0 ELSE net[t]

\* First in, first out: what n contracts sold take from lot l of S.  The mutant
\* takes the whole of every lot.
TakenWhole(S, l, n) == IF Total({k \in S : k < l}) < n THEN left[l] ELSE 0

Taken(S, l, n) == Min({left[l], Max({0, n - Total({k \in S : k < l})})})

\* _settle_originals: a lot sold in part keeps the rest open.
Close(e, t, side, n) ==
  LET S == Attributable(e, t, side) IN
  /\ left' = [l \in Lots |-> IF l \in S THEN left[l] - Taken(S, l, n) ELSE left[l]]
  /\ lot' = [l \in Lots |->
       IF l \in S /\ Taken(S, l, n) = left[l] THEN "closed" ELSE lot[l]]
  /\ UNCHANGED bought

-----------------------------------------------------------------------------
(* The start and the entries *)

Resting == [pc |-> "idle", wants |-> {}]
Dead    == [pc |-> "down", wants |-> {}]

SideNet(held, t) ==
  SumFunction([l \in {k \in Lots : Ticker[k] = t} |-> Signed(Side[l], held[l])])

Init ==
  /\ prof \in Profiles
  /\ lot = [l \in Lots |-> IF prof.held[l] > 0 THEN "filled" ELSE "none"]
  /\ left = prof.held /\ bought = prof.held
  /\ sale = <<>>
  /\ net = [t \in Tickers |-> SideNet(prof.held, t)]
  /\ cache = [t \in Tickers |-> 0] /\ empties = 0
  /\ at = [e \in Engines |-> Resting]
  /\ legs = {} /\ resolved = {} /\ brake = "off" /\ forgot = FALSE

\* Motor 2 bets again on a market once none of its rows there is pending or
\* filled (_open_position_exists), sales included.
Bet(l, n) ==
  /\ l \in prof.bets /\ Owner[l] = "motor_2" /\ lot[l] = "none" /\ n \in 1..MaxSize
  /\ at["m2"].pc # "down" /\ brake = "off" /\ Ticker[l] \notin resolved
  /\ \A k \in Lots : Owner[k] = "motor_2" /\ Ticker[k] = Ticker[l] => lot[k] # "filled"
  /\ \A s \in DOMAIN sale :
       sale[s].by = "m2" /\ sale[s].ticker = Ticker[l]
         => sale[s].row \notin {"pending", "filled"}
  /\ lot' = [lot EXCEPT ![l] = "filled"]
  /\ left' = [left EXCEPT ![l] = n] /\ bought' = [bought EXCEPT ![l] = n]
  /\ net' = [net EXCEPT ![Ticker[l]] = @ + Signed(Side[l], n)]
  /\ UNCHANGED <<prof, sale, table, at, legs, resolved, brake, forgot>>

-----------------------------------------------------------------------------
(* A tick of an engine *)

\* The poller of Motor 3: an empty answer is believed the second time.
Sync ==
  LET found == [t \in Tickers |-> Position(t)]
      none  == \A t \in Tickers : found[t] = 0
      kept  == \E t \in Tickers : cache[t] # 0
  IN
  /\ "m3" \in prof.engines /\ at["m3"].pc = "idle"
  /\ \/ none /\ kept /\ empties = 0 /\ empties' = 1 /\ UNCHANGED cache
     \/ none /\ kept /\ empties = 1 /\ UNCHANGED empties /\ cache' = found
     \/ ~(none /\ kept) /\ empties' = 0 /\ cache' = found
  /\ UNCHANGED <<prof, rows, sale, net, at, legs, resolved, brake, forgot>>

\* _attributable_positions: a market with an open leg of a REST arb is left
\* alone, and an orphan is capped at what is orphan.
Managed ==
  LET SideOf(t) == IF cache[t] > 0 THEN "yes" ELSE "no"
      bets(t)   == {l \in OpenLots : Owner[l] = "motor_2" /\ Ticker[l] = t /\ Side[l] = SideOf(t)}
      strays(t) == {l \in Lots : prof.orphans /\ Orphan(l) /\ Ticker[l] = t /\ Side[l] = SideOf(t)}
      mine == { t \in Tickers :
                  /\ cache[t] # 0
                  /\ \A l \in OpenLots : Owner[l] = "motor_rest" => Ticker[l] # t
                  /\ bets(t) \union strays(t) # {} }
  IN { [ticker |-> t, side |-> SideOf(t),
        count |-> IF bets(t) # {} THEN Size(cache[t])
                                  ELSE Min({Size(cache[t]), Total(strays(t))})] : t \in mine }

\* _load_open_positions of Motor 2: its rows, whatever the account holds.
Bets ==
  LET bets(t, side) == {l \in OpenLots : Owner[l] = "motor_2" /\ Ticker[l] = t /\ Side[l] = side}
  IN { w \in { [ticker |-> t, side |-> d, count |-> Total(bets(t, d))] :
                 t \in Tickers, d \in Sides } : w.count > 0 }

\* The positions of a tick, and the exits due among them.
Load(e) ==
  /\ e \in prof.engines /\ at[e].pc = "idle"
  /\ \E due \in SUBSET (IF e = "m3" THEN Managed ELSE Bets) :
       /\ due # {}
       /\ at' = [at EXCEPT ![e] = [pc |-> "exits", wants |-> due]]
  /\ UNCHANGED <<prof, rows, sale, net, table, legs, resolved, brake, forgot>>

TickEnds(e) ==
  /\ at[e].pc = "exits" /\ at[e].wants = {}
  /\ at' = [at EXCEPT ![e] = Resting]
  /\ UNCHANGED <<prof, rows, sale, net, table, legs, resolved, brake, forgot>>

Onward(e) == [pc |-> "exits", wants |-> at[e].wants]

-----------------------------------------------------------------------------
(* exit_position *)

\* The lock of a market, one for both executors; the mutant is a lock for each.
LockFreeAlways(t) == TRUE
LockFree(t) ==
  \A e \in Engines : at[e].pc \in {"reconcile", "book", "sent"} => at[e].now.ticker # t

\* Intents of sales whose answer was lost, of this executor's own strategy.
Unresolved(e, w) ==
  { s \in DOMAIN sale :
      /\ sale[s].by = e /\ sale[s].row = "pending"
      /\ sale[s].ticker = w.ticker /\ sale[s].side = w.side }

Open(e, w) == Total(Attributable(e, w.ticker, w.side))

\* Nothing is left to resolve: the sale is sized by what the rows say is open;
\* none is, when another exit closed the position (already_closed).
Decided(w, wants, open) ==
  IF open = 0 THEN [pc |-> "exits", wants |-> wants]
  ELSE [pc |-> "book", wants |-> wants, now |-> [w EXCEPT !.count = Min({w.count, open})]]

\* A pause, or another exit under way on this market, discards this one.
Discard(e, w) ==
  /\ at[e].pc = "exits" /\ w \in at[e].wants
  /\ brake # "off" \/ ~LockFree(w.ticker)
  /\ at' = [at EXCEPT ![e].wants = @ \ {w}]
  /\ UNCHANGED <<prof, rows, sale, net, table, legs, resolved, brake, forgot>>

BeginExit(e, w) ==
  /\ at[e].pc = "exits" /\ w \in at[e].wants
  /\ brake = "off" /\ LockFree(w.ticker)
  /\ at' = [at EXCEPT ![e] =
       IF Unresolved(e, w) = {} THEN Decided(w, @.wants \ {w}, Open(e, w))
       ELSE [pc |-> "reconcile", wants |-> @.wants \ {w}, now |-> w]]
  /\ UNCHANGED <<prof, rows, sale, net, table, legs, resolved, brake, forgot>>

\* _finalize_fill, in two transactions: the SELL row, then the BUY rows.
Register(s, n) ==
  /\ sale' = [sale EXCEPT ![s].row = "settled", ![s].count = n]
  /\ Close(sale[s].by, sale[s].ticker, sale[s].side, n)
  /\ UNCHANGED brake

\* When either fails the sale is off the ledger; _engage_preventive_pause pauses in
\* memory, and then writes the kill-switch to the same database, which may fail too.
CannotRegister(s, n) ==
  /\ Fault("dbwrite")
  /\ sale' \in {sale, [sale EXCEPT ![s].row = "settled", ![s].count = n]}
  /\ brake' \in IF brake = "killed" THEN {"killed"} ELSE {"killed", "blind"}
  /\ UNCHANGED rows

Finalize(s, n) == Register(s, n) \/ CannotRegister(s, n)

Cancelled(s) == [sale EXCEPT ![s].row = "cancelled"]

\* A write that only frees an intent is best effort.
Free(s) ==
  /\ sale' \in {Cancelled(s)} \union (IF Fault("dbwrite") THEN {sale} ELSE {})
  /\ UNCHANGED <<rows, brake>>

\* _reconcile_pending_sells: get_orders says what became of a lost sale; with
\* the last of them resolved the exit goes on in the same step.  If a fill
\* cannot be written, this tick sells nothing.
ReconcileSale(e) ==
  /\ at[e].pc = "reconcile"
  /\ UNCHANGED <<prof, net, table, legs, resolved, forgot>>
  /\ \E w \in {at[e].now}, s \in Unresolved(e, at[e].now) :
       /\ sale[s].order = "done"
       /\ \/ /\ IF sale[s].fill > 0 THEN Register(s, sale[s].fill) ELSE Free(s)
             /\ at' = [at EXCEPT ![e] = IF Unresolved(e, w) # {s} THEN @
                                        ELSE Decided(w, @.wants, Open(e, w)')]
          \/ /\ sale[s].fill > 0 /\ CannotRegister(s, sale[s].fill)
             /\ at' = [at EXCEPT ![e] = Onward(e)]

\* get_orders fails, or does not know the order: no sale on a doubt.
ReconcileFails(e) ==
  /\ at[e].pc = "reconcile"
  /\ Fault("api") \/ \E s \in Unresolved(e, at[e].now) : sale[s].order # "done"
  /\ at' = [at EXCEPT ![e] = Onward(e)]
  /\ UNCHANGED <<prof, rows, sale, net, table, legs, resolved, brake, forgot>>

\* No book, no bid, a bid below the floor, or no intent could be written.
NoSale(e) ==
  /\ at[e].pc = "book"
  /\ at' = [at EXCEPT ![e] = Onward(e)]
  /\ UNCHANGED <<prof, rows, sale, net, table, legs, resolved, brake, forgot>>

\* The intent is written before the order leaves, immediate or cancel.
SendSale(e) ==
  LET w == at[e].now IN
  /\ at[e].pc = "book" /\ Len(sale) < MaxSales /\ w.ticker \notin resolved
  /\ sale' = Append(sale, [by |-> e, ticker |-> w.ticker, side |-> w.side, count |-> w.count,
                           row |-> "pending", order |-> "flying", fill |-> 0])
  /\ at' = [at EXCEPT ![e].pc = "sent"]
  /\ UNCHANGED <<prof, rows, net, table, legs, resolved, brake, forgot>>

\* The sale an engine waits for: its last one.
Sent(e) == Max({s \in DOMAIN sale : sale[s].by = e})

Answered(e) ==
  /\ at[e].pc = "sent" /\ sale[Sent(e)].order = "done"
  /\ LET s == Sent(e) IN IF sale[s].fill > 0 THEN Finalize(s, sale[s].fill) ELSE Free(s)
  /\ at' = [at EXCEPT ![e] = Onward(e)]
  /\ UNCHANGED <<prof, net, table, legs, resolved, forgot>>

\* A 4xx: the order did not enter.
Refused(e) ==
  LET s == Sent(e) IN
  /\ at[e].pc = "sent" /\ sale[s].order = "flying"
  /\ sale' = [sale EXCEPT ![s].row = "cancelled", ![s].order = "dead"]
  /\ at' = [at EXCEPT ![e] = Onward(e)]
  /\ UNCHANGED <<prof, rows, net, table, legs, resolved, brake, forgot>>

\* error_red: the sale may have filled, and its intent stays pending.
LoseAnswer(e) ==
  /\ Fault("lostsell") /\ at[e].pc = "sent"
  /\ at' = [at EXCEPT ![e] = Onward(e)]
  /\ UNCHANGED <<prof, rows, sale, net, table, legs, resolved, brake, forgot>>

-----------------------------------------------------------------------------
(* The exchange *)

\* A sale takes what the bid offers.  Nothing refuses what exceeds the position:
\* it opens the opposite one.
Match(s, n) ==
  /\ sale[s].order = "flying"
  /\ n \in {0, sale[s].count} \/ (Fault("partial") /\ n \in 0..sale[s].count)
  /\ sale' = [sale EXCEPT ![s].order = "done", ![s].fill = n]
  /\ net' = [net EXCEPT ![sale[s].ticker] = @ - Signed(sale[s].side, n)]
  /\ UNCHANGED <<prof, rows, table, at, legs, resolved, brake, forgot>>

Vanish(s) ==
  /\ Fault("lostsell") /\ sale[s].order = "flying"
  /\ sale' = [sale EXCEPT ![s].order = "dead"]
  /\ UNCHANGED <<prof, rows, net, table, at, legs, resolved, brake, forgot>>

\* A market closes to orders before its result is known; one that no lot is of
\* does not matter.
Resolve(t) ==
  /\ t \notin resolved /\ \E l \in Lots : Ticker[l] = t /\ lot[l] # "none"
  /\ \A s \in DOMAIN sale : sale[s].ticker = t => sale[s].order # "flying"
  /\ resolved' = resolved \union {t}
  /\ UNCHANGED <<prof, rows, sale, net, table, at, legs, brake, forgot>>

-----------------------------------------------------------------------------
(* The settlement poller *)

Running == \E e \in Engines : at[e].pc # "down"

\* settle_once reads the rows that are filled, of every strategy.
ReadFilled ==
  /\ Running /\ legs = {}
  /\ legs' = {l \in Lots : lot[l] = "filled"}
  /\ UNCHANGED <<prof, rows, sale, net, table, at, resolved, brake, forgot>>

\* The groups are looked up one after the other.
Group == {k \in legs : Arb[k] = Arb[Min(legs)]}

\* The legs of a group that has them all resolved are settled in one
\* transaction, which looks at their status again.  The mutant settles those
\* whose own market has.
SettleAlone ==
  LET l == Min(legs) IN
  /\ legs # {} /\ Ticker[l] \in resolved
  /\ legs' = legs \ {l}
  /\ lot' = [lot EXCEPT ![l] = IF @ = "filled" THEN "settled" ELSE @]
  /\ UNCHANGED <<prof, left, bought, sale, net, table, at, resolved, brake, forgot>>
SettleGroup ==
  /\ legs # {} /\ \A k \in Group : Ticker[k] \in resolved
  /\ legs' = legs \ Group
  /\ lot' = [k \in Lots |-> IF k \in Group /\ lot[k] = "filled" THEN "settled" ELSE lot[k]]
  /\ UNCHANGED <<prof, left, bought, sale, net, table, at, resolved, brake, forgot>>

\* A market without a result yet, or an answer that does not come.
SkipGroup ==
  /\ legs # {}
  /\ legs' = legs \ Group
  /\ UNCHANGED <<prof, rows, sale, net, table, at, resolved, brake, forgot>>

-----------------------------------------------------------------------------
(* The operator, a crash and the boot *)

\* What lifts the pause of a sale that could not be written and was not persisted.
Forgets == forgot' = IF brake = "blind" THEN TRUE ELSE forgot

Pause ==
  /\ Fault("person") /\ brake = "off" /\ brake' = "paused"
  /\ UNCHANGED <<prof, rows, sale, net, table, at, legs, resolved, forgot>>

Resume ==
  /\ Fault("person") /\ brake \in {"paused", "blind"} /\ brake' = "off" /\ Forgets
  /\ UNCHANGED <<prof, rows, sale, net, table, at, legs, resolved>>

Crash ==
  /\ Fault("crash") /\ Running
  /\ at' = [e \in Engines |-> Dead]
  /\ legs' = {} /\ empties' = 0
  /\ brake' = (IF brake = "killed" THEN "killed" ELSE "off") /\ Forgets
  /\ UNCHANGED <<prof, rows, sale, net, cache, resolved>>

\* reconcile_pending_trades gives a SELL row, like any other, the status of its
\* order, and leaves the BUY rows it sold as they are.
Reconciled(x) ==
  IF x.row # "pending" THEN x
  ELSE [x EXCEPT !.row = IF x.order # "done" THEN "error_missing"
                         ELSE IF x.fill = x.count THEN "filled" ELSE "cancelled"]

\* Rows younger than 30 seconds wait, and all of them when get_orders fails.
Boot ==
  /\ ~Running
  /\ \A s \in DOMAIN sale : sale[s].order # "flying"
  /\ \E aged \in 0..Len(sale) :
       sale' = [s \in DOMAIN sale |-> IF s <= aged THEN Reconciled(sale[s]) ELSE sale[s]]
  /\ at' = [e \in Engines |-> Resting]
  /\ UNCHANGED <<prof, rows, net, table, legs, resolved, brake, forgot>>

-----------------------------------------------------------------------------

Engine(e) ==
  \/ Load(e) \/ TickEnds(e)
  \/ \E w \in at[e].wants : Discard(e, w) \/ BeginExit(e, w)
  \/ ReconcileSale(e) \/ ReconcileFails(e)
  \/ NoSale(e) \/ SendSale(e) \/ Answered(e) \/ Refused(e) \/ LoseAnswer(e)

Exchange ==
  \/ \E s \in DOMAIN sale : Vanish(s) \/ \E n \in 0..sale[s].count : Match(s, n)
  \/ \E t \in Tickers : Resolve(t)

Poller == ReadFilled \/ SettleGroup \/ SkipGroup

Next ==
  \/ \E l \in Lots, n \in 1..MaxSize : Bet(l, n)
  \/ Sync
  \/ \E e \in Engines : Engine(e)
  \/ Exchange
  \/ Poller
  \/ Pause \/ Resume \/ Crash \/ Boot

Spec == Init /\ [][Next]_vars

-----------------------------------------------------------------------------
(* Properties *)

Fills(t, side) ==
  SumFunctionOnSet([s \in DOMAIN sale |-> sale[s].fill],
                   {s \in DOMAIN sale : sale[s].ticker = t /\ sale[s].side = side})

Closable(t, side) ==
  {l \in Lots : Ticker[l] = t /\ Side[l] = side /\ Owner[l] # "motor_rest"}

\* Sales that filled, and whose SELL row does not say so.
Unregistered(t, side) ==
  { s \in DOMAIN sale :
      /\ sale[s].ticker = t /\ sale[s].side = side
      /\ sale[s].fill > 0 /\ sale[s].row # "settled" }

\* reconcile_pending_trades closed the intent and left the lots open.
Misread(t, side) == \E s \in Unregistered(t, side) : sale[s].row # "pending"

\* A sale could not be written, and nothing has lifted the brake it set.
Braked == brake \in {"killed", "blind"}

\* motor_3_clv/executor.py:63-67 and 126-129: a second sale of what was sold
\* opens the opposite position.  No more is sold of a side than the exits may
\* close, unless the boot closed the intent of a sale that filled, or a resume
\* or a restart lifted a pause that executor.py:477-489 could not persist.
SellOnlyCloses ==
  \A t \in Tickers, side \in Sides :
    \/ forgot \/ Misread(t, side)
    \/ Fills(t, side) <= SumFunctionOnSet(bought, Closable(t, side))

\* The ledger and the account agree: what the account holds of a market is the
\* open lots, less the sales that filled and are not registered.  Only a sale
\* that could not be written breaks the balance: the exits then stop, and stay
\* so unless that pause was not persisted and is lifted.
RowsMatchAccount ==
  \A t \in Tickers :
    \/ t \in resolved \/ Braked \/ forgot
    \/ net[t] = SumFunctionOnSet([l \in Lots |-> Signed(Side[l], left[l])],
                                 {l \in OpenLots : Ticker[l] = t})
              - SumFunctionOnSet([s \in DOMAIN sale |-> Signed(sale[s].side, sale[s].fill)],
                                 Unregistered(t, "yes") \union Unregistered(t, "no"))

\* orphans.py: of an arb that holds two lots or more, whichever motor made it,
\* no lot is ever sold.
HedgeStays ==
  [][\A l \in Lots : lot[l] # "none" /\ left'[l] # left[l] =>
       \A k \in OpenLots : k # l => Arb[k] # Arb[l]]_vars

\* settlement.py:200-203: the filled legs of an arb are settled together, or
\* all of them wait.
GroupsSettleWhole ==
  \A k, l \in Lots : Arb[k] = Arb[l] /\ lot[k] = "settled" => lot[l] # "filled"
=============================================================================
