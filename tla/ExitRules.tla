----------------------------- MODULE ExitRules -----------------------------
(***************************************************************************)
(* When an exit engine sells and what the ledger makes of it: the rules    *)
(* (motor_3_clv/take_profit.py, trailing_stop.py, detector.py) as the two  *)
(* engines apply them tick by tick, the sale at the bid the executor reads *)
(* for itself, and the split of a sale over the BUY rows it closes         *)
(* (motor_3_clv/executor.py).  One position, one engine; the races of      *)
(* several are module Exits.                                               *)
(***************************************************************************)
EXTENDS ArbMath, Sequences, Functions

CONSTANTS
  LotPrices,    \* prices a BUY may fill at
  LotSizes,     \* and counts
  MaxLots,      \* bound: BUY rows of the position
  Bids,         \* what the book may bid
  TakeProfit,   \* MOTOR_3_TAKE_PROFIT_CENTS
  Drop,         \* MOTOR_3_TRAILING_DROP_CENTS
  MinSell,      \* MOTOR_3_MIN_SELL_BID_CENTS
  MaxExits      \* bound: sales of the position

ASSUME ExitRulesAssumption ==
  /\ LotPrices \subseteq 1..99 /\ Bids \subseteq 1..99
  /\ LotSizes \subseteq Nat \ {0}
  /\ {MaxLots, TakeProfit, Drop, MinSell, MaxExits} \subseteq Nat

VARIABLES
  holder,   \* whose lots they are: those of a bet, or orphans of Motor 1
  lots,     \* the open BUY rows, oldest first
  peak,     \* the highest bid remembered, 0 for none
  clock,    \* early, late (within 30 minutes of the close) or closed
  due,      \* the exit decided on
  exits,    \* sales sent
  cash,     \* what the account was charged and paid
  ledger    \* the pnl_cents of every row that is settled

exitVars == <<holder, lots, peak, clock, due, exits, cash, ledger>>

NotDue == [why |-> "none"]
Total(s) == SumFunction(s)

ExitInit ==
  /\ holder \in {"bets", "orphans"}
  /\ lots = <<>> /\ peak = 0 /\ clock = "early" /\ due = NotDue
  /\ exits = 0 /\ cash = 0 /\ ledger = 0

----------------------------------------------------------------------------
Held(s) == Total([i \in DOMAIN s |-> s[i].count])

\* Python's round(): a half goes to the even cent.
RoundDiv(n, d) ==
  LET q == n \div d
      r == 2 * (n % d)
  IN  IF r > d \/ (r = d /\ q % 2 = 1) THEN q + 1 ELSE q

\* The average of the lots, rounded; of orphans, the price of the oldest.
_entry_bid_for(s) ==
  IF holder = "orphans"
  THEN s[1].price
  ELSE RoundDiv(Total([i \in DOMAIN s |-> s[i].count * s[i].price]), Held(s))

NetPerContract(bid, entry) ==
  bid - entry - kalshi_fee_cents(1, bid) - kalshi_fee_cents(1, entry)

take_profit_due(bid, entry) == bid >= TakeProfit /\ NetPerContract(bid, entry) > 0

next_peak_bid(bid, entry) == Max({peak, entry, bid})

\* A mistaken stop: the drop alone, however low the bid.
trailing_stop_blind(top, bid, entry) ==
  /\ Drop > 0
  /\ top - entry >= Drop
  /\ bid <= top - Drop

trailing_stop_due(top, bid, entry) ==
  /\ Drop > 0
  /\ top - entry >= Drop
  /\ bid <= top - Drop
  /\ NetPerContract(bid, entry) > 0

clv_exit_due == clock = "late"

----------------------------------------------------------------------------
\* A BUY fills; its fee is on the row.
Buy(count, price) ==
  /\ clock # "closed" /\ Len(lots) < MaxLots
  /\ LET fee == kalshi_fee_cents(count, price)
     IN  /\ lots' = Append(lots, [count |-> count, price |-> price, fees |-> fee])
         /\ cash' = cash - count * price - fee
  /\ UNCHANGED <<holder, peak, clock, due, exits, ledger>>

\* A tick of the engine sees a bid, raises the peak and decides.
Look(bid) ==
  /\ lots # <<>> /\ due = NotDue /\ clock # "closed" /\ exits < MaxExits
  /\ LET entry == _entry_bid_for(lots)
         top   == next_peak_bid(bid, entry)
         price == take_profit_due(bid, entry) \/ trailing_stop_due(top, bid, entry)
     IN  /\ peak' = top
         /\ due' = IF price \/ clv_exit_due
                   THEN [why |-> IF price THEN "price" ELSE "time", bid |-> bid, lots |-> lots]
                   ELSE NotDue
  /\ UNCHANGED <<holder, lots, clock, exits, cash, ledger>>

\* The position is gone, and with it its peak; before that a new one inherits it.
Forget ==
  /\ lots = <<>> /\ due = NotDue /\ peak > 0
  /\ peak' = 0
  /\ UNCHANGED <<holder, lots, clock, due, exits, cash, ledger>>

\* A sale of n contracts at bid closes the lots in turn, the last perhaps in part.
\* Each is charged its share of the one exit fee, and an entry fee of its own.
ClosedBefore(s, n, i) == Min({n, Held(SubSeq(s, 1, i))})

Tranche(s, n, i, bid) ==
  LET from == ClosedBefore(s, n, i - 1)
      to   == ClosedBefore(s, n, i)
  IN  (to - from) * (bid - s[i].price)
        - (kalshi_fee_cents(to, bid) - kalshi_fee_cents(from, bid))
        - kalshi_fee_cents(to - from, s[i].price)

\* A mistaken split: what stays open forgets what was charged for it.
RemainderFree(s, n, i) ==
  LET closed == ClosedBefore(s, n, i) - ClosedBefore(s, n, i - 1)
  IN  [s[i] EXCEPT !.count = @ - closed, !.fees = IF closed = 0 THEN @ ELSE 0]

Remainder(s, n, i) ==
  LET closed == ClosedBefore(s, n, i) - ClosedBefore(s, n, i - 1)
  IN  IF closed = 0
      THEN s[i]
      ELSE [s[i] EXCEPT !.count = @ - closed,
                        !.fees = Max({0, @ - kalshi_fee_cents(closed, s[i].price)})]

FirstOpen(s, n) == Min({i \in DOMAIN s : n < Held(SubSeq(s, 1, i))} \cup {Len(s) + 1})

_settle_originals(s, n, bid) ==
  /\ ledger' = ledger + Total([i \in DOMAIN s |-> Tranche(s, n, i, bid)])
  /\ lots' = SubSeq([i \in DOMAIN s |-> Remainder(s, n, i)], FirstOpen(s, n), Len(s))

\* The executor reads the book again, and n contracts fill at the bid it finds.
_exit_locked(bid, n) ==
  /\ due # NotDue /\ clock # "closed"
  /\ bid >= MinSell
  /\ n \in 0..Min({Held(due.lots), Held(lots)})
  /\ exits' = exits + 1
  /\ cash' = cash + n * bid - kalshi_fee_cents(n, bid)
  /\ _settle_originals(lots, n, bid)
  /\ due' = NotDue
  /\ UNCHANGED <<holder, peak, clock>>

\* No bid, one below the floor, or a market that has closed meanwhile: no sale.
NotSold ==
  /\ due # NotDue
  /\ due' = NotDue
  /\ UNCHANGED <<holder, lots, peak, clock, exits, cash, ledger>>

Pass ==
  /\ clock # "closed"
  /\ clock' = CASE clock = "early" -> "late" [] clock = "late" -> "closed"
  /\ UNCHANGED <<holder, lots, peak, due, exits, cash, ledger>>

\* The market pays: what is left of each row settles with the fees left on it.
Payout(result) ==
  /\ clock = "closed" /\ lots # <<>> /\ due = NotDue
  /\ ledger' = ledger + Total([i \in DOMAIN lots |->
                  _leg_pnl_cents("buy", "yes", lots[i].price, lots[i].count, lots[i].fees, result)])
  /\ cash' = cash + (IF result = "yes" THEN 100 * Held(lots) ELSE 0)
  /\ lots' = <<>>
  /\ UNCHANGED <<holder, peak, clock, due, exits>>

\* Another market.
Next_market ==
  /\ clock = "closed" /\ lots = <<>> /\ due = NotDue
  /\ clock' = "early" /\ exits' = 0 /\ cash' = 0 /\ ledger' = 0
  /\ UNCHANGED <<holder, lots, peak, due>>

ExitNext ==
  \/ \E count \in LotSizes, price \in LotPrices : Buy(count, price)
  \/ \E bid \in Bids : Look(bid)
  \/ Forget
  \/ \E bid \in Bids, n \in 0..Held(lots) : _exit_locked(bid, n)
  \/ NotSold
  \/ Pass
  \/ \E result \in {"yes", "no"} : Payout(result)
  \/ Next_market

----------------------------------------------------------------------------
\* What n contracts cost that are all of the lots, or of the only one.
PaidFor(s, n) ==
  Total([i \in DOMAIN s |->
           LET sold == IF n < s[i].count THEN n ELSE s[i].count
           IN  sold * s[i].price + kalshi_fee_cents(sold, s[i].price)])

(***************************************************************************)
(* A sale decided by price loses by nothing but the fall of the bid        *)
(* between the tick that decided and the executor, which reads the book    *)
(* again and does not ask the rule again (executor.py:205-227): at the bid *)
(* of the decision or above it, any part of a single lot gains, fees of    *)
(* both orders included, and two lots, whose average is rounded to the     *)
(* cent, at least break even (many small ones may lose a few cents); below *)
(* it a contract misses that by at most two cents per cent of the fall.    *)
(* The rule looks at one contract and the rounded average, the sale at all *)
(* of them, with fees rounded up per order (take_profit.py:52,             *)
(* trailing_stop.py:66).  Two orphans are left out: there the rule looks   *)
(* at the oldest alone (motor_3_clv/engine.py:218-223).                    *)
(***************************************************************************)
ExitsKeepProfit ==
  [][\A bid \in Bids, n \in 1..Held(lots) :
       /\ due.why = "price" /\ _exit_locked(bid, n)
       /\ \/ Len(due.lots) = 1
          \/ Len(due.lots) = 2 /\ holder = "bets" /\ n = Held(due.lots)
       => LET gain == cash' - cash - PaidFor(due.lots, n)
              fall == IF bid < due.bid THEN due.bid - bid ELSE 0
          IN  gain + 2 * (n * fall) > (IF Len(due.lots) = 1 THEN 0 ELSE -1)]_exitVars

(***************************************************************************)
(* The ledger never flatters: through any series of partial sales, splits  *)
(* of rows and the final payout, the PnL it has booked is at most what the *)
(* account gained, the cost still on its open rows set against it, and it  *)
(* falls short by no more than a cent per sale, however many rows the sale *)
(* closes: the rounding of the entry fee of the one row it splits          *)
(* (executor.py:510-560, settlement.py:127).                               *)
(***************************************************************************)
LedgerNeverFlatters ==
  LET onRows == Total([i \in DOMAIN lots |-> lots[i].count * lots[i].price + lots[i].fees])
  IN  ledger - onRows \in (cash - exits)..cash
=============================================================================
