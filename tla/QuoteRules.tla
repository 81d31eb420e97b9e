----------------------------- MODULE QuoteRules -----------------------------
(***************************************************************************)
(* Motor 5 in shadow mode (motor_5_mm/engine.py without an executor): it   *)
(* keeps one quote in mind per market, sends none, and books the fills the *)
(* quote would have had.  A cohort of runs decides whether it may trade, so*)
(* each run is a row that ends clean only if every interval in which a     *)
(* quote was exposed was observed to its end.  One market, tick by tick.   *)
(***************************************************************************)
EXTENDS ArbMath

CONSTANTS
  Fairs,         \* fair values, in tenths of a cent
  Books,         \* what the order book may show: best bid and ask, and depth
  Multipliers,   \* fee multipliers the exchange may set
  HalfSpread,    \* in cents
  EdgeSkew,      \* in cents
  Size,          \* contracts a side
  MaxInventory,  \* in contracts
  JumpRetreat    \* in cents, 0 for never

ASSUME QuoteRulesAssumption ==
  /\ Fairs \subseteq 1..999
  /\ Books \subseteq [bid : 0..99, ask : 1..100, deep : BOOLEAN]
  /\ \A b \in Books : b.bid < b.ask
  /\ Multipliers \subseteq Nat \ {0}
  /\ {HalfSpread, Size, MaxInventory} \subseteq Nat \ {0}
  /\ {EdgeSkew, JumpRetreat} \subseteq Nat

VARIABLES
  past,     \* every earlier row of the cohort is clean
  run,      \* the row of this run: running or invalid; down between runs
  quote,    \* the live quote, if any: a set of one
  mark,     \* the last mid, in half cents, 0 for none
  net,      \* the inventory in memory
  booked,   \* and in the fills of the cohort
  fee,      \* the multiplier in force
  missed    \* a fill an exposed quote had is in no row

quoteVars == <<past, run, quote, mark, net, booked, fee, missed>>

NoFee  == 0     \* the fee could not be observed
NoSide == 0     \* that side is not quoted

QuoteInit ==
  /\ past = TRUE /\ run = "down" /\ quote = {} /\ mark = 0
  /\ net = 0 /\ booked = 0 /\ fee \in Multipliers /\ missed = FALSE

----------------------------------------------------------------------------
\* The centre of a quote times 10 * MaxInventory: the fair, leaning against the
\* inventory and towards the side the book prices wrong.
Clip(n) == Max({-MaxInventory, Min({n, MaxInventory})})
Unit    == 10 * MaxInventory

Centre(fair, n, b) ==
  LET lean == IF fair * 2 > 10 * (b.bid + b.ask) THEN EdgeSkew
              ELSE IF fair * 2 < 10 * (b.bid + b.ask) THEN -EdgeSkew ELSE 0
  IN  fair * MaxInventory - 10 * HalfSpread * Clip(n) + Unit * lean

Capture(bid, ask, f) ==
  (ask - bid) * Size - kalshi_maker_fee_cents(Size, bid, f, 1) - kalshi_maker_fee_cents(Size, ask, f, 1)

\* A mistaken clamp: to the tick alone, across the book if need be.
Clamped(low, high, b) == [bid |-> Max({1, low}), ask |-> Min({99, high})]

\* Post-only against the book, and clamped to the tick.
PostOnly(low, high, b) ==
  [bid |-> Max({1, Min({low, b.ask - 1})}), ask |-> Min({99, Max({high, b.bid + 1})})]

\* One side at the cap, and both only if a round trip pays.
compute_quote(fair, n, b, f) ==
  LET c    == Centre(fair, n, b)
      low  == (c - Unit * HalfSpread) \div Unit
      high == -((-c - Unit * HalfSpread) \div Unit)
      at   == PostOnly(low, high, b)
      both == [bid |-> at.bid, ask |-> at.ask, fair |-> fair, fee |-> f, seen |-> b]
  IN  IF at.bid >= at.ask THEN {}
      ELSE IF n >= MaxInventory THEN {[both EXCEPT !.bid = NoSide]}
      ELSE IF n <= -MaxInventory THEN {[both EXCEPT !.ask = NoSide]}
      ELSE {q \in {both} : Capture(at.bid, at.ask, f) > 0}

\* What a book does to a quote that was resting: one contract, only if it is
\* strictly through the price and a whole contract deep.
fills_for_quote(q, b) ==
  IF ~b.deep THEN 0
  ELSE IF q.bid # NoSide /\ b.ask < q.bid THEN 1
  ELSE IF q.ask # NoSide /\ b.bid > q.ask THEN -1 ELSE 0

Due(b) == IF quote = {} THEN 0 ELSE fills_for_quote(CHOOSE q \in quote : TRUE, b)

----------------------------------------------------------------------------
\* A mistaken boot: the row is opened and the inventory starts at nothing.
_begin_forgetful ==
  /\ run = "down"
  /\ run' = "running"
  /\ net' = 0
  /\ UNCHANGED <<past, quote, mark, booked, fee, missed>>

\* A row is opened, and the fills of the cohort are replayed.
_begin_experiment_run ==
  /\ run = "down"
  /\ run' = "running"
  /\ net' = booked
  /\ UNCHANGED <<past, quote, mark, booked, fee, missed>>

\* The task or the process ends without closing the row, which stays running or
\* invalid.  The market goes on, and the quote's last interval is lost.
Dies(b) ==
  /\ run' = "down" /\ past' = FALSE /\ quote' = {} /\ mark' = 0 /\ net' = 0
  /\ missed' = (missed \/ Due(b) # 0)
  /\ UNCHANGED <<booked, fee>>

Crash(b) == run # "down" /\ Dies(b)

ChangeFee(f) ==
  /\ f # fee
  /\ fee' = f
  /\ UNCHANGED <<past, run, quote, mark, net, booked, missed>>

\* The interval of the quote ends unobserved: the row is made invalid, for good.
_invalidate_experiment(b) ==
  /\ run' = "invalid"
  /\ missed' = (missed \/ Due(b) # 0)
  /\ UNCHANGED <<net, booked>>

\* It ends against a book: the fill is persisted, then it moves the inventory.
_settle_fills(b) ==
  /\ booked' = booked + Due(b)
  /\ net' = net + Due(b)
  /\ UNCHANGED <<run, missed>>

\* observed is the fee of now, NoFee if it could not be read.
Attributable(observed) == \A q \in quote : q.fee = observed

Ends(b, observed) ==
  IF Attributable(observed) THEN _settle_fills(b) ELSE _invalidate_experiment(b)

_record_mark(b) == mark' = b.bid + b.ask

Jumped(b) ==
  /\ JumpRetreat > 0 /\ mark # 0
  /\ Max({b.bid + b.ask - mark, mark - b.bid - b.ask}) >= 2 * JumpRetreat

\* A mistaken tick: the quote is forgotten and the row stays as it was.
TickBlindForgiving(b) ==
  /\ run # "down"
  /\ mark' = 0 /\ quote' = {}
  /\ missed' = (missed \/ Due(b) # 0)
  /\ UNCHANGED <<past, run, net, booked, fee>>

\* A tick of a market without a usable book.
TickBlind(b) ==
  /\ run # "down"
  /\ mark' = 0 /\ quote' = {}
  /\ IF quote # {} THEN _invalidate_experiment(b) ELSE UNCHANGED <<run, net, booked, missed>>
  /\ UNCHANGED <<past, fee>>

\* A quote whose market left the universe (its fair too old, the game near, the
\* cap of tickers) is observed before it is retired.
TickStale(b, observed) ==
  /\ run # "down" /\ quote # {}
  /\ observed \in {fee, NoFee}
  /\ _record_mark(b)
  /\ Ends(b, observed)
  /\ quote' = {}
  /\ UNCHANGED <<past, fee>>

\* A fair of unknown origin, which never quotes.
TickUnproven(b) ==
  /\ run # "down"
  /\ _record_mark(b) /\ quote' = {}
  /\ IF quote # {} THEN _invalidate_experiment(b) ELSE UNCHANGED <<run, net, booked, missed>>
  /\ UNCHANGED <<past, fee>>

\* A tick with everything: the previous quote is settled, then the next is made,
\* unless the fair aged meanwhile, the market jumped or there is none to make.
Tick(b, observed, fair, eligible) ==
  /\ run # "down"
  /\ observed \in {fee, NoFee}
  /\ _record_mark(b)
  /\ Ends(b, observed)
  /\ quote' = IF \/ observed = NoFee \/ ~Attributable(observed)
                 \/ ~eligible \/ Jumped(b)
              THEN {}
              ELSE compute_quote(fair, net', b, observed)
  /\ UNCHANGED <<past, fee>>

\* The fill cannot be persisted: fatal.
Unpersisted(b) == run # "down" /\ Due(b) # 0 /\ Dies(b)

\* Shutdown: the last interval is observed, and a row still running ends clean.
\* The fee may come from the cache, as it was when the quote was made.
_finalize_shadow_exposure(b, readable, observed) ==
  /\ run # "down"
  /\ observed \in {fee, NoFee} \cup {q.fee : q \in quote}
  /\ IF readable /\ Attributable(observed)
     THEN /\ booked' = booked + Due(b)
          /\ past' = (past /\ run = "running")
          /\ UNCHANGED missed
     ELSE /\ missed' = (missed \/ Due(b) # 0)
          /\ past' = (past /\ run = "running" /\ quote = {})
          /\ UNCHANGED booked
  /\ run' = "down" /\ net' = 0 /\ quote' = {} /\ mark' = 0
  /\ UNCHANGED fee

QuoteNext ==
  \/ _begin_experiment_run
  \/ \E f \in Multipliers : ChangeFee(f)
  \/ \E b \in Books :
       \/ Crash(b)
       \/ TickBlind(b)
       \/ TickUnproven(b)
       \/ Unpersisted(b)
       \/ \E observed \in Multipliers \cup {NoFee} :
            \/ TickStale(b, observed)
            \/ \E fair \in Fairs, eligible \in BOOLEAN : Tick(b, observed, fair, eligible)
            \/ \E readable \in BOOLEAN : _finalize_shadow_exposure(b, readable, observed)

QuoteSpec == QuoteInit /\ [][QuoteNext]_quoteVars

----------------------------------------------------------------------------
(***************************************************************************)
(* A cohort the gate accepts, every row of it clean, missed no fill: each  *)
(* interval of each quote, to the last before a shutdown, was closed       *)
(* against a book that was read and at a fee that had not moved, and what  *)
(* it showed is in the ledger (engine.py:250-332, 471-551, 624-664).       *)
(***************************************************************************)
CleanTellsAll == past /\ run # "invalid" => ~missed

\* Across fills, ticks and restarts the cohort never holds more than the cap: a
\* run that forgot the fills of the one before would quote the full side again
\* (engine.py:379, quoter.py:83-88).
ShadowCap == booked \in -MaxInventory..MaxInventory

(***************************************************************************)
(* Whatever the inventory, the skew and the clamps do to it, a quote rests:*)
(* it is strictly inside the market it was computed on and gives away no   *)
(* more of the fair than the edge skew allows.  The extreme cents are left *)
(* out, where the clamp to 1..99 comes last and may touch the other side   *)
(* (quoter.py:64-82).                                                      *)
(***************************************************************************)
QuoteRests ==
  \A q \in quote :
    /\ q.bid \notin {NoSide, 1}  => q.bid < q.seen.ask /\ 10 * q.bid <= q.fair + 10 * EdgeSkew
    /\ q.ask \notin {NoSide, 99} => q.ask > q.seen.bid /\ 10 * q.ask >= q.fair - 10 * EdgeSkew
=============================================================================
