----------------------------- MODULE BookLevels -----------------------------
(***************************************************************************)
(* What the book of one market holds (motor_1_arbitrage/orderbook.py): the *)
(* bids of each side, summed by whole cent, as snapshots and deltas build  *)
(* them from an exchange whose levels are finer than a cent and a contract.*)
(* Sequence numbers, gaps and recoveries are module OrderBookV2; here the  *)
(* messages arrive in order, and what may be wrong is the content of a     *)
(* snapshot: older than its sequence number, by a change that was dropped. *)
(***************************************************************************)
EXTENDS Integers, FiniteSets, FiniteSetsExt, Functions

CONSTANTS
  Levels,    \* bid prices of each side, in tenths of a cent
  Changes,   \* changes of size, in hundredths of a contract
  MaxLevel   \* bound: size of a level

ASSUME BookLevelsAssumption ==
  /\ DOMAIN Levels = {"yes", "no"}
  /\ \A s \in DOMAIN Levels : Levels[s] \subseteq 0..1000
  /\ Changes \subseteq Int /\ MaxLevel \in Nat

BookSides == {"yes", "no"}

VARIABLES
  real,    \* the sizes at the exchange
  book,    \* the sizes by cent, side and cent to size
  state,   \* empty, live or stale
  grace,   \* a snapshot was applied less than the seam grace ago
  lost     \* what the last snapshot lacks: nothing, an add or a removal

bookVars == <<real, book, state, grace, lost>>

\* Python rounds a half to the even cent.
to_cents(tenths) ==
  LET c == tenths \div 10
      r == tenths % 10
  IN  IF r > 5 \/ (r = 5 /\ c % 2 = 1) THEN c + 1 ELSE c

Buckets(s) == {to_cents(p) : p \in Levels[s]}

Bucket(levels, s, c) ==
  SumFunctionOnSet(levels[s], {p \in Levels[s] : to_cents(p) = c})

Summed(levels) == [s \in BookSides |-> [c \in Buckets(s) |-> Bucket(levels, s, c)]]

NoLevels == [s \in BookSides |-> [p \in Levels[s] |-> 0]]

BookInit ==
  /\ real = NoLevels
  /\ book = Summed(NoLevels)
  /\ state = "empty" /\ grace = FALSE /\ lost = "nothing"

----------------------------------------------------------------------------
\* A mistaken snapshot: of the levels of a cent, the last overwrites the others.
apply_snapshot_over(s, p, d) ==
  LET seen == [real EXCEPT ![s][p] = @ - d]
  IN  /\ seen[s][p] >= 0
      /\ book' = [t \in BookSides |-> [c \in Buckets(t) |->
                    seen[t][Max({q \in Levels[t] : to_cents(q) = c})]]]
      /\ state' = "live"
      /\ grace' = TRUE
      /\ lost' = IF d > 0 THEN "add" ELSE IF d < 0 THEN "removal" ELSE "nothing"
      /\ UNCHANGED real

\* A snapshot replaces the book.  Its levels may lack the last change of one.
apply_snapshot(s, p, d) ==
  LET seen == [real EXCEPT ![s][p] = @ - d]
  IN  /\ seen[s][p] >= 0
      /\ book' = Summed(seen)
      /\ state' = "live"
      /\ grace' = TRUE
      /\ lost' = IF d > 0 THEN "add" ELSE IF d < 0 THEN "removal" ELSE "nothing"
      /\ UNCHANGED real

\* A level changes and its delta arrives.  A bucket that would go below zero is
\* emptied within the grace, and quarantines the book after it.
apply_delta(s, p, d) ==
  LET c   == to_cents(p)
      new == book[s][c] + d
  IN  /\ real[s][p] + d \in 0..MaxLevel
      /\ real' = [real EXCEPT ![s][p] = @ + d]
      /\ IF state # "live"
         THEN UNCHANGED <<book, state>>
         ELSE IF new >= 0 \/ grace
         THEN book' = [book EXCEPT ![s][c] = Max({0, new})] /\ UNCHANGED state
         ELSE state' = "stale" /\ UNCHANGED book
      /\ UNCHANGED <<grace, lost>>

GraceEnds ==
  /\ grace
  /\ grace' = FALSE
  /\ UNCHANGED <<real, book, state, lost>>

\* The subscription is lost, or the manager finds a gap.
mark_stale ==
  /\ state = "live"
  /\ state' = "stale"
  /\ UNCHANGED <<real, book, grace, lost>>

clear ==
  /\ state # "empty"
  /\ state' = "empty" /\ book' = Summed(NoLevels) /\ grace' = FALSE /\ lost' = "nothing"
  /\ UNCHANGED real

BookNext ==
  \/ \E s \in BookSides : \E p \in Levels[s], d \in Changes \cup {0} : apply_snapshot(s, p, d)
  \/ \E s \in BookSides : \E p \in Levels[s], d \in Changes : apply_delta(s, p, d)
  \/ GraceEnds
  \/ mark_stale
  \/ clear

----------------------------------------------------------------------------
\* The best bid of at least a whole contract, in whole contracts; the empty set if
\* there is none or the book is not live.
top_of_book(s) ==
  LET operable == {c \in Buckets(s) : book[s][c] >= 100}
  IN  IF state # "live" \/ operable = {}
      THEN {}
      ELSE {[price |-> Max(operable), size |-> book[s][Max(operable)] \div 100]}

\* The two bids the measuring motors are given, when both can be traded at.
_quote_of ==
  {q \in [yes : {t.price : t \in top_of_book("yes")}, no : {t.price : t \in top_of_book("no")}]
     : q.yes \in 1..99 /\ q.no \in 1..99}

(***************************************************************************)
(* A book fed in sequence is the exchange's, cent by cent, and never breaks*)
(* by itself: levels finer than a cent share a bucket, and each removal    *)
(* falls where its adds fell.  After a snapshot that lacks an add it may   *)
(* be short, and clamped to nothing, but it never shows size that is not   *)
(* there; only a lost removal makes phantom size.  What is served as the   *)
(* best bid is then really there in whole contracts (orderbook.py:243-262, *)
(* 398-416, data_capture.py:279).                                          *)
(***************************************************************************)
BookIsReal ==
  /\ state = "live" /\ lost = "nothing" => book = Summed(real)
  /\ state = "live" /\ lost = "add" =>
       \A s \in BookSides : \A c \in Buckets(s) : book[s][c] <= Bucket(real, s, c)
  /\ lost # "removal" =>
       \A q \in _quote_of : /\ Bucket(real, "yes", q.yes) >= 100
                            /\ Bucket(real, "no", q.no) >= 100
=============================================================================
