------------------------------ MODULE MCRules ------------------------------
(***************************************************************************)
(* The modules of the calculations, one at a time: a behaviour is one of   *)
(* the part it starts with, and the others stay at their initial values.   *)
(***************************************************************************)
EXTENDS RestEngine, ExitRules, BookLevels, QuoteRules, Consensus, TLC

CONSTANTS x, y, z, b   \* markets: the outcomes of an event, and a binary one

VARIABLE part

vars == <<part, engineVars, exitVars, bookVars, quoteVars, betVars>>

Parts == {"engine", "exits", "book", "quotes", "bets"}

Init ==
  /\ part \in Parts
  /\ EngineInit /\ ExitInit /\ BookInit /\ QuoteInit /\ ConsensusInit
  /\ part # "exits" => holder = "bets"
  /\ part # "quotes" => fee = 1
  /\ part # "bets" => sizing = [stake |-> 0, feeAtStake |-> FALSE]

Next ==
  /\ UNCHANGED part
  /\ part # "engine" => UNCHANGED engineVars
  /\ part # "exits"  => UNCHANGED exitVars
  /\ part # "book"   => UNCHANGED bookVars
  /\ part # "quotes" => UNCHANGED quoteVars
  /\ part # "bets"   => UNCHANGED betVars
  /\ \/ part = "engine" /\ EngineNext
     \/ part = "exits"  /\ ExitNext
     \/ part = "book"   /\ BookNext
     \/ part = "quotes" /\ QuoteNext
     \/ part = "bets"   /\ ConsensusNext

Spec == Init /\ [][Next]_vars

TheEvents == (x :> "e") @@ (y :> "e") @@ (z :> "e") @@ (b :> "f")

\* Asks of 31 and 32 cents leave an edge that the fees of a few contracts eat.
\* 31.5 and 64.5 are rounded, half a contract is nothing, one market crosses itself.
Seen(m, bid, ask, bid_size, ask_size) ==
  [market |-> m, bid |-> bid, ask |-> ask, bid_size |-> bid_size, ask_size |-> ask_size]

TheTicks ==
  {Seen(x, 0, ask, 0, size) : ask \in {310, 315}, size \in {250, 1000}}
  \cup {Seen(y, 0, 310, 0, size) : size \in {50, 1000}}
  \cup {Seen(z, 0, 315, 0, 1000), Seen(z, 400, 310, 150, 1000), Seen(z, 400, 310, 400, 1000)}
  \cup {Seen(b, bid, 600, 350, 1000) : bid \in {645, 655, 900}}

\* 39.5 and 40.5 share a cent with nobody's help; half a contract does not count.
TheLevels  == ("yes" :> {395, 405}) @@ ("no" :> {550})
TheChanges == {-100, -50, 50}

\* Books that cross a quote of either side, jump, or leave no room at the first cent.
TheBooks ==
  {[bid |-> x_, ask |-> x_ + 3, deep |-> d] : x_ \in {38, 44, 50}, d \in BOOLEAN}
    \cup {[bid |-> 0, ask |-> 1, deep |-> TRUE]}

\* Two games of the same teams in a day, one the next, and another of the first day.
Of(names, day, start) == [names |-> names, sport |-> "mlb", day |-> day, hour |-> start]
Home == {"sox", "cubs"}
Away == {"mets", "reds"}

TheGames  == ("g1" :> Of(Home, 1, 13)) @@ ("g2" :> Of(Home, 1, 19))
             @@ ("g3" :> Of(Home, 2, 13)) @@ ("g4" :> Of(Away, 1, 13))
TheKeys == ("e1" :> Of(Home, 1, 13)) @@ ("e2" :> Of(Home, 1, 19)) @@ ("e3" :> Of(Home, 2, 0))
TheGameOf == ("e1" :> "g1") @@ ("e2" :> "g2") @@ ("e3" :> "g3")

\* Three books, the last of them soft, stale or with other outcomes.
Offer(sox, cubs) == ("sox" :> sox) @@ ("cubs" :> cubs)
Panel(last) ==
  [k \in {1, 2} |-> [implied |-> Offer(500 + 20 * k, 520), fresh |-> TRUE, complete |-> TRUE]]
    @@ (3 :> last)
ThePanels ==
  {Panel([implied |-> Offer(800, 250), fresh |-> f, complete |-> c])
     : <<f, c>> \in {<<TRUE, TRUE>>, <<TRUE, FALSE>>, <<FALSE, TRUE>>}}

TheQuotes == {[yes |-> 38, no |-> 65], [yes |-> 44, no |-> 58], [yes |-> 58, no |-> 44]}
=============================================================================
