------------------------------ MODULE MCExits ------------------------------
(***************************************************************************)
(* Instances of Exits for TLC.  On market a Motor 2 has a bet and makes    *)
(* another, and Motor 1 an orphan and, in another arb, a hedge; markets b  *)
(* and c hold the legs of a REST arb, and b also a bet.                    *)
(***************************************************************************)
EXTENDS Exits

CONSTANTS a, b, c   \* markets

TheLots   == 1..8
TheOwner  == <<"motor_2", "motor_1", "motor_2", "motor_1", "motor_1",
               "motor_rest", "motor_rest", "motor_2">>
TheTicker == <<a, a, a, a, a, b, c, b>>
TheSide   == <<"yes", "yes", "yes", "yes", "no", "yes", "yes", "yes">>
TheArb    == <<1, 2, 3, 4, 4, 6, 6, 8>>

\* Two executors on the positions of one market, with every answer received.
Both == [engines |-> Engines, orphans |-> TRUE, held |-> <<2, 1, 0, 1, 1, 0, 0, 0>>,
         bets |-> {3}, faults |-> {"partial", "dbwrite"}]

\* One executor, whose sales may go unanswered.
Alone(e) == [engines |-> {e}, orphans |-> TRUE, held |-> <<2, 1, 0, 0, 0, 0, 0, 0>>,
             bets |-> {3}, faults |-> {"lostsell", "partial", "api"}]

\* Arbs that settle, beside exits that are paused and resumed.
Settling == [engines |-> {"m3"}, orphans |-> TRUE, held |-> <<0, 0, 0, 1, 1, 1, 1, 1>>,
             bets |-> {}, faults |-> {"person"}]

\* An executor whose process dies at any moment, and whose database may fail.
Dying == [engines |-> {"m2"}, orphans |-> FALSE, held |-> <<2, 0, 0, 0, 0, 1, 1, 0>>,
          bets |-> {3}, faults |-> {"crash", "partial", "dbwrite"}]

Careful == {Both, Alone("m2"), Alone("m3"), Settling, Dying}

\* Two executors whose sales may go unanswered.
Crossed == {[Both EXCEPT !.faults = {"lostsell"}]}
=============================================================================
