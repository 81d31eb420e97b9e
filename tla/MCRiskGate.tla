----------------------------- MODULE MCRiskGate -----------------------------
(* Instances of RiskGate for TLC. *)
EXTENDS RiskGate

MCPrice == [m \in Motors |-> IF m \in Arbs THEN 4 ELSE 9]
MCStop  == [w \in Experiment |-> IF w = "total" THEN 8 ELSE 5]

Slots_of(a, b, c, d) == [m \in Motors |-> CASE m = "m1" -> a [] m = "rest" -> b
                                            [] m = "m2" -> c [] m = "m5" -> d]
Losses(d, w, m) ==
  [x \in Calendar |-> [pct |-> 0, floor |-> CASE x = "day" -> d [] x = "week" -> w [] OTHER -> m]]

\* Three motors share a cap of 20, all of which a trade may take.
General ==
  [ slots |-> Slots_of(1, 0, 1, 1), offer |-> 2, turns |-> {}, faults |-> {},
    balances |-> Balances,
    experiment |-> FALSE, dynamic |-> FALSE, soft |-> TRUE, gated |-> FALSE,
    onPaper |-> FALSE, active |-> 100, cap |-> 100, floor |-> 95, safety |-> 100,
    smoothing |-> 5, exposure |-> 20, trade |-> 20, tradeMax |-> 20,
    loss |-> Losses(20, 40, 60), latent |-> [pct |-> 0, floor |-> 9] ]
\* The two motors that write late, and Motor 2.
Arbitrages == [General EXCEPT !.slots = Slots_of(1, 1, 1, 0)]
\* Quotes under a capital that moves.
Quotes ==
  [ General EXCEPT !.slots = Slots_of(1, 0, 0, 1), !.dynamic = TRUE, !.faults = {"restart"} ]
\* Motor 1 alone in the experiment.
Bank ==
  [ General EXCEPT !.slots = Slots_of(3, 0, 0, 0), !.offer = 1, !.experiment = TRUE,
                   !.dynamic = TRUE, !.smoothing = 0, !.balances = {100} ]
\* Motor 2 alone, with the rolling window, the loss on paper and every pause.
Losing ==
  [ General EXCEPT !.slots = Slots_of(0, 0, 3, 0), !.gated = TRUE, !.onPaper = TRUE,
                   !.loss = Losses(9, 18, 27), !.faults = {"others", "restart"},
                   !.turns = { {"day"}, {"day", "week"}, {"day", "month"}, {"rolling"} } ]
MCProfiles == {General, Arbitrages, Quotes, Bank, Losing}
=============================================================================
