--------------------------- MODULE MotorOneProofs ---------------------------
(***************************************************************************)
(* Proofs about MotorOne, for every number of markets, contracts, tries,   *)
(* attempts and crashes, every limit and every set of faults, but for the  *)
(* faults a theorem names.                                                 *)
(*                                                                         *)
(* First the brakes: the breaker, the kill-switch and who lifts a pause.   *)
(* Most steps leave them alone and only move the execution task along, so  *)
(* a step is either Quiet or one of the actions proved one by one.  Then   *)
(* the ledger: the row behind every contract held.  Then the orphans: the  *)
(* pause an abandoned leg sets stays until the table shows its market flat.*)
(***************************************************************************)
EXTENDS MotorOne, Sums

brakes == <<clean, aborts, aborts24, resumes, ks, excused, forgotten, pause, standing, process>>

Sending == {"balance", "hard", "cheap"}

Quiet ==
  /\ UNCHANGED brakes
  /\ \/ pc' = pc
     \/ pc # "down" /\ pc' \in {"idle", "task", "sell"}
     \/ pc \in {"balance", "hard"} /\ pc' \in {"hard", "cheap"}

Counters == clean \in Nat /\ aborts \in Nat /\ aborts24 \in Nat /\ resumes \in Nat

\* A window full of rollbacks keeps the pause, unless a restart or the operator
\* lifted it; the process has no pause while it is down.
BreakerInv ==
  /\ CountClean /\ clean >= Threshold /\ ~forgotten => pause # "none"
  /\ pc = "down" => pause = "none"

\* One abort too many, persisted, has engaged the kill-switch and paused the
\* process for it.
EscalateInv == ~excused /\ aborts24 >= EscalateCount => ks /\ ~unheard

\* With no pause in the middle of an attempt: while the kill-switch, or a pause
\* set by others, stands the process is paused for it, and no leg is going out;
\* unless the script persisted the kill-switch and the process has not heard.
\* A leg going out is what lets a rollback overwrite the pause with its own.
OthersInv ==
  /\ ks /\ ~unheard /\ pc # "down" => pause = "other"
  /\ "other" \in standing /\ pc # "down" => pause = "other"
  /\ pause = "other" => "other" \in standing
  /\ pc \in Sending => (ks => unheard) /\ "other" \notin standing
  /\ standing \subseteq {"breaker", "other"}

Orderly == "midway" \notin Faults /\ "bootread" \notin Faults

\* A step that sends no attempt out and resumes nothing by itself.
Tame == ~Approved /\ resumes' <= resumes

BrakeInv ==
  /\ Counters
  /\ BreakerInv
  /\ EscalateInv
  /\ Orderly => OthersInv

-----------------------------------------------------------------------------
(* The quiet steps *)

\* The steps that touch no brake: detection, intents, answers, sells, the poller's.
LEMMA QuietSteps ==
  ASSUME \/ Engine \/ LocallyPaused \/ BalanceShort \/ PersistIntents
         \/ HardKilled \/ HardFilled \/ CheapFilled \/ NoBid \/ SoldUnanswered
         \/ \E n \in {0, Count} : HardInDoubt(n)
         \/ \E n \in 1..Count : Sold(n)
         \/ GracePasses \/ Sync
         \/ \E k \in Keys : SellOrphan(k)
         \/ UNCHANGED vars
  PROVE  Quiet
<1> USE DEF Quiet, brakes, ledger, exchange, rolling, process
<1>1. CASE Engine
  <2>1. ASSUME NEW t \in Tickers, NEW crossed \in BOOLEAN, NEW fit \in BOOLEAN,
               Tick(t, crossed, fit)
        PROVE  Quiet
    BY <2>1 DEF Tick
  <2>2. ASSUME NEW t \in Tickers, CoolsOff(t) PROVE Quiet
    BY <2>2 DEF CoolsOff
  <2>3. CASE CrossDied
    BY <2>3 DEF CrossDied, Left
  <2> QED BY <1>1, <2>1, <2>2, <2>3 DEF Engine
<1>2. CASE LocallyPaused
  BY <1>2 DEF LocallyPaused, Failed
<1>3. CASE BalanceShort
  BY <1>3 DEF BalanceShort, Failed
<1>4. CASE PersistIntents
  BY <1>4 DEF PersistIntents, GoesTo, Left
<1>5. CASE HardKilled
  BY <1>5 DEF HardKilled, Failed, Left
<1>6. CASE HardFilled
  BY <1>6 DEF HardFilled, GoesTo, Left
<1>7. CASE CheapFilled
  BY <1>7 DEF CheapFilled, Left
<1>8. CASE NoBid
  BY <1>8 DEF NoBid, NextSale, GoesTo, Failed
<1>9. CASE SoldUnanswered
  BY <1>9 DEF SoldUnanswered, NextSale, GoesTo, Failed
<1>10. ASSUME NEW n \in {0, Count}, HardInDoubt(n) PROVE Quiet
  BY <1>10 DEF HardInDoubt, Failed
<1>11. ASSUME NEW n \in 1..Count, Sold(n) PROVE Quiet
  BY <1>11 DEF Sold, NextSale, GoesTo, Failed
<1>12. CASE GracePasses
  BY <1>12 DEF GracePasses, engine
<1>13. CASE Sync
  BY <1>13 DEF Sync, engine
<1>14. ASSUME NEW k \in Keys, SellOrphan(k) PROVE Quiet
  BY <1>14 DEF SellOrphan, engine
<1>15. CASE UNCHANGED vars
  BY <1>15 DEF vars, engine
<1> QED
  BY <1>1, <1>2, <1>3, <1>4, <1>5, <1>6, <1>7, <1>8, <1>9, <1>10, <1>11, <1>12, <1>13,
     <1>14, <1>15

\* A step of that kind keeps every brake where it is.
LEMMA QuietKeeps == ASSUME BrakeInv, Quiet PROVE BrakeInv' /\ Tame
BY DEF BrakeInv, Counters, BreakerInv, EscalateInv, OthersInv, Orderly, Quiet, brakes, Sending,
       Tame, Approved, process

-----------------------------------------------------------------------------
(* The others, one by one *)

\* The start of a rollback: the event is in the window it is counted in.
LEMMA RollbackKeeps ==
  ASSUME BrakeInv, pc \in {"hard", "cheap"},
         NEW legs, NEW n, StartRollback(legs, n),
         UNCHANGED <<aborts, aborts24, ks, resumes, process, excused, forgotten>>
  PROVE  BrakeInv' /\ Tame
<1> USE DEF process
<1>1. Counters'
  BY BoundsAssumption
  DEF BrakeInv, Counters, StartRollback, BreakerTrips, Counted, GoesTo, Left
<1>2. BreakerInv'
  BY BoundsAssumption
  DEF BrakeInv, Counters, BreakerInv, StartRollback, BreakerTrips, Counted, GoesTo, Left
<1>3. EscalateInv'
  BY BoundsAssumption
  DEF BrakeInv, Counters, EscalateInv, StartRollback, BreakerTrips, Counted, GoesTo, Left
<1>4. ASSUME Orderly PROVE OthersInv'
  BY <1>4
  DEF BrakeInv, Counters, OthersInv, Orderly, Sending, StartRollback, BreakerTrips, Counted, GoesTo, Left
<1>5. Tame
  BY DEF BrakeInv, Counters, Tame, Approved, StartRollback, BreakerTrips, Counted, GoesTo, Left
<1> QED BY <1>1, <1>2, <1>3, <1>4, <1>5 DEF BrakeInv, Orderly

\* The release of the motor's own pause and of the breaker's.
LEMMA EntersKeeps ==
  ASSUME BrakeInv, NEW ok \in BOOLEAN, Enters(ok), pc' \in {"balance", "idle"},
         pc' = "balance" => ok
  PROVE  BrakeInv'
<1> USE DEF Enters, ledger, process
<1>1. Counters'
  BY BoundsAssumption DEF BrakeInv, Counters, AutoResumes
<1>2. BreakerInv'
  BY BoundsAssumption DEF BrakeInv, Counters, BreakerInv, AutoResumes, Counted
<1>3. EscalateInv'
  BY DEF BrakeInv, EscalateInv
<1>4. ASSUME Orderly PROVE OthersInv'
  BY <1>4 DEF BrakeInv, OthersInv, AutoResumes, Sending
<1> QED BY <1>1, <1>2, <1>3, <1>4 DEF BrakeInv, Orderly

\* An abandoned sale: the event and the kill-switch, or an excuse.
LEMMA AbortKeeps == ASSUME BrakeInv, Abort PROVE BrakeInv' /\ Tame
<1>1. /\ pc = "sell" /\ pc' \in {"idle", "sell"}
      /\ UNCHANGED <<clean, resumes, forgotten>>
  BY DEF Abort, NextSale, GoesTo, Failed
<1>2. IF LocalOnly THEN UNCHANGED <<pause, standing>>
      ELSE pause' = "other" /\ standing' = standing \union {"other"}
  BY DEF Abort
<1>3. IF LocalOnly THEN unheard' <=> unheard ELSE ~unheard'
  BY DEF Abort
<1>4. \/ /\ aborts' = aborts + 1 /\ aborts24' = aborts24 + 1
         /\ IF LocalOnly THEN ks' <=> ks ELSE ks'
         /\ UNCHANGED excused
      \/ excused' /\ UNCHANGED ks /\ UNCHANGED <<aborts, aborts24>>
      \/ excused' /\ UNCHANGED ks /\ aborts' = aborts + 1 /\ aborts24' = aborts24 + 1
  BY DEF Abort, PersistAbort
<1>5. LocalOnly => aborts24 + 1 < EscalateCount
  BY DEF LocalOnly
<1>6. Counters'
  BY <1>1, <1>4 DEF BrakeInv, Counters
<1>7. BreakerInv'
  BY <1>1, <1>2 DEF BrakeInv, BreakerInv
<1>8. EscalateInv'
  <2>1. CASE LocalOnly
    BY <1>3, <1>4, <1>5, <2>1, BoundsAssumption DEF BrakeInv, Counters, EscalateInv
  <2>2. CASE ~LocalOnly
    BY <1>3, <1>4, <2>2 DEF EscalateInv
  <2> QED BY <2>1, <2>2
<1>9. ASSUME Orderly PROVE OthersInv'
  <2>1. CASE LocalOnly
    BY <1>1, <1>2, <1>3, <1>4, <1>9, <2>1 DEF BrakeInv, OthersInv, Sending
  <2>2. CASE ~LocalOnly
    BY <1>1, <1>2, <1>3, <1>9, <2>2 DEF BrakeInv, OthersInv, Sending
  <2> QED BY <2>1, <2>2
<1>10. Tame
  BY <1>1 DEF BrakeInv, Counters, Tame, Approved
<1> QED BY <1>6, <1>7, <1>8, <1>9, <1>10 DEF BrakeInv, Orderly

\* The windows empty from their old end.
LEMMA ClockKeeps ==
  ASSUME BrakeInv,
         DayPasses \/ \E c \in 0..(clean - 1), a \in 0..aborts : WindowMoves(c, a)
  PROVE  BrakeInv' /\ Tame
<1>1. CASE DayPasses
  BY <1>1, BoundsAssumption
  DEF BrakeInv, Counters, BreakerInv, EscalateInv, OthersInv, Sending, Tame, Approved, DayPasses, engine,
      process
<1>2. ASSUME NEW c \in 0..(clean - 1), NEW a \in 0..aborts, WindowMoves(c, a)
      PROVE  BrakeInv' /\ Tame
  BY <1>2, BoundsAssumption
  DEF BrakeInv, Counters, BreakerInv, EscalateInv, OthersInv, Sending, Tame, Approved, WindowMoves,
      engine, process
<1> QED BY <1>1, <1>2

\* A pause set by others, between two attempts or with the fault that allows it.
LEMMA PauseKeeps ==
  ASSUME BrakeInv, WatchdogPauses \/ AdminPause \/ EngageKillSwitch \/ ScriptPauses
  PROVE  BrakeInv' /\ Tame
BY DEF BrakeInv, Counters, BreakerInv, EscalateInv, OthersInv, Orderly, Sending, Tame, Approved,
       WatchdogPauses, AdminPause, EngageKillSwitch, ScriptPauses, Others, engine

\* The script writes the row under a process that does not notice.
LEMMA ScriptKeeps == ASSUME BrakeInv, ScriptPersists PROVE BrakeInv' /\ Tame
<1>1. /\ ~ks /\ ks' /\ unheard' = (pc # "down" /\ pause # "other")
      /\ UNCHANGED <<clean, aborts, aborts24, resumes, excused, forgotten, pause, standing, pc>>
  BY DEF ScriptPersists, engine
<1>2. Counters' /\ BreakerInv' /\ Tame
  BY <1>1 DEF BrakeInv, Counters, BreakerInv, Tame, Approved
<1>3. EscalateInv'
  BY <1>1 DEF BrakeInv, EscalateInv
<1>4. ASSUME Orderly PROVE OthersInv'
  BY <1>1, <1>4 DEF BrakeInv, OthersInv, Sending
<1> QED BY <1>2, <1>3, <1>4 DEF BrakeInv, Orderly

\* So does what the operator may do from the console.
LEMMA OperatorKeeps ==
  ASSUME BrakeInv, AdminResume \/ ClearKillSwitch
  PROVE  BrakeInv' /\ Tame
<1>1. Counters'
  BY BoundsAssumption
  DEF BrakeInv, Counters, AdminResume, ClearKillSwitch, engine, ledger, process
<1>2. BreakerInv'
  BY BoundsAssumption
  DEF BrakeInv, Counters, BreakerInv, AdminResume, ClearKillSwitch, engine, ledger, process
<1>3. EscalateInv'
  BY BoundsAssumption
  DEF BrakeInv, Counters, EscalateInv, AdminResume, ClearKillSwitch, engine, ledger, process
<1>4. ASSUME Orderly PROVE OthersInv'
  BY <1>4
  DEF BrakeInv, Counters, OthersInv, Orderly, Sending, AdminResume, ClearKillSwitch, engine, ledger, process
<1>5. Tame
  BY DEF BrakeInv, Counters, Tame, Approved, AdminResume, ClearKillSwitch, engine, ledger, process
<1> QED BY <1>1, <1>2, <1>3, <1>4, <1>5 DEF BrakeInv, Orderly

\* The pause is lost with the process, and the kill-switch read again.
LEMMA RestartKeeps ==
  ASSUME BrakeInv, Crash \/ \E old \in SUBSET Keys : Boot(old)
  PROVE  BrakeInv' /\ Tame
<1>1. CASE Crash
  BY <1>1, BoundsAssumption
  DEF BrakeInv, Counters, BreakerInv, EscalateInv, OthersInv, Orderly, Sending, Tame, Approved,
      Crash, ledger
<1>2. CASE \E old \in SUBSET Keys : Boot(old)
  BY <1>2
  DEF BrakeInv, Counters, BreakerInv, EscalateInv, OthersInv, Orderly, Sending, Tame, Approved,
      Boot, GoesTo, Rehydrated, process
<1> QED BY <1>1, <1>2

\* A step keeps the invariant, and only Approve sends an attempt out.
LEMMA BrakesKept ==
  ASSUME BrakeInv, [Next]_vars
  PROVE  BrakeInv' /\ (Approve \/ Reject \/ Tame)
<1>1. CASE Engine \/ UNCHANGED vars
  BY <1>1, QuietSteps, QuietKeeps
<1>2. CASE Executor
  <2>1. CASE \/ LocallyPaused \/ BalanceShort \/ PersistIntents
             \/ HardKilled \/ HardFilled \/ CheapFilled \/ NoBid \/ SoldUnanswered
             \/ \E n \in {0, Count} : HardInDoubt(n)
             \/ \E n \in 1..Count : Sold(n)
    BY <2>1, QuietSteps, QuietKeeps
  <2>2. CASE Approve
    BY <2>2, EntersKeeps DEF Approve, GoesTo
  <2>3. CASE Reject
    BY <2>3, EntersKeeps DEF Reject, Failed
  <2>4. CASE CheapKilled
    <3>1. CASE StartRollback({"hard"}, Count)
      BY <2>4, <3>1, RollbackKeeps DEF CheapKilled, process
    <3>2. CASE DbFails /\ Left /\ UNCHANGED <<row, clean, pause, standing, rolling>>
      <4>1. Quiet
        BY <2>4, <3>2 DEF CheapKilled, Quiet, brakes, Left, ledger, process
      <4> QED BY <4>1, QuietKeeps
    <3> QED BY <2>4, <3>1, <3>2 DEF CheapKilled
  <2>5. ASSUME NEW n \in {0, Count}, CheapInDoubt(n) PROVE BrakeInv' /\ Tame
    BY <2>5, RollbackKeeps DEF CheapInDoubt, ledger
  <2>6. ASSUME NEW n \in 1..Count, HardShort(n) PROVE BrakeInv' /\ Tame
    BY <2>6, RollbackKeeps DEF HardShort
  <2>7. ASSUME NEW n \in 1..Count, CheapShort(n) PROVE BrakeInv' /\ Tame
    BY <2>7, RollbackKeeps DEF CheapShort
  <2>8. CASE Abort
    BY <2>8, AbortKeeps
  <2> QED BY <1>2, <2>1, <2>2, <2>3, <2>4, <2>5, <2>6, <2>7, <2>8 DEF Executor
<1>3. CASE Clock
  <2>1. CASE GracePasses
    BY <2>1, QuietSteps, QuietKeeps
  <2> QED BY <1>3, <2>1, ClockKeeps DEF Clock
<1>4. CASE Surroundings
  <2>1. CASE Sync \/ \E k \in Keys : SellOrphan(k)
    BY <2>1, QuietSteps, QuietKeeps
  <2> QED BY <1>4, <2>1, PauseKeeps, ScriptKeeps, OperatorKeeps, RestartKeeps DEF Surroundings
<1> QED BY <1>1, <1>2, <1>3, <1>4 DEF Next

\* Every brake is off at the first start.
LEMMA BrakesInitially == Init => BrakeInv
BY BoundsAssumption
DEF Init, BrakeInv, Counters, BreakerInv, EscalateInv, OthersInv, Sending

\* The brakes of every behaviour.
LEMMA AlwaysBraked == Spec => [](BrakeInv)
<1>1. BrakeInv /\ [Next]_vars => BrakeInv'
  BY BrakesKept
<1> QED BY <1>1, BrakesInitially, PTL DEF Spec

-----------------------------------------------------------------------------
(* What the brakes promise *)

\* An approval leaves the process without a pause, so nothing that demands one
\* stands.
LEMMA Approval ==
  ASSUME BrakeInv, Approved, [Next]_vars
  PROVE  /\ CountClean /\ ~forgotten => clean < Threshold
         /\ Orderly => ~ks \/ unheard
         /\ Orderly /\ ~excused => aborts24 < EscalateCount
<1>1. BrakeInv' /\ Approve
  BY BrakesKept DEF Tame, Reject, Failed, Approved
<1>2. pause' = "none" /\ pc' = "balance" /\ UNCHANGED <<clean, forgotten, ks, unheard>>
  BY <1>1 DEF Approve, Enters, GoesTo, ledger, process
<1>3. CountClean /\ ~forgotten => clean < Threshold
  BY <1>1, <1>2, BoundsAssumption DEF BrakeInv, Counters, BreakerInv
<1>4. Orderly => ~ks \/ unheard
  BY <1>1, <1>2 DEF BrakeInv, OthersInv
<1>5. Orderly /\ ~excused => aborts24 < EscalateCount
  BY <1>4, BoundsAssumption DEF BrakeInv, Counters, EscalateInv
<1> QED BY <1>3, <1>4, <1>5

\* With as many rollbacks in the window as the threshold no attempt is approved,
\* whatever fails (_check_circuit_breaker, _maybe_auto_resume).
THEOREM BreakerAlwaysHolds == Spec => BreakerHolds
<1>1. BrakeInv /\ [Next]_vars => [Approved /\ CountClean /\ ~forgotten => clean < Threshold]_vars
  BY Approval
<1> QED BY <1>1, AlwaysBraked, PTL DEF Spec, BreakerHolds

\* Where pauses do not come in the middle of an attempt and the boot can read the
\* kill-switch, no attempt is approved with it engaged (_rehydrate_kill_switch,
\* is_paused), through crashes, resumes and every other fault; except in a process
\* under which engage_kill_switch.py persisted it and that no pause has reached.
THEOREM KillSwitchAlwaysBlocks ==
  ASSUME Orderly
  PROVE  Spec => KillSwitchBlocks
<1>1. BrakeInv /\ [Next]_vars => [Approved => ~ks \/ unheard]_vars
  BY Approval, Orderly
<1> QED BY <1>1, AlwaysBraked, PTL DEF Spec, KillSwitchBlocks

\* There too the automatic resume lifts the breaker's pause and no other
\* (_maybe_auto_resume).
THEOREM NobodyElseIsLifted ==
  ASSUME Orderly
  PROVE  Spec => OnlyTheBreakerLifts
<1>1. ASSUME BrakeInv, [Next]_vars, resumes' > resumes
      PROVE  standing \subseteq {"breaker"}
  <2>1. Approve \/ Reject
    BY <1>1, BrakesKept DEF Tame, BrakeInv, Counters
  <2>2. pc = "task" /\ (AutoResumes \/ UNCHANGED resumes)
    BY <2>1 DEF Approve, Reject, Enters
  <2>3. pause = "breaker"
    BY <1>1, <2>2 DEF AutoResumes, BrakeInv, Counters
  <2> QED BY <1>1, <2>2, <2>3, Orderly DEF BrakeInv, OthersInv
<1>2. BrakeInv /\ [Next]_vars => [resumes' > resumes => standing \subseteq {"breaker"}]_vars
  BY <1>1
<1> QED BY <1>2, AlwaysBraked, PTL DEF Spec, OnlyTheBreakerLifts

\* There too as many abandoned sales in 24 hours as the limit stop every attempt
\* (_pause_on_aborted_rollback), as long as the events reached the database.
THEOREM RepetitionAlwaysEscalates ==
  ASSUME Orderly
  PROVE  Spec => RepeatedOrphansEscalate
<1>1. BrakeInv /\ [Next]_vars => [Approved /\ ~excused => aborts24 < EscalateCount]_vars
  BY Approval, Orderly
<1> QED BY <1>1, AlwaysBraked, PTL DEF Spec, RepeatedOrphansEscalate

-----------------------------------------------------------------------------
(* What is held is on a row that counts *)

\* The rows and the fills of the legs not sent, or in flight.
Sent ==
  /\ att \in 0..MaxAttempts
  /\ pc \in {"hard", "cheap", "sell"} => att \in Attempts
  /\ \A k \in Keys : k[1] > att => fill[k] = 0
  /\ pc = "hard" => row[Key("hard")] = [st |-> "pending", n |-> Count] /\ fill[Key("hard")] = 0
  /\ pc \in {"hard", "cheap"} =>
       row[Key("cheap")] = [st |-> "pending", n |-> Count] /\ fill[Key("cheap")] = 0

SaleOK == sale \in [leg : Legs, tries : Nat, left : Nat]

LedgerInv == RowsOK /\ HeldOK /\ Sent /\ SaleOK /\ HeldIsVisible

\* One key's part of RowsOK, HeldOK and HeldIsVisible.
Backed(r, f, s) ==
  /\ r \in Row /\ f \in 0..Count /\ s \in Nat
  /\ f - s <= (IF r.st \in {"pending", "filled"} THEN r.n ELSE 0)

\* A key is an attempt and a leg.
LEMMA KeyTyped ==
  /\ \A x \in Attempts, l \in Legs : <<x, l>> \in Keys
  /\ \A k \in Keys : k[1] \in Attempts /\ k[2] \in Legs /\ k = <<k[1], k[2]>>
BY DEF Keys

\* A row is a status and a count.
LEMMA RowTyped ==
  /\ \A st \in RowStatus, n \in 0..Count : [st |-> st, n |-> n] \in Row
  /\ \A r \in Row : r.st \in RowStatus /\ r.n \in 0..Count
BY DEF Row

\* The invariant of the ledger, for one key.
LEMMA InvIsBacked ==
  ASSUME LedgerInv, NEW k \in Keys
  PROVE  Backed(row[k], fill[k], sold[k])
BY DEF LedgerInv, RowsOK, HeldOK, HeldIsVisible, Held, Visible, Backed

\* What is left to prove of a step: its functions, key by key.
LEMMA BackedIsInv ==
  ASSUME NEW R, NEW F, NEW S,
         row' = [k \in Keys |-> R[k]], fill' = [k \in Keys |-> F[k]],
         sold' = [k \in Keys |-> S[k]],
         \A k \in Keys : Backed(R[k], F[k], S[k])
  PROVE  RowsOK' /\ HeldOK' /\ HeldIsVisible'
<1>1. RowsOK' /\ HeldOK'
  BY DEF RowsOK, HeldOK, Backed
<1>2. ASSUME NEW k \in Keys PROVE Held(k)' <= Visible(k)'
  BY <1>2 DEF Held, Visible, Backed
<1> QED BY <1>1, <1>2 DEF HeldIsVisible

\* _settle_rollback_fill: a sale of m contracts takes m off the row, or fewer
\* when the row has fewer.
LEMMA SaleIsBacked ==
  ASSUME NEW r, NEW f, NEW s, Backed(r, f, s), NEW m \in Nat
  PROVE  Backed(Settled(r, m), f, s + m) /\ Backed(r, f, s + m)
<1>1. r \in Row /\ r.st \in RowStatus /\ r.n \in 0..Count /\ f \in 0..Count /\ s \in Nat
  BY RowTyped DEF Backed
<1>2. Backed(r, f, s + m)
  BY <1>1, BoundsAssumption DEF Backed
<1>3. CASE m >= r.n
  <2>1. Settled(r, m) = [st |-> "settled", n |-> r.n]
    BY <1>3 DEF Settled
  <2>2. Settled(r, m) \in Row
    BY <2>1, <1>1, RowTyped DEF RowStatus
  <2>3. f - (s + m) <= 0
    BY <1>1, <1>3 DEF Backed
  <2> QED BY <1>1, <1>2, <2>1, <2>2, <2>3 DEF Backed
<1>4. CASE ~(m >= r.n)
  <2>1. Settled(r, m) = [st |-> r.st, n |-> r.n - m]
    BY <1>1, <1>4 DEF Settled, Row
  <2>2. r.n - m \in 0..Count
    BY <1>1, <1>4, BoundsAssumption
  <2>3. Settled(r, m) \in Row
    BY <2>1, <2>2, <1>1, RowTyped
  <2> QED BY <1>1, <1>2, <2>1, <2>2, <2>3 DEF Backed
<1> QED BY <1>3, <1>4

\* A row that is backed with nothing sold stays so when something is.
LEMMA SoldBefore ==
  ASSUME NEW r, NEW f, Backed(r, f, 0), NEW s \in Nat
  PROVE  Backed(r, f, s)
<1>1. Backed(r, f, 0 + s)
  BY SaleIsBacked
<1> QED BY <1>1

Pending   == [st |-> "pending", n |-> Count]
Withdrawn == [st |-> "cancelled", n |-> Count]

\* The rows of the current attempt become a and b.
RowsAre(a, b) ==
  row' = [k \in Keys |-> IF k[1] = att THEN IF k[2] = "hard" THEN a ELSE b ELSE row[k]]

\* The rows the executor writes, of an intent, a fill and a cancellation, are backed.
LEMMA RowsBacked ==
  /\ Pending \in Row /\ Withdrawn \in Row
  /\ \A n \in 0..Count : Backed(Pending, n, 0) /\ Backed(FilledRow(n), n, 0)
  /\ Backed(Withdrawn, 0, 0)
<1>1. /\ Count \in 0..Count
      /\ \A st \in RowStatus, n \in 0..Count : [st |-> st, n |-> n] \in Row
  BY RowTyped, BoundsAssumption
<1>2. Pending \in Row /\ Withdrawn \in Row
  BY <1>1 DEF Pending, Withdrawn, RowStatus
<1>3. ASSUME NEW n \in 0..Count PROVE Backed(Pending, n, 0)
  BY <1>2, BoundsAssumption DEF Backed, Pending
<1>4. ASSUME NEW n \in 0..Count PROVE Backed(FilledRow(n), n, 0)
  <2>1. FilledRow(n) \in Row
    BY <1>1 DEF FilledRow, RowStatus
  <2>2. FilledRow(n).st = "filled" /\ FilledRow(n).n = n
    BY DEF FilledRow
  <2> QED BY <2>1, <2>2, BoundsAssumption DEF Backed
<1>5. Backed(Withdrawn, 0, 0)
  BY <1>2, BoundsAssumption DEF Backed, Withdrawn
<1> QED BY <1>2, <1>3, <1>4, <1>5

\* A leg of the current attempt fills n contracts, and both its rows are written.
LEMMA BuyIsBacked ==
  ASSUME LedgerInv, att \in Attempts, NEW n \in 0..Count, NEW m \in 0..Count, NEW a, NEW b,
         \A k \in Keys : fill'[k] = IF k[1] # att THEN fill[k] ELSE IF k[2] = "hard" THEN n ELSE m,
         fill' = [k \in Keys |-> fill'[k]],
         UNCHANGED sold, RowsAre(a, b), Backed(a, n, 0), Backed(b, m, 0)
  PROVE  RowsOK' /\ HeldOK' /\ HeldIsVisible'
<1> DEFINE R == [k \in Keys |-> IF k[1] = att THEN IF k[2] = "hard" THEN a ELSE b ELSE row[k]]
           F == [k \in Keys |-> IF k[1] # att THEN fill[k] ELSE IF k[2] = "hard" THEN n ELSE m]
<1>1. row' = [k \in Keys |-> R[k]]
  BY DEF RowsAre
<1>2. fill' = [k \in Keys |-> F[k]] /\ sold' = [k \in Keys |-> sold[k]]
  BY DEF LedgerInv, HeldOK
<1>3. ASSUME NEW k \in Keys PROVE Backed(R[k], F[k], sold[k])
  <2>1. Backed(row[k], fill[k], sold[k]) /\ sold[k] \in Nat
    BY InvIsBacked DEF Backed
  <2> QED BY <2>1, SoldBefore
<1> HIDE DEF R, F
<1> QED BY <1>1, <1>2, <1>3, BackedIsInv

\* Leg l of the current attempt fills n contracts.
LEMMA FillOf ==
  ASSUME LedgerInv, NEW l \in Legs, NEW n, Bought(l, n)
  PROVE  /\ fill' = [k \in Keys |-> fill'[k]]
         /\ \A k \in Keys : fill'[k] = IF k[1] = att /\ k[2] = l THEN n ELSE fill[k]
<1>1. fill' = [k \in Keys |-> IF k = Key(l) THEN n ELSE fill[k]]
  BY DEF Bought, LedgerInv, HeldOK
<1>2. \A k \in Keys : k = Key(l) <=> k[1] = att /\ k[2] = l
  BY KeyTyped DEF Key
<1> QED BY <1>1, <1>2

\* A sale of m contracts of leg k, written to its row or not.
LEMMA SaleKeepsBacked ==
  ASSUME LedgerInv, NEW k \in Keys, NEW m \in Nat,
         sold' = [sold EXCEPT ![k] = @ + m], UNCHANGED fill,
         row' = row \/ row' = [row EXCEPT ![k] = Settled(@, m)]
  PROVE  RowsOK' /\ HeldOK' /\ HeldIsVisible'
<1> DEFINE S == [j \in Keys |-> IF j = k THEN sold[k] + m ELSE sold[j]]
           R == [j \in Keys |-> IF j = k /\ row' # row THEN Settled(row[k], m) ELSE row[j]]
<1>1. sold' = [j \in Keys |-> S[j]] /\ fill' = [j \in Keys |-> fill[j]]
  BY DEF LedgerInv, HeldOK
<1>2. row' = [j \in Keys |-> R[j]]
  BY DEF LedgerInv, RowsOK
<1>3. ASSUME NEW j \in Keys PROVE Backed(R[j], fill[j], S[j])
  BY InvIsBacked, SaleIsBacked
<1> HIDE DEF R, S
<1> QED BY <1>1, <1>2, <1>3, BackedIsInv

\* What leaves rows, fills and sales alone leaves the ledger true.
LEMMA Untouched ==
  ASSUME LedgerInv, UNCHANGED <<row, fill, sold>>
  PROVE  RowsOK' /\ HeldOK' /\ HeldIsVisible'
BY DEF LedgerInv, RowsOK, HeldOK, HeldIsVisible, Held, Visible

-----------------------------------------------------------------------------
(* The steps *)

\* The rollback moves on to a try, a leg or the end.
LEMMA SaleTyped ==
  ASSUME LedgerInv, att \in Attempts, NEW left \in Nat, NEW ab \in BOOLEAN,
         NextSale(left, ab)
  PROVE  SaleOK' /\ pc' \in {"idle", "sell"}
<1>1. row[Key("cheap")].n \in Nat
  <2>1. Key("cheap") \in Keys
    BY KeyTyped DEF Key, Legs
  <2>2. row[Key("cheap")] \in Row
    BY <2>1 DEF LedgerInv, RowsOK
  <2> QED BY <2>2, RowTyped, BoundsAssumption
<1>2. CASE left > 0 /\ ~ab /\ TriesLeft
  <2>1. sale' = [leg |-> sale.leg, tries |-> sale.tries + 1, left |-> left]
    BY <1>2 DEF NextSale, LedgerInv, SaleOK
  <2>2. sale.leg \in Legs /\ sale.tries + 1 \in Nat
    BY DEF LedgerInv, SaleOK
  <2>3. pc' = "sell"
    BY <1>2 DEF NextSale, GoesTo
  <2> QED BY <2>1, <2>2, <2>3 DEF SaleOK
<1>3. CASE ~(left > 0 /\ ~ab /\ TriesLeft) /\ todo # {}
  <2>1. sale' = [leg |-> "cheap", tries |-> 0, left |-> row[Key("cheap")].n] /\ pc' = "sell"
    BY <1>3 DEF NextSale, GoesTo
  <2> QED BY <1>1, <2>1 DEF SaleOK, Legs
<1>4. CASE ~(left > 0 /\ ~ab /\ TriesLeft) /\ ~(todo # {})
  <2>1. sale' = NoSale /\ pc' = "idle"
    BY <1>4 DEF NextSale, Failed
  <2> QED BY <2>1 DEF SaleOK, NoSale, Legs
<1> QED BY <1>2, <1>3, <1>4

\* A rollback that starts has a leg to sell, or ends the attempt.
LEMMA RollbackTyped ==
  ASSUME LedgerInv, NEW legs, NEW n \in Nat, StartRollback(legs, n)
  PROVE  SaleOK' /\ pc' \in {"idle", "sell"}
BY DEF StartRollback, LedgerInv, SaleOK, GoesTo, Left, Legs

\* Only the legs of the current attempt are sent.
LEMMA SentKept ==
  ASSUME LedgerInv, att \in Attempts, UNCHANGED att, pc' \in {"idle", "sell", "down"},
         \A k \in Keys : k[1] # att => fill'[k] = fill[k]
  PROVE  Sent'
BY BoundsAssumption DEF Sent, LedgerInv, Attempts

\* What the rows and fills of the current attempt are while its legs go out.
LEMMA InFlight ==
  ASSUME LedgerInv, pc \in {"hard", "cheap"}
  PROVE  /\ att \in Attempts
         /\ \A l \in Legs : Key(l) \in Keys
         /\ \A k \in Keys : k[1] = att => k = Key(k[2]) /\ k[2] \in Legs
         /\ row[Key("cheap")] = Pending /\ fill[Key("cheap")] = 0
         /\ pc = "hard" => row[Key("hard")] = Pending /\ fill[Key("hard")] = 0
         /\ fill[Key("hard")] \in 0..Count /\ row[Key("hard")] \in Row
         /\ Cancelled("cheap") = Withdrawn
         /\ pc = "hard" => Cancelled("hard") = Withdrawn
         /\ SaleOK
<1>1. att \in Attempts /\ Legs = {"hard", "cheap"}
  BY DEF LedgerInv, Sent, Legs
<1>2. /\ \A l \in Legs : Key(l) \in Keys
      /\ \A k \in Keys : k[1] = att => k = Key(k[2]) /\ k[2] \in Legs
  BY <1>1, KeyTyped DEF Key
<1>3. /\ row[Key("cheap")] = Pending /\ fill[Key("cheap")] = 0
      /\ pc = "hard" => row[Key("hard")] = Pending /\ fill[Key("hard")] = 0
  BY DEF LedgerInv, Sent, Pending
<1>4. Cancelled("cheap") = Withdrawn /\ (pc = "hard" => Cancelled("hard") = Withdrawn)
  BY <1>3 DEF Cancelled, Pending, Withdrawn
<1>5. fill[Key("hard")] \in 0..Count /\ row[Key("hard")] \in Row /\ SaleOK
  BY <1>1, <1>2 DEF LedgerInv, HeldOK, RowsOK
<1> QED BY <1>1, <1>2, <1>3, <1>4, <1>5

\* The hard leg: its own row and its sibling's.
LEMMA HardSteps ==
  ASSUME LedgerInv, pc = "hard",
         \/ HardKilled \/ HardFilled
         \/ \E n \in {0, Count} : HardInDoubt(n)
         \/ \E n \in 1..Count : HardShort(n)
  PROVE  LedgerInv'
<1>1. SUFFICES RowsOK' /\ HeldOK' /\ HeldIsVisible' /\ Sent' /\ SaleOK'
  BY DEF LedgerInv
<1>2. ASSUME NEW n \in 0..Count, Bought("hard", n), UNCHANGED sold,
             NEW a, NEW b, RowsAre(a, b), Backed(a, n, 0), Backed(b, 0, 0)
      PROVE  RowsOK' /\ HeldOK' /\ HeldIsVisible'
  <2>1. \A k \in Keys : fill'[k] = IF k[1] # att THEN fill[k] ELSE IF k[2] = "hard" THEN n ELSE 0
    BY <1>2, FillOf, InFlight DEF Legs
  <2>2. fill' = [k \in Keys |-> fill'[k]]
    BY <1>2, FillOf DEF Legs
  <2> QED BY <1>2, <2>1, <2>2, InFlight, BoundsAssumption, BuyIsBacked
<1>3. ASSUME UNCHANGED att, pc' \in {"idle", "sell"}, NEW n, Bought("hard", n) \/ UNCHANGED fill
      PROVE  Sent'
  <2>1. \A k \in Keys : k[1] # att => fill'[k] = fill[k]
    BY <1>3, FillOf DEF Legs
  <2> QED BY <1>3, <2>1, InFlight, SentKept
<1>4. CASE HardKilled
  <2>1. UNCHANGED <<fill, sold, att, sale>> /\ pc' = "idle"
    BY <1>4 DEF HardKilled, exchange, rolling, Failed, Left
  <2>2. Bought("hard", 0)
    BY <2>1, InFlight DEF Bought, LedgerInv, HeldOK
  <2>3. RowsOK' /\ HeldOK' /\ HeldIsVisible'
    <3>1. CASE UNCHANGED row
      BY <3>1, <2>1, Untouched
    <3>2. CASE Wrote([l \in Legs |-> Cancelled(l)])
      <4>1. RowsAre(Withdrawn, Withdrawn)
        BY <3>2, InFlight DEF Wrote, RowsAre, Legs
      <4> QED BY <4>1, <2>1, <2>2, <1>2, RowsBacked, BoundsAssumption
    <3> QED BY <1>4, <3>1, <3>2 DEF HardKilled
  <2> QED BY <2>1, <2>3, <1>3, InFlight DEF SaleOK
<1>5. ASSUME NEW n \in {0, Count}, HardInDoubt(n) PROVE RowsOK' /\ HeldOK' /\ HeldIsVisible' /\ Sent' /\ SaleOK'
  <2>1. Bought("hard", n) /\ UNCHANGED <<sold, att, sale>> /\ pc' = "idle" /\ n \in 0..Count
    BY <1>5, BoundsAssumption DEF HardInDoubt, rolling, Failed
  <2>2. RowsAre(Pending, Withdrawn)
    BY <1>5, InFlight DEF HardInDoubt, Wrote, RowsAre, Legs
  <2> QED BY <2>1, <2>2, <1>2, <1>3, RowsBacked, InFlight, BoundsAssumption DEF SaleOK
<1>6. ASSUME NEW n \in 1..Count, HardShort(n) PROVE RowsOK' /\ HeldOK' /\ HeldIsVisible' /\ Sent' /\ SaleOK'
  <2>1. Bought("hard", n) /\ UNCHANGED <<sold, att>> /\ n \in 0..Count /\ n \in Nat
    BY <1>6, BoundsAssumption DEF HardShort
  <2>2. SaleOK' /\ pc' \in {"idle", "sell"}
    BY <1>6, <2>1, RollbackTyped DEF HardShort
  <2>3. RowsAre(FilledRow(n), Withdrawn)
    BY <1>6, InFlight DEF HardShort, Wrote, RowsAre, Legs
  <2> QED BY <2>1, <2>2, <2>3, <1>2, <1>3, RowsBacked
<1>7. CASE HardFilled
  <2>1. Bought("hard", Count) /\ UNCHANGED <<sold, att, sale>> /\ pc' \in {"idle", "cheap"}
    BY <1>7 DEF HardFilled, rolling, GoesTo, Left
  <2>2. RowsAre(FilledRow(Count), Pending) \/ RowsAre(Pending, Pending)
    <3>1. CASE Wrote([l \in {"hard"} |-> FilledRow(Count)])
      BY <3>1, InFlight DEF Wrote, RowsAre, Legs
    <3>2. CASE UNCHANGED row
      BY <3>2, InFlight DEF RowsAre, Legs, LedgerInv, RowsOK
    <3> QED BY <1>7, <3>1, <3>2 DEF HardFilled
  <2>3. RowsOK' /\ HeldOK' /\ HeldIsVisible'
    BY <2>1, <2>2, <1>2, RowsBacked, BoundsAssumption
  <2>4. row'[Key("cheap")] = Pending
    BY <2>2, InFlight DEF RowsAre, Key, Legs
  <2>5. fill'[Key("cheap")] = 0 /\ \A k \in Keys : k[1] # att => fill'[k] = fill[k]
    BY <2>1, FillOf, InFlight DEF Legs, Key
  <2>6. Sent'
    BY <2>1, <2>4, <2>5, InFlight, BoundsAssumption DEF Sent, LedgerInv, Attempts, Key, Pending
  <2> QED BY <2>1, <2>3, <2>6, InFlight DEF SaleOK
<1> QED BY <1>4, <1>5, <1>6, <1>7

\* The cheap leg: the hard one is bought, and its row stays.
LEMMA CheapSteps ==
  ASSUME LedgerInv, pc = "cheap",
         \/ CheapKilled \/ CheapFilled
         \/ \E n \in {0, Count} : CheapInDoubt(n)
         \/ \E n \in 1..Count : CheapShort(n)
  PROVE  LedgerInv'
<1>1. SUFFICES RowsOK' /\ HeldOK' /\ HeldIsVisible' /\ Sent' /\ SaleOK'
  BY DEF LedgerInv
<1>2. ASSUME NEW n \in 0..Count, Bought("cheap", n), UNCHANGED sold, NEW b, Backed(b, n, 0),
             row' = [k \in Keys |-> IF k = Key("cheap") THEN b ELSE row[k]]
      PROVE  RowsOK' /\ HeldOK' /\ HeldIsVisible'
  <2> DEFINE R == [k \in Keys |-> IF k = Key("cheap") THEN b ELSE row[k]]
             F == [k \in Keys |-> IF k = Key("cheap") THEN n ELSE fill[k]]
  <2>1. row' = [k \in Keys |-> R[k]]
    BY <1>2
  <2>2. fill' = [k \in Keys |-> F[k]] /\ sold' = [k \in Keys |-> sold[k]]
    BY <1>2 DEF LedgerInv, HeldOK, Bought
  <2>3. ASSUME NEW k \in Keys PROVE Backed(R[k], F[k], sold[k])
    <3>1. Backed(row[k], fill[k], sold[k]) /\ sold[k] \in Nat
      BY InvIsBacked DEF Backed
    <3> QED BY <1>2, <3>1, SoldBefore
  <2> HIDE DEF R, F
  <2> QED BY <2>1, <2>2, <2>3, BackedIsInv
<1>3. ASSUME UNCHANGED att, pc' \in {"idle", "sell"}, NEW n, Bought("cheap", n) \/ UNCHANGED fill
      PROVE  Sent'
  <2>1. \A k \in Keys : k[1] # att => fill'[k] = fill[k]
    BY <1>3, FillOf DEF Legs
  <2> QED BY <1>3, <2>1, InFlight, SentKept
<1>4. ASSUME UNCHANGED row
      PROVE  row' = [k \in Keys |-> IF k = Key("cheap") THEN Pending ELSE row[k]]
  BY <1>4, InFlight DEF LedgerInv, RowsOK
<1>5. ASSUME NEW b, Wrote([l \in {"cheap"} |-> b])
      PROVE  row' = [k \in Keys |-> IF k = Key("cheap") THEN b ELSE row[k]]
  BY <1>5, KeyTyped DEF Wrote, Key, Legs
<1>6. CASE CheapFilled
  <2>1. Bought("cheap", Count) /\ UNCHANGED <<sold, att, sale>> /\ pc' = "idle"
    BY <1>6 DEF CheapFilled, rolling, Left
  <2>2. \/ row' = [k \in Keys |-> IF k = Key("cheap") THEN FilledRow(Count) ELSE row[k]]
        \/ row' = [k \in Keys |-> IF k = Key("cheap") THEN Pending ELSE row[k]]
    BY <1>6, <1>4, <1>5 DEF CheapFilled
  <2> QED BY <2>1, <2>2, <1>2, <1>3, RowsBacked, InFlight, BoundsAssumption DEF SaleOK
<1>7. CASE CheapKilled
  <2>1. UNCHANGED <<fill, sold, att>>
    BY <1>7 DEF CheapKilled, exchange
  <2>2. Bought("cheap", 0)
    BY <2>1, InFlight DEF Bought, LedgerInv, HeldOK
  <2>3. SaleOK' /\ pc' \in {"idle", "sell"}
    <3>1. CASE StartRollback({"hard"}, Count)
      BY <3>1, RollbackTyped, BoundsAssumption
    <3>2. CASE Left /\ UNCHANGED rolling
      BY <3>2, InFlight DEF Left, rolling, SaleOK
    <3> QED BY <1>7, <3>1, <3>2 DEF CheapKilled
  <2>4. RowsOK' /\ HeldOK' /\ HeldIsVisible'
    <3>1. CASE UNCHANGED row
      BY <3>1, <2>1, Untouched
    <3>2. CASE Wrote([l \in {"cheap"} |-> Cancelled(l)])
      <4>1. row' = [k \in Keys |-> IF k = Key("cheap") THEN Withdrawn ELSE row[k]]
        BY <3>2, InFlight, KeyTyped DEF Wrote, Key, Legs
      <4> QED BY <4>1, <2>1, <2>2, <1>2, RowsBacked, BoundsAssumption
    <3> QED BY <1>7, <3>1, <3>2 DEF CheapKilled
  <2> QED BY <2>1, <2>3, <2>4, <1>3
<1>8. ASSUME NEW n \in {0, Count}, CheapInDoubt(n)
      PROVE  RowsOK' /\ HeldOK' /\ HeldIsVisible' /\ Sent' /\ SaleOK'
  <2>1. Bought("cheap", n) /\ UNCHANGED <<row, sold, att>> /\ n \in 0..Count
    BY <1>8, BoundsAssumption DEF CheapInDoubt
  <2>2. SaleOK' /\ pc' \in {"idle", "sell"}
    BY <1>8, RollbackTyped, BoundsAssumption DEF CheapInDoubt
  <2> QED BY <2>1, <2>2, <1>2, <1>3, <1>4, RowsBacked
<1>9. ASSUME NEW n \in 1..Count, CheapShort(n)
      PROVE  RowsOK' /\ HeldOK' /\ HeldIsVisible' /\ Sent' /\ SaleOK'
  <2>1. Bought("cheap", n) /\ UNCHANGED <<sold, att>> /\ n \in 0..Count
    BY <1>9, BoundsAssumption DEF CheapShort
  <2>2. SaleOK' /\ pc' \in {"idle", "sell"}
    BY <1>9, RollbackTyped, BoundsAssumption DEF CheapShort
  <2>3. row' = [k \in Keys |-> IF k = Key("cheap") THEN FilledRow(n) ELSE row[k]]
    BY <1>9, <1>5 DEF CheapShort
  <2> QED BY <2>1, <2>2, <2>3, <1>2, <1>3, RowsBacked
<1> QED BY <1>6, <1>7, <1>8, <1>9

\* The rollback sells, and takes what it sold off the row.
LEMMA SellSteps ==
  ASSUME LedgerInv, pc = "sell",
         \/ NoBid \/ SoldUnanswered \/ Abort
         \/ \E n \in 1..Count : Sold(n)
  PROVE  LedgerInv'
<1>1. SUFFICES RowsOK' /\ HeldOK' /\ HeldIsVisible' /\ Sent' /\ SaleOK'
  BY DEF LedgerInv
<1>2. att \in Attempts /\ sale.leg \in Legs /\ sale.left \in Nat /\ Key(sale.leg) \in Keys
  BY KeyTyped DEF LedgerInv, Sent, SaleOK, Key
<1>3. ASSUME UNCHANGED <<att, fill>>, NEW left \in Nat, NEW ab \in BOOLEAN, NextSale(left, ab)
      PROVE  Sent' /\ SaleOK'
  <2>1. SaleOK' /\ pc' \in {"idle", "sell"}
    BY <1>2, <1>3, SaleTyped
  <2> QED BY <1>2, <1>3, <2>1, SentKept
<1>4. CASE NoBid
  BY <1>4, <1>2, <1>3, Untouched DEF NoBid, ledger, exchange
<1>5. CASE Abort
  BY <1>5, <1>2, <1>3, Untouched DEF Abort, exchange
<1>6. CASE SoldUnanswered
  <2>1. UNCHANGED <<att, fill, row>> /\ sold' = [sold EXCEPT ![Key(sale.leg)] = @ + sale.left]
    BY <1>6 DEF SoldUnanswered, ledger
  <2>2. RowsOK' /\ HeldOK' /\ HeldIsVisible'
    BY <2>1, <1>2, SaleKeepsBacked
  <2> QED BY <1>6, <2>1, <2>2, <1>2, <1>3 DEF SoldUnanswered
<1>7. ASSUME NEW n \in 1..Count, Sold(n)
      PROVE  RowsOK' /\ HeldOK' /\ HeldIsVisible' /\ Sent' /\ SaleOK'
  <2>1. /\ UNCHANGED <<att, fill>> /\ n \in Nat /\ sale.left - n \in Nat
        /\ sold' = [sold EXCEPT ![Key(sale.leg)] = @ + n]
        /\ row' = row \/ row' = [row EXCEPT ![Key(sale.leg)] = Settled(@, n)]
    BY <1>7, <1>2, BoundsAssumption DEF Sold
  <2>2. RowsOK' /\ HeldOK' /\ HeldIsVisible'
    BY <2>1, <1>2, SaleKeepsBacked
  <2> QED BY <1>7, <2>1, <2>2, <1>3 DEF Sold
<1> QED BY <1>4, <1>5, <1>6, <1>7

\* The rows are written before the first order goes out.
LEMMA IntentSteps ==
  ASSUME LedgerInv, PersistIntents
  PROVE  LedgerInv'
<1>1. UNCHANGED <<fill, sold, sale>> /\ SaleOK
  BY DEF PersistIntents, exchange, rolling, LedgerInv
<1>2. CASE /\ att < MaxAttempts /\ att' = att + 1
           /\ row' = [k \in Keys |-> IF k[1] = att + 1 THEN [st |-> "pending", n |-> Count]
                                     ELSE row[k]]
           /\ GoesTo("hard")
  <2>1. att \in 0..MaxAttempts /\ att + 1 \in Attempts /\ att' \in 0..MaxAttempts /\ pc' = "hard"
    BY <1>2, BoundsAssumption DEF LedgerInv, Sent, Attempts, GoesTo
  <2> DEFINE R == [k \in Keys |-> IF k[1] = att + 1 THEN Pending ELSE row[k]]
  <2>2. row' = [k \in Keys |-> R[k]]
    BY <1>2 DEF Pending
  <2>3. fill' = [k \in Keys |-> fill[k]] /\ sold' = [k \in Keys |-> sold[k]]
    BY <1>1 DEF LedgerInv, HeldOK
  <2>4. \A k \in Keys : k[1] > att => fill[k] = 0
    BY DEF LedgerInv, Sent
  <2>5. ASSUME NEW k \in Keys PROVE Backed(R[k], fill[k], sold[k])
    <3>1. Backed(row[k], fill[k], sold[k]) /\ sold[k] \in Nat /\ fill[k] \in 0..Count
      BY InvIsBacked DEF Backed
    <3> QED BY <3>1, RowsBacked, SoldBefore
  <2>6. RowsOK' /\ HeldOK' /\ HeldIsVisible'
    <3> HIDE DEF R
    <3> QED BY <2>2, <2>3, <2>5, BackedIsInv
  <2>7. \A l \in Legs : /\ Key(l)' \in Keys /\ Key(l)'[1] = att + 1
                        /\ row'[Key(l)'] = Pending /\ fill'[Key(l)'] = 0
    BY <1>1, <1>2, <2>1, <2>2, <2>4, KeyTyped DEF Key
  <2>8. \A k \in Keys : k[1] > att' => fill'[k] = 0
    BY <1>1, <1>2, <2>1, <2>4, KeyTyped, BoundsAssumption DEF Attempts
  <2>9. Sent'
    BY <1>2, <2>1, <2>7, <2>8 DEF Sent, Pending, Legs
  <2> QED BY <1>1, <2>6, <2>9 DEF LedgerInv, SaleOK
<1>3. CASE Left /\ UNCHANGED <<att, row>>
  <2>1. RowsOK' /\ HeldOK' /\ HeldIsVisible'
    BY <1>1, <1>3, Untouched
  <2>2. Sent'
    BY <1>1, <1>3 DEF Sent, LedgerInv, Left
  <2> QED BY <1>1, <2>1, <2>2 DEF LedgerInv, SaleOK
<1> QED BY <1>2, <1>3 DEF PersistIntents

\* Steps that touch no row and no order.
LEMMA ElsewhereSteps ==
  ASSUME LedgerInv, UNCHANGED <<row, fill, sold, att, sale>>,
         pc' = pc \/ pc' \in {"idle", "task", "balance"}
  PROVE  LedgerInv'
<1>1. RowsOK' /\ HeldOK' /\ HeldIsVisible'
  BY Untouched
<1>2. Sent'
  BY DEF LedgerInv, Sent, Key
<1> QED BY <1>1, <1>2 DEF LedgerInv, SaleOK

\* What was on its way when the process died fills, or not.
LEMMA CrashSteps ==
  ASSUME LedgerInv, Crash
  PROVE  LedgerInv'
<1>1. pc' = "down" /\ sale' = NoSale /\ UNCHANGED <<row, att>>
  BY DEF Crash, ledger
<1>2. SaleOK'
  BY <1>1 DEF SaleOK, NoSale, Legs
<1>3. CASE UNCHANGED exchange
  <2>1. Sent'
    BY <1>1, <1>3 DEF LedgerInv, Sent, exchange
  <2> QED BY <1>1, <1>2, <1>3, <2>1, Untouched DEF LedgerInv, exchange
<1>4. CASE pc \in {"hard", "cheap"} /\ Bought(pc, Count) /\ UNCHANGED sold
  <2> DEFINE F == [k \in Keys |-> IF k = Key(pc) THEN Count ELSE fill[k]]
  <2>1. fill' = [k \in Keys |-> F[k]] /\ row' = [k \in Keys |-> row[k]]
        /\ sold' = [k \in Keys |-> sold[k]]
    BY <1>1, <1>4 DEF LedgerInv, HeldOK, RowsOK, Bought
  <2>2. row[Key(pc)] = Pending
    BY <1>4, InFlight
  <2>3. ASSUME NEW k \in Keys PROVE Backed(row[k], F[k], sold[k])
    <3>1. Backed(row[k], fill[k], sold[k]) /\ sold[k] \in Nat
      BY InvIsBacked DEF Backed
    <3> QED BY <2>2, <3>1, RowsBacked, SoldBefore, BoundsAssumption
  <2>4. \A k \in Keys : k[1] # att => fill'[k] = fill[k]
    BY <2>1 DEF Key
  <2>5. Sent'
    BY <1>1, <1>4, <2>4, InFlight, SentKept
  <2> HIDE DEF F
  <2> QED BY <1>2, <2>1, <2>3, <2>5, BackedIsInv DEF LedgerInv
<1>5. CASE /\ pc = "sell" /\ UNCHANGED fill
           /\ sold' = [sold EXCEPT ![Key(sale.leg)] = @ + sale.left]
  <2>1. att \in Attempts /\ sale.left \in Nat /\ Key(sale.leg) \in Keys
    BY <1>5, KeyTyped DEF LedgerInv, Sent, SaleOK, Key
  <2>2. RowsOK' /\ HeldOK' /\ HeldIsVisible'
    BY <1>1, <1>5, <2>1, SaleKeepsBacked
  <2>3. Sent'
    BY <1>1, <1>5, <2>1, SentKept
  <2> QED BY <1>2, <2>2, <2>3 DEF LedgerInv
<1> QED BY <1>3, <1>4, <1>5 DEF Crash

\* reconcile_pending_trades cancels only what never filled.
LEMMA BootSteps ==
  ASSUME LedgerInv, NEW old \in SUBSET Keys, Boot(old)
  PROVE  LedgerInv'
<1>1. pc' = "idle" /\ UNCHANGED <<fill, sold, att, sale>>
  BY DEF Boot, exchange, rolling, GoesTo
<1>2. PICK r \in [old -> RowStatus] :
        /\ \A k \in old : r[k] \in Reconciled(k)
        /\ row' = [k \in Keys |-> IF k \in old THEN [row[k] EXCEPT !.st = r[k]] ELSE row[k]]
  BY DEF Boot
<1> DEFINE R == [k \in Keys |-> IF k \in old THEN [row[k] EXCEPT !.st = r[k]] ELSE row[k]]
<1>3. row' = [k \in Keys |-> R[k]] /\ fill' = [k \in Keys |-> fill[k]]
      /\ sold' = [k \in Keys |-> sold[k]]
  BY <1>1, <1>2 DEF LedgerInv, HeldOK
<1>4. ASSUME NEW k \in Keys PROVE Backed(R[k], fill[k], sold[k])
  <2>1. Backed(row[k], fill[k], sold[k])
    BY InvIsBacked
  <2>2. CASE k \in old
    <3>1. row[k].st = "pending" /\ r[k] \in Reconciled(k) /\ r[k] \in RowStatus
      BY <1>2, <2>2 DEF Boot
    <3>2. row[k].n \in 0..Count /\ R[k] = [st |-> r[k], n |-> row[k].n]
      BY <2>1, <2>2, RowTyped DEF Backed, Row
    <3>3. R[k] \in Row
      BY <3>1, <3>2, RowTyped
    <3>4. fill[k] \in 0..Count /\ sold[k] \in Nat /\ fill[k] - sold[k] <= row[k].n
      BY <2>1, <3>1 DEF Backed
    <3>5. CASE fill[k] > 0
      <4>1. R[k].st = "filled" /\ R[k].n = row[k].n
        BY <3>1, <3>2, <3>5 DEF Reconciled
      <4> QED BY <3>3, <3>4, <4>1 DEF Backed
    <3>6. CASE ~(fill[k] > 0)
      <4>1. fill[k] - sold[k] <= 0 /\ R[k].n \in Nat
        BY <3>2, <3>4, <3>6, BoundsAssumption
      <4> QED BY <3>3, <3>4, <4>1, BoundsAssumption, RowTyped, <3>2 DEF Backed
    <3> QED BY <3>5, <3>6
  <2>3. CASE k \notin old
    BY <2>1, <2>3
  <2> QED BY <2>2, <2>3
<1>5. Sent'
  BY <1>1 DEF LedgerInv, Sent
<1>6. SaleOK'
  BY <1>1 DEF LedgerInv, SaleOK
<1> HIDE DEF R
<1> QED BY <1>3, <1>4, <1>5, <1>6, BackedIsInv DEF LedgerInv

\* Motor 3's sale of an orphan.
LEMMA OrphanSaleSteps ==
  ASSUME LedgerInv, NEW k \in Keys, SellOrphan(k)
  PROVE  LedgerInv'
<1> DEFINE p == IF k[2] = "hard" THEN table[market[k[1]]] ELSE -table[market[k[1]]]
           m == IF p < row[k].n THEN p ELSE row[k].n
<1>1. /\ m \in 1..row[k].n /\ pc \in {"idle", "task", "balance"}
      /\ sold' = [sold EXCEPT ![k] = @ + m] /\ row' = [row EXCEPT ![k] = Settled(@, m)]
      /\ UNCHANGED <<fill, att, sale, pc>>
  BY DEF SellOrphan, rolling, engine
<1>2. m \in Nat
  <2>1. row[k].n \in Nat
    BY RowTyped, BoundsAssumption DEF LedgerInv, RowsOK
  <2> QED BY <1>1, <2>1
<1> HIDE DEF m
<1>3. RowsOK' /\ HeldOK' /\ HeldIsVisible'
  BY <1>1, <1>2, SaleKeepsBacked
<1>4. Sent'
  BY <1>1 DEF LedgerInv, Sent
<1> QED BY <1>1, <1>3, <1>4 DEF LedgerInv, SaleOK

\* Every step keeps the ledger.
LEMMA LedgerKept ==
  ASSUME LedgerInv, [Next]_vars
  PROVE  LedgerInv'
<1> USE DEF ledger, exchange, rolling, engine
<1>1. CASE Engine
  <2>1. ASSUME NEW t \in Tickers, NEW crossed \in BOOLEAN, NEW fit \in BOOLEAN,
               Tick(t, crossed, fit)
        PROVE  LedgerInv'
    BY <2>1, ElsewhereSteps DEF Tick
  <2>2. ASSUME NEW t \in Tickers, CoolsOff(t) PROVE LedgerInv'
    BY <2>2, ElsewhereSteps DEF CoolsOff
  <2>3. CASE CrossDied
    BY <2>3, ElsewhereSteps DEF CrossDied, Left
  <2> QED BY <1>1, <2>1, <2>2, <2>3 DEF Engine
<1>2. CASE Executor
  <2>1. CASE LocallyPaused \/ Reject \/ BalanceShort
    BY <2>1, ElsewhereSteps DEF LocallyPaused, Reject, BalanceShort, Enters, Failed
  <2>2. CASE Approve
    BY <2>2, ElsewhereSteps DEF Approve, Enters, GoesTo
  <2>3. CASE PersistIntents
    BY <2>3, IntentSteps
  <2>4. CASE \/ HardKilled \/ HardFilled
             \/ \E n \in {0, Count} : HardInDoubt(n)
             \/ \E n \in 1..Count : HardShort(n)
    <3>1. pc = "hard"
      BY <2>4 DEF HardKilled, HardFilled, HardInDoubt, HardShort
    <3> QED BY <2>4, <3>1, HardSteps
  <2>5. CASE \/ CheapKilled \/ CheapFilled
             \/ \E n \in {0, Count} : CheapInDoubt(n)
             \/ \E n \in 1..Count : CheapShort(n)
    <3>1. pc = "cheap"
      BY <2>5 DEF CheapKilled, CheapFilled, CheapInDoubt, CheapShort
    <3> QED BY <2>5, <3>1, CheapSteps
  <2>6. CASE NoBid \/ SoldUnanswered \/ Abort \/ \E n \in 1..Count : Sold(n)
    <3>1. pc = "sell"
      BY <2>6 DEF NoBid, SoldUnanswered, Abort, Sold
    <3> QED BY <2>6, <3>1, SellSteps
  <2> QED BY <1>2, <2>1, <2>2, <2>3, <2>4, <2>5, <2>6 DEF Executor
<1>3. CASE Clock
  <2>1. ASSUME NEW c, NEW a, WindowMoves(c, a) PROVE LedgerInv'
    BY <2>1, ElsewhereSteps DEF WindowMoves
  <2>2. CASE DayPasses \/ GracePasses
    BY <2>2, ElsewhereSteps DEF DayPasses, GracePasses
  <2> QED BY <1>3, <2>1, <2>2 DEF Clock
<1>4. CASE Surroundings
  <2>1. CASE Sync
    BY <2>1, ElsewhereSteps DEF Sync
  <2>2. CASE WatchdogPauses \/ AdminPause \/ EngageKillSwitch \/ ScriptPauses
    BY <2>2, ElsewhereSteps
    DEF WatchdogPauses, AdminPause, EngageKillSwitch, ScriptPauses, Others
  <2>4. CASE ScriptPersists
    BY <2>4, ElsewhereSteps DEF ScriptPersists
  <2>3. CASE AdminResume \/ ClearKillSwitch
    BY <2>3, ElsewhereSteps DEF AdminResume, ClearKillSwitch
  <2> QED BY <1>4, <2>1, <2>2, <2>3, <2>4, CrashSteps, BootSteps, OrphanSaleSteps DEF Surroundings
<1>5. CASE UNCHANGED vars
  BY <1>5, ElsewhereSteps DEF vars
<1> QED BY <1>1, <1>2, <1>3, <1>4, <1>5 DEF Next

\* The ledger is empty at first.
LEMMA LedgerInitially == Init => LedgerInv
<1> SUFFICES ASSUME Init PROVE LedgerInv
  OBVIOUS
<1>1. RowsOK
  BY BoundsAssumption, RowTyped DEF Init, RowsOK, RowStatus
<1>2. HeldOK
  BY BoundsAssumption DEF Init, HeldOK
<1>3. Sent
  BY BoundsAssumption DEF Init, Sent
<1>4. SaleOK
  BY DEF Init, SaleOK, NoSale, Legs
<1>5. HeldIsVisible
  BY RowTyped DEF Init, HeldIsVisible, Held, Visible
<1> QED BY <1>1, <1>2, <1>3, <1>4, <1>5 DEF LedgerInv

\* Whatever fails, what is held at the exchange is on a row that RiskManager and
\* the boot count (_persist_intents, _process_leg_result,
\* _settle_rollback_fill, reconcile_pending_trades).
THEOREM HeldAlwaysVisible == Spec => []HeldIsVisible
<1>1. LedgerInv /\ [Next]_vars => LedgerInv'
  BY LedgerKept
<1>2. LedgerInv => HeldIsVisible
  BY DEF LedgerInv
<1> QED BY <1>1, <1>2, LedgerInitially, PTL DEF Spec

-----------------------------------------------------------------------------
(* An abandoned leg and the pause it caused *)

\* What the pause of this motor says of the attempt under way: there was none when the
\* attempt began, and its own rollback sets one that no poll has looked at.
LocalFacts ==
  /\ local = NoPause \/ local.ticker \in Tickers
  /\ pc \in Sending \union {"down"} => local = NoPause
  /\ pc = "sell" => local = NoPause \/ (local.stage = "young" /\ local.ticker = target)

\* A leg abandoned since the boot is of the market the motor is paused for, or the whole
\* process was paused for it and nobody lifted that.
Attributed ==
  /\ pc \in Sending \union {"down"} => orphans = {}
  /\ \A k \in orphans : /\ market[k[1]] \in Tickers
                        /\ market[k[1]] = local.ticker \/ pause = "other"

\* Once the poller has looked, a market it shows empty is empty: nobody buys in it, and who
\* sells in it does so from the position it shows.
Polled ==
  local # NoPause /\ local.stage # "young" /\ table[local.ticker] = 0 => Net(local.ticker) = 0

OrphanInv == AttemptOK /\ OrphansOK /\ LocalFacts /\ Attributed /\ Polled

\* The net of a market changes only with fills, sales and the market of a row.
LEMMA NetSame ==
  ASSUME UNCHANGED <<fill, sold, market>>, NEW t
  PROVE  Net(t)' = Net(t)
BY DEF Net, Held, OnHard, OnCheap

\* There are finitely many keys.
LEMMA KeysFinite == IsFiniteSet(Keys)
<1>1. IsFiniteSet(Attempts)
  BY FS_Interval, BoundsAssumption DEF Attempts
<1>2. IsFiniteSet(Legs)
  BY SmallSets DEF Legs
<1>. QED
  BY <1>1, <1>2, FS_Product DEF Keys

\* The net of a market is a number of contracts.
LEMMA NetInt ==
  ASSUME HeldOK, NEW t
  PROVE  Net(t) \in Int
<1>1. PICK f : f = [j \in Keys |-> Held(j)]
  OBVIOUS
<1>2. PICK H, C : H = OnHard(t) /\ C = OnCheap(t)
  OBVIOUS
<1>3. Net(t) = SumFunctionOnSet(f, H) - SumFunctionOnSet(f, C)
  BY <1>1, <1>2 DEF Net, OnHard, OnCheap
<1>4. H \subseteq Keys /\ C \subseteq Keys
  BY <1>2 DEF OnHard, OnCheap
<1>5. IsFiniteSet(H) /\ IsFiniteSet(C)
  BY <1>4, KeysFinite, FS_Subset
<1>6. \A j \in Keys : f[j] \in Int
  BY <1>1, BoundsAssumption DEF Held, HeldOK
<1>7. (\A j \in H : f[j] \in Int) /\ (\A j \in C : f[j] \in Int)
  BY <1>4, <1>6
<1>8. SumFunctionOnSet(f, H) \in Int /\ SumFunctionOnSet(f, C) \in Int
  BY <1>5, <1>7, SumType
<1>. QED
  BY <1>3, <1>8

\* A sale in one market leaves the others as they are.
LEMMA NetElsewhere ==
  ASSUME HeldOK, NEW k \in Keys, NEW m \in Nat, sold' = [sold EXCEPT ![k] = @ + m],
         UNCHANGED <<fill, market>>, NEW t, t # market[k[1]]
  PROVE  Net(t)' = Net(t)
<1>1. PICK f, g : f = [j \in Keys |-> Held(j)] /\ g = [j \in Keys |-> Held(j)']
  OBVIOUS
<1>2. PICK H, C : H = OnHard(t) /\ C = OnCheap(t)
  OBVIOUS
<1>3. /\ Net(t) = SumFunctionOnSet(f, H) - SumFunctionOnSet(f, C)
      /\ Net(t)' = SumFunctionOnSet(g, H) - SumFunctionOnSet(g, C)
  BY <1>1, <1>2 DEF Net, OnHard, OnCheap
<1>4. IsFiniteSet(Keys)
  BY KeysFinite
<1>5. H \subseteq Keys /\ C \subseteq Keys /\ k \notin H /\ k \notin C
  BY <1>2 DEF OnHard, OnCheap
<1>6. IsFiniteSet(H) /\ IsFiniteSet(C)
  BY <1>4, <1>5, FS_Subset
<1>7. \A j \in Keys : f[j] = fill[j] - sold[j] /\ g[j] = fill[j] - sold'[j] /\ f[j] \in Int
  BY <1>1, BoundsAssumption DEF Held, HeldOK
<1>8. \A j \in Keys : j # k => sold'[j] = sold[j]
  BY DEF HeldOK
<1>9. \A j \in H : f[j] \in Int /\ g[j] = f[j]
  BY <1>5, <1>7, <1>8
<1>10. \A j \in C : f[j] \in Int /\ g[j] = f[j]
  BY <1>5, <1>7, <1>8
<1>11. SumFunctionOnSet(g, H) = SumFunctionOnSet(f, H)
  BY <1>6, <1>9, SumEqual
<1>12. SumFunctionOnSet(g, C) = SumFunctionOnSet(f, C)
  BY <1>6, <1>10, SumEqual
<1>. QED
  BY <1>3, <1>11, <1>12

\* A step that neither sets a pause of the motor nor ends one, and lifts no other.
Bystander ==
  /\ AttemptOK' /\ UNCHANGED <<local, orphans, market, table>>
  /\ pause = "other" => pause' = "other" \/ orphans = {}
  /\ pc' \in Sending => pc \in Sending
  /\ pc' = "sell" => pc \in Sending \union {"sell"} /\ target' = target
  /\ pc' = "down" => pc = "down"
  /\ UNCHANGED <<fill, sold>> \/ pc \in Sending \union {"sell"}

\* A step that touches neither orphans nor pauses.
LEMMA BystanderKeeps ==
  ASSUME OrphanInv, Bystander
  PROVE  OrphanInv'
<1>1. OrphansOK' /\ AttemptOK'
  BY DEF OrphanInv, OrphansOK, Bystander
<1>2. LocalFacts'
  BY DEF OrphanInv, LocalFacts, Sending, Bystander
<1>3. Attributed'
  BY DEF OrphanInv, Attributed, Bystander
<1>4. Polled'
  <2>1. CASE UNCHANGED <<fill, sold>>
    <3>1. Net(local.ticker)' = Net(local.ticker)
      BY <2>1, NetSame DEF Bystander
    <3>. QED
      BY <2>1, <3>1 DEF OrphanInv, Polled, Bystander
  <2>2. CASE pc \in Sending \union {"sell"}
    BY <2>2 DEF OrphanInv, LocalFacts, Polled, NoPause, Bystander
  <2>. QED
    BY <2>1, <2>2 DEF Bystander
<1>. QED
  BY <1>1, <1>2, <1>3, <1>4 DEF OrphanInv

\* The steps of that kind: those of an attempt before its abort, and the pauses of others.
LEMMA Bystanders ==
  ASSUME OrphanInv,
         \/ Engine \/ LocallyPaused \/ BalanceShort
         \/ HardKilled \/ HardFilled \/ CheapKilled \/ CheapFilled \/ NoBid \/ SoldUnanswered
         \/ \E n \in {0, Count} : HardInDoubt(n) \/ CheapInDoubt(n)
         \/ \E n \in 1..Count : HardShort(n) \/ CheapShort(n) \/ Sold(n)
         \/ \E c \in 0..(clean - 1), a \in 0..aborts : WindowMoves(c, a)
         \/ DayPasses
         \/ WatchdogPauses \/ AdminPause \/ EngageKillSwitch \/ ClearKillSwitch
         \/ ScriptPersists \/ ScriptPauses
         \/ UNCHANGED vars
  PROVE  Bystander
<1> USE DEF Bystander, OrphanInv, AttemptOK, Sending, ledger, exchange, rolling, engine
<1>1. CASE Engine
  <2>1. ASSUME NEW t \in Tickers, NEW crossed \in BOOLEAN, NEW fit \in BOOLEAN,
               Tick(t, crossed, fit)
        PROVE  Bystander
    BY <2>1 DEF Tick
  <2>2. ASSUME NEW t \in Tickers, CoolsOff(t) PROVE Bystander
    BY <2>2 DEF CoolsOff
  <2>3. CASE CrossDied
    BY <2>3 DEF CrossDied, Left
  <2>. QED
    BY <1>1, <2>1, <2>2, <2>3 DEF Engine
<1>2. CASE LocallyPaused \/ BalanceShort
  BY <1>2 DEF LocallyPaused, BalanceShort, Failed
<1>3. CASE HardKilled
  BY <1>3 DEF HardKilled, Failed, Left
<1>4. CASE HardFilled
  BY <1>4 DEF HardFilled, GoesTo, Left
<1>5. CASE CheapKilled
  BY <1>5 DEF CheapKilled, StartRollback, GoesTo, Left, Attributed
<1>6. CASE CheapFilled
  BY <1>6 DEF CheapFilled, Left
<1>7. CASE NoBid
  BY <1>7 DEF NoBid, NextSale, GoesTo, Failed
<1>8. CASE SoldUnanswered
  BY <1>8 DEF SoldUnanswered, NextSale, GoesTo, Failed
<1>9. ASSUME NEW n \in {0, Count}, HardInDoubt(n) PROVE Bystander
  BY <1>9 DEF HardInDoubt, Failed
<1>10. ASSUME NEW n \in {0, Count}, CheapInDoubt(n) PROVE Bystander
  BY <1>10 DEF CheapInDoubt, StartRollback, GoesTo, Left, Attributed
<1>11. ASSUME NEW n \in 1..Count, HardShort(n) PROVE Bystander
  BY <1>11 DEF HardShort, StartRollback, GoesTo, Left, Attributed
<1>12. ASSUME NEW n \in 1..Count, CheapShort(n) PROVE Bystander
  BY <1>12 DEF CheapShort, StartRollback, GoesTo, Left, Attributed
<1>13. ASSUME NEW n \in 1..Count, Sold(n) PROVE Bystander
  BY <1>13 DEF Sold, NextSale, GoesTo, Failed
<1>14. ASSUME NEW c, NEW a, WindowMoves(c, a) PROVE Bystander
  BY <1>14 DEF WindowMoves
<1>15. CASE DayPasses
  BY <1>15 DEF DayPasses
<1>16. CASE WatchdogPauses \/ AdminPause \/ EngageKillSwitch \/ ScriptPauses
  BY <1>16 DEF WatchdogPauses, AdminPause, EngageKillSwitch, ScriptPauses, Others
<1>19. CASE ScriptPersists
  BY <1>19 DEF ScriptPersists
<1>17. CASE ClearKillSwitch
  BY <1>17 DEF ClearKillSwitch
<1>18. CASE UNCHANGED vars
  BY <1>18 DEF vars
<1>. QED
  BY <1>1, <1>2, <1>3, <1>4, <1>5, <1>6, <1>7, <1>8, <1>9, <1>10, <1>11, <1>12, <1>13, <1>14,
     <1>15, <1>16, <1>17, <1>18, <1>19

\* The motor's own pause is released with everything it stood for.
LEMMA EntersTells ==
  ASSUME OrphanInv, NEW ok \in BOOLEAN, Enters(ok), pc' \in {"balance", "idle"},
         ok \/ pc' = "idle", UNCHANGED target
  PROVE  OrphanInv'
<1> USE DEF Enters, ledger, exchange, rolling
<1>1. AttemptOK' /\ OrphansOK'
  BY DEF OrphanInv, AttemptOK, OrphansOK, NoPause, Stages
<1>2. LocalFacts'
  BY DEF OrphanInv, LocalFacts, Sending
<1>3. Attributed'
  <2>1. ASSUME pause # "other" PROVE \A k \in orphans : local # NoPause
    BY <2>1, TickersAssumption DEF OrphanInv, Attributed, NoPause
  <2>2. CASE ok
    <3>1. pause # "other"
      BY <2>2 DEF AutoResumes
    <3>2. orphans' = {}
      BY <2>1, <3>1
    <3>. QED
      BY <3>2 DEF Attributed
  <2>3. CASE ~ok
    BY <2>3, <2>1 DEF OrphanInv, Attributed, AutoResumes, Sending
  <2>. QED
    BY <2>2, <2>3
<1>4. Polled'
  BY DEF Polled
<1>. QED
  BY <1>1, <1>2, <1>3, <1>4 DEF OrphanInv

\* An attempt begins only with no pause of the motor, so nothing is forgotten of one.
LEMMA IntentsTell ==
  ASSUME OrphanInv, PersistIntents
  PROVE  OrphanInv'
<1>1. /\ pc = "balance" /\ local = NoPause
      /\ UNCHANGED <<local, orphans, pause, target>>
      /\ pc' \in {"hard", "idle"}
  BY DEF PersistIntents, OrphanInv, LocalFacts, Sending, GoesTo, Left
<1>2. orphans = {}
  BY <1>1 DEF OrphanInv, Attributed, Sending
<1>3. AttemptOK'
  <2>1. CASE UNCHANGED <<att, market>> /\ pc' = "idle"
    BY <1>1, <2>1 DEF OrphanInv, AttemptOK
  <2>2. CASE att < MaxAttempts /\ att' = att + 1 /\ market' = [market EXCEPT ![att + 1] = target]
             /\ pc' = "hard"
    <3>1. att + 1 \in Attempts /\ att + 1 \in 0..MaxAttempts
      BY <2>2, BoundsAssumption DEF OrphanInv, AttemptOK, Attempts
    <3>2. target \in Tickers
      BY <1>1 DEF OrphanInv, AttemptOK
    <3>. QED
      BY <1>1, <2>2, <3>1, <3>2 DEF OrphanInv, AttemptOK
  <2>. QED
    BY <2>1, <2>2 DEF PersistIntents, GoesTo, Left
<1>4. OrphansOK' /\ LocalFacts' /\ Attributed' /\ Polled'
  BY <1>1, <1>2 DEF OrphanInv, OrphansOK, LocalFacts, Attributed, Polled
<1>. QED
  BY <1>3, <1>4 DEF OrphanInv

\* An abort that leaves a leg pauses the motor for its market.
LEMMA AbortTells ==
  ASSUME OrphanInv, sale.leg \in Legs, Abort
  PROVE  OrphanInv'
<1>1. /\ pc = "sell" /\ pc' \in {"idle", "sell"} /\ UNCHANGED <<target, att, market, table, fill, sold>>
      /\ orphans' = orphans \union {Key(sale.leg)}
      /\ \/ local' = [ticker |-> target, stage |-> "young"] /\ UNCHANGED pause
         \/ UNCHANGED local /\ pause' = "other"
  BY DEF Abort, NextSale, GoesTo, Failed, exchange
<1>2. /\ target \in Tickers /\ att \in Attempts /\ market[att] = target
      /\ local = NoPause \/ (local.stage = "young" /\ local.ticker = target)
  BY <1>1 DEF OrphanInv, AttemptOK, LocalFacts
<1>3. Key(sale.leg) \in Keys /\ Key(sale.leg)[1] = att
  BY <1>2 DEF Key, Keys
<1>4. AttemptOK' /\ OrphansOK'
  BY <1>1, <1>2, <1>3 DEF OrphanInv, AttemptOK, OrphansOK, Stages
<1>5. LocalFacts'
  BY <1>1, <1>2 DEF OrphanInv, LocalFacts, Sending
<1>6. Attributed'
  <2>1. CASE local' = [ticker |-> target, stage |-> "young"] /\ UNCHANGED pause
    <3>1. ASSUME NEW k \in orphans PROVE market[k[1]] \in Tickers
                                         /\ (market[k[1]] = target \/ pause = "other")
      BY <1>2, TickersAssumption DEF OrphanInv, Attributed, NoPause
    <3>. QED
      BY <1>1, <1>2, <1>3, <2>1, <3>1 DEF Attributed, Sending
  <2>2. CASE UNCHANGED local /\ pause' = "other"
    BY <1>1, <1>2, <1>3, <2>2 DEF OrphanInv, Attributed, Sending
  <2>. QED
    BY <1>1, <2>1, <2>2
<1>7. Polled'
  BY <1>1, <1>2 DEF Polled, NoPause
<1>. QED
  BY <1>4, <1>5, <1>6, <1>7 DEF OrphanInv

\* The poller looks, and time passes after it did.
LEMMA PollTells ==
  ASSUME OrphanInv, "poller" \notin Faults, Sync \/ GracePasses
  PROVE  OrphanInv'
<1>1. /\ UNCHANGED <<orphans, market, pause, fill, sold, att, pc, target>>
      /\ local'.ticker = local.ticker
      /\ UNCHANGED local \/ (local # NoPause /\ local' \in [ticker : {local.ticker}, stage : Stages]
                             /\ pc \notin Sending \union {"sell", "down"})
  BY DEF Sync, GracePasses, exchange, engine, rolling, OrphanInv, OrphansOK, LocalFacts, Stages
<1>2. AttemptOK' /\ OrphansOK' /\ Attributed' /\ LocalFacts'
  BY <1>1, TickersAssumption DEF OrphanInv, AttemptOK, OrphansOK, Attributed, LocalFacts, NoPause,
     Sending
<1>3. \A t : Net(t)' = Net(t)
  BY <1>1, NetSame
<1>4. Polled'
  <2>1. CASE Sync
    <3>1. ASSUME local' # NoPause PROVE table'[local'.ticker] = Net(local'.ticker)
      BY <1>1, <2>1, <3>1 DEF Sync, OrphanInv, LocalFacts
    <3>. QED
      BY <1>3, <3>1 DEF Polled
  <2>2. CASE GracePasses
    BY <1>1, <1>3, <2>2 DEF GracePasses, OrphanInv, Polled
  <2>. QED
    BY <2>1, <2>2
<1>. QED
  BY <1>2, <1>4 DEF OrphanInv

\* Motor 3 sells of what the table shows, so the table does not show nothing.
LEMMA OrphanSaleTells ==
  ASSUME OrphanInv, HeldOK, RowsOK, NEW k \in Keys, SellOrphan(k)
  PROVE  OrphanInv'
<1>1. /\ UNCHANGED <<local, orphans, market, pause, fill, table, att, pc, target>>
      /\ pc \in {"idle", "task", "balance"}
  BY DEF SellOrphan, engine
<1>2. PICK m : /\ sold' = [sold EXCEPT ![k] = @ + m] /\ m \in 1..row[k].n
               /\ m <= (IF k[2] = "hard" THEN table[market[k[1]]] ELSE -table[market[k[1]]])
               /\ table[market[k[1]]] = Net(market[k[1]])
  <2>. DEFINE p == IF k[2] = "hard" THEN table[market[k[1]]] ELSE -table[market[k[1]]]
              m == IF p < row[k].n THEN p ELSE row[k].n
  <2>1. m \in 1..row[k].n /\ sold' = [sold EXCEPT ![k] = @ + m]
        /\ table[market[k[1]]] = Net(market[k[1]])
    BY DEF SellOrphan
  <2>2. row[k].n \in Nat
    <3>1. row[k] \in Row
      BY DEF RowsOK
    <3>. QED
      BY <3>1, RowTyped, BoundsAssumption
  <2>3. p \in Int
    BY <2>1, NetInt
  <2>4. m <= p
    BY <2>2, <2>3
  <2>. QED
    BY <2>1, <2>4
<1>3. AttemptOK' /\ OrphansOK' /\ LocalFacts' /\ Attributed'
  BY <1>1 DEF OrphanInv, AttemptOK, OrphansOK, LocalFacts, Attributed
<1>4. Polled'
  <2>1. CASE local.ticker = market[k[1]]
    <3>1. table[market[k[1]]] # 0
      BY <1>2
    <3>. QED
      BY <1>1, <2>1, <3>1 DEF Polled
  <2>2. CASE local.ticker # market[k[1]]
    <3>1. m \in Nat
      BY <1>2
    <3>2. Net(local.ticker)' = Net(local.ticker)
      BY <1>1, <1>2, <2>2, <3>1, NetElsewhere
    <3>. QED
      BY <1>1, <3>2 DEF OrphanInv, Polled
  <2>. QED
    BY <2>1, <2>2
<1>. QED
  BY <1>3, <1>4 DEF OrphanInv

\* A resume or a restart finds no orphan, or finds its pause still told.
LEMMA RestartTells ==
  ASSUME OrphanInv, AdminResume \/ Crash \/ \E old \in SUBSET Keys : Boot(old)
  PROVE  OrphanInv'
<1>1. CASE AdminResume
  <2>1. /\ UNCHANGED <<local, market, table, fill, sold, att, pc, target>>
        /\ orphans' = {k \in orphans : market[k[1]] = local.ticker}
    BY <1>1 DEF AdminResume, exchange, engine
  <2>2. Net(local.ticker)' = Net(local.ticker)
    BY <2>1, NetSame
  <2>. QED
    BY <2>1, <2>2 DEF OrphanInv, AttemptOK, OrphansOK, LocalFacts, Attributed, Polled
<1>2. CASE Crash
  <2>1. /\ UNCHANGED <<market, att>> /\ orphans' = {} /\ local' = NoPause
        /\ pc' = "down" /\ target' = NoTicker
    BY <1>2 DEF Crash
  <2>. QED
    BY <2>1 DEF OrphanInv, AttemptOK, OrphansOK, LocalFacts, Attributed, Polled, NoPause, Stages
<1>3. CASE \E old \in SUBSET Keys : Boot(old)
  <2>1. /\ UNCHANGED <<local, orphans, market, att, target>>
        /\ pc = "down" /\ pc' = "idle"
    BY <1>3 DEF Boot, GoesTo
  <2>2. local = NoPause /\ orphans = {}
    BY <2>1 DEF OrphanInv, LocalFacts, Attributed
  <2>. QED
    BY <2>1, <2>2
    DEF OrphanInv, AttemptOK, OrphansOK, LocalFacts, Attributed, Polled, Sending
<1>. QED
  BY <1>1, <1>2, <1>3

\* Every step keeps the orphans told, if the portfolio poller runs.
LEMMA OrphansKept ==
  "poller" \notin Faults /\ LedgerInv /\ OrphanInv /\ [Next]_vars => OrphanInv'
<1> SUFFICES ASSUME "poller" \notin Faults, LedgerInv, OrphanInv, [Next]_vars PROVE OrphanInv'
  OBVIOUS
<1>1. "poller" \notin Faults
  OBVIOUS
<1>2. HeldOK /\ RowsOK /\ sale.leg \in Legs
  BY DEF LedgerInv, SaleOK
<1>3. CASE Engine \/ UNCHANGED vars
  BY <1>3, Bystanders, BystanderKeeps
<1>4. CASE Executor
  <2>1. CASE Approve
    BY <2>1, EntersTells DEF Approve, GoesTo
  <2>2. CASE Reject
    BY <2>2, EntersTells DEF Reject, Failed
  <2>3. CASE PersistIntents
    BY <2>3, IntentsTell
  <2>4. CASE Abort
    BY <1>2, <2>4, AbortTells
  <2>5. CASE ~(Approve \/ Reject \/ PersistIntents \/ Abort)
    <3>1. Bystander
      BY <1>4, <2>5, Bystanders DEF Executor
    <3>. QED
      BY <3>1, BystanderKeeps
  <2>. QED
    BY <2>1, <2>2, <2>3, <2>4, <2>5
<1>5. CASE Clock
  <2>1. CASE GracePasses
    BY <1>1, <2>1, PollTells
  <2>2. CASE ~GracePasses
    <3>1. Bystander
      BY <1>5, <2>2, Bystanders DEF Clock
    <3>. QED
      BY <3>1, BystanderKeeps
  <2>. QED
    BY <2>1, <2>2
<1>6. CASE Surroundings
  <2>1. CASE Sync
    BY <1>1, <2>1, PollTells
  <2>2. CASE \E k \in Keys : SellOrphan(k)
    BY <1>2, <2>2, OrphanSaleTells
  <2>3. CASE AdminResume \/ Crash \/ \E old \in SUBSET Keys : Boot(old)
    BY <2>3, RestartTells
  <2>4. CASE \/ WatchdogPauses \/ AdminPause \/ EngageKillSwitch \/ ClearKillSwitch
             \/ ScriptPersists \/ ScriptPauses
    BY <2>4, Bystanders, BystanderKeeps
  <2>. QED
    BY <1>6, <2>1, <2>2, <2>3, <2>4 DEF Surroundings
<1>. QED
  BY <1>3, <1>4, <1>5, <1>6 DEF Next

\* There is no orphan at first.
LEMMA OrphansInitially == Init => OrphanInv
BY BoundsAssumption
DEF Init, OrphanInv, AttemptOK, OrphansOK, LocalFacts, Attributed, Polled, NoPause, Stages, Sending

\* Where the poller runs, no attempt is approved while a leg this process abandoned leaves
\* its market exposed (_pause_on_aborted_rollback, _maybe_release_local_pause): through
\* partial sales, orphan sales, pauses and resumes at any moment, crashes and every other
\* fault.
THEOREM OrphansAlwaysStop ==
  ASSUME "poller" \notin Faults
  PROVE  Spec => OrphanStopsMotor
<1>1. ASSUME BrakeInv, OrphanInv, [Next]_vars, Approved, NEW k \in orphans
      PROVE  Net(market[k[1]]) = 0
  <2>1. Approve
    BY <1>1, BrakesKept DEF Tame, Reject, Failed, Approved
  <2>2. pause # "other" /\ (local # NoPause => Releasable)
    BY <2>1 DEF Approve, Enters, AutoResumes
  <2>3. market[k[1]] \in Tickers /\ market[k[1]] = local.ticker
    BY <1>1, <2>2 DEF OrphanInv, Attributed
  <2>4. local # NoPause
    BY <2>3, TickersAssumption DEF NoPause
  <2>. QED
    BY <1>1, <2>2, <2>3, <2>4 DEF Releasable, OrphanInv, Polled
<1>2. BrakeInv /\ OrphanInv /\ [Next]_vars
        => [Approved => \A k \in orphans : Net(market[k[1]]) = 0]_vars
  BY <1>1
<1>3. LedgerInv /\ OrphanInv /\ [Next]_vars => OrphanInv'
  BY OrphansKept
<1>4. LedgerInv /\ [Next]_vars => LedgerInv'
  BY LedgerKept
<1>. QED
  BY <1>2, <1>3, <1>4, AlwaysBraked, LedgerInitially, OrphansInitially, PTL
  DEF Spec, OrphanStopsMotor

=============================================================================
