------------------------------ MODULE AtomicArb ------------------------------
(***************************************************************************)
(* What execute() promises its caller: an arbitrage attempt holds all its  *)
(* legs when it ends, or none, and the one outcome where it holds some     *)
(* stops the motor until somebody has dealt with it.                       *)
(***************************************************************************)
EXTENDS Integers

CONSTANT MaxAttempts

Attempts == 1..MaxAttempts
Outcome  == {"noop", "captured", "unwound", "stuck"}

VARIABLES
  arb,    \* what became of each attempt
  halted  \* no attempt may start

vars == <<arb, halted>>

AtomicTypeOK ==
  /\ arb \in [Attempts -> Outcome \union {"new", "working"}]
  /\ halted \in BOOLEAN

Init ==
  /\ arb = [a \in Attempts |-> "new"]
  /\ halted = FALSE

\* Attempts start in order, one at a time.
Begin(a) ==
  /\ ~halted
  /\ arb[a] = "new" /\ \A b \in 1..(a - 1) : arb[b] \in Outcome
  /\ arb' = [arb EXCEPT ![a] = "working"]
  /\ UNCHANGED halted

\* All or nothing; a breaker may halt the motor all the same.
Finish(a) ==
  /\ arb[a] = "working"
  /\ \E r \in Outcome \ {"stuck"} : arb' = [arb EXCEPT ![a] = r]
  /\ halted' \in {halted, TRUE}

\* Some legs only: the motor halts in the same step.
Stick(a) ==
  /\ arb[a] = "working"
  /\ arb' = [arb EXCEPT ![a] = "stuck"]
  /\ halted' = TRUE

Stop == halted' = TRUE /\ UNCHANGED arb

\* The motor is released only if nothing is stuck.
Release ==
  /\ \A a \in Attempts : arb[a] # "stuck"
  /\ halted' = FALSE
  /\ UNCHANGED arb

Next == (\E a \in Attempts : Begin(a) \/ Finish(a) \/ Stick(a)) \/ Stop \/ Release

Spec == Init /\ [][Next]_vars
=============================================================================
