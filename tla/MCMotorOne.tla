----------------------------- MODULE MCMotorOne -----------------------------
(* Instances of MotorOne for TLC. *)
EXTENDS MotorOne
=============================================================================
