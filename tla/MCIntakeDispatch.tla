-------------------------- MODULE MCIntakeDispatch --------------------------
(* Model-checking instance of IntakeDispatch. *)
EXTENDS IntakeDispatch, TLC

Symmetry == Permutations(Users) \cup Permutations(Procs) \cup Permutations(Tickets)
=============================================================================
