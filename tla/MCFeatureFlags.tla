--------------------------- MODULE MCFeatureFlags ---------------------------
(* Model-checking instance of FeatureFlags. *)
EXTENDS FeatureFlags, TLC

Symmetry == Permutations(Procs) \cup Permutations(Keys) \cup Permutations(Ids)
=============================================================================
