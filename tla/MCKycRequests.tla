--------------------------- MODULE MCKycRequests ---------------------------
(* Model-checking instance of KycRequests. *)
EXTENDS KycRequests, TLC

Symmetry == Permutations(Users) \cup Permutations(Requests)
=============================================================================
