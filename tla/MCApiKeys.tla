------------------------------ MODULE MCApiKeys ------------------------------
(* Model-checking instance of ApiKeys. *)
EXTENDS ApiKeys, TLC

Symmetry == Permutations(Procs) \cup Permutations(Keys) \cup Permutations(Users)

\* One or two rows, in every place and with every verdict.
SmallTables == {t \in Permission : Cardinality({c \in Cells : t[c] # "none"}) <= 2}

\* Changes of what decides about a key, and the seed.
Changes == Issue \cup Delete \cup {j \in Create : j.expires = "later"}
             \cup {j \in Update : j.given \in {{"active"}, {"expires"}}}
=============================================================================
