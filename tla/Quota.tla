------------------------------- MODULE Quota -------------------------------
(***************************************************************************)
(* What a limit promises, whoever counts and however: an account spends    *)
(* only while fewer uses than the limit stand on it, and a use is spent    *)
(* once, on one account.  A rolling limit forgets uses as they grow old;   *)
(* a limit of one period forgets nothing, for the next period has an       *)
(* account of its own.                                                     *)
(***************************************************************************)
EXTENDS Naturals, FiniteSets

CONSTANTS Accounts,   \* what a limit is kept for: a person, a window
          Uses,
          Limit

VARIABLE used         \* account -> the uses that stand on it

Within(a) == IsFiniteSet(used[a]) /\ Cardinality(used[a]) <= Limit

QuotaInit ==
    /\ used \in [Accounts -> SUBSET Uses]
    /\ \A a \in Accounts : Within(a)

Spend(a, x) ==
    /\ \A b \in Accounts : x \notin used[b]
    /\ Cardinality(used[a]) < Limit
    /\ used' = [used EXCEPT ![a] = @ \cup {x}]

Forget(a, x) ==
    /\ x \in used[a]
    /\ used' = [used EXCEPT ![a] = @ \ {x}]

SpendSome  == \E a \in Accounts, x \in Uses : Spend(a, x)
ForgetSome == \E a \in Accounts, x \in Uses : Forget(a, x)

PeriodSpec  == QuotaInit /\ [][SpendSome]_used
RollingSpec == QuotaInit /\ [][SpendSome \/ ForgetSome]_used
=============================================================================
