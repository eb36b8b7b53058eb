---------------------------- MODULE PaidSession ----------------------------
(***************************************************************************)
(* What the intake promises about money: a tool request buys at most one   *)
(* Devin session.  A request is free to be started until somebody claims   *)
(* it; a claim can be given back only while it has bought nothing, and a   *)
(* request that bought its session is never free again.                    *)
(***************************************************************************)
EXTENDS Naturals

CONSTANT Tickets     \* ids of the tool requests

VARIABLES claimed,   \* the requests nobody may start any more
          bought     \* ticket -> Devin sessions that exist for it

MoneyInit ==
    /\ claimed = {}
    /\ bought = [t \in Tickets |-> 0]

Take(t) ==
    /\ t \notin claimed
    /\ claimed' = claimed \cup {t}
    /\ UNCHANGED bought

Buy(t) ==
    /\ t \in claimed
    /\ bought[t] = 0
    /\ bought' = [bought EXCEPT ![t] = 1]
    /\ UNCHANGED claimed

GiveBack(t) ==
    /\ t \in claimed
    /\ bought[t] = 0
    /\ claimed' = claimed \ {t}
    /\ UNCHANGED bought

MoneyNext == \E t \in Tickets : Take(t) \/ Buy(t) \/ GiveBack(t)

MoneySpec == MoneyInit /\ [][MoneyNext]_<<claimed, bought>>
=============================================================================
