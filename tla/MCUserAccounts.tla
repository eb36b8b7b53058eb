--------------------------- MODULE MCUserAccounts ---------------------------
(* What may be asked of two requests that overlap, and of a third. *)
EXTENDS UserAccounts, TLC

CONSTANTS a, b, mail, post, google, i1, i2, i3, gold, p1, p2, p3

MCIds    == {i1, i2, i3}
MCNames  == {a, b}
MCEmails == {mail, post}
MCLinks  == {google}
MCTiers  == {gold}

SignUps   == {[op |-> "signup", username |-> b, email |-> e, link |-> NoLink] : e \in MCEmails}
               \cup {[op |-> "signup", username |-> i1, email |-> post, link |-> google]}
Scripts   == {[op |-> "bootstrap", username |-> b, email |-> e] : e \in MCEmails}
Updates   == {[op |-> "update", by |-> k, target |-> a, given |-> g, username |-> b, email |-> post, link |-> google] :
                k \in {i1, i2}, g \in {{"link"}, {"username", "email"}}}
Retiers   == {[op |-> "retier", by |-> i1, target |-> n, tier |-> gold] : n \in MCNames}
Goodbyes  == {[op |-> "deactivate", by |-> i1, target |-> n] : n \in MCNames}
Erasures  == {[op |-> "erase", by |-> i1, target |-> n] : n \in MCNames}
Adds      == {[op |-> "add", username |-> b, email |-> post, super |-> FALSE, tier |-> gold]}
Edits     == {[op |-> "edit", id |-> k, username |-> b, email |-> mail, link |-> google, super |-> s, tier |-> NoTier] :
                k \in {i1, i2}, s \in BOOLEAN}
AdminEnds == {[op |-> "adminErase", id |-> k] : k \in {i1, i2}}
Drops     == {[op |-> "dropTier", tier |-> gold]}

\* Every request, and the changes of a profile that overlap the end of an account.
AllRequests == SignUps \cup Scripts \cup Updates \cup Retiers \cup Goodbyes \cup Erasures
                 \cup Adds \cup Edits \cup AdminEnds \cup Drops
ChangesAndEnds == Updates \cup Goodbyes \cup Erasures

Symmetric == Permutations({p1, p2, p3})
=============================================================================
