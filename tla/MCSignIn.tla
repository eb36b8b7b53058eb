------------------------------ MODULE MCSignIn ------------------------------
(* One browser and three requests, one of which signs in: what the pages and *)
(* the back office are asked of while, before and after somebody does.       *)
EXTENDS SignIn

CONSTANTS u1, b1, p1, p2, p3

Asks(ops) == {j \in Job : j.op \in ops /\ ("need" \in DOMAIN j => j.need # AdminPerm)}

\* The other requests of a browser that signs in by form, by the provider or to the back office.
ByForm     == {f \in [Procs -> Asks({"page", "login", "logout"})] : f[p1].op = "login" /\ \A p \in Procs : f[p].op = "login" => f[p].form}
ByProvider == {f \in [Procs -> Asks({"page", "logout", "consent", "callback"})] :
                  f[p1].op = "consent" /\ f[p2].op = "callback" /\ f[p2].state = p1 /\ f[p3].op \in {"page", "logout"}}
ToAdmin    == {f \in [Procs -> Asks(BackOffice)] : f[p1].op \in {"adminlogin", "breakglass"}}

SignIns == ByForm \cup ByProvider \cup ToAdmin

SomeGrants == {{}, Perms}
=============================================================================
