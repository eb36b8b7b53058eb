---------------------------- MODULE KycRequests ----------------------------
(***************************************************************************)
(* The review queue as the server runs it: every operation is an HTTP      *)
(* request with its own database transaction at READ COMMITTED.  The       *)
(* viewer's permissions are resolved when the request arrives, the row is  *)
(* read with a plain SELECT, the guards look at that copy, and the UPDATE  *)
(* (by primary key, with no version in its WHERE clause) and the audit row *)
(* commit together.  Between those points other requests run.              *)
(*                                                                         *)
(* An UPDATE takes the row lock until the commit, so the write, the audit  *)
(* row and the commit of one request are one step.  A request that raises, *)
(* or whose client goes away, rolls back: Abort.                           *)
(***************************************************************************)
EXTENDS KycReview

CONSTANT Requests   \* each request is handled once

VARIABLES granted,  \* user -> permissions its roles resolve to in the database
          pc,       \* request -> where it is
          req,      \* request -> its user, case, operation and resolved permissions
          seen      \* request -> the row get_case returned to it

vars == <<cases, trail, granted, pc, req, seen>>

Call == [user : Users, case : Cases, op : Ops, perms : SUBSET Permissions]

Init ==
    /\ ReviewInit
    /\ granted \in [Users -> RoleGrants]
    /\ pc = [r \in Requests |-> "new"]
    /\ req = [r \in Requests |-> <<>>]
    /\ seen = [r \in Requests |-> <<>>]

\* An administrator assigns or revokes a role while requests are running.
ChangeRole(u, perms) ==
    /\ granted' = [granted EXCEPT ![u] = perms]
    /\ UNCHANGED <<cases, trail, pc, req, seen>>

\* The page gate (kyc.review), then _require and _require_reason, all judged on
\* the permissions resolved now.
Arrive(r, u, c, op, legal) ==
    /\ pc[r] = "new"
    /\ IF Review \in granted[u] /\ Needs[op] \in granted[u] /\ ReasonGiven(op, legal)
       THEN /\ pc' = [pc EXCEPT ![r] = "admitted"]
            /\ req' = [req EXCEPT ![r] = [user |-> u, case |-> c, op |-> op, perms |-> granted[u]]]
       ELSE /\ pc' = [pc EXCEPT ![r] = "refused"]
            /\ UNCHANGED req
    /\ UNCHANGED <<cases, trail, granted, seen>>

\* Faulty: the row's state is not checked.
ReadWithoutGuards(r) ==
    /\ pc[r] = "admitted"
    /\ pc' = [pc EXCEPT ![r] = "accepted"]
    /\ seen' = [seen EXCEPT ![r] = cases[req[r].case]]
    /\ UNCHANGED <<cases, trail, granted, req>>

\* get_case and the operation's guards on the row it returned.
ReadCase(r) ==
    /\ pc[r] = "admitted"
    /\ LET q == req[r]
       IN  IF Accepts(q.op, cases[q.case], q.user, q.perms)
           THEN /\ pc' = [pc EXCEPT ![r] = "accepted"]
                /\ seen' = [seen EXCEPT ![r] = cases[q.case]]
                /\ UNCHANGED req
           ELSE /\ pc' = [pc EXCEPT ![r] = "refused"]
                /\ req' = [req EXCEPT ![r] = <<>>]
                /\ UNCHANGED seen
    /\ UNCHANGED <<cases, trail, granted>>

\* Faulty: the commit comes before the audit row, which is lost.
ApplyWithoutAudit(r) ==
    /\ pc[r] = "accepted"
    /\ cases' = [cases EXCEPT ![req[r].case] = Changed(req[r].op, @, req[r].user)]
    /\ pc' = [pc EXCEPT ![r] = "done"]
    /\ req' = [req EXCEPT ![r] = <<>>]
    /\ seen' = [seen EXCEPT ![r] = <<>>]
    /\ UNCHANGED <<trail, granted>>

\* _apply: UPDATE the changed columns, audit what was read, commit.
Apply(r) ==
    /\ pc[r] = "accepted"
    /\ LET q == req[r]
       IN  /\ cases' = [cases EXCEPT ![q.case] = Changed(q.op, @, q.user)]
           /\ trail' = [trail EXCEPT ![q.case] = Append(@, AuditOf(q.op, seen[r], q.user))]
    /\ pc' = [pc EXCEPT ![r] = "done"]
    /\ req' = [req EXCEPT ![r] = <<>>]
    /\ seen' = [seen EXCEPT ![r] = <<>>]
    /\ UNCHANGED granted

\* The request fails before its commit; the session rolls back.
Abort(r) ==
    /\ pc[r] \in {"admitted", "accepted"}
    /\ pc' = [pc EXCEPT ![r] = "failed"]
    /\ req' = [req EXCEPT ![r] = <<>>]
    /\ seen' = [seen EXCEPT ![r] = <<>>]
    /\ UNCHANGED <<cases, trail, granted>>

Next ==
    \/ \E u \in Users, perms \in RoleGrants : ChangeRole(u, perms)
    \/ \E r \in Requests, u \in Users, c \in Cases, op \in Ops, legal \in BOOLEAN :
           Arrive(r, u, c, op, legal)
    \/ \E r \in Requests : ReadCase(r)
    \/ \E r \in Requests : Apply(r)
    \/ \E r \in Requests : Abort(r)

Spec == Init /\ [][Next]_vars

-----------------------------------------------------------------------------
Admitted(r) == pc[r] \in {"admitted", "accepted"}

TypeOK ==
    /\ ReviewTypeOK
    /\ granted \in [Users -> RoleGrants]
    /\ pc \in [Requests -> {"new", "admitted", "accepted", "done", "refused", "failed"}]
    /\ req \in [Requests -> Call \cup {<<>>}]
    /\ seen \in [Requests -> Row \cup {<<>>}]
    /\ \A r \in Requests : (Admitted(r) => req[r] \in Call) /\ (pc[r] = "accepted" => seen[r] \in Row)

\* A request commits on a case whose row is not, or no longer, the one it read.
\* Nothing in the code keeps it from doing so.
StaleWrite(c) ==
    \E r \in Requests :
        /\ pc[r] = "accepted" /\ req[r].case = c
        /\ pc'[r] = "done"
        /\ seen[r] # cases[c]

\* However requests overlap, every step that commits on the row it read is a
\* whole operation of the atomic queue: the permission, the guards, the columns
\* and the audit row are judged and written as if the request had been alone.
\* Stale writes are the only way the service leaves its own rules.
AtomicUnlessStale ==
    [][UNCHANGED reviewVars \/ (\E c \in Cases : StaleWrite(c)) \/ ReviewNext]_vars

\* However requests overlap, and whatever stale writes did before or do to other
\* cases: only a stale write on a case lets its assignee decide it, breaks its
\* audit chain, or takes back its decision.
RulesHoldUnlessStale ==
    [][\A c \in Cases : ~StaleWrite(c) =>
          /\ DecidedByAnother(c) => DecidedByAnother(c)'
          /\ Chained(c) => Chained(c)'
          /\ cases[c].state \in DecidedStates => cases'[c] = cases[c]]_reviewVars
=============================================================================
