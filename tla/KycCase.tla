------------------------------ MODULE KycCase ------------------------------
(***************************************************************************)
(* The vocabulary and the rules of the KYC review queue: what one row of   *)
(* the kyc_case table holds, which permission and which guard each         *)
(* operation of service.py asks for, and what it writes.  The module has   *)
(* no state; KycReview and KycRequests use it.                             *)
(*                                                                         *)
(* decision_reason is represented by who wrote it: a user, the seeder, or  *)
(* NoUser for NULL.  The text itself only matters through its length, which *)
(* ReasonGiven stands for.                                                 *)
(***************************************************************************)
EXTENDS Naturals

CONSTANTS Users,    \* user ids
          NoUser,   \* NULL in assigned_to, decided_by and decision_reason
          Seeder    \* the author of the reasons the demo data is created with

ASSUME KycUsersAssumption ==
    /\ NoUser \notin Users
    /\ Seeder \notin Users
    /\ Seeder # NoUser

Review   == "kyc.review"
Approve  == "kyc.approve"
Escalate == "kyc.escalate"
Permissions == {Review, Approve, Escalate}

\* The permission sets the seeded roles resolve to; {} is a user with no role.
RoleGrants == {{}, {Review}, {Review, Approve, Escalate}}

States == {"pending", "in_review", "approved", "rejected", "escalated"}
DecidedStates == {"approved", "rejected"}

Row == [state           : States,
        assigned_to     : Users \cup {NoUser},
        decided_by      : Users \cup {NoUser},
        decision_reason : Users \cup {NoUser, Seeder}]

\* Rows are only ever created by the seed; a demo user it cannot find is NULL.
SeededRows ==
    LET Seed(s, a, d, t) == [state |-> s, assigned_to |-> a, decided_by |-> d, decision_reason |-> t]
        Found == Users \cup {NoUser}
    IN  {Seed("pending", NoUser, NoUser, NoUser), Seed("escalated", NoUser, NoUser, Seeder)}
          \cup {Seed("in_review", a, NoUser, NoUser) : a \in Found}
          \cup {Seed(s, NoUser, d, Seeder) : s \in DecidedStates, d \in Found}

-----------------------------------------------------------------------------
Ops == {"claim", "release", "approve", "reject", "escalate", "resume"}
Decisions == {"approve", "reject"}

Needs == [op \in Ops |->
    CASE op \in {"claim", "release"}             -> Review
      [] op \in {"approve", "reject", "resume"}  -> Approve
      [] op = "escalate"                         -> Escalate]

\* _require_reason: decisions and escalations carry a reason of legal length.
ReasonGiven(op, legal) == op \in {"approve", "reject", "escalate"} => legal

CanClaim(row, u) == row.state = "pending" /\ row.assigned_to \in {NoUser, u}

CanRelease(row, u, perms) == row.state = "in_review" /\ (row.assigned_to = u \/ Approve \in perms)

\* Faulty: the assignee may decide.
DecideWithoutMakerChecker(row, u) == row.state = "in_review"

CanDecide(row, u) == row.state = "in_review" /\ row.assigned_to # u
\* Faulty: a decided case can still be escalated.
EscalateFromAnywhere(row) == row.state # "pending"

CanEscalate(row) == row.state = "in_review"

CanResume(row) == row.state = "escalated"

\* The guards an operation puts on the row it has read.
Accepts(op, row, u, perms) ==
    \/ op = "claim"        /\ CanClaim(row, u)
    \/ op = "release"      /\ CanRelease(row, u, perms)
    \/ op \in Decisions    /\ CanDecide(row, u)
    \/ op = "escalate"     /\ CanEscalate(row)
    \/ op = "resume"       /\ CanResume(row)

\* The columns each operation writes.
Held(row, u) == [row EXCEPT !.state = "in_review", !.assigned_to = u]   \* claim, resume

\* Faulty: the released case keeps its assignee.
ReleasedStillHeld(row) == [row EXCEPT !.state = "pending"]

Released(row) == [row EXCEPT !.state = "pending", !.assigned_to = NoUser]

Decided(row, u, s) == [row EXCEPT !.state = s, !.decided_by = u, !.decision_reason = u]

Escalated(row, u) == [row EXCEPT !.state = "escalated", !.decision_reason = u]

\* The UPDATE an operation issues: it writes the changed columns and no others.
Changed(op, row, u) ==
    CASE op \in {"claim", "resume"} -> Held(row, u)
      [] op = "release"  -> Released(row)
      [] op = "approve"  -> Decided(row, u, "approved")
      [] op = "reject"   -> Decided(row, u, "rejected")
      [] op = "escalate" -> Escalated(row, u)

\* Faulty: the assignee is shown the decision buttons.
ButtonsWithoutMakerChecker(row, u, perms) ==
    {op \in Ops : Needs[op] \in perms /\ 
        (Accepts(op, row, u, perms) \/ (op \in Decisions /\ row.state = "in_review"))}

\* allowed_actions: the buttons rendered for a user looking at a row.
AllowedActions(row, u, perms) ==
    LET isAssignee == row.assigned_to = u
        inReview   == row.state = "in_review"
    IN  {op \in Ops :
          \/ op = "claim" /\ row.state = "pending" /\ Review \in perms /\ row.assigned_to \in {NoUser, u}
          \/ op = "release" /\ inReview /\ Review \in perms /\ (isAssignee \/ Approve \in perms)
          \/ op \in Decisions /\ inReview /\ Approve \in perms /\ ~isAssignee
          \/ op = "escalate" /\ inReview /\ Escalate \in perms
          \/ op = "resume" /\ row.state = "escalated" /\ Approve \in perms}

-----------------------------------------------------------------------------
\* One audit event of a case: before and after carry the state and the assignee.
Snapshot(row) == [state |-> row.state, assigned_to |-> row.assigned_to]

Snapshots == [state : States, assigned_to : Users \cup {NoUser}]

Event == [op : Ops, actor : Users, before : Snapshots, after : Snapshots]

\* Faulty: the event repeats the row as it was read.
AuditBeforeTwice(op, row, u) ==
    [op |-> op, actor |-> u, before |-> Snapshot(row), after |-> Snapshot(row)]

\* The event _apply records for a row as the operation read it.
AuditOf(op, row, u) ==
    [op |-> op, actor |-> u, before |-> Snapshot(row), after |-> Snapshot(Changed(op, row, u))]
=============================================================================
