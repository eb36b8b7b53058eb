----------------------------- MODULE KycReview -----------------------------
(***************************************************************************)
(* What the review queue promises: every operation judges the row it       *)
(* changes, in one step, and leaves one audit event that tells exactly     *)
(* what it changed.  Every step of the services keeps this promise, except *)
(* a commit over a row that changed since it was read (KycRequests).       *)
(***************************************************************************)
EXTENDS KycCase, Sequences

CONSTANT Cases

VARIABLES cases,   \* the kyc_case table
          trail    \* per case, the audit events in the order they were written

reviewVars == <<cases, trail>>

ReviewInit ==
    /\ cases \in [Cases -> SeededRows]
    /\ trail = [c \in Cases |-> <<>>]

\* A user holding some permissions takes one operation on one case.
Transition(u, c, op, perms) ==
    /\ Needs[op] \in perms
    /\ Accepts(op, cases[c], u, perms)
    /\ cases' = [cases EXCEPT ![c] = Changed(op, @, u)]
    /\ trail' = [trail EXCEPT ![c] = Append(@, AuditOf(op, cases[c], u))]

ReviewNext ==
    \E u \in Users, c \in Cases, op \in Ops, perms \in SUBSET Permissions :
        Transition(u, c, op, perms)

ReviewSpec == ReviewInit /\ [][ReviewNext]_reviewVars

-----------------------------------------------------------------------------
ReviewTypeOK ==
    /\ cases \in [Cases -> Row]
    /\ trail \in [Cases -> Seq(Event)]

Touched(c) == trail[c] # <<>>
LastEvent(c) == trail[c][Len(trail[c])]

DecidedByAnother(c) ==
    cases[c].state \in DecidedStates /\ cases[c].decided_by \in Users
        => cases[c].decided_by # cases[c].assigned_to

\* Maker/checker separation: a decided case was decided by somebody other than
\* the reviewer it is assigned to (_decide refuses the assignee).
MakerChecker == \A c \in Cases : DecidedByAnother(c)

\* A decision is final: no service function moves a case out of a decided
\* state, or rewrites who decided it (every guard asks for another state).
DecisionIsFinal ==
    [][\A c \in Cases : cases[c].state \in DecidedStates => cases'[c] = cases[c]]_reviewVars

Chained(c) ==
    /\ \A i \in 1..(Len(trail[c]) - 1) : trail[c][i + 1].before = trail[c][i].after
    /\ Touched(c) => LastEvent(c).after = Snapshot(cases[c])

\* The audit trail of a case is a chain: each event starts from the state and
\* assignee the event before it ended with, and the last one ends at the row.
TrailIsAChain == \A c \in Cases : Chained(c)

\* A decision is taken on a case in review: _decide goes from in_review to
\* approved or rejected and from nowhere else.
DecisionsComeFromReview ==
    [][\A c \in Cases :
        Len(trail'[c]) > Len(trail[c]) /\ LastEvent(c)'.op \in Decisions
            => cases[c].state = "in_review"]_reviewVars

\* The holder of a case follows its state, whatever overlaps: a case back in
\* the queue is held by nobody, and one taken into review is held by somebody.
\* (Only a seeded in_review row whose demo user is missing has no holder.)
HolderMatchesState ==
    \A c \in Cases :
        /\ cases[c].state = "pending" => cases[c].assigned_to = NoUser
        /\ cases[c].state = "in_review" /\ Touched(c) => cases[c].assigned_to \in Users

\* A decision is signed, whatever overlaps: the reason on a decided case was
\* written by the user recorded as the decider, and the trail ends with it.
DecisionIsSigned ==
    \A c \in Cases :
        cases[c].state \in DecidedStates /\ Touched(c) =>
            /\ cases[c].decided_by \in Users
            /\ cases[c].decision_reason = cases[c].decided_by
            /\ LastEvent(c).op \in Decisions
            /\ LastEvent(c).actor = cases[c].decided_by

\* The trail never lags the table, whatever overlaps: the last event of a case
\* ends in the state the row is in, and names the holder whenever the
\* operation wrote one (claim, release and resume do, decisions do not).
TrailEndsAtTheRow ==
    \A c \in Cases : Touched(c) =>
        /\ LastEvent(c).after.state = cases[c].state
        /\ LastEvent(c).op \in {"claim", "release", "resume"} => LastEvent(c).after = Snapshot(cases[c])

\* Every audited decision was, on the row its maker had read, a decision on a
\* case in review and held by somebody else.
NobodySignsOffTheirOwnWork ==
    \A c \in Cases : \A i \in 1..Len(trail[c]) :
        trail[c][i].op \in Decisions =>
            /\ trail[c][i].before.state = "in_review"
            /\ trail[c][i].before.assigned_to # trail[c][i].actor

\* A change of a case and its audit row land together: a step that changes the
\* row appends exactly one event, and no step rewrites an event.
ChangeIsAudited ==
    [][\A c \in Cases :
        /\ cases'[c] # cases[c] => Len(trail'[c]) = Len(trail[c]) + 1
        /\ \A i \in 1..Len(trail[c]) : i <= Len(trail'[c]) /\ trail'[c][i] = trail[c][i]]_reviewVars

\* The buttons are the service's rules asked ahead of time: on every row a
\* user can see, an action is offered exactly when the service accepts it.
ButtonsMatchService ==
    \A c \in Cases, u \in Users, perms \in RoleGrants :
        AllowedActions(cases[c], u, perms)
            = {op \in Ops : Needs[op] \in perms /\ Accepts(op, cases[c], u, perms)}
=============================================================================
