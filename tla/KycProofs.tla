----------------------------- MODULE KycProofs -----------------------------
(***************************************************************************)
(* Proofs about the review queue, for any number of users, cases and       *)
(* requests.                                                               *)
(***************************************************************************)
EXTENDS KycRequests, SequenceTheorems, TLAPS

\* An operation turns a row into a row.
LEMMA ChangedType ==
    ASSUME NEW row \in Row, NEW u \in Users, NEW op \in Ops
    PROVE  Changed(op, row, u) \in Row
BY DEF Changed, Held, Released, Decided, Escalated, Row, States, Ops

\* What it audits is an event.
LEMMA AuditType ==
    ASSUME NEW row \in Row, NEW u \in Users, NEW op \in Ops
    PROVE  AuditOf(op, row, u) \in Event
<1>1. Changed(op, row, u) \in Row
  BY ChangedType
<1>2. \A x \in Row : Snapshot(x) \in Snapshots
  BY DEF Snapshot, Snapshots, Row
<1>. QED
  BY <1>1, <1>2 DEF AuditOf, Event

\* The state an operation leaves is its own, whatever row it is applied to, and
\* the operations that write the holder leave the holder they name.
LEMMA ChangedColumns ==
    ASSUME NEW row \in Row, NEW u \in Users, NEW op \in Ops
    PROVE  /\ op \in {"claim", "resume"} =>
                 /\ Changed(op, row, u).state = "in_review"
                 /\ Changed(op, row, u).assigned_to = u
           /\ op = "release" =>
                 /\ Changed(op, row, u).state = "pending"
                 /\ Changed(op, row, u).assigned_to = NoUser
           /\ op \in Decisions =>
                 /\ Changed(op, row, u).state \in DecidedStates
                 /\ Changed(op, row, u).decided_by = u
                 /\ Changed(op, row, u).decision_reason = u
                 /\ Changed(op, row, u).assigned_to = row.assigned_to
           /\ op = "escalate" => Changed(op, row, u).state = "escalated"
           /\ op = "approve" => Changed(op, row, u).state = "approved"
           /\ op = "reject" => Changed(op, row, u).state = "rejected"
BY DEF Changed, Held, Released, Decided, Escalated, Row, Ops, Decisions, DecidedStates

\* Seeded rows are rows.
LEMMA SeededType == SeededRows \subseteq Row
BY DEF SeededRows, Row, States, DecidedStates

\* Appending an event keeps the earlier ones and puts the new one last.
LEMMA AppendEvent ==
    ASSUME NEW S, NEW s \in Seq(S), NEW e \in S
    PROVE  /\ Append(s, e) \in Seq(S)
           /\ Append(s, e) # <<>>
           /\ Len(s) \in Nat
           /\ Len(Append(s, e)) = Len(s) + 1
           /\ Append(s, e)[Len(Append(s, e))] = e
           /\ \A i \in 1..Len(s) : Append(s, e)[i] = s[i]
BY AppendProperties, LenProperties

-----------------------------------------------------------------------------
\* The types every state of the served queue has.
THEOREM TypeCorrect == Spec => []TypeOK
<1>1. Init => TypeOK
  BY SeededType DEF Init, ReviewInit, TypeOK, ReviewTypeOK, Admitted
<1>2. TypeOK /\ [Next]_vars => TypeOK'
  <2> SUFFICES ASSUME TypeOK, [Next]_vars PROVE TypeOK'
    OBVIOUS
  <2> USE DEF TypeOK, ReviewTypeOK, Admitted
  <2>1. ASSUME NEW u \in Users, NEW perms \in RoleGrants, ChangeRole(u, perms) PROVE TypeOK'
    BY <2>1 DEF ChangeRole
  <2>2. ASSUME NEW r \in Requests, NEW u \in Users, NEW c \in Cases, NEW op \in Ops,
               NEW legal \in BOOLEAN, Arrive(r, u, c, op, legal)
        PROVE  TypeOK'
    <3> DEFINE call == [user |-> u, case |-> c, op |-> op, perms |-> granted[u]]
    <3>1. call \in Call
      BY DEF Call, RoleGrants, Permissions
    <3> HIDE DEF call
    <3>2. pc[r] = "new" /\ UNCHANGED <<cases, trail, granted, seen>>
      BY <2>2 DEF Arrive
    <3>3. CASE pc' = [pc EXCEPT ![r] = "admitted"] /\ req' = [req EXCEPT ![r] = call]
      BY <3>1, <3>2, <3>3
    <3>4. CASE pc' = [pc EXCEPT ![r] = "refused"] /\ UNCHANGED req
      BY <3>2, <3>4
    <3>. QED
      BY <2>2, <3>3, <3>4 DEF Arrive, call
  <2>3. ASSUME NEW r \in Requests, ReadCase(r) PROVE TypeOK'
    <3>1. req[r] \in Call /\ cases[req[r].case] \in Row
      BY <2>3 DEF ReadCase, Call
    <3>. QED
      BY <2>3, <3>1 DEF ReadCase
  <2>4. ASSUME NEW r \in Requests, Apply(r) PROVE TypeOK'
    <3> DEFINE q == req[r]
    <3>1. q \in Call /\ seen[r] \in Row /\ cases[q.case] \in Row
      BY <2>4 DEF Apply, Call
    <3>2. /\ q.user \in Users /\ q.case \in Cases /\ q.op \in Ops
      BY <3>1 DEF Call
    <3>3. Changed(q.op, cases[q.case], q.user) \in Row
      BY <3>1, <3>2, ChangedType
    <3>4. AuditOf(q.op, seen[r], q.user) \in Event
      BY <3>1, <3>2, AuditType
    <3>5. Append(trail[q.case], AuditOf(q.op, seen[r], q.user)) \in Seq(Event)
      BY <3>2, <3>4, AppendEvent
    <3>6. ReviewTypeOK'
      BY <2>4, <3>3, <3>5 DEF Apply
    <3>. QED
      BY <2>4, <3>6 DEF Apply
  <2>5. ASSUME NEW r \in Requests, Abort(r) PROVE TypeOK'
    BY <2>5 DEF Abort
  <2>6. CASE UNCHANGED vars
    BY <2>6 DEF vars
  <2>. QED
    BY <2>1, <2>2, <2>3, <2>4, <2>5, <2>6 DEF Next
<1>. QED
  BY <1>1, <1>2, PTL DEF Spec

-----------------------------------------------------------------------------
(***************************************************************************)
(* What holds however requests overlap.  The invariant the proof needs     *)
(* beyond the types: a request that passed its guards passed them on the   *)
(* row it still holds a copy of.                                           *)
(***************************************************************************)
AcceptedOnWhatWasSeen ==
    \A r \in Requests : pc[r] = "accepted" =>
        Accepts(req[r].op, seen[r], req[r].user, req[r].perms)

OverlapInv ==
    /\ TypeOK
    /\ AcceptedOnWhatWasSeen
    /\ HolderMatchesState
    /\ DecisionIsSigned
    /\ TrailEndsAtTheRow
    /\ NobodySignsOffTheirOwnWork

\* What one commit does to its own case, and that it leaves the others alone.
LEMMA ApplyEffect ==
    ASSUME TypeOK, NEW r \in Requests, Apply(r)
    PROVE  LET q == req[r]
               e == AuditOf(q.op, seen[r], q.user)
               x == Changed(q.op, cases[q.case], q.user)
           IN  /\ q \in Call /\ q.user \in Users /\ q.case \in Cases /\ q.op \in Ops
               /\ seen[r] \in Row /\ cases[q.case] \in Row /\ x \in Row /\ e \in Event
               /\ trail[q.case] \in Seq(Event) /\ Len(trail[q.case]) \in Nat
               /\ cases'[q.case] = x
               /\ trail'[q.case] = Append(trail[q.case], e)
               /\ trail'[q.case] # <<>>
               /\ Len(trail'[q.case]) = Len(trail[q.case]) + 1
               /\ trail'[q.case][Len(trail'[q.case])] = e
               /\ \A i \in 1..Len(trail[q.case]) : trail'[q.case][i] = trail[q.case][i]
               /\ \A c \in Cases \ {q.case} : cases'[c] = cases[c] /\ trail'[c] = trail[c]
<1> DEFINE q == req[r]
           e == AuditOf(q.op, seen[r], q.user)
           x == Changed(q.op, cases[q.case], q.user)
<1>1. /\ q \in Call /\ q.user \in Users /\ q.case \in Cases /\ q.op \in Ops
      /\ seen[r] \in Row /\ cases[q.case] \in Row /\ trail[q.case] \in Seq(Event)
  BY DEF Apply, TypeOK, ReviewTypeOK, Admitted, Call
<1>2. x \in Row /\ e \in Event
  BY <1>1, ChangedType, AuditType
<1>3. /\ cases'[q.case] = x
      /\ trail'[q.case] = Append(trail[q.case], e)
      /\ \A c \in Cases \ {q.case} : cases'[c] = cases[c] /\ trail'[c] = trail[c]
  BY <1>1 DEF Apply, TypeOK, ReviewTypeOK
<1>4. /\ Append(trail[q.case], e) # <<>>
      /\ Len(trail[q.case]) \in Nat
      /\ Len(Append(trail[q.case], e)) = Len(trail[q.case]) + 1
      /\ Append(trail[q.case], e)[Len(Append(trail[q.case], e))] = e
      /\ \A i \in 1..Len(trail[q.case]) : Append(trail[q.case], e)[i] = trail[q.case][i]
  BY <1>1, <1>2, AppendEvent
<1> HIDE DEF q, e, x
<1>5. /\ q \in Call /\ q.user \in Users /\ q.case \in Cases /\ q.op \in Ops
      /\ seen[r] \in Row /\ cases[q.case] \in Row /\ x \in Row /\ e \in Event
      /\ trail[q.case] \in Seq(Event) /\ Len(trail[q.case]) \in Nat
      /\ cases'[q.case] = x
      /\ trail'[q.case] = Append(trail[q.case], e)
      /\ trail'[q.case] # <<>>
      /\ Len(trail'[q.case]) = Len(trail[q.case]) + 1
      /\ trail'[q.case][Len(trail'[q.case])] = e
      /\ \A i \in 1..Len(trail[q.case]) : trail'[q.case][i] = trail[q.case][i]
      /\ \A c \in Cases \ {q.case} : cases'[c] = cases[c] /\ trail'[c] = trail[c]
  BY <1>1, <1>2, <1>3, <1>4
<1>. QED
  BY <1>5 DEF q, e, x

\* An event tells the operation, the actor, and the row it was computed from.
LEMMA AuditFields ==
    ASSUME NEW row \in Row, NEW u \in Users, NEW op \in Ops
    PROVE  LET e == AuditOf(op, row, u)
           IN  /\ e.op = op /\ e.actor = u
               /\ e.before = Snapshot(row) /\ e.after = Snapshot(Changed(op, row, u))
BY DEF AuditOf

\* Steps that leave the table and the trail alone keep what is said of them.
LEMMA TableUnchanged ==
    ASSUME OverlapInv, UNCHANGED <<cases, trail>>
    PROVE  /\ HolderMatchesState' /\ DecisionIsSigned'
           /\ TrailEndsAtTheRow' /\ NobodySignsOffTheirOwnWork'
BY DEF OverlapInv, HolderMatchesState, DecisionIsSigned, TrailEndsAtTheRow,
       NobodySignsOffTheirOwnWork, Touched, LastEvent

\* One commit keeps them, though it may overwrite a row it has not read.
LEMMA ApplyKeepsOverlapInv ==
    ASSUME OverlapInv, NEW r \in Requests, Apply(r)
    PROVE  /\ HolderMatchesState' /\ DecisionIsSigned'
           /\ TrailEndsAtTheRow' /\ NobodySignsOffTheirOwnWork'
<1> DEFINE k == req[r].case
           u == req[r].user
           op == req[r].op
           row == seen[r]
           e == AuditOf(op, row, u)
           x == Changed(op, cases[k], u)
<1>1. /\ u \in Users /\ k \in Cases /\ op \in Ops
      /\ row \in Row /\ cases[k] \in Row /\ x \in Row /\ e \in Event
      /\ Len(trail[k]) \in Nat
      /\ cases'[k] = x
      /\ trail'[k] # <<>>
      /\ Len(trail'[k]) = Len(trail[k]) + 1
      /\ trail'[k][Len(trail'[k])] = e
      /\ \A i \in 1..Len(trail[k]) : trail'[k][i] = trail[k][i]
      /\ \A c \in Cases \ {k} : cases'[c] = cases[c] /\ trail'[c] = trail[c]
  BY ApplyEffect DEF OverlapInv
<1>2. Accepts(op, row, u, req[r].perms)
  BY DEF OverlapInv, AcceptedOnWhatWasSeen, Apply
<1>3. /\ e.op = op /\ e.actor = u
      /\ e.before = Snapshot(row) /\ e.after = Snapshot(Changed(op, row, u))
  BY <1>1, AuditFields
<1> HIDE DEF k, u, op, row, e
<1>4. /\ op \in {"claim", "resume"} => x.state = "in_review" /\ x.assigned_to = u
      /\ op = "release" => x.state = "pending" /\ x.assigned_to = NoUser
      /\ op \in Decisions =>
            x.state \in DecidedStates /\ x.decided_by = u /\ x.decision_reason = u
      /\ op = "escalate" => x.state = "escalated"
      /\ op = "approve" => x.state = "approved"
      /\ op = "reject" => x.state = "rejected"
  BY <1>1, ChangedColumns
<1>5. LET y == Changed(op, row, u)
      IN  /\ op \in {"claim", "resume"} => y.state = "in_review" /\ y.assigned_to = u
          /\ op = "release" => y.state = "pending" /\ y.assigned_to = NoUser
          /\ op = "escalate" => y.state = "escalated"
          /\ op = "approve" => y.state = "approved"
          /\ op = "reject" => y.state = "rejected"
  BY <1>1, ChangedColumns
<1> HIDE DEF x
<1>6. HolderMatchesState'
  <2> SUFFICES ASSUME NEW c \in Cases
               PROVE  /\ cases'[c].state = "pending" => cases'[c].assigned_to = NoUser
                      /\ cases'[c].state = "in_review" /\ trail'[c] # <<>> => cases'[c].assigned_to \in Users
    BY DEF HolderMatchesState, Touched
  <2>1. CASE c = k
    BY <2>1, <1>1, <1>4 DEF Ops, Decisions, DecidedStates
  <2>2. CASE c # k
    BY <2>2, <1>1 DEF OverlapInv, HolderMatchesState, Touched
  <2>. QED
    BY <2>1, <2>2
<1>7. DecisionIsSigned'
  <2> SUFFICES ASSUME NEW c \in Cases, cases'[c].state \in DecidedStates, trail'[c] # <<>>
               PROVE  /\ cases'[c].decided_by \in Users
                      /\ cases'[c].decision_reason = cases'[c].decided_by
                      /\ trail'[c][Len(trail'[c])].op \in Decisions
                      /\ trail'[c][Len(trail'[c])].actor = cases'[c].decided_by
    BY DEF DecisionIsSigned, Touched, LastEvent
  <2>1. CASE c = k
    BY <2>1, <1>1, <1>3, <1>4 DEF Ops, Decisions, DecidedStates
  <2>2. CASE c # k
    BY <2>2, <1>1 DEF OverlapInv, DecisionIsSigned, Touched, LastEvent
  <2>. QED
    BY <2>1, <2>2
<1>8. TrailEndsAtTheRow'
  <2> SUFFICES ASSUME NEW c \in Cases, trail'[c] # <<>>
               PROVE  LET l == trail'[c][Len(trail'[c])]
                      IN  /\ l.after.state = cases'[c].state
                          /\ l.op \in {"claim", "release", "resume"} => l.after = Snapshot(cases'[c])
    BY DEF TrailEndsAtTheRow, Touched, LastEvent, Snapshot
  <2>1. CASE c = k
    BY <2>1, <1>1, <1>3, <1>4, <1>5 DEF Ops, Decisions, Snapshot
  <2>2. CASE c # k
    BY <2>2, <1>1 DEF OverlapInv, TrailEndsAtTheRow, Touched, LastEvent
  <2>. QED
    BY <2>1, <2>2
<1>9. NobodySignsOffTheirOwnWork'
  <2> SUFFICES ASSUME NEW c \in Cases, NEW i \in 1..Len(trail'[c]), trail'[c][i].op \in Decisions
               PROVE  /\ trail'[c][i].before.state = "in_review"
                      /\ trail'[c][i].before.assigned_to # trail'[c][i].actor
    BY DEF NobodySignsOffTheirOwnWork
  <2>1. CASE c = k /\ i = Len(trail'[k])
    <3>1. op \in Decisions
      BY <2>1, <1>1, <1>3
    <3>2. row.state = "in_review" /\ row.assigned_to # u
      BY <3>1, <1>2 DEF Accepts, CanDecide, Decisions
    <3>. QED
      BY <2>1, <3>2, <1>1, <1>3 DEF Snapshot
  <2>2. CASE c = k /\ i # Len(trail'[k])
    <3>1. i \in 1..Len(trail[k])
      BY <2>2, <1>1
    <3>. QED
      BY <2>2, <3>1, <1>1 DEF OverlapInv, NobodySignsOffTheirOwnWork
  <2>3. CASE c # k
    BY <2>3, <1>1 DEF OverlapInv, NobodySignsOffTheirOwnWork
  <2>. QED
    BY <2>1, <2>2, <2>3
<1>. QED
  BY <1>6, <1>7, <1>8, <1>9

\* However requests overlap: holders match states, decisions are signed, the
\* trail ends at the row, and no decision was made on a case its maker had seen
\* assigned to themselves.
THEOREM OverlapSafety ==
    Spec => [](HolderMatchesState /\ DecisionIsSigned /\ TrailEndsAtTheRow /\ NobodySignsOffTheirOwnWork)
<1>1. Init => OverlapInv
  <2> SUFFICES ASSUME Init PROVE OverlapInv
    OBVIOUS
  <2>1. TypeOK
    BY SeededType DEF Init, ReviewInit, TypeOK, ReviewTypeOK, Admitted
  <2>2. \A c \in Cases : cases[c] \in SeededRows /\ trail[c] = <<>>
    BY DEF Init, ReviewInit
  <2>3. \A row \in SeededRows : row.state = "pending" => row.assigned_to = NoUser
    BY DEF SeededRows, DecidedStates
  <2>4. AcceptedOnWhatWasSeen
    BY DEF Init, AcceptedOnWhatWasSeen
  <2>. QED
    BY <2>1, <2>2, <2>3, <2>4 DEF OverlapInv, HolderMatchesState, DecisionIsSigned,
         TrailEndsAtTheRow, NobodySignsOffTheirOwnWork, Touched
<1>2. OverlapInv /\ TypeOK' /\ [Next]_vars => OverlapInv'
  <2> SUFFICES ASSUME OverlapInv, TypeOK', [Next]_vars PROVE OverlapInv'
    OBVIOUS
  <2>1. ASSUME NEW u \in Users, NEW perms \in RoleGrants, ChangeRole(u, perms) PROVE OverlapInv'
    BY <2>1, TableUnchanged DEF ChangeRole, OverlapInv, AcceptedOnWhatWasSeen
  <2>2. ASSUME NEW r \in Requests, NEW u \in Users, NEW c \in Cases, NEW op \in Ops,
               NEW legal \in BOOLEAN, Arrive(r, u, c, op, legal)
        PROVE  OverlapInv'
    <3>1. AcceptedOnWhatWasSeen'
      BY <2>2 DEF Arrive, OverlapInv, TypeOK, AcceptedOnWhatWasSeen
    <3>. QED
      BY <2>2, <3>1, TableUnchanged DEF Arrive, OverlapInv
  <2>3. ASSUME NEW r \in Requests, ReadCase(r) PROVE OverlapInv'
    <3>1. AcceptedOnWhatWasSeen'
      BY <2>3 DEF ReadCase, OverlapInv, TypeOK, AcceptedOnWhatWasSeen
    <3>. QED
      BY <2>3, <3>1, TableUnchanged DEF ReadCase, OverlapInv
  <2>4. ASSUME NEW r \in Requests, Apply(r) PROVE OverlapInv'
    <3>1. AcceptedOnWhatWasSeen'
      BY <2>4 DEF Apply, OverlapInv, TypeOK, AcceptedOnWhatWasSeen
    <3>. QED
      BY <2>4, <3>1, ApplyKeepsOverlapInv DEF OverlapInv
  <2>5. ASSUME NEW r \in Requests, Abort(r) PROVE OverlapInv'
    <3>1. AcceptedOnWhatWasSeen'
      BY <2>5 DEF Abort, OverlapInv, TypeOK, AcceptedOnWhatWasSeen
    <3>. QED
      BY <2>5, <3>1, TableUnchanged DEF Abort, OverlapInv
  <2>6. CASE UNCHANGED vars
    BY <2>6, TableUnchanged DEF vars, OverlapInv, AcceptedOnWhatWasSeen
  <2>. QED
    BY <2>1, <2>2, <2>3, <2>4, <2>5, <2>6 DEF Next
<1>3. OverlapInv => HolderMatchesState /\ DecisionIsSigned /\ TrailEndsAtTheRow /\ NobodySignsOffTheirOwnWork
  BY DEF OverlapInv
<1>. QED
  BY <1>1, <1>2, <1>3, TypeCorrect, PTL DEF Spec

-----------------------------------------------------------------------------
(***************************************************************************)
(* What the atomic queue guarantees, and what the served queue, in which   *)
(* requests overlap, keeps of it.                                          *)
(***************************************************************************)
ReviewInv == ReviewTypeOK /\ MakerChecker /\ TrailIsAChain

\* One atomic operation keeps, case by case and whatever the other cases are
\* like, the types, maker/checker separation, the chain and the decision.
LEMMA TransitionKeepsTheRules ==
    ASSUME ReviewTypeOK, NEW u \in Users, NEW k \in Cases, NEW op \in Ops, NEW perms,
           Transition(u, k, op, perms), NEW c \in Cases
    PROVE  /\ ReviewTypeOK'
           /\ DecidedByAnother(c) => DecidedByAnother(c)'
           /\ Chained(c) => Chained(c)'
           /\ cases[c].state \in DecidedStates => cases'[c] = cases[c]
<1> DEFINE e == AuditOf(op, cases[k], u)
           x == Changed(op, cases[k], u)
<1>1. cases[k] \in Row /\ trail[k] \in Seq(Event)
  BY DEF ReviewTypeOK
<1>2. x \in Row /\ e \in Event
  BY <1>1, ChangedType, AuditType
<1>3. /\ cases'[k] = x
      /\ trail'[k] = Append(trail[k], e)
      /\ \A d \in Cases \ {k} : cases'[d] = cases[d] /\ trail'[d] = trail[d]
  BY DEF Transition, ReviewTypeOK
<1>4. /\ Append(trail[k], e) \in Seq(Event)
      /\ Append(trail[k], e) # <<>>
      /\ Len(trail[k]) \in Nat
      /\ Len(Append(trail[k], e)) = Len(trail[k]) + 1
      /\ Append(trail[k], e)[Len(Append(trail[k], e))] = e
      /\ \A i \in 1..Len(trail[k]) : Append(trail[k], e)[i] = trail[k][i]
  BY <1>1, <1>2, AppendEvent
<1>5. ReviewTypeOK'
  BY <1>2, <1>4 DEF Transition, ReviewTypeOK
<1>6. e.before = Snapshot(cases[k]) /\ e.after = Snapshot(x)
  BY <1>1, AuditFields
<1>7. /\ Accepts(op, cases[k], u, perms)
      /\ op \in {"claim", "resume"} => x.state = "in_review"
      /\ op = "release" => x.state = "pending"
      /\ op = "escalate" => x.state = "escalated"
      /\ op \in Decisions => x.decided_by = u /\ x.assigned_to = cases[k].assigned_to
  BY <1>1, ChangedColumns DEF Transition
<1> HIDE DEF e, x
<1>8. CASE c # k
  BY <1>3, <1>5, <1>8 DEF DecidedByAnother, Chained, Touched, LastEvent, Snapshot
<1>9. CASE c = k
  <2>1. DecidedByAnother(k)'
    <3> SUFFICES ASSUME cases'[k].state \in DecidedStates
                 PROVE  cases'[k].decided_by # cases'[k].assigned_to
      BY DEF DecidedByAnother
    <3>1. op \in Decisions
      BY <1>3, <1>7 DEF Ops, Decisions, DecidedStates
    <3>2. cases[k].assigned_to # u
      BY <3>1, <1>7 DEF Accepts, CanDecide, Decisions
    <3>. QED
      BY <3>1, <3>2, <1>3, <1>7
  <2>2. ASSUME Chained(k) PROVE Chained(k)'
    <3>1. trail'[k] # <<>> /\ trail'[k][Len(trail'[k])].after = Snapshot(cases'[k])
      BY <1>3, <1>4, <1>6
    <3>2. ASSUME NEW i \in 1..(Len(trail'[k]) - 1)
          PROVE  trail'[k][i + 1].before = trail'[k][i].after
      <4>1. CASE i = Len(trail[k])
        <5>1. trail[k] # <<>>
          BY <4>1
        <5>2. trail[k][i].after = Snapshot(cases[k])
          BY <4>1, <5>1, <2>2 DEF Chained, Touched, LastEvent
        <5>3. trail'[k][i] = trail[k][i] /\ trail'[k][i + 1] = e
          BY <3>2, <4>1, <1>3, <1>4
        <5>. QED
          BY <5>2, <5>3, <1>6
      <4>2. CASE i # Len(trail[k])
        <5>1. i \in 1..(Len(trail[k]) - 1) /\ i + 1 \in 1..Len(trail[k])
          BY <3>2, <4>2, <1>3, <1>4
        <5>2. trail'[k][i] = trail[k][i] /\ trail'[k][i + 1] = trail[k][i + 1]
          BY <5>1, <1>3, <1>4
        <5>. QED
          BY <5>1, <5>2, <2>2 DEF Chained
      <4>. QED
        BY <4>1, <4>2
    <3>. QED
      BY <3>1, <3>2 DEF Chained, Touched, LastEvent, Snapshot
  <2>3. cases[k].state \notin DecidedStates
    BY <1>7 DEF Accepts, CanClaim, CanRelease, CanDecide, CanEscalate, CanResume, DecidedStates
  <2>. QED
    BY <1>5, <1>9, <2>1, <2>2, <2>3
<1>. QED
  BY <1>8, <1>9

\* In the atomic queue nobody decides the case they hold, and the audit trail of
\* every case is a chain that ends at its row.
THEOREM ReviewSafety == ReviewSpec => [](ReviewTypeOK /\ MakerChecker /\ TrailIsAChain)
<1>1. ReviewInit => ReviewInv
  <2> SUFFICES ASSUME ReviewInit PROVE ReviewInv
    OBVIOUS
  <2>1. ReviewTypeOK
    BY SeededType DEF ReviewInit, ReviewTypeOK
  <2>2. \A row \in SeededRows : row.state \in DecidedStates => row.assigned_to = NoUser
    BY DEF SeededRows, DecidedStates
  <2>3. MakerChecker
    BY <2>2, KycUsersAssumption DEF ReviewInit, MakerChecker, DecidedByAnother
  <2>4. TrailIsAChain
    BY DEF ReviewInit, TrailIsAChain, Chained, Touched
  <2>. QED
    BY <2>1, <2>3, <2>4 DEF ReviewInv
<1>2. ReviewInv /\ [ReviewNext]_reviewVars => ReviewInv'
  <2> SUFFICES ASSUME ReviewInv, [ReviewNext]_reviewVars PROVE ReviewInv'
    OBVIOUS
  <2>1. ASSUME NEW u \in Users, NEW k \in Cases, NEW op \in Ops, NEW perms, Transition(u, k, op, perms)
        PROVE  ReviewInv'
    <3>1. ReviewTypeOK'
      BY <2>1, TransitionKeepsTheRules DEF ReviewInv
    <3>2. ASSUME NEW c \in Cases PROVE DecidedByAnother(c)' /\ Chained(c)'
      BY <2>1, TransitionKeepsTheRules DEF ReviewInv, MakerChecker, TrailIsAChain
    <3>. QED
      BY <3>1, <3>2 DEF ReviewInv, MakerChecker, TrailIsAChain
  <2>2. CASE UNCHANGED reviewVars
    BY <2>2 DEF reviewVars, ReviewInv, ReviewTypeOK, MakerChecker, TrailIsAChain, DecidedByAnother,
                Chained, Touched, LastEvent
  <2>. QED
    BY <2>1, <2>2 DEF ReviewNext
<1>3. ReviewInv => ReviewTypeOK /\ MakerChecker /\ TrailIsAChain
  BY DEF ReviewInv
<1>. QED
  BY <1>1, <1>2, <1>3, PTL DEF ReviewSpec

\* In the atomic queue a decided case never changes again.
THEOREM ReviewFinality == ReviewSpec => DecisionIsFinal
<1>1. ReviewTypeOK /\ [ReviewNext]_reviewVars =>
        [\A c \in Cases : cases[c].state \in DecidedStates => cases'[c] = cases[c]]_reviewVars
  <2> SUFFICES ASSUME ReviewTypeOK, ReviewNext, NEW c \in Cases, cases[c].state \in DecidedStates
               PROVE  cases'[c] = cases[c]
    OBVIOUS
  <2>1. PICK u \in Users, k \in Cases, op \in Ops, perms \in SUBSET Permissions : Transition(u, k, op, perms)
    BY DEF ReviewNext
  <2>. QED
    BY <2>1, TransitionKeepsTheRules
<1>. QED
  BY <1>1, ReviewSafety, PTL DEF ReviewSpec, DecisionIsFinal

\* A request is let in with the permission its operation needs, and keeps it.
NeededIsHeld == \A r \in Requests : Admitted(r) => Needs[req[r].op] \in req[r].perms

\* What is known of the requests on their way, whatever they overlap with.
THEOREM RequestsAreJudged == Spec => [](TypeOK /\ AcceptedOnWhatWasSeen /\ NeededIsHeld)
<1> DEFINE Inv == TypeOK /\ AcceptedOnWhatWasSeen /\ NeededIsHeld
<1> USE DEF AcceptedOnWhatWasSeen, NeededIsHeld, Admitted
<1>1. Init => Inv
  BY SeededType DEF Init, ReviewInit, TypeOK, ReviewTypeOK
<1>2. Inv /\ TypeOK' /\ [Next]_vars => Inv'
  <2> SUFFICES ASSUME Inv, TypeOK', [Next]_vars PROVE Inv'
    OBVIOUS
  <2>1. ASSUME NEW u \in Users, NEW perms \in RoleGrants, ChangeRole(u, perms) PROVE Inv'
    BY <2>1 DEF ChangeRole
  <2>2. ASSUME NEW r \in Requests, NEW u \in Users, NEW c \in Cases, NEW op \in Ops,
               NEW legal \in BOOLEAN, Arrive(r, u, c, op, legal)
        PROVE  Inv'
    BY <2>2 DEF Arrive, TypeOK
  <2>3. ASSUME NEW r \in Requests, ReadCase(r) PROVE Inv'
    BY <2>3 DEF ReadCase, TypeOK
  <2>4. ASSUME NEW r \in Requests, Apply(r) PROVE Inv'
    BY <2>4 DEF Apply, TypeOK
  <2>5. ASSUME NEW r \in Requests, Abort(r) PROVE Inv'
    BY <2>5 DEF Abort, TypeOK
  <2>6. CASE UNCHANGED vars
    BY <2>6 DEF vars
  <2>. QED
    BY <2>1, <2>2, <2>3, <2>4, <2>5, <2>6 DEF Next
<1>. QED
  BY <1>1, <1>2, TypeCorrect, PTL DEF Spec

\* A step that changes the table or the trail is a commit; on a row as it was
\* read, the commit is an operation of the atomic queue.
LEMMA CommitIsAtomicOrStale ==
    ASSUME TypeOK, AcceptedOnWhatWasSeen, NeededIsHeld, Next, ~UNCHANGED reviewVars
    PROVE  \E u \in Users, k \in Cases, op \in Ops, perms \in SUBSET Permissions :
              /\ StaleWrite(k) \/ Transition(u, k, op, perms)
              /\ \A c \in Cases \ {k} : cases'[c] = cases[c] /\ trail'[c] = trail[c]
<1>1. PICK r \in Requests : Apply(r)
  BY DEF Next, ChangeRole, Arrive, ReadCase, Abort, reviewVars
<1>2. /\ req[r].user \in Users /\ req[r].case \in Cases /\ req[r].op \in Ops
      /\ req[r].perms \in SUBSET Permissions
  BY <1>1 DEF Apply, TypeOK, Call, Admitted
<1>3. \A c \in Cases \ {req[r].case} : cases'[c] = cases[c] /\ trail'[c] = trail[c]
  BY <1>1, ApplyEffect
<1>4. CASE seen[r] = cases[req[r].case]
  <2>1. Transition(req[r].user, req[r].case, req[r].op, req[r].perms)
    BY <1>1, <1>4 DEF Apply, Transition, AcceptedOnWhatWasSeen, NeededIsHeld, Admitted
  <2>. QED
    BY <2>1, <1>2, <1>3
<1>5. CASE seen[r] # cases[req[r].case]
  <2>1. StaleWrite(req[r].case)
    BY <1>1, <1>5 DEF StaleWrite, Apply, TypeOK
  <2>. QED
    BY <2>1, <1>2, <1>3
<1>. QED
  BY <1>4, <1>5

\* However requests overlap, every commit on a row as it was read is an
\* operation of the atomic queue: only stale writes are not.
THEOREM ServedQueueIsAtomicUnlessStale == Spec => AtomicUnlessStale
<1>1. TypeOK /\ AcceptedOnWhatWasSeen /\ NeededIsHeld /\ [Next]_vars =>
        [UNCHANGED reviewVars \/ (\E c \in Cases : StaleWrite(c)) \/ ReviewNext]_vars
  BY CommitIsAtomicOrStale DEF ReviewNext
<1>. QED
  BY <1>1, RequestsAreJudged, PTL DEF Spec, AtomicUnlessStale

\* However requests overlap, the rules of a case (maker/checker separation, the
\* audit chain, a decision is final) are broken by a stale write on that case
\* and by nothing else, in any state the table may have got into.
THEOREM RulesBreakOnlyByStaleWrites == Spec => RulesHoldUnlessStale
<1>1. TypeOK /\ AcceptedOnWhatWasSeen /\ NeededIsHeld /\ [Next]_vars =>
        [\A c \in Cases : ~StaleWrite(c) =>
            /\ DecidedByAnother(c) => DecidedByAnother(c)'
            /\ Chained(c) => Chained(c)'
            /\ cases[c].state \in DecidedStates => cases'[c] = cases[c]]_reviewVars
  <2> SUFFICES ASSUME TypeOK, AcceptedOnWhatWasSeen, NeededIsHeld, Next, ~UNCHANGED reviewVars,
                      NEW c \in Cases, ~StaleWrite(c)
               PROVE  /\ DecidedByAnother(c) => DecidedByAnother(c)'
                      /\ Chained(c) => Chained(c)'
                      /\ cases[c].state \in DecidedStates => cases'[c] = cases[c]
    BY DEF vars, reviewVars
  <2>1. PICK u \in Users, k \in Cases, op \in Ops, perms \in SUBSET Permissions :
          /\ StaleWrite(k) \/ Transition(u, k, op, perms)
          /\ \A d \in Cases \ {k} : cases'[d] = cases[d] /\ trail'[d] = trail[d]
    BY CommitIsAtomicOrStale
  <2>2. CASE c = k
    BY <2>1, <2>2, TransitionKeepsTheRules DEF TypeOK
  <2>3. CASE c # k
    BY <2>1, <2>3 DEF DecidedByAnother, Chained, Touched, LastEvent, Snapshot
  <2>. QED
    BY <2>2, <2>3
<1>. QED
  BY <1>1, RequestsAreJudged, PTL DEF Spec, RulesHoldUnlessStale

\* However requests overlap, a case has a holder exactly while it is claimed or escalated.
COROLLARY HoldersMatch == Spec => []HolderMatchesState
BY OverlapSafety, PTL

\* However requests overlap, the last audit row tells the state the case is in.
COROLLARY TrailsEndAtTheRow == Spec => []TrailEndsAtTheRow
BY OverlapSafety, PTL

\* However requests overlap, nobody decides a case on a reading in which they held it.
COROLLARY OwnWorkIsNotSignedOff == Spec => []NobodySignsOffTheirOwnWork
BY OverlapSafety, PTL

-----------------------------------------------------------------------------
\* The buttons are the service's rules, on every row that can exist and for
\* every set of permissions, not only those the seeded roles hold.
LEMMA ButtonsAreRules ==
    ASSUME NEW row \in Row, NEW u \in Users, NEW perms \in SUBSET Permissions
    PROVE  AllowedActions(row, u, perms) = {op \in Ops : Needs[op] \in perms /\ Accepts(op, row, u, perms)}
<1>1. /\ Needs["claim"] = Review /\ Needs["release"] = Review
      /\ Needs["approve"] = Approve /\ Needs["reject"] = Approve /\ Needs["resume"] = Approve
      /\ Needs["escalate"] = Escalate
  BY DEF Needs, Ops
<1>2. ASSUME NEW op \in Ops
      PROVE  op \in AllowedActions(row, u, perms) <=> Needs[op] \in perms /\ Accepts(op, row, u, perms)
  BY <1>1, <1>2 DEF AllowedActions, Accepts, CanClaim, CanRelease, CanDecide, CanEscalate, CanResume, Ops, Decisions
<1>. QED
  BY <1>2 DEF AllowedActions

\* On every reachable row the rendered buttons are exactly what the service
\* accepts.
THEOREM ButtonsAlwaysMatch == Spec => []ButtonsMatchService
<1>1. TypeOK => ButtonsMatchService
  BY ButtonsAreRules DEF TypeOK, ReviewTypeOK, ButtonsMatchService, RoleGrants, Permissions
<1>. QED
  BY <1>1, TypeCorrect, PTL

\* However requests overlap, a change and its audit row land together and no
\* audit row is ever rewritten.
THEOREM AuditIsAtomic == Spec => ChangeIsAudited
<1>1. TypeOK /\ [Next]_vars =>
        [\A c \in Cases :
          /\ cases'[c] # cases[c] => Len(trail'[c]) = Len(trail[c]) + 1
          /\ \A i \in 1..Len(trail[c]) : i <= Len(trail'[c]) /\ trail'[c][i] = trail[c][i]]_reviewVars
  <2> SUFFICES ASSUME TypeOK, Next, NEW c \in Cases, ~UNCHANGED reviewVars
               PROVE  /\ cases'[c] # cases[c] => Len(trail'[c]) = Len(trail[c]) + 1
                      /\ \A i \in 1..Len(trail[c]) : i <= Len(trail'[c]) /\ trail'[c][i] = trail[c][i]
    BY DEF vars, reviewVars
  <2>1. PICK r \in Requests : Apply(r)
    BY DEF Next, ChangeRole, Arrive, ReadCase, Abort, reviewVars
  <2>2. CASE c = req[r].case
    BY <2>1, <2>2, ApplyEffect
  <2>3. CASE c # req[r].case
    <3>1. cases'[c] = cases[c] /\ trail'[c] = trail[c] /\ Len(trail[c]) \in Nat
      BY <2>1, <2>3, ApplyEffect, LenProperties DEF TypeOK, ReviewTypeOK
    <3>. QED
      BY <3>1
  <2>. QED
    BY <2>2, <2>3
<1>. QED
  BY <1>1, TypeCorrect, PTL DEF Spec, ChangeIsAudited
=============================================================================
