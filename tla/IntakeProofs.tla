---------------------------- MODULE IntakeProofs ----------------------------
(***************************************************************************)
(* Proofs about the intake, for any number of users, requests and          *)
(* processes: what was paid, what the rows say about it, the daily limit,  *)
(* and that the intake implements the one-session promise and the quota.   *)
(***************************************************************************)
EXTENDS IntakeDispatch, SequenceTheorems, FiniteSetTheorems, TLAPS

Asking(p)      == pc[p] \in {"submitting", "counting", "inserting"}
Dispatching(p) == pc[p] \in {"waiting", "locked", "claiming", "calling", "recording"}
Busy(p)        == pc[p] \in {"calling", "recording"}

\* A process has the job its place in the code needs.
Jobs ==
    \A p \in Procs :
        /\ Asking(p) => job[p] \in SubmitJob
        /\ Dispatching(p) => job[p] \in DispatchJob /\ Exists(job[p].ticket)

\* Between its read and its claim a process holds the row lock, and the row is
\* still what it read.
ClaimIsFresh ==
    \A p \in Procs :
        /\ pc[p] \in {"locked", "claiming"} => rowLock[job[p].ticket] = p
        /\ pc[p] = "claiming" =>
               stored[p] \in Retryable /\ rows[job[p].ticket].status = stored[p]

\* From its claim to its record a process is the only one that may call for its
\* request, and it knows what it paid unless the answer was ambiguous.
OneCaller ==
    \A p \in Procs : Busy(p) =>
        /\ rows[job[p].ticket].status = "dispatching"
        /\ \A q \in Procs : Busy(q) /\ job[q].ticket = job[p].ticket => q = p
        /\ pc[p] = "calling" => paid[job[p].ticket] = 0
        /\ pc[p] = "recording" =>
               /\ stored[p] \in Outcomes
               /\ stored[p] \in Retryable => paid[job[p].ticket] = 0
               /\ stored[p] = "dispatched" => paid[job[p].ticket] = 1

\* Nothing was paid or audited for a request that does not exist.
NothingBeforeInsert == \A t \in Tickets : ~Exists(t) => paid[t] = 0 /\ trail[t] = <<>>

IntakeInv ==
    /\ TypeOK
    /\ Jobs
    /\ ClaimIsFresh
    /\ OneCaller
    /\ NothingBeforeInsert
    /\ PaidAtMostOnce
    /\ RowTellsWhatWasPaid
    /\ TrailIsAChain

-----------------------------------------------------------------------------
Events == [before : Statuses \cup {"none"}, after : Statuses]
Chain(s) == \A i \in 1..(Len(s) - 1) : s[i + 1].before = s[i].after

\* A chain stays one when the event appended starts where it ended.
LEMMA ChainGrows ==
    ASSUME NEW s \in Seq(Events), NEW e \in Events, Chain(s),
           s # <<>> => s[Len(s)].after = e.before
    PROVE  /\ Append(s, e) \in Seq(Events)
           /\ Chain(Append(s, e))
           /\ Append(s, e) # <<>>
           /\ Append(s, e)[Len(Append(s, e))] = e
<1> DEFINE n == Len(s)
           x == Append(s, e)
<1>1. n \in Nat /\ (s = <<>> <=> n = 0)
  BY LenProperties, EmptySeq
<1>2. /\ x \in Seq(Events) /\ x # <<>> /\ Len(x) = n + 1 /\ x[n + 1] = e
      /\ \A i \in 1..n : x[i] = s[i]
  BY AppendProperties, LenProperties
<1>3. ASSUME NEW i \in 1..(Len(x) - 1) PROVE x[i + 1].before = x[i].after
  <2>1. CASE i = n
    BY <1>1, <1>2, <2>1
  <2>2. CASE i < n
    <3>1. i \in 1..(n - 1) /\ i \in 1..n /\ i + 1 \in 1..n
      BY <1>1, <1>2, <2>2
    <3>. QED
      BY <1>2, <3>1 DEF Chain
  <2>. QED
    BY <1>1, <1>2, <2>1, <2>2
<1>. QED
  BY <1>2, <1>3 DEF Chain

\* An event that starts at the row's status and ends at its new one keeps the
\* trail a chain.
LEMMA AuditKeepsChain ==
    ASSUME TypeOK, TrailIsAChain, NEW t \in Tickets, NEW e \in Events,
           trail' = [trail EXCEPT ![t] = Append(@, e)],
           trail[t] # <<>> => rows[t].status = e.before,
           rows'[t].status = e.after,
           \A r \in Tickets \ {t} : rows'[r] = rows[r]
    PROVE  TrailIsAChain' /\ trail' \in [Tickets -> Seq(Events)]
<1>1. trail \in [Tickets -> Seq(Events)]
  BY DEF TypeOK, Events
<1>2. Chain(trail[t]) /\ (trail[t] # <<>> => trail[t][Len(trail[t])].after = e.before)
  BY DEF TrailIsAChain, Chain
<1> DEFINE x == Append(trail[t], e)
<1>3. x \in Seq(Events) /\ Chain(x) /\ x # <<>> /\ x[Len(x)] = e
  BY <1>1, <1>2, ChainGrows
<1>4. trail'[t] = x /\ \A r \in Tickets \ {t} : trail'[r] = trail[r]
  BY <1>1
<1> HIDE DEF x
<1>5. \A r \in Tickets :
        /\ Chain(trail'[r])
        /\ trail'[r] # <<>> => trail'[r][Len(trail'[r])].after = rows'[r].status
  <2> SUFFICES ASSUME NEW r \in Tickets PROVE
        /\ Chain(trail'[r])
        /\ trail'[r] # <<>> => trail'[r][Len(trail'[r])].after = rows'[r].status
    OBVIOUS
  <2>1. CASE r = t
    BY <1>3, <1>4, <2>1
  <2>2. CASE r # t
    BY <1>4, <2>2 DEF TrailIsAChain, Chain
  <2>. QED
    BY <2>1, <2>2
<1>. QED
  BY <1>1, <1>3, <1>4, <1>5 DEF TrailIsAChain, Chain, x

\* A stored row is not the absence of one.
LEMMA RowIsNotAbsent == \A row \in Row : row # Absent
BY DEF Row, Absent

\* What a submission inserts is a row.
LEMMA NewRowType == \A u \in Users : NewRow(u) \in Row
BY DEF NewRow, Row, Statuses

\* What an outcome makes of a row.
LEMMA SettledRow ==
    ASSUME NEW row \in Row, NEW outcome \in Outcomes
    PROVE  LET x == Settled(row, outcome)
           IN  /\ x \in Row /\ x.status \in Statuses
               /\ x.owner = row.owner /\ x.recent = row.recent
               /\ outcome # "ambiguous" => x.status = outcome
               /\ outcome = "ambiguous" => x.status = "dispatching"
               /\ outcome = "dispatched" => x.session /\ x.error = "none"
               /\ outcome = "failed" => x.error = "definite"
BY DEF Settled, Row, Outcomes, Statuses

-----------------------------------------------------------------------------
(***************************************************************************)
(* The invariant is preserved.  First the steps that leave the table, its  *)
(* trail and the money alone: only the places and locks of processes move. *)
(***************************************************************************)
Quiet == UNCHANGED <<rows, trail, paid>>

\* A process that answers, refuses or dies gives its locks back.
LEMMA FinishKeepsInv ==
    ASSUME IntakeInv, NEW p \in Procs, NEW how \in {"done", "refused", "crashed"},
           Quiet, Finish(p, how), UNCHANGED configured
    PROVE  IntakeInv'
<1> USE DEF IntakeInv
<1>1. TypeOK'
  BY DEF TypeOK, Quiet, Finish, Goto, Unlock
<1>2. \A q \in Procs : q # p => pc'[q] = pc[q] /\ job'[q] = job[q] /\ stored'[q] = stored[q]
  BY DEF TypeOK, Finish, Goto
<1>3. ~Asking(p)' /\ ~Dispatching(p)' /\ ~Busy(p)'
  BY DEF TypeOK, Finish, Goto, Asking, Dispatching, Busy
<1>4. Jobs'
  BY <1>2, <1>3 DEF Jobs, Asking, Dispatching, Quiet, Exists
<1>5. ClaimIsFresh'
  <2> SUFFICES ASSUME NEW q \in Procs, pc'[q] \in {"locked", "claiming"}
               PROVE  /\ rowLock'[job'[q].ticket] = q
                      /\ pc'[q] = "claiming" =>
                             stored'[q] \in Retryable /\ rows'[job'[q].ticket].status = stored'[q]
    BY DEF ClaimIsFresh
  <2>1. q # p
    BY <1>3 DEF Dispatching
  <2>2. job[q] \in DispatchJob /\ rowLock[job[q].ticket] = q
    BY <1>2, <2>1 DEF Jobs, ClaimIsFresh, Dispatching
  <2>3. rowLock'[job[q].ticket] = q
    BY <2>1, <2>2 DEF Finish, Unlock, DispatchJob
  <2>. QED
    BY <1>2, <2>1, <2>3 DEF ClaimIsFresh, Quiet
<1>6. OneCaller'
  BY <1>2, <1>3 DEF OneCaller, Busy, Quiet
<1>7. NothingBeforeInsert' /\ PaidAtMostOnce' /\ RowTellsWhatWasPaid' /\ TrailIsAChain'
  BY DEF NothingBeforeInsert, PaidAtMostOnce, RowTellsWhatWasPaid, TrailIsAChain, Exists, Quiet
<1>. QED
  BY <1>1, <1>4, <1>5, <1>6, <1>7

\* The steps that wait for a lock, or look before they write.
LEMMA QuietKeepsInv ==
    ASSUME IntakeInv, NEW p \in Procs,
           \/ \E u \in Users : Submit(p, u)
           \/ \E u \in Users, t \in Tickets, seesAll \in BOOLEAN : Retry(p, u, t, seesAll)
           \/ TakeSubmitLock(p)
           \/ \E slugTaken \in BOOLEAN : CountToday(p, slugTaken)
           \/ TakeRowLock(p)
           \/ CheckRow(p)
           \/ Crash(p)
    PROVE  IntakeInv'
<1> USE DEF IntakeInv
<1>q. ASSUME Quiet
      PROVE  NothingBeforeInsert' /\ PaidAtMostOnce' /\ RowTellsWhatWasPaid' /\ TrailIsAChain'
  BY <1>q DEF NothingBeforeInsert, PaidAtMostOnce, RowTellsWhatWasPaid, TrailIsAChain, Exists, Quiet
<1>1. ASSUME NEW u \in Users, Submit(p, u) PROVE IntakeInv'
  <2>1. [user |-> u] \in SubmitJob
    BY DEF SubmitJob
  <2>2. TypeOK'
    BY <1>1, <2>1 DEF Submit, Goto, TypeOK
  <2>3. Jobs' /\ ClaimIsFresh' /\ OneCaller'
    BY <1>1, <2>1 DEF Submit, Goto, TypeOK, Jobs, ClaimIsFresh, OneCaller, Asking, Dispatching, Busy, Exists
  <2>. QED
    BY <1>1, <1>q, <2>2, <2>3 DEF Submit, Quiet
<1>2. ASSUME NEW u \in Users, NEW t \in Tickets, NEW seesAll \in BOOLEAN, Retry(p, u, t, seesAll)
      PROVE  IntakeInv'
  <2> DEFINE j == [user |-> u, ticket |-> t, seesAll |-> seesAll]
  <2>1. j \in DispatchJob /\ j.ticket = t
    BY DEF DispatchJob
  <2>2. TypeOK'
    BY <1>2, <2>1 DEF Retry, Goto, TypeOK
  <2>3. Jobs' /\ ClaimIsFresh' /\ OneCaller'
    BY <1>2, <2>1 DEF Retry, Goto, TypeOK, Jobs, ClaimIsFresh, OneCaller, Asking, Dispatching, Busy, Exists
  <2>. QED
    BY <1>2, <1>q, <2>2, <2>3 DEF Retry, Quiet
<1>3. CASE TakeSubmitLock(p)
  <2>1. job[p] \in SubmitJob /\ job[p].user \in Users
    BY <1>3 DEF TakeSubmitLock, Jobs, Asking, SubmitJob
  <2>2. TypeOK'
    BY <1>3, <2>1 DEF TakeSubmitLock, Goto, TypeOK
  <2>3. Jobs' /\ ClaimIsFresh' /\ OneCaller'
    BY <1>3, <2>1 DEF TakeSubmitLock, Goto, TypeOK, Jobs, ClaimIsFresh, OneCaller, Asking, Dispatching, Busy, Exists
  <2>. QED
    BY <1>3, <1>q, <2>2, <2>3 DEF TakeSubmitLock, Quiet
<1>4. ASSUME NEW slugTaken \in BOOLEAN, CountToday(p, slugTaken) PROVE IntakeInv'
  <2>1. CASE Finish(p, "refused")
    BY <1>4, <2>1, FinishKeepsInv DEF CountToday, Quiet
  <2>2. CASE Goto(p, "inserting") /\ UNCHANGED <<submitLock, rowLock, job, stored>>
    <3>1. TypeOK'
      BY <1>4, <2>2 DEF CountToday, Goto, TypeOK
    <3>2. Jobs' /\ ClaimIsFresh' /\ OneCaller'
      BY <1>4, <2>2 DEF CountToday, Goto, TypeOK, Jobs, ClaimIsFresh, OneCaller, Asking, Dispatching, Busy, Exists
    <3>. QED
      BY <1>4, <1>q, <2>2, <3>1, <3>2 DEF CountToday, Quiet
  <2>. QED
    BY <1>4, <2>1, <2>2 DEF CountToday
<1>5. CASE TakeRowLock(p)
  <2>1. job[p] \in DispatchJob /\ job[p].ticket \in Tickets
    BY <1>5 DEF TakeRowLock, Jobs, Dispatching, DispatchJob
  <2>2. TypeOK'
    BY <1>5, <2>1 DEF TakeRowLock, Goto, TypeOK
  <2>3. Jobs'
    BY <1>5 DEF TakeRowLock, Goto, TypeOK, Jobs, Asking, Dispatching, Exists
  <2>4. ClaimIsFresh'
    <3> SUFFICES ASSUME NEW q \in Procs, pc'[q] \in {"locked", "claiming"}
                 PROVE  /\ rowLock'[job[q].ticket] = q
                        /\ pc'[q] = "claiming" =>
                               stored[q] \in Retryable /\ rows[job[q].ticket].status = stored[q]
      BY <1>5 DEF TakeRowLock, ClaimIsFresh
    <3>1. CASE q = p
      BY <1>5, <2>1, <3>1 DEF TakeRowLock, Goto, TypeOK
    <3>2. CASE q # p
      <4>1. pc[q] = pc'[q] /\ rowLock[job[q].ticket] = q
        BY <1>5, <3>2 DEF TakeRowLock, Goto, TypeOK, ClaimIsFresh
      <4>2. job[q].ticket # job[p].ticket
        BY <1>5, <4>1, IntakeAssumption DEF TakeRowLock
      <4>. QED
        BY <1>5, <4>1, <4>2 DEF TakeRowLock, ClaimIsFresh, TypeOK
    <3>. QED
      BY <3>1, <3>2
  <2>5. OneCaller'
    BY <1>5 DEF TakeRowLock, Goto, TypeOK, OneCaller, Busy
  <2>. QED
    BY <1>5, <1>q, <2>2, <2>3, <2>4, <2>5 DEF TakeRowLock, Quiet
<1>6. CASE CheckRow(p)
  <2>1. CASE Finish(p, "refused") \/ Finish(p, "done")
    BY <1>6, <2>1, FinishKeepsInv DEF CheckRow, Quiet
  <2>2. CASE ~(Finish(p, "refused") \/ Finish(p, "done"))
    <3>1. /\ rows[job[p].ticket].status \in Retryable
          /\ Goto(p, "claiming")
          /\ stored' = [stored EXCEPT ![p] = rows[job[p].ticket].status]
          /\ UNCHANGED <<submitLock, rowLock, job>>
          /\ UNCHANGED <<rows, trail, paid, configured>>
          /\ pc[p] = "locked"
      BY <1>6, <2>2 DEF CheckRow
    <3>2. TypeOK'
      BY <3>1 DEF Goto, TypeOK, Retryable, Outcomes
    <3>3. Jobs' /\ ClaimIsFresh' /\ OneCaller'
      BY <3>1 DEF Goto, TypeOK, Jobs, ClaimIsFresh, OneCaller, Asking, Dispatching, Busy, Exists
    <3>. QED
      BY <1>q, <3>1, <3>2, <3>3 DEF Quiet
  <2>. QED
    BY <2>1, <2>2
<1>7. CASE Crash(p)
  BY <1>7, FinishKeepsInv DEF Crash, Quiet
<1>. QED
  BY <1>1, <1>2, <1>3, <1>4, <1>5, <1>6, <1>7

-----------------------------------------------------------------------------
(* Then the four steps that write. *)

\* A new request has not been claimed or paid.
LEMMA InsertKeepsInv ==
    ASSUME IntakeInv, NEW p \in Procs, NEW t \in Tickets, Insert(p, t)
    PROVE  IntakeInv'
<1> USE DEF IntakeInv
<1> DEFINE u == job[p].user
           j == [user |-> u, ticket |-> t, seesAll |-> TRUE]
           e == [before |-> "none", after |-> "queued"]
<1>1. u \in Users
  BY DEF Insert, Jobs, Asking, SubmitJob
<1>2. j \in DispatchJob /\ j.ticket = t /\ e \in Events
  BY <1>1 DEF DispatchJob, Events, Statuses
<1>3. NewRow(u) \in Row /\ NewRow(u) # Absent /\ NewRow(u).status = "queued" /\ NewRow(u).error = "none"
  BY <1>1, NewRowType, RowIsNotAbsent DEF NewRow
<1>4. /\ rows' = [rows EXCEPT ![t] = NewRow(u)] /\ rows'[t] = NewRow(u)
      /\ \A r \in Tickets \ {t} : rows'[r] = rows[r]
      /\ ~Exists(t) /\ Exists(t)' /\ \A r \in Tickets \ {t} : Exists(r)' = Exists(r)
  BY <1>3 DEF Insert, TypeOK, Exists
<1>5. trail[t] = <<>> /\ paid[t] = 0
  BY <1>4 DEF NothingBeforeInsert
<1>6. TrailIsAChain' /\ trail' \in [Tickets -> Seq(Events)]
  <2>1. trail' = [trail EXCEPT ![t] = Append(@, e)]
    BY DEF Insert
  <2>. QED
    BY <1>2, <1>3, <1>4, <1>5, <2>1, AuditKeepsChain
<1>7. TypeOK'
  <2>1. rows' \in [Tickets -> Row \cup {Absent}]
    BY <1>3, <1>4 DEF TypeOK
  <2>2. job' \in [Procs -> SubmitJob \cup DispatchJob \cup {<<>>}]
    BY <1>2 DEF Insert, TypeOK
  <2>. QED
    BY <1>6, <2>1, <2>2 DEF Insert, TypeOK, Goto, Unlock, Events
<1>8. /\ pc'[p] = "waiting" /\ job'[p] = j
      /\ \A q \in Procs : q # p => pc'[q] = pc[q] /\ job'[q] = job[q]
      /\ stored' = stored
  BY DEF Insert, Goto, TypeOK
<1>9. \A q \in Procs : q # p /\ Dispatching(q) => job[q].ticket \in Tickets \ {t}
  BY <1>4 DEF Jobs, DispatchJob
<1>10. Jobs'
  BY <1>2, <1>4, <1>8, <1>9 DEF Jobs, Asking, Dispatching
<1>11. ClaimIsFresh'
  <2> SUFFICES ASSUME NEW q \in Procs, pc'[q] \in {"locked", "claiming"}
               PROVE  /\ rowLock'[job'[q].ticket] = q
                      /\ pc'[q] = "claiming" =>
                             stored'[q] \in Retryable /\ rows'[job'[q].ticket].status = stored'[q]
    BY DEF ClaimIsFresh
  <2>1. q # p /\ pc[q] = pc'[q] /\ job'[q] = job[q]
    BY <1>8
  <2>2. job[q].ticket \in Tickets \ {t} /\ rowLock[job[q].ticket] = q
    BY <1>9, <2>1 DEF Dispatching, ClaimIsFresh
  <2>3. rowLock'[job[q].ticket] = q
    BY <2>1, <2>2 DEF Insert, Unlock
  <2>. QED
    BY <1>4, <1>8, <2>1, <2>2, <2>3 DEF ClaimIsFresh
<1>12. OneCaller'
  <2> SUFFICES ASSUME NEW q \in Procs, Busy(q)' PROVE
        /\ rows'[job'[q].ticket].status = "dispatching"
        /\ \A r \in Procs : Busy(r)' /\ job'[r].ticket = job'[q].ticket => r = q
        /\ pc'[q] = "calling" => paid'[job'[q].ticket] = 0
        /\ pc'[q] = "recording" =>
               /\ stored'[q] \in Outcomes
               /\ stored'[q] \in Retryable => paid'[job'[q].ticket] = 0
               /\ stored'[q] = "dispatched" => paid'[job'[q].ticket] = 1
    BY DEF OneCaller
  <2>1. q # p /\ Busy(q) /\ job'[q] = job[q] /\ pc'[q] = pc[q] /\ paid' = paid
    BY <1>8 DEF Busy, Insert
  <2>2. job[q].ticket \in Tickets \ {t}
    BY <1>9, <2>1 DEF Busy, Dispatching
  <2>3. \A r \in Procs : Busy(r)' => r # p /\ Busy(r) /\ job'[r] = job[r]
    BY <1>8 DEF Busy
  <2>. QED
    BY <1>4, <1>8, <2>1, <2>2, <2>3 DEF OneCaller
<1>13. NothingBeforeInsert' /\ PaidAtMostOnce'
  BY <1>4 DEF NothingBeforeInsert, PaidAtMostOnce, Insert, TypeOK
<1>14. RowTellsWhatWasPaid'
  BY <1>3, <1>4, <1>5 DEF RowTellsWhatWasPaid, Insert
<1>. QED
  BY <1>6, <1>7, <1>10, <1>11, <1>12, <1>13, <1>14

\* A claim is made by one process, on the status it read under the lock.
LEMMA ClaimKeepsInv ==
    ASSUME IntakeInv, NEW p \in Procs, Claim(p)
    PROVE  IntakeInv'
<1> USE DEF IntakeInv
<1> DEFINE t == job[p].ticket
           e == [before |-> stored[p], after |-> "dispatching"]
           x == [rows[t] EXCEPT !.status = "dispatching"]
<1>1. /\ t \in Tickets /\ Exists(t) /\ rows[t] \in Row
      /\ rowLock[t] = p /\ stored[p] \in Retryable /\ rows[t].status = stored[p]
  BY DEF Claim, Jobs, Dispatching, DispatchJob, ClaimIsFresh, TypeOK, Exists
<1>2. x \in Row /\ x # Absent /\ x.status = "dispatching" /\ e \in Events
  BY <1>1, RowIsNotAbsent DEF Row, Statuses, Events, Retryable
<1>3. /\ rows' = [rows EXCEPT ![t] = x] /\ rows'[t] = x
      /\ \A r \in Tickets \ {t} : rows'[r] = rows[r]
      /\ \A r \in Tickets : Exists(r)' = Exists(r)
  BY <1>1, <1>2 DEF Claim, TypeOK, Exists
<1>4. paid[t] = 0
  BY <1>1 DEF RowTellsWhatWasPaid, TypeOK
<1>5. /\ pc'[p] = "calling" /\ job' = job /\ stored' = stored /\ paid' = paid
      /\ \A q \in Procs : q # p => pc'[q] = pc[q]
  BY DEF Claim, Goto, TypeOK
<1>6. TrailIsAChain' /\ trail' \in [Tickets -> Seq(Events)]
  <2>1. trail' = [trail EXCEPT ![t] = Append(@, e)]
    BY DEF Claim
  <2>2. rows[t].status = e.before /\ rows'[t].status = e.after
    BY <1>1, <1>2, <1>3
  <2>3. TypeOK /\ TrailIsAChain
    OBVIOUS
  <2> HIDE DEF e, x, IntakeInv
  <2>. QED
    BY <1>1, <1>2, <1>3, <2>1, <2>2, <2>3, AuditKeepsChain
<1>7. TypeOK'
  <2>1. rows' \in [Tickets -> Row \cup {Absent}]
    BY <1>2, <1>3 DEF TypeOK
  <2>. QED
    BY <1>6, <2>1 DEF Claim, TypeOK, Goto, Unlock, Events
<1>8. Jobs'
  BY <1>3, <1>5 DEF Jobs, Asking, Dispatching, DispatchJob, Claim
\* Whoever else is past its read holds the lock of another row.
<1>9. \A q \in Procs : q # p /\ pc[q] \in {"locked", "claiming"} => job[q].ticket \in Tickets \ {t}
  BY <1>1 DEF ClaimIsFresh, Jobs, Dispatching, DispatchJob
<1>10. \A q \in Procs : Busy(q) => job[q].ticket \in Tickets \ {t}
  BY <1>1 DEF OneCaller, Jobs, Dispatching, Busy, DispatchJob, Retryable
<1>11. ClaimIsFresh'
  <2> SUFFICES ASSUME NEW q \in Procs, pc'[q] \in {"locked", "claiming"}
               PROVE  /\ rowLock'[job[q].ticket] = q
                      /\ pc'[q] = "claiming" =>
                             stored[q] \in Retryable /\ rows'[job[q].ticket].status = stored[q]
    BY <1>5 DEF ClaimIsFresh
  <2>1. q # p /\ pc[q] = pc'[q]
    BY <1>5
  <2>2. job[q].ticket \in Tickets \ {t} /\ rowLock[job[q].ticket] = q
    BY <1>9, <2>1 DEF ClaimIsFresh
  <2>3. rowLock'[job[q].ticket] = q
    BY <2>1, <2>2 DEF Claim, Unlock
  <2>. QED
    BY <1>3, <2>1, <2>2, <2>3 DEF ClaimIsFresh
<1>12. OneCaller'
  <2>1. \A q \in Procs : Busy(q)' => q = p \/ (q # p /\ Busy(q) /\ pc'[q] = pc[q])
    BY <1>5 DEF Busy
  <2>2. \A q \in Procs : Busy(q)' /\ q # p => job[q].ticket # t /\ rows'[job[q].ticket] = rows[job[q].ticket]
    BY <1>3, <1>10, <2>1
  <2> SUFFICES ASSUME NEW q \in Procs, Busy(q)' PROVE
        /\ rows'[job[q].ticket].status = "dispatching"
        /\ \A r \in Procs : Busy(r)' /\ job[r].ticket = job[q].ticket => r = q
        /\ pc'[q] = "calling" => paid[job[q].ticket] = 0
        /\ pc'[q] = "recording" =>
               /\ stored[q] \in Outcomes
               /\ stored[q] \in Retryable => paid[job[q].ticket] = 0
               /\ stored[q] = "dispatched" => paid[job[q].ticket] = 1
    BY <1>5 DEF OneCaller
  <2>3. CASE q = p
    BY <1>2, <1>3, <1>4, <1>5, <2>2, <2>3
  <2>4. CASE q # p
    <3> HIDE DEF x, e
    <3>. QED
      BY <2>1, <2>2, <2>4 DEF OneCaller
  <2>. QED
    BY <2>3, <2>4
<1>13. NothingBeforeInsert' /\ PaidAtMostOnce'
  BY <1>1, <1>3, <1>5 DEF NothingBeforeInsert, PaidAtMostOnce, Claim, TypeOK
<1>14. RowTellsWhatWasPaid'
  BY <1>2, <1>3, <1>5 DEF RowTellsWhatWasPaid, Retryable
<1>. QED
  BY <1>6, <1>7, <1>8, <1>11, <1>12, <1>13, <1>14

\* Only the process that has claimed a request calls for it, and once.
LEMMA CallKeepsInv ==
    ASSUME IntakeInv, NEW p \in Procs, NEW accepted \in BOOLEAN, NEW answer \in Outcomes,
           Call(p, accepted, answer)
    PROVE  IntakeInv'
<1> USE DEF IntakeInv
<1> DEFINE t == job[p].ticket
<1>1. /\ t \in Tickets /\ Exists(t) /\ rows[t].status = "dispatching" /\ paid[t] = 0
      /\ \A q \in Procs : Busy(q) /\ job[q].ticket = t => q = p
  BY DEF Call, Jobs, Dispatching, Busy, DispatchJob, OneCaller
<1>2. /\ paid'[t] = IF accepted THEN 1 ELSE 0
      /\ paid' \in [Tickets -> Nat]
      /\ \A r \in Tickets \ {t} : paid'[r] = paid[r]
  BY <1>1 DEF Call, TypeOK
<1>3. /\ pc'[p] = "recording" /\ stored'[p] = answer
      /\ \A q \in Procs : q # p => pc'[q] = pc[q] /\ stored'[q] = stored[q]
      /\ job' = job /\ rows' = rows /\ trail' = trail /\ rowLock' = rowLock
  BY DEF Call, Goto, TypeOK
<1>4. answer \in Retryable => ~accepted
  BY DEF Call, Retryable
<1>5. answer = "dispatched" => accepted
  BY DEF Call
<1>6. TypeOK'
  BY <1>2 DEF Call, Goto, TypeOK
<1>7. Jobs' /\ ClaimIsFresh'
  BY <1>3 DEF Call, Jobs, ClaimIsFresh, Asking, Dispatching, Exists
<1>8. OneCaller'
  <2> SUFFICES ASSUME NEW q \in Procs, Busy(q)' PROVE
        /\ rows[job[q].ticket].status = "dispatching"
        /\ \A r \in Procs : Busy(r)' /\ job[r].ticket = job[q].ticket => r = q
        /\ pc'[q] = "calling" => paid'[job[q].ticket] = 0
        /\ pc'[q] = "recording" =>
               /\ stored'[q] \in Outcomes
               /\ stored'[q] \in Retryable => paid'[job[q].ticket] = 0
               /\ stored'[q] = "dispatched" => paid'[job[q].ticket] = 1
    BY <1>3 DEF OneCaller
  <2>1. \A r \in Procs : Busy(r)' <=> Busy(r)
    BY <1>3 DEF Busy, Call
  <2>2. CASE q = p
    BY <1>1, <1>2, <1>3, <1>4, <1>5, <2>1, <2>2
  <2>3. CASE q # p
    <3>1. Busy(q) /\ job[q].ticket \in Tickets \ {t}
      BY <1>1, <2>1, <2>3 DEF Jobs, Dispatching, Busy, DispatchJob
    <3>. QED
      BY <1>2, <1>3, <2>1, <2>3, <3>1 DEF OneCaller
  <2>. QED
    BY <2>2, <2>3
<1>9. NothingBeforeInsert' /\ PaidAtMostOnce' /\ TrailIsAChain'
  BY <1>1, <1>2, <1>3 DEF NothingBeforeInsert, PaidAtMostOnce, TrailIsAChain, Exists
<1>10. RowTellsWhatWasPaid'
  <2> SUFFICES ASSUME NEW r \in Tickets, Exists(r) PROVE
        /\ paid'[r] > 0 => rows[r].status \notin Retryable
        /\ rows[r].status = "dispatched" => paid'[r] = 1 /\ rows[r].session /\ rows[r].error = "none"
        /\ rows[r].status = "failed" => rows[r].error = "definite"
    BY <1>3 DEF RowTellsWhatWasPaid, Exists
  <2>1. CASE r = t
    BY <1>1, <2>1 DEF Retryable
  <2>2. CASE r # t
    BY <1>2, <2>2 DEF RowTellsWhatWasPaid
  <2>. QED
    BY <2>1, <2>2
<1>. QED
  BY <1>6, <1>7, <1>8, <1>9, <1>10

\* What is recorded is what the call told, and the claim ends with it.
LEMMA RecordKeepsInv ==
    ASSUME IntakeInv, NEW p \in Procs, Record(p)
    PROVE  IntakeInv'
<1> USE DEF IntakeInv
<1> DEFINE t == job[p].ticket
           x == Settled(rows[t], stored[p])
           e == [before |-> "dispatching", after |-> x.status]
<1>1. /\ t \in Tickets /\ Exists(t) /\ rows[t] \in Row /\ rows[t].status = "dispatching"
      /\ \A q \in Procs : Busy(q) /\ job[q].ticket = t => q = p
      /\ stored[p] \in Outcomes
      /\ stored[p] \in Retryable => paid[t] = 0
      /\ stored[p] = "dispatched" => paid[t] = 1
      /\ rowLock[t] = NoProc
  BY DEF Record, Jobs, Dispatching, Busy, DispatchJob, OneCaller, TypeOK, Exists
<1>2. /\ x \in Row /\ x.status \in Statuses
      /\ stored[p] # "ambiguous" => x.status = stored[p]
      /\ stored[p] = "ambiguous" => x.status = "dispatching"
      /\ stored[p] = "dispatched" => x.session /\ x.error = "none"
      /\ stored[p] = "failed" => x.error = "definite"
  BY <1>1, SettledRow
<1>3. /\ rows' = [rows EXCEPT ![t] = x] /\ rows'[t] = x
      /\ \A r \in Tickets \ {t} : rows'[r] = rows[r]
  BY <1>1 DEF Record, TypeOK
<1>4. e \in Events /\ e.before = "dispatching" /\ e.after = x.status
  BY <1>2 DEF Events, Statuses
<1>5. trail' = [trail EXCEPT ![t] = Append(@, e)] /\ paid' = paid /\ Finish(p, "done") /\ UNCHANGED configured
  BY DEF Record
<1> HIDE DEF x, e
<1>6. x # Absent /\ \A r \in Tickets : Exists(r)' = Exists(r)
  BY <1>1, <1>2, <1>3, RowIsNotAbsent DEF Exists
<1>7. TrailIsAChain' /\ trail' \in [Tickets -> Seq(Events)]
  <2>1. TypeOK /\ TrailIsAChain
    OBVIOUS
  <2>2. rows[t].status = e.before /\ rows'[t].status = e.after
    BY <1>1, <1>3, <1>4
  <2> HIDE DEF IntakeInv
  <2>. QED
    BY <1>1, <1>3, <1>4, <1>5, <2>1, <2>2, AuditKeepsChain
<1>8. TypeOK'
  <2>1. rows' \in [Tickets -> Row \cup {Absent}]
    BY <1>2, <1>3 DEF TypeOK
  <2>. QED
    BY <1>5, <1>7, <2>1 DEF Finish, TypeOK, Goto, Unlock, Events
<1>9. /\ \A q \in Procs : q # p => pc'[q] = pc[q] /\ job'[q] = job[q] /\ stored'[q] = stored[q]
      /\ ~Asking(p)' /\ ~Dispatching(p)' /\ ~Busy(p)'
  BY <1>5 DEF TypeOK, Finish, Goto, Asking, Dispatching, Busy
<1>10. Jobs'
  BY <1>6, <1>9 DEF Jobs, Asking, Dispatching, DispatchJob
<1>11. ClaimIsFresh'
  <2> SUFFICES ASSUME NEW q \in Procs, pc'[q] \in {"locked", "claiming"}
               PROVE  /\ rowLock'[job'[q].ticket] = q
                      /\ pc'[q] = "claiming" =>
                             stored'[q] \in Retryable /\ rows'[job'[q].ticket].status = stored'[q]
    BY DEF ClaimIsFresh
  <2>1. q # p /\ pc'[q] = pc[q] /\ job'[q] = job[q] /\ stored'[q] = stored[q]
    BY <1>9 DEF Dispatching
  <2>2. job[q] \in DispatchJob /\ job[q].ticket \in Tickets /\ rowLock[job[q].ticket] = q
    BY <2>1 DEF Jobs, ClaimIsFresh, Dispatching, DispatchJob
  <2>3. job[q].ticket # t
    BY <1>1, <2>2, IntakeAssumption
  <2>4. rowLock'[job[q].ticket] = q
    BY <1>5, <2>1, <2>2 DEF Finish, Unlock
  <2>. QED
    BY <1>3, <2>1, <2>2, <2>3, <2>4 DEF ClaimIsFresh
<1>12. OneCaller'
  <2> SUFFICES ASSUME NEW q \in Procs, Busy(q)' PROVE
        /\ rows'[job'[q].ticket].status = "dispatching"
        /\ \A r \in Procs : Busy(r)' /\ job'[r].ticket = job'[q].ticket => r = q
        /\ pc'[q] = "calling" => paid[job'[q].ticket] = 0
        /\ pc'[q] = "recording" =>
               /\ stored'[q] \in Outcomes
               /\ stored'[q] \in Retryable => paid[job'[q].ticket] = 0
               /\ stored'[q] = "dispatched" => paid[job'[q].ticket] = 1
    BY <1>5 DEF OneCaller
  <2>1. q # p /\ Busy(q) /\ pc'[q] = pc[q] /\ job'[q] = job[q] /\ stored'[q] = stored[q]
    BY <1>9 DEF Busy
  <2>2. job[q].ticket \in Tickets \ {t}
    BY <1>1, <2>1 DEF Busy, Jobs, Dispatching, DispatchJob
  <2>3. \A r \in Procs : Busy(r)' => Busy(r) /\ job'[r] = job[r]
    BY <1>9 DEF Busy
  <2>. QED
    BY <1>3, <2>1, <2>2, <2>3 DEF OneCaller
<1>13. NothingBeforeInsert' /\ PaidAtMostOnce'
  <2>1. \A r \in Tickets : ~Exists(r) => r # t
    BY <1>1
  <2>2. \A r \in Tickets \ {t} : trail'[r] = trail[r]
    BY <1>5 DEF TypeOK
  <2>. QED
    BY <1>5, <1>6, <2>1, <2>2 DEF NothingBeforeInsert, PaidAtMostOnce
<1>14. RowTellsWhatWasPaid'
  <2> SUFFICES ASSUME NEW r \in Tickets, Exists(r) PROVE
        /\ paid[r] > 0 => rows'[r].status \notin Retryable
        /\ rows'[r].status = "dispatched" => paid[r] = 1 /\ rows'[r].session /\ rows'[r].error = "none"
        /\ rows'[r].status = "failed" => rows'[r].error = "definite"
    BY <1>5, <1>6 DEF RowTellsWhatWasPaid
  <2>1. CASE r = t
    BY <1>1, <1>2, <1>3, <2>1 DEF Retryable, Outcomes, TypeOK
  <2>2. CASE r # t
    BY <1>3, <2>2 DEF RowTellsWhatWasPaid
  <2>. QED
    BY <2>1, <2>2
<1>. QED
  BY <1>7, <1>8, <1>10, <1>11, <1>12, <1>13, <1>14

-----------------------------------------------------------------------------
(* What happens outside the requests. *)

\* The key and the day change no request.
LEMMA OutsideKeepsInv ==
    ASSUME IntakeInv,
           \/ ChangeKey
           \/ \E t \in Tickets : DayPasses(t)
           \/ UNCHANGED vars
    PROVE  IntakeInv'
<1> USE DEF IntakeInv
<1>1. ASSUME NEW t \in Tickets, DayPasses(t) PROVE IntakeInv'
  <2> DEFINE x == [rows[t] EXCEPT !.recent = FALSE]
  <2>1. /\ x \in Row /\ x # Absent /\ rows[t] \in Row /\ Exists(t)
        /\ x.status = rows[t].status /\ x.session = rows[t].session /\ x.error = rows[t].error
    <3>1. rows[t] \in Row /\ Exists(t)
      BY <1>1 DEF DayPasses, TypeOK, Exists
    <3>2. /\ x \in Row
          /\ x.status = rows[t].status /\ x.session = rows[t].session /\ x.error = rows[t].error
      BY <3>1 DEF Row
    <3>. QED
      BY <3>1, <3>2, RowIsNotAbsent
  <2>2. /\ rows' = [rows EXCEPT ![t] = x]
        /\ rows'[t] = x /\ \A r \in Tickets \ {t} : rows'[r] = rows[r]
    BY <1>1 DEF DayPasses, TypeOK
  <2>3. UNCHANGED <<trail, paid, configured, submitLock, rowLock, pc, job, stored>>
    BY <1>1 DEF DayPasses
  <2>4. TypeOK'
    BY <2>1, <2>2, <2>3 DEF TypeOK
  <2> HIDE DEF x
  <2>5. \A r \in Tickets :
          /\ Exists(r)' = Exists(r)
          /\ Exists(r) => /\ rows'[r].status = rows[r].status
                           /\ rows'[r].session = rows[r].session
                           /\ rows'[r].error = rows[r].error
    BY <2>1, <2>2 DEF Exists
  <2>6. \A p \in Procs : Dispatching(p) => job[p].ticket \in Tickets /\ Exists(job[p].ticket)
    BY DEF Jobs, DispatchJob
  <2>7. Jobs' /\ ClaimIsFresh' /\ OneCaller'
    BY <2>3, <2>5, <2>6 DEF Jobs, ClaimIsFresh, OneCaller, Asking, Dispatching, Busy
  <2>8. NothingBeforeInsert' /\ PaidAtMostOnce' /\ RowTellsWhatWasPaid'
    BY <2>3, <2>5 DEF NothingBeforeInsert, PaidAtMostOnce, RowTellsWhatWasPaid
  <2>9. TrailIsAChain'
    BY <2>3, <2>5 DEF TrailIsAChain, NothingBeforeInsert
  <2>. QED
    BY <2>4, <2>7, <2>8, <2>9
<1>2. ASSUME UNCHANGED <<rows, trail, paid, submitLock, rowLock, pc, job, stored>>, configured' \in BOOLEAN
      PROVE  IntakeInv'
  <2>1. TypeOK'
    BY <1>2 DEF TypeOK
  <2>2. Jobs' /\ ClaimIsFresh' /\ OneCaller'
    BY <1>2 DEF Jobs, ClaimIsFresh, OneCaller, Asking, Dispatching, Busy, Exists
  <2>3. NothingBeforeInsert' /\ PaidAtMostOnce' /\ RowTellsWhatWasPaid' /\ TrailIsAChain'
    BY <1>2 DEF NothingBeforeInsert, PaidAtMostOnce, RowTellsWhatWasPaid, TrailIsAChain, Exists
  <2>. QED
    BY <2>1, <2>2, <2>3
<1>3. CASE ChangeKey
  BY <1>2, <1>3 DEF ChangeKey, TypeOK
<1>4. CASE UNCHANGED vars
  BY <1>2, <1>4 DEF vars, TypeOK
<1>. QED
  BY <1>1, <1>3, <1>4

\* The invariant holds at the start.
LEMMA InitHasInv == Init => IntakeInv
<1> SUFFICES ASSUME Init PROVE IntakeInv
  OBVIOUS
<1>1. PICK S \in {{}} \cup {{t} : t \in Tickets}, u \in Users :
        rows = [t \in Tickets |-> IF t \in S THEN NewRow(u) ELSE Absent]
  BY DEF Init
<1>2. NewRow(u) \in Row /\ NewRow(u).status = "queued" /\ NewRow(u) # Absent
  BY NewRowType, RowIsNotAbsent DEF NewRow
<1>3. TypeOK
  BY <1>1, <1>2, EmptySeq DEF Init, TypeOK
<1>4. PaidAtMostOnce /\ NothingBeforeInsert /\ RowTellsWhatWasPaid
  BY <1>1, <1>2 DEF Init, PaidAtMostOnce, NothingBeforeInsert, RowTellsWhatWasPaid, Exists
<1>5. TrailIsAChain
  <2>1. \A t \in Tickets : trail[t] = <<>> /\ Len(trail[t]) = 0
    BY EmptySeq DEF Init
  <2>. QED
    BY <2>1 DEF TrailIsAChain
<1>6. Jobs /\ ClaimIsFresh /\ OneCaller
  BY DEF Init, Jobs, ClaimIsFresh, OneCaller, Asking, Dispatching, Busy
<1>. QED
  BY <1>3, <1>4, <1>5, <1>6 DEF IntakeInv

\* Every step keeps the invariant.
LEMMA NextKeepsInv == IntakeInv /\ [Next]_vars => IntakeInv'
BY QuietKeepsInv, InsertKeepsInv, ClaimKeepsInv, CallKeepsInv, RecordKeepsInv, OutsideKeepsInv
   DEF Next, Step

-----------------------------------------------------------------------------
\* However clicks, late answers, crashes and a vanishing key interleave: one
\* session per request at most, a row that never offers a paid request again,
\* and an audit trail without gaps.
THEOREM IntakeSafety ==
    Spec => [](TypeOK /\ PaidAtMostOnce /\ RowTellsWhatWasPaid /\ TrailIsAChain)
<1>1. Spec => []IntakeInv
  BY InitHasInv, NextKeepsInv, PTL DEF Spec
<1>2. IntakeInv => TypeOK /\ PaidAtMostOnce /\ RowTellsWhatWasPaid /\ TrailIsAChain
  BY DEF IntakeInv
<1>. QED
  BY <1>1, <1>2, PTL

-----------------------------------------------------------------------------
(***************************************************************************)
(* The intake implements the one-session promise: a claim takes the        *)
(* request, the call buys, the record of a refusal gives it back, and      *)
(* every other step stutters.                                              *)
(***************************************************************************)
PromiseStep == [Promise!MoneyNext]_<<Started, paid>>

\* A step that changes one row moves at most that request in or out of Started.
LEMMA StartedFrame ==
    ASSUME NEW t \in Tickets,
           \A r \in Tickets \ {t} : rows'[r] = rows[r]
    PROVE  Started' \ {t} = Started \ {t}
BY DEF Started, Exists

\* A claim is the abstract step that takes a request.
LEMMA ClaimTakes ==
    ASSUME IntakeInv, NEW p \in Procs, Claim(p)
    PROVE  PromiseStep
<1> DEFINE t == job[p].ticket
           x == [rows[t] EXCEPT !.status = "dispatching"]
<1>1. /\ t \in Tickets /\ rows[t] \in Row /\ rows[t].status \in Retryable
  BY DEF Claim, IntakeInv, Jobs, Dispatching, DispatchJob, ClaimIsFresh, TypeOK, Exists
<1>2. x \in Row /\ x # Absent /\ x.status = "dispatching"
  BY <1>1, RowIsNotAbsent DEF Row, Statuses
<1>3. rows'[t] = x /\ \A r \in Tickets \ {t} : rows'[r] = rows[r]
  BY <1>1 DEF Claim, IntakeInv, TypeOK
<1> HIDE DEF x
<1>4. t \notin Started /\ t \in Started'
  BY <1>1, <1>2, <1>3 DEF Started, Exists, Retryable
<1>5. Started' \ {t} = Started \ {t}
  BY <1>1, <1>3, StartedFrame
<1>6. Started' = Started \cup {t} /\ paid' = paid
  BY <1>4, <1>5 DEF Claim
<1>. QED
  BY <1>1, <1>4, <1>6 DEF PromiseStep, Promise!MoneyNext, Promise!Take

\* A call buys a session for a request that was taken, or does nothing.
LEMMA CallBuys ==
    ASSUME IntakeInv, NEW p \in Procs, NEW accepted \in BOOLEAN, NEW answer \in Outcomes,
           Call(p, accepted, answer)
    PROVE  PromiseStep
<1> DEFINE t == job[p].ticket
<1>1. /\ t \in Tickets /\ Exists(t) /\ rows[t].status = "dispatching" /\ paid[t] = 0
  BY DEF Call, IntakeInv, Jobs, Dispatching, Busy, DispatchJob, OneCaller
<1>2. t \in Started /\ Started' = Started
  BY <1>1 DEF Started, Call, Exists, Retryable
<1>3. CASE accepted
  <2>1. paid' = [paid EXCEPT ![t] = 1]
    BY <1>1, <1>3 DEF Call
  <2>. QED
    BY <1>1, <1>2, <2>1 DEF PromiseStep, Promise!MoneyNext, Promise!Buy
<1>4. CASE ~accepted
  <2>1. paid' = paid
    BY <1>1, <1>4 DEF Call, IntakeInv, TypeOK
  <2>. QED
    BY <1>2, <2>1 DEF PromiseStep
<1>. QED
  BY <1>3, <1>4

\* A record gives the request back if nothing was bought, or does nothing.
LEMMA RecordGivesBack ==
    ASSUME IntakeInv, NEW p \in Procs, Record(p)
    PROVE  PromiseStep
<1> DEFINE t == job[p].ticket
           x == Settled(rows[t], stored[p])
<1>1. /\ t \in Tickets /\ Exists(t) /\ rows[t] \in Row /\ rows[t].status = "dispatching"
      /\ stored[p] \in Outcomes
      /\ stored[p] \in Retryable => paid[t] = 0
  BY DEF Record, IntakeInv, Jobs, Dispatching, Busy, DispatchJob, OneCaller, TypeOK, Exists
<1>2. /\ x \in Row /\ x # Absent
      /\ x.status \in Retryable => stored[p] \in Retryable
  BY <1>1, SettledRow, RowIsNotAbsent DEF Retryable
<1>3. rows'[t] = x /\ \A r \in Tickets \ {t} : rows'[r] = rows[r]
  BY <1>1 DEF Record, IntakeInv, TypeOK
<1> HIDE DEF x
<1>4. t \in Started /\ paid' = paid /\ Started' \ {t} = Started \ {t}
  BY <1>1, <1>3, StartedFrame DEF Started, Retryable, Record
<1>5. CASE x.status \in Retryable
  <2>1. Started' = Started \ {t} /\ paid[t] = 0
    BY <1>1, <1>2, <1>3, <1>4, <1>5 DEF Started
  <2>. QED
    BY <1>1, <1>4, <2>1 DEF PromiseStep, Promise!MoneyNext, Promise!GiveBack
<1>6. CASE x.status \notin Retryable
  <2>1. t \in Started'
    BY <1>1, <1>2, <1>3, <1>6 DEF Started, Exists
  <2>2. Started' = Started
    BY <1>4, <2>1
  <2>. QED
    BY <1>4, <2>2 DEF PromiseStep
<1>. QED
  BY <1>5, <1>6

\* An insert is a stutter of the promise.
LEMMA InsertIsFree ==
    ASSUME IntakeInv, NEW p \in Procs, NEW t \in Tickets, Insert(p, t)
    PROVE  PromiseStep
<1>1. rows'[t].status = "queued" /\ (\A r \in Tickets \ {t} : rows'[r] = rows[r]) /\ ~Exists(t)
  BY DEF Insert, IntakeInv, TypeOK, NewRow
<1>2. t \notin Started /\ t \notin Started'
  BY <1>1 DEF Started, Retryable
<1>3. Started' \ {t} = Started \ {t}
  BY <1>1, StartedFrame
<1>4. Started' = Started
  BY <1>2, <1>3
<1>5. paid' = paid
  BY DEF Insert
<1>. QED
  BY <1>4, <1>5 DEF PromiseStep

\* Whatever changes no request and pays nothing is a stutter of the promise.
LEMMA OtherStepsAreFree ==
    ASSUME IntakeInv, paid' = paid,
           \/ rows' = rows
           \/ \E t \in Tickets : DayPasses(t)
    PROVE  PromiseStep
<1>1. CASE rows' = rows
  BY <1>1 DEF PromiseStep, Started, Exists
<1>2. ASSUME NEW t \in Tickets, DayPasses(t) PROVE PromiseStep
  <2> DEFINE x == [rows[t] EXCEPT !.recent = FALSE]
  <2>1. rows[t] \in Row /\ Exists(t)
    BY <1>2 DEF DayPasses, IntakeInv, TypeOK, Exists
  <2>2. x \in Row /\ x # Absent /\ x.status = rows[t].status
    BY <2>1, RowIsNotAbsent DEF Row
  <2>3. rows'[t] = x /\ \A r \in Tickets \ {t} : rows'[r] = rows[r]
    BY <1>2 DEF DayPasses, IntakeInv, TypeOK
  <2> HIDE DEF x
  <2>4. t \in Started' <=> t \in Started
    BY <2>1, <2>2, <2>3 DEF Started, Exists
  <2>. QED
    BY <2>3, <2>4, StartedFrame DEF PromiseStep
<1>. QED
  BY <1>1, <1>2

\* Whatever the requests do, what is paid and what is offered for a start
\* follows the abstract promise step by step.
THEOREM IntakeImplementsPromise == Spec => KeepsPromise
<1>1. Init => Promise!MoneyInit
  <2> SUFFICES ASSUME Init PROVE Promise!MoneyInit
    OBVIOUS
  <2>1. \A t \in Tickets : Exists(t) => rows[t].status = "queued"
    BY DEF Init, Exists, NewRow
  <2>. QED
    BY <2>1 DEF Init, Promise!MoneyInit, Started, Retryable
<1>2. IntakeInv /\ [Next]_vars => PromiseStep
  <2> SUFFICES ASSUME IntakeInv, [Next]_vars PROVE PromiseStep
    OBVIOUS
  <2>1. ASSUME NEW p \in Procs, Step(p) PROVE PromiseStep
    BY <2>1, ClaimTakes, CallBuys, RecordGivesBack, InsertIsFree, OtherStepsAreFree
       DEF Step, TakeSubmitLock, CountToday, TakeRowLock, CheckRow
  <2>2. ASSUME NEW p \in Procs, Crash(p) PROVE PromiseStep
    BY <2>2, OtherStepsAreFree DEF Crash
  <2>3. CASE ~(\E p \in Procs : Step(p) \/ Crash(p))
    <3>1. paid' = paid /\ (rows' = rows \/ \E t \in Tickets : DayPasses(t))
      BY <2>3 DEF Next, Submit, Retry, ChangeKey, DayPasses, vars
    <3>. QED
      BY <3>1, OtherStepsAreFree
  <2>. QED
    BY <2>1, <2>2, <2>3
<1>3. Spec => []IntakeInv
  BY InitHasInv, NextKeepsInv, PTL DEF Spec
<1>. QED
  BY <1>1, <1>2, <1>3, PTL DEF Spec, KeepsPromise, Promise!MoneySpec, PromiseStep

-----------------------------------------------------------------------------
(***************************************************************************)
(* The daily limit.  It holds because of the advisory lock: from its count *)
(* to its commit a submission is the only one of its user, so the count    *)
(* can only have gone down since.                                          *)
(***************************************************************************)
CountIsFresh ==
    \A p \in Procs, u \in Users : pc[p] \in {"counting", "inserting"} /\ job[p].user = u =>
        /\ submitLock[u] = p
        /\ pc[p] = "inserting" => Cardinality(Today(u)) < MaxPerDay

LimitInv ==
    /\ CountIsFresh
    /\ \A u \in Users : IsFiniteSet(Today(u))
    /\ DailyLimit

\* Locks and places move, the counted rows do not.
LEMMA CountsKept ==
    ASSUME IntakeInv, LimitInv, rows' = rows, CountIsFresh'
    PROVE  LimitInv'
BY DEF LimitInv, DailyLimit, Today, Exists

\* A request that ends without a change of the table leaves the counts of the others valid.
LEMMA FinishKeepsCount ==
    ASSUME IntakeInv, LimitInv, NEW p \in Procs, NEW how \in {"done", "refused", "crashed"}, Finish(p, how),
           \A u \in Users : Today(u)' = Today(u)
    PROVE  CountIsFresh'
<1> SUFFICES ASSUME NEW q \in Procs, NEW u \in Users, pc'[q] \in {"counting", "inserting"}, job'[q].user = u
             PROVE  /\ submitLock'[u] = q
                    /\ pc'[q] = "inserting" => Cardinality(Today(u)') < MaxPerDay
  BY DEF CountIsFresh
<1>1. q # p /\ pc'[q] = pc[q] /\ job'[q] = job[q]
  BY DEF IntakeInv, TypeOK, Finish, Goto
<1>2. submitLock[u] = q /\ (pc[q] = "inserting" => Cardinality(Today(u)) < MaxPerDay)
  BY <1>1 DEF LimitInv, CountIsFresh
<1>3. submitLock'[u] = q
  BY <1>1, <1>2 DEF Finish, Unlock
<1>. QED
  BY <1>1, <1>2, <1>3

\* An inserted request adds itself to its owner's day and to nobody else's.
LEMMA InsertAddsOne ==
    ASSUME IntakeInv, NEW p \in Procs, NEW t \in Tickets, Insert(p, t)
    PROVE  /\ job[p].user \in Users
           /\ \A u \in Users :
                 IF u = job[p].user THEN t \notin Today(u) /\ Today(u)' = Today(u) \cup {t}
                                    ELSE Today(u)' = Today(u)
<1>1. job[p].user \in Users
  BY DEF Insert, IntakeInv, Jobs, Asking, SubmitJob
<1> DEFINE x == NewRow(job[p].user)
<1>2. x # Absent /\ x.owner = job[p].user /\ x.recent
  BY <1>1, NewRowType, RowIsNotAbsent DEF NewRow
<1>3. rows'[t] = x /\ (\A r \in Tickets \ {t} : rows'[r] = rows[r]) /\ ~Exists(t)
  BY DEF Insert, IntakeInv, TypeOK
<1> HIDE DEF x
<1>4. SUFFICES ASSUME NEW u \in Users
      PROVE  IF u = job[p].user THEN t \notin Today(u) /\ Today(u)' = Today(u) \cup {t}
                                ELSE Today(u)' = Today(u)
  BY <1>1
<1>5. \A r \in Tickets \ {t} : r \in Today(u)' <=> r \in Today(u)
  BY <1>3 DEF Today, Exists
<1>6. t \notin Today(u) /\ (t \in Today(u)' <=> u = job[p].user)
  BY <1>2, <1>3 DEF Today, Exists
<1>7. Today(u) \subseteq Tickets /\ Today(u)' \subseteq Tickets
  BY DEF Today
<1>. QED
  BY <1>5, <1>6, <1>7

\* A row that keeps its owner and its age leaves every count as it was.
LEMMA OwnersKept ==
    ASSUME IntakeInv, NEW t \in Tickets, NEW x \in Row, Exists(t),
           rows' = [rows EXCEPT ![t] = x],
           x.owner = rows[t].owner, x.recent = rows[t].recent
    PROVE  \A u \in Users : Today(u)' = Today(u)
<1>1. x # Absent /\ rows'[t] = x /\ \A r \in Tickets \ {t} : rows'[r] = rows[r]
  BY RowIsNotAbsent DEF IntakeInv, TypeOK
<1>2. SUFFICES ASSUME NEW u \in Users PROVE Today(u)' = Today(u)
  OBVIOUS
<1>3. \A r \in Tickets \ {t} : r \in Today(u)' <=> r \in Today(u)
  BY <1>1 DEF Today, Exists
<1>4. t \in Today(u)' <=> t \in Today(u)
  BY <1>1 DEF Today, Exists
<1>5. Today(u) \subseteq Tickets /\ Today(u)' \subseteq Tickets
  BY DEF Today
<1>. QED
  BY <1>3, <1>4, <1>5

\* Nothing a count looks at is touched, and nobody moves near it.
LEMMA PlacesKeepCount ==
    ASSUME IntakeInv, LimitInv, NEW p \in Procs, submitLock' = submitLock,
           pc[p] \notin {"counting", "inserting"}, pc'[p] \notin {"counting", "inserting"},
           \A q \in Procs : q # p => pc'[q] = pc[q] /\ job'[q] = job[q],
           \A u \in Users : Today(u)' = Today(u)
    PROVE  CountIsFresh'
<1> SUFFICES ASSUME NEW q \in Procs, NEW u \in Users, pc'[q] \in {"counting", "inserting"}, job'[q].user = u
             PROVE  /\ submitLock'[u] = q
                    /\ pc'[q] = "inserting" => Cardinality(Today(u)') < MaxPerDay
  BY DEF CountIsFresh
<1>1. q # p /\ pc'[q] = pc[q] /\ job'[q] = job[q]
  OBVIOUS
<1>2. submitLock[u] = q /\ (pc[q] = "inserting" => Cardinality(Today(u)) < MaxPerDay)
  BY <1>1 DEF LimitInv, CountIsFresh
<1>. QED
  BY <1>1, <1>2

\* With the counts unchanged, only the freshness has to be shown again.
LEMMA SameCounts ==
    ASSUME LimitInv, CountIsFresh', \A u \in Users : Today(u)' = Today(u)
    PROVE  LimitInv'
BY DEF LimitInv, DailyLimit

\* An insert uses up one of what the count under the lock left.
LEMMA InsertKeepsLimit ==
    ASSUME IntakeInv, LimitInv, NEW p \in Procs, NEW t \in Tickets, Insert(p, t)
    PROVE  LimitInv'
<1>1. job[p].user \in Users
      /\ \A u \in Users :
            IF u = job[p].user THEN t \notin Today(u) /\ Today(u)' = Today(u) \cup {t}
                               ELSE Today(u)' = Today(u)
  BY InsertAddsOne
<1>2. pc[p] = "inserting" /\ submitLock[job[p].user] = p /\ Cardinality(Today(job[p].user)) < MaxPerDay
  BY <1>1 DEF Insert, LimitInv, CountIsFresh
<1>3. ASSUME NEW u \in Users PROVE IsFiniteSet(Today(u)') /\ Cardinality(Today(u)') <= MaxPerDay
  <2>1. IsFiniteSet(Today(u)) /\ Cardinality(Today(u)) \in Nat /\ Cardinality(Today(u)) <= MaxPerDay
    BY FS_CardinalityType DEF LimitInv, DailyLimit
  <2>2. CASE u = job[p].user
    <3>1. IsFiniteSet(Today(u) \cup {t}) /\ Cardinality(Today(u) \cup {t}) = Cardinality(Today(u)) + 1
      BY <1>1, <2>1, <2>2, FS_AddElement
    <3>. QED
      BY <1>1, <1>2, <2>1, <2>2, <3>1, IntakeAssumption DEF IntakeAssumption
  <2>3. CASE u # job[p].user
    BY <1>1, <2>1, <2>3
  <2>. QED
    BY <2>2, <2>3
<1>4. CountIsFresh'
  <2> SUFFICES ASSUME NEW q \in Procs, NEW u \in Users, pc'[q] \in {"counting", "inserting"}, job'[q].user = u
               PROVE  /\ submitLock'[u] = q
                      /\ pc'[q] = "inserting" => Cardinality(Today(u)') < MaxPerDay
    BY DEF CountIsFresh
  <2>1. q # p /\ pc'[q] = pc[q] /\ job'[q] = job[q]
    BY DEF Insert, Goto, IntakeInv, TypeOK
  <2>2. submitLock[u] = q /\ (pc[q] = "inserting" => Cardinality(Today(u)) < MaxPerDay)
    BY <2>1 DEF LimitInv, CountIsFresh
  <2>3. u # job[p].user /\ submitLock'[u] = q
    BY <1>2, <2>1, <2>2 DEF Insert, Unlock
  <2>. QED
    BY <1>1, <2>1, <2>2, <2>3
<1>. QED
  BY <1>3, <1>4 DEF LimitInv, DailyLimit

\* A day that passes takes requests out of the count.
LEMMA DayPassesKeepsLimit ==
    ASSUME IntakeInv, LimitInv, NEW t \in Tickets, DayPasses(t)
    PROVE  LimitInv'
<1> DEFINE x == [rows[t] EXCEPT !.recent = FALSE]
<1>1. rows[t] \in Row /\ Exists(t)
  BY DEF DayPasses, IntakeInv, TypeOK, Exists
<1>2. x.recent = FALSE
  BY <1>1 DEF Row
<1>3. rows'[t] = x /\ \A r \in Tickets \ {t} : rows'[r] = rows[r]
  BY DEF DayPasses, IntakeInv, TypeOK
<1> HIDE DEF x
<1>4. ASSUME NEW u \in Users PROVE Today(u)' \subseteq Today(u)
  BY <1>2, <1>3 DEF Today, Exists
<1>5. ASSUME NEW u \in Users
      PROVE  /\ IsFiniteSet(Today(u)') /\ Cardinality(Today(u)') \in Nat
             /\ Cardinality(Today(u)) \in Nat
             /\ Cardinality(Today(u)') <= Cardinality(Today(u))
  BY <1>4, FS_Subset, FS_CardinalityType DEF LimitInv
<1>6. pc' = pc /\ job' = job /\ submitLock' = submitLock
  BY DEF DayPasses
<1>7. CountIsFresh'
  <2> SUFFICES ASSUME NEW q \in Procs, NEW u \in Users, pc[q] \in {"counting", "inserting"}, job[q].user = u
               PROVE  /\ submitLock[u] = q
                      /\ pc[q] = "inserting" => Cardinality(Today(u)') < MaxPerDay
    BY <1>6 DEF CountIsFresh
  <2>1. submitLock[u] = q /\ (pc[q] = "inserting" => Cardinality(Today(u)) < MaxPerDay)
    BY DEF LimitInv, CountIsFresh
  <2>. QED
    BY <1>5, <2>1, IntakeAssumption DEF IntakeAssumption
<1>. QED
  BY <1>5, <1>7, IntakeAssumption DEF LimitInv, DailyLimit, IntakeAssumption

\* Taking the advisory lock, and counting under it.
LEMMA SubmissionKeepsLimit ==
    ASSUME IntakeInv, LimitInv, NEW p \in Procs,
           TakeSubmitLock(p) \/ \E slugTaken \in BOOLEAN : CountToday(p, slugTaken)
    PROVE  LimitInv'
<1>1. rows' = rows
  BY DEF TakeSubmitLock, CountToday
<1>2. \A u \in Users : Today(u)' = Today(u)
  BY <1>1 DEF Today, Exists
<1>3. CASE TakeSubmitLock(p)
  <2> SUFFICES ASSUME NEW q \in Procs, NEW u \in Users, pc'[q] \in {"counting", "inserting"}, job'[q].user = u
               PROVE  /\ submitLock'[u] = q
                      /\ pc'[q] = "inserting" => Cardinality(Today(u)') < MaxPerDay
    BY <1>1, CountsKept DEF CountIsFresh
  <2>1. job[p].user \in Users /\ submitLock[job[p].user] = NoProc
    BY <1>3 DEF TakeSubmitLock, IntakeInv, Jobs, Asking, SubmitJob
  <2>2. CASE q = p
    BY <1>3, <2>1, <2>2 DEF TakeSubmitLock, Goto, IntakeInv, TypeOK
  <2>3. CASE q # p
    <3>1. pc'[q] = pc[q] /\ job' = job
      BY <1>3, <2>3 DEF TakeSubmitLock, Goto, IntakeInv, TypeOK
    <3>2. submitLock[u] = q /\ (pc[q] = "inserting" => Cardinality(Today(u)) < MaxPerDay)
      BY <3>1 DEF LimitInv, CountIsFresh
    <3>3. u # job[p].user
      BY <2>1, <3>2, IntakeAssumption
    <3>. QED
      BY <1>2, <1>3, <2>1, <3>1, <3>2, <3>3 DEF TakeSubmitLock, IntakeInv, TypeOK
  <2>. QED
    BY <2>2, <2>3
<1>4. ASSUME NEW slugTaken \in BOOLEAN, CountToday(p, slugTaken) PROVE LimitInv'
  <2>1. CASE Finish(p, "refused")
    BY <1>1, <1>2, <2>1, FinishKeepsCount, CountsKept
  <2>2. CASE ~Finish(p, "refused")
    <3>1. /\ Goto(p, "inserting") /\ pc[p] = "counting" /\ UNCHANGED <<submitLock, job>>
          /\ ~(Cardinality(Today(job[p].user)) >= MaxPerDay)
      BY <1>4, <2>2 DEF CountToday
    <3>2. job[p].user \in Users
      BY <3>1 DEF IntakeInv, Jobs, Asking, SubmitJob
    <3>3. Cardinality(Today(job[p].user)) < MaxPerDay
      <4>1. Cardinality(Today(job[p].user)) \in Nat
        BY <3>2, FS_CardinalityType DEF LimitInv
      <4>. QED
        BY <3>1, <4>1, IntakeAssumption DEF IntakeAssumption
    <3> SUFFICES ASSUME NEW q \in Procs, NEW u \in Users, pc'[q] \in {"counting", "inserting"}, job'[q].user = u
                 PROVE  /\ submitLock'[u] = q
                        /\ pc'[q] = "inserting" => Cardinality(Today(u)') < MaxPerDay
      BY <1>1, CountsKept DEF CountIsFresh
    <3>4. pc[q] \in {"counting", "inserting"} /\ job[q].user = u
      BY <3>1 DEF Goto, IntakeInv, TypeOK
    <3>5. submitLock[u] = q
      BY <3>4 DEF LimitInv, CountIsFresh
    <3>6. CASE q = p
      BY <1>2, <3>1, <3>3, <3>4, <3>5, <3>6
    <3>7. CASE q # p
      <4>1. pc'[q] = pc[q]
        BY <3>1, <3>7 DEF Goto, IntakeInv, TypeOK
      <4>. QED
        BY <1>2, <3>1, <3>4, <3>5, <4>1 DEF LimitInv, CountIsFresh
    <3>. QED
      BY <3>6, <3>7
  <2>. QED
    BY <2>1, <2>2
<1>. QED
  BY <1>3, <1>4

\* A dispatch changes no count.
LEMMA DispatchKeepsLimit ==
    ASSUME IntakeInv, LimitInv, NEW p \in Procs,
           \/ \E u \in Users : Submit(p, u)
           \/ \E u \in Users, t \in Tickets, seesAll \in BOOLEAN : Retry(p, u, t, seesAll)
           \/ TakeRowLock(p) \/ CheckRow(p) \/ Claim(p) \/ Record(p) \/ Crash(p)
           \/ \E accepted \in BOOLEAN, answer \in Outcomes : Call(p, accepted, answer)
    PROVE  LimitInv'
<1>0. ASSUME rows' = rows PROVE \A u \in Users : Today(u)' = Today(u)
  BY <1>0 DEF Today, Exists
<1>1. ASSUME rows' = rows, NEW how \in {"done", "refused", "crashed"}, Finish(p, how) PROVE LimitInv'
  BY <1>0, <1>1, FinishKeepsCount, SameCounts
<1>2. CASE \/ \E u \in Users : Submit(p, u)
           \/ \E u \in Users, t \in Tickets, seesAll \in BOOLEAN : Retry(p, u, t, seesAll)
           \/ TakeRowLock(p)
           \/ CheckRow(p) /\ Goto(p, "claiming") /\ UNCHANGED <<submitLock, job>>
           \/ \E accepted \in BOOLEAN, answer \in Outcomes : Call(p, accepted, answer)
  <2>1. /\ rows' = rows /\ submitLock' = submitLock
        /\ pc[p] \notin {"counting", "inserting"} /\ pc'[p] \notin {"counting", "inserting"}
        /\ \A q \in Procs : q # p => pc'[q] = pc[q] /\ job'[q] = job[q]
    BY <1>2 DEF Submit, Retry, TakeRowLock, CheckRow, Call, Goto, IntakeInv, TypeOK
  <2>. QED
    BY <1>0, <2>1, PlacesKeepCount, SameCounts
<1>3. CASE CheckRow(p) /\ ~(Goto(p, "claiming") /\ UNCHANGED <<submitLock, job>>)
  BY <1>1, <1>3 DEF CheckRow
<1>4. CASE Crash(p)
  BY <1>1, <1>4 DEF Crash
<1>5. CASE Claim(p)
  <2> DEFINE t == job[p].ticket
             x == [rows[t] EXCEPT !.status = "dispatching"]
  <2>1. t \in Tickets /\ Exists(t) /\ rows[t] \in Row
    BY <1>5 DEF Claim, IntakeInv, Jobs, Dispatching, DispatchJob, TypeOK, Exists
  <2>2. x \in Row /\ x.owner = rows[t].owner /\ x.recent = rows[t].recent
    BY <2>1 DEF Row, Statuses
  <2>3. rows' = [rows EXCEPT ![t] = x]
    BY <1>5 DEF Claim
  <2> HIDE DEF x
  <2>4. \A u \in Users : Today(u)' = Today(u)
    BY <2>1, <2>2, <2>3, OwnersKept
  <2>5. /\ pc[p] = "claiming" /\ pc'[p] = "calling" /\ job' = job
        /\ \A q \in Procs : q # p => pc'[q] = pc[q]
    BY <1>5 DEF Claim, Goto, IntakeInv, TypeOK
  <2>6. CountIsFresh'
    <3> SUFFICES ASSUME NEW q \in Procs, NEW u \in Users, pc'[q] \in {"counting", "inserting"}, job'[q].user = u
                 PROVE  /\ submitLock'[u] = q
                        /\ pc'[q] = "inserting" => Cardinality(Today(u)') < MaxPerDay
      BY DEF CountIsFresh
    <3>1. q # p /\ pc'[q] = pc[q] /\ job[q].user = u
      BY <2>5
    <3>2. submitLock[u] = q /\ (pc[q] = "inserting" => Cardinality(Today(u)) < MaxPerDay)
      BY <3>1 DEF LimitInv, CountIsFresh
    <3>3. submitLock'[u] = q
      BY <1>5, <3>1, <3>2 DEF Claim, Unlock
    <3>. QED
      BY <2>4, <3>1, <3>2, <3>3
  <2>. QED
    BY <2>4, <2>6, SameCounts
<1>6. CASE Record(p)
  <2> DEFINE t == job[p].ticket
             x == Settled(rows[t], stored[p])
  <2>1. t \in Tickets /\ Exists(t) /\ rows[t] \in Row /\ stored[p] \in Outcomes
    BY <1>6 DEF Record, IntakeInv, Jobs, Dispatching, Busy, DispatchJob, OneCaller, TypeOK, Exists
  <2>2. x \in Row /\ x.owner = rows[t].owner /\ x.recent = rows[t].recent
    BY <2>1, SettledRow
  <2>3. rows' = [rows EXCEPT ![t] = x] /\ Finish(p, "done")
    BY <1>6 DEF Record
  <2> HIDE DEF x
  <2>4. \A u \in Users : Today(u)' = Today(u)
    BY <2>1, <2>2, <2>3, OwnersKept
  <2>5. CountIsFresh'
    BY <2>3, <2>4, FinishKeepsCount
  <2>. QED
    BY <2>4, <2>5, SameCounts
<1>. QED
  BY <1>2, <1>3, <1>4, <1>5, <1>6

\* The limit is kept at first: the seed leaves one request at most.
LEMMA LimitStarts == Init => LimitInv
<1> SUFFICES ASSUME Init PROVE LimitInv
  OBVIOUS
<1>1. PICK S \in {{}} \cup {{t} : t \in Tickets}, u \in Users :
        rows = [t \in Tickets |-> IF t \in S THEN NewRow(u) ELSE Absent]
  BY DEF Init
<1>2. IsFiniteSet(S) /\ Cardinality(S) <= 1
  <2>1. IsFiniteSet({}) /\ Cardinality({}) = 0
    BY FS_EmptySet
  <2>2. \A t \in Tickets : IsFiniteSet({t}) /\ Cardinality({t}) = 1
    BY FS_Singleton
  <2>3. CASE S = {}
    BY <2>1, <2>3
  <2>4. ASSUME NEW t \in Tickets, S = {t} PROVE IsFiniteSet(S) /\ Cardinality(S) <= 1
    BY <2>2, <2>4
  <2>. QED
    BY <2>3, <2>4
<1>3. ASSUME NEW v \in Users PROVE IsFiniteSet(Today(v)) /\ Cardinality(Today(v)) <= MaxPerDay
  <2>1. Today(v) \subseteq S
    BY <1>1 DEF Today, Exists
  <2>2. /\ IsFiniteSet(Today(v)) /\ Cardinality(Today(v)) \in Nat /\ Cardinality(S) \in Nat
        /\ Cardinality(Today(v)) <= Cardinality(S)
    BY <1>2, <2>1, FS_Subset, FS_CardinalityType
  <2>. QED
    BY <1>2, <2>2, IntakeAssumption DEF IntakeAssumption
<1>4. CountIsFresh
  BY DEF Init, CountIsFresh
<1>. QED
  BY <1>3, <1>4 DEF LimitInv, DailyLimit

\* Every step keeps the limit.
LEMMA LimitKept == IntakeInv /\ LimitInv /\ [Next]_vars => LimitInv'
<1> SUFFICES ASSUME IntakeInv, LimitInv, [Next]_vars PROVE LimitInv'
  OBVIOUS
<1>1. CASE ChangeKey \/ UNCHANGED vars
  <2>1. rows' = rows /\ pc' = pc /\ job' = job /\ submitLock' = submitLock
    BY <1>1 DEF ChangeKey, vars
  <2>2. CountIsFresh'
    BY <2>1 DEF LimitInv, CountIsFresh, Today, Exists
  <2>. QED
    BY <2>1, <2>2, CountsKept
<1>2. CASE \E p \in Procs, t \in Tickets : Insert(p, t)
  BY <1>2, InsertKeepsLimit
<1>3. CASE \E t \in Tickets : DayPasses(t)
  BY <1>3, DayPassesKeepsLimit
<1>. QED
  BY <1>1, <1>2, <1>3, SubmissionKeepsLimit, DispatchKeepsLimit DEF Next, Step

\* The counts stay fresh in every reachable state.
LEMMA LimitInvHolds == Spec => [](IntakeInv /\ LimitInv)
BY InitHasInv, NextKeepsInv, LimitStarts, LimitKept, PTL DEF Spec

\* However many submissions run at once, nobody starts more than the limit.
THEOREM DailyLimitHolds == Spec => []DailyLimit
<1>1. LimitInv => DailyLimit
  BY DEF LimitInv
<1>. QED
  BY <1>1, LimitInvHolds, PTL

-----------------------------------------------------------------------------
(***************************************************************************)
(* The daily limit as a rolling quota: an insert spends, a day that passes *)
(* forgets, and no other step changes what stands on anybody's account.    *)
(***************************************************************************)
Standing == [u \in Users |-> Today(u)]

QuotaStep == [PerRequester!SpendSome \/ PerRequester!ForgetSome]_Standing

\* The instance counts as the intake does.
LEMMA SameCardinality ==
    \A S : PerRequester!Cardinality(S) = Cardinality(S) /\ (PerRequester!IsFiniteSet(S) <=> IsFiniteSet(S))
<1>1. \A S : PerRequester!Cardinality(S) = Cardinality(S)
  BY DEF PerRequester!Cardinality, Cardinality
<1>2. \A S : PerRequester!IsFiniteSet(S) <=> IsFiniteSet(S)
  BY DEF PerRequester!IsFiniteSet, IsFiniteSet
<1>. QED
  BY <1>1, <1>2

\* Standing changes as the counts of the requesters do.
LEMMA StandingIs ==
    ASSUME \A u \in Users : Today(u)' = Today(u)
    PROVE  Standing' = Standing
BY DEF Standing

\* An insert spends one use of its requester, and only there is the request counted.
LEMMA InsertSpends ==
    ASSUME IntakeInv, LimitInv, NEW p \in Procs, NEW t \in Tickets, Insert(p, t)
    PROVE  QuotaStep
<1> DEFINE u == job[p].user
<1>1. u \in Users
      /\ \A v \in Users :
            IF v = u THEN t \notin Today(v) /\ Today(v)' = Today(v) \cup {t} ELSE Today(v)' = Today(v)
  BY InsertAddsOne
<1>2. Cardinality(Today(u)) < MaxPerDay
  BY <1>1 DEF Insert, LimitInv, CountIsFresh
<1>3. \A v \in Users : t \notin Today(v)
  BY DEF Insert, Today
<1>4. Standing' = [Standing EXCEPT ![u] = @ \cup {t}]
  BY <1>1 DEF Standing
<1>5. \A v \in Users : Standing[v] = Today(v)
  BY DEF Standing
<1> HIDE DEF u
<1>6. PerRequester!Spend(u, t)
  BY <1>1, <1>2, <1>3, <1>4, <1>5, SameCardinality DEF PerRequester!Spend, Standing
<1>. QED
  BY <1>1, <1>6 DEF QuotaStep, PerRequester!SpendSome

\* A request that leaves its day is forgotten by its requester's account alone.
LEMMA DayPassesForgets ==
    ASSUME IntakeInv, NEW t \in Tickets, DayPasses(t)
    PROVE  QuotaStep
<1> DEFINE x == [rows[t] EXCEPT !.recent = FALSE]
           u == rows[t].owner
<1>1. rows[t] \in Row /\ Exists(t) /\ u \in Users
  BY DEF DayPasses, IntakeInv, TypeOK, Exists, Row
<1>2. x.recent = FALSE
  BY <1>1 DEF Row
<1>3. rows'[t] = x /\ \A r \in Tickets \ {t} : rows'[r] = rows[r]
  BY DEF DayPasses, IntakeInv, TypeOK
<1>4. t \in Today(u) /\ \A v \in Users \ {u} : t \notin Today(v)
  BY <1>1 DEF Today, DayPasses
<1> HIDE DEF x, u
<1>5. ASSUME NEW v \in Users PROVE Today(v)' = Today(v) \ {t}
  <2>1. \A r \in Tickets \ {t} : r \in Today(v)' <=> r \in Today(v)
    BY <1>3 DEF Today, Exists
  <2>2. t \notin Today(v)'
    BY <1>2, <1>3 DEF Today
  <2>3. Today(v) \subseteq Tickets /\ Today(v)' \subseteq Tickets
    BY DEF Today
  <2>. QED
    BY <2>1, <2>2, <2>3
<1>6. u \in Users
  BY <1>1 DEF u
<1>7. ASSUME NEW v \in Users
      PROVE  Today(v)' = IF v = u THEN Today(v) \ {t} ELSE Today(v)
  <2>1. CASE v = u
    BY <1>5, <2>1
  <2>2. CASE v # u
    <3>1. Today(v) \ {t} = Today(v)
      BY <1>4, <2>2
    <3>. QED
      BY <1>5, <2>2, <3>1
  <2>. QED
    BY <2>1, <2>2
<1>8. Standing' = [Standing EXCEPT ![u] = @ \ {t}] /\ Standing[u] = Today(u)
  BY <1>6, <1>7 DEF Standing
<1>9. PerRequester!Forget(u, t)
  BY <1>4, <1>8 DEF PerRequester!Forget, Standing
<1>. QED
  BY <1>6, <1>9 DEF QuotaStep, PerRequester!ForgetSome

\* Claims and records change a row and leave its owner and its age.
LEMMA DispatchKeepsCounts ==
    ASSUME IntakeInv, NEW p \in Procs, Claim(p) \/ Record(p)
    PROVE  \A u \in Users : Today(u)' = Today(u)
<1> DEFINE t == job[p].ticket
<1>1. CASE Claim(p)
  <2> DEFINE x == [rows[t] EXCEPT !.status = "dispatching"]
  <2>1. t \in Tickets /\ Exists(t) /\ rows[t] \in Row
    BY <1>1 DEF Claim, IntakeInv, Jobs, Dispatching, DispatchJob, TypeOK, Exists
  <2>2. x \in Row /\ x.owner = rows[t].owner /\ x.recent = rows[t].recent
    BY <2>1 DEF Row, Statuses
  <2>3. rows' = [rows EXCEPT ![t] = x]
    BY <1>1 DEF Claim
  <2> HIDE DEF x
  <2>. QED
    BY <2>1, <2>2, <2>3, OwnersKept
<1>2. CASE Record(p)
  <2> DEFINE x == Settled(rows[t], stored[p])
  <2>1. t \in Tickets /\ Exists(t) /\ rows[t] \in Row /\ stored[p] \in Outcomes
    BY <1>2 DEF Record, IntakeInv, Jobs, Dispatching, Busy, DispatchJob, OneCaller, TypeOK, Exists
  <2>2. x \in Row /\ x.owner = rows[t].owner /\ x.recent = rows[t].recent
    BY <2>1, SettledRow
  <2>3. rows' = [rows EXCEPT ![t] = x]
    BY <1>2 DEF Record
  <2> HIDE DEF x
  <2>. QED
    BY <2>1, <2>2, <2>3, OwnersKept
<1>. QED
  BY <1>1, <1>2

\* The intake keeps a rolling quota for every requester, step by step.
THEOREM IntakeImplementsQuota == Spec => KeepsDailyLimit
<1>1. LimitInv => PerRequester!QuotaInit
  <2> SUFFICES ASSUME LimitInv PROVE PerRequester!QuotaInit
    OBVIOUS
  <2>1. Standing \in [Users -> SUBSET Tickets] /\ \A u \in Users : Standing[u] = Today(u)
    BY DEF Standing, Today
  <2>. QED
    BY <2>1, SameCardinality DEF PerRequester!QuotaInit, PerRequester!Within, LimitInv, DailyLimit, Standing
<1>2. IntakeInv /\ LimitInv /\ [Next]_vars => QuotaStep
  <2> SUFFICES ASSUME IntakeInv, LimitInv, [Next]_vars PROVE QuotaStep
    OBVIOUS
  <2>1. CASE rows' = rows
    BY <2>1, StandingIs DEF QuotaStep, Today, Exists
  <2>2. CASE \E p \in Procs, t \in Tickets : Insert(p, t)
    BY <2>2, InsertSpends
  <2>3. CASE \E t \in Tickets : DayPasses(t)
    BY <2>3, DayPassesForgets
  <2>4. CASE \E p \in Procs : Claim(p) \/ Record(p)
    BY <2>4, DispatchKeepsCounts, StandingIs DEF QuotaStep
  <2>. QED
    BY <2>1, <2>2, <2>3, <2>4
       DEF Next, Step, Submit, Retry, TakeSubmitLock, CountToday, TakeRowLock, CheckRow, Call, Crash, ChangeKey, vars
<1>. QED
  BY <1>1, <1>2, LimitStarts, LimitInvHolds, PTL
     DEF Spec, KeepsDailyLimit, PerRequester!RollingSpec, QuotaStep, Standing

-----------------------------------------------------------------------------
(***************************************************************************)
(* The locks: each is held only on the stretch of code it protects, which  *)
(* ends before the call to Devin.                                          *)
(***************************************************************************)
LocksAreShort ==
    \A p \in Procs :
        /\ \A u \in Users : submitLock[u] = p => pc[p] \in {"counting", "inserting"}
        /\ \A t \in Tickets : rowLock[t] = p => pc[p] \in {"locked", "claiming"}

\* A process that lets go of its locks may go anywhere.
LEMMA UnlockKeepsLocksShort ==
    ASSUME TypeOK, LocksAreShort, NEW p \in Procs, NEW w, Goto(p, w), Unlock(p)
    PROVE  LocksAreShort'
<1>1. \A q \in Procs \ {p} : pc'[q] = pc[q]
  BY DEF Goto, TypeOK
<1>2. \A u \in Users : submitLock'[u] # p /\ (submitLock'[u] = submitLock[u] \/ submitLock'[u] = NoProc)
  BY IntakeAssumption DEF Unlock
<1>3. \A t \in Tickets : rowLock'[t] # p /\ (rowLock'[t] = rowLock[t] \/ rowLock'[t] = NoProc)
  BY IntakeAssumption DEF Unlock
<1>. QED
  BY <1>1, <1>2, <1>3, IntakeAssumption DEF LocksAreShort

\* One that keeps what it holds goes on within the stretch, or holds nothing.
LEMMA GoingOnKeepsLocksShort ==
    ASSUME TypeOK, LocksAreShort, NEW p \in Procs, NEW w, Goto(p, w), UNCHANGED <<submitLock, rowLock>>,
           \/ pc[p] \notin {"counting", "inserting", "locked", "claiming"}
           \/ pc[p] = "counting" /\ w = "inserting"
           \/ pc[p] = "locked" /\ w = "claiming"
    PROVE  LocksAreShort'
BY DEF Goto, TypeOK, LocksAreShort

\* For any number of users, requests and processes: nobody who waits for a lock
\* waits for Devin to answer.
THEOREM DevinHoldsNobodyUp == Spec => []NobodyWaitsForDevin
<1>1. Init => LocksAreShort
  BY IntakeAssumption DEF Init, LocksAreShort
<1>2. TypeOK /\ LocksAreShort /\ [Next]_vars => LocksAreShort'
  <2> SUFFICES ASSUME TypeOK, LocksAreShort, [Next]_vars PROVE LocksAreShort'
    OBVIOUS
  <2>1. ASSUME NEW p \in Procs, NEW u \in Users, Submit(p, u) PROVE LocksAreShort'
    BY <2>1, GoingOnKeepsLocksShort DEF Submit
  <2>2. ASSUME NEW p \in Procs, NEW u \in Users, NEW t \in Tickets, NEW seesAll \in BOOLEAN,
               Retry(p, u, t, seesAll)
        PROVE  LocksAreShort'
    BY <2>2, GoingOnKeepsLocksShort DEF Retry
  <2>3. ASSUME NEW p \in Procs, TakeSubmitLock(p) \/ TakeRowLock(p) PROVE LocksAreShort'
    <3>1. CASE TakeSubmitLock(p)
      BY <3>1 DEF TakeSubmitLock, Goto, TypeOK, LocksAreShort
    <3>2. CASE TakeRowLock(p)
      BY <3>2 DEF TakeRowLock, Goto, TypeOK, LocksAreShort
    <3>. QED
      BY <2>3, <3>1, <3>2
  <2>4. ASSUME NEW p \in Procs, NEW slugTaken \in BOOLEAN, CountToday(p, slugTaken) PROVE LocksAreShort'
    <3>1. \/ Finish(p, "refused")
          \/ Goto(p, "inserting") /\ pc[p] = "counting" /\ UNCHANGED <<submitLock, rowLock>>
      BY <2>4 DEF CountToday
    <3>. QED
      BY <3>1, UnlockKeepsLocksShort, GoingOnKeepsLocksShort DEF Finish
  <2>5. ASSUME NEW p \in Procs, NEW t \in Tickets, Insert(p, t) PROVE LocksAreShort'
    BY <2>5, UnlockKeepsLocksShort DEF Insert
  <2>6. ASSUME NEW p \in Procs, CheckRow(p) PROVE LocksAreShort'
    <3>1. \/ Finish(p, "refused") \/ Finish(p, "done")
          \/ Goto(p, "claiming") /\ pc[p] = "locked" /\ UNCHANGED <<submitLock, rowLock>>
      BY <2>6 DEF CheckRow
    <3>. QED
      BY <3>1, UnlockKeepsLocksShort, GoingOnKeepsLocksShort DEF Finish
  <2>7. ASSUME NEW p \in Procs, Claim(p) PROVE LocksAreShort'
    BY <2>7, UnlockKeepsLocksShort DEF Claim
  <2>8. ASSUME NEW p \in Procs, NEW accepted \in BOOLEAN, NEW answer \in Outcomes, Call(p, accepted, answer)
        PROVE  LocksAreShort'
    BY <2>8, GoingOnKeepsLocksShort DEF Call
  <2>9. ASSUME NEW p \in Procs, Record(p) \/ Crash(p) PROVE LocksAreShort'
    <3>1. PICK w \in {"done", "crashed"} : Finish(p, w)
      BY <2>9 DEF Record, Crash
    <3>. QED
      BY <3>1, UnlockKeepsLocksShort DEF Finish
  <2>10. CASE ChangeKey \/ (\E t \in Tickets : DayPasses(t)) \/ UNCHANGED vars
    BY <2>10 DEF ChangeKey, DayPasses, vars, LocksAreShort
  <2>. QED
    BY <2>1, <2>2, <2>3, <2>4, <2>5, <2>6, <2>7, <2>8, <2>9, <2>10 DEF Next, Step
<1>3. LocksAreShort => NobodyWaitsForDevin
  BY DEF LocksAreShort, NobodyWaitsForDevin
<1>4. IntakeInv => TypeOK
  BY DEF IntakeInv
<1>. QED
  BY <1>1, <1>2, <1>3, <1>4, LimitInvHolds, PTL DEF Spec
=============================================================================
