--------------------------- MODULE IntakeDispatch ---------------------------
(***************************************************************************)
(* The tool-request intake: submitting a brief under the per-requester     *)
(* advisory lock and the daily limit, and starting the paid Devin session  *)
(* for it under the row lock and the "dispatching" claim.  Every browser   *)
(* request is a process; each step is what happens between two points at   *)
(* which the code awaits, and a process can die between any two.           *)
(*                                                                         *)
(* The Devin API is external: an answer below 500 means no session, a      *)
(* readable 2xx means one session, and anything else means either.         *)
(***************************************************************************)
EXTENDS Naturals, Sequences, FiniteSets

CONSTANTS Users, Tickets, Procs,
          NoProc,      \* the owner of a free lock
          MaxPerDay    \* MAX_REQUESTS_PER_DAY

ASSUME IntakeAssumption ==
    /\ NoProc \notin Procs
    /\ MaxPerDay \in Nat \ {0}

VARIABLES rows,        \* the tool_request table: ticket -> row
          trail,       \* ticket -> the statuses its audit events go from and to
          paid,        \* ticket -> Devin sessions that exist for it
          configured,  \* a DEVIN_API_KEY is set
          submitLock,  \* user -> holder of pg_advisory_xact_lock
          rowLock,     \* ticket -> holder of SELECT ... FOR UPDATE
          pc, job,     \* process -> where it is, and what it was asked
          stored       \* process -> the status it read (before Call), the outcome (after)

vars == <<rows, trail, paid, configured, submitLock, rowLock, pc, job, stored>>

Statuses  == {"queued", "dispatching", "dispatched", "failed"}
Retryable == {"queued", "failed"}
Outcomes  == {"queued", "dispatched", "failed", "ambiguous"}

Absent == <<>>
Row == [owner : Users, status : Statuses, session : BOOLEAN,
        error : {"none", "definite", "ambiguous"}, recent : BOOLEAN]

NewRow(u) == [owner |-> u, status |-> "queued", session |-> FALSE, error |-> "none", recent |-> TRUE]

Exists(t) == rows[t] # Absent
Today(u)  == {t \in Tickets : Exists(t) /\ rows[t].owner = u /\ rows[t].recent}

\* submit: no ticket yet; dispatch: the ticket, and whether the caller may act
\* on everybody's requests.
SubmitJob   == [user : Users]
DispatchJob == [user : Users, ticket : Tickets, seesAll : BOOLEAN]

\* The seed leaves at most one queued request behind, without an audit event.
Init ==
    /\ \E S \in {{}} \cup {{t} : t \in Tickets}, u \in Users :
           rows = [t \in Tickets |-> IF t \in S THEN NewRow(u) ELSE Absent]
    /\ trail = [t \in Tickets |-> <<>>]
    /\ paid = [t \in Tickets |-> 0]
    /\ configured \in BOOLEAN
    /\ submitLock = [u \in Users |-> NoProc]
    /\ rowLock = [t \in Tickets |-> NoProc]
    /\ pc = [p \in Procs |-> "new"]
    /\ job = [p \in Procs |-> <<>>]
    /\ stored = [p \in Procs |-> "none"]

\* The transaction of a process ends: every lock it holds is released.
Unlock(p) ==
    /\ submitLock' = [u \in Users |-> IF submitLock[u] = p THEN NoProc ELSE submitLock[u]]
    /\ rowLock' = [t \in Tickets |-> IF rowLock[t] = p THEN NoProc ELSE rowLock[t]]

Goto(p, where) == pc' = [pc EXCEPT ![p] = where]

\* Faulty: the transaction of an answered request is left open.
FinishHoldingLocks(p, how) ==
    /\ Goto(p, how)
    /\ job' = [job EXCEPT ![p] = <<>>]
    /\ stored' = [stored EXCEPT ![p] = "none"]
    /\ UNCHANGED <<submitLock, rowLock>>

\* The process answers its browser and is gone.
Finish(p, how) ==
    /\ Goto(p, how)
    /\ job' = [job EXCEPT ![p] = <<>>]
    /\ stored' = [stored EXCEPT ![p] = "none"]
    /\ Unlock(p)

-----------------------------------------------------------------------------
(* submit_request *)

Submit(p, u) ==
    /\ pc[p] = "new"
    /\ Goto(p, "submitting")
    /\ job' = [job EXCEPT ![p] = [user |-> u]]
    /\ UNCHANGED <<rows, trail, paid, configured, submitLock, rowLock, stored>>

\* Faulty: no advisory lock.
CountUnlocked(p) ==
    /\ pc[p] = "submitting"
    /\ Goto(p, "counting")
    /\ UNCHANGED <<rows, trail, paid, configured, submitLock, rowLock, job, stored>>

TakeSubmitLock(p) ==
    /\ pc[p] = "submitting"
    /\ submitLock[job[p].user] = NoProc
    /\ submitLock' = [submitLock EXCEPT ![job[p].user] = p]
    /\ Goto(p, "counting")
    /\ UNCHANGED <<rows, trail, paid, configured, rowLock, job, stored>>

\* The slug of an installed tool, or a full day, is refused.
CountToday(p, slugTaken) ==
    /\ pc[p] = "counting"
    /\ IF slugTaken \/ Cardinality(Today(job[p].user)) >= MaxPerDay
       THEN Finish(p, "refused")
       ELSE Goto(p, "inserting") /\ UNCHANGED <<submitLock, rowLock, job, stored>>
    /\ UNCHANGED <<rows, trail, paid, configured>>

\* Insert, audit and commit; submit_request goes on to dispatch what it stored.
Insert(p, t) ==
    /\ pc[p] = "inserting"
    /\ ~Exists(t)
    /\ rows' = [rows EXCEPT ![t] = NewRow(job[p].user)]
    /\ trail' = [trail EXCEPT ![t] = Append(@, [before |-> "none", after |-> "queued"])]
    /\ job' = [job EXCEPT ![p] = [user |-> @.user, ticket |-> t, seesAll |-> TRUE]]
    /\ Goto(p, "waiting")
    /\ Unlock(p)
    /\ UNCHANGED <<paid, configured, stored>>

-----------------------------------------------------------------------------
(* dispatch_request *)

\* "Start the session" on a stored request, by its requester or anybody else.
Retry(p, u, t, seesAll) ==
    /\ pc[p] = "new"
    /\ Exists(t)
    /\ Goto(p, "waiting")
    /\ job' = [job EXCEPT ![p] = [user |-> u, ticket |-> t, seesAll |-> seesAll]]
    /\ UNCHANGED <<rows, trail, paid, configured, submitLock, rowLock, stored>>

\* Faulty: a bare read instead of SELECT ... FOR UPDATE.
ReadUnlocked(p) ==
    /\ pc[p] = "waiting"
    /\ Goto(p, "locked")
    /\ UNCHANGED <<rows, trail, paid, configured, submitLock, rowLock, job, stored>>

TakeRowLock(p) ==
    /\ pc[p] = "waiting"
    /\ rowLock[job[p].ticket] = NoProc
    /\ rowLock' = [rowLock EXCEPT ![job[p].ticket] = p]
    /\ Goto(p, "locked")
    /\ UNCHANGED <<rows, trail, paid, configured, submitLock, job, stored>>

MayDispatch(row, q) == row.owner = q.user \/ q.seesAll

\* Who may, from which status, and with a key: otherwise nothing is written.
CheckRow(p) ==
    /\ pc[p] = "locked"
    /\ LET q == job[p]
           row == rows[q.ticket]
       IN  IF ~MayDispatch(row, q) \/ row.status \notin Retryable
           THEN Finish(p, "refused")
           ELSE IF ~configured
           THEN Finish(p, "done")
           ELSE /\ Goto(p, "claiming")
                /\ stored' = [stored EXCEPT ![p] = row.status]
                /\ UNCHANGED <<submitLock, rowLock, job>>
    /\ UNCHANGED <<rows, trail, paid, configured>>

\* Faulty: the claim is flushed and not committed.
ClaimUncommitted(p) ==
    /\ pc[p] = "claiming"
    /\ LET t == job[p].ticket
       IN  /\ rows' = [rows EXCEPT ![t].status = "dispatching"]
           /\ trail' = [trail EXCEPT ![t] = Append(@, [before |-> stored[p], after |-> "dispatching"])]
    /\ Goto(p, "calling")
    /\ UNCHANGED <<paid, configured, submitLock, rowLock, job, stored>>

\* _record_dispatch(dispatching): claim the request and commit before the call.
Claim(p) ==
    /\ pc[p] = "claiming"
    /\ LET t == job[p].ticket
       IN  /\ rows' = [rows EXCEPT ![t].status = "dispatching"]
           /\ trail' = [trail EXCEPT ![t] = Append(@, [before |-> stored[p], after |-> "dispatching"])]
    /\ Goto(p, "calling")
    /\ Unlock(p)
    /\ UNCHANGED <<paid, configured, job, stored>>

\* create_session: what the API did, and what this process could tell of it.
Call(p, accepted, answer) ==
    /\ pc[p] = "calling"
    /\ \/ ~configured /\ answer = "queued" /\ ~accepted
       \/ configured /\ answer = "dispatched" /\ accepted
       \/ configured /\ answer = "failed" /\ ~accepted
       \/ configured /\ answer = "ambiguous"
    /\ paid' = [paid EXCEPT ![job[p].ticket] = IF accepted THEN @ + 1 ELSE @]
    /\ stored' = [stored EXCEPT ![p] = answer]
    /\ Goto(p, "recording")
    /\ UNCHANGED <<rows, trail, configured, submitLock, rowLock, job>>

\* Faulty: the old error is left on a request that did start.
SettledWithOldError(row, outcome) ==
    CASE outcome = "queued" -> [row EXCEPT !.status = "queued"]
      [] outcome = "dispatched" -> [row EXCEPT !.status = "dispatched", !.session = TRUE]
      [] outcome = "failed" -> [row EXCEPT !.status = "failed", !.error = "definite"]
      [] outcome = "ambiguous" -> [row EXCEPT !.status = "dispatching", !.error = "ambiguous"]

\* Faulty: a claim is kept although the key was removed before the call.
SettledStillClaimed(row, outcome) ==
    CASE outcome = "queued" -> row
      [] outcome = "dispatched" -> [row EXCEPT !.status = "dispatched", !.session = TRUE, !.error = "none"]
      [] outcome = "failed" -> [row EXCEPT !.status = "failed", !.error = "definite"]
      [] outcome = "ambiguous" -> [row EXCEPT !.status = "dispatching", !.error = "ambiguous"]

\* The columns each outcome writes; the ones it does not name keep their value.
Settled(row, outcome) ==
    CASE outcome = "queued" -> [row EXCEPT !.status = "queued"]
      [] outcome = "dispatched" -> [row EXCEPT !.status = "dispatched", !.session = TRUE, !.error = "none"]
      [] outcome = "failed" -> [row EXCEPT !.status = "failed", !.error = "definite"]
      [] outcome = "ambiguous" -> [row EXCEPT !.status = "dispatching", !.error = "ambiguous"]

\* _record_dispatch(outcome): the UPDATE waits for a lock somebody else holds.
Record(p) ==
    /\ pc[p] = "recording"
    /\ LET t == job[p].ticket
       IN  /\ rowLock[t] = NoProc
           /\ rows' = [rows EXCEPT ![t] = Settled(@, stored[p])]
           /\ trail' = [trail EXCEPT ![t] =
                  Append(@, [before |-> "dispatching", after |-> Settled(rows[t], stored[p]).status])]
    /\ Finish(p, "done")
    /\ UNCHANGED <<paid, configured>>

-----------------------------------------------------------------------------
Running(p) == pc[p] \notin {"new", "done", "refused", "crashed"}

\* The worker dies, or the request is cancelled: its transaction rolls back.
Crash(p) ==
    /\ Running(p)
    /\ Finish(p, "crashed")
    /\ UNCHANGED <<rows, trail, paid, configured>>

\* The API key is set or removed.
ChangeKey ==
    /\ configured' = ~configured
    /\ UNCHANGED <<rows, trail, paid, submitLock, rowLock, pc, job, stored>>

\* A request leaves the 24-hour window.
DayPasses(t) ==
    /\ Exists(t) /\ rows[t].recent
    /\ rows' = [rows EXCEPT ![t].recent = FALSE]
    /\ UNCHANGED <<trail, paid, configured, submitLock, rowLock, pc, job, stored>>

\* What a process that has begun does on its own.
Step(p) ==
    \/ TakeSubmitLock(p)
    \/ \E slugTaken \in BOOLEAN : CountToday(p, slugTaken)
    \/ \E t \in Tickets : Insert(p, t)
    \/ TakeRowLock(p)
    \/ CheckRow(p)
    \/ Claim(p)
    \/ \E accepted \in BOOLEAN, answer \in Outcomes : Call(p, accepted, answer)
    \/ Record(p)

Next ==
    \/ \E p \in Procs, u \in Users : Submit(p, u)
    \/ \E p \in Procs, u \in Users, t \in Tickets, seesAll \in BOOLEAN : Retry(p, u, t, seesAll)
    \/ \E p \in Procs : Step(p)
    \/ \E p \in Procs : Crash(p)
    \/ ChangeKey
    \/ \E t \in Tickets : DayPasses(t)

Spec == Init /\ [][Next]_vars

\* The event loop keeps running a request it has begun, Postgres grants a free
\* lock, and the HTTP client gives up after its timeout.
FairSpec == Spec /\ \A p \in Procs : WF_vars(Step(p))

-----------------------------------------------------------------------------
TypeOK ==
    /\ rows \in [Tickets -> Row \cup {Absent}]
    /\ trail \in [Tickets -> Seq([before : Statuses \cup {"none"}, after : Statuses])]
    /\ paid \in [Tickets -> Nat]
    /\ configured \in BOOLEAN
    /\ submitLock \in [Users -> Procs \cup {NoProc}]
    /\ rowLock \in [Tickets -> Procs \cup {NoProc}]
    /\ pc \in [Procs -> {"new", "submitting", "counting", "inserting", "waiting", "locked", "claiming",
                         "calling", "recording", "done", "refused", "crashed"}]
    /\ job \in [Procs -> SubmitJob \cup DispatchJob \cup {<<>>}]
    /\ stored \in [Procs -> Outcomes \cup {"none"}]

\* Nobody pays twice: whatever is clicked, answered late, lost or killed, at
\* most one Devin session is ever started for a request.
PaidAtMostOnce == \A t \in Tickets : paid[t] <= 1

\* A request whose session may exist is never offered for another dispatch,
\* and one shown as started has its session and no error left over.
RowTellsWhatWasPaid ==
    \A t \in Tickets : Exists(t) =>
        /\ paid[t] > 0 => rows[t].status \notin Retryable
        /\ rows[t].status = "dispatched" => paid[t] = 1 /\ rows[t].session /\ rows[t].error = "none"
        /\ rows[t].status = "failed" => rows[t].error = "definite"

\* However many submissions of one requester run at once, the requests of the
\* last 24 hours never exceed the daily limit.
DailyLimit == \A u \in Users : Cardinality(Today(u)) <= MaxPerDay

PerRequester == INSTANCE Quota WITH
    Accounts <- Users, Uses <- Tickets, Limit <- MaxPerDay, used <- [u \in Users |-> Today(u)]

\* The submissions of a requester use up a rolling limit one by one, however many
\* run at once: a request is counted for its requester alone, from its insert to
\* the end of its day, whatever happens to it in between.
KeepsDailyLimit == PerRequester!RollingSpec

\* Each audit event of a request starts from the status the one before it ended
\* with, and the last one ends at the row's status.
TrailIsAChain ==
    \A t \in Tickets :
        /\ \A i \in 1..(Len(trail[t]) - 1) : trail[t][i + 1].before = trail[t][i].after
        /\ trail[t] # <<>> => trail[t][Len(trail[t])].after = rows[t].status

\* The requests that "Start the session" refuses because one was started.
Started == {t \in Tickets : Exists(t) /\ rows[t].status \notin Retryable}

Promise == INSTANCE PaidSession WITH claimed <- Started, bought <- paid

\* The intake implements the one-session promise.
KeepsPromise == Promise!MoneySpec

\* Every browser request is answered unless its worker dies: no two of them
\* wait for each other's locks, and no claim blocks a later click.
EveryRequestEnds == \A p \in Procs : Running(p) ~> ~Running(p)

\* No click waits for Devin: a process that is asking the API for a session, or about
\* to record what it heard, holds no lock, neither the requester's from the
\* submission nor the row's from the claim.
NobodyWaitsForDevin ==
    \A p \in Procs : pc[p] \in {"calling", "recording"} =>
        /\ \A u \in Users : submitLock[u] # p
        /\ \A t \in Tickets : rowLock[t] # p

Starting(t) == t \in {r \in Tickets : Exists(r) /\ rows[r].status = "dispatching"}
NeedsAHuman(t) == rows[t].error = "ambiguous" \/ \E p \in Procs : pc[p] = "crashed"

\* A request stays "starting" only when a human has to look: the answer was
\* ambiguous, or the worker that had claimed it died.
ClaimIsSettled ==
    \A t \in Tickets :
        Starting(t) ~> (~Starting(t) \/ NeedsAHuman(t))
=============================================================================
