---------------------------- MODULE FeatureFlags ----------------------------
(***************************************************************************)
(* The feature flags: the service functions that create, change and toggle *)
(* a flag under its row lock, the back office that edits and deletes the   *)
(* same rows without one, and the evaluation of a flag for a subject.      *)
(*                                                                         *)
(* Every request is a process.  A service request reads under the lock and *)
(* writes, audits and commits in one transaction.  A back-office request   *)
(* loads the row, commits what its form changed, and audits afterwards.    *)
(***************************************************************************)
EXTENDS Integers, Sequences, FiniteSets

CONSTANTS Ids, Keys, Procs,
          NoProc,        \* the owner of a free row lock
          Full,          \* 100 percent, and the number of buckets
          BackOffice     \* whether the back office is used as well

ASSUME FlagsAssumption ==
    /\ NoProc \notin Procs
    /\ Full \in Nat \ {0}
    /\ BackOffice \in BOOLEAN

VARIABLES rows,       \* the feature_flag table: id -> row
          trail,      \* id -> its audit events
          rowLock,    \* id -> holder of SELECT ... FOR UPDATE
          pc, job,    \* process -> where it is, and what it was asked
          seen        \* process -> the row it read

vars == <<rows, trail, rowLock, pc, job, seen>>

Percent == 0..Full
Absent  == <<>>
Row     == [key : Keys, enabled : BOOLEAN, rollout : Percent]

Exists(i) == rows[i] # Absent
Taken(k)  == \E i \in Ids : Exists(i) /\ rows[i].key = k

\* What is audited of a row; a flag that is not there has no snapshot.
Snapshot(row) == IF row = Absent THEN Absent ELSE [enabled |-> row.enabled, rollout |-> row.rollout]

\* What the forms send, a percentage out of range included.
Asked == Percent \cup {Full + 1}
CreateJob == [op : {"create"}, key : Keys, rollout : Asked, may : BOOLEAN]
UpdateJob == {j \in [op : {"update"}, id : Ids, given : SUBSET {"enabled", "rollout"},
                    enabled : BOOLEAN, rollout : Asked, may : BOOLEAN] :
                /\ "enabled" \notin j.given => ~j.enabled
                /\ "rollout" \notin j.given => j.rollout = 0}
ToggleJob == [op : {"toggle"}, id : Ids, may : BOOLEAN]
EditJob   == [op : {"edit"}, id : Ids, key : Keys, enabled : BOOLEAN, rollout : Asked]
DeleteJob == [op : {"delete"}, id : Ids]
ServiceJob == CreateJob \cup UpdateJob \cup ToggleJob

\* The seed leaves a flag that was created, and toggled if it is to be on.
NewFlag(k, r) == [key |-> k, enabled |-> FALSE, rollout |-> r]
Seeded(k, r, on) == [NewFlag(k, r) EXCEPT !.enabled = on]
SeedTrail(r, on) ==
    LET off == [enabled |-> FALSE, rollout |-> r]
        created == [op |-> "created", before |-> Absent, after |-> off]
        toggled == [op |-> "toggled", before |-> off, after |-> [off EXCEPT !.enabled = TRUE]]
    IN  IF on THEN <<created, toggled>> ELSE <<created>>

Init ==
    /\ \E S \in {{}} \cup {{i} : i \in Ids}, k \in Keys, r \in Percent, on \in BOOLEAN :
        /\ rows = [i \in Ids |-> IF i \in S THEN Seeded(k, r, on) ELSE Absent]
        /\ trail = [i \in Ids |-> IF i \in S THEN SeedTrail(r, on) ELSE <<>>]
    /\ rowLock = [i \in Ids |-> NoProc]
    /\ pc = [p \in Procs |-> "new"]
    /\ job = [p \in Procs |-> Absent]
    /\ seen = [p \in Procs |-> Absent]

Goto(p, where) == pc' = [pc EXCEPT ![p] = where]

\* The request answers, refuses or dies: its session closes and its lock is gone.
Finish(p) ==
    /\ Goto(p, "gone")
    /\ job' = [job EXCEPT ![p] = Absent]
    /\ seen' = [seen EXCEPT ![p] = Absent]
    /\ rowLock' = [i \in Ids |-> IF rowLock[i] = p THEN NoProc ELSE rowLock[i]]

Audit(i, op, before, after) ==
    trail' = [trail EXCEPT ![i] = Append(@, [op |-> op, before |-> before, after |-> after])]

-----------------------------------------------------------------------------
(* The service *)

Request(p, j) ==
    /\ pc[p] = "new"
    /\ IF ~j.may THEN Finish(p)
       ELSE /\ Goto(p, IF j.op = "create" THEN "checking" ELSE "waiting")
            /\ job' = [job EXCEPT ![p] = j]
            /\ UNCHANGED <<rowLock, seen>>
    /\ UNCHANGED <<rows, trail>>

CheckKey(p) ==
    /\ pc[p] = "checking"
    /\ IF Taken(job[p].key) \/ job[p].rollout \notin Percent
       THEN Finish(p)
       ELSE Goto(p, "inserting") /\ UNCHANGED <<rowLock, job, seen>>
    /\ UNCHANGED <<rows, trail>>

\* Faulty: the check is trusted and there is no unique index behind it.
InsertUnchecked(p, i) ==
    /\ pc[p] = "inserting"
    /\ trail[i] = <<>>
    /\ LET row == NewFlag(job[p].key, job[p].rollout)
       IN  /\ rows' = [rows EXCEPT ![i] = row]
           /\ Audit(i, "created", Absent, Snapshot(row))
           /\ Finish(p)

\* The unique index decides, at the insert; the id is one never used before.
InsertFlag(p, i) ==
    /\ pc[p] = "inserting"
    /\ trail[i] = <<>>
    /\ IF Taken(job[p].key)
       THEN Finish(p) /\ UNCHANGED <<rows, trail>>
       ELSE LET row == NewFlag(job[p].key, job[p].rollout)
            IN  /\ rows' = [rows EXCEPT ![i] = row]
                /\ Audit(i, "created", Absent, Snapshot(row))
                /\ Finish(p)

\* Faulty: the row is read without its lock.
ReadFlag(p) ==
    /\ pc[p] = "waiting"
    /\ IF ~Exists(job[p].id) THEN Finish(p)
       ELSE Goto(p, "locked") /\ seen' = [seen EXCEPT ![p] = rows[job[p].id]] /\ UNCHANGED <<rowLock, job>>
    /\ UNCHANGED <<rows, trail>>

LockFlag(p) ==
    /\ pc[p] = "waiting"
    /\ rowLock[job[p].id] = NoProc
    /\ IF ~Exists(job[p].id) THEN Finish(p)
       ELSE /\ rowLock' = [rowLock EXCEPT ![job[p].id] = p]
            /\ seen' = [seen EXCEPT ![p] = rows[job[p].id]]
            /\ Goto(p, "locked")
            /\ UNCHANGED job
    /\ UNCHANGED <<rows, trail>>

\* What a change makes of a row, given the row the request read.
Changed(row, j, read) ==
    IF j.op = "toggle" THEN [row EXCEPT !.enabled = ~read.enabled]
    ELSE [row EXCEPT !.enabled = IF "enabled" \in j.given THEN j.enabled ELSE @,
                     !.rollout = IF "rollout" \in j.given THEN j.rollout ELSE @]

WriteFlag(p) ==
    /\ pc[p] = "locked"
    /\ LET j == job[p]
       IN  IF j.op = "update" /\ "rollout" \in j.given /\ j.rollout \notin Percent
           THEN UNCHANGED <<rows, trail>> /\ Finish(p)
           ELSE /\ rows' = [rows EXCEPT ![j.id] = Changed(@, j, seen[p])]
                /\ Audit(j.id, IF j.op = "toggle" THEN "toggled" ELSE "updated",
                         Snapshot(seen[p]), Snapshot(Changed(seen[p], j, seen[p])))
                /\ Finish(p)

-----------------------------------------------------------------------------
(* The back office *)

OpenFlag(p, j) ==
    /\ BackOffice
    /\ pc[p] = "new"
    /\ Exists(j.id)
    /\ Goto(p, IF j.op = "edit" THEN "saving" ELSE "deleting")
    /\ job' = [job EXCEPT ![p] = j]
    /\ seen' = [seen EXCEPT ![p] = rows[j.id]]
    /\ UNCHANGED <<rows, trail, rowLock>>

\* Faulty: a rename is not checked against the unique index.
FormIsLegalUnlessTaken(j, row) == j.rollout \in Percent

\* The constraints of the table.
FormIsLegal(j, row) ==
    /\ j.rollout \in Percent
    /\ j.key # row.key => ~Taken(j.key)

\* The UPDATE names the columns in which the form differs from what was loaded.
Merged(row, j, read) ==
    [row EXCEPT !.key = IF j.key # read.key THEN j.key ELSE @,
                !.enabled = IF j.enabled # read.enabled THEN j.enabled ELSE @,
                !.rollout = IF j.rollout # read.rollout THEN j.rollout ELSE @]

SaveFlag(p) ==
    /\ pc[p] = "saving"
    /\ rowLock[job[p].id] = NoProc
    /\ LET j == job[p]
           row == rows[j.id]
       IN  IF ~Exists(j.id) \/ ~FormIsLegal(j, row)
           THEN Finish(p) /\ UNCHANGED rows
           ELSE /\ rows' = [rows EXCEPT ![j.id] = Merged(@, j, seen[p])]
                /\ Goto(p, "auditing")
                /\ UNCHANGED <<rowLock, job, seen>>
    /\ UNCHANGED trail

DeleteFlag(p) ==
    /\ pc[p] = "deleting"
    /\ rowLock[job[p].id] = NoProc
    /\ rows' = [rows EXCEPT ![job[p].id] = Absent]
    /\ Goto(p, "auditing")
    /\ UNCHANGED <<trail, rowLock, job, seen>>

AuditBackOffice(p) ==
    /\ pc[p] = "auditing"
    /\ LET j == job[p]
       IN  IF j.op = "edit"
           THEN Audit(j.id, "edited", Snapshot(seen[p]), [enabled |-> j.enabled, rollout |-> j.rollout])
           ELSE Audit(j.id, "deleted", Snapshot(seen[p]), Absent)
    /\ Finish(p)
    /\ UNCHANGED rows

-----------------------------------------------------------------------------
Running(p) == pc[p] \notin {"new", "gone"}

\* The worker dies or the database refuses: the open transaction rolls back.
Crash(p) ==
    /\ Running(p)
    /\ Finish(p)
    /\ UNCHANGED <<rows, trail>>

Next ==
    \E p \in Procs :
        \/ \E j \in ServiceJob : Request(p, j)
        \/ CheckKey(p)
        \/ \E i \in Ids : InsertFlag(p, i)
        \/ LockFlag(p)
        \/ WriteFlag(p)
        \/ \E j \in EditJob \cup DeleteJob : OpenFlag(p, j)
        \/ SaveFlag(p)
        \/ DeleteFlag(p)
        \/ AuditBackOffice(p)
        \/ Crash(p)

Spec == Init /\ [][Next]_vars

-----------------------------------------------------------------------------
(* Evaluation, for a subject whose hash falls into a bucket of 0..Full-1. *)

\* Faulty: the last bucket of the rollout counts twice.
EvaluateInclusive(row, bucket) ==
    /\ row.enabled
    /\ row.rollout >= Full \/ (row.rollout > 0 /\ bucket <= row.rollout)

\* Faulty: the percentage is hashed as well, so a new one deals the subjects anew.
EvaluateReshuffled(row, bucket) ==
    /\ row.enabled
    /\ row.rollout >= Full \/ (row.rollout > 0 /\ (bucket + Full - row.rollout) % Full < row.rollout)

Evaluate(row, bucket) ==
    /\ row.enabled
    /\ row.rollout >= Full \/ (row.rollout > 0 /\ bucket < row.rollout)

-----------------------------------------------------------------------------
Snap  == [enabled : BOOLEAN, rollout : Percent] \cup {Absent}
Event == [op : {"created", "updated", "toggled", "edited", "deleted"}, before : Snap, after : Snap]

TypeOK ==
    /\ rows \in [Ids -> Row \cup {Absent}]
    /\ trail \in [Ids -> Seq(Event)]
    /\ rowLock \in [Ids -> Procs \cup {NoProc}]
    /\ pc \in [Procs -> {"new", "checking", "inserting", "waiting", "locked", "saving", "deleting",
                         "auditing", "gone"}]
    /\ job \in [Procs -> ServiceJob \cup EditJob \cup DeleteJob \cup {Absent}]
    /\ seen \in [Procs -> Row \cup {Absent}]

\* A key names one flag, whoever creates and renames flags at once.
KeysAreUnique ==
    \A i, k \in Ids : Exists(i) /\ Exists(k) /\ rows[i].key = rows[k].key => i = k

\* The trail of a flag replays to the flag: every event starts from what the one
\* before it left, a toggle flips, and the last one left what the table has.
TrailReplays ==
    \A i \in Ids :
        LET t == trail[i]
        IN  /\ \A n \in 1..(Len(t) - 1) : t[n + 1].before = t[n].after
            /\ \A n \in 1..Len(t) : t[n].op = "toggled" => t[n].after.enabled = ~t[n].before.enabled
            /\ t # <<>> => t[Len(t)].after = Snapshot(rows[i])

\* A change of the service is recorded as what it was: from the row as it stood
\* at the commit to the row it left, even next to the back office.
ServiceChangesAreExact ==
    [][\A p \in Procs, i \in Ids :
          pc[p] = "locked" /\ pc'[p] = "gone" /\ trail'[i] # trail[i] =>
              /\ trail'[i][Len(trail'[i])].before = Snapshot(rows[i])
              /\ trail'[i][Len(trail'[i])].after = Snapshot(rows'[i])]_vars

\* A rollout of n percent is on for exactly n percent of the buckets.
RolloutIsExact ==
    \A i \in Ids : Exists(i) =>
        Cardinality({b \in 0..(Full - 1) : Evaluate(rows[i], b)})
            = IF rows[i].enabled THEN rows[i].rollout ELSE 0

\* Raising the percentage of a flag that stays on takes it away from nobody, as
\* long as it is not renamed: the bucket of a subject depends on the flag's key.
RolloutIsSticky ==
    [][\A i \in Ids, b \in 0..(Full - 1) :
          /\ Exists(i) /\ rows'[i] # Absent /\ rows'[i].key = rows[i].key
          /\ rows'[i].enabled /\ rows'[i].rollout >= rows[i].rollout
          /\ Evaluate(rows[i], b)
          => Evaluate(rows'[i], b)]_vars
=============================================================================
