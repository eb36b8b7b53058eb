----------------------------- MODULE FlagsProofs -----------------------------
(***************************************************************************)
(* Proofs about the feature flags, for any number of flags, keys and       *)
(* requests and any size of the rollout scale.                             *)
(***************************************************************************)
EXTENDS FeatureFlags, SequenceTheorems, FiniteSetTheorems, TLAPS

\* A row of the table is told from no row.
LEMMA RowIsNotAbsent == \A row \in Row : row # Absent
BY DEF Row, Absent

\* What the audit keeps of a row.
LEMMA SnapshotType ==
    /\ \A row \in Row : /\ Snapshot(row) = [enabled |-> row.enabled, rollout |-> row.rollout]
                        /\ Snapshot(row) \in Snap
    /\ Snapshot(Absent) = Absent /\ Absent \in Snap
<1>1. \A row \in Row : row.enabled \in BOOLEAN /\ row.rollout \in Percent
  BY DEF Row
<1>. QED
  BY <1>1, RowIsNotAbsent DEF Snapshot, Snap

-----------------------------------------------------------------------------
(***************************************************************************)
(* The invariant: a process has the job and the row its place needs, and   *)
(* between its lock and its write the row is still the one it read.        *)
(***************************************************************************)
ChangeJob == UpdateJob \cup ToggleJob

Jobs ==
    \A p \in Procs :
        /\ pc[p] \in {"checking", "inserting"} => job[p] \in CreateJob
        /\ pc[p] = "inserting" => job[p].rollout \in Percent
        /\ pc[p] \in {"waiting", "locked"} => job[p] \in ChangeJob
        /\ pc[p] = "saving" => job[p] \in EditJob
        /\ pc[p] = "deleting" => job[p] \in DeleteJob
        /\ pc[p] = "auditing" => job[p] \in EditJob \cup DeleteJob
        /\ pc[p] = "auditing" /\ job[p].op = "edit" => job[p].rollout \in Percent
        /\ pc[p] \in {"saving", "deleting", "auditing"} => BackOffice /\ seen[p] \in Row

ReadIsFresh ==
    \A p \in Procs : pc[p] = "locked" =>
        /\ rowLock[job[p].id] = p
        /\ Exists(job[p].id) /\ seen[p] = rows[job[p].id]

\* A flag that exists was audited when it was created.
Recorded == \A i \in Ids : Exists(i) => trail[i] # <<>>

FlagsInv ==
    /\ TypeOK
    /\ Jobs
    /\ Recorded
    /\ ReadIsFresh
    /\ KeysAreUnique

\* The fields of the requests to the service, which the proofs need with their types.
LEMMA JobFields ==
    /\ \A j \in CreateJob : j.key \in Keys /\ j.rollout \in Asked /\ j.op = "create"
    /\ \A j \in ChangeJob : j.id \in Ids /\ j.op \in {"toggle", "update"}
    /\ \A j \in ChangeJob : j.op = "update" =>
           j.enabled \in BOOLEAN /\ j.rollout \in Asked /\ j.given \subseteq {"enabled", "rollout"}
    /\ \A j \in EditJob : j.id \in Ids /\ j.key \in Keys /\ j.enabled \in BOOLEAN /\ j.rollout \in Asked /\ j.op = "edit"
    /\ \A j \in DeleteJob : j.id \in Ids /\ j.op = "delete"
BY DEF CreateJob, ChangeJob, UpdateJob, ToggleJob, EditJob, DeleteJob

\* What a legal change makes of a row.
LEMMA ChangedRow ==
    ASSUME NEW row \in Row, NEW j \in ChangeJob,
           ~(j.op = "update" /\ "rollout" \in j.given /\ j.rollout \notin Percent)
    PROVE  /\ Changed(row, j, row) \in Row
           /\ Changed(row, j, row).key = row.key
           /\ j.op = "toggle" => Changed(row, j, row).enabled = ~row.enabled
<1>1. CASE j.op = "toggle"
  BY <1>1 DEF Changed, Row
<1>2. CASE j.op = "update"
  BY <1>2, JobFields DEF Changed, Row
<1>. QED
  BY <1>1, <1>2, JobFields

\* What a saved form makes of a row.
LEMMA MergedRow ==
    ASSUME NEW row \in Row, NEW read \in Row, NEW j \in EditJob, j.rollout \in Percent
    PROVE  /\ Merged(row, j, read) \in Row
           /\ Merged(row, j, read).key \in {row.key, j.key}
BY JobFields DEF Merged, Row

\* An appended event keeps the earlier ones.
LEMMA AppendEvent ==
    ASSUME NEW s \in Seq(Event), NEW e \in Event
    PROVE  /\ Append(s, e) \in Seq(Event) /\ Append(s, e) # <<>>
           /\ Len(s) \in Nat /\ Len(Append(s, e)) = Len(s) + 1
           /\ Append(s, e)[Len(s) + 1] = e
           /\ \A n \in 1..Len(s) : Append(s, e)[n] = s[n]
           /\ s = <<>> <=> Len(s) = 0
BY AppendProperties, LenProperties, EmptySeq

-----------------------------------------------------------------------------
\* The invariant holds at the start.
LEMMA InitHasInv == Init => FlagsInv
<1> SUFFICES ASSUME Init PROVE FlagsInv
  OBVIOUS
<1>1. PICK S \in {{}} \cup {{i} : i \in Ids}, k \in Keys, r \in Percent, on \in BOOLEAN :
        /\ rows = [i \in Ids |-> IF i \in S THEN Seeded(k, r, on) ELSE Absent]
        /\ trail = [i \in Ids |-> IF i \in S THEN SeedTrail(r, on) ELSE <<>>]
  BY DEF Init
<1>2. Seeded(k, r, on) \in Row
  BY DEF Seeded, NewFlag, Row
<1>3. SeedTrail(r, on) \in Seq(Event)
  <2> DEFINE off == [enabled |-> FALSE, rollout |-> r]
             created == [op |-> "created", before |-> Absent, after |-> off]
             toggled == [op |-> "toggled", before |-> off, after |-> [off EXCEPT !.enabled = TRUE]]
  <2>1. off \in Snap /\ [off EXCEPT !.enabled = TRUE] \in Snap /\ Absent \in Snap
    BY DEF Snap
  <2>2. created \in Event /\ toggled \in Event
    BY <2>1 DEF Event
  <2> HIDE DEF created, toggled
  <2>3. <<created, toggled>> \in Seq(Event) /\ <<created>> \in Seq(Event)
    BY <2>2
  <2>. QED
    BY <2>3 DEF SeedTrail, created, toggled
<1>4. TypeOK
  <2>1. trail \in [Ids -> Seq(Event)]
    BY <1>1, <1>3, EmptySeq
  <2>. QED
    BY <1>1, <1>2, <2>1 DEF Init, TypeOK
<1>5. KeysAreUnique
  BY <1>1 DEF KeysAreUnique, Exists
<1>6. Jobs /\ ReadIsFresh
  BY DEF Init, Jobs, ReadIsFresh
<1>7. SeedTrail(r, on) # <<>>
  BY DEF SeedTrail
<1>8. Recorded
  BY <1>1, <1>7 DEF Recorded, Exists
<1>. QED
  BY <1>4, <1>5, <1>6, <1>8 DEF FlagsInv

\* A process that goes leaves the others where they are.
LEMMA FinishKeeps ==
    ASSUME FlagsInv, NEW p \in Procs, Finish(p),
           \A q \in Procs : q # p /\ pc[q] = "locked" => rows'[job[q].id] = rows[job[q].id]
    PROVE  /\ Jobs' /\ ReadIsFresh'
           /\ rowLock' \in [Ids -> Procs \cup {NoProc}]
           /\ pc' \in [Procs -> {"new", "checking", "inserting", "waiting", "locked", "saving", "deleting",
                                 "auditing", "gone"}]
           /\ job' \in [Procs -> ServiceJob \cup EditJob \cup DeleteJob \cup {Absent}]
           /\ seen' \in [Procs -> Row \cup {Absent}]
<1>1. /\ pc'[p] = "gone"
      /\ \A q \in Procs : q # p => pc'[q] = pc[q] /\ job'[q] = job[q] /\ seen'[q] = seen[q]
  BY DEF Finish, Goto, FlagsInv, TypeOK
<1>2. Jobs'
  BY <1>1 DEF Jobs, FlagsInv
<1>3. ReadIsFresh'
  <2> SUFFICES ASSUME NEW q \in Procs, pc'[q] = "locked"
               PROVE  /\ rowLock'[job'[q].id] = q
                      /\ rows'[job'[q].id] # Absent /\ seen'[q] = rows'[job'[q].id]
    BY DEF ReadIsFresh, Exists
  <2>1. q # p /\ pc[q] = "locked" /\ job'[q] = job[q] /\ seen'[q] = seen[q]
    BY <1>1
  <2>2. job[q].id \in Ids /\ rowLock[job[q].id] = q /\ Exists(job[q].id) /\ seen[q] = rows[job[q].id]
    BY <2>1, JobFields DEF FlagsInv, Jobs, ReadIsFresh
  <2>3. rowLock'[job[q].id] = q
    BY <2>1, <2>2 DEF Finish
  <2>. QED
    BY <2>1, <2>2, <2>3 DEF Exists
<1>. QED
  BY <1>2, <1>3 DEF Finish, Goto, FlagsInv, TypeOK

\* Nothing was written: the table and the trail still have their types and keys.
LEMMA RefusalKeepsInv ==
    ASSUME FlagsInv, NEW p \in Procs, Finish(p), UNCHANGED <<rows, trail>>
    PROVE  FlagsInv'
<1>1. KeysAreUnique' /\ Recorded'
  BY DEF FlagsInv, KeysAreUnique, Recorded, Exists
<1>. QED
  BY <1>1, FinishKeeps DEF FlagsInv, TypeOK

\* A process moves on, the table stays.
LEMMA MoveKeepsInv ==
    ASSUME FlagsInv, NEW p \in Procs,
           \/ \E j \in ServiceJob : Request(p, j)
           \/ CheckKey(p)
           \/ LockFlag(p)
           \/ \E j \in EditJob \cup DeleteJob : OpenFlag(p, j)
    PROVE  FlagsInv'
<1> USE DEF FlagsInv
<1>1. rows' = rows /\ trail' = trail
  BY DEF Request, CheckKey, LockFlag, OpenFlag
<1>2. KeysAreUnique' /\ Recorded'
  BY <1>1 DEF KeysAreUnique, Recorded, Exists
<1>3. ASSUME NEW j \in ServiceJob, Request(p, j) PROVE FlagsInv'
  <2>1. CASE Finish(p)
    BY <1>1, <2>1, RefusalKeepsInv
  <2>2. CASE ~Finish(p)
    <3>1. /\ Goto(p, IF j.op = "create" THEN "checking" ELSE "waiting")
          /\ job' = [job EXCEPT ![p] = j] /\ UNCHANGED <<rowLock, seen>> /\ pc[p] = "new"
      BY <1>3, <2>2 DEF Request
    <3>2. TypeOK'
      BY <1>1, <3>1 DEF TypeOK, Goto
    <3>3. j.op = "create" => j \in CreateJob
      BY JobFields DEF ServiceJob, ChangeJob
    <3>4. j.op # "create" => j \in ChangeJob
      BY JobFields DEF ServiceJob, ChangeJob
    <3>5. Jobs' /\ ReadIsFresh'
      BY <1>1, <3>1, <3>3, <3>4 DEF TypeOK, Goto, Jobs, ReadIsFresh, Exists
    <3>. QED
      BY <1>2, <3>2, <3>5
  <2>. QED
    BY <2>1, <2>2
<1>4. CASE CheckKey(p)
  <2>1. CASE Finish(p)
    BY <1>1, <2>1, RefusalKeepsInv
  <2>2. CASE ~Finish(p)
    <3>1. /\ Goto(p, "inserting") /\ UNCHANGED <<rowLock, job, seen>>
          /\ pc[p] = "checking" /\ job[p].rollout \in Percent
      BY <1>4, <2>2 DEF CheckKey
    <3>2. TypeOK' /\ Jobs' /\ ReadIsFresh'
      BY <1>1, <3>1 DEF TypeOK, Goto, Jobs, ReadIsFresh, Exists
    <3>. QED
      BY <1>2, <3>2
  <2>. QED
    BY <2>1, <2>2
<1>5. CASE LockFlag(p)
  <2>1. CASE Finish(p)
    BY <1>1, <2>1, RefusalKeepsInv
  <2>2. CASE ~Finish(p)
    <3>1. /\ rowLock' = [rowLock EXCEPT ![job[p].id] = p]
          /\ seen' = [seen EXCEPT ![p] = rows[job[p].id]]
          /\ Goto(p, "locked") /\ UNCHANGED job /\ pc[p] = "waiting"
          /\ rowLock[job[p].id] = NoProc /\ Exists(job[p].id)
      BY <1>5, <2>2 DEF LockFlag
    <3>2. job[p] \in ChangeJob /\ job[p].id \in Ids /\ rows[job[p].id] \in Row
      BY <3>1, JobFields DEF Jobs, TypeOK, Exists
    <3>3. TypeOK' /\ Jobs'
      BY <1>1, <3>1, <3>2 DEF TypeOK, Goto, Jobs
    <3>4. ReadIsFresh'
      <4> SUFFICES ASSUME NEW q \in Procs, pc'[q] = "locked"
                   PROVE  /\ rowLock'[job[q].id] = q
                          /\ rows[job[q].id] # Absent /\ seen'[q] = rows[job[q].id]
        BY <1>1, <3>1 DEF ReadIsFresh, Exists
      <4>1. CASE q = p
        BY <3>1, <3>2, <4>1 DEF TypeOK, Exists
      <4>2. CASE q # p
        <5>1. pc[q] = "locked" /\ rowLock[job[q].id] = q
          BY <3>1, <4>2 DEF TypeOK, Goto, ReadIsFresh
        <5>2. job[q].id # job[p].id
          BY <3>1, <5>1, FlagsAssumption
        <5>. QED
          BY <3>1, <4>2, <5>1, <5>2 DEF TypeOK, ReadIsFresh, Exists
      <4>. QED
        BY <4>1, <4>2
    <3>. QED
      BY <1>2, <3>3, <3>4
  <2>. QED
    BY <2>1, <2>2
<1>6. ASSUME NEW j \in EditJob \cup DeleteJob, OpenFlag(p, j) PROVE FlagsInv'
  <2>1. j.id \in Ids /\ rows[j.id] \in Row /\ (j.op = "edit" => j \in EditJob) /\ (j.op # "edit" => j \in DeleteJob)
    BY <1>6, JobFields DEF OpenFlag, TypeOK, Exists
  <2>2. TypeOK'
    BY <1>1, <1>6, <2>1 DEF OpenFlag, TypeOK, Goto
  <2>3. Jobs' /\ ReadIsFresh'
    BY <1>1, <1>6, <2>1 DEF OpenFlag, TypeOK, Goto, Jobs, ReadIsFresh, Exists
  <2>. QED
    BY <1>2, <2>2, <2>3
<1>. QED
  BY <1>3, <1>4, <1>5, <1>6

\* One event appended for one flag.
LEMMA AuditType ==
    ASSUME TypeOK, NEW i \in Ids, NEW before \in Snap, NEW after \in Snap,
           NEW op \in {"created", "updated", "toggled", "edited", "deleted"},
           Audit(i, op, before, after)
    PROVE  /\ trail' \in [Ids -> Seq(Event)]
           /\ \A k \in Ids : trail[k] # <<>> \/ k = i => trail'[k] # <<>>
<1> DEFINE e == [op |-> op, before |-> before, after |-> after]
<1>1. e \in Event
  BY DEF Event
<1>2. trail' = [trail EXCEPT ![i] = Append(@, e)]
  BY DEF Audit
<1> HIDE DEF e
<1>3. Append(trail[i], e) \in Seq(Event) /\ Append(trail[i], e) # <<>>
  BY <1>1, AppendEvent DEF TypeOK
<1>. QED
  BY <1>2, <1>3 DEF TypeOK

\* An insert passes the unique index.
LEMMA InsertKeepsInv ==
    ASSUME FlagsInv, NEW p \in Procs, NEW i \in Ids, InsertFlag(p, i)
    PROVE  FlagsInv'
<1> USE DEF FlagsInv
<1>1. CASE Taken(job[p].key)
  BY <1>1, RefusalKeepsInv DEF InsertFlag
<1>2. CASE ~Taken(job[p].key)
  <2> DEFINE row == NewFlag(job[p].key, job[p].rollout)
  <2>1. job[p] \in CreateJob /\ job[p].key \in Keys /\ job[p].rollout \in Percent
    BY JobFields DEF InsertFlag, Jobs
  <2>2. row \in Row /\ row.key = job[p].key
    BY <2>1 DEF NewFlag, Row
  <2>3. /\ rows' = [rows EXCEPT ![i] = row]
        /\ Audit(i, "created", Absent, Snapshot(row)) /\ Finish(p)
    BY <1>2 DEF InsertFlag
  <2> HIDE DEF row
  <2>4. trail' \in [Ids -> Seq(Event)] /\ \A k \in Ids : trail[k] # <<>> \/ k = i => trail'[k] # <<>>
    BY <2>2, <2>3, AuditType, SnapshotType
  <2>5. rows'[i] = row /\ \A k \in Ids \ {i} : rows'[k] = rows[k]
    BY <2>3 DEF TypeOK
  <2>9. ~Exists(i)
    BY DEF InsertFlag, Recorded
  <2>6. \A q \in Procs : q # p /\ pc[q] = "locked" => rows'[job[q].id] = rows[job[q].id]
    BY <2>5, <2>9, JobFields DEF ReadIsFresh, Jobs
  <2>7. TypeOK' /\ Jobs' /\ ReadIsFresh'
    BY <2>2, <2>3, <2>4, <2>6, FinishKeeps DEF TypeOK
  <2>8. KeysAreUnique'
    BY <1>2, <2>2, <2>5 DEF KeysAreUnique, Taken, Exists
  <2>10. Recorded'
    BY <2>4, <2>5 DEF Recorded, Exists
  <2>. QED
    BY <2>7, <2>8, <2>10
<1>. QED
  BY <1>1, <1>2

\* A table in which one row gives way to another with the same key keeps its
\* keys unique.
LEMMA SameKey ==
    ASSUME FlagsInv, NEW i \in Ids, NEW row \in Row, Exists(i),
           rows' = [rows EXCEPT ![i] = row],
           row.key = rows[i].key \/ ~Taken(row.key)
    PROVE  KeysAreUnique' /\ rows' \in [Ids -> Row \cup {Absent}] /\ \A k \in Ids : Exists(k)' = Exists(k)
<1>1. rows'[i] = row /\ row # Absent /\ \A k \in Ids \ {i} : rows'[k] = rows[k]
  BY RowIsNotAbsent DEF FlagsInv, TypeOK
<1>2. KeysAreUnique'
  BY <1>1 DEF FlagsInv, KeysAreUnique, Taken, Exists
<1>. QED
  BY <1>1, <1>2 DEF FlagsInv, TypeOK, Exists

\* Nobody else holds the lock, so nobody else has read the row.
LEMMA OthersReadOtherRows ==
    ASSUME FlagsInv, NEW p \in Procs, NEW i \in Ids, rowLock[i] \in {p, NoProc}
    PROVE  \A q \in Procs : q # p /\ pc[q] = "locked" => job[q].id \in Ids \ {i}
BY FlagsAssumption, JobFields DEF FlagsInv, ReadIsFresh, Jobs

\* A write of the service is made under the lock and leaves the key alone.
LEMMA WriteKeepsInv ==
    ASSUME FlagsInv, NEW p \in Procs, WriteFlag(p)
    PROVE  FlagsInv'
<1> USE DEF FlagsInv
<1> DEFINE j == job[p]
           row == rows[j.id]
           refused == j.op = "update" /\ "rollout" \in j.given /\ j.rollout \notin Percent
<1>1. /\ j \in ChangeJob /\ j.id \in Ids /\ Exists(j.id) /\ row \in Row /\ seen[p] = row
      /\ rowLock[j.id] = p
  BY JobFields DEF WriteFlag, Jobs, ReadIsFresh, TypeOK, Exists
<1>2. CASE refused
  BY <1>2, RefusalKeepsInv DEF WriteFlag
<1>3. CASE ~refused
  <2> DEFINE x == Changed(row, j, row)
             op == IF j.op = "toggle" THEN "toggled" ELSE "updated"
  <2>1. /\ rows' = [rows EXCEPT ![j.id] = x]
        /\ Audit(j.id, op, Snapshot(row), Snapshot(x)) /\ Finish(p)
    BY <1>1, <1>3 DEF WriteFlag
  <2>2. x \in Row /\ x.key = row.key
    BY <1>1, <1>3, ChangedRow
  <2>3. op \in {"created", "updated", "toggled", "edited", "deleted"}
    OBVIOUS
  <2> HIDE DEF x, op
  <2>4. Snapshot(row) \in Snap /\ Snapshot(x) \in Snap
    BY <1>1, <2>2, SnapshotType
  <2>5. trail' \in [Ids -> Seq(Event)] /\ \A k \in Ids : trail[k] # <<>> => trail'[k] # <<>>
    BY <1>1, <2>1, <2>3, <2>4, AuditType
  <2>6. KeysAreUnique' /\ rows' \in [Ids -> Row \cup {Absent}] /\ \A k \in Ids : Exists(k)' = Exists(k)
    BY <1>1, <2>1, <2>2, SameKey
  <2>7. \A q \in Procs : q # p /\ pc[q] = "locked" => rows'[job[q].id] = rows[job[q].id]
    BY <1>1, <2>1, OthersReadOtherRows DEF TypeOK
  <2>8. TypeOK' /\ Jobs' /\ ReadIsFresh'
    BY <2>1, <2>5, <2>6, <2>7, FinishKeeps DEF TypeOK
  <2>9. Recorded'
    BY <2>5, <2>6 DEF Recorded
  <2>. QED
    BY <2>6, <2>8, <2>9
<1>. QED
  BY <1>2, <1>3

\* A save of the back office passes the unique index.
LEMMA SaveKeepsInv ==
    ASSUME FlagsInv, NEW p \in Procs, SaveFlag(p)
    PROVE  FlagsInv'
<1> USE DEF FlagsInv
<1> DEFINE j == job[p]
           row == rows[j.id]
<1>1. j \in EditJob /\ j.id \in Ids /\ seen[p] \in Row /\ rowLock[j.id] = NoProc /\ pc[p] = "saving" /\ j.op = "edit"
  BY JobFields DEF SaveFlag, Jobs
<1>2. CASE ~Exists(j.id) \/ ~FormIsLegal(j, row)
  BY <1>2, RefusalKeepsInv DEF SaveFlag
<1>3. CASE Exists(j.id) /\ FormIsLegal(j, row)
  <2> DEFINE x == Merged(row, j, seen[p])
  <2>1. /\ rows' = [rows EXCEPT ![j.id] = x]
        /\ Goto(p, "auditing") /\ UNCHANGED <<rowLock, job, seen>> /\ trail' = trail
    BY <1>3 DEF SaveFlag
  <2>2. row \in Row /\ j.rollout \in Percent
    BY <1>1, <1>3 DEF TypeOK, Exists, FormIsLegal
  <2>3. x \in Row /\ x.key \in {row.key, j.key}
    BY <1>1, <2>2, MergedRow
  <2>4. x.key = row.key \/ ~Taken(x.key)
    BY <1>3, <2>3 DEF FormIsLegal
  <2> HIDE DEF x
  <2>5. KeysAreUnique' /\ rows' \in [Ids -> Row \cup {Absent}] /\ \A k \in Ids : Exists(k)' = Exists(k)
    BY <1>1, <1>3, <2>1, <2>3, <2>4, SameKey
  <2>6. TypeOK' /\ Jobs'
    BY <1>1, <2>1, <2>2, <2>5 DEF TypeOK, Goto, Jobs
  <2>7. \A q \in Procs : pc'[q] = "locked" => pc[q] = "locked" /\ job[q].id \in Ids \ {j.id}
    BY <1>1, <2>1, OthersReadOtherRows DEF TypeOK, Goto
  <2>8. ReadIsFresh'
    BY <2>1, <2>7 DEF ReadIsFresh, TypeOK, Exists
  <2>9. Recorded'
    BY <2>1, <2>5 DEF Recorded
  <2>. QED
    BY <2>5, <2>6, <2>8, <2>9
<1>. QED
  BY <1>2, <1>3

\* A row that goes takes no key from another.
LEMMA DeleteKeepsInv ==
    ASSUME FlagsInv, NEW p \in Procs, DeleteFlag(p)
    PROVE  FlagsInv'
<1> USE DEF FlagsInv
<1> DEFINE i == job[p].id
<1>1. job[p] \in DeleteJob /\ i \in Ids /\ rowLock[i] = NoProc /\ pc[p] = "deleting" /\ job[p].op = "delete"
  BY JobFields DEF DeleteFlag, Jobs
<1>2. /\ rows' = [rows EXCEPT ![i] = Absent] /\ rows'[i] = Absent
      /\ \A k \in Ids \ {i} : rows'[k] = rows[k]
      /\ Goto(p, "auditing") /\ UNCHANGED <<trail, rowLock, job, seen>>
  BY <1>1 DEF DeleteFlag, TypeOK
<1>3. TypeOK' /\ Jobs'
  BY <1>1, <1>2 DEF TypeOK, Goto, Jobs
<1>4. KeysAreUnique' /\ Recorded'
  BY <1>2 DEF KeysAreUnique, Recorded, Exists
<1>5. \A q \in Procs : pc'[q] = "locked" => pc[q] = "locked" /\ job[q].id \in Ids \ {i}
  BY <1>1, <1>2, OthersReadOtherRows DEF TypeOK, Goto
<1>6. ReadIsFresh'
  BY <1>2, <1>5 DEF ReadIsFresh, Exists
<1>. QED
  BY <1>3, <1>4, <1>6

\* The late audit of the back office writes an event and no row.
LEMMA AuditKeepsInv ==
    ASSUME FlagsInv, NEW p \in Procs, AuditBackOffice(p)
    PROVE  FlagsInv'
<1> USE DEF FlagsInv
<1> DEFINE j == job[p]
<1>1. j \in EditJob \cup DeleteJob /\ j.id \in Ids /\ seen[p] \in Row /\ Snapshot(seen[p]) \in Snap
  BY JobFields, SnapshotType DEF AuditBackOffice, Jobs
<1>2. PICK op \in {"edited", "deleted"}, after \in Snap : Audit(j.id, op, Snapshot(seen[p]), after)
  <2>1. CASE j.op = "edit"
    <3>1. j.enabled \in BOOLEAN /\ j.rollout \in Percent
      BY <1>1, <2>1, JobFields DEF AuditBackOffice, Jobs
    <3>2. [enabled |-> j.enabled, rollout |-> j.rollout] \in Snap
      BY <3>1 DEF Snap
    <3>. QED
      BY <2>1, <3>2 DEF AuditBackOffice
  <2>2. CASE j.op # "edit"
    BY <2>2, SnapshotType DEF AuditBackOffice
  <2>. QED
    BY <2>1, <2>2
<1>3. trail' \in [Ids -> Seq(Event)] /\ \A k \in Ids : trail[k] # <<>> => trail'[k] # <<>>
  BY <1>1, <1>2, AuditType
<1>4. rows' = rows /\ Finish(p)
  BY DEF AuditBackOffice
<1>5. KeysAreUnique' /\ Recorded'
  BY <1>3, <1>4 DEF KeysAreUnique, Recorded, Exists
<1>6. TypeOK' /\ Jobs' /\ ReadIsFresh'
  BY <1>3, <1>4, FinishKeeps DEF TypeOK
<1>. QED
  BY <1>5, <1>6

\* Every step keeps the invariant.
LEMMA NextKeepsInv == FlagsInv /\ [Next]_vars => FlagsInv'
<1> SUFFICES ASSUME FlagsInv, [Next]_vars PROVE FlagsInv'
  OBVIOUS
<1>1. CASE UNCHANGED vars
  BY <1>1 DEF vars, FlagsInv, TypeOK, Jobs, Recorded, ReadIsFresh, KeysAreUnique, Exists
<1>2. ASSUME NEW p \in Procs, Crash(p) PROVE FlagsInv'
  BY <1>2, RefusalKeepsInv DEF Crash
<1>. QED
  BY <1>1, <1>2, MoveKeepsInv, InsertKeepsInv, WriteKeepsInv, SaveKeepsInv, DeleteKeepsInv, AuditKeepsInv DEF Next

\* The invariant of the proofs holds in every reachable state.
LEMMA InvHolds == Spec => []FlagsInv
BY InitHasInv, NextKeepsInv, PTL DEF Spec

-----------------------------------------------------------------------------
\* With the back office or without it: the types, and no two flags of one key.
THEOREM FlagsSafety == Spec => [](TypeOK /\ KeysAreUnique)
<1>1. FlagsInv => TypeOK /\ KeysAreUnique
  BY DEF FlagsInv
<1>. QED
  BY <1>1, InvHolds, PTL

-----------------------------------------------------------------------------
\* The service audits exactly what it changed, even next to the back office.
THEOREM ServiceAuditsExactly == Spec => ServiceChangesAreExact
<1>1. ASSUME FlagsInv, [Next]_vars, NEW p \in Procs, NEW i \in Ids,
             pc[p] = "locked", pc'[p] = "gone", trail'[i] # trail[i]
      PROVE  /\ trail'[i][Len(trail'[i])].before = Snapshot(rows[i])
             /\ trail'[i][Len(trail'[i])].after = Snapshot(rows'[i])
  <2> DEFINE j == job[p]
             row == rows[j.id]
             x == Changed(row, j, row)
             op == IF j.op = "toggle" THEN "toggled" ELSE "updated"
             e == [op |-> op, before |-> Snapshot(row), after |-> Snapshot(x)]
  <2>1. WriteFlag(p)
    <3>1. ~UNCHANGED vars /\ ~UNCHANGED pc
      BY <1>1 DEF vars
    <3>2. \A q \in Procs : q # p /\ (\/ \E k \in ServiceJob : Request(q, k)
                                     \/ CheckKey(q) \/ LockFlag(q) \/ WriteFlag(q)
                                     \/ (\E k \in Ids : InsertFlag(q, k))
                                     \/ (\E k \in EditJob \cup DeleteJob : OpenFlag(q, k))
                                     \/ SaveFlag(q) \/ DeleteFlag(q) \/ AuditBackOffice(q) \/ Crash(q))
                                 => pc'[p] = pc[p]
      BY <1>1 DEF Request, CheckKey, LockFlag, WriteFlag, InsertFlag, OpenFlag, SaveFlag, DeleteFlag,
                  AuditBackOffice, Crash, Finish, Goto, FlagsInv, TypeOK
    <3>. QED
      BY <1>1, <3>1, <3>2 DEF Next, Request, CheckKey, LockFlag, InsertFlag, OpenFlag, SaveFlag, DeleteFlag,
                  AuditBackOffice, Crash
  <2>2. /\ j \in ChangeJob /\ j.id \in Ids /\ Exists(j.id) /\ row \in Row /\ seen[p] = row
    BY <1>1, JobFields DEF FlagsInv, Jobs, ReadIsFresh, TypeOK, Exists
  <2>3. ~(j.op = "update" /\ "rollout" \in j.given /\ j.rollout \notin Percent)
    BY <1>1, <2>1 DEF WriteFlag
  <2>4. rows' = [rows EXCEPT ![j.id] = x] /\ trail' = [trail EXCEPT ![j.id] = Append(@, e)]
    BY <2>1, <2>2, <2>3 DEF WriteFlag, Audit
  <2>5. x \in Row
    BY <2>2, <2>3, ChangedRow
  <2>6. e \in Event /\ e.before = Snapshot(row) /\ e.after = Snapshot(x)
    BY <2>2, <2>5, SnapshotType DEF Event
  <2> HIDE DEF e, x
  <2>7. i = j.id
    BY <1>1, <2>4 DEF FlagsInv, TypeOK
  <2>8. trail'[i] = Append(trail[i], e) /\ rows'[i] = x /\ trail[i] \in Seq(Event)
    BY <1>1, <2>2, <2>4, <2>7 DEF FlagsInv, TypeOK
  <2>9. trail'[i][Len(trail'[i])] = e
    BY <2>6, <2>8, AppendEvent
  <2>. QED
    BY <2>6, <2>7, <2>8, <2>9
<1>2. FlagsInv /\ [Next]_vars =>
        [\A p \in Procs, i \in Ids :
            pc[p] = "locked" /\ pc'[p] = "gone" /\ trail'[i] # trail[i] =>
              /\ trail'[i][Len(trail'[i])].before = Snapshot(rows[i])
              /\ trail'[i][Len(trail'[i])].after = Snapshot(rows'[i])]_vars
  BY <1>1
<1>. QED
  BY <1>2, InvHolds, PTL DEF Spec, ServiceChangesAreExact

-----------------------------------------------------------------------------
(* The evaluation *)

\* A rollout of n of Full is on for exactly n of the Full buckets.
LEMMA ExactShare ==
    ASSUME NEW row \in Row
    PROVE  Cardinality({b \in 0..(Full - 1) : Evaluate(row, b)}) = IF row.enabled THEN row.rollout ELSE 0
<1> DEFINE S == {b \in 0..(Full - 1) : Evaluate(row, b)}
<1>1. row.enabled \in BOOLEAN /\ row.rollout \in Nat /\ row.rollout <= Full /\ Full \in Nat
  BY FlagsAssumption DEF Row, Percent, FlagsAssumption
<1>2. CASE ~row.enabled
  <2>1. S = {}
    BY <1>2 DEF Evaluate
  <2>. QED
    BY <1>2, <2>1, FS_EmptySet
<1>3. CASE row.enabled
  <2>1. S = 0..(row.rollout - 1)
    BY <1>1, <1>3 DEF Evaluate
  <2>2. Cardinality(0..(row.rollout - 1)) = row.rollout
    <3>1. 0 \in Int /\ row.rollout - 1 \in Int
      BY <1>1
    <3>2. Cardinality(0..(row.rollout - 1)) = IF 0 > row.rollout - 1 THEN 0 ELSE row.rollout - 1 - 0 + 1
      BY <3>1, FS_Interval, Zenon
    <3>. QED
      BY <1>1, <3>2
  <2>. QED
    BY <1>3, <2>1, <2>2
<1>. QED
  BY <1>1, <1>2, <1>3

\* Whatever the flags go through, every rollout is exact.
THEOREM RolloutsAreExact == Spec => []RolloutIsExact
<1>1. FlagsInv => RolloutIsExact
  BY ExactShare DEF FlagsInv, TypeOK, RolloutIsExact, Exists
<1>. QED
  BY <1>1, InvHolds, PTL

\* Raising a rollout takes the flag away from nobody.
THEOREM RolloutsAreSticky == Spec => RolloutIsSticky
<1>1. ASSUME FlagsInv, FlagsInv', NEW i \in Ids, NEW b \in 0..(Full - 1),
             Exists(i), rows'[i] # Absent, rows'[i].key = rows[i].key,
             rows'[i].enabled, rows'[i].rollout >= rows[i].rollout, Evaluate(rows[i], b)
      PROVE  Evaluate(rows'[i], b)
  <2>1. rows[i] \in Row /\ rows'[i] \in Row
    BY <1>1 DEF FlagsInv, TypeOK, Exists
  <2>2. rows[i].rollout \in Nat /\ rows'[i].rollout \in Nat /\ Full \in Nat /\ b \in Nat
    BY <2>1, FlagsAssumption DEF Row, Percent, FlagsAssumption
  <2>. QED
    BY <1>1, <2>2 DEF Evaluate
<1>2. FlagsInv /\ FlagsInv' /\ [Next]_vars =>
        [\A i \in Ids, b \in 0..(Full - 1) :
            /\ Exists(i) /\ rows'[i] # Absent /\ rows'[i].key = rows[i].key
            /\ rows'[i].enabled /\ rows'[i].rollout >= rows[i].rollout
            /\ Evaluate(rows[i], b)
            => Evaluate(rows'[i], b)]_vars
  BY <1>1
<1>. QED
  BY <1>2, InvHolds, PTL DEF Spec, RolloutIsSticky

-----------------------------------------------------------------------------
(* The trail *)

\* The trail t is a chain of events that ends in the snapshot s.
ReplaysTo(t, s) ==
    /\ \A n \in 1..(Len(t) - 1) : t[n + 1].before = t[n].after
    /\ \A n \in 1..Len(t) : t[n].op = "toggled" => t[n].after.enabled = ~t[n].before.enabled
    /\ t # <<>> => t[Len(t)].after = s

\* A trail that replays to a row, with an event that starts from it, replays to where the event leads.
LEMMA ReplayExtends ==
    ASSUME NEW t \in Seq(Event), NEW s, NEW e \in Event, ReplaysTo(t, s),
           t # <<>> => e.before = s,
           e.op = "toggled" => e.after.enabled = ~e.before.enabled
    PROVE  ReplaysTo(Append(t, e), e.after)
<1> DEFINE a == Append(t, e)
<1>1. /\ Len(t) \in Nat /\ Len(a) = Len(t) + 1 /\ a[Len(t) + 1] = e
      /\ \A n \in 1..Len(t) : a[n] = t[n]
      /\ t = <<>> <=> Len(t) = 0
  BY AppendEvent
<1> HIDE DEF a
<1>2. ASSUME NEW n \in 1..(Len(a) - 1) PROVE a[n + 1].before = a[n].after
  <2>1. CASE n < Len(t)
    <3>1. n \in 1..(Len(t) - 1) /\ n \in 1..Len(t) /\ n + 1 \in 1..Len(t)
      BY <1>1, <2>1
    <3>. QED
      BY <1>1, <3>1 DEF ReplaysTo
  <2>2. CASE n = Len(t)
    <3>1. t # <<>> /\ a[n] = t[Len(t)] /\ a[n + 1] = e
      BY <1>1, <2>2
    <3>. QED
      BY <3>1 DEF ReplaysTo
  <2>. QED
    BY <1>1, <2>1, <2>2
<1>3. ASSUME NEW n \in 1..Len(a), a[n].op = "toggled" PROVE a[n].after.enabled = ~a[n].before.enabled
  <2>1. CASE n \in 1..Len(t)
    BY <1>1, <1>3, <2>1 DEF ReplaysTo
  <2>2. CASE n = Len(t) + 1
    BY <1>1, <1>3, <2>2
  <2>. QED
    BY <1>1, <2>1, <2>2
<1>4. ReplaysTo(a, e.after)
  BY <1>1, <1>2, <1>3 DEF ReplaysTo
<1>. QED
  BY <1>4 DEF a

\* The trail a seeded flag starts with.
LEMMA SeededReplays ==
    ASSUME NEW k \in Keys, NEW r \in Percent, NEW on \in BOOLEAN
    PROVE  ReplaysTo(SeedTrail(r, on), Snapshot(Seeded(k, r, on)))
<1>1. Seeded(k, r, on) = [key |-> k, enabled |-> on, rollout |-> r] /\ Seeded(k, r, on) \in Row
  BY DEF Seeded, NewFlag, Row
<1>2. Snapshot(Seeded(k, r, on)) = [enabled |-> on, rollout |-> r]
  BY <1>1, SnapshotType
<1> DEFINE off == [enabled |-> FALSE, rollout |-> r]
           created == [op |-> "created", before |-> Absent, after |-> off]
           toggled == [op |-> "toggled", before |-> off, after |-> [off EXCEPT !.enabled = TRUE]]
<1>3. /\ created.op = "created" /\ created.after = off
      /\ toggled.op = "toggled" /\ toggled.before = off
      /\ toggled.after = [enabled |-> TRUE, rollout |-> r]
      /\ toggled.after.enabled = ~toggled.before.enabled
  OBVIOUS
<1>4. SeedTrail(r, on) = IF on THEN <<created, toggled>> ELSE <<created>>
  BY DEF SeedTrail
<1> HIDE DEF created, toggled
<1>5. CASE on
  <2>1. Snapshot(Seeded(k, r, on)) = toggled.after
    BY <1>2, <1>3, <1>5
  <2> DEFINE t == <<created, toggled>>
  <2>2. Len(t) = 2 /\ t[1] = created /\ t[2] = toggled
    OBVIOUS
  <2> HIDE DEF t
  <2>4. /\ \A n \in 1..(Len(t) - 1) : t[n + 1].before = t[n].after
        /\ \A n \in 1..Len(t) : t[n].op = "toggled" => t[n].after.enabled = ~t[n].before.enabled
    <3>1. \A n \in 1..(Len(t) - 1) : n = 1 /\ n + 1 = 2
      BY <2>2
    <3>2. \A n \in 1..Len(t) : n = 1 \/ n = 2
      BY <2>2
    <3>3. created.op # "toggled"
      BY <1>3
    <3>. QED
      BY <1>3, <2>2, <3>1, <3>2, <3>3, Zenon
  <2>5. ReplaysTo(t, toggled.after)
    BY <2>2, <2>4 DEF ReplaysTo
  <2>3. ReplaysTo(<<created, toggled>>, toggled.after)
    BY <2>5 DEF t
  <2>. QED
    BY <1>4, <1>5, <2>1, <2>3
<1>6. CASE ~on
  <2>1. Snapshot(Seeded(k, r, on)) = created.after
    BY <1>2, <1>3, <1>6
  <2>2. ReplaysTo(<<created>>, created.after)
    BY <1>3 DEF ReplaysTo
  <2>. QED
    BY <1>4, <1>6, <2>1, <2>2
<1>. QED
  BY <1>5, <1>6

\* Writing a row and auditing what was written keeps every trail a replay.
LEMMA ChangeReplays ==
    ASSUME FlagsInv, TrailReplays, NEW i \in Ids, NEW e \in Event, NEW row \in Row,
           rows' = [rows EXCEPT ![i] = row], trail' = [trail EXCEPT ![i] = Append(@, e)],
           e.after = Snapshot(row), trail[i] # <<>> => e.before = Snapshot(rows[i]),
           e.op = "toggled" => e.after.enabled = ~e.before.enabled
    PROVE  TrailReplays'
<1>1. \A k \in Ids : ReplaysTo(trail[k], Snapshot(rows[k])) /\ trail[k] \in Seq(Event)
  BY DEF TrailReplays, ReplaysTo, FlagsInv, TypeOK
<1>2. ReplaysTo(trail'[i], Snapshot(rows'[i]))
  <2>1. trail'[i] = Append(trail[i], e) /\ rows'[i] = row
    BY DEF FlagsInv, TypeOK
  <2>2. ReplaysTo(Append(trail[i], e), e.after)
    BY <1>1, ReplayExtends
  <2>. QED
    BY <2>1, <2>2
<1>3. \A k \in Ids \ {i} : trail'[k] = trail[k] /\ rows'[k] = rows[k]
  BY DEF FlagsInv, TypeOK
<1>4. \A k \in Ids : ReplaysTo(trail'[k], Snapshot(rows'[k]))
  BY <1>1, <1>2, <1>3, Zenon
<1>. QED
  BY <1>4 DEF TrailReplays, ReplaysTo, Snapshot

\* Without the back office every trail replays to its flag, however the requests
\* of the service overlap and whenever they die.
THEOREM TrailAlwaysReplays == ~BackOffice => (Spec => []TrailReplays)
<1> SUFFICES ASSUME ~BackOffice PROVE Spec => []TrailReplays
  OBVIOUS
<1>1. Init => TrailReplays
  <2> SUFFICES ASSUME Init PROVE TrailReplays
    OBVIOUS
  <2>1. PICK S \in {{}} \cup {{i} : i \in Ids}, k \in Keys, r \in Percent, on \in BOOLEAN :
            /\ rows = [i \in Ids |-> IF i \in S THEN Seeded(k, r, on) ELSE Absent]
            /\ trail = [i \in Ids |-> IF i \in S THEN SeedTrail(r, on) ELSE <<>>]
    BY DEF Init
  <2>2. \A i \in Ids : ReplaysTo(trail[i], Snapshot(rows[i]))
    <3>1. ReplaysTo(<<>>, Snapshot(Absent))
      BY DEF ReplaysTo
    <3>. QED
      BY <2>1, <3>1, SeededReplays
  <2>. QED
    BY <2>2 DEF TrailReplays, ReplaysTo
<1>2. FlagsInv /\ TrailReplays /\ [Next]_vars => TrailReplays'
  <2> SUFFICES ASSUME FlagsInv, TrailReplays, [Next]_vars PROVE TrailReplays'
    OBVIOUS
  <2>1. CASE UNCHANGED <<rows, trail>>
    BY <2>1 DEF TrailReplays, Snapshot
  <2>2. ASSUME NEW p \in Procs, NEW i \in Ids, InsertFlag(p, i), ~Taken(job[p].key) PROVE TrailReplays'
    <3> DEFINE row == NewFlag(job[p].key, job[p].rollout)
               e == [op |-> "created", before |-> Absent, after |-> Snapshot(row)]
    <3>1. job[p].key \in Keys /\ job[p].rollout \in Percent
      BY <2>2, JobFields DEF InsertFlag, FlagsInv, Jobs
    <3>2. row \in Row
      BY <3>1 DEF NewFlag, Row
    <3>3. e \in Event /\ e.after = Snapshot(row) /\ e.op # "toggled"
      BY <3>2, SnapshotType DEF Event
    <3>4. rows' = [rows EXCEPT ![i] = row] /\ trail' = [trail EXCEPT ![i] = Append(@, e)] /\ trail[i] = <<>>
      BY <2>2 DEF InsertFlag, Audit
    <3> HIDE DEF row, e
    <3>. QED
      BY <3>2, <3>3, <3>4, ChangeReplays
  <2>3. ASSUME NEW p \in Procs, WriteFlag(p),
               ~(job[p].op = "update" /\ "rollout" \in job[p].given /\ job[p].rollout \notin Percent)
        PROVE  TrailReplays'
    <3> DEFINE j == job[p]
               x == Changed(rows[j.id], j, rows[j.id])
               op == IF j.op = "toggle" THEN "toggled" ELSE "updated"
               e == [op |-> op, before |-> Snapshot(rows[j.id]), after |-> Snapshot(x)]
    <3>1. j \in ChangeJob /\ j.id \in Ids /\ rows[j.id] \in Row /\ seen[p] = rows[j.id]
      BY <2>3, JobFields DEF WriteFlag, FlagsInv, Jobs, ReadIsFresh, TypeOK, Exists
    <3>2. rows' = [rows EXCEPT ![j.id] = x] /\ trail' = [trail EXCEPT ![j.id] = Append(@, e)]
      BY <2>3, <3>1 DEF WriteFlag, Audit
    <3>3. x \in Row /\ (j.op = "toggle" => x.enabled = ~rows[j.id].enabled)
      BY <2>3, <3>1, ChangedRow
    <3>4. /\ Snapshot(x) \in Snap /\ Snapshot(rows[j.id]) \in Snap
          /\ Snapshot(x).enabled = x.enabled /\ Snapshot(rows[j.id]).enabled = rows[j.id].enabled
      BY <3>1, <3>3, SnapshotType
    <3>5. /\ e \in Event /\ e.before = Snapshot(rows[j.id]) /\ e.after = Snapshot(x)
          /\ e.op = "toggled" => j.op = "toggle"
      BY <3>4 DEF Event
    <3> HIDE DEF e, x, j
    <3>. QED
      BY <3>1, <3>2, <3>3, <3>4, <3>5, ChangeReplays
  <2>4. ASSUME NEW p \in Procs, SaveFlag(p) \/ DeleteFlag(p) \/ AuditBackOffice(p) PROVE FALSE
    BY <2>4 DEF SaveFlag, DeleteFlag, AuditBackOffice, FlagsInv, Jobs
  <2>. QED
    BY <2>1, <2>2, <2>3, <2>4 DEF Next, vars, Request, CheckKey, InsertFlag, LockFlag, WriteFlag, OpenFlag, Crash
<1>. QED
  BY <1>1, <1>2, InvHolds, PTL DEF Spec
=============================================================================
