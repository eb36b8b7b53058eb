--------------------------- MODULE AccountsProofs ---------------------------
(***************************************************************************)
(* Proofs about the accounts, for any number of accounts, names, tiers and *)
(* requests, whatever the requests ask.                                    *)
(***************************************************************************)
EXTENDS UserAccounts, TLAPS

Places == Over \cup {"new", "listed", "emailing", "naming", "inserting", "promoting", "finding", "reading",
                     "tiering", "writing", "saving", "unused", "unlimited", "dropping"}

There == {i \in Ids : Exists(i)}

\* What a request at w needs: what it was asked, who asks, its account among those
\* that are there, and the row it compares with.
At(w, j, m, k, s, there) ==
    /\ w \in {"emailing", "naming"} => j \in SignUp \cup Bootstrap \/ (j \in Update /\ k \in there /\ s \in Row)
    /\ w = "inserting" => j \in SignUp \cup Bootstrap \cup Add
    /\ w = "promoting" => k \in there
    /\ w = "finding"   => j \in ByUser /\ m \in Me
    /\ w = "reading"   => j \in Update \cup Retier /\ k \in there
    /\ w = "tiering"   => j \in Retier /\ k \in there
    /\ w = "writing"   => j \in ByUser \cup AdminErase /\ k \in there
    /\ w = "saving"    => j \in Edit /\ k \in there /\ s \in Row
    /\ w \in {"unused", "unlimited", "dropping"} => j \in DropTier

Placed == \A p \in Procs : At(pc[p], job[p], me[p], key[p], seen[p], There)

AccountsInv == TypeOK /\ Placed

\* A row of the table is told from no row.
LEMMA RowIsNotAbsent == \A row \in Row : row # Absent
BY DEF Row, Absent

\* The fields of each kind of request, which the proofs need with their types.
LEMMA JobFields ==
    /\ \A j \in Bootstrap : j.op = "bootstrap"
    /\ \A j \in SignUp \cup Bootstrap : /\ j.op \in {"signup", "bootstrap"}
                                        /\ j.username \in Names \cup Ids /\ j.email \in Emails
    /\ \A j \in Add : /\ j.op = "add" /\ j.username \in Names /\ j.email \in Emails
                      /\ j.super \in BOOLEAN /\ j.tier \in Tiers \cup {NoTier}
    /\ \A j \in SignUp : j.link \in Links \cup {NoLink}
    /\ \A j \in Update : /\ j.op = "update" /\ j.by \in Ids /\ j.username \in Names /\ j.email \in Emails
                         /\ j.link \in Links \cup {NoLink}
    /\ \A j \in Retier : j.op = "retier" /\ j.by \in Ids /\ j.tier \in Tiers
    /\ \A j \in Deactivate : j.op = "deactivate" /\ j.by \in Ids
    /\ \A j \in Erase : j.op = "erase" /\ j.by \in Ids
    /\ \A j \in Edit : /\ j.op = "edit" /\ j.id \in Ids /\ j.username \in Names /\ j.email \in Emails
                       /\ j.link \in Links \cup {NoLink}
                       /\ j.super \in BOOLEAN /\ j.tier \in Tiers \cup {NoTier}
    /\ \A j \in AdminErase : j.op = "adminErase" /\ j.id \in Ids
    /\ \A j \in DropTier : j.tier \in Tiers
BY DEF SignUp, Bootstrap, Add, Update, Retier, Deactivate, Erase, Edit, AdminErase, DropTier

-----------------------------------------------------------------------------
(* What a step does to the users: nothing, or one row is written that is   *)
(* either checked by the indexes and the foreign key or keeps what they    *)
(* look at.  No row is brought back.                                       *)

\* What a registration inserts is a row.
LEMMA NewRowIsRow ==
    ASSUME NEW j \in SignUp \cup Bootstrap \cup Add
    PROVE  NewRow(j) \in Row
<1>1. j.username \in Names \cup Ids /\ j.email \in Emails
  BY JobFields
<1>2. (j.op = "add" /\ j.super) \in BOOLEAN
  OBVIOUS
<1>3. (IF j.op = "add" THEN j.tier ELSE NoTier) \in Tiers \cup {NoTier}
  <2>1. CASE j \in Add
    BY <2>1, JobFields
  <2>2. CASE j \in SignUp \cup Bootstrap
    BY <2>2, JobFields
  <2>. QED
    BY <2>1, <2>2
<1>4. (IF j.op = "signup" THEN j.link ELSE NoLink) \in Links \cup {NoLink}
  <2>1. CASE j \in SignUp
    BY <2>1, JobFields
  <2>2. CASE j \in Bootstrap \cup Add
    BY <2>2, JobFields
  <2>. QED
    BY <2>1, <2>2
<1>. QED
  BY <1>1, <1>2, <1>3, <1>4 DEF NewRow, Row

\* What the UPDATE of a request writes.
LEMMA WrittenRow ==
    ASSUME AccountsInv, NEW p \in Procs, pc[p] = "writing"
    PROVE  /\ key[p] \in Ids /\ Exists(key[p]) /\ users[key[p]] \in Row /\ Written(p) \in Row
           /\ users[key[p]].deleted => Written(p).deleted
           /\ ~users[key[p]].password => ~Written(p).password
<1>. DEFINE row == users[key[p]]
            j   == job[p]
<1>1. key[p] \in Ids /\ Exists(key[p]) /\ row \in Row /\ j \in ByUser \cup AdminErase
  BY RowIsNotAbsent DEF AccountsInv, TypeOK, Placed, At, There, Exists
<1>2. CASE j \in Update
  <2>1. Written(p) = Updated(row, j)
    BY <1>2, JobFields DEF Written
  <2>. QED
    BY <1>1, <1>2, <2>1, JobFields DEF Updated, Row
<1>3. CASE j \in Retier
  <2>1. Written(p) = [row EXCEPT !.tier = j.tier]
    BY <1>3, JobFields DEF Written
  <2>. QED
    BY <1>1, <1>3, <2>1, JobFields DEF Row
<1>4. CASE j \in Deactivate
  <2>1. Written(p) = [row EXCEPT !.deleted = TRUE]
    BY <1>4, JobFields DEF Written
  <2>. QED
    BY <1>1, <2>1 DEF Row
<1>5. CASE j \in Erase \cup AdminErase
  <2>1. Written(p) = Erased(row, key[p])
    BY <1>5, JobFields DEF Written
  <2>. QED
    BY <1>1, <2>1 DEF Erased, Row
<1>. QED
  BY <1>1, <1>2, <1>3, <1>4, <1>5 DEF ByUser

\* What the form writes.
LEMMA MergedRow ==
    ASSUME NEW row \in Row, NEW old, NEW j \in Edit
    PROVE  /\ Merged(row, old, j) \in Row
           /\ Merged(row, old, j).deleted = row.deleted /\ Merged(row, old, j).password = row.password
<1>. DEFINE name  == IF j.username = old.username THEN row.username ELSE j.username
            email == IF j.email = old.email THEN row.email ELSE j.email
            link  == IF j.link = old.link THEN row.link ELSE j.link
            super == IF j.super = old.super THEN row.super ELSE j.super
            tier  == IF j.tier = old.tier THEN row.tier ELSE j.tier
<1>1. /\ name \in Names \cup Ids /\ email \in Emails /\ link \in Links \cup {NoLink}
      /\ super \in BOOLEAN /\ tier \in Tiers \cup {NoTier}
  BY JobFields DEF Row
<1>2. Merged(row, old, j) = [row EXCEPT !.username = name, !.email = email, !.link = link, !.super = super,
                                        !.tier = tier, !.personal = TRUE]
  BY DEF Merged, Row
<1>. HIDE DEF name, email, link, super, tier
<1>. QED
  BY <1>1, <1>2 DEF Row

OneRow ==
    \E i \in Ids, row \in Row :
        /\ users' = [users EXCEPT ![i] = row]
        /\ \/ Fits(row, i)
           \/ /\ Exists(i) /\ row.username = users[i].username /\ row.email = users[i].email
              /\ row.link = users[i].link /\ row.tier = users[i].tier
        /\ Exists(i) => /\ users[i].deleted => row.deleted
                        /\ ~users[i].password => ~row.password
        /\ tiers' = tiers /\ limited' = limited

\* Every step leaves the accounts alone or writes one row of them.
LEMMA RowsMove ==
    ASSUME AccountsInv, [Next]_vars
    PROVE  UNCHANGED users \/ OneRow
<1>1. ASSUME NEW p \in Procs, NEW i \in Ids, Insert(p, i) PROVE UNCHANGED users \/ OneRow
  <2>1. NewRow(job[p]) \in Row
    BY <1>1, NewRowIsRow DEF AccountsInv, Placed, At, Insert
  <2>2. ~Exists(i) /\ tiers' = tiers /\ limited' = limited
    BY <1>1 DEF Insert
  <2>3. UNCHANGED users \/ (users' = [users EXCEPT ![i] = NewRow(job[p])] /\ Fits(NewRow(job[p]), i))
    BY <1>1 DEF Insert
  <2>. QED
    BY <2>1, <2>2, <2>3 DEF OneRow
<1>2. ASSUME NEW p \in Procs, Promote(p) PROVE OneRow
  <2>1. key[p] \in Ids /\ Exists(key[p]) /\ users[key[p]] \in Row
    BY <1>2, RowIsNotAbsent DEF AccountsInv, TypeOK, Placed, At, There, Exists, Promote
  <2>. DEFINE row == [users[key[p]] EXCEPT !.super = TRUE]
  <2>2. /\ row \in Row /\ row.username = users[key[p]].username /\ row.email = users[key[p]].email
        /\ row.link = users[key[p]].link /\ row.tier = users[key[p]].tier
        /\ row.deleted = users[key[p]].deleted /\ row.password = users[key[p]].password
    BY <2>1 DEF Row
  <2>3. users' = [users EXCEPT ![key[p]] = row] /\ tiers' = tiers /\ limited' = limited
    BY <1>2 DEF Promote
  <2>. HIDE DEF row
  <2>. QED
    BY <2>1, <2>2, <2>3 DEF OneRow
<1>3. ASSUME NEW p \in Procs, Write(p) PROVE UNCHANGED users \/ OneRow
  <2>1. /\ key[p] \in Ids /\ Written(p) \in Row
        /\ users[key[p]].deleted => Written(p).deleted
        /\ ~users[key[p]].password => ~Written(p).password
    BY <1>3, WrittenRow DEF Write
  <2>2. tiers' = tiers /\ limited' = limited
    BY <1>3 DEF Write
  <2>3. UNCHANGED users \/ (users' = [users EXCEPT ![key[p]] = Written(p)] /\ Fits(Written(p), key[p]))
    BY <1>3 DEF Write
  <2>. QED
    BY <2>1, <2>2, <2>3 DEF OneRow
<1>4. ASSUME NEW p \in Procs, SaveUser(p) PROVE UNCHANGED users \/ OneRow
  <2>. DEFINE row == Merged(users[key[p]], seen[p], job[p])
  <2>1. key[p] \in Ids /\ Exists(key[p]) /\ users[key[p]] \in Row /\ job[p] \in Edit
    BY <1>4, RowIsNotAbsent DEF AccountsInv, TypeOK, Placed, At, There, Exists, SaveUser
  <2>2. row \in Row /\ row.deleted = users[key[p]].deleted /\ row.password = users[key[p]].password
    BY <2>1, MergedRow
  <2>3. tiers' = tiers /\ limited' = limited
    BY <1>4 DEF SaveUser
  <2>4. UNCHANGED users \/ (users' = [users EXCEPT ![key[p]] = row] /\ Fits(row, key[p]))
    BY <1>4 DEF SaveUser
  <2>. HIDE DEF row
  <2>. QED
    BY <2>1, <2>2, <2>3, <2>4 DEF OneRow
<1>. QED
  BY <1>1, <1>2, <1>3, <1>4
     DEF Next, Register, LookForAdmin, Listed, CheckEmail, CheckName, Authenticate, Find, Read, CheckTier,
         AddUser, OpenUser, EraseUser, StartDrop, CheckUsers, CheckLimits, Drop, Crash, DeleteLimits, Begin, tables, vars
-----------------------------------------------------------------------------
(* Types and places *)

\* A step that writes one row keeps the types and removes none.
LEMMA RowsTyped ==
    ASSUME users \in [Ids -> Row \cup {Absent}], UNCHANGED users \/ OneRow
    PROVE  /\ users' \in [Ids -> Row \cup {Absent}]
           /\ \A i \in Ids : Exists(i) => Exists(i)'
           /\ There \subseteq There'
<1>1. users' \in [Ids -> Row \cup {Absent}] /\ \A i \in Ids : users[i] # Absent => users'[i] # Absent
  <2>1. CASE UNCHANGED users
    BY <2>1
  <2>2. CASE OneRow
    <3>1. PICK i \in Ids, row \in Row : users' = [users EXCEPT ![i] = row]
      BY <2>2 DEF OneRow
    <3>. QED
      BY <3>1, RowIsNotAbsent
  <2>. QED
    BY <2>1, <2>2
<1>. QED
  BY <1>1 DEF Exists, There

\* A request that moves alone leaves the places of the others as they are.
LEMMA Moved ==
    ASSUME AccountsInv, UNCHANGED users \/ OneRow, tiers' \subseteq Tiers, limited' \subseteq Tiers,
           NEW p \in Procs, NEW w \in Places, NEW j \in Job \cup {Absent}, NEW m \in Me \cup {Absent},
           NEW k \in Ids \cup {NoId}, NEW s \in Row \cup {Absent},
           pc' = [pc EXCEPT ![p] = w], job' = [job EXCEPT ![p] = j], me' = [me EXCEPT ![p] = m],
           key' = [key EXCEPT ![p] = k], seen' = [seen EXCEPT ![p] = s],
           At(w, j, m, k, s, There')
    PROVE  AccountsInv'
<1>1. users' \in [Ids -> Row \cup {Absent}] /\ There \subseteq There'
  BY RowsTyped DEF AccountsInv, TypeOK
<1>2. TypeOK'
  BY <1>1 DEF AccountsInv, TypeOK, Places
<1>3. ASSUME NEW q \in Procs PROVE At(pc'[q], job'[q], me'[q], key'[q], seen'[q], There')
  <2>1. CASE q = p
    BY <2>1 DEF AccountsInv, TypeOK
  <2>2. CASE q # p
    <3>1. pc'[q] = pc[q] /\ job'[q] = job[q] /\ me'[q] = me[q] /\ key'[q] = key[q] /\ seen'[q] = seen[q]
      BY <2>2 DEF AccountsInv, TypeOK
    <3>2. At(pc[q], job[q], me[q], key[q], seen[q], There)
      BY DEF AccountsInv, Placed
    <3>. QED
      BY <3>1, <3>2, <1>1 DEF At
  <2>. QED
    BY <2>1, <2>2
<1>4. Placed'
  BY <1>3 DEF Placed
<1>. QED
  BY <1>2, <1>4 DEF AccountsInv

\* A request that only goes on keeps the invariant, if it satisfies that of its next place.
LEMMA Went ==
    ASSUME AccountsInv, UNCHANGED users \/ OneRow, tiers' \subseteq Tiers, limited' \subseteq Tiers,
           NEW p \in Procs, NEW w \in Places, Goto(p, w),
           w \in Over \cup {"listed"} \/ At(w, job[p], me[p], key[p], seen[p], There)
    PROVE  AccountsInv'
<1>1. There \subseteq There'
  BY RowsTyped DEF AccountsInv, TypeOK
<1>2. /\ pc \in [Procs -> Places] /\ job \in [Procs -> Job \cup {Absent}] /\ me \in [Procs -> Me \cup {Absent}]
      /\ key \in [Procs -> Ids \cup {NoId}] /\ seen \in [Procs -> Row \cup {Absent}]
  BY DEF AccountsInv, TypeOK, Places
<1>3. CASE w \in Over
  <2>1. At(w, Absent, Absent, NoId, Absent, There')
    BY <1>3 DEF At, Over
  <2>2. /\ pc' = [pc EXCEPT ![p] = w] /\ job' = [job EXCEPT ![p] = Absent] /\ me' = [me EXCEPT ![p] = Absent]
        /\ key' = [key EXCEPT ![p] = NoId] /\ seen' = [seen EXCEPT ![p] = Absent]
    BY <1>3 DEF Goto
  <2>. QED
    BY <2>1, <2>2, Moved
<1>4. CASE w \notin Over
  <2>1. /\ pc' = [pc EXCEPT ![p] = w] /\ job' = [job EXCEPT ![p] = job[p]] /\ me' = [me EXCEPT ![p] = me[p]]
        /\ key' = [key EXCEPT ![p] = key[p]] /\ seen' = [seen EXCEPT ![p] = seen[p]]
    BY <1>2, <1>4 DEF Goto
  <2>2. At(w, job[p], me[p], key[p], seen[p], There')
    BY <1>1, <1>4 DEF At
  <2>. QED
    BY <1>2, <2>1, <2>2, Moved
<1>. QED
  BY <1>3, <1>4

\* No step makes a tier up.
LEMMA TiersTyped ==
    ASSUME AccountsInv, [Next]_vars
    PROVE  tiers' \subseteq Tiers /\ limited' \subseteq Tiers
<1>1. tiers \subseteq Tiers /\ limited \subseteq Tiers
  BY DEF AccountsInv, TypeOK
<1>. QED
  BY <1>1 DEF Next, Register, LookForAdmin, Listed, CheckEmail, CheckName, Insert, Promote, Authenticate, Find, Read,
              CheckTier, Write, AddUser, OpenUser, SaveUser, EraseUser, StartDrop, CheckUsers, CheckLimits, Drop,
              Crash, DeleteLimits, tables, vars

\* A request that begins has nothing yet but what it was asked.
LEMMA Began ==
    ASSUME AccountsInv, UNCHANGED users \/ OneRow, tiers' \subseteq Tiers, limited' \subseteq Tiers,
           NEW p \in Procs, NEW j \in Job, NEW w \in {"listed", "emailing", "inserting", "unused"}, Begin(p, j, w),
           w = "emailing" => j \in SignUp \cup Bootstrap,
           w = "inserting" => j \in Add,
           w = "unused" => j \in DropTier
    PROVE  AccountsInv'
<1>1. me[p] \in Me \cup {Absent} /\ key[p] \in Ids \cup {NoId} /\ seen[p] \in Row \cup {Absent}
  BY DEF AccountsInv, TypeOK
<1>2. /\ pc' = [pc EXCEPT ![p] = w] /\ job' = [job EXCEPT ![p] = j] /\ me' = [me EXCEPT ![p] = me[p]]
      /\ key' = [key EXCEPT ![p] = key[p]] /\ seen' = [seen EXCEPT ![p] = seen[p]]
  BY DEF Begin, AccountsInv, TypeOK
<1>3. At(w, j, me[p], key[p], seen[p], There') /\ w \in Places
  BY DEF At, Places
<1>. QED
  BY <1>1, <1>2, <1>3, Moved

\* The invariant holds at the start.
LEMMA AccountsStart == Init => AccountsInv
<1>. SUFFICES ASSUME Init PROVE AccountsInv
  OBVIOUS
<1>1. PICK i \in Ids, name \in Names, email \in Emails, t \in Tiers \cup {NoTier} :
        users = [k \in Ids |->
           IF k = i THEN NewRow([op |-> "add", username |-> name, email |-> email, super |-> TRUE, tier |-> t])
           ELSE Absent]
  BY DEF Init
<1>2. [op |-> "add", username |-> name, email |-> email, super |-> TRUE, tier |-> t] \in Add
  BY DEF Add
<1>3. users \in [Ids -> Row \cup {Absent}]
  <2>. DEFINE row == NewRow([op |-> "add", username |-> name, email |-> email, super |-> TRUE, tier |-> t])
  <2>1. row \in Row
    BY <1>2, NewRowIsRow
  <2>2. users = [k \in Ids |-> IF k = i THEN row ELSE Absent]
    BY <1>1
  <2>. HIDE DEF row
  <2>. QED
    BY <2>1, <2>2
<1>4. tiers \subseteq Tiers /\ limited \subseteq Tiers
  BY DEF Init
<1>5. /\ pc = [p \in Procs |-> "new"] /\ job = [p \in Procs |-> Absent] /\ me = [p \in Procs |-> Absent]
      /\ key = [p \in Procs |-> NoId] /\ seen = [p \in Procs |-> Absent]
  BY DEF Init
<1>6. TypeOK
  BY <1>3, <1>4, <1>5 DEF TypeOK
<1>7. Placed
  BY <1>5 DEF Placed, At
<1>. QED
  BY <1>6, <1>7 DEF AccountsInv

\* Every step keeps the invariant.
LEMMA AccountsKept ==
    ASSUME AccountsInv, [Next]_vars
    PROVE  AccountsInv'
<1>1. /\ UNCHANGED users \/ OneRow
      /\ tiers' \subseteq Tiers /\ limited' \subseteq Tiers
  BY RowsMove, TiersTyped
<1>2. There \subseteq There' /\ users \in [Ids -> Row \cup {Absent}]
  BY <1>1, RowsTyped DEF AccountsInv, TypeOK
<1>3. \A p \in Procs : /\ At(pc[p], job[p], me[p], key[p], seen[p], There)
                       /\ job[p] \in Job \cup {Absent} /\ me[p] \in Me \cup {Absent}
                       /\ key[p] \in Ids \cup {NoId} /\ seen[p] \in Row \cup {Absent}
  BY DEF AccountsInv, Placed, TypeOK
\* What a request keeps, it is assigned anew.
<1>4. \A p \in Procs : /\ UNCHANGED job  => job' = [job EXCEPT ![p] = job[p]]
                       /\ UNCHANGED me   => me' = [me EXCEPT ![p] = me[p]]
                       /\ UNCHANGED key  => key' = [key EXCEPT ![p] = key[p]]
                       /\ UNCHANGED seen => seen' = [seen EXCEPT ![p] = seen[p]]
  BY DEF AccountsInv, TypeOK
<1>5. ASSUME NEW p \in Procs, NEW j \in SignUp, Register(p, j) PROVE AccountsInv'
  BY <1>1, <1>5, Began DEF Register, Job
<1>6. ASSUME NEW p \in Procs, NEW j \in Bootstrap, LookForAdmin(p, j) PROVE AccountsInv'
  <2>1. Begin(p, j, "listed") \/ Begin(p, j, "emailing")
    BY <1>6 DEF LookForAdmin
  <2>. QED
    BY <1>1, <2>1, Began DEF Job
<1>7. ASSUME NEW p \in Procs, Listed(p) PROVE AccountsInv'
  BY <1>1, <1>7, Went DEF Listed, Places, Over
<1>8. ASSUME NEW p \in Procs, CheckEmail(p) PROVE AccountsInv'
  <2>1. Goto(p, "refused") \/ Goto(p, "naming")
    BY <1>8 DEF CheckEmail
  <2>2. At("naming", job[p], me[p], key[p], seen[p], There)
    BY <1>3, <1>8 DEF At, CheckEmail
  <2>. QED
    BY <1>1, <2>1, <2>2, Went DEF Places, Over
<1>9. ASSUME NEW p \in Procs, CheckName(p) PROVE AccountsInv'
  <2>1. \/ Goto(p, "refused")
        \/ job[p].op = "update" /\ Goto(p, "writing")
        \/ job[p].op # "update" /\ Goto(p, "inserting")
    BY <1>9 DEF CheckName
  <2>2. job[p] \in SignUp \cup Bootstrap \/ (job[p] \in Update /\ key[p] \in There)
    BY <1>3, <1>9 DEF At, CheckName
  <2>3. job[p].op = "update" => At("writing", job[p], me[p], key[p], seen[p], There)
    BY <2>2, JobFields DEF At, ByUser
  <2>4. job[p].op # "update" => At("inserting", job[p], me[p], key[p], seen[p], There)
    BY <2>2, JobFields DEF At
  <2>. QED
    BY <1>1, <2>1, <2>3, <2>4, Went DEF Places, Over
<1>10. ASSUME NEW p \in Procs, NEW i \in Ids, Insert(p, i) PROVE AccountsInv'
  <2>1. CASE \E w \in Over : Goto(p, w)
    BY <1>1, <2>1, Went DEF Places
  <2>2. CASE ~\E w \in Over : Goto(p, w)
    <3>1. /\ users' = [users EXCEPT ![i] = NewRow(job[p])]
          /\ pc' = [pc EXCEPT ![p] = "promoting"] /\ key' = [key EXCEPT ![p] = i] /\ UNCHANGED <<job, me, seen>>
      BY <1>10, <2>2 DEF Insert, Over
    <3>2. NewRow(job[p]) \in Row
      BY <1>3, <1>10, NewRowIsRow DEF Insert, At
    <3>3. i \in There'
      BY <1>2, <3>1, <3>2, RowIsNotAbsent DEF There, Exists
    <3>4. At("promoting", job[p], me[p], i, seen[p], There') /\ "promoting" \in Places
      BY <3>3 DEF At, Places
    <3>5. /\ job' = [job EXCEPT ![p] = job[p]] /\ me' = [me EXCEPT ![p] = me[p]] /\ seen' = [seen EXCEPT ![p] = seen[p]]
          /\ pc' = [pc EXCEPT ![p] = "promoting"] /\ key' = [key EXCEPT ![p] = i]
          /\ job[p] \in Job \cup {Absent} /\ me[p] \in Me \cup {Absent} /\ seen[p] \in Row \cup {Absent}
          /\ i \in Ids \cup {NoId}
      BY <1>3, <1>4, <3>1
    <3>. QED
      BY <1>1, <3>4, <3>5, Moved
  <2>. QED
    BY <2>1, <2>2
<1>11. ASSUME NEW p \in Procs, Promote(p) \/ Write(p) \/ SaveUser(p) PROVE AccountsInv'
  <2>1. Goto(p, "done") \/ Goto(p, "error")
    BY <1>11 DEF Promote, Write, SaveUser
  <2>. QED
    BY <1>1, <2>1, Went DEF Places, Over
<1>12. ASSUME NEW p \in Procs, NEW j \in ByUser, Authenticate(p, j) PROVE AccountsInv'
  <2>1. CASE Goto(p, "refused")
    BY <1>1, <2>1, Went DEF Places, Over
  <2>2. CASE ~Goto(p, "refused")
    <3>. DEFINE m == [username |-> users[j.by].username, super |-> users[j.by].super]
    <3>1. /\ Exists(j.by)
          /\ pc' = [pc EXCEPT ![p] = "finding"] /\ job' = [job EXCEPT ![p] = j] /\ me' = [me EXCEPT ![p] = m]
          /\ UNCHANGED <<key, seen>>
      BY <1>12, <2>2 DEF Authenticate
    <3>2. j.by \in Ids
      BY JobFields DEF ByUser
    <3>3. users[j.by] \in Row
      BY <1>2, <3>1, <3>2 DEF Exists
    <3>4. m \in Me /\ m \in Me \cup {Absent}
      BY <3>3 DEF Me, Row
    <3>. HIDE DEF m
    <3>5. At("finding", j, m, key[p], seen[p], There') /\ "finding" \in Places /\ j \in Job \cup {Absent}
      BY <3>4 DEF At, Places, Job
    <3>6. key' = [key EXCEPT ![p] = key[p]] /\ seen' = [seen EXCEPT ![p] = seen[p]]
      BY <1>4, <3>1
    <3>. QED
      BY <1>1, <1>3, <3>1, <3>4, <3>5, <3>6, Moved
  <2>. QED
    BY <2>1, <2>2
<1>13. ASSUME NEW p \in Procs, Find(p) PROVE AccountsInv'
  <2>1. CASE Goto(p, "refused")
    BY <1>1, <2>1, Went DEF Places, Over
  <2>2. CASE ~Goto(p, "refused")
    <3>1. PICK i \in Found(p) :
            /\ key' = [key EXCEPT ![p] = i]
            /\ pc' = [pc EXCEPT ![p] = IF job[p].op \in {"update", "retier"} THEN "reading" ELSE "writing"]
            /\ UNCHANGED <<job, me, seen>>
      BY <1>13, <2>2 DEF Find
    <3>2. i \in There /\ i \in There'
      BY <1>2 DEF Found, There
    <3>6. job' = [job EXCEPT ![p] = job[p]] /\ me' = [me EXCEPT ![p] = me[p]] /\ seen' = [seen EXCEPT ![p] = seen[p]]
      BY <1>4, <3>1
    <3>7. i \in Ids \cup {NoId} /\ key' = [key EXCEPT ![p] = i]
      BY <3>1, <3>2 DEF There
    <3>3. job[p] \in ByUser
      BY <1>3, <1>13 DEF At, Find
    <3>4. CASE job[p].op \in {"update", "retier"}
      <4>1. At("reading", job[p], me[p], i, seen[p], There') /\ "reading" \in Places
        BY <3>2, <3>3, <3>4, JobFields DEF At, Places, ByUser
      <4>2. pc' = [pc EXCEPT ![p] = "reading"]
        BY <3>1, <3>4
      <4>. QED
        BY <1>1, <1>3, <3>6, <3>7, <4>1, <4>2, Moved
    <3>5. CASE job[p].op \notin {"update", "retier"}
      <4>1. At("writing", job[p], me[p], i, seen[p], There') /\ "writing" \in Places
        BY <3>2, <3>3 DEF At, Places
      <4>2. pc' = [pc EXCEPT ![p] = "writing"]
        BY <3>1, <3>5
      <4>. QED
        BY <1>1, <1>3, <3>6, <3>7, <4>1, <4>2, Moved
    <3>. QED
      BY <3>4, <3>5
  <2>. QED
    BY <2>1, <2>2
<1>14. ASSUME NEW p \in Procs, Read(p) PROVE AccountsInv'
  <2>1. CASE Goto(p, "refused")
    BY <1>1, <2>1, Went DEF Places, Over
  <2>2. CASE ~Goto(p, "refused")
    <3>1. /\ seen' = [seen EXCEPT ![p] = users[key[p]]]
          /\ pc' = [pc EXCEPT ![p] = IF job[p].op = "update" THEN "emailing" ELSE "tiering"]
          /\ UNCHANGED <<job, me, key>>
      BY <1>14, <2>2 DEF Read
    <3>2. job[p] \in Update \cup Retier /\ key[p] \in There /\ key[p] \in There'
      BY <1>2, <1>3, <1>14 DEF At, Read
    <3>3. users[key[p]] \in Row /\ users[key[p]] \in Row \cup {Absent}
      BY <1>2, <3>2 DEF There, Exists
    <3>6. /\ job' = [job EXCEPT ![p] = job[p]] /\ me' = [me EXCEPT ![p] = me[p]] /\ key' = [key EXCEPT ![p] = key[p]]
          /\ seen' = [seen EXCEPT ![p] = users[key[p]]]
          /\ job[p] \in Job \cup {Absent} /\ me[p] \in Me \cup {Absent} /\ key[p] \in Ids \cup {NoId}
      BY <1>3, <1>4, <3>1
    <3>4. CASE job[p].op = "update"
      <4>1. At("emailing", job[p], me[p], key[p], users[key[p]], There') /\ "emailing" \in Places
        BY <3>2, <3>3, <3>4, JobFields DEF At, Places
      <4>2. pc' = [pc EXCEPT ![p] = "emailing"]
        BY <3>1, <3>4
      <4>. QED
        BY <1>1, <3>3, <3>6, <4>1, <4>2, Moved
    <3>5. CASE job[p].op # "update"
      <4>1. At("tiering", job[p], me[p], key[p], users[key[p]], There') /\ "tiering" \in Places
        BY <3>2, <3>3, <3>5, JobFields DEF At, Places
      <4>2. pc' = [pc EXCEPT ![p] = "tiering"]
        BY <3>1, <3>5
      <4>. QED
        BY <1>1, <3>3, <3>6, <4>1, <4>2, Moved
    <3>. QED
      BY <3>4, <3>5
  <2>. QED
    BY <2>1, <2>2
<1>15. ASSUME NEW p \in Procs, CheckTier(p) PROVE AccountsInv'
  <2>1. Goto(p, "refused") \/ Goto(p, "writing")
    BY <1>15 DEF CheckTier
  <2>2. At("writing", job[p], me[p], key[p], seen[p], There)
    BY <1>3, <1>15 DEF At, CheckTier, ByUser
  <2>. QED
    BY <1>1, <2>1, <2>2, Went DEF Places, Over
<1>16. ASSUME NEW p \in Procs, NEW j \in Add, AddUser(p, j) PROVE AccountsInv'
  BY <1>1, <1>16, Began DEF AddUser, Job
<1>17. ASSUME NEW p \in Procs, NEW j \in Edit, OpenUser(p, j) PROVE AccountsInv'
  <2>1. j.id \in There /\ j.id \in There' /\ users[j.id] \in Row /\ j \in Job \cup {Absent}
    BY <1>2, <1>17, JobFields DEF OpenUser, There, Exists, Job
  <2>2. At("saving", j, me[p], j.id, users[j.id], There') /\ "saving" \in Places
    BY <2>1 DEF At, Places
  <2>3. /\ pc' = [pc EXCEPT ![p] = "saving"] /\ job' = [job EXCEPT ![p] = j] /\ UNCHANGED me
        /\ key' = [key EXCEPT ![p] = j.id] /\ seen' = [seen EXCEPT ![p] = users[j.id]]
    BY <1>17 DEF OpenUser
  <2>4. /\ j.id \in Ids \cup {NoId} /\ users[j.id] \in Row \cup {Absent}
        /\ me' = [me EXCEPT ![p] = me[p]]
    BY <1>4, <2>1, <2>3 DEF There
  <2>. QED
    BY <1>1, <1>3, <2>1, <2>2, <2>3, <2>4, Moved
<1>18. ASSUME NEW p \in Procs, NEW j \in AdminErase, EraseUser(p, j) PROVE AccountsInv'
  <2>1. j.id \in There /\ j.id \in There' /\ j \in Job \cup {Absent}
    BY <1>2, <1>18, JobFields DEF EraseUser, There, Job
  <2>2. At("writing", j, me[p], j.id, seen[p], There') /\ "writing" \in Places
    BY <2>1 DEF At, Places
  <2>3. /\ pc' = [pc EXCEPT ![p] = "writing"] /\ job' = [job EXCEPT ![p] = j] /\ UNCHANGED <<me, seen>>
        /\ key' = [key EXCEPT ![p] = j.id]
    BY <1>18 DEF EraseUser
  <2>4. /\ me' = [me EXCEPT ![p] = me[p]] /\ seen' = [seen EXCEPT ![p] = seen[p]]
        /\ me[p] \in Me \cup {Absent} /\ seen[p] \in Row \cup {Absent} /\ j.id \in Ids \cup {NoId}
    BY <1>3, <1>4, <2>1, <2>3 DEF There
  <2>. QED
    BY <1>1, <2>1, <2>2, <2>3, <2>4, Moved
<1>19. ASSUME NEW p \in Procs, NEW j \in DropTier, StartDrop(p, j) PROVE AccountsInv'
  <2>1. Begin(p, j, "unused") \/ Begin(p, j, "listed")
    BY <1>19 DEF StartDrop
  <2>. QED
    BY <1>1, <2>1, Began DEF Job
<1>20. ASSUME NEW p \in Procs, CheckUsers(p) \/ CheckLimits(p) \/ Drop(p) \/ Crash(p) PROVE AccountsInv'
  <2>1. \/ \E w \in Over : Goto(p, w)
        \/ pc[p] = "unused" /\ Goto(p, "unlimited")
        \/ pc[p] = "unlimited" /\ Goto(p, "dropping")
    BY <1>20 DEF CheckUsers, CheckLimits, Drop, Crash, Over
  <2>2. pc[p] \in {"unused", "unlimited"} =>
            /\ At("unlimited", job[p], me[p], key[p], seen[p], There)
            /\ At("dropping", job[p], me[p], key[p], seen[p], There)
    BY <1>3 DEF At
  <2>. QED
    BY <1>1, <2>1, <2>2, Went DEF Places
<1>21. ASSUME UNCHANGED <<users, pc, job, me, key, seen>> PROVE AccountsInv'
  BY <1>1, <1>21 DEF AccountsInv, TypeOK, Placed, At, There, Exists
<1>. QED
  BY <1>5, <1>6, <1>7, <1>8, <1>9, <1>10, <1>11, <1>12, <1>13, <1>14, <1>15, <1>16, <1>17, <1>18, <1>19, <1>20, <1>21
     DEF Next, DeleteLimits, vars

-----------------------------------------------------------------------------
(* The theorems *)

\* The tables, the requests and their places keep their types.
THEOREM AccountsTypes == Spec => []TypeOK
<1>1. AccountsInv /\ [Next]_vars => AccountsInv'
  BY AccountsKept
<1>2. AccountsInv => TypeOK
  BY DEF AccountsInv
<1>. QED
  BY <1>1, <1>2, AccountsStart, PTL DEF Spec

\* The invariant of the proofs holds in every reachable state.
LEMMA AccountsAlways == Spec => []AccountsInv
<1>1. AccountsInv /\ [Next]_vars => AccountsInv'
  BY AccountsKept
<1>. QED
  BY <1>1, AccountsStart, PTL DEF Spec

\* However many registrations and changes pass their checks at once, the indexes
\* let no two accounts share a user name, an address or an identity at a provider.
THEOREM PeopleStayUnique == Spec => []PeopleAreUnique
<1>1. Init => PeopleAreUnique
  BY DEF Init, PeopleAreUnique, Exists
<1>2. ASSUME AccountsInv, PeopleAreUnique, [Next]_vars PROVE PeopleAreUnique'
  <2>1. users \in [Ids -> Row \cup {Absent}]
    BY <1>2 DEF AccountsInv, TypeOK
  <2>2. CASE UNCHANGED users
    BY <1>2, <2>2 DEF PeopleAreUnique, Exists
  <2>3. CASE OneRow
    <3>1. PICK i \in Ids, row \in Row :
            /\ users' = [users EXCEPT ![i] = row]
            /\ \/ Fits(row, i)
               \/ /\ Exists(i) /\ row.username = users[i].username /\ row.email = users[i].email
                  /\ row.link = users[i].link
      BY <2>3 DEF OneRow
    <3>2. \A k \in Ids \ {i} : Exists(k) => /\ users[k].username # row.username /\ users[k].email # row.email
                                            /\ users[k].link = row.link => row.link = NoLink
      BY <1>2, <3>1 DEF Fits, TakenName, TakenEmail, TakenLink, PeopleAreUnique
    <3>. QED
      BY <1>2, <2>1, <3>1, <3>2 DEF PeopleAreUnique, Exists
  <2>. QED
    BY <1>2, <2>2, <2>3, RowsMove
<1>. QED
  BY <1>1, <1>2, AccountsAlways, PTL DEF Spec

\* A tier in use is not removed, whatever is assigned while its removal is checked.
THEOREM TiersAlwaysHold == Spec => []TiersHold
<1>1. Init => TiersHold
  BY DEF Init, TiersHold, Exists, NewRow
<1>2. ASSUME AccountsInv, TiersHold, [Next]_vars PROVE TiersHold'
  <2>1. users \in [Ids -> Row \cup {Absent}]
    BY <1>2 DEF AccountsInv, TypeOK
  <2>2. CASE OneRow
    <3>1. PICK i \in Ids, row \in Row :
            /\ users' = [users EXCEPT ![i] = row]
            /\ Fits(row, i) \/ (Exists(i) /\ row.tier = users[i].tier)
            /\ tiers' = tiers /\ limited' = limited
      BY <2>2 DEF OneRow
    <3>2. row.tier \in tiers \cup {NoTier}
      BY <1>2, <3>1 DEF Fits, TiersHold
    <3>. QED
      BY <1>2, <2>1, <3>1, <3>2 DEF TiersHold, Exists
  <2>3. CASE UNCHANGED users
    <3>1. \/ tiers' = tiers /\ limited' \subseteq limited
          \/ \E p \in Procs : Drop(p)
      BY <1>2 DEF Next, Register, LookForAdmin, Listed, CheckEmail, CheckName, Insert, Promote, Authenticate, Find, Read,
                  CheckTier, Write, AddUser, OpenUser, SaveUser, EraseUser, StartDrop, CheckUsers, CheckLimits,
                  Crash, DeleteLimits, tables, vars
    <3>2. ASSUME NEW p \in Procs, Drop(p) PROVE TiersHold'
      BY <1>2, <2>3, <3>2 DEF Drop, TiersHold, Exists
    <3>. QED
      BY <1>2, <2>3, <3>1, <3>2 DEF TiersHold, Exists
  <2>. QED
    BY <1>2, <2>2, <2>3, RowsMove
<1>. QED
  BY <1>1, <1>2, AccountsAlways, PTL DEF Spec

\* No step of any request brings back a deleted account or the password of an
\* anonymized one, however late it lands.
THEOREM GoneIsForever == Spec => GoneStaysGone
<1>1. ASSUME AccountsInv, [Next]_vars, NEW i \in Ids, Exists(i)
      PROVE  /\ Exists(i)'
             /\ users[i].deleted => users'[i].deleted
             /\ ~users[i].password => ~users'[i].password
  <2>1. users \in [Ids -> Row \cup {Absent}]
    BY <1>1 DEF AccountsInv, TypeOK
  <2>2. CASE UNCHANGED users
    BY <1>1, <2>2 DEF Exists
  <2>3. CASE OneRow
    <3>1. PICK k \in Ids, row \in Row :
            /\ users' = [users EXCEPT ![k] = row]
            /\ Exists(k) => (users[k].deleted => row.deleted) /\ (~users[k].password => ~row.password)
      BY <2>3 DEF OneRow
    <3>. QED
      BY <1>1, <2>1, <3>1, RowIsNotAbsent DEF Exists
  <2>. QED
    BY <1>1, <2>2, <2>3, RowsMove
<1>2. AccountsInv /\ [Next]_vars =>
        [\A i \in Ids : Exists(i) =>
            /\ Exists(i)'
            /\ users[i].deleted => users'[i].deleted
            /\ ~users[i].password => ~users'[i].password]_vars
  BY <1>1
<1>. QED
  BY <1>2, AccountsAlways, PTL DEF Spec, GoneStaysGone
=============================================================================
