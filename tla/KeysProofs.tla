----------------------------- MODULE KeysProofs -----------------------------
(***************************************************************************)
(* Proofs about the API keys, for any number of keys, users, names and     *)
(* requests, and any permission tables to begin with.                      *)
(***************************************************************************)
EXTENDS ApiKeys, TLAPS

Places == Validating \cup Over \cup {"new", "creating", "checking", "updating", "naming", "minting", "granting"}

\* What a place needs: the key of the request is there, and so is what it was asked.
Placed ==
    \A p \in Procs :
        /\ pc[p] \in Validating => key[p] \in Keys /\ Exists(key[p])
        /\ pc[p] \in {"creating"} => job[p] \in Create
        /\ pc[p] \in {"naming", "minting", "granting"} => job[p] \in Issue
        /\ pc[p] = "granting" => key[p] \in Keys /\ Exists(key[p])
        /\ pc[p] = "checking" => job[p] \in Update \cup Delete /\ key[p] \in Keys
        /\ pc[p] = "updating" => /\ job[p] \in Update \cup Delete /\ key[p] \in Keys
                                 /\ Exists(key[p]) /\ rows[key[p]].owner = job[p].user

KeysInv == TypeOK /\ Placed

\* A row of the table is told from no row.
LEMMA RowIsNotAbsent == \A row \in Row : row # Absent
BY DEF Row, Absent

\* The fields of each kind of request, which the proofs need with their types.
LEMMA JobFields ==
    /\ \A j \in Create \cup Issue : j.user \in Users /\ j.name \in Names /\ j.expires \in {"never", "later", "past"}
    /\ \A j \in Update \cup Delete : /\ j.user \in Users /\ j.name \in Names /\ j.active \in BOOLEAN
                                     /\ j.expires \in {"never", "later", "past"} /\ j.op \in {"update", "delete"}
    /\ \A j \in Create : j.op = "create"
    /\ \A j \in Issue : j.op = "issue"
BY DEF Create, Issue, Update, Delete

\* A row that was there is there after a step, with the same owner.
LEMMA RowsStay ==
    ASSUME KeysInv, NEW k \in Keys, Exists(k), [Next]_vars
    PROVE  Exists(k)' /\ rows'[k].owner = rows[k].owner
<1>1. rows[k] \in Row /\ DOMAIN rows = Keys
  BY DEF KeysInv, TypeOK, Exists
<1>2. ASSUME NEW p \in Procs, NEW l \in Keys, Insert(p, l) PROVE rows'[k] = rows[k]
  BY <1>1, <1>2 DEF Insert
<1>3. ASSUME NEW p \in Procs, UpdateKey(p) PROVE Exists(k)' /\ rows'[k].owner = rows[k].owner
  <2>1. key[p] \in Keys /\ rows[key[p]] \in Row
    BY <1>3 DEF KeysInv, TypeOK, Placed, UpdateKey, Exists
  <2>. DEFINE row == [rows[key[p]] EXCEPT
                        !.name = IF "name" \in job[p].given THEN job[p].name ELSE @,
                        !.active = IF "active" \in job[p].given THEN job[p].active ELSE @,
                        !.expires = IF "expires" \in job[p].given THEN job[p].expires ELSE @]
  <2>2. row.owner = rows[key[p]].owner
    BY <2>1 DEF Row
  <2>3. rows' = [rows EXCEPT ![key[p]] = row]
    BY <1>3, <1>1, <2>1 DEF UpdateKey, Row
  <2>4. rows'[k].owner = rows[k].owner
    BY <2>2, <2>3, <1>1
  <2>5. rows'[k] # Absent
    <3>1. CASE k = key[p]
      <4>1. row \in Row
        BY <2>1, <1>3, JobFields DEF Row, KeysInv, Placed, UpdateKey
      <4>2. rows'[k] = row
        BY <3>1, <2>3, <1>1
      <4>. QED
        BY <4>1, <4>2, RowIsNotAbsent
    <3>2. CASE k # key[p]
      BY <3>2, <2>3, <1>1, RowIsNotAbsent
    <3>. QED
      BY <3>1, <3>2
  <2>. QED
    BY <2>4, <2>5 DEF Exists
<1>4. ASSUME NEW l \in Keys, Expire(l) PROVE Exists(k)' /\ rows'[k].owner = rows[k].owner
  <2>1. rows[l] \in Row
    BY <1>4 DEF Expire, KeysInv, TypeOK, Exists
  <2>2. rows' = [rows EXCEPT ![l] = [rows[l] EXCEPT !.expires = "past"]]
    BY <1>4, <1>1 DEF Expire
  <2>3. [rows[l] EXCEPT !.expires = "past"] \in Row /\ [rows[l] EXCEPT !.expires = "past"].owner = rows[l].owner
    BY <2>1 DEF Row
  <2>. QED
    BY <1>1, <2>2, <2>3, RowIsNotAbsent DEF Exists
<1>5. CASE UNCHANGED rows
  BY <1>5 DEF Exists
<1>6. rows'[k] = rows[k] => Exists(k)' /\ rows'[k].owner = rows[k].owner
  BY DEF Exists
<1>. QED
  BY <1>2, <1>3, <1>4, <1>5, <1>6
     DEF Next, Step, PresentKey, Begin, FindKey, CheckOwner, QueryPermission, Touch, Ask, AskAbout, CreateKey,
         CheckAccess, CheckName, MintKey, Grant, Crash, DeleteOwner, vars

-----------------------------------------------------------------------------
(* Types and places.  Each move takes one request from one place to another. *)

\* The invariant holds at the start.
LEMMA KeysStart == Init => KeysInv
<1>. SUFFICES ASSUME Init PROVE KeysInv
  OBVIOUS
<1>0. NoPermission \in Permission
  BY DEF NoPermission, Permission
<1>1. rows \in [Keys -> Row \cup {Absent}] /\ perms \in [Keys -> Permission]
  <2>1. PICK S \in {{}} \cup {{k} : k \in Keys}, row \in Row, table \in Tables :
            /\ rows = [k \in Keys |-> IF k \in S THEN row ELSE Absent]
            /\ perms = [k \in Keys |-> IF k \in S THEN table ELSE NoPermission]
    BY DEF Init
  <2>2. table \in Permission
    BY KeysAssumption
  <2>. QED
    BY <2>1, <2>2, <1>0
<1>2. gone \subseteq Users /\ pc = [p \in Procs |-> "new"] /\ job \in [Procs -> Job \cup {Absent}]
  BY DEF Init
<1>3. key \in [Procs -> Keys \cup {NoKey}] /\ throughout = [p \in Procs |-> {}]
  BY DEF Init
<1>4. TypeOK
  BY <1>1, <1>2, <1>3 DEF TypeOK
<1>5. Placed
  BY <1>2 DEF Placed, Validating, Cells
<1>. QED
  BY <1>4, <1>5 DEF KeysInv

\* An update leaves a row.
LEMMA UpdatedRow ==
    ASSUME KeysInv, NEW p \in Procs, UpdateKey(p)
    PROVE  rows' \in [Keys -> Row \cup {Absent}]
<1>1. key[p] \in Keys /\ rows[key[p]] \in Row /\ rows \in [Keys -> Row \cup {Absent}]
  BY DEF KeysInv, TypeOK, Placed, UpdateKey, Exists
<1>. DEFINE row == [rows[key[p]] EXCEPT
                      !.name = IF "name" \in job[p].given THEN job[p].name ELSE @,
                        !.active = IF "active" \in job[p].given THEN job[p].active ELSE @,
                      !.expires = IF "expires" \in job[p].given THEN job[p].expires ELSE @]
<1>2. rows' = [rows EXCEPT ![key[p]] = row]
  BY <1>1 DEF UpdateKey, Row
<1>3. row \in Row
  BY <1>1, JobFields DEF Row, KeysInv, Placed, UpdateKey
<1>. HIDE DEF row
<1>. QED
  BY <1>1, <1>2, <1>3

\* The tables keep their types.
LEMMA TablesKept ==
    ASSUME KeysInv, [Next]_vars
    PROVE  rows' \in [Keys -> Row \cup {Absent}] /\ perms' \in [Keys -> Permission] /\ gone' \subseteq Users
<1>1. rows \in [Keys -> Row \cup {Absent}] /\ perms \in [Keys -> Permission] /\ gone \subseteq Users
  BY DEF KeysInv, TypeOK
<1>2. ASSUME NEW p \in Procs, NEW k \in Keys, Insert(p, k), job[p].user \in Users, job[p].name \in Names,
             job[p].expires \in {"never", "later", "past"}
      PROVE  rows' \in [Keys -> Row \cup {Absent}] /\ perms' = perms /\ gone' = gone
  BY <1>1, <1>2 DEF Insert, Row
<1>3. ASSUME NEW p \in Procs, NEW k \in Keys, CreateKey(p, k) \/ MintKey(p, k)
      PROVE  rows' \in [Keys -> Row \cup {Absent}] /\ perms' = perms /\ gone' = gone
  <2>1. job[p] \in Create \cup Issue /\ Insert(p, k)
    BY <1>3 DEF CreateKey, MintKey, KeysInv, Placed
  <2>. QED
    BY <2>1, <1>2, JobFields
<1>4. ASSUME NEW p \in Procs, UpdateKey(p)
      PROVE  rows' \in [Keys -> Row \cup {Absent}] /\ perms' = perms /\ gone' = gone
  BY <1>4, UpdatedRow DEF UpdateKey
<1>5. ASSUME NEW p \in Procs, Grant(p) PROVE rows' = rows /\ perms' \in [Keys -> Permission] /\ gone' = gone
  <2>1. perms[key[p]] \in Permission /\ key[p] \in Keys
    BY <1>1, <1>5 DEF Grant, KeysInv, Placed
  <2>2. perms' = [perms EXCEPT ![key[p]] = [perms[key[p]] EXCEPT !["exact"] = "allow"]]
    BY <1>5, <2>1, <1>1 DEF Grant, Permission
  <2>3. [perms[key[p]] EXCEPT !["exact"] = "allow"] \in Permission
    BY <2>1 DEF Permission
  <2>. QED
    BY <1>1, <1>5, <2>1, <2>2, <2>3 DEF Grant
<1>6. ASSUME NEW k \in Keys, Expire(k) PROVE rows' \in [Keys -> Row \cup {Absent}] /\ perms' = perms /\ gone' = gone
  <2>1. rows[k] \in Row
    BY <1>1, <1>6 DEF Expire, Exists
  <2>2. rows' = [rows EXCEPT ![k] = [rows[k] EXCEPT !.expires = "past"]]
    BY <1>1, <1>6 DEF Expire
  <2>3. [rows[k] EXCEPT !.expires = "past"] \in Row
    BY <2>1 DEF Row
  <2>. QED
    BY <1>1, <1>6, <2>2, <2>3 DEF Expire
<1>7. ASSUME NEW u \in Users, DeleteOwner(u) PROVE rows' = rows /\ perms' = perms /\ gone' \subseteq Users
  BY <1>1, <1>7 DEF DeleteOwner
<1>8. CASE UNCHANGED <<rows, perms, gone>>
  BY <1>1, <1>8
<1>. QED
  BY <1>1, <1>3, <1>4, <1>5, <1>6, <1>7, <1>8
     DEF Next, Step, PresentKey, Begin, FindKey, CheckOwner, QueryPermission, Touch, Ask, AskAbout,
         CheckAccess, CheckName, Crash, vars

\* Goto and Begin move one request and leave the others.
Moved(p) == \A q \in Procs : q # p => pc'[q] = pc[q] /\ job'[q] = job[q] /\ key'[q] = key[q]

\* A request that goes on moves nobody else.
LEMMA GotoMoves ==
    ASSUME TypeOK, NEW p \in Procs, NEW where \in Places, Goto(p, where)
    PROVE  /\ pc' \in [Procs -> Places] /\ pc'[p] = where
           /\ job' \in [Procs -> Job \cup {Absent}] /\ key' \in [Procs -> Keys \cup {NoKey}]
           /\ Moved(p)
           /\ where \notin Over => job'[p] = job[p] /\ key'[p] = key[p]
BY DEF Goto, TypeOK, Places, Moved

\* A request that begins moves nobody else.
LEMMA BeginMoves ==
    ASSUME TypeOK, NEW p \in Procs, NEW j \in Job, NEW k \in Keys \cup {NoKey}, NEW where \in Places,
           Begin(p, j, k, where)
    PROVE  /\ pc' \in [Procs -> Places] /\ pc'[p] = where
           /\ job' \in [Procs -> Job \cup {Absent}] /\ key' \in [Procs -> Keys \cup {NoKey}]
           /\ Moved(p)
           /\ job'[p] = j /\ key'[p] = k
           /\ UNCHANGED <<rows, perms, gone>>
BY DEF Begin, TypeOK, Places, Moved

\* The part of Placed that is about one request.
PlacedAt(p) ==
    /\ pc[p] \in Validating => key[p] \in Keys /\ Exists(key[p])
    /\ pc[p] \in {"creating"} => job[p] \in Create
    /\ pc[p] \in {"naming", "minting", "granting"} => job[p] \in Issue
    /\ pc[p] = "granting" => key[p] \in Keys /\ Exists(key[p])
    /\ pc[p] = "checking" => job[p] \in Update \cup Delete /\ key[p] \in Keys
    /\ pc[p] = "updating" => /\ job[p] \in Update \cup Delete /\ key[p] \in Keys
                             /\ Exists(key[p]) /\ rows[key[p]].owner = job[p].user

\* What the invariant says of one request.
LEMMA PlacedThere == ASSUME KeysInv, NEW p \in Procs PROVE PlacedAt(p)
BY DEF KeysInv, Placed, PlacedAt

\* Types of the requests after a step, and the place of the one that moved.
RequestsOf(p) ==
    /\ pc' \in [Procs -> Places] /\ job' \in [Procs -> Job \cup {Absent}]
    /\ key' \in [Procs -> Keys \cup {NoKey}]
    /\ Moved(p)
    /\ PlacedAt(p)'

\* Where the query for a cell leads.
LEMMA QueryLeads ==
    ASSUME NEW p \in Procs, QueryPermission(p)
    PROVE  \/ perms[key[p]][pc[p]] = "allow" /\ Goto(p, "touching")
           \/ perms[key[p]][pc[p]] = "deny" /\ Goto(p, "refused")
           \/ perms[key[p]][pc[p]] \notin {"allow", "deny"} /\ Goto(p, NextCell[pc[p]])
<1>. DEFINE verdict == perms[key[p]][pc[p]]
            where == CASE verdict = "allow" -> "touching"
                       [] verdict = "deny"  -> "refused"
                       [] OTHER -> NextCell[pc[p]]
<1>1. Goto(p, where)
  BY DEF QueryPermission
<1>2. verdict = "allow" => where = "touching"
  OBVIOUS
<1>3. verdict = "deny" => where = "refused"
  OBVIOUS
<1>4. verdict \notin {"allow", "deny"} => where = NextCell[pc[p]]
  OBVIOUS
<1>. HIDE DEF where
<1>. QED
  BY <1>1, <1>2, <1>3, <1>4, Zenon

\* A query of the permissions goes on with the validation or ends it.
LEMMA QueryGoesOn ==
    ASSUME NEW p \in Procs, QueryPermission(p)
    PROVE  \E where \in Validating \cup Over : Goto(p, where)
<1>1. pc[p] \in Cells
  BY DEF QueryPermission
<1>2. NextCell[pc[p]] \in Validating \cup Over
  BY <1>1 DEF NextCell, Cells, Validating, Over
<1>3. "touching" \in Validating \cup Over /\ "refused" \in Validating \cup Over
  BY DEF Validating, Over
<1>. QED
  BY <1>2, <1>3, QueryLeads, Zenon

\* Every step of a request keeps what is said of its place and of the places of the others.
LEMMA RequestMoves ==
    ASSUME KeysInv, NEW p \in Procs, [Next]_vars,
           \A k \in Keys : Exists(k) => Exists(k)' /\ rows'[k].owner = rows[k].owner,
           \/ \E k \in Keys : PresentKey(p, k)
           \/ FindKey(p) \/ CheckOwner(p) \/ QueryPermission(p) \/ Touch(p)
           \/ \E j \in Create \cup Issue : Ask(p, j)
           \/ \E j \in Update \cup Delete, k \in Keys : AskAbout(p, j, k)
           \/ \E k \in Keys : CreateKey(p, k)
           \/ CheckAccess(p) \/ UpdateKey(p) \/ CheckName(p)
           \/ \E k \in Keys : MintKey(p, k)
           \/ Grant(p) \/ Crash(p)
    PROVE  RequestsOf(p)
<1>0. TypeOK /\ PlacedAt(p)
  BY PlacedThere DEF KeysInv
<1>1. ASSUME NEW k \in Keys, PresentKey(p, k) PROVE RequestsOf(p)
  <2>1. [op |-> "present"] \in Job /\ "finding" \in Places
    BY DEF Job, Present, Places, Validating
  <2>2. /\ Exists(k) /\ Begin(p, [op |-> "present"], k, "finding")
    BY <1>1 DEF PresentKey
  <2>. QED
    BY <1>0, <2>1, <2>2, BeginMoves DEF RequestsOf, PlacedAt, Exists
<1>2. ASSUME FindKey(p) \/ CheckOwner(p) \/ QueryPermission(p) PROVE RequestsOf(p)
  <2>1. key[p] \in Keys /\ Exists(key[p]) /\ UNCHANGED <<rows, perms, gone>>
    BY <1>0, <1>2 DEF FindKey, CheckOwner, QueryPermission, PlacedAt, Validating
  <2>2. PICK where \in Validating \cup Over : Goto(p, where)
    <3>1. ASSUME QueryPermission(p) PROVE \E where \in Validating \cup Over : Goto(p, where)
      BY <3>1, QueryGoesOn
    <3>. QED
      BY <1>2, <3>1 DEF FindKey, CheckOwner, Validating, Over, Cells
  <2>3. where \in Places
    BY DEF Places
  <2>. QED
    BY <1>0, <2>1, <2>2, <2>3, GotoMoves DEF RequestsOf, PlacedAt, Exists, Validating, Cells, Over
<1>3. ASSUME Touch(p) \/ Grant(p) \/ UpdateKey(p) \/ (\E k \in Keys : CreateKey(p, k)) \/ Crash(p) PROVE RequestsOf(p)
  <2>1. PICK where \in Over : Goto(p, where)
    BY <1>3 DEF Touch, Grant, UpdateKey, CreateKey, Crash, Over
  <2>2. where \in Places
    BY DEF Places
  <2>. QED
    BY <1>0, <2>1, <2>2, GotoMoves DEF RequestsOf, PlacedAt, Validating, Cells, Over
<1>4. ASSUME NEW j \in Create \cup Issue, Ask(p, j) PROVE RequestsOf(p)
  <2>1. j \in Job /\ "creating" \in Places /\ "naming" \in Places /\ NoKey \in Keys \cup {NoKey}
    BY DEF Job, Places
  <2>2. j.op = "create" => j \in Create
    BY DEF Create, Issue
  <2>3. j.op # "create" => j \in Issue
    BY DEF Create, Issue
  <2>4. CASE j.op = "create"
    <3>1. Begin(p, j, NoKey, "creating")
      BY <1>4, <2>4 DEF Ask
    <3>. QED
      BY <1>0, <2>1, <2>2, <2>4, <3>1, BeginMoves DEF RequestsOf, PlacedAt, Validating, Cells
  <2>5. CASE j.op # "create"
    <3>1. Begin(p, j, NoKey, "naming")
      BY <1>4, <2>5 DEF Ask
    <3>. QED
      BY <1>0, <2>1, <2>3, <2>5, <3>1, BeginMoves DEF RequestsOf, PlacedAt, Validating, Cells
  <2>. QED
    BY <2>4, <2>5
<1>5. ASSUME NEW j \in Update \cup Delete, NEW k \in Keys, AskAbout(p, j, k) PROVE RequestsOf(p)
  <2>1. j \in Job /\ "checking" \in Places /\ Begin(p, j, k, "checking")
    BY <1>5 DEF Job, Places, AskAbout
  <2>. QED
    BY <1>0, <2>1, BeginMoves DEF RequestsOf, PlacedAt, Validating, Cells
<1>6. ASSUME CheckAccess(p) PROVE RequestsOf(p)
  <2>1. PICK where \in {"updating", "refused"} :
          /\ Goto(p, where) /\ UNCHANGED rows
          /\ where = "updating" => Exists(key[p]) /\ rows[key[p]].owner = job[p].user
    BY <1>6 DEF CheckAccess
  <2>2. where \in Places /\ pc[p] = "checking"
    BY <1>6 DEF Places, Over, CheckAccess
  <2>. QED
    BY <1>0, <2>1, <2>2, GotoMoves DEF RequestsOf, PlacedAt, Exists, Validating, Cells, Over
<1>7. ASSUME CheckName(p) PROVE RequestsOf(p)
  <2>1. PICK where \in {"exists", "minting"} : Goto(p, where)
    BY <1>7 DEF CheckName
  <2>2. where \in Places /\ pc[p] = "naming"
    BY <1>7 DEF Places, Over, CheckName
  <2>. QED
    BY <1>0, <2>1, <2>2, GotoMoves DEF RequestsOf, PlacedAt, Validating, Cells, Over
<1>8. ASSUME NEW k \in Keys, MintKey(p, k) PROVE RequestsOf(p)
  <2>1. rows'[k] \in Row
    BY <1>0, <1>8, JobFields DEF MintKey, Insert, TypeOK, Row, PlacedAt
  <2>2. Exists(k)'
    BY <2>1, RowIsNotAbsent DEF Exists
  <2>. QED
    BY <1>0, <1>8, <2>2 DEF MintKey, RequestsOf, PlacedAt, TypeOK, Places, Moved, Exists, Validating, Cells
<1>. QED
  BY <1>1, <1>2, <1>3, <1>4, <1>5, <1>6, <1>7, <1>8

\* The history of what stood against a key keeps its type.
LEMMA ThroughoutKept ==
    ASSUME TypeOK, [Next]_vars
    PROVE  throughout' \in [Procs -> SUBSET {"inactive", "expired", "ownerless", "forbidden"}]
<1>. DEFINE O == {"inactive", "expired", "ownerless", "forbidden"}
<1>1. throughout \in [Procs -> SUBSET O]
  BY DEF TypeOK
<1>2. \A k : Obstacles(k)' \subseteq O
  BY DEF Obstacles
<1>3. CASE Observe
  <2>1. throughout' = [p \in Procs |->
          CASE pc'[p] \in Validating -> IF pc[p] = "new" THEN Obstacles(key[p])' ELSE throughout[p] \cap Obstacles(key[p])'
            [] pc'[p] = "accepted" -> throughout[p]
            [] OTHER -> {}]
    BY <1>3 DEF Observe
  <2>2. \A p \in Procs : Obstacles(key[p])' \subseteq O
    BY DEF Obstacles
  <2>. QED
    BY <1>1, <2>1, <2>2
<1>4. CASE UNCHANGED vars
  BY <1>1, <1>4 DEF vars
<1>. QED
  BY <1>3, <1>4 DEF Next

\* Every step keeps the invariant.
LEMMA KeysKept == KeysInv /\ [Next]_vars => KeysInv'
<1>. SUFFICES ASSUME KeysInv, [Next]_vars PROVE KeysInv'
  OBVIOUS
<1>1. rows' \in [Keys -> Row \cup {Absent}] /\ perms' \in [Keys -> Permission] /\ gone' \subseteq Users
  BY TablesKept
<1>2. throughout' \in [Procs -> SUBSET {"inactive", "expired", "ownerless", "forbidden"}]
  BY ThroughoutKept DEF KeysInv
<1>. QED
  <2>1. \A k \in Keys : Exists(k) => Exists(k)' /\ rows'[k].owner = rows[k].owner
    BY RowsStay
  <2>2. CASE \E p \in Procs : RequestsOf(p)
    <3>1. PICK p \in Procs : RequestsOf(p)
      BY <2>2
    <3>2. ASSUME NEW q \in Procs PROVE PlacedAt(q)'
      <4>1. CASE q = p
        BY <3>1, <4>1 DEF RequestsOf
      <4>2. CASE q # p
        <5>1. PlacedAt(q) /\ pc'[q] = pc[q] /\ job'[q] = job[q] /\ key'[q] = key[q]
          BY <3>1, <4>2, PlacedThere DEF RequestsOf, Moved
        <5>. QED
          BY <2>1, <5>1 DEF PlacedAt, Exists
      <4>. QED
        BY <4>1, <4>2
    <3>. QED
      BY <1>1, <1>2, <3>1, <3>2 DEF KeysInv, TypeOK, Placed, PlacedAt, RequestsOf, Places
  <2>3. CASE UNCHANGED <<pc, job, key>>
    <3>1. ASSUME NEW q \in Procs PROVE PlacedAt(q)'
      BY <2>1, <2>3, PlacedThere DEF PlacedAt, Exists
    <3>. QED
      BY <1>1, <1>2, <2>3, <3>1 DEF KeysInv, TypeOK, Placed, PlacedAt
  <2>4. (\E p \in Procs : RequestsOf(p)) \/ UNCHANGED <<pc, job, key>>
    <3>1. CASE UNCHANGED vars
      BY <3>1 DEF vars
    <3>2. CASE Next
      BY <2>1, <3>2, RequestMoves DEF Next, Step, Expire, DeleteOwner
    <3>. QED
      BY <3>1, <3>2
  <2>. QED
    BY <2>2, <2>3, <2>4

\* TypeOK, for the tables the keys service writes.
THEOREM KeysTypes == Spec => []TypeOK
<1>1. KeysInv => TypeOK
  BY DEF KeysInv
<1>. QED
  BY KeysStart, KeysKept, <1>1, PTL DEF Spec

-----------------------------------------------------------------------------
(* Deactivation stays.  Only UpdateKey writes "active" of a key that is there. *)

\* The one step that makes a key active is an update of its owner that asks for it.
LEMMA OnlyOwnersActivate ==
    ASSUME KeysInv, [Next]_vars, NEW k \in Keys, Exists(k), ~rows[k].active, rows'[k].active
    PROVE  \E p \in Procs : /\ pc[p] = "updating" /\ pc'[p] = "updated" /\ key[p] = k
                            /\ "active" \in job[p].given /\ job[p].active
                            /\ job[p].user = rows[k].owner
<1>1. rows[k] \in Row /\ DOMAIN rows = Keys
  BY DEF KeysInv, TypeOK, Exists
<1>2. rows' # rows
  OBVIOUS
<1>3. ASSUME NEW p \in Procs, NEW l \in Keys, Insert(p, l) PROVE FALSE
  BY <1>1, <1>3 DEF Insert
<1>4. ASSUME NEW l \in Keys, Expire(l) PROVE FALSE
  <2>1. rows[l] \in Row
    BY <1>4 DEF Expire, KeysInv, TypeOK, Exists
  <2>2. rows' = [rows EXCEPT ![l] = [rows[l] EXCEPT !.expires = "past"]]
    BY <1>4, <1>1 DEF Expire
  <2>3. [rows[l] EXCEPT !.expires = "past"].active = rows[l].active
    BY <2>1 DEF Row
  <2>. QED
    BY <1>1, <2>2, <2>3
<1>5. PICK p \in Procs : UpdateKey(p)
  BY <1>2, <1>3, <1>4
     DEF Next, Step, PresentKey, Begin, FindKey, CheckOwner, QueryPermission, Touch, Ask, AskAbout, CreateKey,
         CheckAccess, CheckName, MintKey, Grant, Crash, DeleteOwner, vars
<1>6. key[p] \in Keys /\ rows[key[p]] \in Row /\ rows[key[p]].owner = job[p].user /\ pc[p] = "updating"
  BY <1>5 DEF KeysInv, TypeOK, Placed, UpdateKey, Exists
<1>. DEFINE active  == IF "active" \in job[p].given THEN job[p].active ELSE rows[key[p]].active
            row     == [rows[key[p]] EXCEPT
                          !.name = IF "name" \in job[p].given THEN job[p].name ELSE @,
                        !.active = IF "active" \in job[p].given THEN job[p].active ELSE @,
                          !.expires = IF "expires" \in job[p].given THEN job[p].expires ELSE @]
<1>7. rows' = [rows EXCEPT ![key[p]] = row]
  BY <1>5, <1>1, <1>6 DEF UpdateKey, Row
<1>8. row.active = active
  BY <1>6 DEF Row
<1>9. key[p] = k
  <2>. HIDE DEF row
  <2>. QED
    BY <1>1, <1>7
<1>10. rows'[k].active = active
  <2>. HIDE DEF row, active
  <2>. QED
    BY <1>1, <1>6, <1>7, <1>8, <1>9
<1>11. pc'[p] = "updated"
  BY <1>5 DEF UpdateKey, Goto, KeysInv, TypeOK
<1>. QED
  BY <1>6, <1>9, <1>10, <1>11

\* RevocationSticks, whatever requests overlap.
THEOREM RevocationStays == Spec => RevocationSticks
<1>1. KeysInv /\ [Next]_vars =>
        [\A k \in Keys : Exists(k) /\ ~rows[k].active /\ rows'[k].active =>
            \E p \in Procs : /\ pc[p] = "updating" /\ pc'[p] = "updated" /\ key[p] = k
                             /\ "active" \in job[p].given /\ job[p].active
                             /\ job[p].user = rows[k].owner]_vars
  BY OnlyOwnersActivate
<1>. QED
  BY KeysStart, KeysKept, <1>1, PTL DEF Spec, RevocationSticks

-----------------------------------------------------------------------------
(* Revocation is effective.  At each place of a validation, what was checked  *)
(* on the way there cannot have stood all along.                              *)

CheckedAt(p) ==
    /\ pc[p] \in {"owner", "touching"} \cup Cells => "inactive" \notin throughout[p] /\ "expired" \notin throughout[p]
    /\ pc[p] \in {"touching"} \cup Cells => "ownerless" \notin throughout[p]
    /\ pc[p] \in Cells /\ "forbidden" \in throughout[p] =>
          \A d \in Overrules[pc[p]] : perms[key[p]][d] = "none"
    /\ pc[p] = "touching" => "forbidden" \notin throughout[p]
    /\ pc[p] = "accepted" => throughout[p] = {}

Checked == \A p \in Procs : CheckedAt(p)

\* What stands against a key after a step, by the tables after it.
LEMMA ObstaclesNext ==
    ASSUME NEW k
    PROVE  /\ ("inactive" \in Obstacles(k)') => ~rows'[k].active
           /\ ("expired" \in Obstacles(k)') => rows'[k].expires = "past"
           /\ ("ownerless" \in Obstacles(k)') => rows'[k].owner \in gone'
           /\ ("forbidden" \in Obstacles(k)') => ~Allowed(k)'
BY DEF Obstacles

\* The history of a validation shrinks to what still stands against its key.
LEMMA ThroughoutNext ==
    ASSUME Observe, NEW p \in Procs
    PROVE  /\ pc'[p] \in Validating /\ pc[p] # "new" => throughout'[p] = throughout[p] \cap Obstacles(key[p])'
           /\ pc'[p] = "accepted" => throughout'[p] = throughout[p]
<1>1. "accepted" \notin Validating
  BY DEF Validating, Cells
<1>. DEFINE T(q) == CASE pc'[q] \in Validating -> IF pc[q] = "new" THEN Obstacles(key[q])' ELSE throughout[q] \cap Obstacles(key[q])'
                      [] pc'[q] = "accepted" -> throughout[q]
                      [] OTHER -> {}
<1>2. throughout'[p] = T(p)
  BY DEF Observe
<1>3. pc'[p] \in Validating /\ pc[p] # "new" => T(p) = throughout[p] \cap Obstacles(key[p])'
  BY <1>1
<1>4. pc'[p] = "accepted" => T(p) = throughout[p]
  BY <1>1
<1>. HIDE DEF T
<1>. QED
  BY <1>2, <1>3, <1>4

\* Permissions are only added, and the one that is added allows.
LEMMA PermissionsNext ==
    ASSUME KeysInv, [Next]_vars, NEW k \in Keys
    PROVE  perms'[k] = perms[k] \/ Allowed(k)'
<1>1. ASSUME NEW p \in Procs, Grant(p) PROVE perms'[k] = perms[k] \/ Allowed(k)'
  <2>1. perms \in [Keys -> Permission] /\ key[p] \in Keys
    BY <1>1 DEF KeysInv, TypeOK, Placed, Grant
  <2>2. perms' = [perms EXCEPT ![key[p]] = [perms[key[p]] EXCEPT !["exact"] = "allow"]]
    BY <1>1, <2>1 DEF Grant, Permission
  <2>3. CASE k = key[p]
    <3>1. perms'[k]["exact"] = "allow"
      BY <2>1, <2>2, <2>3 DEF Permission, Cells
    <3>2. Overrules["exact"] = {}
      BY DEF Overrules
    <3>. QED
      BY <3>1, <3>2 DEF Allowed, Cells
  <2>4. CASE k # key[p]
    BY <2>1, <2>2, <2>4
  <2>. QED
    BY <2>3, <2>4
<1>2. ASSUME NEW p \in Procs, NEW l \in Keys, CreateKey(p, l) \/ MintKey(p, l) PROVE perms' = perms
  BY <1>2 DEF CreateKey, MintKey, Insert
<1>. QED
  BY <1>1, <1>2
     DEF Next, Step, PresentKey, Begin, FindKey, CheckOwner, QueryPermission, Touch, Ask, AskAbout,
         CheckAccess, UpdateKey, CheckName, Crash, Expire, DeleteOwner, vars

\* A request that does not move keeps what it has checked.
LEMMA CheckedStays ==
    ASSUME KeysInv, [Next]_vars, Observe, NEW p \in Procs, CheckedAt(p),
           pc'[p] = pc[p], key'[p] = key[p]
    PROVE  CheckedAt(p)'
<1>1. CASE pc[p] \in Validating
  <2>1. throughout'[p] = throughout[p] \cap Obstacles(key[p])' /\ key[p] \in Keys
    BY <1>1, ThroughoutNext DEF KeysInv, Placed, Validating, Cells
  <2>2. "forbidden" \in throughout'[p] => perms'[key[p]] = perms[key[p]]
    <3>1. "forbidden" \in throughout'[p] => "forbidden" \in Obstacles(key[p])'
      BY <2>1
    <3>2. "forbidden" \in Obstacles(key[p])' => ~Allowed(key[p])'
      BY DEF Obstacles
    <3>3. ~Allowed(key[p])' => perms'[key[p]] = perms[key[p]]
      BY <2>1, PermissionsNext DEF Allowed
    <3>. QED
      BY <3>1, <3>2, <3>3
  <2>. QED
    BY <1>1, <2>1, <2>2 DEF CheckedAt, Validating, Cells
<1>2. CASE pc[p] \notin Validating
  BY <1>2, ThroughoutNext DEF CheckedAt, Validating, Cells
<1>. QED
  BY <1>1, <1>2

\* A key that was found was active and had not expired.
LEMMA FindChecks ==
    ASSUME KeysInv, Observe, NEW p \in Procs, FindKey(p) PROVE CheckedAt(p)'
<1>1. TypeOK /\ "owner" \in Places /\ "refused" \in Places /\ pc[p] = "finding"
  BY DEF KeysInv, Places, Over, Validating, FindKey
<1>2. CASE rows[key[p]].active /\ rows[key[p]].expires # "past"
  <2>1. pc'[p] = "owner" /\ key'[p] = key[p] /\ rows' = rows
    BY <1>1, <1>2, GotoMoves DEF FindKey, Over
  <2>2. throughout'[p] = throughout[p] \cap Obstacles(key[p])'
    BY <1>1, <2>1, ThroughoutNext DEF Validating
  <2>3. ("inactive" \in Obstacles(key[p])' => ~rows'[key'[p]].active)
        /\ ("expired" \in Obstacles(key[p])' => rows'[key'[p]].expires = "past")
    BY DEF Obstacles
  <2>. QED
    BY <1>2, <2>1, <2>2, <2>3 DEF CheckedAt, Cells
<1>3. CASE ~(rows[key[p]].active /\ rows[key[p]].expires # "past")
  <2>1. pc'[p] = "refused"
    BY <1>1, <1>3, GotoMoves DEF FindKey
  <2>. QED
    BY <2>1 DEF CheckedAt, Cells
<1>. QED
  BY <1>2, <1>3

\* A key whose owner was found had one.
LEMMA OwnerChecks ==
    ASSUME KeysInv, Observe, NEW p \in Procs, CheckedAt(p), CheckOwner(p) PROVE CheckedAt(p)'
<1>1. TypeOK /\ "exact" \in Places /\ "refused" \in Places /\ pc[p] = "owner"
  BY DEF KeysInv, Places, Over, Validating, Cells, CheckOwner
<1>2. CASE rows[key[p]].owner \notin gone
  <2>1. pc'[p] = "exact" /\ key'[p] = key[p] /\ rows' = rows /\ gone' = gone
    BY <1>1, <1>2, GotoMoves DEF CheckOwner, Over
  <2>2. throughout'[p] = throughout[p] \cap Obstacles(key[p])'
    BY <1>1, <2>1, ThroughoutNext DEF Validating, Cells
  <2>3. "ownerless" \in Obstacles(key[p])' => rows'[key'[p]].owner \in gone'
    BY DEF Obstacles
  <2>4. Overrules["exact"] = {}
    BY DEF Overrules
  <2>. QED
    BY <1>1, <1>2, <2>1, <2>2, <2>3, <2>4 DEF CheckedAt, Cells
<1>3. CASE rows[key[p]].owner \in gone
  <2>1. pc'[p] = "refused"
    BY <1>1, <1>3, GotoMoves DEF CheckOwner
  <2>. QED
    BY <2>1 DEF CheckedAt, Cells
<1>. QED
  BY <1>2, <1>3

\* The cell queried next is overruled by the ones queried before, and by no other.
LEMMA CellsInOrder ==
    \A c \in Cells : NextCell[c] \in Cells => Overrules[NextCell[c]] = Overrules[c] \cup {c}
BY DEF Cells, NextCell, Overrules

\* A cell that was passed did not decide, and the one that allows was the first that decides.
LEMMA PermissionChecks ==
    ASSUME KeysInv, Observe, NEW p \in Procs, CheckedAt(p), QueryPermission(p) PROVE CheckedAt(p)'
<1>1. TypeOK /\ pc[p] \in Cells /\ UNCHANGED <<rows, perms, gone>> /\ key[p] \in Keys
  BY DEF KeysInv, Placed, Validating, QueryPermission
<1>2. NextCell[pc[p]] \in Cells \cup {"refused"}
  BY <1>1 DEF Cells, NextCell
<1>3. Cells \cup {"touching", "refused"} \subseteq Places
  BY DEF Places, Validating, Over
<1>4. ASSUME pc'[p] \in Cells \cup {"touching"}, key'[p] = key[p]
      PROVE  throughout'[p] = throughout[p] \cap Obstacles(key[p])'
  BY <1>1, <1>4, ThroughoutNext DEF Validating, Cells
<1>5. CASE perms[key[p]][pc[p]] = "allow" /\ Goto(p, "touching")
  <2>1. pc'[p] = "touching" /\ key'[p] = key[p]
    BY <1>1, <1>3, <1>5, GotoMoves DEF Over
  <2>2. throughout'[p] = throughout[p] \cap Obstacles(key[p])'
    BY <2>1, <1>4
  <2>3. "forbidden" \in throughout[p] => Allowed(key[p])
    BY <1>1, <1>5 DEF CheckedAt, Allowed
  <2>4. "forbidden" \in Obstacles(key[p])' => ~Allowed(key[p])'
    BY DEF Obstacles
  <2>5. Allowed(key[p])' <=> Allowed(key[p])
    BY <1>1, <2>1 DEF Allowed
  <2>. QED
    BY <1>1, <2>1, <2>2, <2>3, <2>4, <2>5 DEF CheckedAt, Cells
<1>6. CASE Goto(p, "refused")
  <2>1. pc'[p] = "refused"
    BY <1>1, <1>3, <1>6, GotoMoves
  <2>. QED
    BY <2>1 DEF CheckedAt, Cells
<1>7. CASE perms[key[p]][pc[p]] \notin {"allow", "deny"} /\ Goto(p, NextCell[pc[p]]) /\ NextCell[pc[p]] \in Cells
  <2>1. pc'[p] = NextCell[pc[p]] /\ key'[p] = key[p]
    BY <1>1, <1>3, <1>7, GotoMoves DEF Over, Cells
  <2>2. throughout'[p] = throughout[p] \cap Obstacles(key[p])'
    BY <1>7, <2>1, <1>4
  <2>3. perms[key[p]][pc[p]] = "none"
    BY <1>1, <1>7 DEF TypeOK, Permission
  <2>4. Overrules[pc'[p]] = Overrules[pc[p]] \cup {pc[p]}
    BY <1>1, <1>7, <2>1, CellsInOrder
  <2>5. pc'[p] \in Cells /\ "touching" \notin Cells /\ "accepted" \notin Cells
    BY <1>7, <2>1 DEF Cells
  <2>. QED
    BY <1>1, <2>1, <2>2, <2>3, <2>4, <2>5 DEF CheckedAt
<1>. QED
  BY <1>2, <1>5, <1>6, <1>7, QueryLeads

\* Every step keeps what a validation has checked.
LEMMA CheckedKept == KeysInv /\ Checked /\ [Next]_vars => Checked'
<1>. SUFFICES ASSUME KeysInv, Checked, [Next]_vars, NEW q \in Procs PROVE CheckedAt(q)'
  BY DEF Checked
<1>0. CheckedAt(q) /\ TypeOK
  BY DEF Checked, KeysInv
<1>1. CASE UNCHANGED vars
  BY <1>0, <1>1 DEF vars, CheckedAt
<1>2. ASSUME NEW p \in Procs, p # q, Moved(p), Next PROVE CheckedAt(q)'
  BY <1>0, <1>2, CheckedStays DEF Moved, Next
<1>3. ASSUME pc'[q] \notin {"owner", "touching", "accepted"} \cup Cells PROVE CheckedAt(q)'
  BY <1>3 DEF CheckedAt
<1>4. ASSUME Next, FindKey(q) PROVE CheckedAt(q)'
  BY <1>4, FindChecks DEF Next
<1>5. ASSUME Next, CheckOwner(q) PROVE CheckedAt(q)'
  BY <1>0, <1>5, OwnerChecks DEF Next
<1>6. ASSUME Next, QueryPermission(q) PROVE CheckedAt(q)'
  BY <1>0, <1>6, PermissionChecks DEF Next
<1>7. ASSUME Next, Touch(q) PROVE CheckedAt(q)'
  <2>1. "accepted" \in Places /\ pc[q] = "touching"
    BY <1>7 DEF Places, Over, Touch
  <2>2. pc'[q] = "accepted"
    BY <1>0, <1>7, <2>1, GotoMoves DEF Touch
  <2>3. throughout'[q] = throughout[q]
    BY <1>7, <2>2, ThroughoutNext DEF Next
  <2>4. throughout[q] = {}
    BY <1>0, <2>1 DEF CheckedAt, TypeOK
  <2>. QED
    BY <2>2, <2>3, <2>4 DEF CheckedAt, Cells
<1>8. ASSUME NEW k \in Keys, PresentKey(q, k) PROVE pc'[q] = "finding"
  BY <1>0, <1>8 DEF PresentKey, Begin, TypeOK
<1>9. ASSUME \/ \E j \in Create \cup Issue : Ask(q, j)
             \/ \E j \in Update \cup Delete, k \in Keys : AskAbout(q, j, k)
             \/ \E k \in Keys : CreateKey(q, k)
             \/ CheckAccess(q) \/ UpdateKey(q) \/ CheckName(q)
             \/ \E k \in Keys : MintKey(q, k)
             \/ Grant(q) \/ Crash(q)
      PROVE  pc'[q] \in {"creating", "naming", "checking", "created", "updating", "refused", "updated", "exists",
                         "minting", "granting", "issued", "dead"}
  BY <1>0, <1>9 DEF Ask, AskAbout, CreateKey, CheckAccess, UpdateKey, CheckName, MintKey, Grant, Crash, Begin, Goto, TypeOK
<1>10. ASSUME Next, NEW k \in Keys, Expire(k) PROVE CheckedAt(q)'
  BY <1>0, <1>10, CheckedStays DEF Next, Expire
<1>11. ASSUME Next, NEW u \in Users, DeleteOwner(u) PROVE CheckedAt(q)'
  BY <1>0, <1>11, CheckedStays DEF Next, DeleteOwner
<1>. QED
  <2>1. \A k \in Keys : Exists(k) => Exists(k)' /\ rows'[k].owner = rows[k].owner
    BY RowsStay
  <2>2. CASE Next
    <3>1. ASSUME NEW p \in Procs, RequestsOf(p), p # q PROVE CheckedAt(q)'
      BY <2>2, <3>1, <1>2 DEF RequestsOf
    <3>2. pc'[q] \in {"finding", "creating", "naming", "checking", "created", "updating", "refused", "updated", "exists",
                      "minting", "granting", "issued", "dead"} => CheckedAt(q)'
      BY <1>3 DEF Cells
    <3>3. ASSUME NEW p \in Procs,
                 \/ \E k \in Keys : PresentKey(p, k)
                 \/ FindKey(p) \/ CheckOwner(p) \/ QueryPermission(p) \/ Touch(p)
                 \/ \E j \in Create \cup Issue : Ask(p, j)
                 \/ \E j \in Update \cup Delete, k \in Keys : AskAbout(p, j, k)
                 \/ \E k \in Keys : CreateKey(p, k)
                 \/ CheckAccess(p) \/ UpdateKey(p) \/ CheckName(p)
                 \/ \E k \in Keys : MintKey(p, k)
                 \/ Grant(p) \/ Crash(p)
          PROVE  CheckedAt(q)'
      <4>1. CASE p # q
        BY <2>1, <3>1, <3>3, <4>1, RequestMoves
      <4>2. CASE p = q
        BY <2>2, <3>2, <3>3, <4>2, <1>4, <1>5, <1>6, <1>7, <1>8, <1>9
      <4>. QED
        BY <4>1, <4>2
    <3>. QED
      BY <2>2, <3>3, <1>10, <1>11 DEF Next, Step
  <2>. QED
    BY <1>1, <2>2

\* RevocationIsEffective, for any permissions a key may have and whatever is
\* granted, deactivated or deleted between the checks.
THEOREM RevocationHolds == Spec => []RevocationIsEffective
<1>1. Init => Checked
  BY DEF Init, Checked, CheckedAt, Cells
<1>2. KeysInv /\ Checked => RevocationIsEffective
  BY DEF Checked, CheckedAt, RevocationIsEffective
<1>. QED
  BY KeysStart, KeysKept, CheckedKept, <1>1, <1>2, PTL DEF Spec

-----------------------------------------------------------------------------
(* Issued keys have the permission they were issued for, and no other: no two *)
(* requests issue the same key, and nothing but the request that issues a key *)
(* writes its permissions.                                                    *)

OneAction == [NoPermission EXCEPT !.exact = "allow"]
Issuer(p) == job[p] \in Issue /\ key[p] # NoKey

UnusedKeys  == \A k \in Keys : ~Exists(k) => perms[k] = NoPermission
IssuedAt(p) ==
    /\ pc[p] \in {"naming", "minting"} => key[p] = NoKey
    /\ job[p] \in Issue => pc[p] \in {"naming", "minting", "granting", "issued", "exists", "dead"}
    /\ job[p] \in Issue /\ pc[p] = "issued" => key[p] # NoKey
    /\ Issuer(p) => /\ key[p] \in Keys /\ Exists(key[p])
                    /\ perms[key[p]] = IF pc[p] = "issued" THEN OneAction ELSE NoPermission
Scoped ==
    /\ UnusedKeys
    /\ \A p \in Procs : IssuedAt(p)
    /\ \A p, q \in Procs : p # q /\ Issuer(p) /\ Issuer(q) => key[p] # key[q]

\* Issuing is told from the other requests.
LEMMA NotIssue == Absent \notin Issue /\ [op |-> "present"] \notin Issue /\ \A j \in Create \cup Update \cup Delete : j \notin Issue
<1>1. \A j \in Issue : j # Absent
  BY DEF Issue, Absent
<1>2. "present" # "issue" /\ [op |-> "present"].op = "present"
  OBVIOUS
<1>. QED
  BY <1>1, <1>2, JobFields

\* Nothing is issued at the start.
LEMMA ScopedStart == Init => Scoped
<1>. SUFFICES ASSUME Init PROVE Scoped
  OBVIOUS
<1>1. UnusedKeys
  <2>1. PICK S \in {{}} \cup {{k} : k \in Keys}, row \in Row, table \in Tables :
            /\ rows = [k \in Keys |-> IF k \in S THEN row ELSE Absent]
            /\ perms = [k \in Keys |-> IF k \in S THEN table ELSE NoPermission]
    BY DEF Init
  <2>. QED
    BY <2>1, RowIsNotAbsent DEF UnusedKeys, Exists
<1>2. \A p \in Procs : pc[p] = "new" /\ job[p] = Absent /\ key[p] = NoKey
  BY DEF Init
<1>. QED
  BY <1>1, <1>2, NotIssue DEF Scoped, IssuedAt, Issuer

RowsRemain == \A k \in Keys : Exists(k) => Exists(k)'

\* A request that issues no key, or goes on with the one it has, disturbs no issuer.
LEMMA ScopedElsewhere ==
    ASSUME Scoped, RowsRemain, perms' = perms, NEW p \in Procs, Moved(p), IssuedAt(p)',
           Issuer(p)' => Issuer(p) /\ key'[p] = key[p]
    PROVE  Scoped'
<1>1. UnusedKeys'
  BY DEF Scoped, UnusedKeys, RowsRemain
<1>2. ASSUME NEW q \in Procs PROVE IssuedAt(q)'
  BY <1>2 DEF Scoped, IssuedAt, Issuer, Moved, RowsRemain, Exists
<1>3. ASSUME NEW q \in Procs PROVE Issuer(q)' => Issuer(q) /\ key'[q] = key[q]
  BY DEF Moved, Issuer
<1>4. ASSUME NEW q \in Procs, NEW r \in Procs, q # r, Issuer(q)', Issuer(r)' PROVE key'[q] # key'[r]
  BY <1>3, <1>4 DEF Scoped
<1>. QED
  BY <1>1, <1>2, <1>4 DEF Scoped

\* A request that goes on without writing keeps what was issued.
LEMMA GotoScoped ==
    ASSUME KeysInv, Scoped, RowsRemain, perms' = perms, NEW p \in Procs, NEW where \in Places, Goto(p, where),
           pc[p] \notin Over, where # "issued",
           where = "minting" => pc[p] = "naming", where # "naming",
           job[p] \in Issue => where \in {"minting", "exists", "dead"}
    PROVE  Scoped'
<1>1. TypeOK /\ IssuedAt(p)
  BY DEF KeysInv, Scoped
<1>2. pc'[p] = where /\ Moved(p)
  BY <1>1, GotoMoves
<1>3. (job'[p] = job[p] /\ key'[p] = key[p]) \/ job'[p] = Absent
  BY <1>1 DEF Goto, TypeOK
<1>4. Issuer(p)' => Issuer(p) /\ key'[p] = key[p]
  BY <1>3, NotIssue DEF Issuer
<1>5. where = "minting" => key'[p] = NoKey
  BY <1>1, <1>2, GotoMoves DEF IssuedAt, Over
<1>6. pc[p] # "issued"
  BY DEF Over
<1>7. IssuedAt(p)'
  BY <1>1, <1>2, <1>3, <1>4, <1>5, <1>6, NotIssue DEF IssuedAt, Issuer, RowsRemain, Exists
<1>. QED
  BY <1>2, <1>4, <1>7, ScopedElsewhere

\* A request that begins keeps what was issued.
LEMMA BeginScoped ==
    ASSUME KeysInv, Scoped, NEW p \in Procs, NEW j \in Job, NEW k \in Keys \cup {NoKey},
           NEW where \in {"finding", "creating", "checking", "naming"}, Begin(p, j, k, where),
           where = "naming" => k = NoKey, where # "naming" => j \notin Issue
    PROVE  Scoped'
<1>1. where \in Places
  BY DEF Places, Validating
<1>2. pc'[p] = where /\ Moved(p) /\ job'[p] = j /\ key'[p] = k /\ UNCHANGED <<rows, perms, gone>>
  BY <1>1, BeginMoves DEF KeysInv
<1>3. ~Issuer(p)'
  BY <1>2 DEF Issuer
<1>4. IssuedAt(p)'
  BY <1>2, <1>3 DEF IssuedAt
<1>5. RowsRemain
  BY <1>2 DEF RowsRemain, Exists
<1>. QED
  BY <1>2, <1>3, <1>4, <1>5, ScopedElsewhere

\* A key that is minted is new, and has no permission yet.
LEMMA MintScoped ==
    ASSUME KeysInv, Scoped, RowsRemain, NEW p \in Procs, NEW k \in Keys, MintKey(p, k) PROVE Scoped'
<1>1. TypeOK /\ PlacedAt(p) /\ ~Exists(k) /\ perms' = perms /\ perms[k] = NoPermission
  BY PlacedThere DEF KeysInv, Scoped, UnusedKeys, MintKey, Insert
<1>2. pc'[p] = "granting" /\ key'[p] = k /\ job' = job /\ Moved(p) /\ k # NoKey
  BY <1>1, KeysAssumption DEF MintKey, TypeOK, Moved
<1>3. Exists(k)'
  <2>1. rows'[k] \in Row
    BY <1>1, JobFields DEF MintKey, Insert, TypeOK, Row, PlacedAt
  <2>. QED
    BY <2>1, RowIsNotAbsent DEF Exists
<1>4. IssuedAt(p)'
  BY <1>1, <1>2, <1>3 DEF IssuedAt, Exists
<1>5. ASSUME NEW q \in Procs, q # p
      PROVE  IssuedAt(q)' /\ (Issuer(q)' => Issuer(q) /\ key'[q] = key[q] /\ key[q] # k)
  BY <1>1, <1>2, <1>5 DEF Scoped, IssuedAt, Issuer, Moved, RowsRemain, Exists
<1>6. UnusedKeys'
  BY <1>1 DEF Scoped, UnusedKeys, RowsRemain
<1>7. ASSUME NEW q \in Procs, NEW r \in Procs, q # r, Issuer(q)', Issuer(r)' PROVE key'[q] # key'[r]
  BY <1>2, <1>5, <1>7 DEF Scoped
<1>. QED
  BY <1>4, <1>5, <1>6, <1>7 DEF Scoped

\* A grant is the one permission of the key its own request minted.
LEMMA GrantScoped ==
    ASSUME KeysInv, Scoped, RowsRemain, NEW p \in Procs, Grant(p) PROVE Scoped'
<1>1. TypeOK /\ PlacedAt(p) /\ pc[p] = "granting" /\ job[p] \in Issue /\ key[p] \in Keys /\ Exists(key[p])
  BY PlacedThere DEF KeysInv, PlacedAt, Grant
<1>2. Issuer(p) /\ perms[key[p]] = NoPermission
  BY <1>1, KeysAssumption DEF Issuer, Scoped, IssuedAt
<1>3. "issued" \in Places
  BY DEF Places, Over
<1>4. pc'[p] = "issued" /\ Moved(p) /\ job' = job /\ key' = key
  BY <1>1, <1>3, GotoMoves DEF Grant, Goto
<1>5. perms' = [perms EXCEPT ![key[p]] = OneAction]
  <2>1. perms' = [perms EXCEPT ![key[p]] = [perms[key[p]] EXCEPT !.exact = "allow"]]
    BY <1>1 DEF Grant, TypeOK
  <2>. QED
    BY <2>1, <1>2 DEF OneAction
<1>6. IssuedAt(p)'
  BY <1>1, <1>2, <1>4, <1>5 DEF IssuedAt, Issuer, TypeOK, RowsRemain, Exists
<1>7. ASSUME NEW q \in Procs, q # p PROVE IssuedAt(q)'
  <2>1. Issuer(q) => key[q] # key[p]
    BY <1>2, <1>7 DEF Scoped
  <2>. QED
    BY <1>1, <1>4, <1>5, <1>7, <2>1 DEF Scoped, IssuedAt, Issuer, Moved, RowsRemain, Exists, TypeOK
<1>8. UnusedKeys'
  BY <1>1, <1>5 DEF Scoped, UnusedKeys, RowsRemain, TypeOK
<1>9. ASSUME NEW q \in Procs, NEW r \in Procs, q # r, Issuer(q)', Issuer(r)' PROVE key'[q] # key'[r]
  BY <1>4, <1>9 DEF Scoped, Issuer
<1>. QED
  BY <1>6, <1>7, <1>8, <1>9 DEF Scoped

\* Every step keeps what was issued.
LEMMA ScopedKept == KeysInv /\ Scoped /\ [Next]_vars => Scoped'
<1>. SUFFICES ASSUME KeysInv, Scoped, [Next]_vars PROVE Scoped'
  OBVIOUS
<1>0. RowsRemain /\ TypeOK
  BY RowsStay DEF RowsRemain, KeysInv
<1>1. CASE UNCHANGED <<perms, pc, job, key>>
  BY <1>0, <1>1 DEF Scoped, UnusedKeys, IssuedAt, Issuer, RowsRemain, Exists
<1>2. ASSUME NEW p \in Procs,
             FindKey(p) \/ CheckOwner(p) \/ QueryPermission(p) \/ Touch(p) \/ CheckAccess(p) \/ UpdateKey(p)
             \/ \E k \in Keys : CreateKey(p, k)
      PROVE  Scoped'
  <2>1. pc[p] \in Validating \cup {"creating", "checking", "updating"} /\ perms' = perms
    BY <1>2 DEF FindKey, CheckOwner, QueryPermission, Touch, CheckAccess, UpdateKey, CreateKey, Insert, Validating
  <2>2. job[p] \notin Issue
    BY <2>1 DEF Scoped, IssuedAt, Validating, Cells
  <2>3. PICK where \in Validating \cup {"refused", "accepted", "created", "updating", "updated"} : Goto(p, where)
    <3>1. ASSUME QueryPermission(p)
          PROVE  \E where \in Validating \cup {"refused"} : Goto(p, where)
      <4>1. NextCell[pc[p]] \in Validating \cup {"refused"} /\ "touching" \in Validating
        BY <3>1 DEF NextCell, QueryPermission, Validating, Cells
      <4>. QED
        BY <3>1, <4>1, QueryLeads
    <3>. QED
      BY <1>2, <3>1 DEF FindKey, CheckOwner, Touch, CheckAccess, UpdateKey, CreateKey, Validating, Cells
  <2>4. where \in Places /\ where \notin {"issued", "minting", "naming"} /\ pc[p] \notin Over
    BY <2>1 DEF Places, Over, Validating, Cells
  <2>. QED
    BY <1>0, <2>1, <2>2, <2>3, <2>4, GotoScoped
<1>3. ASSUME NEW p \in Procs, CheckName(p) \/ Crash(p) PROVE Scoped'
  <2>1. PICK where \in {"exists", "minting", "dead"} : Goto(p, where) /\ (where = "minting" => pc[p] = "naming")
    BY <1>3 DEF CheckName, Crash
  <2>2. where \in Places /\ pc[p] \notin Over /\ perms' = perms
    BY <1>3 DEF Places, Over, Validating, CheckName, Crash
  <2>. QED
    BY <1>0, <2>1, <2>2, GotoScoped
<1>4. ASSUME NEW p \in Procs, NEW k \in Keys, PresentKey(p, k) PROVE Scoped'
  <2>1. [op |-> "present"] \in Job /\ Begin(p, [op |-> "present"], k, "finding")
    BY <1>4 DEF Job, Present, PresentKey
  <2>. QED
    BY <2>1, NotIssue, BeginScoped
<1>5. ASSUME NEW p \in Procs, NEW j \in Create \cup Issue, Ask(p, j) PROVE Scoped'
  <2>1. j \in Job /\ (j.op = "create" => j \notin Issue) /\ (j.op # "create" => j \in Issue)
    BY JobFields DEF Job
  <2>2. Begin(p, j, NoKey, IF j.op = "create" THEN "creating" ELSE "naming")
    BY <1>5 DEF Ask
  <2>3. CASE j.op = "create"
    <3>1. Begin(p, j, NoKey, "creating") /\ NoKey \in Keys \cup {NoKey} /\ j \notin Issue
      BY <2>1, <2>2, <2>3
    <3>. QED
      BY <2>1, <3>1, BeginScoped
  <2>4. CASE j.op # "create"
    <3>1. Begin(p, j, NoKey, "naming") /\ NoKey \in Keys \cup {NoKey}
      BY <2>2, <2>4
    <3>. QED
      BY <2>1, <3>1, BeginScoped
  <2>. QED
    BY <2>3, <2>4
<1>6. ASSUME NEW p \in Procs, NEW j \in Update \cup Delete, NEW k \in Keys, AskAbout(p, j, k) PROVE Scoped'
  <2>1. j \in Job /\ Begin(p, j, k, "checking")
    BY <1>6 DEF Job, AskAbout
  <2>. QED
    BY <2>1, NotIssue, BeginScoped
<1>. QED
  BY <1>0, <1>1, <1>2, <1>3, <1>4, <1>5, <1>6, MintScoped, GrantScoped DEF Next, Step, Expire, DeleteOwner, vars

\* IssuedIsScoped, whoever else creates, issues or deletes keys, and whatever dies.
THEOREM IssuedHolds == Spec => []IssuedIsScoped
<1>1. \A k \in Keys : perms[k] = NoPermission => ~Allowed(k)
  BY DEF NoPermission, Allowed, Cells
<1>2. Scoped => IssuedIsScoped
  BY <1>1 DEF Scoped, IssuedAt, Issuer, IssuedIsScoped, OneAction
<1>. QED
  BY KeysStart, KeysKept, ScopedStart, ScopedKept, <1>2, PTL DEF Spec
=============================================================================
