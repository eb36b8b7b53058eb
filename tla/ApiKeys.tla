------------------------------ MODULE ApiKeys ------------------------------
(***************************************************************************)
(* API keys: their owners create, change and deactivate them, a seed       *)
(* issues one with a permission, and services present them.                *)
(*                                                                         *)
(* A presented key is validated in steps, each of them a query of its own: *)
(* the key, its owner, and up to four permission rows from the most        *)
(* specific to the most general.  Everything that decides may change in    *)
(* between.  The resource and action asked for are fixed, so a permission  *)
(* row is one of four cells.                                               *)
(***************************************************************************)
EXTENDS Naturals, FiniteSets

CONSTANTS Keys, Users, Names, Procs, NoKey,
          Tables,       \* the permissions a key may have to begin with
          Requests      \* what may be asked

Cells      == {"exact", "anyResource", "anyAction", "any"}
Permission == [Cells -> {"none", "allow", "deny"}]

ASSUME KeysAssumption == NoKey \notin Keys /\ Tables \subseteq Permission

VARIABLES rows,      \* the api_keys table
          perms,     \* the key_permissions table: key -> cell -> row
          gone,      \* users whose account was deleted
          pc, job,   \* request -> where it is, and what it was asked
          key,       \* request -> the key it works on
          throughout \* history: what stood against a presented key all along

vars == <<rows, perms, gone, pc, job, key, throughout>>

Absent == <<>>
Row    == [owner : Users, name : Names, active : BOOLEAN, expires : {"never", "later", "past"}]
Exists(k) == rows[k] # Absent

\* What a PATCH may give; a field it does not give is not written.
Given   == SUBSET {"name", "active", "expires"}
Create  == [op : {"create"}, user : Users, name : Names, expires : {"never", "later", "past"}]
Issue   == [op : {"issue"}, user : Users, name : Names, expires : {"never"}]
Update  == {j \in [op : {"update"}, user : Users, given : Given,
                   name : Names, active : BOOLEAN, expires : {"never", "later", "past"}] :
              /\ "active" \notin j.given => ~j.active
              /\ "expires" \notin j.given => j.expires = "never"}
Delete  == [op : {"delete"}, user : Users, given : {{"active"}},
            name : Names, active : {FALSE}, expires : {"never"}]
Present == [op : {"present"}]
Job     == Create \cup Issue \cup Update \cup Delete \cup Present

NoPermission == [c \in Cells |-> "none"]

\* There is a key at most to begin with.
Init ==
    /\ \E S \in {{}} \cup {{k} : k \in Keys}, row \in Row, table \in Tables :
        /\ rows = [k \in Keys |-> IF k \in S THEN row ELSE Absent]
        /\ perms = [k \in Keys |-> IF k \in S THEN table ELSE NoPermission]
    /\ gone = {}
    /\ pc = [p \in Procs |-> "new"]
    /\ job = [p \in Procs |-> Absent]
    /\ key = [p \in Procs |-> NoKey]
    /\ throughout = [p \in Procs |-> {}]

Over == {"accepted", "refused", "created", "updated", "exists", "issued", "dead"}

\* A request moves on; one that is over is forgotten, except for what was issued.
Goto(p, where) ==
    /\ pc' = [pc EXCEPT ![p] = where]
    /\ IF where \in Over /\ job[p] \notin Issue
       THEN job' = [job EXCEPT ![p] = Absent] /\ key' = [key EXCEPT ![p] = NoKey]
       ELSE UNCHANGED <<job, key>>

\* A request begins.
Begin(p, j, k, where) ==
    /\ pc[p] = "new"
    /\ pc' = [pc EXCEPT ![p] = where]
    /\ job' = [job EXCEPT ![p] = j]
    /\ key' = [key EXCEPT ![p] = k]
    /\ UNCHANGED <<rows, perms, gone>>

-----------------------------------------------------------------------------
(* What stands against a key, by a definition of its own: of the cells with a *)
(* row, one that no more specific cell overrules decides.                     *)
Overrules == [exact |-> {}, anyResource |-> {"exact"}, anyAction |-> {"exact", "anyResource"},
              any |-> {"exact", "anyResource", "anyAction"}]

Allowed(k) == \E c \in Cells : perms[k][c] = "allow" /\ \A d \in Overrules[c] : perms[k][d] = "none"

Obstacles(k) ==
    {o \in {"inactive", "expired", "ownerless", "forbidden"} :
        CASE o = "inactive"  -> ~rows[k].active
          [] o = "expired"   -> rows[k].expires = "past"
          [] o = "ownerless" -> rows[k].owner \in gone
          [] o = "forbidden" -> ~Allowed(k)}

Validating == {"finding", "owner", "touching"} \cup Cells

\* History: an obstacle is kept as long as it has been there since the request came.
Observe ==
    throughout' = [p \in Procs |->
        CASE pc'[p] \in Validating -> IF pc[p] = "new" THEN Obstacles(key[p])' ELSE throughout[p] \cap Obstacles(key[p])'
          [] pc'[p] = "accepted" -> throughout[p]
          [] OTHER -> {}]

-----------------------------------------------------------------------------
(* Validation *)

PresentKey(p, k) ==
    /\ Exists(k)
    /\ Begin(p, [op |-> "present"], k, "finding")

\* Faulty: the expiry is not looked at.
FindAnyAge(p) ==
    /\ pc[p] = "finding"
    /\ Goto(p, IF rows[key[p]].active THEN "owner" ELSE "refused")
    /\ UNCHANGED <<rows, perms, gone>>

FindKey(p) ==
    /\ pc[p] = "finding"
    /\ Goto(p, IF rows[key[p]].active /\ rows[key[p]].expires # "past" THEN "owner" ELSE "refused")
    /\ UNCHANGED <<rows, perms, gone>>

CheckOwner(p) ==
    /\ pc[p] = "owner"
    /\ Goto(p, IF rows[key[p]].owner \in gone THEN "refused" ELSE "exact")
    /\ UNCHANGED <<rows, perms, gone>>

NextCell == [exact |-> "anyResource", anyResource |-> "anyAction", anyAction |-> "any", any |-> "refused"]

\* The first row found decides, a denial as well.
QueryPermission(p) ==
    /\ pc[p] \in Cells
    /\ Goto(p, CASE perms[key[p]][pc[p]] = "allow" -> "touching"
                 [] perms[key[p]][pc[p]] = "deny"  -> "refused"
                 [] OTHER -> NextCell[pc[p]])
    /\ UNCHANGED <<rows, perms, gone>>

\* Faulty: the key is saved as it was found, not only its last use.
TouchWholeKey(p) ==
    /\ pc[p] = "touching"
    /\ rows' = [rows EXCEPT ![key[p]].active = TRUE]
    /\ Goto(p, "accepted")
    /\ UNCHANGED <<perms, gone>>

\* last_used_at is written and nothing else.
Touch(p) ==
    /\ pc[p] = "touching"
    /\ Goto(p, "accepted")
    /\ UNCHANGED <<rows, perms, gone>>

-----------------------------------------------------------------------------
(* The owner's own requests *)

Insert(p, k) ==
    /\ ~Exists(k)
    /\ rows' = [rows EXCEPT ![k] = [owner |-> job[p].user, name |-> job[p].name,
                                 active |-> TRUE, expires |-> job[p].expires]]
    /\ UNCHANGED <<perms, gone>>

\* A request of a user is authenticated; the seed runs outside any request.
Ask(p, j) ==
    /\ j.op = "create" => j.user \notin gone
    /\ Begin(p, j, NoKey, IF j.op = "create" THEN "creating" ELSE "naming")

AskAbout(p, j, k) == j.user \notin gone /\ Begin(p, j, k, "checking")

CreateKey(p, k) == pc[p] = "creating" /\ Insert(p, k) /\ Goto(p, "created")

CheckAccess(p) ==
    /\ pc[p] = "checking"
    /\ Goto(p, IF Exists(key[p]) /\ rows[key[p]].owner = job[p].user THEN "updating" ELSE "refused")
    /\ UNCHANGED <<rows, perms, gone>>

\* Only the fields that were given.
UpdateKey(p) ==
    /\ pc[p] = "updating"
    /\ LET j == job[p]
       IN  rows' = [rows EXCEPT ![key[p]].name    = IF "name" \in j.given THEN j.name ELSE @,
                                ![key[p]].active  = IF "active" \in j.given THEN j.active ELSE @,
                                ![key[p]].expires = IF "expires" \in j.given THEN j.expires ELSE @]
    /\ Goto(p, "updated")
    /\ UNCHANGED <<perms, gone>>

-----------------------------------------------------------------------------
(* Issuing a key with one permission: a check, and two commits. *)

CheckName(p) ==
    /\ pc[p] = "naming"
    /\ Goto(p, IF \E k \in Keys : Exists(k) /\ rows[k].owner = job[p].user /\ rows[k].name = job[p].name
               THEN "exists" ELSE "minting")
    /\ UNCHANGED <<rows, perms, gone>>

MintKey(p, k) ==
    /\ pc[p] = "minting"
    /\ Insert(p, k)
    /\ pc' = [pc EXCEPT ![p] = "granting"]
    /\ key' = [key EXCEPT ![p] = k]
    /\ UNCHANGED job

\* Faulty: the permission is granted on every action.
GrantAll(p) ==
    /\ pc[p] = "granting"
    /\ perms' = [perms EXCEPT ![key[p]].anyAction = "allow"]
    /\ Goto(p, "issued")
    /\ UNCHANGED <<rows, gone>>

Grant(p) ==
    /\ pc[p] = "granting"
    /\ perms' = [perms EXCEPT ![key[p]].exact = "allow"]
    /\ Goto(p, "issued")
    /\ UNCHANGED <<rows, gone>>

-----------------------------------------------------------------------------
(* What happens around them *)

Expire(k) ==
    /\ Exists(k) /\ rows[k].expires = "later"
    /\ rows' = [rows EXCEPT ![k].expires = "past"]
    /\ UNCHANGED <<perms, gone, pc, job, key>>

DeleteOwner(u) ==
    /\ u \notin gone
    /\ gone' = gone \cup {u}
    /\ UNCHANGED <<rows, perms, pc, job, key>>

Crash(p) ==
    /\ pc[p] \notin Over \cup {"new"}
    /\ Goto(p, "dead")
    /\ UNCHANGED <<rows, perms, gone>>

Step ==
    \/ \E p \in Procs :
        \/ \E k \in Keys : PresentKey(p, k)
        \/ FindKey(p)
        \/ CheckOwner(p)
        \/ QueryPermission(p)
        \/ Touch(p)
        \/ \E j \in Requests \cap (Create \cup Issue) : Ask(p, j)
        \/ \E j \in Requests \cap (Update \cup Delete), k \in Keys : AskAbout(p, j, k)
        \/ \E k \in Keys : CreateKey(p, k)
        \/ CheckAccess(p)
        \/ UpdateKey(p)
        \/ CheckName(p)
        \/ \E k \in Keys : MintKey(p, k)
        \/ Grant(p)
        \/ Crash(p)
    \/ \E k \in Keys : Expire(k)
    \/ \E u \in Users : DeleteOwner(u)

Next == Step /\ Observe

Spec == Init /\ [][Next]_vars

-----------------------------------------------------------------------------
TypeOK ==
    /\ rows \in [Keys -> Row \cup {Absent}]
    /\ perms \in [Keys -> Permission]
    /\ gone \subseteq Users
    /\ pc \in [Procs -> Validating \cup Over \cup {"new", "creating", "checking", "updating", "naming", "minting", "granting"}]
    /\ job \in [Procs -> Job \cup {Absent}]
    /\ key \in [Procs -> Keys \cup {NoKey}]
    /\ throughout \in [Procs -> SUBSET {"inactive", "expired", "ownerless", "forbidden"}]

\* A key that was inactive, expired, without its owner or without permission from
\* the moment it was presented until the answer is refused, although its checks
\* are queries of their own and permissions are granted between them.
RevocationIsEffective == \A p \in Procs : pc[p] = "accepted" => throughout[p] = {}

\* A key that was deactivated stays so until its owner asks for it to be active:
\* no overlapping validation or update of another field brings it back.
RevocationSticks ==
    [][\A k \in Keys : Exists(k) /\ ~rows[k].active /\ rows'[k].active =>
          \E p \in Procs : /\ pc[p] = "updating" /\ pc'[p] = "updated" /\ key[p] = k
                           /\ "active" \in job[p].given /\ job[p].active
                           /\ job[p].user = rows[k].owner]_vars

\* A key the seed has printed has the permission it was issued for, and no other;
\* one whose issuing was cut short has none.
IssuedIsScoped ==
    \A p \in Procs :
        /\ job[p] \in Issue /\ pc[p] = "issued" =>
              perms[key[p]] = [NoPermission EXCEPT !.exact = "allow"]
        /\ job[p] \in Issue /\ pc[p] \in {"granting", "dead"} /\ key[p] # NoKey => ~Allowed(key[p])
=============================================================================
