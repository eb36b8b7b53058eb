---------------------------- MODULE UserAccounts ----------------------------
(***************************************************************************)
(* User accounts and their tiers: signing up, changing a profile or a      *)
(* tier, deactivating and anonymizing an account, the back office's forms, *)
(* the removal of a tier and the script that makes the first superuser.    *)
(*                                                                         *)
(* Every request checks what it has to in queries of its own, and writes   *)
(* by primary key at the end; other requests run in between.  What the     *)
(* checks cannot keep, the unique indexes and the foreign key of the       *)
(* tables do: a statement that breaks one of them fails.                   *)
(*                                                                         *)
(* Of a profile there is only whether it tells who the user is, and the    *)
(* identity at a provider (google_id, github_id) the account is linked to: *)
(* it is a column of the profile, and anybody may give it.  The user name  *)
(* an anonymized account gets is made of its id, so the id stands for it;  *)
(* anybody may have taken it before.                                       *)
(***************************************************************************)
EXTENDS FiniteSets

CONSTANTS Ids, Names, Emails, Links, Tiers, Procs, NoLink, NoTier, NoId,
          Requests      \* what may be asked

ASSUME AccountsAssumption ==
    NoLink \notin Links /\ NoTier \notin Tiers /\ NoId \notin Ids /\ Ids \cap Names = {}

VARIABLES users,      \* the user table: id -> row
          tiers,      \* the rows of the tiers table
          limited,    \* the tiers with a row in rate_limits
          pc, job,    \* request -> where it is, and what it was asked
          me,         \* request -> the user it was authenticated as
          key, seen   \* request -> the account it works on, and the row it read

vars == <<users, tiers, limited, pc, job, me, key, seen>>

Absent == <<>>
Row == [username : Names \cup Ids, email : Emails, link : Links \cup {NoLink}, personal : BOOLEAN,
        password : BOOLEAN, super : BOOLEAN, tier : Tiers \cup {NoTier}, deleted : BOOLEAN]
Me  == [username : Names \cup Ids, super : BOOLEAN]

SignUp     == [op : {"signup"}, username : Names \cup Ids, email : Emails, link : Links \cup {NoLink}]
Bootstrap  == [op : {"bootstrap"}, username : Names, email : Emails]
Update     == [op : {"update"}, by : Ids, target : Names \cup Ids,
               given : SUBSET {"profile", "username", "email", "link"},
               username : Names, email : Emails, link : Links \cup {NoLink}]
Retier     == [op : {"retier"}, by : Ids, target : Names \cup Ids, tier : Tiers]
Deactivate == [op : {"deactivate"}, by : Ids, target : Names \cup Ids]
Erase      == [op : {"erase"}, by : Ids, target : Names \cup Ids]
Add        == [op : {"add"}, username : Names, email : Emails, super : BOOLEAN, tier : Tiers \cup {NoTier}]
Edit       == [op : {"edit"}, id : Ids, username : Names, email : Emails, link : Links \cup {NoLink},
               super : BOOLEAN, tier : Tiers \cup {NoTier}]
AdminErase == [op : {"adminErase"}, id : Ids]
DropTier   == [op : {"dropTier"}, tier : Tiers]

ByUser == Update \cup Retier \cup Deactivate \cup Erase
Job    == SignUp \cup Bootstrap \cup ByUser \cup Add \cup Edit \cup AdminErase \cup DropTier

Exists(i) == users[i] # Absent

\* A row of anybody's takes the value, a deleted one as well.
TakenName(name, i)   == \E k \in Ids \ {i} : Exists(k) /\ users[k].username = name
TakenEmail(email, i) == \E k \in Ids \ {i} : Exists(k) /\ users[k].email = email
TakenLink(link, i)   == link # NoLink /\ \E k \in Ids \ {i} : Exists(k) /\ users[k].link = link

\* The back office's form for a new user also has the two columns the others leave;
\* only a registration may come with an identity.
NewRow(j) == [username |-> j.username, email |-> j.email, link |-> IF j.op = "signup" THEN j.link ELSE NoLink,
              personal |-> TRUE, password |-> TRUE, super |-> j.op = "add" /\ j.super, tier |-> IF j.op = "add" THEN j.tier ELSE NoTier,
              deleted |-> FALSE]

\* One superuser, and a tier at most that is in use or not.
Init ==
    /\ \E i \in Ids, name \in Names, email \in Emails, t \in Tiers \cup {NoTier} :
        /\ users = [k \in Ids |->
               IF k = i THEN NewRow([op |-> "add", username |-> name, email |-> email, super |-> TRUE, tier |-> t])
               ELSE Absent]
        /\ tiers \in SUBSET Tiers /\ t \in tiers \cup {NoTier}
        /\ limited \in SUBSET tiers
    /\ pc = [p \in Procs |-> "new"]
    /\ job = [p \in Procs |-> Absent]
    /\ me = [p \in Procs |-> Absent]
    /\ key = [p \in Procs |-> NoId]
    /\ seen = [p \in Procs |-> Absent]

Over == {"done", "refused", "error", "dead"}

\* A request moves on; one that is over is forgotten.
Goto(p, where) ==
    /\ pc' = [pc EXCEPT ![p] = where]
    /\ IF where \in Over
       THEN /\ job' = [job EXCEPT ![p] = Absent] /\ me' = [me EXCEPT ![p] = Absent]
            /\ key' = [key EXCEPT ![p] = NoId] /\ seen' = [seen EXCEPT ![p] = Absent]
       ELSE UNCHANGED <<job, me, key, seen>>

tables == <<users, tiers, limited>>

-----------------------------------------------------------------------------
(* Signing up, and the script that makes the first superuser. *)

Begin(p, j, where) ==
    /\ pc[p] = "new"
    /\ pc' = [pc EXCEPT ![p] = where]
    /\ job' = [job EXCEPT ![p] = j]
    /\ UNCHANGED <<me, key, seen>>

Register(p, j) == Begin(p, j, "emailing") /\ UNCHANGED tables

\* A live account with the address ends the script, superuser or not: the row it
\* makes one of is a copy.
LookForAdmin(p, j) ==
    /\ Begin(p, j, IF \E i \in Ids : Exists(i) /\ users[i].email = j.email /\ ~users[i].deleted
                   THEN "listed" ELSE "emailing")
    /\ UNCHANGED tables

Listed(p) == pc[p] = "listed" /\ Goto(p, "done") /\ UNCHANGED tables

\* What the request is going to write that others may have.
NewEmail(p) == job[p].op # "update" \/ ("email" \in job[p].given /\ job[p].email # seen[p].email)
NewName(p)  == job[p].op # "update" \/ ("username" \in job[p].given /\ job[p].username # seen[p].username)

CheckEmail(p) ==
    /\ pc[p] = "emailing"
    /\ Goto(p, IF NewEmail(p) /\ TakenEmail(job[p].email, NoId) THEN "refused" ELSE "naming")
    /\ UNCHANGED tables

CheckName(p) ==
    /\ pc[p] = "naming"
    /\ Goto(p, IF NewName(p) /\ TakenName(job[p].username, NoId) THEN "refused"
               ELSE IF job[p].op = "update" THEN "writing" ELSE "inserting")
    /\ UNCHANGED tables

\* The indexes and the foreign key, for a row that account is to have.
Fits(row, i) ==
    /\ ~TakenName(row.username, i) /\ ~TakenEmail(row.email, i) /\ ~TakenLink(row.link, i)
    /\ row.tier \in tiers \cup {NoTier}

\* Faulty: no unique index.
InsertUnchecked(p, i) ==
    /\ pc[p] = "inserting" /\ ~Exists(i)
    /\ users' = [users EXCEPT ![i] = NewRow(job[p])]
    /\ Goto(p, "done")
    /\ UNCHANGED <<tiers, limited>>

Insert(p, i) ==
    /\ pc[p] = "inserting" /\ ~Exists(i)
    /\ IF ~Fits(NewRow(job[p]), i)
       THEN Goto(p, "error") /\ UNCHANGED users
       ELSE /\ users' = [users EXCEPT ![i] = NewRow(job[p])]
            /\ IF job[p].op = "bootstrap"
               THEN /\ pc' = [pc EXCEPT ![p] = "promoting"]
                    /\ key' = [key EXCEPT ![p] = i]
                    /\ UNCHANGED <<job, me, seen>>
               ELSE Goto(p, "done")
    /\ UNCHANGED <<tiers, limited>>

\* The script's second commit.
Promote(p) ==
    /\ pc[p] = "promoting"
    /\ users' = [users EXCEPT ![key[p]].super = TRUE]
    /\ Goto(p, "done")
    /\ UNCHANGED <<tiers, limited>>

-----------------------------------------------------------------------------
(* Requests of a signed-in user *)

\* Whose session it is, unless that account is gone; some requests are the superusers'.
Authenticate(p, j) ==
    /\ IF /\ Exists(j.by) /\ ~users[j.by].deleted
          /\ j.op \in {"retier", "erase"} => users[j.by].super
       THEN /\ pc[p] = "new"
            /\ pc' = [pc EXCEPT ![p] = "finding"]
            /\ job' = [job EXCEPT ![p] = j]
            /\ me' = [me EXCEPT ![p] = [username |-> users[j.by].username, super |-> users[j.by].super]]
            /\ UNCHANGED <<key, seen>>
       ELSE pc[p] = "new" /\ Goto(p, "refused")
    /\ UNCHANGED tables

\* Superusers act on everybody, others on the account with the name they came with.
MayUpdate(p) == me[p].super \/ me[p].username = job[p].target

\* The account of that name; a deleted one can only be erased.
Found(p) == {i \in Ids : Exists(i) /\ users[i].username = job[p].target
                           /\ (job[p].op # "erase" => ~users[i].deleted)}

Find(p) ==
    /\ pc[p] = "finding"
    /\ IF Found(p) = {} \/ ~MayUpdate(p)
       THEN Goto(p, "refused")
       ELSE /\ \E i \in Found(p) : key' = [key EXCEPT ![p] = i]
            /\ pc' = [pc EXCEPT ![p] = IF job[p].op \in {"update", "retier"} THEN "reading" ELSE "writing"]
            /\ UNCHANGED <<job, me, seen>>
    /\ UNCHANGED tables

\* The row again, by its id, for what the checks compare it with.
Read(p) ==
    /\ pc[p] = "reading"
    /\ IF users[key[p]].deleted
       THEN Goto(p, "refused")
       ELSE /\ seen' = [seen EXCEPT ![p] = users[key[p]]]
            /\ pc' = [pc EXCEPT ![p] = IF job[p].op = "update" THEN "emailing" ELSE "tiering"]
            /\ UNCHANGED <<job, me, key>>
    /\ UNCHANGED tables

CheckTier(p) ==
    /\ pc[p] = "tiering"
    /\ Goto(p, IF job[p].tier \in tiers THEN "writing" ELSE "refused")
    /\ UNCHANGED tables

\* The columns that were given, and no other.
Updated(row, j) ==
    [row EXCEPT !.personal = @ \/ j.given # {},
                !.username = IF "username" \in j.given THEN j.username ELSE @,
                !.email    = IF "email" \in j.given THEN j.email ELSE @,
                !.link     = IF "link" \in j.given THEN j.link ELSE @]

\* What anonymizing leaves: the address, and a name made of the id.
Erased(row, i) == [username |-> i, email |-> row.email, link |-> NoLink, personal |-> FALSE, password |-> FALSE,
                   super |-> FALSE, tier |-> NoTier, deleted |-> TRUE]

\* Faulty: the row is saved as it was read.
WrittenWhole(p) ==
    LET row == users[key[p]]
        old == IF seen[p] = Absent THEN row ELSE seen[p]
        j   == job[p]
    IN  CASE j.op = "update"     -> Updated(old, j)
          [] j.op = "retier"     -> [old EXCEPT !.tier = j.tier]
          [] j.op = "deactivate" -> [row EXCEPT !.deleted = TRUE]
          [] OTHER               -> Erased(row, key[p])

Written(p) ==
    LET row == users[key[p]]
        j   == job[p]
    IN  CASE j.op = "update"     -> Updated(row, j)
          [] j.op = "retier"     -> [row EXCEPT !.tier = j.tier]
          [] j.op = "deactivate" -> [row EXCEPT !.deleted = TRUE]
          [] OTHER               -> Erased(row, key[p])

\* The UPDATE looks at nothing but the id.
Write(p) ==
    /\ pc[p] = "writing"
    /\ IF Fits(Written(p), key[p])
       THEN users' = [users EXCEPT ![key[p]] = Written(p)] /\ Goto(p, "done")
       ELSE Goto(p, "error") /\ UNCHANGED users
    /\ UNCHANGED <<tiers, limited>>

-----------------------------------------------------------------------------
(* The back office *)

\* No check comes before the INSERT.
AddUser(p, j) == Begin(p, j, "inserting") /\ UNCHANGED tables

\* The form is compared with the row it is loaded into.
OpenUser(p, j) ==
    /\ Exists(j.id) /\ pc[p] = "new"
    /\ pc' = [pc EXCEPT ![p] = "saving"]
    /\ job' = [job EXCEPT ![p] = j]
    /\ key' = [key EXCEPT ![p] = j.id]
    /\ seen' = [seen EXCEPT ![p] = users[j.id]]
    /\ UNCHANGED <<me, tables>>

\* The columns in which the form differs from that row; it gives another name.
Merged(row, old, j) ==
    [row EXCEPT !.username = IF j.username = old.username THEN @ ELSE j.username,
                !.email    = IF j.email = old.email THEN @ ELSE j.email,
                !.link     = IF j.link = old.link THEN @ ELSE j.link,
                !.super    = IF j.super = old.super THEN @ ELSE j.super,
                !.tier     = IF j.tier = old.tier THEN @ ELSE j.tier,
                !.personal = TRUE]

SaveUser(p) ==
    /\ pc[p] = "saving"
    /\ LET row == Merged(users[key[p]], seen[p], job[p])
       IN  IF Fits(row, key[p])
           THEN users' = [users EXCEPT ![key[p]] = row] /\ Goto(p, "done")
           ELSE Goto(p, "error") /\ UNCHANGED users
    /\ UNCHANGED <<tiers, limited>>

\* Deleting a user there anonymizes it.
EraseUser(p, j) ==
    /\ Exists(j.id) /\ pc[p] = "new"
    /\ pc' = [pc EXCEPT ![p] = "writing"]
    /\ job' = [job EXCEPT ![p] = j]
    /\ key' = [key EXCEPT ![p] = j.id]
    /\ UNCHANGED <<me, seen, tables>>

StartDrop(p, j) == Begin(p, j, IF j.tier \in tiers THEN "unused" ELSE "listed") /\ UNCHANGED tables

CheckUsers(p) ==
    /\ pc[p] = "unused"
    /\ Goto(p, IF \E i \in Ids : Exists(i) /\ users[i].tier = job[p].tier THEN "refused" ELSE "unlimited")
    /\ UNCHANGED tables

CheckLimits(p) ==
    /\ pc[p] = "unlimited"
    /\ Goto(p, IF job[p].tier \in limited THEN "refused" ELSE "dropping")
    /\ UNCHANGED tables

\* Faulty: no foreign key.
DropUnchecked(p) ==
    /\ pc[p] = "dropping"
    /\ tiers' = tiers \ {job[p].tier}
    /\ Goto(p, "done")
    /\ UNCHANGED <<users, limited>>

Drop(p) ==
    /\ pc[p] = "dropping"
    /\ IF job[p].tier \in limited \/ \E i \in Ids : Exists(i) /\ users[i].tier = job[p].tier
       THEN Goto(p, "error") /\ UNCHANGED tiers
       ELSE tiers' = tiers \ {job[p].tier} /\ Goto(p, "done")
    /\ UNCHANGED <<users, limited>>

\* A superuser removes the last rate limit of a tier; no route or form makes one.
DeleteLimits(t) ==
    /\ t \in limited
    /\ limited' = limited \ {t}
    /\ UNCHANGED <<users, tiers, pc, job, me, key, seen>>

Crash(p) == pc[p] \notin Over \cup {"new"} /\ Goto(p, "dead") /\ UNCHANGED tables

Next ==
    \/ \E p \in Procs :
        \/ \E j \in Requests \cap SignUp : Register(p, j)
        \/ \E j \in Requests \cap Bootstrap : LookForAdmin(p, j)
        \/ Listed(p)
        \/ CheckEmail(p)
        \/ CheckName(p)
        \/ \E i \in Ids : Insert(p, i)
        \/ Promote(p)
        \/ \E j \in Requests \cap ByUser : Authenticate(p, j)
        \/ Find(p)
        \/ Read(p)
        \/ CheckTier(p)
        \/ Write(p)
        \/ \E j \in Requests \cap Add : AddUser(p, j)
        \/ \E j \in Requests \cap Edit : OpenUser(p, j)
        \/ SaveUser(p)
        \/ \E j \in Requests \cap AdminErase : EraseUser(p, j)
        \/ \E j \in Requests \cap DropTier : StartDrop(p, j)
        \/ CheckUsers(p)
        \/ CheckLimits(p)
        \/ Drop(p)
        \/ Crash(p)
    \/ \E t \in Tiers : DeleteLimits(t)

Spec == Init /\ [][Next]_vars

-----------------------------------------------------------------------------
TypeOK ==
    /\ users \in [Ids -> Row \cup {Absent}]
    /\ tiers \subseteq Tiers /\ limited \subseteq Tiers
    /\ pc \in [Procs -> Over \cup {"new", "listed", "emailing", "naming", "inserting", "promoting", "finding", "reading",
                                   "tiering", "writing", "saving", "unused", "unlimited", "dropping"}]
    /\ job \in [Procs -> Job \cup {Absent}]
    /\ me \in [Procs -> Me \cup {Absent}]
    /\ key \in [Procs -> Ids \cup {NoId}]
    /\ seen \in [Procs -> Row \cup {Absent}]

\* However many registrations and changes pass their checks at once, no two
\* accounts share a user name, an address or an identity at a provider.
PeopleAreUnique ==
    \A i, k \in Ids : i # k /\ Exists(i) /\ Exists(k) =>
        /\ users[i].username # users[k].username /\ users[i].email # users[k].email
        /\ users[i].link = users[k].link => users[i].link = NoLink

\* A tier in use is not removed, whatever is assigned while its removal is checked.
TiersHold ==
    /\ \A i \in Ids : Exists(i) => users[i].tier \in tiers \cup {NoTier}
    /\ limited \subseteq tiers

\* However late a change that was checked before lands: a deleted account stays
\* deleted, which is what keeps everybody out of it, and the password of an
\* anonymized one stays unusable.  The identity it was linked to may come back.
GoneStaysGone ==
    [][\A i \in Ids : Exists(i) =>
          /\ Exists(i)'
          /\ users[i].deleted => users'[i].deleted
          /\ ~users[i].password => ~users'[i].password]_vars

\* Only accounts that are not deleted are updated: all that is left to do with a
\* deleted one is to anonymize it.
OnlyLiveAccountsAreUpdated ==
    [][\A i \in Ids : Exists(i) /\ users[i].deleted => users'[i] \in {users[i], Erased(users[i], i)}]_vars
=============================================================================
