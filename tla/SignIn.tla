------------------------------- MODULE SignIn -------------------------------
(***************************************************************************)
(* Signing in and out, and the gates in front of the pages and the back    *)
(* office.  The pages and the API share sessions that live in Redis, with  *)
(* a cookie that names one; the back office keeps its own session in a     *)
(* signed cookie, so what a request has of it is a copy, and the browser   *)
(* gets it back with the answer.                                           *)
(*                                                                         *)
(* Neither remembers what its user may do for longer than a request: every *)
(* gate reads the account and its permissions again, in queries of its     *)
(* own, while roles are granted and revoked and accounts come to an end.   *)
(*                                                                         *)
(* A session is named after the request that made it.                      *)
(***************************************************************************)
EXTENDS FiniteSets

CONSTANTS Users, Browsers, Perms, Procs, NoUser, NoSession,
          AdminPerm,    \* platform.admin
          Grants,       \* the permissions that roles may add up to
          Plans         \* what the requests may ask, each of them

VARIABLES account,    \* user -> what the database says of it
          sessions,   \* session -> its user, or none
          states,     \* the OAuth round trips under way
          cookie,     \* browser -> the session it names
          admin,      \* browser -> its session in the back office
          events,     \* request -> the audit event it committed
          pc, job,    \* request -> where it is, and what it was asked
          own,        \* request -> what it carries: the session and the user it acts for,
                      \* its copy of the back-office session, and the account as it read it
          throughout  \* history: what stood against a request all along

store == <<account, sessions, states, cookie, admin, events>>
local == <<pc, job, own>>
vars  == <<store, local, throughout>>

Absent  == <<>>
Account == [deleted : BOOLEAN, super : BOOLEAN, perms : SUBSET Perms]
Holder  == Users \cup {NoUser}

\* Of the history there is whether the browser signed in with the configured pair last.
AdminSession == [user : Holder, super : BOOLEAN, perms : SUBSET Perms, glass : BOOLEAN]

\* The browser stands for the address, and the session is there for the properties.
Event == [event : {"login", "login_failed", "logout"}, actor : Holder, browser : Browsers,
          session : Procs \cup {NoSession}]

\* What a request carries.
Own  == [sid : Procs \cup {NoSession}, who : Holder, mine : AdminSession \cup {Absent}, seen : Account \cup {Absent}]
Idle == [sid |-> NoSession, who |-> NoUser, mine |-> Absent, seen |-> Absent]

Page        == [op : {"page"}, browser : Browsers, need : Perms]
Login       == [op : {"login"}, browser : Browsers, user : Users, form : BOOLEAN]
Logout      == [op : {"logout"}, browser : Browsers, form : BOOLEAN]
Consent     == [op : {"consent"}, browser : Browsers]
Callback    == [op : {"callback"}, browser : Browsers, user : Users, state : Procs]
AdminLogin  == [op : {"adminlogin"}, browser : Browsers, user : Users]
BreakGlass  == [op : {"breakglass"}, browser : Browsers]
AdminPage   == [op : {"adminpage"}, browser : Browsers, need : Perms]
AdminLogout == [op : {"adminlogout"}, browser : Browsers]
Job == Page \cup Login \cup Logout \cup Consent \cup Callback
         \cup AdminLogin \cup BreakGlass \cup AdminPage \cup AdminLogout

ASSUME SignInAssumption ==
    /\ NoUser \notin Users /\ NoSession \notin Procs /\ AdminPerm \in Perms
    /\ Grants \subseteq SUBSET Perms
    /\ Plans \subseteq [Procs -> Job]

Init ==
    /\ account \in [Users -> {a \in Account : ~a.deleted /\ a.perms \in Grants}]
    /\ sessions = [s \in Procs |-> NoUser]
    /\ states = {}
    /\ cookie = [b \in Browsers |-> NoSession]
    /\ admin = [b \in Browsers |-> Absent]
    /\ events = [p \in Procs |-> Absent]
    /\ pc = [p \in Procs |-> "new"]
    /\ job \in Plans
    /\ own = [p \in Procs |-> Idle]
    /\ throughout = [p \in Procs |-> {}]

\* A request moves on with what it carries; of one that is over nothing is left.
Goto(p, where, what) ==
    /\ pc' = [pc EXCEPT ![p] = where]
    /\ job' = [job EXCEPT ![p] = IF where = "over" THEN Absent ELSE @]
    /\ own' = [own EXCEPT ![p] = IF where = "over" THEN Idle ELSE what]

-----------------------------------------------------------------------------
(* What stands against a request for a page, by a definition of its own. *)
Need(j) == IF j.op = "adminpage" THEN {AdminPerm, j.need} ELSE {j.need}

Live(s) == s \in Procs /\ sessions[s] # NoUser

Obstacles(p) ==
    {o \in {"signedout", "deleted", "forbidden"} :
        CASE o = "signedout" -> job[p].op = "page" /\ ~Live(own[p].sid)
          [] o = "deleted"   -> own[p].who \in Users /\ account[own[p].who].deleted
          [] o = "forbidden" -> /\ job[p].op \in {"page", "adminpage"}
                                /\ own[p].who \in Users /\ ~account[own[p].who].super
                                /\ ~Need(job[p]) \subseteq account[own[p].who].perms}

Checking == {"validating", "loading", "resolving", "admitting", "refreshing", "viewing"}

\* History: an obstacle is kept as long as it has been there since the request came.
Observe ==
    throughout' = [p \in Procs |->
        CASE pc'[p] \in Checking  -> IF pc[p] = "new" THEN Obstacles(p)' ELSE throughout[p] \cap Obstacles(p)'
          [] pc'[p] = "granted" -> throughout[p]
          [] OTHER -> {}]

-----------------------------------------------------------------------------
(* Requests come with the cookies of their browser. *)

BackOffice == {"adminlogin", "breakglass", "adminpage", "adminlogout"}

First == [page |-> "validating", login |-> "authenticating", logout |-> "validating", consent |-> "consenting",
          callback |-> "returning", adminlogin |-> "authenticating", breakglass |-> "matching",
          adminpage |-> "admitting", adminlogout |-> "leaving"]

\* The user is the one of the session, or who signs in.
Bearer(j) ==
    LET s == cookie[j.browser]
        a == admin[j.browser]
    IN  CASE j.op \in {"page", "logout"} /\ s # NoSession -> sessions[s]
          [] j.op \in {"adminpage", "adminlogout"} /\ a # Absent -> a.user
          [] j.op \in {"login", "callback", "adminlogin"} -> j.user
          [] OTHER -> NoUser

Arrive(p) ==
    LET j == job[p]
    IN  /\ pc[p] = "new"
        /\ Goto(p, First[j.op], [sid  |-> IF j.op \in {"page", "logout"} THEN cookie[j.browser] ELSE NoSession,
                                 who  |-> Bearer(j),
                                 mine |-> IF j.op \in BackOffice THEN admin[j.browser] ELSE Absent,
                                 seen |-> Absent])
        /\ UNCHANGED store

\* The session is looked up; the API signs out without the account.
Validate(p) ==
    /\ pc[p] = "validating"
    /\ Goto(p, IF ~Live(own[p].sid) THEN "over"
               ELSE IF job[p].op = "logout" /\ ~job[p].form THEN "revoking" ELSE "loading", own[p])
    /\ UNCHANGED store

Loaded(p) == [own[p] EXCEPT !.seen = account[own[p].who]]

Load(p) ==
    /\ pc[p] = "loading"
    /\ Goto(p, IF account[own[p].who].deleted THEN "over"
               ELSE IF job[p].op = "logout" THEN "revoking" ELSE "resolving", Loaded(p))
    /\ UNCHANGED store

\* Superusers hold every permission, others what their roles give them now.
Held(p) == IF own[p].seen.super THEN Perms ELSE account[own[p].who].perms

Resolve(p) ==
    /\ pc[p] = "resolving"
    /\ Goto(p, IF job[p].need \in Held(p) THEN "granted" ELSE "over", own[p])
    /\ UNCHANGED store

-----------------------------------------------------------------------------
(* Signing in *)

\* The back office answers with the session it was sent, if it was sent one.
Reject(p) == Goto(p, IF own[p].mine = Absent THEN "over" ELSE "answering", own[p])

\* The password is right or not; only the form records that it was not.
Authenticate(p) ==
    /\ pc[p] = "authenticating"
    /\ \/ Goto(p, IF job[p].op = "login" THEN "opening" ELSE "permitting", Loaded(p))
       \/ IF job[p] \in Login /\ job[p].form THEN Goto(p, "failing", own[p]) ELSE Reject(p)
    /\ UNCHANGED store

Committed(p, event, actor, session) ==
    events' = [events EXCEPT ![p] = [event |-> event, actor |-> actor, browser |-> job[p].browser, session |-> session]]

RecordFailure(p) ==
    /\ pc[p] = "failing"
    /\ Committed(p, "login_failed", NoUser, NoSession)
    /\ Goto(p, "over", own[p])
    /\ UNCHANGED <<account, sessions, states, cookie, admin>>

\* A round trip to the provider, which the state survives if it fails.
StartConsent(p) ==
    /\ pc[p] = "consenting"
    /\ states' = states \cup {p}
    /\ Goto(p, "over", own[p])
    /\ UNCHANGED <<account, sessions, cookie, admin, events>>

Return(p) ==
    /\ pc[p] = "returning"
    /\ Goto(p, IF job[p].state \in states THEN "exchanging" ELSE "over", own[p])
    /\ UNCHANGED store

Exchange(p) ==
    /\ pc[p] = "exchanging"
    /\ Goto(p, "opening", own[p]) \/ Goto(p, "over", own[p])
    /\ UNCHANGED store

\* Faulty: the answer does not wait for the record.
OpenUnrecorded(p) ==
    /\ pc[p] = "opening"
    /\ sessions' = [sessions EXCEPT ![p] = own[p].who]
    /\ Goto(p, "answering", [own[p] EXCEPT !.sid = p])
    /\ UNCHANGED <<account, states, cookie, admin, events>>

Open(p) ==
    /\ pc[p] = "opening"
    /\ sessions' = [sessions EXCEPT ![p] = own[p].who]
    /\ Goto(p, "recording", [own[p] EXCEPT !.sid = p])
    /\ UNCHANGED <<account, states, cookie, admin, events>>

\* The configured pair signs in without a user; what the session had stays in it.
Match(p) ==
    /\ pc[p] = "matching"
    /\ Goto(p, "recording", [own[p] EXCEPT !.mine =
           IF @ = Absent THEN [user |-> NoUser, super |-> FALSE, perms |-> {}, glass |-> TRUE]
           ELSE [@ EXCEPT !.glass = TRUE]])
    /\ UNCHANGED store

Refreshed(p) ==
    [own[p] EXCEPT !.mine = [user |-> own[p].who, super |-> own[p].seen.super, perms |-> Held(p),
                             glass |-> job[p].op = "adminpage" /\ @ # Absent /\ @.glass]]

MayAdminister(p) == own[p].seen.super \/ AdminPerm \in Held(p)

Permit(p) ==
    /\ pc[p] = "permitting"
    /\ IF MayAdminister(p) THEN Goto(p, "recording", Refreshed(p)) ELSE Reject(p)
    /\ UNCHANGED store

Record(p) ==
    /\ pc[p] = "recording"
    /\ Committed(p, "login", own[p].who, own[p].sid)
    /\ Goto(p, IF job[p].op = "callback" THEN "dropping" ELSE "answering", own[p])
    /\ UNCHANGED <<account, sessions, states, cookie, admin>>

DropState(p) ==
    /\ pc[p] = "dropping"
    /\ states' = states \ {job[p].state}
    /\ Goto(p, "answering", own[p])
    /\ UNCHANGED <<account, sessions, cookie, admin, events>>

-----------------------------------------------------------------------------
(* Signing out *)

\* Faulty: the session is left to expire.
RevokeLater(p) ==
    /\ pc[p] = "revoking"
    /\ Goto(p, "signingout", own[p])
    /\ UNCHANGED store

Revoke(p) ==
    /\ pc[p] = "revoking"
    /\ sessions' = [sessions EXCEPT ![own[p].sid] = NoUser]
    /\ Goto(p, "signingout", own[p])
    /\ UNCHANGED <<account, states, cookie, admin, events>>

RecordLogout(p) ==
    /\ pc[p] = "signingout"
    /\ Committed(p, "logout", own[p].who, own[p].sid)
    /\ Goto(p, "answering", own[p])
    /\ UNCHANGED <<account, sessions, states, cookie, admin>>

Cleared(p) == [own[p] EXCEPT !.mine = Absent]

\* There is nothing to record of a browser that was not signed in.
Leave(p) ==
    /\ pc[p] = "leaving"
    /\ IF own[p].mine = Absent
       THEN Goto(p, "over", own[p]) /\ UNCHANGED events
       ELSE Goto(p, "answering", Cleared(p)) /\ Committed(p, "logout", own[p].who, NoSession)
    /\ UNCHANGED <<account, sessions, states, cookie, admin>>

-----------------------------------------------------------------------------
(* The gate of the back office *)

LoadAdmin(p) ==
    /\ pc[p] = "admitting"
    /\ \/ own[p].mine = Absent /\ Goto(p, "over", own[p])
       \/ own[p].mine # Absent /\ own[p].who = NoUser /\ Goto(p, "viewing", own[p])
       \/ /\ own[p].mine # Absent /\ own[p].who # NoUser
          /\ IF account[own[p].who].deleted
             THEN Goto(p, "answering", Cleared(p))
             ELSE Goto(p, "refreshing", Loaded(p))
    /\ UNCHANGED store

\* Faulty: the session goes on with what it was opened with.
KeepSnapshot(p) ==
    /\ pc[p] = "refreshing"
    /\ Goto(p, "viewing", own[p])
    /\ UNCHANGED store

Refresh(p) ==
    /\ pc[p] = "refreshing"
    /\ IF MayAdminister(p) THEN Goto(p, "viewing", Refreshed(p)) ELSE Goto(p, "answering", Cleared(p))
    /\ UNCHANGED store

\* A view asks the session: one without a user passes for a superuser's.
View(p) ==
    LET a == own[p].mine
    IN  /\ pc[p] = "viewing"
        /\ Goto(p, IF a.user = NoUser \/ a.super \/ job[p].need \in a.perms THEN "granted" ELSE "answering", own[p])
        /\ UNCHANGED store

-----------------------------------------------------------------------------
(* The browser gets its answer, or none. *)

Answer(p) ==
    LET b == job[p].browser
    IN  /\ pc[p] \in {"answering", "granted"}
        /\ cookie' = [cookie EXCEPT ![b] = CASE job[p].op \in {"login", "callback"} -> own[p].sid
                                             [] job[p].op = "logout" -> NoSession
                                             [] OTHER -> @]
        /\ admin' = [admin EXCEPT ![b] = IF job[p].op \in BackOffice THEN own[p].mine ELSE @]
        /\ Goto(p, "over", own[p])
        /\ UNCHANGED <<account, sessions, states, events>>

Crash(p) ==
    /\ pc[p] \notin {"new", "over"}
    /\ Goto(p, "over", own[p])
    /\ UNCHANGED store

\* Roles are assigned, revoked and changed, each in one commit.
Regrant(u, perms) ==
    /\ perms # account[u].perms
    /\ account' = [account EXCEPT ![u].perms = perms]
    /\ UNCHANGED <<sessions, states, cookie, admin, events, local>>

\* The back office makes a superuser, and unmakes one.
SetSuper(u, super) ==
    /\ super # account[u].super
    /\ account' = [account EXCEPT ![u].super = super]
    /\ UNCHANGED <<sessions, states, cookie, admin, events, local>>

DeleteAccount(u) ==
    /\ ~account[u].deleted
    /\ account' = [account EXCEPT ![u].deleted = TRUE]
    /\ UNCHANGED <<sessions, states, cookie, admin, events, local>>

\* A session or a state times out, or the browser drops its cookie.
Expire(s) ==
    /\ sessions[s] # NoUser \/ s \in states
    /\ sessions' = [sessions EXCEPT ![s] = NoUser]
    /\ states' = states \ {s}
    /\ UNCHANGED <<account, cookie, admin, events, local>>

Forget(b) ==
    /\ admin[b] # Absent
    /\ admin' = [admin EXCEPT ![b] = Absent]
    /\ UNCHANGED <<account, sessions, states, cookie, events, local>>

Step ==
    \/ \E p \in Procs :
        \/ Arrive(p)
        \/ Validate(p)
        \/ Load(p)
        \/ Resolve(p)
        \/ Authenticate(p)
        \/ RecordFailure(p)
        \/ StartConsent(p)
        \/ Return(p)
        \/ Exchange(p)
        \/ Open(p)
        \/ Match(p)
        \/ Permit(p)
        \/ Record(p)
        \/ DropState(p)
        \/ Revoke(p)
        \/ RecordLogout(p)
        \/ Leave(p)
        \/ LoadAdmin(p)
        \/ Refresh(p)
        \/ View(p)
        \/ Answer(p)
        \/ Crash(p)
    \/ \E u \in Users, perms \in Grants : Regrant(u, perms)
    \/ \E u \in Users, super \in BOOLEAN : SetSuper(u, super)
    \/ \E u \in Users : DeleteAccount(u)
    \/ \E s \in Procs : Expire(s)
    \/ \E b \in Browsers : Forget(b)

Next == Step /\ Observe

Spec == Init /\ [][Next]_vars

-----------------------------------------------------------------------------
TypeOK ==
    /\ account \in [Users -> Account]
    /\ sessions \in [Procs -> Holder] /\ states \subseteq Procs
    /\ cookie \in [Browsers -> Procs \cup {NoSession}]
    /\ admin \in [Browsers -> AdminSession \cup {Absent}]
    /\ events \in [Procs -> Event \cup {Absent}]
    /\ pc \in [Procs -> Checking \cup
                  {"new", "over", "granted", "answering", "authenticating", "failing", "consenting", "returning", "exchanging",
                   "opening", "matching", "permitting", "recording", "dropping", "revoking", "signingout", "leaving"}]
    /\ job \in [Procs -> Job \cup {Absent}]
    /\ own \in [Procs -> Own]
    /\ throughout \in [Procs -> SUBSET {"signedout", "deleted", "forbidden"}]

\* A page or a view of the back office that is served was not refused by everything
\* that was true all along: who had been signed out, deleted or without permission
\* since before the request came gets nothing, whatever the cookie remembers.
AccessIsCurrent == \A p \in Procs : pc[p] = "granted" => throughout[p] = {}

Recorded(u, b) ==
    \E p \in Procs : events[p] = [event |-> "login", actor |-> u, browser |-> b, session |-> NoSession]

\* No browser is signed in without an audit event that says who did, though the
\* session, the event and the answer are steps of their own, any of which may fail.
EntriesAreRecorded ==
    \A b \in Browsers :
        /\ cookie[b] # NoSession =>
              \E u \in Users : /\ events[cookie[b]] = [event |-> "login", actor |-> u, browser |-> b, session |-> cookie[b]]
                               /\ sessions[cookie[b]] \in {u, NoUser}
        /\ admin[b] # Absent => Recorded(admin[b].user, b)

\* A session whose end is on record has ended, for every browser and every request.
LogoutIsFinal ==
    \A p \in Procs : events[p] # Absent /\ events[p].event = "logout" /\ events[p].session # NoSession =>
        sessions[events[p].session] = NoUser
=============================================================================
