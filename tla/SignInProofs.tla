---------------------------- MODULE SignInProofs ----------------------------
(***************************************************************************)
(* Proofs about signing in and out and about the gates, for any number of  *)
(* users, browsers, requests and permissions.                              *)
(***************************************************************************)
EXTENDS SignIn, Integers, TLAPS

Late   == {"dropping", "answering", "granted", "over"}
Places == Checking \cup {"new", "over", "granted", "answering", "authenticating", "failing", "consenting", "returning",
             "exchanging", "opening", "matching", "permitting", "recording", "dropping", "revoking", "signingout", "leaving"}

Active(p) == pc[p] \notin {"new", "over"}

\* Which requests are in a place.
PlacedAt(p) ==
    /\ pc[p] # "over" => job[p] \in Job
    /\ pc[p] \in {"validating", "loading"} => job[p].op \in {"page", "logout"}
    /\ pc[p] = "resolving" => job[p].op = "page"
    /\ pc[p] \in {"revoking", "signingout"} => job[p].op = "logout"
    /\ pc[p] = "authenticating" => job[p].op \in {"login", "adminlogin"}
    /\ pc[p] = "failing" => job[p].op = "login"
    /\ pc[p] = "opening" => job[p].op \in {"login", "callback"}
    /\ pc[p] \in {"returning", "exchanging", "dropping"} => job[p].op = "callback"
    /\ pc[p] = "consenting" => job[p].op = "consent"
    /\ pc[p] = "matching" => job[p].op = "breakglass"
    /\ pc[p] = "permitting" => job[p].op = "adminlogin"
    /\ pc[p] = "recording" => job[p].op \in {"login", "callback", "adminlogin", "breakglass"}
    /\ pc[p] = "leaving" => job[p].op = "adminlogout"
    /\ pc[p] \in {"admitting", "refreshing", "viewing"} => job[p].op = "adminpage"
    /\ pc[p] = "granted" => job[p].op \in {"page", "adminpage"}

\* What a request carries there.
CarriedAt(p) ==
    /\ Active(p) /\ job[p].op \in {"login", "callback", "adminlogin"} => own[p].who = job[p].user
    /\ Active(p) /\ job[p].op = "breakglass" => own[p].who = NoUser
    /\ Active(p) /\ job[p].op \in BackOffice => own[p].sid = NoSession
    /\ Active(p) /\ job[p].op \notin BackOffice => own[p].mine = Absent
    /\ Active(p) /\ job[p].op \in {"adminpage", "adminlogout"} /\ own[p].mine # Absent => own[p].mine.user = own[p].who
    /\ pc[p] \in {"loading", "resolving", "refreshing"} => own[p].who \in Users
    /\ pc[p] \in {"loading", "revoking", "signingout"} => own[p].sid \in Procs
    /\ pc[p] \in {"resolving", "permitting", "refreshing"} => own[p].seen \in Account
    /\ pc[p] \in {"refreshing", "viewing"} => own[p].mine # Absent
    /\ job[p].op \in {"login", "callback"} /\ pc[p] \in {"recording", "dropping", "answering"} => own[p].sid = p

Opened(s)  == events[s] \in Event /\ events[s].event = "login" /\ events[s].session = s
LoginOf(p) == [event |-> "login", actor |-> own[p].who, browser |-> job[p].browser, session |-> p]

\* What is on record of it.
RecordedAt(p) ==
    /\ Active(p) /\ job[p].op \in {"page", "logout"} /\ own[p].sid \in Procs =>
          Opened(own[p].sid) /\ sessions[own[p].sid] \in {own[p].who, NoUser}
    /\ job[p].op \in {"login", "callback"} /\ pc[p] \in {"recording", "dropping", "answering"} =>
          sessions[p] \in {own[p].who, NoUser}
    /\ job[p].op \in {"login", "callback"} /\ pc[p] \in {"dropping", "answering"} => events[p] = LoginOf(p)
    /\ Active(p) /\ job[p].op \in BackOffice /\ own[p].mine # Absent =>
          Recorded(own[p].mine.user, job[p].browser) \/ (pc[p] = "recording" /\ own[p].mine.user = own[p].who)
    /\ pc[p] = "signingout" => sessions[own[p].sid] = NoUser
    /\ pc[p] \notin Late => events[p] = Absent

RequestAt(p) == PlacedAt(p) /\ CarriedAt(p) /\ RecordedAt(p)

LogoutsWereOpened ==
    \A p \in Procs : events[p] # Absent /\ events[p].event = "logout" /\ events[p].session # NoSession =>
        Opened(events[p].session)

StoreTypes ==
    /\ account \in [Users -> Account]
    /\ sessions \in [Procs -> Holder] /\ states \subseteq Procs
    /\ cookie \in [Browsers -> Procs \cup {NoSession}]
    /\ admin \in [Browsers -> AdminSession \cup {Absent}]
    /\ events \in [Procs -> Event \cup {Absent}]

LocalTypes ==
    /\ pc \in [Procs -> Places]
    /\ job \in [Procs -> Job \cup {Absent}]
    /\ own \in [Procs -> Own]

Requests == \A p \in Procs : RequestAt(p)

\* All but the history, which nothing depends on.
CoreInv == StoreTypes /\ LocalTypes /\ Requests /\ EntriesAreRecorded /\ LogoutIsFinal /\ LogoutsWereOpened

-----------------------------------------------------------------------------
(* Requests and events *)

\* The fields of each kind of request, which the proofs need with their types.
LEMMA JobFields ==
    ASSUME NEW j \in Job
    PROVE  /\ j.browser \in Browsers
           /\ j.op \in {"page", "login", "logout", "consent", "callback"} \cup BackOffice
           /\ j.op \in {"login", "callback", "adminlogin"} => j.user \in Users
           /\ j.op = "callback" => j.state \in Procs
           /\ j.op \in {"page", "adminpage"} => j.need \in Perms
           /\ j \in Login => j.op = "login"
<1>1. CASE j \in Page \cup AdminPage
  BY <1>1 DEF Page, AdminPage, Login, BackOffice
<1>2. CASE j \in Login \cup Callback \cup AdminLogin
  BY <1>2 DEF Login, Callback, AdminLogin, BackOffice
<1>3. CASE j \in Logout \cup Consent
  BY <1>3 DEF Logout, Consent, Login
<1>4. CASE j \in BreakGlass \cup AdminLogout
  BY <1>4 DEF BreakGlass, AdminLogout, BackOffice, Login
<1>. QED
  BY <1>1, <1>2, <1>3, <1>4 DEF Job

\* An event is told from none.
LEMMA EventIsNotAbsent == \A e \in Event : e # Absent
<1>1. ASSUME NEW e \in Event PROVE "event" \in DOMAIN e
  BY <1>1 DEF Event
<1>2. DOMAIN Absent = 1..0
  BY DEF Absent
<1>3. "event" \notin 1..0
  OBVIOUS
<1>. QED
  BY <1>1, <1>2, <1>3

\* A request that has read nothing carries nothing.
LEMMA IdleIsOwn == Idle \in Own
BY DEF Idle, Own, Holder

\* What a request carries, with its types.
LEMMA OwnFields ==
    ASSUME LocalTypes, NEW p \in Procs
    PROVE  /\ own[p] \in Own
           /\ own[p].sid \in Procs \cup {NoSession} /\ own[p].who \in Users \cup {NoUser}
           /\ own[p].mine \in AdminSession \cup {Absent} /\ own[p].seen \in Account \cup {Absent}
BY DEF LocalTypes, Own, Holder

\* A step of a request leaves the others where they are.
Moved(p) == \A q \in Procs : q # p => pc'[q] = pc[q] /\ job'[q] = job[q] /\ own'[q] = own[q]

\* A request that goes on keeps the types and moves nobody else.
LEMMA GotoMoves ==
    ASSUME LocalTypes, NEW p \in Procs, NEW where \in Places, NEW what,
           where # "over" => what \in Own, Goto(p, where, what)
    PROVE  /\ LocalTypes' /\ Moved(p) /\ pc'[p] = where
           /\ where # "over" => job'[p] = job[p] /\ own'[p] = what
           /\ where = "over" => RequestAt(p)' 
<1>1. /\ pc' = [pc EXCEPT ![p] = where]
      /\ job' = [job EXCEPT ![p] = IF where = "over" THEN Absent ELSE @]
      /\ own' = [own EXCEPT ![p] = IF where = "over" THEN Idle ELSE what]
  BY DEF Goto
<1>2. pc' \in [Procs -> Places] /\ pc'[p] = where
  BY <1>1 DEF LocalTypes
<1>3. job' \in [Procs -> Job \cup {Absent}] /\ own' \in [Procs -> Own]
  BY <1>1, IdleIsOwn DEF LocalTypes
<1>4. Moved(p) /\ (where # "over" => job'[p] = job[p] /\ own'[p] = what)
  BY <1>1 DEF LocalTypes, Moved
<1>5. where = "over" => RequestAt(p)'
  BY <1>2 DEF RequestAt, PlacedAt, CarriedAt, RecordedAt, Active, Late
<1>. QED
  BY <1>2, <1>3, <1>4, <1>5 DEF LocalTypes

-----------------------------------------------------------------------------
(* The beginning *)

\* The invariant holds at the start.
LEMMA CoreStart == Init => CoreInv
<1>. SUFFICES ASSUME Init PROVE CoreInv
  OBVIOUS
<1>1. account \in [Users -> Account]
  BY DEF Init
<1>2. /\ sessions \in [Procs -> Holder] /\ states \subseteq Procs /\ cookie \in [Browsers -> Procs \cup {NoSession}]
      /\ admin \in [Browsers -> AdminSession \cup {Absent}] /\ events \in [Procs -> Event \cup {Absent}]
  BY DEF Init, Holder
<1>3. LocalTypes
  <2>1. job \in [Procs -> Job]
    BY SignInAssumption DEF Init
  <2>2. pc \in [Procs -> Places]
    BY DEF Init, Places
  <2>3. own \in [Procs -> Own]
    BY IdleIsOwn DEF Init
  <2>. QED
    BY <2>1, <2>2, <2>3 DEF LocalTypes
<1>4. ASSUME NEW p \in Procs PROVE RequestAt(p)
  <2>1. pc[p] = "new" /\ events[p] = Absent /\ job[p] \in Job
    BY SignInAssumption DEF Init
  <2>. QED
    BY <2>1 DEF RequestAt, PlacedAt, CarriedAt, RecordedAt, Active
<1>5. EntriesAreRecorded /\ LogoutIsFinal /\ LogoutsWereOpened
  BY DEF Init, EntriesAreRecorded, LogoutIsFinal, LogoutsWereOpened
<1>. QED
  BY <1>1, <1>2, <1>3, <1>4, <1>5 DEF CoreInv, StoreTypes, Requests

-----------------------------------------------------------------------------
(* What is on record stays on record, and a session that was opened only ends. *)

Steady ==
    /\ \A q \in Procs : events[q] # Absent => events'[q] = events[q]
    /\ \A q \in Procs : pc[q] # "opening" => sessions'[q] \in {sessions[q], NoUser}

\* A session that was opened stays so, and can only lose its user.
LEMMA OpenedStays ==
    ASSUME CoreInv, Steady, NEW s \in Procs, Opened(s)
    PROVE  Opened(s)' /\ events'[s] = events[s] /\ sessions'[s] \in {sessions[s], NoUser}
<1>1. events[s] # Absent
  BY EventIsNotAbsent DEF Opened
<1>2. pc[s] # "opening"
  BY <1>1 DEF CoreInv, Requests, RequestAt, RecordedAt, Late
<1>. QED
  BY <1>1, <1>2 DEF Opened, Steady

\* What a sign-in records is an event.
LEMMA LoginIsEvent ==
    ASSUME NEW u \in Holder, NEW b \in Browsers, NEW s \in Procs \cup {NoSession}
    PROVE  [event |-> "login", actor |-> u, browser |-> b, session |-> s] \in Event
BY DEF Event

\* A sign-in on record stays on record.
LEMMA RecordedStays ==
    ASSUME CoreInv, Steady, NEW u \in Holder, NEW b \in Browsers, Recorded(u, b)
    PROVE  Recorded(u, b)'
<1>1. PICK p \in Procs : events[p] = [event |-> "login", actor |-> u, browser |-> b, session |-> NoSession]
  BY DEF Recorded
<1>2. events[p] # Absent
  BY <1>1, LoginIsEvent, EventIsNotAbsent
<1>. QED
  BY <1>1, <1>2 DEF Recorded, Steady

\* A request that does not move keeps what it has.
LEMMA OthersKept ==
    ASSUME CoreInv, Steady, NEW q \in Procs,
           pc'[q] = pc[q], job'[q] = job[q], own'[q] = own[q], events'[q] = events[q]
    PROVE  RequestAt(q)'
<1>1. PlacedAt(q) /\ CarriedAt(q) /\ RecordedAt(q)
  BY DEF CoreInv, Requests, RequestAt
<1>2. PlacedAt(q)'
  BY <1>1 DEF PlacedAt
<1>3. CarriedAt(q)'
  BY <1>1 DEF CarriedAt, Active
<1>4. ASSUME Active(q), job[q].op \in {"page", "logout"}, own[q].sid \in Procs
      PROVE  Opened(own[q].sid)' /\ sessions'[own'[q].sid] \in {own[q].who, NoUser}
  <2>1. PICK s \in Procs : s = own[q].sid
    BY <1>4
  <2>2. Opened(s) /\ sessions[s] \in {own[q].who, NoUser}
    BY <1>1, <1>4, <2>1 DEF RecordedAt
  <2>3. Opened(s)' /\ sessions'[s] \in {sessions[s], NoUser}
    BY <2>2, OpenedStays
  <2>. QED
    BY <2>1, <2>2, <2>3
<1>5. ASSUME Active(q), job[q].op \in BackOffice, own[q].mine # Absent
      PROVE  Recorded(own[q].mine.user, job[q].browser)' \/ (pc[q] = "recording" /\ own[q].mine.user = own[q].who)
  <2>1. Recorded(own[q].mine.user, job[q].browser) \/ (pc[q] = "recording" /\ own[q].mine.user = own[q].who)
    BY <1>1, <1>5 DEF RecordedAt
  <2>2. job[q] \in Job /\ own[q].mine \in AdminSession
    BY <1>1, <1>5, OwnFields DEF CoreInv, PlacedAt, Active
  <2>3. job[q].browser \in Browsers /\ own[q].mine.user \in Holder
    BY <2>2, JobFields DEF AdminSession
  <2>4. PICK u \in Holder, b \in Browsers : u = own[q].mine.user /\ b = job[q].browser
    BY <2>3
  <2>5. CASE Recorded(own[q].mine.user, job[q].browser)
    <3>1. Recorded(u, b)
      BY <2>4, <2>5 DEF Recorded
    <3>2. Recorded(u, b)'
      BY <3>1, RecordedStays
    <3>3. u = own'[q].mine.user /\ b = job'[q].browser
      BY <2>4
    <3>. QED
      BY <3>2, <3>3
  <2>. QED
    BY <2>1, <2>5
<1>6. pc[q] \in {"recording", "dropping", "answering"} => sessions'[q] \in {sessions[q], NoUser}
  BY DEF Steady
<1>7. pc[q] = "signingout" => sessions'[own[q].sid] = NoUser
  <2>1. ASSUME pc[q] = "signingout" PROVE sessions'[own[q].sid] = NoUser
    <3>1. PICK s \in Procs : s = own[q].sid
      BY <1>1, <2>1 DEF CarriedAt
    <3>2. sessions[s] = NoUser /\ job[q].op = "logout" /\ Active(q)
      BY <1>1, <2>1, <3>1 DEF PlacedAt, RecordedAt, Active
    <3>3. Opened(s)
      BY <1>1, <3>1, <3>2 DEF RecordedAt
    <3>. QED
      BY <3>1, <3>2, <3>3, OpenedStays
  <2>. QED
    BY <2>1
<1>8. RecordedAt(q)'
  <2>1. (Active(q) <=> Active(q)') /\ LoginOf(q)' = LoginOf(q)
    BY DEF Active, LoginOf
  <2>2. (Active(q) /\ job[q].op \in {"page", "logout"} /\ own[q].sid \in Procs =>
           Opened(own[q].sid) /\ sessions[own[q].sid] \in {own[q].who, NoUser})'
    BY <1>4, <2>1
  <2>3. (job[q].op \in {"login", "callback"} /\ pc[q] \in {"recording", "dropping", "answering"} =>
          sessions[q] \in {own[q].who, NoUser})'
    BY <1>1, <1>6 DEF RecordedAt
  <2>4. (job[q].op \in {"login", "callback"} /\ pc[q] \in {"dropping", "answering"} => events[q] = LoginOf(q))'
    BY <1>1, <2>1 DEF RecordedAt
  <2>5. (Active(q) /\ job[q].op \in BackOffice /\ own[q].mine # Absent =>
          Recorded(own[q].mine.user, job[q].browser) \/ (pc[q] = "recording" /\ own[q].mine.user = own[q].who))'
    <3>. SUFFICES ASSUME Active(q)', (job[q].op \in BackOffice)', (own[q].mine # Absent)'
                  PROVE  Recorded(own[q].mine.user, job[q].browser)' \/ (pc[q] = "recording" /\ own[q].mine.user = own[q].who)'
      BY DEF Recorded
    <3>1. Active(q) /\ job[q].op \in BackOffice /\ own[q].mine # Absent
      BY <2>1 DEF BackOffice
    <3>2. Recorded(own[q].mine.user, job[q].browser)' \/ (pc[q] = "recording" /\ own[q].mine.user = own[q].who)
      BY <1>5, <3>1
    <3>. QED
      BY <3>2
  <2>6. (pc[q] = "signingout" => sessions[own[q].sid] = NoUser)' /\ (pc[q] \notin Late => events[q] = Absent)'
    BY <1>1, <1>7 DEF RecordedAt
  <2>. QED
    BY <2>2, <2>3, <2>4, <2>5, <2>6 DEF RecordedAt
<1>. QED
  BY <1>2, <1>3, <1>8 DEF RequestAt

-----------------------------------------------------------------------------
(* The steps of a request: each goes to a place that it may be in. *)

StepOf(p) ==
    /\ StoreTypes' /\ LocalTypes' /\ Moved(p) /\ Steady
    /\ \A q \in Procs : q # p => events'[q] = events[q]
    /\ RequestAt(p)'

\* A step that leaves the stores alone is steady.
LEMMA StoreKept ==
    ASSUME CoreInv, UNCHANGED store
    PROVE  StoreTypes' /\ Steady /\ \A q \in Procs : events'[q] = events[q]
BY DEF CoreInv, StoreTypes, Steady, store

\* What the invariant says of one request.
LEMMA RequestThere ==
    ASSUME CoreInv, NEW p \in Procs
    PROVE  /\ PlacedAt(p) /\ CarriedAt(p) /\ RecordedAt(p) /\ LocalTypes /\ StoreTypes
           /\ own[p] \in Own /\ own[p].who \in Holder
           /\ own[p].mine \in AdminSession \cup {Absent} /\ own[p].seen \in Account \cup {Absent}
BY OwnFields DEF CoreInv, Requests, RequestAt, Holder

\* What comes back with a request was recorded when it was given.
LEMMA CookieWasOpened ==
    ASSUME CoreInv, NEW b \in Browsers, cookie[b] \in Procs
    PROVE  Opened(cookie[b])
<1>1. PICK u \in Users : events[cookie[b]] = [event |-> "login", actor |-> u, browser |-> b, session |-> cookie[b]]
  BY SignInAssumption DEF CoreInv, EntriesAreRecorded
<1>2. u \in Holder
  BY DEF Holder
<1>. QED
  BY <1>1, <1>2, LoginIsEvent DEF Opened

\* Whom the cookies of a request name.
LEMMA BearerIsHolder ==
    ASSUME CoreInv, NEW j \in Job
    PROVE  /\ Bearer(j) \in Holder
           /\ j.op \in {"page", "logout"} /\ cookie[j.browser] # NoSession => Bearer(j) = sessions[cookie[j.browser]]
           /\ j.op \in {"adminpage", "adminlogout"} /\ admin[j.browser] # Absent => Bearer(j) = admin[j.browser].user
           /\ j.op \in {"login", "callback", "adminlogin"} => Bearer(j) = j.user
           /\ j.op = "breakglass" => Bearer(j) = NoUser
<1>1. /\ cookie[j.browser] \in Procs \cup {NoSession}
      /\ admin[j.browser] \in AdminSession \cup {Absent}
      /\ \A s \in Procs : sessions[s] \in Holder
  BY JobFields DEF CoreInv, StoreTypes
<1>2. CASE j.op \in {"page", "logout"}
  BY <1>1, <1>2 DEF Bearer, Holder
<1>3. CASE j.op \in {"adminpage", "adminlogout"}
  BY <1>1, <1>3 DEF Bearer, Holder, AdminSession
<1>4. CASE j.op \in {"login", "callback", "adminlogin"}
  BY <1>4, JobFields DEF Bearer, Holder
<1>5. CASE j.op \in {"consent", "breakglass"}
  BY <1>5 DEF Bearer, Holder
<1>. QED
  BY <1>2, <1>3, <1>4, <1>5, JobFields DEF BackOffice

\* An arrival carries the cookies of its browser and nothing else.
LEMMA Arrives == ASSUME CoreInv, NEW p \in Procs, Arrive(p) PROVE StepOf(p)
<1>. DEFINE j == job[p]
            what == [sid  |-> IF j.op \in {"page", "logout"} THEN cookie[j.browser] ELSE NoSession,
                     who  |-> Bearer(j),
                     mine |-> IF j.op \in BackOffice THEN admin[j.browser] ELSE Absent,
                     seen |-> Absent]
<1>1. pc[p] = "new" /\ Goto(p, First[j.op], what) /\ UNCHANGED store
  BY DEF Arrive
<1>2. j \in Job /\ events[p] = Absent
  BY <1>1, RequestThere DEF PlacedAt, RecordedAt, Late
<1>3. cookie[j.browser] \in Procs \cup {NoSession} /\ admin[j.browser] \in AdminSession \cup {Absent}
  BY <1>2, JobFields DEF CoreInv, StoreTypes
<1>4. what \in Own
  BY <1>2, <1>3, BearerIsHolder DEF Own
<1>5. /\ First[j.op] \in Places \ {"over"}
      /\ First[j.op] \notin Late \cup {"new", "loading", "resolving", "refreshing", "revoking", "signingout", "permitting", "viewing", "recording"}
  BY <1>2, JobFields DEF First, Places, Checking, BackOffice, Late
<1>6. LocalTypes' /\ Moved(p) /\ pc'[p] = First[j.op] /\ job'[p] = j /\ own'[p] = what
  <2>1. First[j.op] \in Places /\ First[j.op] # "over"
    BY <1>5
  <2>. QED
    BY <1>1, <1>4, <2>1, GotoMoves, RequestThere
<1>7. StoreTypes' /\ Steady /\ \A q \in Procs : events'[q] = events[q]
  BY <1>1, StoreKept
<1>8. PlacedAt(p)'
  BY <1>2, <1>6, JobFields DEF PlacedAt, First, BackOffice
<1>9. CarriedAt(p)'
  <2>1. what.who = Bearer(j) /\ (j.op \in BackOffice => what.sid = NoSession)
    BY DEF BackOffice
  <2>2. j.op \in {"adminpage", "adminlogout"} => what.mine = admin[j.browser]
    BY DEF BackOffice
  <2>3. j.op \in {"adminpage", "adminlogout"} /\ what.mine # Absent => what.mine.user = what.who
    BY <2>1, <2>2, <1>2, BearerIsHolder
  <2>4. /\ j.op \in {"login", "callback", "adminlogin"} => what.who = j.user
        /\ j.op = "breakglass" => what.who = NoUser
    BY <2>1, <1>2, BearerIsHolder
  <2>5. j.op \notin BackOffice => what.mine = Absent
    OBVIOUS
  <2>. HIDE DEF what
  <2>. QED
    BY <1>5, <1>6, <2>1, <2>3, <2>4, <2>5 DEF CarriedAt, Active, Late
<1>10. RecordedAt(p)'
  <2>1. ASSUME j.op \in {"page", "logout"}, own'[p].sid \in Procs
        PROVE  Opened(own[p].sid)' /\ sessions'[own'[p].sid] \in {own'[p].who, NoUser}
    <3>1. own'[p].sid = cookie[j.browser] /\ own'[p].who = Bearer(j)
      BY <1>6, <2>1
    <3>2. PICK s \in Procs : s = cookie[j.browser] /\ s = own'[p].sid
      BY <2>1, <3>1
    <3>3. Opened(s) /\ s # NoSession
      BY <1>2, <3>2, JobFields, CookieWasOpened, SignInAssumption
    <3>4. own'[p].who = sessions[s]
      BY <1>2, <2>1, <3>1, <3>2, <3>3, BearerIsHolder
    <3>5. Opened(s)' /\ sessions'[s] = sessions[s]
      BY <1>1, <3>3 DEF Opened, store
    <3>. QED
      BY <3>2, <3>4, <3>5
  <2>2. ASSUME j.op \in BackOffice, own'[p].mine # Absent
        PROVE  Recorded(own[p].mine.user, job[p].browser)'
    <3>1. own'[p].mine = admin[j.browser] /\ job'[p] = j /\ j.browser \in Browsers
      BY <1>2, <1>6, <2>2, JobFields
    <3>2. PICK b \in Browsers : b = j.browser
      BY <3>1
    <3>3. PICK u \in Holder : u = admin[b].user
      BY <1>3, <2>2, <3>1, <3>2 DEF AdminSession
    <3>4. Recorded(u, b)
      BY <2>2, <3>1, <3>2, <3>3 DEF CoreInv, EntriesAreRecorded
    <3>5. Recorded(u, b)'
      BY <1>1, <3>4 DEF Recorded, store
    <3>. QED
      BY <3>1, <3>2, <3>3, <3>5
  <2>3. events'[p] = Absent /\ pc'[p] \notin Late \cup {"recording", "signingout"}
    BY <1>2, <1>5, <1>6, <1>7
  <2>. QED
    BY <1>6, <2>1, <2>2, <2>3 DEF RecordedAt, Late
<1>. QED
  BY <1>6, <1>7, <1>8, <1>9, <1>10 DEF StepOf, RequestAt

\* A step that only reads, and takes the session and the user along.
LEMMA Proceeds ==
    ASSUME CoreInv, NEW p \in Procs, NEW where \in Places, NEW what \in Own,
           Goto(p, where, what), UNCHANGED store, Active(p),
           what.sid = own[p].sid, what.who = own[p].who,
           where \notin {"new", "signingout", "dropping"},
           job[p].op \in {"login", "callback"} => where \notin {"recording", "answering"},
           where \notin Late => pc[p] \notin Late,
           \/ what.mine = Absent \/ job[p].op \notin BackOffice
           \/ where = "recording" /\ what.mine.user = what.who
           \/ pc[p] # "recording" /\ own[p].mine # Absent /\ what.mine.user = own[p].mine.user,
           where # "over" => PlacedAt(p)' /\ CarriedAt(p)'
    PROVE  StepOf(p)
<1>1. /\ LocalTypes' /\ Moved(p) /\ pc'[p] = where
      /\ where # "over" => job'[p] = job[p] /\ own'[p] = what
      /\ where = "over" => RequestAt(p)'
  BY GotoMoves, RequestThere
<1>2. StoreTypes' /\ Steady /\ \A q \in Procs : events'[q] = events[q]
  BY StoreKept
<1>3. ASSUME where # "over" PROVE RecordedAt(p)'
  <2>1. job'[p] = job[p] /\ own'[p] = what /\ RecordedAt(p) /\ job[p] \in Job
    BY <1>1, <1>3, RequestThere DEF PlacedAt, Active
  <2>2. ASSUME job[p].op \in {"page", "logout"}, own'[p].sid \in Procs
        PROVE  Opened(own[p].sid)' /\ sessions'[own'[p].sid] \in {own'[p].who, NoUser}
    <3>1. PICK s \in Procs : s = own[p].sid /\ s = own'[p].sid
      BY <2>1, <2>2
    <3>2. Opened(s) /\ sessions[s] \in {own[p].who, NoUser}
      BY <2>1, <2>2, <3>1 DEF RecordedAt
    <3>3. Opened(s)' /\ sessions'[s] = sessions[s]
      BY <3>2 DEF Opened, store
    <3>. QED
      BY <2>1, <3>1, <3>2, <3>3
  <2>3. ASSUME job[p].op \in BackOffice, own'[p].mine # Absent
        PROVE  Recorded(own[p].mine.user, job[p].browser)' \/ (where = "recording" /\ what.mine.user = what.who)
    <3>. SUFFICES ASSUME ~(where = "recording" /\ what.mine.user = what.who)
                  PROVE  Recorded(own[p].mine.user, job[p].browser)'
      OBVIOUS
    <3>1. pc[p] # "recording" /\ own[p].mine # Absent /\ what.mine.user = own[p].mine.user
      BY <2>1, <2>3
    <3>2. Recorded(own[p].mine.user, job[p].browser)
      BY <2>1, <2>3, <3>1 DEF RecordedAt
    <3>3. PICK u \in Holder, b \in Browsers : u = own[p].mine.user /\ b = job[p].browser
      BY <2>1, <3>1, JobFields, RequestThere DEF AdminSession
    <3>4. Recorded(u, b)
      BY <3>2, <3>3 DEF Recorded
    <3>5. Recorded(u, b)'
      BY <3>4 DEF Recorded, store
    <3>6. u = own'[p].mine.user /\ b = job'[p].browser
      BY <2>1, <3>1, <3>3
    <3>. QED
      BY <3>5, <3>6
  <2>4. where \notin Late => events'[p] = Absent
    BY <1>2, <2>1 DEF RecordedAt
  <2>. QED
    BY <1>1, <2>1, <2>2, <2>3, <2>4 DEF RecordedAt, Late
<1>. QED
  BY <1>1, <1>2, <1>3 DEF StepOf, RequestAt

\* Of a request that ends nothing is left to say.
LEMMA Ends ==
    ASSUME CoreInv, NEW p \in Procs, NEW what, Goto(p, "over", what), UNCHANGED store
    PROVE  StepOf(p)
<1>1. "over" \in Places
  BY DEF Places
<1>2. LocalTypes' /\ Moved(p) /\ RequestAt(p)'
  BY <1>1, GotoMoves, RequestThere
<1>. QED
  BY <1>2, StoreKept DEF StepOf

\* Going on with what it carries, from a place to one where no more is needed.
LEMMA GoesOn ==
    ASSUME CoreInv, NEW p \in Procs, NEW where \in Places, Goto(p, where, own[p]), UNCHANGED store, Active(p),
           pc[p] # "recording",
           \/ where = "over"
           \/ pc[p] = "validating" /\ where \in {"loading", "revoking"} /\ Live(own[p].sid)
                /\ (where = "revoking" => job[p].op = "logout")
           \/ pc[p] = "resolving" /\ where = "granted"
           \/ pc[p] = "authenticating" /\ where = "failing" /\ job[p].op = "login"
           \/ pc[p] \in {"authenticating", "permitting"} /\ where = "answering" /\ own[p].mine # Absent
           \/ pc[p] = "returning" /\ where = "exchanging"
           \/ pc[p] = "exchanging" /\ where = "opening"
           \/ pc[p] = "admitting" /\ where = "viewing" /\ own[p].mine # Absent
           \/ pc[p] = "viewing" /\ where \in {"granted", "answering"}
    PROVE  StepOf(p)
<1>1. CASE where = "over"
  BY <1>1, Ends
<1>2. CASE where # "over"
  <2>1. PlacedAt(p) /\ CarriedAt(p) /\ RecordedAt(p) /\ own[p] \in Own /\ job[p] \in Job
    BY RequestThere DEF PlacedAt, Active
  <2>2. pc'[p] = where /\ job'[p] = job[p] /\ own'[p] = own[p]
    BY <1>2, <2>1, GotoMoves, RequestThere
  <2>3. PlacedAt(p)'
    BY <1>2, <2>1, <2>2 DEF PlacedAt
  <2>4. ASSUME pc[p] = "validating" PROVE own[p].sid \in Procs /\ own[p].who \in Users
    <3>1. own[p].sid \in Procs /\ sessions[own[p].sid] # NoUser /\ job[p].op \in {"page", "logout"}
      BY <1>2, <2>1, <2>4 DEF Live, PlacedAt
    <3>2. sessions[own[p].sid] \in {own[p].who, NoUser}
      BY <2>1, <3>1 DEF RecordedAt
    <3>. QED
      BY <3>1, <3>2, RequestThere DEF Holder
  <2>5. CarriedAt(p)'
    BY <1>2, <2>1, <2>2, <2>4 DEF CarriedAt, PlacedAt, Active, BackOffice
  <2>6. job[p].op \in {"login", "callback"} => where \notin {"recording", "answering"}
    BY <1>2, <2>1 DEF CarriedAt, PlacedAt, Active, BackOffice
  <2>7. where \notin Late => pc[p] \notin Late
    BY <1>2 DEF Late
  <2>8. where \notin {"new", "signingout", "dropping"}
    BY <1>2
  <2>. QED
    BY <2>1, <2>3, <2>5, <2>6, <2>7, <2>8, Proceeds
<1>. QED
  BY <1>1, <1>2

\* What loading the account adds to what a request carries.
LEMMA LoadedIsOwn ==
    ASSUME CoreInv, NEW p \in Procs, own[p].who \in Users
    PROVE  /\ Loaded(p) \in Own /\ Loaded(p).seen \in Account
           /\ Loaded(p).sid = own[p].sid /\ Loaded(p).who = own[p].who /\ Loaded(p).mine = own[p].mine
BY RequestThere DEF Loaded, Own, StoreTypes

\* What is resolved are permissions.
LEMMA HeldArePerms ==
    ASSUME CoreInv, NEW p \in Procs, own[p].who \in Users
    PROVE  Held(p) \in SUBSET Perms
BY RequestThere DEF Held, StoreTypes, Account

\* What refreshing the back office session changes in what a request carries.
LEMMA RefreshedIsOwn ==
    ASSUME CoreInv, NEW p \in Procs, own[p].who \in Users, own[p].seen \in Account
    PROVE  /\ Refreshed(p) \in Own
           /\ Refreshed(p).sid = own[p].sid /\ Refreshed(p).who = own[p].who /\ Refreshed(p).seen = own[p].seen
           /\ Refreshed(p).mine \in AdminSession /\ Refreshed(p).mine # Absent
           /\ Refreshed(p).mine.user = own[p].who /\ Refreshed(p).mine.super = own[p].seen.super
           /\ Refreshed(p).mine.perms = Held(p)
<1>. DEFINE glass == job[p].op = "adminpage" /\ own[p].mine # Absent /\ own[p].mine.glass
            mine == [user |-> own[p].who, super |-> own[p].seen.super, perms |-> Held(p), glass |-> glass]
<1>1. own[p] \in Own /\ own[p].seen.super \in BOOLEAN /\ Held(p) \in SUBSET Perms
  BY RequestThere, HeldArePerms DEF Account
<1>2. Refreshed(p) = [own[p] EXCEPT !.mine = mine]
  BY DEF Refreshed, Own
<1>3. glass \in BOOLEAN
  <2>1. CASE own[p].mine = Absent
    BY <2>1
  <2>2. CASE own[p].mine # Absent
    <3>1. own[p].mine.glass \in BOOLEAN
      BY <2>2, RequestThere DEF AdminSession
    <3>. QED
      BY <3>1
  <2>. QED
    BY <2>1, <2>2
<1>4. mine \in AdminSession
  BY <1>1, <1>3 DEF AdminSession, Holder
<1>5. mine # Absent
  <2>1. "user" \in DOMAIN mine
    OBVIOUS
  <2>2. DOMAIN Absent = 1..0 /\ "user" \notin 1..0
    BY DEF Absent
  <2>. QED
    BY <2>1, <2>2
<1>6. mine.user = own[p].who /\ mine.super = own[p].seen.super /\ mine.perms = Held(p)
  OBVIOUS
<1>. HIDE DEF mine
<1>7. /\ [own[p] EXCEPT !.mine = mine] \in Own /\ [own[p] EXCEPT !.mine = mine].mine = mine
      /\ [own[p] EXCEPT !.mine = mine].sid = own[p].sid /\ [own[p] EXCEPT !.mine = mine].who = own[p].who
      /\ [own[p] EXCEPT !.mine = mine].seen = own[p].seen
  BY <1>1, <1>4 DEF Own
<1>. QED
  BY <1>2, <1>4, <1>5, <1>6, <1>7

\* The gate of pages keeps the invariant.
LEMMA PagesStep ==
    ASSUME CoreInv, NEW p \in Procs, Validate(p) \/ Load(p) \/ Resolve(p)
    PROVE  StepOf(p)
<1>1. CASE Validate(p)
  <2>1. PICK where \in {"over", "revoking", "loading"} :
           /\ Goto(p, where, own[p])
           /\ where # "over" => Live(own[p].sid)
           /\ where = "revoking" => job[p].op = "logout"
    BY <1>1 DEF Validate
  <2>2. UNCHANGED store /\ pc[p] = "validating" /\ Active(p) /\ where \in Places
    BY <1>1 DEF Validate, Active, Places, Checking
  <2>. QED
    BY <2>1, <2>2, GoesOn
<1>2. CASE Load(p)
  <2>1. pc[p] = "loading" /\ UNCHANGED store /\ own[p].who \in Users /\ own[p].sid \in Procs /\ job[p].op \in {"page", "logout"}
    BY <1>2, RequestThere DEF Load, CarriedAt, PlacedAt
  <2>2. PICK where \in {"over", "revoking", "resolving"} :
           /\ Goto(p, where, Loaded(p))
           /\ where = "revoking" => job[p].op = "logout"
           /\ where = "resolving" => job[p].op # "logout"
    BY <1>2 DEF Load
  <2>3. CASE where = "over"
    BY <2>1, <2>2, <2>3, Ends
  <2>4. CASE where # "over"
    <3>1. where \in Places /\ where \notin {"new", "signingout", "dropping"} /\ Active(p) /\ pc[p] \notin Late
      BY <2>1, <2>4 DEF Places, Checking, Active, Late
    <3>2. /\ Loaded(p) \in Own /\ Loaded(p).seen \in Account
          /\ Loaded(p).sid = own[p].sid /\ Loaded(p).who = own[p].who /\ Loaded(p).mine = own[p].mine
      BY <2>1, LoadedIsOwn
    <3>3. pc'[p] = where /\ job'[p] = job[p] /\ own'[p] = Loaded(p)
      BY <2>2, <2>4, <3>1, <3>2, GotoMoves, RequestThere
    <3>4. PlacedAt(p)' /\ CarriedAt(p)'
      BY <2>1, <2>2, <2>4, <3>2, <3>3, RequestThere DEF PlacedAt, CarriedAt, Active, BackOffice
    <3>. HIDE DEF Loaded
    <3>. QED
      BY <2>1, <2>2, <2>4, <3>1, <3>2, <3>4, Proceeds DEF BackOffice
  <2>. QED
    BY <2>3, <2>4
<1>3. CASE Resolve(p)
  <2>1. PICK where \in {"over", "granted"} : Goto(p, where, own[p])
    BY <1>3 DEF Resolve
  <2>2. UNCHANGED store /\ pc[p] = "resolving" /\ Active(p) /\ where \in Places
    BY <1>3 DEF Resolve, Active, Places, Checking
  <2>. QED
    BY <2>1, <2>2, GoesOn
<1>. QED
  BY <1>1, <1>2, <1>3

\* A request that signs in knows its user.
LEMMA SignerIsUser ==
    ASSUME CoreInv, NEW p \in Procs, Active(p), job[p].op \in {"login", "callback", "adminlogin"}
    PROVE  own[p].who \in Users
BY RequestThere, JobFields DEF CarriedAt, PlacedAt, Active

\* Authentication keeps the invariant, whether the password is right or not.
LEMMA AuthenticateStep == ASSUME CoreInv, NEW p \in Procs, Authenticate(p) PROVE StepOf(p)
<1>1. pc[p] = "authenticating" /\ UNCHANGED store /\ Active(p) /\ job[p].op \in {"login", "adminlogin"} /\ job[p] \in Job
  BY RequestThere DEF Authenticate, PlacedAt, Active
<1>2. CASE Goto(p, IF job[p].op = "login" THEN "opening" ELSE "permitting", Loaded(p))
  <2>1. PICK where \in {"opening", "permitting"} :
           Goto(p, where, Loaded(p)) /\ (where = "opening" <=> job[p].op = "login")
    BY <1>2
  <2>2. where \in Places /\ where \notin {"new", "over", "signingout", "dropping", "recording", "answering"} /\ pc[p] \notin Late
    BY <1>1, <2>1 DEF Places, Late
  <2>3. own[p].who \in Users
    BY <1>1, SignerIsUser
  <2>4. /\ Loaded(p) \in Own /\ Loaded(p).seen \in Account
        /\ Loaded(p).sid = own[p].sid /\ Loaded(p).who = own[p].who /\ Loaded(p).mine = own[p].mine
    BY <2>3, LoadedIsOwn
  <2>5. pc'[p] = where /\ job'[p] = job[p] /\ own'[p] = Loaded(p)
    BY <2>1, <2>2, <2>4, GotoMoves, RequestThere
  <2>6. PlacedAt(p)' /\ CarriedAt(p)'
    BY <1>1, <2>1, <2>4, <2>5, RequestThere DEF PlacedAt, CarriedAt, Active, BackOffice
  <2>. HIDE DEF Loaded
  <2>7. \/ Loaded(p).mine = Absent \/ job[p].op \notin BackOffice
        \/ pc[p] # "recording" /\ own[p].mine # Absent /\ Loaded(p).mine.user = own[p].mine.user
    BY <1>1, <2>4
  <2>. QED
    BY <1>1, <2>1, <2>2, <2>4, <2>6, <2>7, Proceeds
<1>3. CASE IF job[p] \in Login /\ job[p].form THEN Goto(p, "failing", own[p]) ELSE Reject(p)
  <2>1. PICK where \in {"failing", "over", "answering"} :
           /\ Goto(p, where, own[p])
           /\ where = "failing" => job[p].op = "login"
           /\ where = "answering" => own[p].mine # Absent
    BY <1>1, <1>3, JobFields DEF Reject
  <2>2. where \in Places
    BY DEF Places
  <2>. QED
    BY <1>1, <2>1, <2>2, GoesOn
<1>. QED
  BY <1>2, <1>3 DEF Authenticate

\* The return from the provider and the exchange keep the invariant.
LEMMA ProviderStep == ASSUME CoreInv, NEW p \in Procs, Return(p) \/ Exchange(p) PROVE StepOf(p)
<1>1. UNCHANGED store /\ Active(p) /\ pc[p] \in {"returning", "exchanging"}
  BY DEF Return, Exchange, Active
<1>2. PICK where \in {"over", "exchanging", "opening"} :
         /\ Goto(p, where, own[p])
         /\ where = "exchanging" => pc[p] = "returning"
         /\ where = "opening" => pc[p] = "exchanging"
  BY DEF Return, Exchange
<1>3. where \in Places
  BY DEF Places
<1>. QED
  BY <1>1, <1>2, <1>3, GoesOn

\* The configured pair keeps the invariant.
LEMMA MatchStep == ASSUME CoreInv, NEW p \in Procs, Match(p) PROVE StepOf(p)
<1>. DEFINE fresh == [user |-> NoUser, super |-> FALSE, perms |-> {}, glass |-> TRUE]
            mine == IF own[p].mine = Absent THEN fresh ELSE [own[p].mine EXCEPT !.glass = TRUE]
            what == [own[p] EXCEPT !.mine = mine]
<1>1. pc[p] = "matching" /\ UNCHANGED store /\ Active(p) /\ job[p].op = "breakglass" /\ own[p].who = NoUser
  BY RequestThere DEF Match, PlacedAt, CarriedAt, Active
<1>2. Goto(p, "recording", what)
  BY RequestThere DEF Match, Own
<1>3. fresh \in AdminSession
  BY DEF AdminSession, Holder
<1>4. own[p].mine # Absent => [own[p].mine EXCEPT !.glass = TRUE] \in AdminSession
  BY RequestThere DEF AdminSession
<1>5. mine \in AdminSession /\ (own[p].mine = Absent => mine.user = NoUser)
       /\ (own[p].mine # Absent => mine.user = own[p].mine.user)
  <2>1. CASE own[p].mine = Absent
    BY <1>3, <2>1
  <2>2. CASE own[p].mine # Absent
    <3>1. own[p].mine \in AdminSession
      BY <2>2, RequestThere
    <3>2. [own[p].mine EXCEPT !.glass = TRUE].user = own[p].mine.user
      BY <3>1 DEF AdminSession
    <3>. QED
      BY <1>4, <2>2, <3>2
  <2>. QED
    BY <2>1, <2>2
<1>. HIDE DEF mine
<1>6. what \in Own /\ what.mine = mine /\ what.sid = own[p].sid /\ what.who = own[p].who
  BY <1>5, RequestThere DEF Own
<1>. HIDE DEF what
<1>7. "recording" \in Places /\ "recording" \notin Late /\ pc[p] \notin Late
  BY <1>1 DEF Places, Late
<1>8. pc'[p] = "recording" /\ job'[p] = job[p] /\ own'[p] = what
  BY <1>2, <1>6, <1>7, GotoMoves, RequestThere
<1>9. PlacedAt(p)' /\ CarriedAt(p)'
  BY <1>1, <1>6, <1>8, RequestThere DEF PlacedAt, CarriedAt, Active, BackOffice
<1>10. \/ what.mine.user = what.who
       \/ pc[p] # "recording" /\ own[p].mine # Absent /\ what.mine.user = own[p].mine.user
  BY <1>1, <1>5, <1>6
<1>. QED
  BY <1>1, <1>2, <1>6, <1>7, <1>9, <1>10, Proceeds

\* The permission to enter the back office keeps the invariant.
LEMMA PermitStep == ASSUME CoreInv, NEW p \in Procs, Permit(p) PROVE StepOf(p)
<1>1. /\ pc[p] = "permitting" /\ UNCHANGED store /\ Active(p) /\ job[p].op = "adminlogin" /\ own[p].seen \in Account
      /\ own[p].who \in Users
  BY RequestThere, SignerIsUser DEF Permit, PlacedAt, CarriedAt, Active
<1>2. CASE Goto(p, "recording", Refreshed(p))
  <2>1. /\ Refreshed(p) \in Own /\ Refreshed(p).sid = own[p].sid /\ Refreshed(p).who = own[p].who
        /\ Refreshed(p).mine.user = own[p].who /\ Refreshed(p).mine # Absent
    BY <1>1, RefreshedIsOwn
  <2>2. "recording" \in Places /\ "recording" \notin Late /\ pc[p] \notin Late
    BY <1>1 DEF Places, Late
  <2>3. pc'[p] = "recording" /\ job'[p] = job[p] /\ own'[p] = Refreshed(p)
    BY <1>2, <2>1, <2>2, GotoMoves, RequestThere
  <2>4. PlacedAt(p)' /\ CarriedAt(p)'
    BY <1>1, <2>1, <2>3, RequestThere DEF PlacedAt, CarriedAt, Active, BackOffice
  <2>. QED
    BY <1>1, <1>2, <2>1, <2>2, <2>4, Proceeds
<1>3. CASE Reject(p)
  <2>1. PICK where \in {"over", "answering"} : Goto(p, where, own[p]) /\ (where = "answering" => own[p].mine # Absent)
    BY <1>3 DEF Reject
  <2>2. where \in Places
    BY DEF Places
  <2>. QED
    BY <1>1, <2>1, <2>2, GoesOn
<1>. QED
  BY <1>2, <1>3 DEF Permit

\* A request that dies keeps the invariant.
LEMMA CrashStep == ASSUME CoreInv, NEW p \in Procs, Crash(p) PROVE StepOf(p)
BY Ends DEF Crash

\* A back-office request that takes its copy away or brings it on, in a step that only reads.
LEMMA GateGoesOn ==
    ASSUME CoreInv, NEW p \in Procs, NEW where \in {"answering", "refreshing", "viewing"}, NEW what \in Own,
           Goto(p, where, what), UNCHANGED store, job[p].op = "adminpage", pc[p] \in {"admitting", "refreshing"},
           what.sid = own[p].sid, what.who = own[p].who,
           \/ what.mine = Absent /\ where = "answering"
           \/ what.mine # Absent /\ own[p].mine # Absent /\ what.mine.user = own[p].who,
           where = "refreshing" => own[p].who \in Users /\ what.seen \in Account
    PROVE  StepOf(p)
<1>1. /\ where \in Places /\ where \notin {"new", "over", "signingout", "dropping", "recording"} /\ Active(p)
      /\ pc[p] \notin Late
  BY DEF Places, Checking, Active, Late
<1>2. pc'[p] = where /\ job'[p] = job[p] /\ own'[p] = what
  BY <1>1, GotoMoves, RequestThere
<1>3. own[p].mine # Absent => own[p].mine.user = own[p].who
  BY <1>1, RequestThere DEF CarriedAt
<1>4. PlacedAt(p)' /\ CarriedAt(p)'
  BY <1>1, <1>2, RequestThere DEF PlacedAt, CarriedAt, Active, BackOffice
<1>5. \/ what.mine = Absent
      \/ pc[p] # "recording" /\ own[p].mine # Absent /\ what.mine.user = own[p].mine.user
  BY <1>3
<1>. QED
  BY <1>1, <1>4, <1>5, Proceeds

\* A session that is cleared names nobody.
LEMMA ClearedIsOwn ==
    ASSUME CoreInv, NEW p \in Procs
    PROVE  /\ Cleared(p) \in Own /\ Cleared(p).mine = Absent
           /\ Cleared(p).sid = own[p].sid /\ Cleared(p).who = own[p].who
BY RequestThere DEF Cleared, Own

\* What the gate finds: no session, one without a user, one whose user is gone, or a user to look at.
LEMMA AdmissionLeads ==
    ASSUME CoreInv, NEW p \in Procs, LoadAdmin(p)
    PROVE  \/ own[p].mine = Absent /\ Goto(p, "over", own[p])
           \/ own[p].mine # Absent /\ own[p].who = NoUser /\ Goto(p, "viewing", own[p])
           \/ own[p].mine # Absent /\ own[p].who \in Users /\ account[own[p].who].deleted /\ Goto(p, "answering", Cleared(p))
           \/ own[p].mine # Absent /\ own[p].who \in Users /\ ~account[own[p].who].deleted /\ Goto(p, "refreshing", Loaded(p))
BY RequestThere DEF LoadAdmin, Holder

\* The gate of the back office keeps the invariant.
LEMMA GateStep ==
    ASSUME CoreInv, NEW p \in Procs, LoadAdmin(p) \/ Refresh(p) \/ View(p)
    PROVE  StepOf(p)
<1>1. job[p].op = "adminpage" /\ UNCHANGED store /\ Active(p) /\ pc[p] \in {"admitting", "refreshing", "viewing"}
  BY RequestThere DEF LoadAdmin, Refresh, View, PlacedAt, Active
<1>2. /\ Cleared(p) \in Own /\ Cleared(p).mine = Absent
      /\ Cleared(p).sid = own[p].sid /\ Cleared(p).who = own[p].who
  BY ClearedIsOwn
<1>3. own[p].mine # Absent => own[p].mine.user = own[p].who
  BY <1>1, RequestThere DEF CarriedAt
<1>4. CASE LoadAdmin(p)
  <2>1. pc[p] = "admitting"
    BY <1>4 DEF LoadAdmin
  <2>2. CASE own[p].mine = Absent /\ Goto(p, "over", own[p])
    BY <1>1, <2>2, Ends
  <2>3. CASE own[p].mine # Absent /\ own[p].who = NoUser /\ Goto(p, "viewing", own[p])
    <3>1. "viewing" \in Places
      BY DEF Places, Checking
    <3>. QED
      BY <1>1, <2>1, <2>3, <3>1, GoesOn
  <2>4. CASE Goto(p, "answering", Cleared(p))
    BY <1>1, <1>2, <2>1, <2>4, GateGoesOn
  <2>5. CASE own[p].mine # Absent /\ own[p].who \in Users /\ Goto(p, "refreshing", Loaded(p))
    <3>1. /\ Loaded(p) \in Own /\ Loaded(p).seen \in Account
          /\ Loaded(p).sid = own[p].sid /\ Loaded(p).who = own[p].who /\ Loaded(p).mine = own[p].mine
      BY <2>5, LoadedIsOwn
    <3>. QED
      BY <1>1, <1>3, <2>1, <2>5, <3>1, GateGoesOn
  <2>. QED
    BY <1>4, <2>2, <2>3, <2>4, <2>5, AdmissionLeads
<1>5. CASE Refresh(p)
  <2>1. pc[p] = "refreshing" /\ own[p].who \in Users /\ own[p].seen \in Account /\ own[p].mine # Absent
    BY <1>5, RequestThere DEF Refresh, CarriedAt
  <2>2. /\ Refreshed(p) \in Own /\ Refreshed(p).sid = own[p].sid /\ Refreshed(p).who = own[p].who
        /\ Refreshed(p).mine.user = own[p].who /\ Refreshed(p).mine # Absent
    BY <2>1, RefreshedIsOwn
  <2>3. Goto(p, "viewing", Refreshed(p)) \/ Goto(p, "answering", Cleared(p))
    BY <1>5 DEF Refresh
  <2>4. CASE Goto(p, "viewing", Refreshed(p))
    BY <1>1, <2>1, <2>2, <2>4, GateGoesOn
  <2>5. CASE Goto(p, "answering", Cleared(p))
    BY <1>1, <1>2, <2>1, <2>5, GateGoesOn
  <2>. QED
    BY <2>3, <2>4, <2>5
<1>6. CASE View(p)
  <2>1. PICK where \in {"granted", "answering"} : Goto(p, where, own[p])
    BY <1>6 DEF View
  <2>2. where \in Places /\ pc[p] = "viewing"
    BY <1>6 DEF Places, View
  <2>. QED
    BY <1>1, <2>1, <2>2, GoesOn
<1>. QED
  BY <1>4, <1>5, <1>6

-----------------------------------------------------------------------------
(* The steps that write *)

\* A request that is not late has written no event.
LEMMA Unwritten ==
    ASSUME CoreInv, NEW p \in Procs, pc[p] \notin Late
    PROVE  events[p] = Absent
BY RequestThere DEF RecordedAt

\* An event is committed by the request it is about, once.
LEMMA Commits ==
    ASSUME CoreInv, NEW p \in Procs, pc[p] \notin Late, NEW event \in {"login", "login_failed", "logout"},
           NEW actor \in Holder, NEW session \in Procs \cup {NoSession}, Committed(p, event, actor, session)
    PROVE  /\ events' \in [Procs -> Event \cup {Absent}]
           /\ events'[p] = [event |-> event, actor |-> actor, browser |-> job[p].browser, session |-> session]
           /\ \A q \in Procs : q # p => events'[q] = events[q]
           /\ \A q \in Procs : events[q] # Absent => events'[q] = events[q]
<1>1. job[p].browser \in Browsers /\ events \in [Procs -> Event \cup {Absent}]
  BY RequestThere, JobFields DEF PlacedAt, Late, StoreTypes
<1>2. [event |-> event, actor |-> actor, browser |-> job[p].browser, session |-> session] \in Event
  BY <1>1 DEF Event
<1>. QED
  BY <1>1, <1>2, Unwritten DEF Committed

\* What ends a request keeps the invariant.
LEMMA ClosingStep ==
    ASSUME CoreInv, NEW p \in Procs, RecordFailure(p) \/ StartConsent(p) \/ Answer(p)
    PROVE  StepOf(p)
<1>1. Goto(p, "over", own[p]) /\ "over" \in Places
  BY DEF RecordFailure, StartConsent, Answer, Places
<1>2. LocalTypes' /\ Moved(p) /\ RequestAt(p)'
  BY <1>1, GotoMoves, RequestThere
<1>3. StoreTypes' /\ Steady /\ \A q \in Procs : q # p => events'[q] = events[q]
  <2>1. CASE RecordFailure(p)
    <3>1. pc[p] \notin Late /\ Committed(p, "login_failed", NoUser, NoSession)
      BY <2>1 DEF RecordFailure, Late
    <3>2. NoUser \in Holder
      BY DEF Holder
    <3>3. /\ events' \in [Procs -> Event \cup {Absent}]
          /\ \A q \in Procs : q # p => events'[q] = events[q]
          /\ \A q \in Procs : events[q] # Absent => events'[q] = events[q]
      BY <3>1, <3>2, Commits
    <3>. QED
      BY <2>1, <3>3, RequestThere DEF RecordFailure, StoreTypes, Steady
  <2>2. CASE StartConsent(p)
    BY <2>2, RequestThere DEF StartConsent, StoreTypes, Steady
  <2>3. CASE Answer(p)
    <3>. DEFINE b == job[p].browser
                c == CASE job[p].op \in {"login", "callback"} -> own[p].sid
                       [] job[p].op = "logout" -> NoSession
                       [] OTHER -> cookie[b]
                a == IF job[p].op \in BackOffice THEN own[p].mine ELSE admin[b]
    <3>1. b \in Browsers /\ pc[p] \in {"answering", "granted"}
      BY <2>3, RequestThere, JobFields DEF Answer, PlacedAt
    <3>2. cookie' = [cookie EXCEPT ![b] = c] /\ admin' = [admin EXCEPT ![b] = a]
      BY <2>3, <3>1, RequestThere DEF Answer, StoreTypes
    <3>3. c \in Procs \cup {NoSession}
      BY <3>1, RequestThere DEF StoreTypes, Own
    <3>4. a \in AdminSession \cup {Absent}
      BY <3>1, RequestThere DEF StoreTypes
    <3>. HIDE DEF a, b, c
    <3>5. cookie' \in [Browsers -> Procs \cup {NoSession}] /\ admin' \in [Browsers -> AdminSession \cup {Absent}]
      BY <3>1, <3>2, <3>3, <3>4, RequestThere DEF StoreTypes
    <3>6. UNCHANGED <<account, sessions, states, events>>
      BY <2>3 DEF Answer
    <3>. QED
      BY <3>5, <3>6, RequestThere DEF StoreTypes, Steady
  <2>. QED
    BY <2>1, <2>2, <2>3
<1>. QED
  BY <1>2, <1>3 DEF StepOf

\* A session that is opened is of its own request.
LEMMA OpenStep == ASSUME CoreInv, NEW p \in Procs, Open(p) PROVE StepOf(p)
<1>. DEFINE what == [own[p] EXCEPT !.sid = p]
<1>1. pc[p] = "opening" /\ Active(p) /\ job[p].op \in {"login", "callback"} /\ Goto(p, "recording", what)
  BY RequestThere DEF Open, PlacedAt, Active
<1>2. what \in Own /\ what.sid = p /\ what.who = own[p].who /\ what.mine = own[p].mine
  BY RequestThere DEF Own
<1>. HIDE DEF what
<1>3. "recording" \in Places
  BY DEF Places
<1>4. LocalTypes' /\ Moved(p) /\ pc'[p] = "recording" /\ job'[p] = job[p] /\ own'[p] = what
  BY <1>1, <1>2, <1>3, GotoMoves, RequestThere
<1>5. StoreTypes' /\ Steady /\ events' = events /\ sessions'[p] = own[p].who
  BY <1>1, RequestThere DEF Open, StoreTypes, Steady
<1>6. PlacedAt(p)' /\ CarriedAt(p)'
  BY <1>1, <1>2, <1>4, RequestThere DEF PlacedAt, CarriedAt, Active, BackOffice
<1>7. events[p] = Absent
  BY <1>1, Unwritten DEF Late
<1>8. RecordedAt(p)'
  BY <1>1, <1>2, <1>4, <1>5, <1>7 DEF RecordedAt, Active, BackOffice, Late
<1>. QED
  BY <1>4, <1>5, <1>6, <1>8 DEF StepOf, RequestAt

\* The record of a sign-in names the user, the browser and the session.
LEMMA RecordStep == ASSUME CoreInv, NEW p \in Procs, Record(p) PROVE StepOf(p)
<1>1. /\ pc[p] = "recording" /\ pc[p] \notin Late /\ Active(p) /\ Committed(p, "login", own[p].who, own[p].sid)
      /\ job[p].op \in {"login", "callback", "adminlogin", "breakglass"} /\ job[p] \in Job
  BY RequestThere DEF Record, PlacedAt, Active, Late
<1>2. own[p].who \in Holder /\ own[p].sid \in Procs \cup {NoSession}
  BY RequestThere DEF Own
<1>3. /\ events' \in [Procs -> Event \cup {Absent}]
      /\ events'[p] = [event |-> "login", actor |-> own[p].who, browser |-> job[p].browser, session |-> own[p].sid]
      /\ \A q \in Procs : q # p => events'[q] = events[q]
      /\ \A q \in Procs : events[q] # Absent => events'[q] = events[q]
  BY <1>1, <1>2, Commits
<1>4. PICK where \in {"dropping", "answering"} : Goto(p, where, own[p]) /\ (where = "dropping" <=> job[p].op = "callback")
  BY DEF Record
<1>5. where \in Places /\ where # "over" /\ where \in Late
  BY DEF Places, Late
<1>6. LocalTypes' /\ Moved(p) /\ pc'[p] = where /\ job'[p] = job[p] /\ own'[p] = own[p]
  BY <1>4, <1>5, GotoMoves, RequestThere
<1>7. StoreTypes' /\ Steady /\ sessions' = sessions
  BY <1>3, RequestThere DEF Record, StoreTypes, Steady
<1>8. PlacedAt(p)' /\ CarriedAt(p)'
  BY <1>1, <1>4, <1>6, RequestThere DEF PlacedAt, CarriedAt, Active, BackOffice
<1>9. ASSUME job[p].op \in BackOffice, own[p].mine # Absent PROVE Recorded(own[p].mine.user, job[p].browser)'
  <2>1. PICK u \in Holder, b \in Browsers : u = own[p].mine.user /\ b = job[p].browser
    BY <1>1, <1>9, JobFields, RequestThere DEF AdminSession
  <2>2. CASE own[p].mine.user = own[p].who
    <3>1. own[p].sid = NoSession
      BY <1>1, <1>9, RequestThere DEF CarriedAt
    <3>2. events'[p] = [event |-> "login", actor |-> u, browser |-> b, session |-> NoSession]
      BY <1>3, <2>1, <2>2, <3>1
    <3>. QED
      BY <1>6, <2>1, <3>2 DEF Recorded
  <2>3. CASE own[p].mine.user # own[p].who
    <3>1. Recorded(u, b)
      BY <1>1, <1>9, <2>1, <2>3, RequestThere DEF RecordedAt, Recorded
    <3>2. Recorded(u, b)'
      BY <1>7, <3>1, RecordedStays
    <3>3. u = own'[p].mine.user /\ b = job'[p].browser
      BY <1>6, <2>1
    <3>. QED
      BY <3>2, <3>3
  <2>. QED
    BY <2>2, <2>3
<1>10. job[p].op \in {"login", "callback"} => events'[p] = LoginOf(p)' /\ sessions'[p] \in {own[p].who, NoUser}
  BY <1>1, <1>3, <1>6, <1>7, RequestThere DEF LoginOf, CarriedAt, RecordedAt
<1>11. RecordedAt(p)'
  BY <1>1, <1>5, <1>6, <1>9, <1>10 DEF RecordedAt
<1>. QED
  BY <1>3, <1>6, <1>7, <1>8, <1>11 DEF StepOf, RequestAt

\* Dropping the provider's state keeps the invariant.
LEMMA DropStep == ASSUME CoreInv, NEW p \in Procs, DropState(p) PROVE StepOf(p)
<1>1. pc[p] = "dropping" /\ Active(p) /\ job[p].op = "callback" /\ Goto(p, "answering", own[p])
  BY RequestThere DEF DropState, PlacedAt, Active
<1>2. "answering" \in Places
  BY DEF Places
<1>3. LocalTypes' /\ Moved(p) /\ pc'[p] = "answering" /\ job'[p] = job[p] /\ own'[p] = own[p]
  BY <1>1, <1>2, GotoMoves, RequestThere
<1>4. StoreTypes' /\ Steady /\ sessions' = sessions /\ events' = events
  BY RequestThere DEF DropState, StoreTypes, Steady
<1>5. PlacedAt(p)' /\ CarriedAt(p)'
  BY <1>1, <1>3, RequestThere DEF PlacedAt, CarriedAt, Active, BackOffice
<1>6. LoginOf(p)' = LoginOf(p)
  BY <1>3 DEF LoginOf
<1>7. RecordedAt(p)'
  BY <1>1, <1>3, <1>4, <1>6, RequestThere DEF RecordedAt, Active, BackOffice, Late
<1>. QED
  BY <1>3, <1>4, <1>5, <1>7 DEF StepOf, RequestAt

\* A sign-out ends the session before it is recorded.
LEMMA LogoutStep == ASSUME CoreInv, NEW p \in Procs, Revoke(p) \/ RecordLogout(p) PROVE StepOf(p)
<1>1. pc[p] \in {"revoking", "signingout"} /\ pc[p] \notin Late /\ Active(p)
  BY DEF Revoke, RecordLogout, Active, Late
<1>2. job[p].op = "logout" /\ job[p] \in Job /\ own[p].mine = Absent /\ events[p] = Absent
  BY <1>1, Unwritten, RequestThere DEF PlacedAt, CarriedAt, BackOffice
<1>3. PICK s \in Procs : s = own[p].sid
  BY <1>1, RequestThere DEF CarriedAt
<1>4. Opened(s) /\ sessions[s] \in {own[p].who, NoUser} /\ own[p].who \in Holder
  BY <1>1, <1>2, <1>3, RequestThere DEF RecordedAt
<1>5. CASE Revoke(p)
  <2>1. Goto(p, "signingout", own[p]) /\ sessions' = [sessions EXCEPT ![s] = NoUser] /\ events' = events
    BY <1>3, <1>5 DEF Revoke
  <2>2. "signingout" \in Places
    BY DEF Places
  <2>3. LocalTypes' /\ Moved(p) /\ pc'[p] = "signingout" /\ job'[p] = job[p] /\ own'[p] = own[p]
    BY <2>1, <2>2, GotoMoves, RequestThere
  <2>4. StoreTypes' /\ Steady
    BY <1>5, <2>1, RequestThere DEF Revoke, StoreTypes, Steady, Holder
  <2>5. PlacedAt(p)' /\ CarriedAt(p)'
    BY <1>1, <1>2, <1>3, <2>3, RequestThere DEF PlacedAt, CarriedAt, Active, BackOffice
  <2>6. Opened(s)' /\ sessions'[s] = NoUser
    BY <1>4, <2>1, RequestThere DEF Opened, StoreTypes
  <2>7. Opened(own[p].sid)' /\ sessions'[own'[p].sid] = NoUser
    BY <1>3, <2>3, <2>6
  <2>8. RecordedAt(p)'
    BY <1>1, <1>2, <2>1, <2>3, <2>7 DEF RecordedAt, Active, BackOffice
  <2>. QED
    BY <2>1, <2>3, <2>4, <2>5, <2>8 DEF StepOf, RequestAt
<1>6. CASE RecordLogout(p)
  <2>1. Goto(p, "answering", own[p]) /\ Committed(p, "logout", own[p].who, own[p].sid) /\ sessions' = sessions
    BY <1>6 DEF RecordLogout
  <2>2. "answering" \in Places /\ own[p].sid \in Procs \cup {NoSession}
    BY <1>3 DEF Places
  <2>3. LocalTypes' /\ Moved(p) /\ pc'[p] = "answering" /\ job'[p] = job[p] /\ own'[p] = own[p]
    BY <2>1, <2>2, GotoMoves, RequestThere
  <2>4. /\ events' \in [Procs -> Event \cup {Absent}]
        /\ \A q \in Procs : q # p => events'[q] = events[q]
        /\ \A q \in Procs : events[q] # Absent => events'[q] = events[q]
    BY <1>1, <1>4, <2>1, <2>2, Commits
  <2>5. StoreTypes' /\ Steady
    BY <1>6, <2>4, RequestThere DEF RecordLogout, StoreTypes, Steady
  <2>6. PlacedAt(p)' /\ CarriedAt(p)'
    BY <1>1, <1>2, <2>3, RequestThere DEF PlacedAt, CarriedAt, Active, BackOffice
  <2>7. Opened(s)' /\ sessions'[s] \in {own[p].who, NoUser}
    BY <1>4, <2>1, <2>5, OpenedStays
  <2>8. Opened(own[p].sid)' /\ sessions'[own'[p].sid] \in {own'[p].who, NoUser}
    BY <1>3, <2>3, <2>7
  <2>9. RecordedAt(p)'
    BY <1>2, <2>3, <2>8 DEF RecordedAt, Active, BackOffice, Late
  <2>. QED
    BY <2>3, <2>4, <2>5, <2>6, <2>9 DEF StepOf, RequestAt
<1>. QED
  BY <1>5, <1>6

\* Leaving the back office keeps the invariant.
LEMMA LeaveStep == ASSUME CoreInv, NEW p \in Procs, Leave(p) PROVE StepOf(p)
<1>1. pc[p] = "leaving" /\ pc[p] \notin Late /\ Active(p) /\ job[p].op = "adminlogout"
  BY RequestThere DEF Leave, PlacedAt, Active, Late
<1>2. CASE own[p].mine = Absent
  BY <1>2, Ends DEF Leave, store
<1>3. CASE own[p].mine # Absent
  <2>1. Goto(p, "answering", Cleared(p)) /\ Committed(p, "logout", own[p].who, NoSession) /\ sessions' = sessions
    BY <1>3 DEF Leave
  <2>2. /\ Cleared(p) \in Own /\ Cleared(p).mine = Absent
        /\ Cleared(p).sid = own[p].sid /\ Cleared(p).who = own[p].who
    BY ClearedIsOwn
  <2>3. "answering" \in Places /\ own[p].who \in Holder
    BY RequestThere DEF Places
  <2>4. LocalTypes' /\ Moved(p) /\ pc'[p] = "answering" /\ job'[p] = job[p] /\ own'[p] = Cleared(p)
    BY <2>1, <2>2, <2>3, GotoMoves, RequestThere
  <2>5. /\ events' \in [Procs -> Event \cup {Absent}]
        /\ \A q \in Procs : q # p => events'[q] = events[q]
        /\ \A q \in Procs : events[q] # Absent => events'[q] = events[q]
    BY <1>1, <2>1, <2>3, Commits
  <2>6. StoreTypes' /\ Steady
    BY <2>5, RequestThere DEF Leave, StoreTypes, Steady
  <2>7. PlacedAt(p)' /\ CarriedAt(p)'
    BY <1>1, <2>2, <2>4, RequestThere DEF PlacedAt, CarriedAt, Active, BackOffice
  <2>8. RecordedAt(p)'
    BY <1>1, <2>2, <2>4 DEF RecordedAt, Active, BackOffice, Late
  <2>. QED
    BY <2>4, <2>5, <2>6, <2>7, <2>8 DEF StepOf, RequestAt
<1>. QED
  BY <1>2, <1>3

-----------------------------------------------------------------------------
(* The invariant is kept. *)

RequestStep(p) ==
    \/ Arrive(p) \/ Validate(p) \/ Load(p) \/ Resolve(p) \/ Authenticate(p) \/ RecordFailure(p)
    \/ StartConsent(p) \/ Return(p) \/ Exchange(p) \/ Open(p) \/ Match(p) \/ Permit(p) \/ Record(p)
    \/ DropState(p) \/ Revoke(p) \/ RecordLogout(p) \/ Leave(p) \/ LoadAdmin(p) \/ Refresh(p) \/ View(p)
    \/ Answer(p) \/ Crash(p)

\* Every step of a request keeps the invariant.
LEMMA RequestSteps == ASSUME CoreInv, NEW p \in Procs, RequestStep(p) PROVE StepOf(p)
BY Arrives, PagesStep, AuthenticateStep, ClosingStep, ProviderStep, OpenStep, MatchStep, PermitStep, RecordStep,
   DropStep, LogoutStep, LeaveStep, GateStep, CrashStep DEF RequestStep

EnvironmentStep ==
    \/ \E u \in Users, perms \in Grants : Regrant(u, perms)
    \/ \E u \in Users, super \in BOOLEAN : SetSuper(u, super)
    \/ \E u \in Users : DeleteAccount(u)
    \/ \E s \in Procs : Expire(s)
    \/ \E b \in Browsers : Forget(b)

\* What happens around the requests keeps the stores and what is on record.
LEMMA EnvironmentKeeps ==
    ASSUME CoreInv, EnvironmentStep
    PROVE  StoreTypes' /\ Steady /\ UNCHANGED <<events, cookie, local>>
<1>1. StoreTypes
  BY DEF CoreInv
<1>2. ASSUME NEW u \in Users, NEW perms \in Grants, Regrant(u, perms)
      PROVE  StoreTypes' /\ Steady /\ UNCHANGED <<events, cookie, local>>
  <2>1. account[u] \in Account /\ perms \in SUBSET Perms
    BY <1>1, SignInAssumption DEF StoreTypes
  <2>2. [account[u] EXCEPT !.perms = perms] \in Account
    BY <2>1 DEF Account
  <2>3. account' = [account EXCEPT ![u] = [account[u] EXCEPT !.perms = perms]]
    BY <1>1, <1>2 DEF Regrant, StoreTypes
  <2>. QED
    BY <1>1, <1>2, <2>2, <2>3 DEF Regrant, StoreTypes, Steady
<1>3. ASSUME NEW u \in Users, NEW super \in BOOLEAN, SetSuper(u, super)
      PROVE  StoreTypes' /\ Steady /\ UNCHANGED <<events, cookie, local>>
  <2>1. [account[u] EXCEPT !.super = super] \in Account
    BY <1>1 DEF Account, StoreTypes
  <2>2. account' = [account EXCEPT ![u] = [account[u] EXCEPT !.super = super]]
    BY <1>1, <1>3 DEF SetSuper, StoreTypes
  <2>. QED
    BY <1>1, <1>3, <2>1, <2>2 DEF SetSuper, StoreTypes, Steady
<1>4. ASSUME NEW u \in Users, DeleteAccount(u)
      PROVE  StoreTypes' /\ Steady /\ UNCHANGED <<events, cookie, local>>
  <2>1. [account[u] EXCEPT !.deleted = TRUE] \in Account
    BY <1>1 DEF Account, StoreTypes
  <2>2. account' = [account EXCEPT ![u] = [account[u] EXCEPT !.deleted = TRUE]]
    BY <1>1, <1>4 DEF DeleteAccount, StoreTypes
  <2>. QED
    BY <1>1, <1>4, <2>1, <2>2 DEF DeleteAccount, StoreTypes, Steady
<1>5. ASSUME NEW s \in Procs, Expire(s) PROVE StoreTypes' /\ Steady /\ UNCHANGED <<events, cookie, local>>
  BY <1>1, <1>5 DEF Expire, StoreTypes, Steady, Holder
<1>6. ASSUME NEW b \in Browsers, Forget(b) PROVE StoreTypes' /\ Steady /\ UNCHANGED <<events, cookie, local>>
  BY <1>1, <1>6 DEF Forget, StoreTypes, Steady
<1>. QED
  BY <1>2, <1>3, <1>4, <1>5, <1>6 DEF EnvironmentStep

\* Only an answer gives a browser something, and only what was recorded.
LEMMA AnswersAreRecorded ==
    ASSUME CoreInv, NEW p \in Procs, Answer(p)
    PROVE  EntriesAreRecorded'
<1>. DEFINE b == job[p].browser
<1>1. /\ pc[p] \in {"answering", "granted"} /\ Active(p) /\ job[p] \in Job /\ b \in Browsers
      /\ UNCHANGED <<events, sessions>>
  BY RequestThere, JobFields DEF Answer, PlacedAt, Active
<1>2. /\ job[p].op \in {"login", "callback"} => cookie' = [cookie EXCEPT ![b] = own[p].sid]
      /\ job[p].op = "logout" => cookie' = [cookie EXCEPT ![b] = NoSession]
      /\ job[p].op \notin {"login", "callback", "logout"} => cookie' = [cookie EXCEPT ![b] = cookie[b]]
      /\ admin' = [admin EXCEPT ![b] = IF job[p].op \in BackOffice THEN own[p].mine ELSE admin[b]]
  BY <1>1, RequestThere DEF Answer, StoreTypes
<1>3. ASSUME NEW c \in Browsers, cookie'[c] # NoSession
      PROVE  \E u \in Users : /\ events'[cookie'[c]] = [event |-> "login", actor |-> u, browser |-> c, session |-> cookie'[c]]
                              /\ sessions'[cookie'[c]] \in {u, NoUser}
  <2>1. CASE cookie'[c] = cookie[c]
    BY <1>1, <1>3, <2>1 DEF CoreInv, EntriesAreRecorded
  <2>2. CASE c = b /\ job[p].op \in {"login", "callback"}
    <3>1. pc[p] = "answering" /\ own[p].sid = p /\ own[p].who \in Users
      BY <1>1, <2>2, RequestThere, SignerIsUser DEF PlacedAt, CarriedAt
    <3>2. cookie'[c] = p
      BY <1>2, <2>2, <3>1, RequestThere DEF StoreTypes
    <3>3. events[p] = [event |-> "login", actor |-> own[p].who, browser |-> c, session |-> p]
          /\ sessions[p] \in {own[p].who, NoUser}
      BY <2>2, <3>1, RequestThere DEF RecordedAt, LoginOf
    <3>. QED
      BY <1>1, <3>1, <3>2, <3>3
  <2>3. cookie'[c] = cookie[c] \/ (c = b /\ job[p].op \in {"login", "callback"})
    BY <1>2, <1>3, RequestThere DEF StoreTypes
  <2>. QED
    BY <2>1, <2>2, <2>3
<1>4. ASSUME NEW c \in Browsers, admin'[c] # Absent PROVE Recorded(admin[c].user, c)'
  <2>1. CASE admin'[c] = admin[c]
    <3>1. PICK u : u = admin[c].user /\ Recorded(u, c)
      BY <1>4, <2>1 DEF CoreInv, EntriesAreRecorded
    <3>. QED
      BY <1>1, <2>1, <3>1 DEF Recorded
  <2>2. CASE c = b /\ job[p].op \in BackOffice /\ admin'[c] = own[p].mine
    <3>1. Recorded(own[p].mine.user, b)
      BY <1>1, <1>4, <2>2, RequestThere DEF RecordedAt
    <3>. QED
      BY <1>1, <2>2, <3>1 DEF Recorded
  <2>3. admin'[c] = admin[c] \/ (c = b /\ job[p].op \in BackOffice /\ admin'[c] = own[p].mine)
    BY <1>2, RequestThere DEF StoreTypes
  <2>. QED
    BY <2>1, <2>2, <2>3
<1>. QED
  BY <1>3, <1>4 DEF EntriesAreRecorded

\* What the browsers have stays recorded when they get nothing new.
LEMMA EntriesStay ==
    ASSUME CoreInv, StoreTypes', Steady, cookie' = cookie, \A b \in Browsers : admin'[b] \in {admin[b], Absent}
    PROVE  EntriesAreRecorded'
<1>1. ASSUME NEW b \in Browsers, cookie[b] # NoSession
      PROVE  \E u \in Users : /\ events'[cookie[b]] = [event |-> "login", actor |-> u, browser |-> b, session |-> cookie[b]]
                              /\ sessions'[cookie[b]] \in {u, NoUser}
  <2>1. PICK u \in Users : /\ events[cookie[b]] = [event |-> "login", actor |-> u, browser |-> b, session |-> cookie[b]]
                           /\ sessions[cookie[b]] \in {u, NoUser}
    BY <1>1 DEF CoreInv, EntriesAreRecorded
  <2>2. PICK s \in Procs : s = cookie[b]
    BY <1>1 DEF CoreInv, StoreTypes
  <2>3. u \in Holder /\ Opened(s)
    BY <2>1, <2>2, CookieWasOpened DEF Holder
  <2>4. events'[s] = events[s] /\ sessions'[s] \in {sessions[s], NoUser}
    BY <2>3, OpenedStays
  <2>. QED
    BY <2>1, <2>2, <2>4
<1>2. ASSUME NEW b \in Browsers, admin'[b] # Absent PROVE Recorded(admin[b].user, b)'
  <2>1. admin'[b] = admin[b] /\ admin[b] \in AdminSession /\ Recorded(admin[b].user, b)
    BY <1>2 DEF CoreInv, StoreTypes, EntriesAreRecorded
  <2>2. PICK u \in Holder : u = admin[b].user /\ u = admin'[b].user
    BY <2>1 DEF AdminSession
  <2>3. Recorded(u, b)
    BY <2>1, <2>2
  <2>4. Recorded(u, b)'
    BY <2>3, RecordedStays
  <2>. QED
    BY <2>2, <2>4
<1>. QED
  BY <1>1, <1>2 DEF EntriesAreRecorded

\* Of the events a request writes, only one is about the end of a session, which has ended.
LEMMA LogoutsAreOver ==
    ASSUME CoreInv, NEW p \in Procs, RequestStep(p), events'[p] # events[p],
           events'[p].event = "logout", events'[p].session # NoSession
    PROVE  \E s \in Procs : events'[p].session = s /\ sessions'[s] = NoUser /\ Opened(s)
<1>1. /\ events \in [Procs -> Event \cup {Absent}]
      /\ \A event, actor, session : Committed(p, event, actor, session) =>
            events'[p] = [event |-> event, actor |-> actor, browser |-> job[p].browser, session |-> session]
  BY RequestThere DEF Committed, StoreTypes
<1>2. ~RecordFailure(p)
  <2>1. ASSUME RecordFailure(p) PROVE FALSE
    <3>1. Committed(p, "login_failed", NoUser, NoSession)
      BY <2>1 DEF RecordFailure
    <3>2. events'[p] = [event |-> "login_failed", actor |-> NoUser, browser |-> job[p].browser, session |-> NoSession]
      BY <1>1, <3>1
    <3>. QED
      BY <3>2
  <2>. QED
    BY <2>1
<1>3. ~Record(p)
  <2>1. ASSUME Record(p) PROVE FALSE
    <3>1. Committed(p, "login", own[p].who, own[p].sid)
      BY <2>1 DEF Record
    <3>2. events'[p] = [event |-> "login", actor |-> own[p].who, browser |-> job[p].browser, session |-> own[p].sid]
      BY <1>1, <3>1
    <3>. QED
      BY <3>2
  <2>. QED
    BY <2>1
<1>4. ~Leave(p)
  <2>1. ASSUME Leave(p) PROVE FALSE
    <3>1. Committed(p, "logout", own[p].who, NoSession)
      BY <2>1 DEF Leave
    <3>2. events'[p] = [event |-> "logout", actor |-> own[p].who, browser |-> job[p].browser, session |-> NoSession]
      BY <1>1, <3>1
    <3>. QED
      BY <3>2
  <2>. QED
    BY <2>1
<1>5. RecordLogout(p)
  BY <1>2, <1>3, <1>4 DEF RequestStep, Arrive, Validate, Load, Resolve, Authenticate, StartConsent, Return, Exchange, Open,
     Match, Permit, DropState, Revoke, LoadAdmin, Refresh, View, Answer, Crash, store
<1>6. /\ pc[p] = "signingout" /\ Committed(p, "logout", own[p].who, own[p].sid) /\ sessions' = sessions
  BY <1>5 DEF RecordLogout
<1>7. PICK s \in Procs : s = own[p].sid
  BY <1>6, RequestThere DEF CarriedAt
<1>8. sessions[s] = NoUser /\ Opened(s)
  BY <1>6, <1>7, RequestThere DEF RecordedAt, PlacedAt, Active
<1>9. events'[p] = [event |-> "logout", actor |-> own[p].who, browser |-> job[p].browser, session |-> own[p].sid]
  BY <1>1, <1>6
<1>. QED
  BY <1>6, <1>7, <1>8, <1>9

\* A session that was signed out of on record stays without a user.
LEMMA LogoutsStay ==
    ASSUME CoreInv, Steady, NEW q \in Procs, events'[q] = events[q],
           events'[q] # Absent, events'[q].event = "logout", events'[q].session # NoSession
    PROVE  Opened(events[q].session)' /\ sessions'[events'[q].session] = NoUser
<1>1. events[q].session \in Procs
  BY DEF CoreInv, StoreTypes, Event
<1>2. PICK s \in Procs : s = events[q].session /\ s = events'[q].session
  BY <1>1
<1>3. Opened(s) /\ sessions[s] = NoUser
  BY <1>2 DEF CoreInv, LogoutIsFinal, LogoutsWereOpened
<1>4. Opened(s)' /\ sessions'[s] = NoUser
  BY <1>3, OpenedStays
<1>. QED
  BY <1>2, <1>4

\* Every step keeps the invariant.
LEMMA CoreKept == CoreInv /\ [Next]_vars => CoreInv'
<1>. SUFFICES ASSUME CoreInv, [Next]_vars PROVE CoreInv'
  OBVIOUS
<1>1. ASSUME NEW p \in Procs, RequestStep(p) PROVE CoreInv'
  <2>1. StoreTypes' /\ LocalTypes' /\ Moved(p) /\ Steady /\ (\A q \in Procs : q # p => events'[q] = events[q]) /\ RequestAt(p)'
    BY <1>1, RequestSteps DEF StepOf
  <2>2. Requests'
    <3>1. ASSUME NEW q \in Procs, q # p PROVE RequestAt(q)'
      BY <2>1, <3>1, OthersKept DEF Moved
    <3>. QED
      BY <2>1, <3>1 DEF Requests
  <2>3. EntriesAreRecorded'
    <3>1. CASE Answer(p)
      BY <3>1, AnswersAreRecorded
    <3>2. CASE ~Answer(p)
      <4>1. cookie' = cookie /\ admin' = admin
        BY <1>1, <3>2 DEF RequestStep, Arrive, Validate, Load, Resolve, Authenticate, RecordFailure, StartConsent, Return,
           Exchange, Open, Match, Permit, Record, DropState, Revoke, RecordLogout, Leave, LoadAdmin, Refresh, View, Crash, store
      <4>. QED
        BY <2>1, <4>1, EntriesStay
    <3>. QED
      BY <3>1, <3>2
  <2>4. ASSUME NEW q \in Procs, events'[q] # Absent, events'[q].event = "logout", events'[q].session # NoSession
        PROVE  Opened(events[q].session)' /\ sessions'[events'[q].session] = NoUser
    <3>1. CASE events'[q] = events[q]
      BY <2>1, <2>4, <3>1, LogoutsStay
    <3>2. CASE events'[q] # events[q]
      <4>1. q = p
        BY <2>1, <3>2
      <4>2. PICK s \in Procs : events'[p].session = s /\ sessions'[s] = NoUser /\ Opened(s)
        BY <1>1, <2>4, <3>2, <4>1, LogoutsAreOver
      <4>3. Opened(s)'
        BY <2>1, <4>2, OpenedStays
      <4>. QED
        BY <4>1, <4>2, <4>3
    <3>. QED
      BY <3>1, <3>2
  <2>. QED
    BY <2>1, <2>2, <2>3, <2>4 DEF CoreInv, LogoutIsFinal, LogoutsWereOpened
<1>2. CASE EnvironmentStep
  <2>1. StoreTypes' /\ Steady /\ events' = events /\ cookie' = cookie /\ UNCHANGED <<pc, job, own>>
    BY <1>2, EnvironmentKeeps DEF local
  <2>2. \A b \in Browsers : admin'[b] \in {admin[b], Absent}
    BY <1>2 DEF EnvironmentStep, Regrant, SetSuper, DeleteAccount, Expire, Forget, CoreInv, StoreTypes
  <2>3. LocalTypes'
    BY <2>1 DEF CoreInv, LocalTypes
  <2>4. Requests'
    <3>1. ASSUME NEW q \in Procs PROVE RequestAt(q)'
      BY <2>1, OthersKept
    <3>. QED
      BY <3>1 DEF Requests
  <2>5. EntriesAreRecorded'
    BY <2>1, <2>2, EntriesStay
  <2>6. LogoutIsFinal' /\ LogoutsWereOpened'
    BY <2>1, LogoutsStay DEF LogoutIsFinal, LogoutsWereOpened
  <2>. QED
    BY <2>1, <2>3, <2>4, <2>5, <2>6 DEF CoreInv
<1>3. CASE UNCHANGED vars
  <2>1. /\ StoreTypes' /\ LocalTypes' /\ Steady
        /\ UNCHANGED <<events, cookie, admin, sessions, pc, job, own>>
    BY <1>3 DEF vars, store, local, CoreInv, StoreTypes, LocalTypes, Steady
  <2>2. Requests'
    <3>1. ASSUME NEW q \in Procs PROVE RequestAt(q)'
      BY <2>1, OthersKept
    <3>. QED
      BY <3>1 DEF Requests
  <2>3. EntriesAreRecorded'
    BY <2>1, EntriesStay
  <2>4. LogoutIsFinal' /\ LogoutsWereOpened'
    BY <2>1, LogoutsStay DEF LogoutIsFinal, LogoutsWereOpened
  <2>. QED
    BY <2>1, <2>2, <2>3, <2>4 DEF CoreInv
<1>. QED
  BY <1>1, <1>2, <1>3 DEF Next, Step, RequestStep, EnvironmentStep

-----------------------------------------------------------------------------
(* The history: what a request has got past cannot have stood against it all along. *)

Kinds == {"signedout", "deleted", "forbidden"}

Refused(p) == own[p].who \in Users /\ ~account[own[p].who].super /\ ~Need(job[p]) \subseteq account[own[p].who].perms

PastAt(p) ==
    /\ pc[p] \in Checking => throughout[p] \subseteq Obstacles(p)
    /\ pc[p] \in {"loading", "resolving"} => "signedout" \notin throughout[p]
    /\ pc[p] \in {"resolving", "refreshing", "viewing"} => "deleted" \notin throughout[p]
    /\ pc[p] \in {"resolving", "refreshing"} /\ own[p].seen.super => "forbidden" \notin throughout[p]
    /\ pc[p] = "viewing" /\ (own[p].mine.user = NoUser \/ own[p].mine.super \/ job[p].need \in own[p].mine.perms) =>
          "forbidden" \notin throughout[p]
    /\ pc[p] = "granted" => throughout[p] = {}

HistoryTypes == throughout \in [Procs -> SUBSET Kinds]

SignInInv == CoreInv /\ HistoryTypes /\ \A p \in Procs : PastAt(p)

\* What stands against a request, kind by kind.
LEMMA ObstaclesAre ==
    ASSUME NEW p \in Procs
    PROVE  /\ Obstacles(p) \subseteq Kinds
           /\ "signedout" \in Obstacles(p) <=> job[p].op = "page" /\ ~Live(own[p].sid)
           /\ "deleted" \in Obstacles(p) <=> own[p].who \in Users /\ account[own[p].who].deleted
           /\ "forbidden" \in Obstacles(p) => job[p].op \in {"page", "adminpage"} /\ Refused(p)
BY DEF Obstacles, Kinds, Refused

\* The history of a request shrinks to what still stands against it.
LEMMA HistoryNarrows ==
    ASSUME HistoryTypes, Observe, NEW p \in Procs
    PROVE  /\ pc'[p] \in Checking => throughout'[p] \subseteq Obstacles(p)'
           /\ pc'[p] \in Checking /\ pc[p] # "new" => throughout'[p] \subseteq throughout[p]
           /\ pc'[p] = "granted" => throughout'[p] = throughout[p]
           /\ pc'[p] \notin Checking \cup {"granted"} => throughout'[p] = {}
<1>1. throughout'[p] = CASE pc'[p] \in Checking  -> IF pc[p] = "new" THEN Obstacles(p)' ELSE throughout[p] \cap Obstacles(p)'
                         [] pc'[p] = "granted" -> throughout[p]
                         [] OTHER -> {}
  BY DEF Observe
<1>2. "granted" \notin Checking
  BY DEF Checking
<1>. QED
  BY <1>1, <1>2

\* The history keeps its type.
LEMMA HistoryTyped == ASSUME HistoryTypes, Observe PROVE HistoryTypes'
<1>1. ASSUME NEW p \in Procs PROVE Obstacles(p)' \subseteq Kinds
  BY DEF Obstacles, Kinds
<1>2. ASSUME NEW p \in Procs PROVE throughout'[p] \in SUBSET Kinds
  <2>1. throughout[p] \in SUBSET Kinds
    BY DEF HistoryTypes
  <2>. QED
    BY <1>1, <2>1, HistoryNarrows
<1>3. throughout' = [p \in Procs |-> throughout'[p]]
  BY DEF Observe
<1>. QED
  BY <1>2, <1>3 DEF HistoryTypes

\* A request that stays where it is keeps what it has got past.
LEMMA PastStays ==
    ASSUME SignInInv, Observe, NEW q \in Procs, pc'[q] = pc[q], job'[q] = job[q], own'[q] = own[q]
    PROVE  PastAt(q)'
<1>1. PastAt(q) /\ HistoryTypes
  BY DEF SignInInv
<1>2. "new" \notin Checking /\ {"loading", "resolving", "refreshing", "viewing"} \subseteq Checking
  BY DEF Checking
<1>3. pc[q] \in Checking => throughout'[q] \subseteq throughout[q] /\ throughout'[q] \subseteq Obstacles(q)'
  BY <1>1, <1>2, HistoryNarrows
<1>4. pc[q] = "granted" => throughout'[q] = throughout[q]
  BY <1>1, HistoryNarrows
<1>. QED
  BY <1>1, <1>2, <1>3, <1>4 DEF PastAt

\* Nothing is asked of a request outside the gates.
LEMMA PastElsewhere ==
    ASSUME NEW p \in Procs, pc'[p] \notin Checking \cup {"granted"}
    PROVE  PastAt(p)'
BY DEF PastAt, Checking

\* Where a request that goes on is next.
LEMMA GotoLeads ==
    ASSUME CoreInv, NEW p \in Procs, NEW where, NEW what, Goto(p, where, what)
    PROVE  /\ pc'[p] = where
           /\ where # "over" => job'[p] = job[p] /\ own'[p] = what
BY RequestThere DEF Goto, LocalTypes

\* What the gate of pages has passed cannot have stood all along.
LEMMA PagesPast ==
    ASSUME SignInInv, Observe, NEW p \in Procs, Validate(p) \/ Load(p) \/ Resolve(p)
    PROVE  PastAt(p)'
<1>0. CoreInv /\ HistoryTypes /\ PastAt(p) /\ throughout[p] \subseteq Kinds /\ PlacedAt(p) /\ CarriedAt(p)
  BY RequestThere DEF SignInInv, HistoryTypes
<1>1. {"validating", "loading", "resolving"} \subseteq Checking /\ "granted" \notin Checking /\ "new" \notin Checking
      /\ "over" \notin Checking /\ "revoking" \notin Checking
  BY DEF Checking
<1>2. CASE pc'[p] \notin Checking \cup {"granted"}
  BY <1>2, PastElsewhere
<1>3. CASE Validate(p) /\ pc'[p] \in Checking \cup {"granted"}
  <2>1. pc[p] = "validating" /\ Goto(p, "loading", own[p]) /\ Live(own[p].sid)
    <3>1. PICK where \in {"over", "revoking", "loading"} : Goto(p, where, own[p]) /\ (where # "over" => Live(own[p].sid))
      BY <1>3 DEF Validate
    <3>2. pc'[p] = where
      BY <1>0, <3>1, GotoLeads
    <3>. QED
      BY <1>1, <1>3, <3>1, <3>2 DEF Validate
  <2>2. pc'[p] = "loading"
    BY <1>0, <2>1, GotoLeads
  <2>3. throughout'[p] \subseteq Obstacles(p)' /\ throughout'[p] \subseteq throughout[p]
    BY <1>0, <1>1, <2>1, <2>2, HistoryNarrows
  <2>4. "signedout" \notin throughout[p]
    BY <1>0, <1>1, <2>1, ObstaclesAre DEF PastAt
  <2>. QED
    BY <2>2, <2>3, <2>4 DEF PastAt
<1>4. CASE Load(p) /\ pc'[p] \in Checking \cup {"granted"}
  <2>1. pc[p] = "loading" /\ Goto(p, "resolving", Loaded(p)) /\ ~account[own[p].who].deleted
    <3>1. PICK where \in {"over", "revoking", "resolving"} :
             Goto(p, where, Loaded(p)) /\ (where # "over" => ~account[own[p].who].deleted)
      BY <1>4 DEF Load
    <3>2. pc'[p] = where
      BY <1>0, <3>1, GotoLeads
    <3>. QED
      BY <1>1, <1>4, <3>1, <3>2 DEF Load
  <2>2. pc'[p] = "resolving" /\ own'[p] = Loaded(p)
    BY <1>0, <2>1, GotoLeads
  <2>3. Loaded(p).seen = account[own[p].who]
    BY <1>0, RequestThere DEF Loaded, Own
  <2>4. throughout'[p] \subseteq Obstacles(p)' /\ throughout'[p] \subseteq throughout[p]
    BY <1>0, <1>1, <2>1, <2>2, HistoryNarrows
  <2>5. "signedout" \notin throughout[p] /\ "deleted" \notin throughout[p]
    BY <1>0, <1>1, <2>1, ObstaclesAre DEF PastAt
  <2>6. account[own[p].who].super => "forbidden" \notin throughout[p]
    BY <1>0, <1>1, <2>1, ObstaclesAre DEF PastAt, Refused
  <2>. QED
    BY <2>2, <2>3, <2>4, <2>5, <2>6 DEF PastAt
<1>5. CASE Resolve(p) /\ pc'[p] \in Checking \cup {"granted"}
  <2>1. pc[p] = "resolving" /\ Goto(p, "granted", own[p]) /\ job[p].need \in Held(p)
    <3>1. PICK where \in {"over", "granted"} : Goto(p, where, own[p]) /\ (where # "over" => job[p].need \in Held(p))
      BY <1>5 DEF Resolve
    <3>2. pc'[p] = where
      BY <1>0, <3>1, GotoLeads
    <3>. QED
      BY <1>1, <1>5, <3>1, <3>2 DEF Resolve
  <2>2. pc'[p] = "granted"
    BY <1>0, <2>1, GotoLeads
  <2>3. "forbidden" \notin throughout[p]
    <3>1. CASE own[p].seen.super
      BY <1>0, <2>1, <3>1 DEF PastAt
    <3>2. CASE ~own[p].seen.super
      <4>1. job[p].need \in account[own[p].who].perms /\ job[p].op = "page"
        BY <1>0, <2>1, <3>2 DEF Held, PlacedAt
      <4>2. Need(job[p]) \subseteq account[own[p].who].perms
        BY <4>1 DEF Need
      <4>. QED
        BY <1>0, <1>1, <2>1, <4>2, ObstaclesAre DEF PastAt, Refused
    <3>. QED
      BY <3>1, <3>2
  <2>4. throughout[p] = {}
    BY <1>0, <2>1, <2>3 DEF PastAt, Kinds
  <2>5. throughout'[p] = {}
    BY <1>0, <2>2, <2>4, HistoryNarrows
  <2>. QED
    BY <1>1, <2>2, <2>5 DEF PastAt
<1>. QED
  BY <1>2, <1>3, <1>4, <1>5

\* What the gate of the back office has passed cannot have stood all along.
LEMMA GatePast ==
    ASSUME SignInInv, Observe, NEW p \in Procs, LoadAdmin(p) \/ Refresh(p) \/ View(p)
    PROVE  PastAt(p)'
<1>0. CoreInv /\ HistoryTypes /\ PastAt(p) /\ throughout[p] \subseteq Kinds /\ CarriedAt(p) /\ job[p].op = "adminpage"
  BY RequestThere DEF SignInInv, HistoryTypes, PlacedAt, LoadAdmin, Refresh, View
<1>1. {"admitting", "refreshing", "viewing"} \subseteq Checking /\ "granted" \notin Checking /\ "new" \notin Checking
      /\ "over" \notin Checking /\ "answering" \notin Checking
  BY DEF Checking
<1>2. CASE pc'[p] \notin Checking \cup {"granted"}
  BY <1>2, PastElsewhere
<1>3. "signedout" \notin Obstacles(p)
  BY <1>0, ObstaclesAre
<1>4. CASE LoadAdmin(p) /\ pc'[p] \in Checking \cup {"granted"}
  <2>1. pc[p] = "admitting" /\ throughout[p] \subseteq Obstacles(p)
    BY <1>0, <1>1, <1>4 DEF LoadAdmin, PastAt
  <2>2. pc'[p] \in Checking /\ throughout'[p] \subseteq Obstacles(p)' /\ throughout'[p] \subseteq throughout[p]
    <3>1. pc'[p] # "granted"
      BY <1>0, <1>4, GotoLeads, AdmissionLeads
    <3>. QED
      BY <1>0, <1>1, <1>4, <2>1, <3>1, HistoryNarrows
  <2>3. CASE own[p].who = NoUser /\ Goto(p, "viewing", own[p])
    <3>1. pc'[p] = "viewing"
      BY <1>0, <2>3, GotoLeads
    <3>2. "deleted" \notin Obstacles(p) /\ "forbidden" \notin Obstacles(p)
      BY <2>3, ObstaclesAre, SignInAssumption DEF Refused
    <3>. QED
      BY <2>1, <2>2, <3>1, <3>2 DEF PastAt
  <2>4. CASE own[p].who \in Users /\ ~account[own[p].who].deleted /\ Goto(p, "refreshing", Loaded(p))
    <3>1. pc'[p] = "refreshing" /\ own'[p] = Loaded(p)
      BY <1>0, <2>4, GotoLeads
    <3>2. Loaded(p).seen = account[own[p].who]
      BY <1>0, RequestThere DEF Loaded, Own
    <3>3. "deleted" \notin Obstacles(p) /\ (account[own[p].who].super => "forbidden" \notin Obstacles(p))
      BY <2>4, ObstaclesAre DEF Refused
    <3>. QED
      BY <2>1, <2>2, <3>1, <3>2, <3>3 DEF PastAt
  <2>5. ~Goto(p, "over", own[p]) /\ ~Goto(p, "answering", Cleared(p))
    BY <1>0, <1>1, <1>4, GotoLeads
  <2>. QED
    BY <1>0, <1>4, <2>3, <2>4, <2>5, AdmissionLeads
<1>5. CASE Refresh(p) /\ pc'[p] \in Checking \cup {"granted"}
  <2>1. pc[p] = "refreshing" /\ throughout[p] \subseteq Obstacles(p) /\ own[p].who \in Users /\ own[p].seen \in Account
    BY <1>0, <1>1, <1>5 DEF Refresh, PastAt, CarriedAt
  <2>2. MayAdminister(p) /\ Goto(p, "viewing", Refreshed(p))
    <3>1. ~Goto(p, "answering", Cleared(p))
      BY <1>0, <1>1, <1>5, GotoLeads
    <3>. QED
      BY <1>5, <3>1 DEF Refresh
  <2>3. pc'[p] = "viewing" /\ own'[p] = Refreshed(p) /\ job'[p] = job[p]
    BY <1>0, <2>2, GotoLeads
  <2>4. throughout'[p] \subseteq Obstacles(p)' /\ throughout'[p] \subseteq throughout[p]
    BY <1>0, <1>1, <2>1, <2>3, HistoryNarrows
  <2>5. /\ Refreshed(p).mine.user = own[p].who /\ Refreshed(p).mine.super = own[p].seen.super
        /\ Refreshed(p).mine.perms = Held(p)
    BY <1>0, <2>1, RefreshedIsOwn
  <2>6. own[p].seen.super => "forbidden" \notin throughout[p]
    BY <1>0, <2>1 DEF PastAt
  <2>7. ~own[p].seen.super /\ job[p].need \in Held(p) => "forbidden" \notin throughout[p]
    <3>1. ASSUME ~own[p].seen.super, job[p].need \in Held(p) PROVE "forbidden" \notin throughout[p]
      <4>1. AdminPerm \in account[own[p].who].perms /\ job[p].need \in account[own[p].who].perms
        BY <2>2, <3>1 DEF MayAdminister, Held
      <4>2. Need(job[p]) \subseteq account[own[p].who].perms
        BY <4>1 DEF Need
      <4>. QED
        BY <2>1, <4>2, ObstaclesAre DEF Refused
    <3>. QED
      BY <3>1
  <2>8. own[p].who # NoUser /\ "deleted" \notin throughout[p]
    BY <1>0, <2>1, SignInAssumption DEF PastAt
  <2>. QED
    BY <2>3, <2>4, <2>5, <2>6, <2>7, <2>8 DEF PastAt
<1>6. CASE View(p) /\ pc'[p] \in Checking \cup {"granted"}
  <2>1. pc[p] = "viewing" /\ throughout[p] \subseteq Obstacles(p)
    BY <1>0, <1>1, <1>6 DEF View, PastAt
  <2>2. PICK where \in {"granted", "answering"} :
           /\ Goto(p, where, own[p])
           /\ where = "granted" => own[p].mine.user = NoUser \/ own[p].mine.super \/ job[p].need \in own[p].mine.perms
    BY <1>6 DEF View
  <2>3. pc'[p] = "granted" /\ where = "granted"
    BY <1>0, <1>1, <1>6, <2>2, GotoLeads
  <2>4. throughout[p] = {}
    BY <1>0, <1>3, <2>1, <2>2, <2>3 DEF PastAt, Kinds
  <2>5. throughout'[p] = {}
    BY <1>0, <2>3, <2>4, HistoryNarrows
  <2>. QED
    BY <1>1, <2>3, <2>5 DEF PastAt
<1>. QED
  BY <1>2, <1>4, <1>5, <1>6

\* A request that has just come has passed nothing.
LEMMA ArrivalPast == ASSUME SignInInv, Observe, NEW p \in Procs, Arrive(p) PROVE PastAt(p)'
<1>1. CoreInv /\ HistoryTypes /\ job[p] \in Job
  BY RequestThere DEF SignInInv, PlacedAt, Arrive
<1>2. PICK what : Goto(p, First[job[p].op], what)
  BY DEF Arrive
<1>3. First[job[p].op] \notin {"loading", "resolving", "refreshing", "viewing", "granted"}
  BY <1>1, JobFields DEF First, BackOffice
<1>4. pc'[p] = First[job[p].op]
  BY <1>1, <1>2, GotoLeads
<1>. QED
  BY <1>1, <1>3, <1>4, HistoryNarrows DEF PastAt

\* The other steps lead away from the gates.
LEMMA ElsewherePast ==
    ASSUME SignInInv, NEW p \in Procs, RequestStep(p),
           ~(Arrive(p) \/ Validate(p) \/ Load(p) \/ Resolve(p) \/ LoadAdmin(p) \/ Refresh(p) \/ View(p))
    PROVE  PastAt(p)'
<1>. DEFINE away == {"opening", "permitting", "failing", "over", "answering", "exchanging", "recording", "dropping", "signingout"}
<1>1. \E where \in away : \E what : Goto(p, where, what)
  <2>1. CASE Authenticate(p)
    <3>1. \E where \in {"opening", "permitting", "failing", "over", "answering"} : \E what : Goto(p, where, what)
      BY <2>1 DEF Authenticate, Reject
    <3>. QED
      BY <3>1
  <2>2. CASE RecordFailure(p) \/ StartConsent(p) \/ Answer(p) \/ Crash(p)
    BY <2>2 DEF RecordFailure, StartConsent, Answer, Crash
  <2>3. CASE Return(p) \/ Exchange(p)
    BY <2>3 DEF Return, Exchange
  <2>4. CASE Open(p) \/ Match(p)
    BY <2>4 DEF Open, Match
  <2>5. CASE Permit(p)
    BY <2>5 DEF Permit, Reject
  <2>6. CASE Record(p) \/ DropState(p) \/ Revoke(p) \/ RecordLogout(p)
    BY <2>6 DEF Record, DropState, Revoke, RecordLogout
  <2>7. CASE Leave(p)
    BY <2>7 DEF Leave
  <2>. QED
    BY <2>1, <2>2, <2>3, <2>4, <2>5, <2>6, <2>7 DEF RequestStep
<1>2. pc'[p] \in away
  BY <1>1, GotoLeads DEF SignInInv
<1>3. away \cap (Checking \cup {"granted"}) = {}
  BY DEF Checking
<1>. QED
  BY <1>2, <1>3, PastElsewhere

\* Every step keeps the invariant and the history.
LEMMA SignInKept == SignInInv /\ [Next]_vars => SignInInv'
<1>. SUFFICES ASSUME SignInInv, [Next]_vars PROVE SignInInv'
  OBVIOUS
<1>1. CoreInv'
  BY CoreKept DEF SignInInv
<1>2. CASE UNCHANGED vars
  <2>1. HistoryTypes'
    BY <1>2 DEF SignInInv, HistoryTypes, vars
  <2>2. ASSUME NEW q \in Procs PROVE PastAt(q)'
    <3>1. PastAt(q) /\ Obstacles(q)' = Obstacles(q)
      BY <1>2 DEF SignInInv, vars, store, local, Obstacles, Live, Need
    <3>. QED
      BY <1>2, <3>1 DEF PastAt, vars, local
  <2>. QED
    BY <1>1, <2>1, <2>2 DEF SignInInv
<1>3. CASE Next
  <2>1. Observe /\ HistoryTypes'
    BY <1>3, HistoryTyped DEF Next, SignInInv
  <2>2. ASSUME NEW p \in Procs, RequestStep(p), NEW q \in Procs PROVE PastAt(q)'
    <3>1. CASE q = p
      BY <2>1, <2>2, <3>1, PagesPast, GatePast, ArrivalPast, ElsewherePast
    <3>2. CASE q # p
      <4>1. Moved(p)
        BY <2>2, RequestSteps DEF StepOf, SignInInv
      <4>. QED
        BY <2>1, <3>2, <4>1, PastStays DEF Moved
    <3>. QED
      BY <3>1, <3>2
  <2>3. ASSUME EnvironmentStep, NEW q \in Procs PROVE PastAt(q)'
    <3>1. UNCHANGED <<pc, job, own>>
      BY <2>3, EnvironmentKeeps DEF SignInInv, local
    <3>. QED
      BY <2>1, <3>1, PastStays
  <2>. QED
    BY <1>1, <1>3, <2>1, <2>2, <2>3 DEF SignInInv, Next, Step, RequestStep, EnvironmentStep
<1>. QED
  BY <1>2, <1>3

\* The invariant and the history hold at the start.
LEMMA SignInStart == Init => SignInInv
<1>. SUFFICES ASSUME Init PROVE SignInInv
  OBVIOUS
<1>1. CoreInv
  BY CoreStart
<1>2. HistoryTypes /\ \A p \in Procs : pc[p] = "new"
  BY DEF Init, HistoryTypes
<1>3. ASSUME NEW p \in Procs PROVE PastAt(p)
  BY <1>2 DEF PastAt, Checking
<1>. QED
  BY <1>1, <1>2, <1>3 DEF SignInInv

\* The invariant of the proofs holds in every reachable state.
LEMMA SignInAlways == Spec => []SignInInv
BY SignInStart, SignInKept, PTL DEF Spec

\* The tables, the sessions and cookies, and the requests in every place have their types.
THEOREM SignInTypes == Spec => []TypeOK
<1>1. SignInInv => TypeOK
  BY DEF SignInInv, CoreInv, StoreTypes, LocalTypes, HistoryTypes, Kinds, TypeOK, Places
<1>. QED
  BY <1>1, SignInAlways, PTL

\* A page or a view that is served was not refused by anything that was true since
\* before the request came, for any permissions, sessions and changes to the account.
THEOREM AccessHolds == Spec => []AccessIsCurrent
<1>1. SignInInv => AccessIsCurrent
  BY DEF SignInInv, PastAt, AccessIsCurrent
<1>. QED
  BY <1>1, SignInAlways, PTL

\* No browser is signed in, to the pages or to the back office, without an event that says so.
THEOREM EntriesHold == Spec => []EntriesAreRecorded
<1>1. SignInInv => EntriesAreRecorded
  BY DEF SignInInv, CoreInv
<1>. QED
  BY <1>1, SignInAlways, PTL

\* A session whose end is on record has ended and is never live again.
THEOREM LogoutHolds == Spec => []LogoutIsFinal
<1>1. SignInInv => LogoutIsFinal
  BY DEF SignInInv, CoreInv
<1>. QED
  BY <1>1, SignInAlways, PTL
=============================================================================
