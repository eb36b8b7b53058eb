---------------------------- MODULE RateLimiter ----------------------------
(***************************************************************************)
(* The rate limiter, for the requests of one caller: each one stamps the   *)
(* window it falls into, asks the backend to count it there, and is        *)
(* admitted, or refused, on the count that comes back.  A backend that     *)
(* cannot answer falls back on the policy, fail-open or fail-closed, which *)
(* a call may override for as long as it runs.                             *)
(*                                                                         *)
(* The Redis backend counts in one transaction on the server; the one for  *)
(* memcached reads the counter and writes it back, in two commands.        *)
(***************************************************************************)
EXTENDS Integers, FiniteSets

CONSTANTS Procs,        \* requests, all under one key
          Limit, Period,
          Backends,     \* what may be deployed: "redis", "memcached"
          Configured,   \* the policy the backend was set up with
          Policies,     \* the policies callers ask for
          Patience,     \* ticks after which a client gives up on Redis
          Retries,      \* how often the Redis client repeats a command that was not answered
          MaxClock      \* bound

ASSUME RateAssumption ==
    /\ Limit \in Nat \ {0} /\ Period \in Nat \ {0}
    /\ Backends \subseteq {"redis", "memcached"}
    /\ Configured \in {"open", "closed"} /\ Policies \subseteq {"open", "closed"}
    /\ Patience \in Nat /\ Retries \in Nat /\ MaxClock \in Nat

VARIABLES clock,
          backend,          \* the one that was set up
          count, expires,   \* the counters on the server: window -> value, and when it is dropped
          failOpen,         \* the backend's policy, one field for all calls
          pc,
          saved,            \* request -> the policy it put aside
          born, win,        \* request -> when it was stamped, and with which window
          got,              \* request -> the count it was given
          at, tries         \* request -> when it was counted last, and how often

server == <<count, expires>>
call   == <<saved, born, win>>
vars   == <<clock, backend, server, failOpen, pc, call, got, at, tries>>

Time    == 0..MaxClock
Never   == -1
Nothing == "nothing"
Policy  == {"open", "closed"}

Window(t) == t - (t % Period)

\* The value of a counter; one that has expired starts over.
Current(w) == IF clock < expires[w] THEN count[w] ELSE 0

Init ==
    /\ clock \in Time /\ backend \in Backends
    /\ count = [w \in Time |-> 0] /\ expires = [w \in Time |-> 0]
    /\ failOpen = Configured
    /\ pc = [p \in Procs |-> "new"]
    /\ saved = [p \in Procs |-> Nothing]
    /\ born = [p \in Procs |-> 0] /\ win = [p \in Procs |-> 0]
    /\ got = [p \in Procs |-> 0] /\ at = [p \in Procs |-> Never] /\ tries = [p \in Procs |-> 0]

Goto(p, where) == pc' = [pc EXCEPT ![p] = where]

-----------------------------------------------------------------------------
(* The provider: the policy of the call is put in place, and taken back. *)

Override(p, policy) ==
    IF policy = failOpen
    THEN saved' = [saved EXCEPT ![p] = Nothing] /\ UNCHANGED failOpen
    ELSE saved' = [saved EXCEPT ![p] = failOpen] /\ failOpen' = policy

Restore(p) == failOpen' = IF saved[p] = Nothing THEN failOpen ELSE saved[p]

-----------------------------------------------------------------------------
(* The backends *)

\* The window is the one of the moment the call starts, whenever it is counted.
Check(p, policy) ==
    /\ pc[p] = "new"
    /\ Override(p, policy)
    /\ born' = [born EXCEPT ![p] = clock]
    /\ win' = [win EXCEPT ![p] = Window(clock)]
    /\ Goto(p, IF backend = "redis" THEN "sent" ELSE "reading")
    /\ UNCHANGED <<clock, backend, server, got, at, tries>>

\* Faulty: the counter is kept for one tick.
StoreBriefly(p, value) ==
    /\ count' = [count EXCEPT ![win[p]] = value]
    /\ expires' = [expires EXCEPT ![win[p]] = clock + 1]
    /\ got' = [got EXCEPT ![p] = value]
    /\ at' = [at EXCEPT ![p] = clock]
    /\ tries' = [tries EXCEPT ![p] = @ + 1]
    /\ Goto(p, "counted")

\* The server has the new value, for a whole period from now on.
Store(p, value) ==
    /\ count' = [count EXCEPT ![win[p]] = value]
    /\ expires' = [expires EXCEPT ![win[p]] = clock + Period]
    /\ got' = [got EXCEPT ![p] = value]
    /\ at' = [at EXCEPT ![p] = clock]
    /\ tries' = [tries EXCEPT ![p] = @ + 1]
    /\ Goto(p, "counted")

\* INCR and EXPIRE, one transaction; sent again while its answer stays out.
Increment(p) ==
    /\ pc[p] = "sent"
    /\ Store(p, Current(win[p]) + 1)
    /\ UNCHANGED <<clock, backend, failOpen, call>>

\* The answer is lost and the client sends the command again.
Resend(p) ==
    /\ backend = "redis"
    /\ pc[p] = "counted"
    /\ tries[p] <= Retries /\ clock - born[p] <= Patience
    /\ Goto(p, "sent")
    /\ UNCHANGED <<clock, backend, server, failOpen, call, got, at, tries>>

ReadCounter(p) ==
    /\ pc[p] = "reading"
    /\ got' = [got EXCEPT ![p] = Current(win[p])]
    /\ Goto(p, "writing")
    /\ UNCHANGED <<clock, backend, server, failOpen, call, at, tries>>

WriteCounter(p) ==
    /\ pc[p] = "writing"
    /\ Store(p, got[p] + 1)
    /\ UNCHANGED <<clock, backend, failOpen, call>>

\* Faulty: the request that reaches the limit is refused already.
LimitedEarly(n) == n >= Limit

\* Faulty: one request more.
LimitedLate(n) == n > Limit + 1

IsLimited(n) == n > Limit

Answer(p) ==
    /\ pc[p] = "counted"
    /\ Goto(p, IF IsLimited(got[p]) THEN "refused" ELSE "admitted")
    /\ Restore(p)
    /\ UNCHANGED <<clock, backend, server, call, got, at, tries>>

\* No answer, whether or not the server counted: the policy decides.
Fail(p) ==
    /\ pc[p] \in {"sent", "reading", "writing", "counted"}
    /\ Goto(p, IF failOpen = "open" THEN "excused" ELSE "denied")
    /\ Restore(p)
    /\ UNCHANGED <<clock, backend, server, call, got, at, tries>>

-----------------------------------------------------------------------------
\* A command to Redis reaches it in time, or its client has given up.
Tick ==
    /\ clock < MaxClock
    /\ \A p \in Procs : pc[p] = "sent" => clock - born[p] < Patience
    /\ clock' = clock + 1
    /\ UNCHANGED <<backend, server, failOpen, pc, call, got, at, tries>>

Next ==
    \/ \E p \in Procs :
        \/ \E policy \in Policies : Check(p, policy)
        \/ Increment(p)
        \/ Resend(p)
        \/ ReadCounter(p)
        \/ WriteCounter(p)
        \/ Answer(p)
        \/ Fail(p)
    \/ Tick

Spec == Init /\ [][Next]_vars

-----------------------------------------------------------------------------
Answers == {"admitted", "refused", "excused", "denied"}

TypeOK ==
    /\ clock \in Time /\ backend \in Backends
    /\ count \in [Time -> Nat] /\ expires \in [Time -> Nat]
    /\ failOpen \in Policy
    /\ pc \in [Procs -> {"new", "sent", "reading", "writing", "counted"} \cup Answers]
    /\ saved \in [Procs -> Policy \cup {Nothing}]
    /\ born \in [Procs -> Time] /\ win \in [Procs -> Time]
    /\ got \in [Procs -> Nat] /\ at \in [Procs -> Time \cup {Never}] /\ tries \in [Procs -> Nat]

CountedIn(p, w) == at[p] # Never /\ win[p] = w /\ at[p] < w + Period
CountedLate(p, w) == at[p] # Never /\ win[p] = w /\ at[p] >= w + Period

\* However many requests overlap, no more than the limit are admitted on a count
\* made in a window while that window lasts, lost answers and repeats included.
QuotaHolds ==
    \A w \in Time : Cardinality({p \in Procs : pc[p] = "admitted" /\ CountedIn(p, w)}) <= Limit

\* A request that is stamped at the end of a window and counted after it may find
\* the counter gone; those that do are at most another limit's worth.
StragglersAreBounded ==
    \A w \in Time : Cardinality({p \in Procs : pc[p] = "admitted" /\ CountedLate(p, w)}) <= Limit

\* Nobody is refused before the limit is used up: the window was counted more
\* than the limit's number of times, repeats of a lost answer included.
RefusalsAreEarned ==
    \A p \in Procs : pc[p] = "refused" =>
        \/ Cardinality({q \in Procs : at[q] # Never /\ win[q] = win[p]}) > Limit
        \/ \E q \in Procs : tries[q] > 1 /\ win[q] = win[p]

\* The two of them, as Redis keeps them.
QuotaOnRedis      == backend = "redis" => QuotaHolds
StragglersOnRedis == backend = "redis" => StragglersAreBounded

\* The requests a window has let in while it lasted; only Redis promises anything of them.
LetIn == [w \in Time |-> IF backend = "redis"
                         THEN {p \in Procs : pc[p] = "admitted" /\ CountedIn(p, w)}
                         ELSE {}]

PerWindow == INSTANCE Quota WITH Accounts <- Time, Uses <- Procs, used <- LetIn

\* On Redis every window spends its limit as if its requests came one by one:
\* each is let in once, on one window, while there is room, and none is taken back.
KeepsQuota == PerWindow!PeriodSpec

\* An override lasts as long as its call: with no call on the way the backend has
\* the policy it was set up with.  (provider.py calls the overrides temporary, and
\* a test says that one affects only its own call.)
OverridesAreTemporary ==
    (\A p \in Procs : pc[p] \in {"new"} \cup Answers) => failOpen = Configured
=============================================================================
