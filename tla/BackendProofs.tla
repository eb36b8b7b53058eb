---------------------------- MODULE BackendProofs ----------------------------
(***************************************************************************)
(* Proofs about the two components that keep their state in Redis or       *)
(* memcached: the rate limiter, for any number of requests, any limit and  *)
(* period and any bound on the clock, which on Redis implements one quota  *)
(* per window, and the cache decorator, for any number of keys and         *)
(* requests, whatever the requests name.                                   *)
(***************************************************************************)
EXTENDS RateLimiter, CacheAside, FiniteSetTheorems, TLAPS

-----------------------------------------------------------------------------
(* The rate limiter *)

\* The window of a moment has begun and is not over.
LEMMA WindowOf ==
    \A t \in Time : Window(t) \in Time /\ Window(t) <= t /\ t < Window(t) + Period
<1>. SUFFICES ASSUME NEW t \in Time
     PROVE  Window(t) \in Time /\ Window(t) <= t /\ t < Window(t) + Period
  OBVIOUS
<1>1. t \in Nat /\ Period \in Nat \ {0} /\ MaxClock \in Nat /\ t <= MaxClock
  BY RateAssumption DEF Time
<1>2. t % Period \in 0..(Period - 1) /\ t % Period <= t
  BY <1>1, SMT
<1>. HIDE DEF Time
<1>. QED
  BY <1>1, <1>2 DEF Window, Time

\* What a counter shows is a number.
LEMMA CurrentType == TypeOK => \A w \in Time : Current(w) \in Nat
BY DEF TypeOK, Current

\* TypeOK is inductive by itself.
LEMMA TypesStart == Init => TypeOK
<1>. USE RateAssumption
<1>1. 0 \in Time
  BY DEF Time
<1>2. Configured \in Policy
  BY DEF Policy
<1>. SUFFICES ASSUME Init PROVE TypeOK
  OBVIOUS
<1>3. count \in [Time -> Nat] /\ expires \in [Time -> Nat] /\ clock \in Time /\ backend \in Backends
  BY DEF Init
<1>4. born \in [Procs -> Time] /\ win \in [Procs -> Time]
  BY <1>1 DEF Init
<1>5. got \in [Procs -> Nat] /\ tries \in [Procs -> Nat] /\ at \in [Procs -> Time \cup {Never}]
  BY DEF Init
<1>6. /\ pc \in [Procs -> {"new", "sent", "reading", "writing", "counted"} \cup Answers]
      /\ saved \in [Procs -> Policy \cup {Nothing}]
  BY DEF Init
<1>7. failOpen \in Policy
  BY <1>2 DEF Init
<1>. QED
  BY <1>3, <1>4, <1>5, <1>6, <1>7 DEF TypeOK

\* Every step keeps the types.
LEMMA TypesKept == TypeOK /\ [Next]_vars => TypeOK'
<1>. USE RateAssumption
<1>. SUFFICES ASSUME TypeOK, [Next]_vars PROVE TypeOK'
  OBVIOUS
<1>0. ASSUME NEW p \in Procs, NEW v \in Nat, Store(p, v), UNCHANGED <<clock, backend, failOpen, call>>
      PROVE  TypeOK'
  <2>1. win[p] \in Time /\ clock \in Time /\ clock + Period \in Nat /\ tries[p] + 1 \in Nat
    BY DEF TypeOK, Time
  <2>. QED
    BY <1>0, <2>1 DEF Store, TypeOK, Goto, call
<1>1. ASSUME NEW p \in Procs, Restore(p) PROVE failOpen' \in Policy
  BY <1>1 DEF Restore, TypeOK
<1>2. ASSUME NEW p \in Procs, NEW policy \in Policies, Check(p, policy) PROVE TypeOK'
  <2>1. Window(clock) \in Time
    BY WindowOf DEF TypeOK
  <2>2. policy \in Policy
    BY DEF Policy
  <2>3. saved' \in [Procs -> Policy \cup {Nothing}] /\ failOpen' \in Policy
    BY <1>2, <2>2 DEF Check, Override, TypeOK
  <2>. QED
    BY <1>2, <2>1, <2>2, <2>3 DEF Check, TypeOK, Goto, server
<1>3. ASSUME NEW p \in Procs, Increment(p) PROVE TypeOK'
  BY <1>3, <1>0, CurrentType DEF Increment, TypeOK
<1>4. ASSUME NEW p \in Procs, Resend(p) PROVE TypeOK'
  BY <1>4 DEF Resend, TypeOK, Goto, call, server
<1>5. ASSUME NEW p \in Procs, ReadCounter(p) PROVE TypeOK'
  BY <1>5, CurrentType DEF ReadCounter, TypeOK, Goto, call, server
<1>6. ASSUME NEW p \in Procs, WriteCounter(p) PROVE TypeOK'
  BY <1>6, <1>0 DEF WriteCounter, TypeOK
<1>7. ASSUME NEW p \in Procs, Answer(p) PROVE TypeOK'
  BY <1>7, <1>1 DEF Answer, TypeOK, Goto, call, server, Answers
<1>8. ASSUME NEW p \in Procs, Fail(p) PROVE TypeOK'
  BY <1>8, <1>1 DEF Fail, TypeOK, Goto, call, server, Answers
<1>10. CASE Tick
  <2>1. clock' \in Time
    BY <1>10 DEF Tick, TypeOK, Time
  <2>. QED
    BY <1>10, <2>1 DEF Tick, TypeOK, call, server
<1>11. CASE UNCHANGED vars
  BY <1>11 DEF vars, TypeOK, call, server
<1>. QED
  BY <1>2, <1>3, <1>4, <1>5, <1>6, <1>7, <1>8, <1>10, <1>11 DEF Next

\* The fields keep their types, on either backend.
THEOREM RateTypes == Spec => []TypeOK
BY TypesStart, TypesKept, PTL DEF Spec

-----------------------------------------------------------------------------
(***************************************************************************)
(* The invariant of the Redis backend.  A counter outlives every count by  *)
(* a period, and until then is at least that count; so two requests that   *)
(* count within a period of each other are given different counts.         *)
(***************************************************************************)
Counted(p) == at[p] # Never

Stamped ==
    \A p \in Procs :
        /\ win[p] <= born[p] /\ born[p] <= clock /\ born[p] < win[p] + Period
        /\ Counted(p) => born[p] <= at[p] /\ at[p] <= clock /\ at[p] <= born[p] + Patience
        /\ pc[p] = "new" => ~Counted(p)
        /\ pc[p] \in {"counted", "admitted", "refused"} => Counted(p)
        /\ pc[p] \notin {"reading", "writing"}
        /\ pc[p] = "sent" => clock <= born[p] + Patience

CountersLast ==
    \A p \in Procs : Counted(p) =>
        /\ got[p] >= 1
        /\ at[p] + Period <= expires[win[p]]
        /\ clock < at[p] + Period => got[p] <= count[win[p]]

CountsDiffer ==
    \A p, q \in Procs :
        /\ p # q /\ Counted(p) /\ Counted(q) /\ win[p] = win[q]
        /\ at[p] <= at[q] /\ at[q] < at[p] + Period
        => got[p] # got[q]

Admitted == \A p \in Procs : pc[p] = "admitted" => got[p] <= Limit

RedisInv == TypeOK /\ Stamped /\ CountersLast /\ CountsDiffer /\ Admitted

\* The times of requests can be compared.
LEMMA TimesAreIntegers ==
    ASSUME TypeOK
    PROVE  /\ \A p \in Procs : born[p] \in Int /\ win[p] \in Int /\ at[p] \in Int
           /\ \A t \in Time : t \in Int
<1>1. \A t \in Time \cup {Never} : t \in Int
  BY RateAssumption DEF Time, Never
<1>. QED
  BY <1>1 DEF TypeOK

\* A step that leaves the counters and the counts alone keeps what is known of them.
LEMMA CountsKept ==
    ASSUME RedisInv, TypeOK', UNCHANGED <<server, win, got, at>>, clock <= clock'
    PROVE  CountersLast' /\ CountsDiffer'
<1>1. CountersLast'
  <2>. SUFFICES ASSUME NEW p \in Procs, Counted(p)'
       PROVE  /\ (got[p] >= 1)'
              /\ (at[p] + Period <= expires[win[p]])'
              /\ (clock < at[p] + Period => got[p] <= count[win[p]])'
    BY DEF CountersLast
  <2>1. Counted(p)
    BY DEF Counted
  <2>2. clock \in Int /\ clock' \in Int /\ at[p] \in Int /\ Period \in Int
    BY RateAssumption, <2>1 DEF RedisInv, TypeOK, Time, Counted
  <2>. QED
    BY <2>1, <2>2 DEF RedisInv, CountersLast, server
<1>2. CountsDiffer'
  BY DEF RedisInv, CountsDiffer, Counted
<1>. QED
  BY <1>1, <1>2

\* The one step that counts, INCR and EXPIRE together, keeps what is said of counters and counts.
LEMMA IncrementKeeps ==
    ASSUME RedisInv, TypeOK', NEW p \in Procs, Increment(p)
    PROVE  CountersLast' /\ CountsDiffer' /\ Stamped' /\ Admitted'
<1>. DEFINE w == win[p]
            n == Current(win[p]) + 1
<1>0. /\ w \in Time /\ clock \in Int /\ Period \in Nat \ {0} /\ Patience \in Nat
      /\ n \in Nat /\ n >= 1 /\ count \in [Time -> Nat] /\ expires \in [Time -> Nat]
      /\ born[p] \in Int
      /\ \A q \in Procs : win[q] \in Time /\ got[q] \in Nat /\ at[q] \in Int /\ born[q] \in Int
  <2>1. /\ w \in Time /\ clock \in Time /\ count \in [Time -> Nat] /\ expires \in [Time -> Nat]
        /\ born[p] \in Time /\ Current(win[p]) \in Nat
        /\ \A q \in Procs : win[q] \in Time /\ got[q] \in Nat /\ at[q] \in Time \cup {Never} /\ born[q] \in Time
    BY CurrentType DEF RedisInv, TypeOK
  <2>2. \A t \in Time \cup {Never} : t \in Int
    BY RateAssumption DEF Time, Never
  <2>3. Period \in Nat \ {0} /\ Patience \in Nat
    BY RateAssumption
  <2>. QED
    BY <2>1, <2>2, <2>3
<1>1. /\ pc[p] = "sent"
      /\ count' = [count EXCEPT ![w] = n]
      /\ expires' = [expires EXCEPT ![w] = clock + Period]
      /\ got' = [got EXCEPT ![p] = n]
      /\ at' = [at EXCEPT ![p] = clock]
      /\ pc' = [pc EXCEPT ![p] = "counted"]
      /\ UNCHANGED <<clock, win, born>>
  BY DEF Increment, Store, Goto, call
<1>2. \A q \in Procs \ {p} : got'[q] = got[q] /\ at'[q] = at[q] /\ pc'[q] = pc[q]
  BY <1>1 DEF RedisInv, TypeOK
<1>3. got'[p] = n /\ at'[p] = clock /\ pc'[p] = "counted" /\ count'[w] = n /\ expires'[w] = clock + Period
  BY <1>0, <1>1 DEF RedisInv, TypeOK
<1>4. ASSUME NEW q \in Procs, Counted(q), win[q] = w, clock < at[q] + Period
      PROVE  got[q] < n
  <2>1. at[q] + Period <= expires[w] /\ got[q] <= count[w]
    BY <1>4 DEF RedisInv, CountersLast
  <2>2. Current(w) = count[w]
    BY <2>1, <1>0, <1>4 DEF Current
  <2>. QED
    BY <2>1, <2>2, <1>0
<1>. HIDE DEF n
<1>5. ASSUME NEW q \in Procs \ {p}, Counted(q), win[q] = w
      PROVE  at[q] <= clock
  BY <1>5 DEF RedisInv, Stamped
<1>6. CountersLast'
  <2>. SUFFICES ASSUME NEW q \in Procs, Counted(q)'
       PROVE  /\ got'[q] >= 1
              /\ at'[q] + Period <= expires'[win[q]]
              /\ clock < at'[q] + Period => got'[q] <= count'[win[q]]
    BY <1>1 DEF CountersLast
  <2>1. CASE q = p
    BY <2>1, <1>0, <1>3
  <2>2. CASE q # p
    <3>1. Counted(q) /\ got'[q] = got[q] /\ at'[q] = at[q]
      BY <2>2, <1>2 DEF Counted
    <3>2. /\ got[q] >= 1 /\ at[q] + Period <= expires[win[q]]
          /\ clock < at[q] + Period => got[q] <= count[win[q]]
      BY <3>1 DEF RedisInv, CountersLast
    <3>3. CASE win[q] = w
      <4>1. at[q] <= clock
        BY <1>5, <2>2, <3>1, <3>3
      <4>2. clock < at[q] + Period => got[q] < n
        BY <1>4, <3>1, <3>3
      <4>. QED
        BY <4>1, <4>2, <3>1, <3>2, <3>3, <1>3, <1>0
    <3>4. CASE win[q] # w
      <4>1. count'[win[q]] = count[win[q]] /\ expires'[win[q]] = expires[win[q]]
        BY <3>4, <1>1, <1>0
      <4>. QED
        BY <4>1, <3>1, <3>2
    <3>. QED
      BY <3>3, <3>4
  <2>. QED
    BY <2>1, <2>2
<1>7. CountsDiffer'
  <2>. SUFFICES ASSUME NEW q \in Procs, NEW r \in Procs,
                       q # r, Counted(q)', Counted(r)', win[q] = win[r],
                       at'[q] <= at'[r], at'[r] < at'[q] + Period
       PROVE  got'[q] # got'[r]
    BY <1>1 DEF CountsDiffer
  <2>1. CASE r = p
    <3>1. Counted(q) /\ got'[q] = got[q] /\ at'[q] = at[q]
      BY <2>1, <1>2 DEF Counted
    <3>2. got[q] < n
      BY <1>4, <3>1, <2>1, <1>3
    <3>. QED
      BY <3>1, <3>2, <2>1, <1>3, <1>0
  <2>2. CASE q = p
    <3>1. Counted(r) /\ got'[r] = got[r] /\ at'[r] = at[r]
      BY <2>2, <1>2 DEF Counted
    <3>2. clock <= at[r]
      BY <3>1, <2>2, <1>3
    <3>3. got[r] < n
      BY <1>4, <3>1, <2>2, <3>2, <1>0
    <3>. QED
      BY <3>1, <3>3, <2>2, <1>3, <1>0
  <2>3. CASE q # p /\ r # p
    BY <2>3, <1>2 DEF RedisInv, CountsDiffer, Counted
  <2>. QED
    BY <2>1, <2>2, <2>3
<1>8. Stamped'
  <2>. SUFFICES ASSUME NEW q \in Procs
       PROVE  /\ win[q] <= born[q] /\ born[q] <= clock /\ born[q] < win[q] + Period
              /\ Counted(q)' => born[q] <= at'[q] /\ at'[q] <= clock /\ at'[q] <= born[q] + Patience
              /\ pc'[q] = "new" => ~Counted(q)'
              /\ pc'[q] \in {"counted", "admitted", "refused"} => Counted(q)'
              /\ pc'[q] \notin {"reading", "writing"}
              /\ pc'[q] = "sent" => clock <= born[q] + Patience
    BY <1>1 DEF Stamped
  <2>1. CASE q = p
    <3>1. clock # Never
      BY RateAssumption DEF RedisInv, TypeOK, Time, Never
    <3>. QED
      BY <2>1, <3>1, <1>3, <1>1, <1>0 DEF RedisInv, Stamped, Counted
  <2>2. CASE q # p
    BY <2>2, <1>2 DEF RedisInv, Stamped, Counted
  <2>. QED
    BY <2>1, <2>2
<1>9. Admitted'
  BY <1>2, <1>3 DEF RedisInv, Admitted
<1>. QED
  BY <1>6, <1>7, <1>8, <1>9

-----------------------------------------------------------------------------
OnRedis == backend = "redis" => RedisInv

\* On Redis the invariant of the counters holds in every reachable state.
THEOREM RedisInvHolds == Spec => []OnRedis
<1>1. Init => RedisInv
  <2>. SUFFICES ASSUME Init PROVE RedisInv
    OBVIOUS
  <2>1. TypeOK
    BY TypesStart
  <2>2. clock \in Nat /\ Period \in Nat \ {0}
    BY RateAssumption DEF Init, Time
  <2>3. \A p \in Procs : pc[p] = "new" /\ ~Counted(p) /\ born[p] = 0 /\ win[p] = 0
    BY DEF Init, Counted
  <2>. QED
    BY <2>1, <2>2, <2>3 DEF RedisInv, Stamped, CountersLast, CountsDiffer, Admitted
<1>2. backend = "redis" /\ RedisInv /\ [Next]_vars => RedisInv'
  <2>. SUFFICES ASSUME backend = "redis", RedisInv, [Next]_vars PROVE RedisInv'
    OBVIOUS
  <2>1. TypeOK'
    BY TypesKept DEF RedisInv
  <2>2. clock \in Int /\ Period \in Nat \ {0} /\ Patience \in Nat
    BY RateAssumption DEF RedisInv, TypeOK, Time
  <2>3. ASSUME NEW p \in Procs, NEW policy \in Policies, Check(p, policy) PROVE RedisInv'
    <3>1. /\ pc[p] = "new" /\ pc' = [pc EXCEPT ![p] = "sent"]
          /\ born' = [born EXCEPT ![p] = clock] /\ win' = [win EXCEPT ![p] = Window(clock)]
          /\ UNCHANGED <<clock, count, expires, got, at>>
      BY <2>3 DEF Check, Goto, server
    <3>2. \A q \in Procs \ {p} : pc'[q] = pc[q] /\ born'[q] = born[q] /\ win'[q] = win[q]
      BY <3>1 DEF RedisInv, TypeOK
    <3>3. pc'[p] = "sent" /\ born'[p] = clock /\ win'[p] = Window(clock)
      BY <3>1 DEF RedisInv, TypeOK
    <3>4. ~Counted(p)
      BY <3>1 DEF RedisInv, Stamped
    <3>5. Window(clock) <= clock /\ clock < Window(clock) + Period
      BY WindowOf DEF RedisInv, TypeOK
    <3>6. Stamped'
      <4>. SUFFICES ASSUME NEW q \in Procs
           PROVE  /\ win'[q] <= born'[q] /\ born'[q] <= clock /\ born'[q] < win'[q] + Period
                  /\ Counted(q) => born'[q] <= at[q] /\ at[q] <= clock /\ at[q] <= born'[q] + Patience
                  /\ pc'[q] = "new" => ~Counted(q)
                  /\ pc'[q] \in {"counted", "admitted", "refused"} => Counted(q)
                  /\ pc'[q] \notin {"reading", "writing"}
                  /\ pc'[q] = "sent" => clock <= born'[q] + Patience
        BY <3>1 DEF Stamped, Counted
      <4>1. CASE q = p
        BY <4>1, <3>3, <3>4, <3>5, <2>2
      <4>2. CASE q # p
        BY <4>2, <3>2 DEF RedisInv, Stamped
      <4>. QED
        BY <4>1, <4>2
    <3>7. CountersLast' /\ CountsDiffer' /\ Admitted'
      <4>1. CountersLast'
        BY <3>1, <3>2, <3>4 DEF RedisInv, CountersLast, Counted
      <4>2. CountsDiffer'
        BY <3>1, <3>2, <3>4 DEF RedisInv, CountsDiffer, Counted
      <4>3. Admitted'
        BY <3>1, <3>2, <3>3 DEF RedisInv, Admitted
      <4>. QED
        BY <4>1, <4>2, <4>3
    <3>. QED
      BY <2>1, <3>6, <3>7 DEF RedisInv
  <2>4. ASSUME NEW p \in Procs, Increment(p) PROVE RedisInv'
    BY <2>1, <2>4, IncrementKeeps DEF RedisInv
  <2>5. ASSUME NEW p \in Procs, NEW where,
               UNCHANGED <<clock, server, call, got, at>>, Goto(p, where),
               \/ where = "sent" /\ clock - born[p] <= Patience
               \/ where \in {"admitted", "refused"} /\ pc[p] = "counted"
               \/ where \in {"excused", "denied"},
               where = "admitted" => got[p] <= Limit
        PROVE  RedisInv'
    <3>1. \A q \in Procs \ {p} : pc'[q] = pc[q]
      BY <2>5 DEF RedisInv, TypeOK, Goto
    <3>2. pc'[p] = where
      BY <2>5 DEF RedisInv, TypeOK, Goto
    <3>3. UNCHANGED <<born, win, got, at, clock>>
      BY <2>5 DEF call
    <3>4. born[p] \in Int
      BY RateAssumption DEF RedisInv, TypeOK, Time
    <3>5. pc[p] = "counted" => Counted(p)
      BY DEF RedisInv, Stamped
    <3>6. Stamped'
      <4>. SUFFICES ASSUME NEW q \in Procs
           PROVE  /\ win[q] <= born[q] /\ born[q] <= clock /\ born[q] < win[q] + Period
                  /\ Counted(q) => born[q] <= at[q] /\ at[q] <= clock /\ at[q] <= born[q] + Patience
                  /\ pc'[q] = "new" => ~Counted(q)
                  /\ pc'[q] \in {"counted", "admitted", "refused"} => Counted(q)
                  /\ pc'[q] \notin {"reading", "writing"}
                  /\ pc'[q] = "sent" => clock <= born[q] + Patience
        BY <3>3 DEF Stamped, Counted
      <4>1. CASE q = p
        <5>1. pc'[q] = "sent" => clock <= born[q] + Patience
          BY <4>1, <2>5, <3>2, <3>4, <2>2
        <5>. QED
          BY <5>1, <4>1, <2>5, <3>2, <3>5 DEF RedisInv, Stamped
      <4>2. CASE q # p
        BY <4>2, <3>1 DEF RedisInv, Stamped
      <4>. QED
        BY <4>1, <4>2
    <3>7. CountersLast' /\ CountsDiffer'
      BY <2>1, <2>2, <2>5, <3>3, CountsKept
    <3>8. Admitted'
      BY <2>5, <3>1, <3>2, <3>3 DEF RedisInv, Admitted
    <3>. QED
      BY <2>1, <3>6, <3>7, <3>8 DEF RedisInv
  <2>6. ASSUME NEW p \in Procs, Resend(p) PROVE RedisInv'
    BY <2>6, <2>5 DEF Resend
  <2>7. ASSUME NEW p \in Procs, ReadCounter(p) \/ WriteCounter(p) PROVE RedisInv'
    BY <2>7 DEF ReadCounter, WriteCounter, RedisInv, Stamped
  <2>8. ASSUME NEW p \in Procs, Answer(p) PROVE RedisInv'
    <3>1. got[p] \in Nat /\ Limit \in Nat
      BY RateAssumption DEF RedisInv, TypeOK
    <3>2. CASE IsLimited(got[p])
      BY <3>2, <2>8, <2>5 DEF Answer
    <3>3. CASE ~IsLimited(got[p])
      BY <3>1, <3>3, <2>8, <2>5 DEF Answer, IsLimited
    <3>. QED
      BY <3>2, <3>3
  <2>9. ASSUME NEW p \in Procs, Fail(p) PROVE RedisInv'
    <3>1. CASE failOpen = "open"
      BY <3>1, <2>9, <2>5 DEF Fail
    <3>2. CASE failOpen # "open"
      BY <3>2, <2>9, <2>5 DEF Fail
    <3>. QED
      BY <3>1, <3>2
  <2>10. CASE UNCHANGED vars
    <3>1. UNCHANGED <<clock, server, call, pc, got, at>>
      BY <2>10 DEF vars
    <3>2. UNCHANGED <<clock, pc, born, win, got, at>>
      BY <3>1 DEF call
    <3>3. CountersLast' /\ CountsDiffer'
      BY <2>1, <2>2, <3>1, <3>2, CountsKept
    <3>. QED
      BY <2>1, <3>2, <3>3 DEF RedisInv, Stamped, Admitted, Counted
  <2>11. CASE Tick
    <3>1. UNCHANGED <<server, call, pc, got, at>> /\ clock' = clock + 1
      BY <2>11 DEF Tick
    <3>2. UNCHANGED <<pc, born, win, got, at>>
      BY <3>1 DEF call
    <3>3. CountersLast' /\ CountsDiffer'
      BY <2>1, <2>2, <3>1, <3>2, CountsKept
    <3>4. Stamped'
      <4>1. \A q \in Procs : born[q] \in Int /\ win[q] \in Int /\ at[q] \in Int
        BY RateAssumption DEF RedisInv, TypeOK, Time, Never
      <4>2. \A q \in Procs : pc[q] = "sent" => clock' <= born[q] + Patience
        BY <2>11, <4>1, <2>2, <3>1 DEF Tick
      <4>3. \A q \in Procs : /\ born[q] <= clock => born[q] <= clock'
                             /\ at[q] <= clock => at[q] <= clock'
        BY <4>1, <2>2, <3>1
      <4>. QED
        BY <3>2, <4>2, <4>3 DEF RedisInv, Stamped, Counted
    <3>5. Admitted'
      BY <3>2 DEF RedisInv, Admitted
    <3>. QED
      BY <2>1, <3>3, <3>4, <3>5 DEF RedisInv
  <2>. QED
    BY <2>3, <2>4, <2>6, <2>7, <2>8, <2>9, <2>10, <2>11 DEF Next
<1>3. [Next]_vars => UNCHANGED backend
  BY DEF Next, Check, Increment, Resend, ReadCounter, WriteCounter, Answer, Fail, Tick, vars
<1>4. Init => OnRedis
  BY <1>1 DEF OnRedis
<1>5. OnRedis /\ [Next]_vars => OnRedis'
  BY <1>2, <1>3 DEF OnRedis
<1>. QED
  BY <1>4, <1>5, PTL DEF Spec

-----------------------------------------------------------------------------
\* Admitted requests with different counts are no more than the limit.
LEMMA DifferentCountsFit ==
    ASSUME RedisInv, NEW S \in SUBSET {p \in Procs : pc[p] = "admitted"},
           \A p, q \in S : p # q => got[p] # got[q]
    PROVE  IsFiniteSet(S) /\ Cardinality(S) <= Limit
<1>1. Limit \in Nat
  BY RateAssumption
<1>2. \A p \in S : got[p] \in 1..Limit
  BY <1>1 DEF RedisInv, TypeOK, Stamped, CountersLast, Admitted
<1>. DEFINE f == [p \in S |-> got[p]]
<1>3. f \in Injection(S, 1..Limit)
  <2>1. f \in [S -> 1..Limit]
    BY <1>2
  <2>2. \A p, q \in S : f[p] = f[q] => p = q
    OBVIOUS
  <2>. QED
    BY <2>1, <2>2 DEF Injection, IsInjective
<1>4. IsFiniteSet(1..Limit) /\ Cardinality(1..Limit) = Limit
  <2>1. 1 \in Int /\ Limit \in Int
    BY <1>1
  <2>2. IsFiniteSet(1..Limit) /\ Cardinality(1..Limit) = IF 1 > Limit THEN 0 ELSE Limit - 1 + 1
    BY <2>1, FS_Interval
  <2>. QED
    BY <2>2, <1>1
<1>5. IsFiniteSet(S) /\ Cardinality(S) <= Cardinality(1..Limit)
  BY <1>3, <1>4, FS_Injection
<1>. QED
  BY <1>4, <1>5

InWindow(w) == {p \in Procs : pc[p] = "admitted" /\ CountedIn(p, w)}

\* Those admitted on counts of a window that were made while it lasted have
\* counts within a period of its start, which all differ.
LEMMA WindowFits ==
    ASSUME RedisInv, NEW w \in Time
    PROVE  IsFiniteSet(InWindow(w)) /\ Cardinality(InWindow(w)) <= Limit
<1>1. ASSUME NEW p \in InWindow(w), NEW q \in InWindow(w), p # q PROVE got[p] # got[q]
  <2>1. /\ Counted(p) /\ Counted(q) /\ win[p] = w /\ win[q] = w
        /\ at[p] < w + Period /\ at[q] < w + Period
        /\ p \in Procs /\ q \in Procs
    BY DEF InWindow, CountedIn, Counted
  <2>2. w <= at[p] /\ w <= at[q]
    <3>1. /\ win[p] <= born[p] /\ born[p] <= at[p]
          /\ win[q] <= born[q] /\ born[q] <= at[q]
      BY <2>1 DEF RedisInv, Stamped
    <3>2. \A r \in Procs : born[r] \in Int /\ at[r] \in Int /\ win[r] \in Int
      BY TimesAreIntegers DEF RedisInv
    <3>. QED
      BY <2>1, <3>1, <3>2
  <2>3. w \in Int /\ Period \in Int /\ at[p] \in Int /\ at[q] \in Int
    BY <2>1, RateAssumption, TimesAreIntegers DEF RedisInv
  <2>4. \/ at[p] <= at[q] /\ at[q] < at[p] + Period
        \/ at[q] <= at[p] /\ at[p] < at[q] + Period
    BY <2>1, <2>2, <2>3
  <2>. QED
    BY <1>1, <2>1, <2>4 DEF RedisInv, CountsDiffer
<1>2. InWindow(w) \in SUBSET {p \in Procs : pc[p] = "admitted"}
  BY DEF InWindow
<1>. QED
  BY <1>1, <1>2, DifferentCountsFit

\* With Redis, no window admits more than its limit on counts made while it
\* lasts, however its requests overlap and whatever answers are lost.
THEOREM QuotaIsKept == Spec => []QuotaOnRedis
<1>1. OnRedis => QuotaOnRedis
  BY WindowFits DEF OnRedis, QuotaOnRedis, QuotaHolds, InWindow
<1>. QED
  BY <1>1, RedisInvHolds, PTL

(***************************************************************************)
(* The windows as quotas of their own: an admission spends, and nothing    *)
(* else changes who was let in.                                            *)
(***************************************************************************)
SpendStep == [PerWindow!SpendSome]_LetIn

\* The instance counts as the limiter does.
LEMMA SameCardinality ==
    \A S : PerWindow!Cardinality(S) = Cardinality(S) /\ (PerWindow!IsFiniteSet(S) <=> IsFiniteSet(S))
<1>1. \A S : PerWindow!Cardinality(S) = Cardinality(S)
  BY DEF PerWindow!Cardinality, Cardinality
<1>2. \A S : PerWindow!IsFiniteSet(S) <=> IsFiniteSet(S)
  BY DEF PerWindow!IsFiniteSet, IsFiniteSet
<1>. QED
  BY <1>1, <1>2

\* What each window let in, on Redis and elsewhere.
LEMMA LetInIs ==
    /\ backend = "redis" => \A w \in Time : LetIn[w] = InWindow(w)
    /\ backend # "redis" => \A w \in Time : LetIn[w] = {}
BY DEF LetIn, InWindow

\* Nobody is let in while the admitted ones stay the same, with their counts.
LEMMA LetInStays ==
    ASSUME backend' = backend,
           \A q \in Procs : /\ pc'[q] = "admitted" <=> pc[q] = "admitted"
                            /\ pc[q] = "admitted" => at'[q] = at[q] /\ win'[q] = win[q]
    PROVE  LetIn' = LetIn
<1>1. \A w \in Time, q \in Procs :
          pc'[q] = "admitted" /\ CountedIn(q, w)' <=> pc[q] = "admitted" /\ CountedIn(q, w)
  BY DEF CountedIn
<1>2. \A w \in Time : {q \in Procs : pc'[q] = "admitted" /\ CountedIn(q, w)'}
                          = {q \in Procs : pc[q] = "admitted" /\ CountedIn(q, w)}
  BY <1>1
<1>. QED
  BY <1>2 DEF LetIn

\* An answer lets its request in on the window it was stamped with, or not at all.
LEMMA AnswerSpends ==
    ASSUME RedisInv, QuotaOnRedis', backend = "redis", NEW p \in Procs, Answer(p)
    PROVE  SpendStep
<1>1. /\ pc[p] = "counted" /\ at' = at /\ win' = win /\ backend' = backend
      /\ \A q \in Procs \ {p} : pc'[q] = pc[q]
      /\ pc'[p] \in {"refused", "admitted"}
      /\ win[p] \in Time
  BY DEF Answer, Goto, RedisInv, TypeOK, call
<1>2. CASE pc'[p] = "refused"
  BY <1>1, <1>2, LetInStays DEF SpendStep
<1>3. CASE pc'[p] = "admitted"
  <2> DEFINE w == win[p]
  <2>1. \A v \in Time : InWindow(v)' = IF CountedIn(p, v) THEN InWindow(v) \cup {p} ELSE InWindow(v)
    <3> SUFFICES ASSUME NEW v \in Time
                 PROVE  InWindow(v)' = IF CountedIn(p, v) THEN InWindow(v) \cup {p} ELSE InWindow(v)
      OBVIOUS
    <3>1. CountedIn(p, v)' = CountedIn(p, v) /\ \A q \in Procs : CountedIn(q, v)' <=> CountedIn(q, v)
      BY <1>1 DEF CountedIn
    <3>2. \A q \in Procs : q \in InWindow(v)' <=> q \in InWindow(v) \/ (q = p /\ CountedIn(p, v))
      BY <1>1, <1>3, <3>1 DEF InWindow
    <3>3. InWindow(v)' \subseteq Procs /\ InWindow(v) \subseteq Procs
      BY DEF InWindow
    <3>. QED
      BY <3>2, <3>3
  <2>2. \A v \in Time : p \notin InWindow(v)
    BY <1>1 DEF InWindow
  <2>3. \A v \in Time : CountedIn(p, v) => v = w
    BY DEF CountedIn
  <2>4. LetIn' = [v \in Time |-> InWindow(v)'] /\ LetIn = [v \in Time |-> InWindow(v)]
    BY <1>1 DEF LetIn, InWindow
  <2>5. CASE ~CountedIn(p, w)
    <3>1. \A v \in Time : InWindow(v)' = InWindow(v)
      BY <2>1, <2>3, <2>5
    <3>. QED
      BY <2>4, <3>1 DEF SpendStep
  <2>6. CASE CountedIn(p, w)
    <3>1. InWindow(w)' = InWindow(w) \cup {p} /\ \A v \in Time \ {w} : InWindow(v)' = InWindow(v)
      BY <1>1, <2>1, <2>3, <2>6
    <3>2. LetIn' = [LetIn EXCEPT ![w] = @ \cup {p}]
      BY <1>1, <2>4, <3>1
    <3>3. Cardinality(InWindow(w)) < Limit
      <4>1. IsFiniteSet(InWindow(w))
        BY <1>1, WindowFits
      <4>2. Cardinality(InWindow(w)') <= Limit
        BY <1>1 DEF QuotaOnRedis, QuotaHolds, InWindow
      <4>3. Cardinality(InWindow(w) \cup {p}) = Cardinality(InWindow(w)) + 1 /\ Cardinality(InWindow(w)) \in Nat
        BY <1>1, <2>2, <4>1, FS_AddElement, FS_CardinalityType
      <4>. QED
        BY <3>1, <4>2, <4>3, RateAssumption
    <3>4. \A v \in Time : LetIn[v] = InWindow(v)
      BY LetInIs
    <3>5. PerWindow!Spend(w, p)
      BY <1>1, <2>2, <3>2, <3>3, <3>4, SameCardinality DEF PerWindow!Spend, LetIn
    <3>. QED
      BY <1>1, <3>5 DEF SpendStep, PerWindow!SpendSome
  <2>. QED
    BY <2>5, <2>6
<1>. QED
  BY <1>1, <1>2, <1>3

\* On Redis the limiter keeps a quota for every window, step by step.
THEOREM LimiterImplementsQuota == Spec => KeepsQuota
<1>1. Init => PerWindow!QuotaInit
  <2> SUFFICES ASSUME Init PROVE PerWindow!QuotaInit
    OBVIOUS
  <2>1. LetIn \in [Time -> SUBSET Procs] /\ \A w \in Time : LetIn[w] = {}
    BY DEF Init, LetIn
  <2>2. IsFiniteSet({}) /\ Cardinality({}) = 0
    BY FS_EmptySet
  <2>3. \A w \in Time : PerWindow!Within(w)
    BY <2>1, <2>2, SameCardinality, RateAssumption DEF PerWindow!Within, LetIn
  <2>. QED
    BY <2>1, <2>3 DEF PerWindow!QuotaInit, LetIn
<1>2. TypeOK /\ OnRedis /\ QuotaOnRedis' /\ [Next]_vars => SpendStep
  <2> SUFFICES ASSUME TypeOK, OnRedis, QuotaOnRedis', [Next]_vars PROVE SpendStep
    OBVIOUS
  <2>1. backend' = backend
    BY DEF Next, Check, Increment, Resend, ReadCounter, WriteCounter, Answer, Fail, Tick, vars
  <2>2. CASE backend # "redis"
    BY <2>1, <2>2 DEF SpendStep, LetIn
  <2>3. ASSUME NEW p \in Procs, Answer(p), backend = "redis" PROVE SpendStep
    BY <2>1, <2>3, AnswerSpends DEF OnRedis
  <2>4. ASSUME NEW p \in Procs,
               \/ \E policy \in Policies : Check(p, policy)
               \/ Increment(p) \/ Resend(p) \/ ReadCounter(p) \/ WriteCounter(p) \/ Fail(p)
        PROVE  SpendStep
    <3>1. pc[p] # "admitted" /\ pc'[p] # "admitted"
      BY <2>4 DEF Check, Increment, Resend, ReadCounter, WriteCounter, Store, Fail, Goto, TypeOK
    <3>2. \A q \in Procs \ {p} : pc'[q] = pc[q] /\ at'[q] = at[q] /\ win'[q] = win[q]
      BY <2>4 DEF Check, Increment, Resend, ReadCounter, WriteCounter, Store, Fail, Goto, TypeOK, call
    <3>. QED
      BY <2>1, <3>1, <3>2, LetInStays DEF SpendStep
  <2>5. CASE Tick \/ UNCHANGED vars
    <3>1. pc' = pc /\ at' = at /\ win' = win
      BY <2>5 DEF Tick, vars, call
    <3>. QED
      BY <2>1, <3>1, LetInStays DEF SpendStep
  <2>. QED
    BY <2>2, <2>3, <2>4, <2>5 DEF Next
<1>. QED
  BY <1>1, <1>2, RateTypes, RedisInvHolds, QuotaIsKept, PTL
     DEF Spec, KeepsQuota, PerWindow!PeriodSpec, SpendStep

\* A client that gives up within a period lets no more stragglers into a window
\* that has ended than the limit.
THEOREM StragglersAreFew == Patience <= Period => (Spec => []StragglersOnRedis)
<1>. SUFFICES ASSUME Patience <= Period PROVE Spec => []StragglersOnRedis
  OBVIOUS
<1>1. RedisInv => StragglersAreBounded
  <2>. SUFFICES ASSUME RedisInv, NEW w \in Time
       PROVE  Cardinality({p \in Procs : pc[p] = "admitted" /\ CountedLate(p, w)}) <= Limit
    BY DEF StragglersAreBounded
  <2>. DEFINE S == {p \in Procs : pc[p] = "admitted" /\ CountedLate(p, w)}
  <2>1. ASSUME NEW p \in S, NEW q \in S, p # q PROVE got[p] # got[q]
    <3>1. /\ Counted(p) /\ Counted(q) /\ win[p] = w /\ win[q] = w
          /\ at[p] >= w + Period /\ at[q] >= w + Period
      BY DEF CountedLate, Counted
    <3>2. /\ born[p] < w + Period /\ at[p] <= born[p] + Patience
          /\ born[q] < w + Period /\ at[q] <= born[q] + Patience
      BY <3>1 DEF RedisInv, Stamped
    <3>3. /\ w \in Int /\ Period \in Int /\ Patience \in Int
          /\ at[p] \in Int /\ at[q] \in Int /\ born[p] \in Int /\ born[q] \in Int
      BY RateAssumption, TimesAreIntegers DEF RedisInv
    <3>4. at[p] < w + Period + Period /\ at[q] < w + Period + Period
      BY <3>2, <3>3
    <3>5. \/ at[p] <= at[q] /\ at[q] < at[p] + Period
          \/ at[q] <= at[p] /\ at[p] < at[q] + Period
      BY <3>1, <3>3, <3>4
    <3>. QED
      BY <2>1, <3>1, <3>5 DEF RedisInv, CountsDiffer
  <2>. QED
    BY <2>1, DifferentCountsFit
<1>2. OnRedis => StragglersOnRedis
  BY <1>1 DEF OnRedis, StragglersOnRedis
<1>. QED
  BY <1>2, RedisInvHolds, PTL

-----------------------------------------------------------------------------
(***************************************************************************)
(* The tally, on either backend: as long as no command of a window was     *)
(* repeated, its counter and the counts it gave are at most the number of  *)
(* requests it counted.  An overlap of reads and writes only loses counts. *)
(***************************************************************************)
Tallied(w)  == {q \in Procs : at[q] # Never /\ win[q] = w}
Repeated(w) == \E q \in Procs : tries[q] > 1 /\ win[q] = w

TriesTell ==
    \A p \in Procs :
        /\ pc[p] \in {"new", "reading", "writing"} => tries[p] = 0
        /\ at[p] = Never <=> tries[p] = 0
        /\ pc[p] = "refused" => got[p] > Limit

TallyFits(w) ==
    /\ IsFiniteSet(Tallied(w))
    /\ ~Repeated(w) =>
        /\ count[w] <= Cardinality(Tallied(w))
        /\ \A p \in Procs : win[p] = w /\ pc[p] \in {"writing", "counted", "refused"}
                                => got[p] <= Cardinality(Tallied(w))

TallyInv == TypeOK /\ TriesTell /\ \A w \in Time : TallyFits(w)

\* A step that counts nothing leaves the tallies alone.
LEMMA TallyStays ==
    ASSUME TallyInv, UNCHANGED <<count, at, tries>>,
           \A q \in Procs : tries[q] > 0 => win'[q] = win[q],
           NEW p \in Procs, \A q \in Procs \ {p} : pc'[q] = pc[q] /\ got'[q] = got[q] /\ win'[q] = win[q],
           got'[p] \in Nat, NEW w \in Time,
           /\ win'[p] = w /\ pc'[p] \in {"writing", "counted", "refused"} =>
                \/ win[p] = w /\ pc[p] \in {"writing", "counted", "refused"} /\ got'[p] = got[p]
                \/ got'[p] <= count[w]
                \/ got'[p] = 0
    PROVE  TallyFits(w)'
<1>1. Tallied(w)' = Tallied(w)
  BY DEF Tallied, TallyInv, TriesTell, TypeOK
<1>2. Repeated(w) => Repeated(w)'
  <2>. SUFFICES ASSUME NEW q \in Procs, tries[q] > 1, win[q] = w PROVE Repeated(w)'
    BY DEF Repeated
  <2>1. tries'[q] > 1 /\ win'[q] = w
    BY DEF TallyInv, TypeOK
  <2>. QED
    BY <2>1 DEF Repeated
<1>3. Cardinality(Tallied(w)) \in Nat /\ count[w] \in Nat
  BY FS_CardinalityType DEF TallyInv, TallyFits, TypeOK
<1>4. ASSUME ~Repeated(w)', NEW q \in Procs, win'[q] = w, pc'[q] \in {"writing", "counted", "refused"}
      PROVE  got'[q] <= Cardinality(Tallied(w))
  <2>0. /\ count[w] <= Cardinality(Tallied(w))
        /\ win[q] = w /\ pc[q] \in {"writing", "counted", "refused"} => got[q] <= Cardinality(Tallied(w))
    BY <1>4, <1>2 DEF TallyInv, TallyFits
  <2>1. CASE q = p
    <3>1. CASE win[p] = w /\ pc[p] \in {"writing", "counted", "refused"} /\ got'[p] = got[p]
      BY <2>0, <2>1, <3>1
    <3>2. CASE got'[p] <= count[w]
      BY <3>2, <2>0, <2>1, <1>3
    <3>3. CASE got'[p] = 0
      BY <3>3, <2>1, <1>3
    <3>. QED
      BY <1>4, <2>1, <3>1, <3>2, <3>3
  <2>2. CASE q # p
    BY <2>2, <2>0, <1>4
  <2>. QED
    BY <2>1, <2>2
<1>5. count'[w] = count[w] /\ (~Repeated(w) => count[w] <= Cardinality(Tallied(w))) /\ IsFiniteSet(Tallied(w))
  BY DEF TallyInv, TallyFits
<1>. QED
  BY <1>1, <1>2, <1>4, <1>5 DEF TallyFits

\* A count adds its request to the tally of its window and one to its counter,
\* or is a repeat.
LEMMA StoreTallies ==
    ASSUME TallyInv, NEW p \in Procs, NEW v \in Nat, Store(p, v + 1), UNCHANGED win,
           v <= count[win[p]] \/ v = 0 \/ (pc[p] = "writing" /\ v = got[p])
    PROVE  \A w \in Time : TallyFits(w)'
<1>1. /\ win[p] \in Time
      /\ count'[win[p]] = v + 1 /\ got'[p] = v + 1 /\ at'[p] # Never /\ tries'[p] = tries[p] + 1
      /\ \A w \in Time \ {win[p]} : count'[w] = count[w]
      /\ \A q \in Procs \ {p} : /\ got'[q] = got[q] /\ at'[q] = at[q] /\ tries'[q] = tries[q]
                                /\ pc'[q] = pc[q]
  <2>1. clock # Never
    BY RateAssumption DEF TallyInv, TypeOK, Time, Never
  <2>. QED
    BY <2>1 DEF Store, Goto, TallyInv, TypeOK
<1>. SUFFICES ASSUME NEW w \in Time PROVE TallyFits(w)'
  OBVIOUS
<1>2. \A q \in Procs : tries[q] \in Nat /\ got[q] \in Nat /\ count[w] \in Nat
  BY DEF TallyInv, TypeOK
<1>3. IsFiniteSet(Tallied(w)) /\ Cardinality(Tallied(w)) \in Nat
  BY FS_CardinalityType DEF TallyInv, TallyFits
<1>4. Repeated(w) => Repeated(w)'
  <2>. SUFFICES ASSUME NEW q \in Procs, tries[q] > 1, win[q] = w PROVE Repeated(w)'
    BY DEF Repeated
  <2>1. tries'[q] > 1 /\ win'[q] = w
    BY <1>1, <1>2
  <2>. QED
    BY <2>1 DEF Repeated
<1>5. CASE w # win[p]
  <2>1. Tallied(w)' = Tallied(w)
    BY <1>1, <1>5 DEF Tallied
  <2>2. \A q \in Procs : win'[q] = w => q # p /\ pc'[q] = pc[q] /\ got'[q] = got[q]
    BY <1>1, <1>5
  <2>. QED
    BY <1>1, <1>4, <1>5, <2>1, <2>2 DEF TallyInv, TallyFits
<1>6. CASE w = win[p]
  <2>1. Tallied(w)' = Tallied(w) \cup {p}
    BY <1>1, <1>6 DEF Tallied
  <2>2. /\ IsFiniteSet(Tallied(w)')
        /\ p \notin Tallied(w) => Cardinality(Tallied(w)') = Cardinality(Tallied(w)) + 1
    BY <2>1, <1>3, FS_AddElement
  <2>3. CASE Repeated(w)'
    BY <2>2, <2>3 DEF TallyFits
  <2>4. CASE ~Repeated(w)'
    <3>1. tries[p] = 0
      <4>1. ~(tries'[p] > 1)
        BY <2>4, <1>6 DEF Repeated
      <4>. QED
        BY <4>1, <1>1, <1>2
    <3>2. p \notin Tallied(w)
      BY <3>1 DEF TallyInv, TriesTell, Tallied
    <3>3. /\ count[w] <= Cardinality(Tallied(w))
          /\ \A q \in Procs : win[q] = w /\ pc[q] \in {"writing", "counted", "refused"}
                                => got[q] <= Cardinality(Tallied(w))
      BY <2>4, <1>4 DEF TallyInv, TallyFits
    <3>4. v <= Cardinality(Tallied(w))
      BY <3>3, <1>2, <1>3, <1>6
    <3>5. count'[w] <= Cardinality(Tallied(w)')
      BY <3>4, <3>2, <2>2, <1>1, <1>3, <1>6
    <3>6. ASSUME NEW q \in Procs, win'[q] = w, pc'[q] \in {"writing", "counted", "refused"}
          PROVE  got'[q] <= Cardinality(Tallied(w)')
      <4>1. CASE q = p
        BY <4>1, <3>4, <3>2, <2>2, <1>1, <1>3
      <4>2. CASE q # p
        BY <4>2, <3>6, <3>3, <3>2, <2>2, <1>1, <1>2, <1>3
      <4>. QED
        BY <4>1, <4>2
    <3>. QED
      BY <2>2, <3>5, <3>6 DEF TallyFits
  <2>. QED
    BY <2>3, <2>4
<1>. QED
  BY <1>5, <1>6

\* Nothing is counted at the start.
LEMMA TallyStarts == Init => TallyInv
<1>. SUFFICES ASSUME Init PROVE TallyInv
  OBVIOUS
<1>1. TypeOK
  BY TypesStart
<1>2. TriesTell
  BY DEF Init, TriesTell
<1>3. ASSUME NEW w \in Time PROVE TallyFits(w)
  <2>1. Tallied(w) = {}
    BY DEF Init, Tallied
  <2>2. IsFiniteSet({}) /\ Cardinality({}) = 0
    BY FS_EmptySet
  <2>3. count[w] = 0 /\ \A q \in Procs : pc[q] = "new"
    BY DEF Init
  <2>. QED
    BY <2>1, <2>2, <2>3 DEF TallyFits
<1>. QED
  BY <1>1, <1>2, <1>3 DEF TallyInv


\* Requests count their own tries.
LEMMA TriesKept == TallyInv /\ [Next]_vars => TriesTell'
<1>. SUFFICES ASSUME TallyInv, [Next]_vars PROVE TriesTell'
  OBVIOUS
<1>. USE DEF TallyInv, TriesTell, TypeOK
<1>0. ASSUME NEW p \in Procs, NEW v \in Nat, Store(p, v) PROVE TriesTell'
  <2>1. tries[p] \in Nat /\ clock # Never
    BY RateAssumption DEF Time, Never
  <2>2. tries'[p] = tries[p] + 1 /\ at'[p] = clock /\ pc'[p] = "counted"
    BY <1>0 DEF Store, Goto
  <2>3. \A q \in Procs \ {p} : tries'[q] = tries[q] /\ at'[q] = at[q] /\ pc'[q] = pc[q] /\ got'[q] = got[q]
    BY <1>0 DEF Store, Goto
  <2>. QED
    BY <2>1, <2>2, <2>3
<1>1. ASSUME NEW p \in Procs, NEW policy \in Policies, Check(p, policy) PROVE TriesTell'
  BY <1>1 DEF Check, Goto
<1>2. ASSUME NEW p \in Procs, Increment(p) PROVE TriesTell'
  <2>1. Current(win[p]) + 1 \in Nat
    BY CurrentType
  <2>. QED
    BY <1>2, <1>0, <2>1 DEF Increment
<1>3. ASSUME NEW p \in Procs, Resend(p) PROVE TriesTell'
  BY <1>3 DEF Resend, Goto
<1>4. ASSUME NEW p \in Procs, ReadCounter(p) PROVE TriesTell'
  BY <1>4 DEF ReadCounter, Goto
<1>5. ASSUME NEW p \in Procs, WriteCounter(p) PROVE TriesTell'
  <2>1. got[p] + 1 \in Nat
    OBVIOUS
  <2>. QED
    BY <1>5, <1>0, <2>1 DEF WriteCounter
<1>6. ASSUME NEW p \in Procs, Answer(p) PROVE TriesTell'
  BY <1>6 DEF Answer, Goto, IsLimited
<1>7. ASSUME NEW p \in Procs, Fail(p) PROVE TriesTell'
  BY <1>7 DEF Fail, Goto
<1>8. CASE Tick
  BY <1>8 DEF Tick
<1>9. CASE UNCHANGED vars
  BY <1>9 DEF vars
<1>. QED
  BY <1>1, <1>2, <1>3, <1>4, <1>5, <1>6, <1>7, <1>8, <1>9 DEF Next

\* Every step keeps the counts within the number of requests.
LEMMA TallyKept == TallyInv /\ [Next]_vars => TallyInv'
<1>. SUFFICES ASSUME TallyInv, [Next]_vars PROVE \A w \in Time : TallyFits(w)'
  BY TypesKept, TriesKept DEF TallyInv
<1>0. TypeOK /\ TriesTell
  BY DEF TallyInv
<1>1. ASSUME NEW p \in Procs, NEW policy \in Policies, Check(p, policy) PROVE \A w \in Time : TallyFits(w)'
  <2>1. /\ UNCHANGED <<count, at, tries, got>> /\ tries[p] = 0
        /\ \A q \in Procs \ {p} : pc'[q] = pc[q] /\ win'[q] = win[q]
        /\ pc'[p] \in {"sent", "reading"}
    BY <1>0, <1>1 DEF Check, Goto, server, TypeOK, TriesTell
  <2>2. got'[p] \in Nat /\ \A q \in Procs : tries[q] > 0 => win'[q] = win[q]
    BY <1>0, <2>1 DEF TypeOK
  <2>. QED
    BY <2>1, <2>2, TallyStays
<1>2. ASSUME NEW p \in Procs, Increment(p) PROVE \A w \in Time : TallyFits(w)'
  <2>1. Current(win[p]) \in Nat
    BY <1>0, CurrentType DEF TypeOK
  <2>2. Current(win[p]) <= count[win[p]] \/ Current(win[p]) = 0
    BY <1>0 DEF Current, TypeOK
  <2>. QED
    BY <1>2, <2>1, <2>2, StoreTallies DEF Increment, call
<1>3. ASSUME NEW p \in Procs, WriteCounter(p) PROVE \A w \in Time : TallyFits(w)'
  <2>1. got[p] \in Nat /\ pc[p] = "writing"
    BY <1>0, <1>3 DEF TypeOK, WriteCounter
  <2>. QED
    BY <1>3, <2>1, StoreTallies DEF WriteCounter, call
<1>4. ASSUME NEW p \in Procs, ReadCounter(p) PROVE \A w \in Time : TallyFits(w)'
  <2>1. /\ UNCHANGED <<count, at, tries, win>> /\ got'[p] = Current(win[p])
        /\ \A q \in Procs \ {p} : pc'[q] = pc[q] /\ got'[q] = got[q]
    BY <1>0, <1>4 DEF ReadCounter, Goto, server, call, TypeOK
  <2>2. got'[p] \in Nat /\ (got'[p] <= count[win[p]] \/ got'[p] = 0)
    BY <1>0, <2>1, CurrentType DEF Current, TypeOK
  <2>. QED
    BY <2>1, <2>2, TallyStays
<1>5. ASSUME NEW p \in Procs, UNCHANGED <<count, at, tries, win, got>>,
             \A q \in Procs \ {p} : pc'[q] = pc[q],
             pc'[p] \in {"writing", "counted", "refused"} => pc[p] \in {"writing", "counted", "refused"}
      PROVE  \A w \in Time : TallyFits(w)'
  <2>1. got'[p] \in Nat
    BY <1>0, <1>5 DEF TypeOK
  <2>. QED
    BY <1>5, <2>1, TallyStays
<1>6. ASSUME NEW p \in Procs, Resend(p) \/ Answer(p) \/ Fail(p) PROVE \A w \in Time : TallyFits(w)'
  <2>1. UNCHANGED <<count, at, tries, win, got>>
    BY <1>6 DEF Resend, Answer, Fail, server, call
  <2>2. \A q \in Procs \ {p} : pc'[q] = pc[q]
    BY <1>0, <1>6 DEF Resend, Answer, Fail, Goto, TypeOK
  <2>3. pc'[p] \in {"writing", "counted", "refused"} => pc[p] \in {"writing", "counted", "refused"}
    BY <1>0, <1>6 DEF Resend, Answer, Fail, Goto, TypeOK
  <2>. QED
    BY <2>1, <2>2, <2>3, <1>5
<1>7. CASE UNCHANGED <<count, at, tries, win, got, pc>>
  <2>1. \A w \in Time : Tallied(w)' = Tallied(w) /\ (Repeated(w)' <=> Repeated(w))
    BY <1>7 DEF Tallied, Repeated
  <2>. QED
    BY <1>7, <2>1 DEF TallyInv, TallyFits
<1>8. CASE Tick
  BY <1>7, <1>8 DEF Tick, server, call
<1>9. CASE UNCHANGED vars
  BY <1>7, <1>9 DEF vars, server, call
<1>. QED
  BY <1>1, <1>2, <1>3, <1>4, <1>6, <1>8, <1>9 DEF Next

\* Nobody is refused before the limit is used up, on either backend and for any
\* number of requests: the lost counts of the memcached backend let requests
\* through, and never turn one away.
THEOREM RefusalsHold == Spec => []RefusalsAreEarned
<1>1. TallyInv => RefusalsAreEarned
  <2>. SUFFICES ASSUME TallyInv, NEW p \in Procs, pc[p] = "refused", ~Repeated(win[p])
       PROVE  Cardinality({q \in Procs : at[q] # Never /\ win[q] = win[p]}) > Limit
    BY DEF RefusalsAreEarned, Repeated
  <2>1. win[p] \in Time /\ got[p] \in Nat /\ got[p] > Limit /\ Limit \in Nat
    BY RateAssumption DEF TallyInv, TypeOK, TriesTell
  <2>2. got[p] <= Cardinality(Tallied(win[p])) /\ Cardinality(Tallied(win[p])) \in Nat
    BY <2>1, FS_CardinalityType DEF TallyInv, TallyFits
  <2>. QED
    BY <2>1, <2>2 DEF Tallied
<1>. QED
  BY <1>1, TallyStarts, TallyKept, PTL DEF Spec

-----------------------------------------------------------------------------
(* The cache decorator *)

Places == Over \cup {"new", "getting", "reading", "setting", "writing", "deleting", "extras", "scanning",
                     "page", "lastpage"}

Writing == {"writing", "deleting", "extras", "scanning", "page", "lastpage"}

\* What a request needs where it is; a page is deleted before the next is asked for,
\* and after the last one none is owed.
Placed ==
    \A p \in Callers :
        /\ stage[p] \in {"getting", "reading", "setting"} => job[p] \in ReadJob
        /\ stage[p] = "setting" => held[p] \in Result
        /\ stage[p] \in Writing => job[p] \in WriteJob
        /\ stage[p] \notin {"page", "lastpage"} => batch[p] = {}
        /\ stage[p] = "lastpage" => owed[p] = {}

CacheInv == CacheTypeOK /\ Placed

\* A stored entry is told from none.
LEMMA EntryIsNotAbsent == \A e \in Entry : e # Absent
BY DEF Entry, Absent

\* The fields of reads and writes, which the proofs need with their types.
LEMMA JobFields ==
    /\ \A j \in ReadJob : j.key \in Keys /\ j.op = "read"
    /\ \A j \in WriteJob : /\ j.key \in Keys /\ j.extra \subseteq Keys /\ j.pattern \subseteq Keys
                           /\ j.keyed \in BOOLEAN /\ Touched(j) \subseteq Keys /\ j.op = "write"
BY DEF ReadJob, WriteJob, Touched

-----------------------------------------------------------------------------
(* Types and places *)

\* An entry is written in one of its fields, or goes.
LEMMA EntriesTyped ==
    ASSUME cache \in [Keys -> Entry \cup {Absent}]
    PROVE  /\ \A K, b : b \in BOOLEAN => Outdated(K, b) \in [Keys -> Entry \cup {Absent}]
           /\ \A K : [k \in Keys |-> IF k \in K /\ Cached(k) THEN [cache[k] EXCEPT !.passed = TRUE] ELSE cache[k]]
                        \in [Keys -> Entry \cup {Absent}]
           /\ \A K : [k \in Keys |-> IF k \in K THEN Absent ELSE cache[k]] \in [Keys -> Entry \cup {Absent}]
<1>1. ASSUME NEW K, NEW b \in BOOLEAN, NEW k \in Keys
      PROVE  (IF k \in K /\ Cached(k) THEN [cache[k] EXCEPT !.current = FALSE, !.passed = @ \/ b]
              ELSE cache[k]) \in Entry \cup {Absent}
  <2>1. CASE k \in K /\ Cached(k)
    <3>1. cache[k] \in Entry
      BY <2>1 DEF Cached
    <3>2. (cache[k].passed \/ b) \in BOOLEAN
      OBVIOUS
    <3>3. [cache[k] EXCEPT !.current = FALSE, !.passed = @ \/ b] \in Entry
      BY <3>1, <3>2 DEF Entry
    <3>. QED
      BY <2>1, <3>3
  <2>2. CASE ~(k \in K /\ Cached(k))
    BY <2>2
  <2>. QED
    BY <2>1, <2>2
<1>2. ASSUME NEW K, NEW k \in Keys
      PROVE  (IF k \in K /\ Cached(k) THEN [cache[k] EXCEPT !.passed = TRUE] ELSE cache[k]) \in Entry \cup {Absent}
  <2>1. CASE k \in K /\ Cached(k)
    <3>1. [cache[k] EXCEPT !.passed = TRUE] \in Entry
      BY <2>1 DEF Cached, Entry
    <3>. QED
      BY <2>1, <3>1
  <2>2. CASE ~(k \in K /\ Cached(k))
    BY <2>2
  <2>. QED
    BY <2>1, <2>2
<1>. QED
  BY <1>1, <1>2 DEF Outdated

\* The invariant of the cache holds at the start.
LEMMA CacheStart == CacheInit => CacheInv
BY DEF CacheInit, CacheInv, CacheTypeOK, Placed, Writing, Over

\* Every step keeps the invariant of the cache.
LEMMA CacheKept ==
    ASSUME CacheInv, [CacheNext]_cacheVars
    PROVE  CacheInv'
<1>0. /\ cache \in [Keys -> Entry \cup {Absent}] /\ cacheBackend \in {"redis", "memcached"}
      /\ stage \in [Callers -> Places] /\ job \in [Callers -> ReadJob \cup WriteJob \cup {Absent}]
      /\ held \in [Callers -> Result \cup {Absent}]
      /\ left \in [Callers -> SUBSET Keys] /\ owed \in [Callers -> SUBSET Keys] /\ batch \in [Callers -> SUBSET Keys]
  BY DEF CacheInv, CacheTypeOK, Places
<1>. USE DEF CacheInv
<1>1. ASSUME NEW p \in Callers, NEW j \in ReadJob \cup WriteJob, Start(p, j) PROVE CacheInv'
  <2>1. j.op = "read" => j \in ReadJob
    BY JobFields
  <2>2. j.op # "read" => j \in WriteJob
    BY JobFields
  <2>3. CacheTypeOK'
    BY <1>0, <1>1 DEF Start, CacheTypeOK, Places
  <2>4. Placed'
    BY <1>0, <1>1, <2>1, <2>2 DEF Start, Placed, Writing
  <2>. QED
    BY <2>3, <2>4
<1>2. ASSUME NEW p \in Callers, Get(p) PROVE CacheInv'
  <2>1. CacheTypeOK'
    BY <1>0, <1>2 DEF Get, Enter, CacheTypeOK, Places, Over
  <2>2. Placed'
    BY <1>0, <1>2 DEF Get, Enter, Placed, Writing, Over
  <2>. QED
    BY <2>1, <2>2
<1>3. ASSUME NEW p \in Callers, Call(p) PROVE CacheInv'
  <2>1. PICK empty \in BOOLEAN : held' = [held EXCEPT ![p] = [current |-> TRUE, empty |-> empty]]
    BY <1>3 DEF Call
  <2>2. [current |-> TRUE, empty |-> empty] \in Result
    BY DEF Result
  <2>3. CacheTypeOK'
    BY <1>0, <1>3, <2>1, <2>2 DEF Call, Enter, CacheTypeOK, Places, Over
  <2>4. Placed'
    BY <1>0, <1>3, <2>1, <2>2 DEF Call, Enter, Placed, Writing, Over
  <2>. QED
    BY <2>3, <2>4
<1>4. ASSUME NEW p \in Callers, Set(p) PROVE CacheInv'
  <2>1. held[p] \in Result /\ job[p] \in ReadJob
    BY <1>4 DEF Placed, Set
  <2>2. Stored(held[p]) \in Entry
    BY <2>1 DEF Stored, Entry, Result
  <2>3. CacheTypeOK'
    BY <1>0, <1>4, <2>2 DEF Set, Enter, CacheTypeOK, Places, Over
  <2>4. Placed'
    BY <1>0, <1>4 DEF Set, Enter, Placed, Writing, Over
  <2>. QED
    BY <2>3, <2>4
<1>5. ASSUME NEW p \in Callers, Commit(p) PROVE CacheInv'
  <2>1. PICK fails \in BOOLEAN :
          /\ cache' = Outdated(Touched(job[p]), fails \/ ~job[p].keyed)
          /\ held' = [q \in Callers |->
                 IF stage[q] = "setting" /\ job[q].key \in Touched(job[p])
                 THEN [held[q] EXCEPT !.current = FALSE] ELSE held[q]]
          /\ Enter(p, IF fails THEN "error" ELSE IF job[p].keyed THEN "deleting" ELSE "done")
    BY <1>5 DEF Commit
  <2>2. cache' \in [Keys -> Entry \cup {Absent}]
    <3>1. (fails \/ ~job[p].keyed) \in BOOLEAN
      OBVIOUS
    <3>. QED
      BY <1>0, <2>1, <3>1, EntriesTyped
  <2>3. \A q \in Callers : held'[q] \in Result \cup {Absent} /\ (stage[q] = "setting" => held'[q] \in Result)
    BY <1>0, <2>1 DEF Placed, Result
  <2>4. held' \in [Callers -> Result \cup {Absent}]
    BY <2>1, <2>3
  <2>5. CacheTypeOK'
    BY <1>0, <1>5, <2>1, <2>2, <2>4 DEF Commit, Enter, CacheTypeOK, Places, Over
  <2>6. Placed'
    BY <1>0, <1>5, <2>1, <2>3 DEF Commit, Enter, Placed, Writing, Over
  <2>. QED
    BY <2>5, <2>6
<1>6. ASSUME NEW p \in Callers, DeleteOwn(p) PROVE CacheInv'
  <2>1. job[p] \in WriteJob
    BY <1>6 DEF Placed, DeleteOwn, Writing
  <2>2. cache' \in [Keys -> Entry \cup {Absent}] /\ owed' = [q \in Callers |-> owed[q] \ {job[p].key}]
    BY <1>0, <1>6, EntriesTyped DEF DeleteOwn, Deleted
  <2>3. CacheTypeOK'
    BY <1>0, <1>6, <2>1, <2>2, JobFields DEF DeleteOwn, Enter, CacheTypeOK, Places, Over
  <2>4. Placed'
    BY <1>0, <1>6, <2>1, <2>2 DEF DeleteOwn, Enter, Placed, Writing, Over
  <2>. QED
    BY <2>3, <2>4
<1>7. ASSUME NEW p \in Callers, NEW k \in Keys, DeleteExtra(p, k) PROVE CacheInv'
  <2>1. cache' \in [Keys -> Entry \cup {Absent}] /\ owed' = [q \in Callers |-> owed[q] \ {k}]
    BY <1>0, <1>7, EntriesTyped DEF DeleteExtra, Deleted
  <2>2. CacheTypeOK'
    BY <1>0, <1>7, <2>1 DEF DeleteExtra, CacheTypeOK, Places
  <2>3. Placed'
    BY <1>0, <1>7, <2>1 DEF DeleteExtra, Placed
  <2>. QED
    BY <2>2, <2>3
<1>8. ASSUME NEW p \in Callers, Match(p) PROVE CacheInv'
  <2>1. job[p] \in WriteJob
    BY <1>8 DEF Placed, Match, Writing
  <2>2. cache' \in [Keys -> Entry \cup {Absent}]
    <3>1. CASE cacheBackend = "redis" /\ job[p].pattern # {}
      BY <1>0, <1>8, <3>1 DEF Match
    <3>2. CASE ~(cacheBackend = "redis" /\ job[p].pattern # {})
      <4>1. cache' = [k \in Keys |-> IF k \in job[p].pattern /\ Cached(k)
                                     THEN [cache[k] EXCEPT !.passed = TRUE] ELSE cache[k]]
        BY <1>8, <3>2 DEF Match
      <4>. QED
        BY <1>0, <4>1, EntriesTyped
    <3>. QED
      BY <3>1, <3>2
  <2>3. owed' \in [Callers -> SUBSET Keys]
    BY <1>0, <1>8, <2>1, JobFields DEF Match
  <2>4. CacheTypeOK'
    BY <1>0, <1>8, <2>2, <2>3 DEF Match, Enter, CacheTypeOK, Places, Over
  <2>5. Placed'
    BY <1>0, <1>8, <2>1 DEF Match, Enter, Placed, Writing, Over
  <2>. QED
    BY <2>4, <2>5
<1>9. ASSUME NEW p \in Callers, Scan(p) PROVE CacheInv'
  <2>1. job[p] \in WriteJob
    BY <1>9 DEF Placed, Scan, Writing
  <2>2. PICK page \in Matching(p) : batch' = [batch EXCEPT ![p] = page] /\ owed' = [owed EXCEPT ![p] = @ \ page]
    BY <1>9 DEF Scan
  <2>3. page \subseteq Keys
    BY <2>1, JobFields DEF Matching
  <2>4. PICK more \in BOOLEAN : (~more => owed'[p] = {}) /\ Enter(p, IF more THEN "page" ELSE "lastpage")
    BY <1>9 DEF Scan
  <2>5. CacheTypeOK'
    BY <1>0, <1>9, <2>2, <2>3, <2>4 DEF Scan, Enter, CacheTypeOK, Places, Over
  <2>6. Placed'
    BY <1>0, <1>9, <2>1, <2>2, <2>4 DEF Scan, Enter, Placed, Writing, Over
  <2>. QED
    BY <2>5, <2>6
<1>10. ASSUME NEW p \in Callers, DeletePage(p) PROVE CacheInv'
  <2>1. cache' \in [Keys -> Entry \cup {Absent}] /\ owed' = [q \in Callers |-> owed[q] \ batch[p]]
    BY <1>0, <1>10, EntriesTyped DEF DeletePage, Deleted
  <2>2. CacheTypeOK'
    BY <1>0, <1>10, <2>1 DEF DeletePage, Enter, CacheTypeOK, Places, Over
  <2>3. Placed'
    BY <1>0, <1>10, <2>1 DEF DeletePage, Enter, Placed, Writing, Over
  <2>. QED
    BY <2>2, <2>3
<1>11. ASSUME NEW p \in Callers, Abandon(p) PROVE CacheInv'
  <2>1. cache' \in [Keys -> Entry \cup {Absent}]
    <3>1. cache' = [k \in Keys |-> IF k \in Pending(p) /\ Cached(k)
                                   THEN [cache[k] EXCEPT !.passed = TRUE] ELSE cache[k]]
      BY <1>11 DEF Abandon
    <3>. QED
      BY <1>0, <3>1, EntriesTyped
  <2>2. CacheTypeOK'
    BY <1>0, <1>11, <2>1 DEF Abandon, Enter, CacheTypeOK, Places, Over
  <2>3. Placed'
    BY <1>0, <1>11 DEF Abandon, Enter, Placed, Writing, Over
  <2>. QED
    BY <2>2, <2>3
<1>12. ASSUME NEW k \in Keys, Expire(k) PROVE CacheInv'
  <2>1. cache' \in [Keys -> Entry \cup {Absent}] /\ owed' = [q \in Callers |-> owed[q] \ {k}]
    BY <1>0, <1>12, EntriesTyped DEF Expire, Deleted
  <2>2. CacheTypeOK'
    BY <1>0, <1>12, <2>1 DEF Expire, CacheTypeOK, Places
  <2>3. Placed'
    BY <1>0, <1>12, <2>1 DEF Expire, Placed
  <2>. QED
    BY <2>2, <2>3
<1>13. CASE UNCHANGED cacheVars
  BY <1>13 DEF CacheTypeOK, Placed, cacheVars
<1>. QED
  BY <1>1, <1>2, <1>3, <1>4, <1>5, <1>6, <1>7, <1>8, <1>9, <1>10, <1>11, <1>12, <1>13 DEF CacheNext

\* The tables, the requests and their places keep their types.
THEOREM CacheTypes == CacheSpec => []CacheTypeOK
<1>1. CacheInv /\ [CacheNext]_cacheVars => CacheInv'
  BY CacheKept
<1>2. CacheInv => CacheTypeOK
  BY DEF CacheInv
<1>. QED
  BY <1>1, <1>2, CacheStart, PTL DEF CacheSpec

-----------------------------------------------------------------------------
(* Why an entry is out of date *)

Explained(k) ==
    Cached(k) /\ ~cache[k].current =>
        cache[k].overtaken \/ cache[k].passed \/ \E p \in Callers : k \in Pending(p)

\* What a write still has to delete, by where it is.
LEMMA PendingIs ==
    ASSUME NEW p \in Callers
    PROVE  /\ stage[p] = "deleting" => Pending(p) = Touched(job[p])
           /\ stage[p] = "extras" => Pending(p) = left[p] \cup job[p].pattern
           /\ stage[p] \in {"scanning", "page", "lastpage"} => Pending(p) = owed[p] \cup batch[p]
           /\ stage[p] \notin {"deleting", "extras", "scanning", "page", "lastpage"} => Pending(p) = {}
BY DEF Pending

\* What the other requests are going to delete stays so, but for the keys of a
\* deletion.
LEMMA OthersPending ==
    ASSUME NEW q \in Callers, NEW k \in Keys, k \in Pending(q),
           stage'[q] = stage[q], job'[q] = job[q], left'[q] = left[q], batch'[q] = batch[q], k \in owed[q] => k \in owed'[q]
    PROVE  k \in Pending(q)'
BY PendingIs DEF Pending

\* An entry that is not written is explained as before, when whoever was going to
\* delete it still is, or passes it over.
LEMMA StillExplained ==
    ASSUME NEW k \in Keys, Explained(k), cache'[k] = cache[k],
           \A q \in Callers : k \in Pending(q) => k \in Pending(q)'
    PROVE  Explained(k)'
BY DEF Explained, Cached

\* Nothing is stale at the start.
LEMMA StaleStart == CacheInit => StaleIsExplained
BY DEF CacheInit, StaleIsExplained, Cached

\* Every step that makes an entry stale leaves a reason for it, and no step takes the reason and not the entry.
LEMMA StaleKept ==
    ASSUME CacheInv, StaleIsExplained, [CacheNext]_cacheVars
    PROVE  StaleIsExplained'
<1>0. /\ cache \in [Keys -> Entry \cup {Absent}] /\ cacheBackend \in {"redis", "memcached"}
      /\ stage \in [Callers -> Places] /\ job \in [Callers -> ReadJob \cup WriteJob \cup {Absent}]
      /\ held \in [Callers -> Result \cup {Absent}]
      /\ left \in [Callers -> SUBSET Keys] /\ owed \in [Callers -> SUBSET Keys] /\ batch \in [Callers -> SUBSET Keys]
  BY DEF CacheInv, CacheTypeOK, Places
<1>. SUFFICES ASSUME NEW k \in Keys, Explained(k) PROVE Explained(k)'
  BY DEF StaleIsExplained, Explained
<1>1. ASSUME NEW p \in Callers, NEW j \in ReadJob \cup WriteJob, Start(p, j) PROVE Explained(k)'
  <2>1. Pending(p) = {}
    BY <1>1, PendingIs DEF Start
  <2>2. ASSUME NEW q \in Callers, k \in Pending(q) PROVE k \in Pending(q)'
    BY <1>0, <1>1, <2>1, <2>2, OthersPending DEF Start
  <2>. QED
    BY <1>1, <2>2, StillExplained DEF Start
<1>2. ASSUME NEW p \in Callers, Get(p) \/ Call(p) PROVE Explained(k)'
  <2>1. Pending(p) = {}
    BY <1>2, PendingIs DEF Get, Call
  <2>2. ASSUME NEW q \in Callers, k \in Pending(q) PROVE k \in Pending(q)'
    BY <1>0, <1>2, <2>1, <2>2, OthersPending DEF Get, Call, Enter
  <2>. QED
    BY <1>2, <2>2, StillExplained DEF Get, Call
<1>3. ASSUME NEW p \in Callers, Set(p) PROVE Explained(k)'
  <2>1. CASE k = job[p].key
    <3>1. cache'[k] = Stored(held[p])
      BY <1>0, <1>3, <2>1 DEF Set
    <3>2. held[p] \in Result
      BY <1>3 DEF CacheInv, Placed, Set
    <3>3. Stored(held[p]).overtaken = ~Stored(held[p]).current
      BY <3>2 DEF Stored, Result
    <3>. QED
      BY <3>1, <3>3 DEF Explained
  <2>2. CASE k # job[p].key
    <3>1. Pending(p) = {} /\ cache'[k] = cache[k]
      BY <1>0, <1>3, <2>2, PendingIs DEF Set
    <3>2. ASSUME NEW q \in Callers, k \in Pending(q) PROVE k \in Pending(q)'
      BY <1>0, <1>3, <3>1, <3>2, OthersPending DEF Set, Enter
    <3>. QED
      BY <3>1, <3>2, StillExplained
  <2>. QED
    BY <2>1, <2>2
<1>4. ASSUME NEW p \in Callers, Commit(p) PROVE Explained(k)'
  <2>1. PICK fails \in BOOLEAN :
          /\ cache' = Outdated(Touched(job[p]), fails \/ ~job[p].keyed)
          /\ Enter(p, IF fails THEN "error" ELSE IF job[p].keyed THEN "deleting" ELSE "done")
    BY <1>4 DEF Commit
  <2>2. CASE k \in Touched(job[p]) /\ Cached(k)
    <3>1. cache[k] \in Entry /\ cache'[k] = [cache[k] EXCEPT !.current = FALSE, !.passed = @ \/ (fails \/ ~job[p].keyed)]
      BY <1>0, <2>1, <2>2 DEF Outdated, Cached
    <3>2. CASE fails \/ ~job[p].keyed
      <4>1. cache'[k].passed
        BY <3>1, <3>2 DEF Entry
      <4>. QED
        BY <4>1 DEF Explained
    <3>3. CASE ~(fails \/ ~job[p].keyed)
      <4>1. stage'[p] = "deleting" /\ job'[p] = job[p]
        BY <1>0, <2>1, <3>3 DEF Enter, Over
      <4>2. k \in Pending(p)'
        BY <2>2, <4>1 DEF Pending, Touched
      <4>. QED
        BY <4>2 DEF Explained
    <3>. QED
      BY <3>2, <3>3
  <2>3. CASE ~(k \in Touched(job[p]) /\ Cached(k))
    <3>1. Pending(p) = {} /\ cache'[k] = cache[k]
      BY <1>0, <1>4, <2>1, <2>3, PendingIs DEF Commit, Outdated
    <3>2. ASSUME NEW q \in Callers, k \in Pending(q) PROVE k \in Pending(q)'
      BY <1>0, <1>4, <2>1, <3>1, <3>2, OthersPending DEF Commit, Enter
    <3>. QED
      BY <3>1, <3>2, StillExplained
  <2>. QED
    BY <2>2, <2>3
\* A deletion leaves the keys it does not name, and takes nothing else off what is owed.
<1>5. ASSUME NEW K, Deleted(K) PROVE /\ k \in K => Explained(k)'
                                     /\ k \notin K => cache'[k] = cache[k] /\ \A q \in Callers : k \in owed[q] => k \in owed'[q]
  <2>1. k \in K => cache'[k] = Absent
    BY <1>5 DEF Deleted
  <2>2. k \in K => Explained(k)'
    BY <2>1 DEF Explained, Cached
  <2>. QED
    BY <1>5, <2>2 DEF Deleted
<1>6. ASSUME NEW p \in Callers, DeleteOwn(p) PROVE Explained(k)'
  <2>1. CASE k = job[p].key
    BY <1>5, <1>6, <2>1 DEF DeleteOwn
  <2>2. CASE k # job[p].key
    <3>1. cache'[k] = cache[k] /\ \A q \in Callers : k \in owed[q] => k \in owed'[q]
      BY <1>5, <1>6, <2>2 DEF DeleteOwn
    <3>2. k \in Pending(p) => k \in Pending(p)'
      <4>1. stage'[p] = "extras" /\ left'[p] = job[p].extra /\ job'[p] = job[p]
        BY <1>0, <1>6 DEF DeleteOwn, Enter, Over
      <4>. QED
        BY <1>6, <2>2, <4>1, PendingIs DEF DeleteOwn, Pending, Touched
    <3>3. ASSUME NEW q \in Callers, q # p, k \in Pending(q) PROVE k \in Pending(q)'
      BY <1>0, <1>6, <3>1, <3>3, OthersPending DEF DeleteOwn, Enter
    <3>. QED
      BY <3>1, <3>2, <3>3, StillExplained
  <2>. QED
    BY <2>1, <2>2
<1>7. ASSUME NEW p \in Callers, NEW l \in Keys, DeleteExtra(p, l) PROVE Explained(k)'
  <2>1. CASE k = l
    BY <1>5, <1>7, <2>1 DEF DeleteExtra
  <2>2. CASE k # l
    <3>1. cache'[k] = cache[k] /\ \A q \in Callers : k \in owed[q] => k \in owed'[q]
      BY <1>5, <1>7, <2>2 DEF DeleteExtra
    <3>2. k \in Pending(p) => k \in Pending(p)'
      <4>1. stage'[p] = "extras" /\ left'[p] = left[p] \ {l} /\ job'[p] = job[p]
        BY <1>0, <1>7 DEF DeleteExtra
      <4>. QED
        BY <1>7, <2>2, <4>1, PendingIs DEF DeleteExtra, Pending
    <3>3. ASSUME NEW q \in Callers, q # p, k \in Pending(q) PROVE k \in Pending(q)'
      BY <1>0, <1>7, <3>1, <3>3, OthersPending DEF DeleteExtra
    <3>. QED
      BY <3>1, <3>2, <3>3, StillExplained
  <2>. QED
    BY <2>1, <2>2
<1>8. ASSUME NEW p \in Callers, Match(p) PROVE Explained(k)'
  <2>0. stage[p] = "extras" /\ Pending(p) = job[p].pattern
    BY <1>8, PendingIs DEF Match
  <2>1. CASE cacheBackend = "redis" /\ job[p].pattern # {}
    <3>1. /\ cache' = cache /\ stage'[p] = "scanning"
          /\ owed' = [owed EXCEPT ![p] = {l \in job[p].pattern : Cached(l)}] /\ batch' = batch
      BY <1>0, <1>8, <2>1 DEF Match, Enter
    <3>2. ASSUME NEW q \in Callers, q # p, k \in Pending(q) PROVE k \in Pending(q)'
      BY <1>0, <1>8, <3>1, <3>2, OthersPending DEF Match, Enter
    <3>3. CASE Cached(k)
      <4>1. k \in Pending(p) => k \in Pending(p)'
        BY <1>0, <2>0, <3>1, <3>3 DEF Pending
      <4>. QED
        BY <3>1, <3>2, <4>1, StillExplained
    <3>4. CASE ~Cached(k)
      BY <3>1, <3>4 DEF Explained, Cached
    <3>. QED
      BY <3>3, <3>4
  <2>2. CASE ~(cacheBackend = "redis" /\ job[p].pattern # {})
    <3>1. /\ cache' = [l \in Keys |-> IF l \in job[p].pattern /\ Cached(l)
                                      THEN [cache[l] EXCEPT !.passed = TRUE] ELSE cache[l]]
          /\ owed' = owed
      BY <1>8, <2>2 DEF Match
    <3>2. CASE k \in job[p].pattern /\ Cached(k)
      <4>1. cache'[k].passed
        BY <1>0, <3>1, <3>2 DEF Cached, Entry
      <4>. QED
        BY <4>1 DEF Explained
    <3>3. CASE k \notin job[p].pattern
      <4>1. cache'[k] = cache[k] /\ k \notin Pending(p)
        BY <2>0, <3>1, <3>3
      <4>2. ASSUME NEW q \in Callers, q # p, k \in Pending(q) PROVE k \in Pending(q)'
        BY <1>0, <1>8, <3>1, <4>2, OthersPending DEF Match, Enter
      <4>. QED
        BY <4>1, <4>2, StillExplained
    <3>4. CASE ~Cached(k)
      BY <3>1, <3>4 DEF Explained, Cached
    <3>. QED
      BY <3>2, <3>3, <3>4
  <2>. QED
    BY <2>1, <2>2
<1>9. ASSUME NEW p \in Callers, Scan(p) PROVE Explained(k)'
  <2>1. PICK page \in Matching(p) : batch' = [batch EXCEPT ![p] = page] /\ owed' = [owed EXCEPT ![p] = @ \ page]
    BY <1>9 DEF Scan
  <2>2. stage'[p] \in {"page", "lastpage"} /\ cache' = cache
    BY <1>0, <1>9 DEF Scan, Enter
  <2>3. stage[p] = "scanning" /\ batch[p] = {} /\ Pending(p) = owed[p]
    BY <1>9, PendingIs DEF Scan, CacheInv, Placed
  <2>4. k \in Pending(p) => k \in Pending(p)'
    <3>1. owed'[p] = owed[p] \ page /\ batch'[p] = page
      BY <1>0, <2>1
    <3>2. Pending(p)' = owed'[p] \cup batch'[p]
      BY <2>2 DEF Pending
    <3>. QED
      BY <2>3, <3>1, <3>2
  <2>5. ASSUME NEW q \in Callers, q # p, k \in Pending(q) PROVE k \in Pending(q)'
    BY <1>0, <1>9, <2>1, <2>5, OthersPending DEF Scan, Enter
  <2>. QED
    BY <2>2, <2>4, <2>5, StillExplained
<1>10. ASSUME NEW p \in Callers, DeletePage(p) PROVE Explained(k)'
  <2>1. CASE k \in batch[p]
    BY <1>5, <1>10, <2>1 DEF DeletePage
  <2>2. CASE k \notin batch[p]
    <3>1. cache'[k] = cache[k] /\ \A q \in Callers : k \in owed[q] => k \in owed'[q]
      BY <1>5, <1>10, <2>2 DEF DeletePage
    <3>2. k \in Pending(p) => k \in Pending(p)'
      <4>1. Pending(p) = owed[p] \cup batch[p]
        BY <1>10, PendingIs DEF DeletePage
      <4>2. CASE stage[p] = "lastpage"
        BY <2>2, <4>1, <4>2 DEF CacheInv, Placed
      <4>3. CASE stage[p] = "page"
        <5>1. stage'[p] = "scanning"
          BY <1>0, <1>10, <4>3 DEF DeletePage, Enter
        <5>2. Pending(p)' = owed'[p] \cup batch'[p]
          BY <5>1 DEF Pending
        <5>. QED
          BY <2>2, <3>1, <4>1, <5>2
      <4>. QED
        BY <1>10, <4>2, <4>3 DEF DeletePage
    <3>3. ASSUME NEW q \in Callers, q # p, k \in Pending(q) PROVE k \in Pending(q)'
      BY <1>0, <1>10, <3>1, <3>3, OthersPending DEF DeletePage, Enter
    <3>. QED
      BY <3>1, <3>2, <3>3, StillExplained
  <2>. QED
    BY <2>1, <2>2
<1>11. ASSUME NEW p \in Callers, Abandon(p) PROVE Explained(k)'
  <2>1. CASE k \in Pending(p) /\ Cached(k)
    <3>1. cache'[k].passed
      BY <1>0, <1>11, <2>1 DEF Abandon, Cached, Entry
    <3>. QED
      BY <3>1 DEF Explained
  <2>2. CASE ~Cached(k)
    BY <1>11, <2>2 DEF Abandon, Explained, Cached
  <2>3. CASE k \notin Pending(p)
    <3>1. cache'[k] = cache[k]
      BY <1>11, <2>3 DEF Abandon
    <3>2. ASSUME NEW q \in Callers, q # p, k \in Pending(q) PROVE k \in Pending(q)'
      BY <1>0, <1>11, <3>2, OthersPending DEF Abandon, Enter
    <3>. QED
      BY <2>3, <3>1, <3>2, StillExplained
  <2>. QED
    BY <2>1, <2>2, <2>3
<1>12. ASSUME NEW l \in Keys, Expire(l) PROVE Explained(k)'
  <2>1. CASE k = l
    BY <1>5, <1>12, <2>1 DEF Expire
  <2>2. CASE k # l
    <3>1. cache'[k] = cache[k] /\ \A q \in Callers : k \in owed[q] => k \in owed'[q]
      BY <1>5, <1>12, <2>2 DEF Expire
    <3>2. ASSUME NEW q \in Callers, k \in Pending(q) PROVE k \in Pending(q)'
      BY <1>12, <3>1, <3>2, OthersPending DEF Expire
    <3>. QED
      BY <3>1, <3>2, StillExplained
  <2>. QED
    BY <2>1, <2>2
<1>13. CASE UNCHANGED cacheVars
  BY <1>13 DEF Explained, Cached, Pending, cacheVars
<1>. QED
  BY <1>1, <1>2, <1>3, <1>4, <1>6, <1>7, <1>8, <1>9, <1>10, <1>11, <1>12, <1>13 DEF CacheNext

\* An entry that is out of date was overtaken or passed over, or is about to be deleted,
\* for any keys, routes and overlaps, and however the pages of a scan fall.
THEOREM StaleHasReasons == CacheSpec => []StaleIsExplained
<1>1. CacheInv /\ [CacheNext]_cacheVars => CacheInv'
  BY CacheKept
<1>2. CacheInv /\ StaleIsExplained /\ [CacheNext]_cacheVars => StaleIsExplained'
  BY StaleKept
<1>. QED
  BY <1>1, <1>2, CacheStart, StaleStart, PTL DEF CacheSpec
=============================================================================
