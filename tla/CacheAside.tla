----------------------------- MODULE CacheAside -----------------------------
(***************************************************************************)
(* The cache decorator of route handlers, over its two backends.  A read   *)
(* asks the cache, calls the handler on a miss and stores what it          *)
(* returned; a write calls the handler and then deletes its own key, the   *)
(* extra keys one by one and what a pattern matches, each in a call of its *)
(* own.  Nothing else orders them, and every call to the backend may fail. *)
(*                                                                         *)
(* Of a result there is only whether it still is what the handler would    *)
(* return, and whether it is empty: an empty one is stored like any other  *)
(* and taken for a miss.                                                   *)
(***************************************************************************)
EXTENDS FiniteSets

CONSTANTS Keys, Callers,
          Requests      \* what may be asked

VARIABLES cache,          \* key -> entry
          cacheBackend,   \* the store the decorator uses; it stays what it is
          stage, job,     \* request -> where it is, and what it was asked
          held,           \* read -> the result it is about to store
          left,           \* write -> the extra keys it has yet to delete
          owed,           \* write -> the matches a scan of Redis still has to find
          batch           \* write -> the matches of the page it is about to delete

cacheVars == <<cache, cacheBackend, stage, job, held, left, owed, batch>>

Absent == <<>>
Result == [current : BOOLEAN, empty : BOOLEAN]

\* An entry also remembers how it may have come to be out of date: stored by a read
\* that a write overtook, or passed over by a write that could not delete it.
Entry == [current : BOOLEAN, empty : BOOLEAN, expires : BOOLEAN, overtaken : BOOLEAN, passed : BOOLEAN]

\* A write whose key cannot be told from its arguments is not keyed.
ReadJob  == [op : {"read"}, key : Keys]
WriteJob == [op : {"write"}, keyed : BOOLEAN, key : Keys, extra : SUBSET Keys, pattern : SUBSET Keys]

Cached(k) == cache[k] # Absent

\* The keys whose results a write changes are the ones its route names.
Touched(j) == {j.key} \cup j.extra \cup j.pattern

CacheInit ==
    /\ cache = [k \in Keys |-> Absent]
    /\ cacheBackend \in {"redis", "memcached"}
    /\ stage = [p \in Callers |-> "new"]
    /\ job = [p \in Callers |-> Absent]
    /\ held = [p \in Callers |-> Absent]
    /\ left = [p \in Callers |-> {}]
    /\ owed = [p \in Callers |-> {}]
    /\ batch = [p \in Callers |-> {}]

Over == {"done", "error"}

Enter(p, where) ==
    /\ stage' = [stage EXCEPT ![p] = where]
    /\ job' = [job EXCEPT ![p] = IF where \in Over THEN Absent ELSE @]
    /\ UNCHANGED cacheBackend

-----------------------------------------------------------------------------
(* Reads *)

Start(p, j) ==
    /\ stage[p] = "new"
    /\ stage' = [stage EXCEPT ![p] = IF j.op = "read" THEN "getting" ELSE "writing"]
    /\ job' = [job EXCEPT ![p] = j]
    /\ UNCHANGED <<cache, cacheBackend, held, left, owed, batch>>

\* An empty result is not a hit.
Get(p) ==
    /\ stage[p] = "getting"
    /\ Enter(p, IF Cached(job[p].key) /\ ~cache[job[p].key].empty THEN "done" ELSE "reading")
    /\ UNCHANGED <<cache, held, left, owed, batch>>

Call(p) ==
    /\ stage[p] = "reading"
    /\ \E empty \in BOOLEAN : held' = [held EXCEPT ![p] = [current |-> TRUE, empty |-> empty]]
    /\ Enter(p, "setting")
    /\ UNCHANGED <<cache, left, owed, batch>>

\* Faulty: stored without a time to live.
StoredForever(result) == [current |-> result.current, empty |-> result.empty, expires |-> FALSE,
                          overtaken |-> ~result.current, passed |-> FALSE]

Stored(result) == [current |-> result.current, empty |-> result.empty, expires |-> TRUE,
                   overtaken |-> ~result.current, passed |-> FALSE]

Set(p) ==
    /\ stage[p] = "setting"
    /\ cache' = [cache EXCEPT ![job[p].key] = Stored(held[p])]
    /\ held' = [held EXCEPT ![p] = Absent]
    /\ Enter(p, "done")
    /\ UNCHANGED <<left, owed, batch>>

-----------------------------------------------------------------------------
(* Writes *)

\* The entries K, out of date; a write that will not delete them passes them over.
Outdated(K, passes) ==
    [k \in Keys |-> IF k \in K /\ Cached(k)
                    THEN [cache[k] EXCEPT !.current = FALSE, !.passed = @ \/ passes]
                    ELSE cache[k]]

\* The handler commits what it changes, and may fail all the same.
Commit(p) ==
    /\ stage[p] = "writing"
    /\ LET j == job[p]
       IN  \E fails \in BOOLEAN :
              /\ cache' = Outdated(Touched(j), fails \/ ~j.keyed)
              /\ held' = [q \in Callers |->
                     IF stage[q] = "setting" /\ job[q].key \in Touched(j)
                     THEN [held[q] EXCEPT !.current = FALSE] ELSE held[q]]
              /\ Enter(p, IF fails THEN "error" ELSE IF j.keyed THEN "deleting" ELSE "done")
    /\ UNCHANGED <<left, owed, batch>>

\* What a scan still has to find is what was there throughout.
Deleted(K) ==
    /\ cache' = [k \in Keys |-> IF k \in K THEN Absent ELSE cache[k]]
    /\ owed' = [q \in Callers |-> owed[q] \ K]

DeleteOwn(p) ==
    /\ stage[p] = "deleting"
    /\ Deleted({job[p].key})
    /\ left' = [left EXCEPT ![p] = job[p].extra]
    /\ Enter(p, "extras")
    /\ UNCHANGED <<held, batch>>

DeleteExtra(p, k) ==
    /\ stage[p] = "extras" /\ k \in left[p]
    /\ Deleted({k})
    /\ left' = [left EXCEPT ![p] = @ \ {k}]
    /\ UNCHANGED <<cacheBackend, stage, job, held, batch>>

\* Memcached cannot match patterns: that is logged, and the keys stay.
Match(p) ==
    /\ stage[p] = "extras" /\ left[p] = {}
    /\ IF cacheBackend = "redis" /\ job[p].pattern # {}
       THEN /\ owed' = [owed EXCEPT ![p] = {k \in job[p].pattern : Cached(k)}]
            /\ Enter(p, "scanning")
            /\ UNCHANGED cache
       ELSE /\ cache' = [k \in Keys |-> IF k \in job[p].pattern /\ Cached(k)
                                        THEN [cache[k] EXCEPT !.passed = TRUE] ELSE cache[k]]
            /\ Enter(p, "done")
            /\ UNCHANGED owed
    /\ UNCHANGED <<held, left, batch>>

\* A page has some of the keys that match; the last one comes when none is owed.
Matching(p) == SUBSET {k \in job[p].pattern : Cached(k)}

\* Faulty: the first page is taken for all.
ScanOnce(p) ==
    /\ stage[p] = "scanning"
    /\ \E page \in Matching(p) : batch' = [batch EXCEPT ![p] = page]
    /\ owed' = [owed EXCEPT ![p] = {}]
    /\ Enter(p, "lastpage")
    /\ UNCHANGED <<cache, held, left>>

Scan(p) ==
    /\ stage[p] = "scanning"
    /\ \E page \in Matching(p) :
          /\ batch' = [batch EXCEPT ![p] = page]
          /\ owed' = [owed EXCEPT ![p] = @ \ page]
    /\ \E more \in BOOLEAN :
          /\ ~more => owed'[p] = {}
          /\ Enter(p, IF more THEN "page" ELSE "lastpage")
    /\ UNCHANGED <<cache, held, left>>

DeletePage(p) ==
    /\ stage[p] \in {"page", "lastpage"}
    /\ Deleted(batch[p])
    /\ batch' = [batch EXCEPT ![p] = {}]
    /\ Enter(p, IF stage[p] = "page" THEN "scanning" ELSE "done")
    /\ UNCHANGED <<held, left>>

-----------------------------------------------------------------------------
(* What the two have to reckon with *)

\* The keys a write has changed and is going to delete.
Pending(p) ==
    CASE stage[p] = "deleting" -> Touched(job[p])
      [] stage[p] = "extras"   -> left[p] \cup job[p].pattern
      [] stage[p] \in {"scanning", "page", "lastpage"} -> owed[p] \cup batch[p]
      [] OTHER -> {}

\* The backend fails, or the client hangs up: the request ends where it is.
Abandon(p) ==
    /\ stage[p] \notin Over \cup {"new"}
    /\ cache' = [k \in Keys |-> IF k \in Pending(p) /\ Cached(k)
                                THEN [cache[k] EXCEPT !.passed = TRUE] ELSE cache[k]]
    /\ held' = [held EXCEPT ![p] = Absent]
    /\ left' = [left EXCEPT ![p] = {}]
    /\ owed' = [owed EXCEPT ![p] = {}]
    /\ batch' = [batch EXCEPT ![p] = {}]
    /\ Enter(p, "error")

\* The time of an entry is up, or the store makes room.
Expire(k) ==
    /\ Cached(k) /\ cache[k].expires
    /\ Deleted({k})
    /\ UNCHANGED <<cacheBackend, stage, job, held, left, batch>>

CacheNext ==
    \/ \E p \in Callers :
        \/ \E j \in Requests \cap (ReadJob \cup WriteJob) : Start(p, j)
        \/ Get(p)
        \/ Call(p)
        \/ Set(p)
        \/ Commit(p)
        \/ DeleteOwn(p)
        \/ \E k \in Keys : DeleteExtra(p, k)
        \/ Match(p)
        \/ Scan(p)
        \/ DeletePage(p)
        \/ Abandon(p)
    \/ \E k \in Keys : Expire(k)

CacheSpec == CacheInit /\ [][CacheNext]_cacheVars

\* Only time is fair: every entry is stored with one to live.
FairSpec == CacheSpec /\ \A k \in Keys : WF_cacheVars(Expire(k))

-----------------------------------------------------------------------------
CacheTypeOK ==
    /\ cache \in [Keys -> Entry \cup {Absent}]
    /\ cacheBackend \in {"redis", "memcached"}
    /\ stage \in [Callers -> Over \cup {"new", "getting", "reading", "setting", "writing", "deleting", "extras", "scanning",
                                   "page", "lastpage"}]
    /\ job \in [Callers -> ReadJob \cup WriteJob \cup {Absent}]
    /\ held \in [Callers -> Result \cup {Absent}]
    /\ left \in [Callers -> SUBSET Keys] /\ owed \in [Callers -> SUBSET Keys] /\ batch \in [Callers -> SUBSET Keys]

\* An entry that is out of date is about to be deleted by the write that made it so,
\* unless it was stored by a read the write overtook, or the write was cut short,
\* failed, had no key or a pattern that Memcached cannot match.  In particular a
\* pattern loses no entry however the pages of the scan fall.
StaleIsExplained ==
    \A k \in Keys : Cached(k) /\ ~cache[k].current =>
        cache[k].overtaken \/ cache[k].passed \/ \E p \in Callers : k \in Pending(p)

\* Whatever went wrong, no entry stays out of date.
StaleEnds == \A k \in Keys : (Cached(k) /\ ~cache[k].current) ~> (~Cached(k) \/ cache[k].current)
=============================================================================
