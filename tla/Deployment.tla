----------------------------- MODULE Deployment -----------------------------
(***************************************************************************)
(* The platform on its host: an env file and a built release, the compose  *)
(* stack that "docker compose up -d" brings up from them, the one-shot job *)
(* that migrates the schema and syncs the roles, and the workers of the    *)
(* API, each with the resources its lifespan opens and closes again.       *)
(*                                                                         *)
(* "prod" is the stack of the runbook.  "local" is the one of the quick    *)
(* start, where nothing waits for a migration and it is run by hand.  One  *)
(* person runs the runbook; containers, servers and workers fail and come  *)
(* back as their restart policy has it.                                    *)
(***************************************************************************)
EXTENDS Surface, Release

CONSTANTS Workers, Releases,
          EnvFiles, Edits,                    \* the files, and which of them are an edit apart
          HandGrants,                         \* what somebody may grant in the back office
          MaxBuilds, MaxEdits, MaxFaults      \* bounds: checkouts built, edits of the file, failures

ASSUME DeploymentAssumption ==
    /\ "redis" \in Hosts \ LocalHosts
    /\ Releases \subseteq Checkout
    /\ EnvFiles \subseteq Settings
    /\ MaxBuilds \in Nat /\ MaxEdits \in Nat /\ MaxFaults \in Nat

VARIABLES mode, env, image,   \* the stack, the file and the release on the host
          postgres, redis,    \* the servers, what they were started with, and the schema
          roles,              \* role -> its permissions, and whether they were edited by hand
          rollout,            \* where "up" is
          migrate,            \* the job
          api,                \* the container: its release and the file as it was
          worker,             \* worker -> where its lifespan is, its exit stack and what is open
          spent               \* of the bounds

host  == <<mode, env, image>>
store == <<postgres, redis, roles>>
vars  == <<host, store, rollout, migrate, api, worker, spent>>

RoleNames == {Roles[i] : i \in DOMAIN Roles}
NoRole    == [permissions |-> {}, edited |-> FALSE]
Running   == {"upgrading", "syncing"}
Resource  == {"database", "cache", "limiter", "auth"}
Down      == [pc |-> "down", stack |-> <<>>, open |-> {}]

\* The environment of the services names the host of every client's Redis, and leaves its port.
Container(e) == [e EXCEPT !.cache.host = "redis", !.limiter.host = "redis", !.taskiq.host = "redis"]

\* The file of the quick start is one for development.
Init ==
    /\ mode \in {"prod", "local"} /\ env \in EnvFiles /\ image \in Releases
    /\ mode = "local" => env.environment = "development"
    /\ postgres = [up |-> FALSE, password |-> Unset, schema |-> Empty]
    /\ redis = [up |-> FALSE, password |-> Unset]
    /\ roles = [r \in RoleNames |-> NoRole]
    /\ rollout = "idle"
    /\ migrate = [status |-> "none", release |-> image, env |-> Container(env), next |-> 1]
    /\ api = [status |-> "none", release |-> image, env |-> Container(env)]
    /\ worker = [w \in Workers |-> Down]
    /\ spent = [builds |-> 0, edits |-> 0, faults |-> 0]

Spend(what) == spent' = [spent EXCEPT ![what] = @ + 1]

-----------------------------------------------------------------------------
(* The servers.  A database and a Redis elsewhere take what they are given. *)

\* The stack's Redis asks for the cache's password, in the quick start for none.
ServerPassword(e) == IF mode = "prod" THEN e.cache.password ELSE Unset

\* The ports the servers of the stack listen at.
PostgresPort == 5432
RedisPort    == 6379

\* The password is that of the user and the database that came with it.
Admits(e)   == e.databaseUrl # Unset \/ (e.postgresPort = PostgresPort /\ DatabasePassword(e) = postgres.password)
Connects(e) == postgres.up /\ Admits(e)

\* In a container the local host is the container, where no Redis is.
Accepts(r) == r.host \notin LocalHosts /\ (r.host = "redis" => r.port = RedisPort /\ r.password = redis.password)
Pings(r)   == Accepts(r) /\ (r.host = "redis" => redis.up)

-----------------------------------------------------------------------------
(* The host. *)

\* A database is not moved: its URL comes and goes with a first deploy only.
EditEnv(e) ==
    /\ rollout = "idle" /\ spent.edits < MaxEdits
    /\ <<env, e>> \in Edits /\ (e.databaseUrl = Unset) = (env.databaseUrl = Unset)
    /\ env' = e
    /\ Spend("edits") /\ UNCHANGED <<mode, image, store, rollout, migrate, api, worker>>

\* git pull or checkout, and docker compose build.  The quick start is of one checkout.
Build(r) ==
    /\ rollout = "idle" /\ mode = "prod" /\ spent.builds < MaxBuilds
    /\ r # image /\ image' = r
    /\ Spend("builds") /\ UNCHANGED <<mode, env, store, rollout, migrate, api, worker>>

\* The volume keeps the password it was first started with.
Up ==
    /\ rollout = "idle"
    /\ rollout' = "replacing"
    /\ postgres' = [postgres EXCEPT !.up = TRUE, !.password = IF @ = Unset THEN env.postgresPassword ELSE @]
    /\ redis' = [up |-> TRUE, password |-> ServerPassword(env)]
    /\ api' = IF api.status # "none" /\ (api.release # image \/ api.env # Container(env))
              THEN [api EXCEPT !.status = "stopping"] ELSE api
    /\ UNCHANGED <<host, roles, migrate, worker, spent>>

\* A container that differs is gone before anything of the new one runs.
Create ==
    /\ rollout = "replacing"
    /\ api.status = "stopping" => \A w \in Workers : worker[w].pc = "down"
    /\ api' = IF api.status \in {"none", "stopping"}
              THEN [status |-> "created", release |-> image, env |-> Container(env)] ELSE api
    /\ migrate' = IF mode = "prod"
                  THEN [status |-> "upgrading", release |-> image, env |-> Container(env), next |-> 1] ELSE migrate
    /\ rollout' = "starting"
    /\ UNCHANGED <<host, store, worker, spent>>

Migrated == migrate.status = "done"

Start ==
    /\ rollout = "starting"
    /\ mode = "prod" => Migrated
    /\ postgres.up /\ redis.up
    /\ api' = [api EXCEPT !.status = "started"]
    /\ worker' = [w \in Workers |-> IF worker[w].pc = "down" THEN [Down EXCEPT !.pc = "boot"] ELSE worker[w]]
    /\ rollout' = "idle"
    /\ UNCHANGED <<host, store, migrate, spent>>

GiveUp ==
    /\ rollout = "starting"
    /\ (mode = "prod" /\ migrate.status = "failed") \/ ~postgres.up \/ ~redis.up
    /\ migrate.status \notin Running
    /\ rollout' = "idle"
    /\ UNCHANGED <<host, store, migrate, api, worker, spent>>

-----------------------------------------------------------------------------
(* The job: alembic upgrade head && python -m scripts.sync_roles *)

\* The quick start runs the upgrade in the container of the API, with the scripts of the set-up after it.
Exec ==
    /\ mode = "local" /\ api.status = "started" /\ migrate.status \notin Running
    /\ migrate' = [status |-> "upgrading", release |-> api.release, env |-> api.env, next |-> 1]
    /\ UNCHANGED <<host, store, rollout, api, worker, spent>>

\* A production database takes a confirmation, which the service of the stack gives, and a key in the environment.
Confirmed(e) == e.environment = "production" => (mode = "prod" /\ "empty" \notin e.secret)

UpgradeRuns ==
    /\ Imports(migrate.release) /\ Confirmed(migrate.env) /\ Connects(migrate.env)
    /\ CanUpgrade(postgres.schema, migrate.release.head)

\* The revisions are one transaction.
Upgrade ==
    /\ migrate.status = "upgrading"
    /\ IF UpgradeRuns
       THEN /\ postgres' = [postgres EXCEPT !.schema = Upgraded(@, migrate.release.head)]
            /\ migrate' = [migrate EXCEPT !.status = "syncing"]
       ELSE migrate' = [migrate EXCEPT !.status = "failed"] /\ UNCHANGED postgres
    /\ UNCHANGED <<host, redis, roles, rollout, api, worker, spent>>

\* Faulty: a role that is there is left as it is.
SyncedIfMissing(role) ==
    IF roles[role] # NoRole THEN roles[role]
    ELSE [permissions |-> Resolved(migrate.release, role), edited |-> FALSE]

SyncedRole(role) == [permissions |-> Resolved(migrate.release, role), edited |-> FALSE]

\* Faulty: one role too far.
PastLastRole == migrate.next > Len(Roles)

AtLastRole == migrate.next = Len(Roles)

\* Role after role, each with a commit of its own.
SyncRole ==
    LET role == Roles[migrate.next]
    IN  /\ migrate.status = "syncing"
        /\ SeedsRoles(migrate.release) /\ Connects(migrate.env)
        /\ roles' = [roles EXCEPT ![role] = SyncedRole(role)]
        /\ migrate' = IF AtLastRole THEN [migrate EXCEPT !.status = "done", !.next = 1] ELSE [migrate EXCEPT !.next = @ + 1]
        /\ UNCHANGED <<host, postgres, redis, rollout, api, worker, spent>>

SyncFails ==
    /\ migrate.status = "syncing"
    /\ ~SeedsRoles(migrate.release) \/ ~Connects(migrate.env)
    /\ migrate' = [migrate EXCEPT !.status = "failed", !.next = 1]
    /\ UNCHANGED <<host, store, rollout, api, worker, spent>>

-----------------------------------------------------------------------------
(* A worker: the lifespan of the application. *)

Move(w, pc, stack, open) == worker' = [worker EXCEPT ![w] = [pc |-> pc, stack |-> stack, open |-> open]]

Stays == UNCHANGED <<host, store, rollout, migrate, api, spent>>

Boot(w) ==
    /\ worker[w].pc = "boot"
    /\ Move(w, IF RefusesToStart(api.env) THEN "down" ELSE "database", <<>>, {})
    /\ Stays

MakesTables == api.env.createTables

OpenDatabase(w) ==
    /\ worker[w].pc = "database"
    /\ \/ ~MakesTables /\ Move(w, "cache", <<"database">>, {}) /\ UNCHANGED postgres
       \/ /\ MakesTables /\ Connects(api.env)
          /\ Move(w, "cache", <<"database">>, {"database"})
          /\ postgres' = [postgres EXCEPT !.schema = CreatedAll(@, api.release)]
       \/ MakesTables /\ ~Connects(api.env) /\ Move(w, "unwinding", <<"database">>, {}) /\ UNCHANGED postgres
    /\ UNCHANGED <<host, redis, roles, rollout, migrate, api, spent>>

\* A backend of a name that is not known is registered nowhere, and nobody is told.
Opened(enabled, backend, resource) == IF enabled /\ backend \in {"redis", "memcached"} THEN {resource} ELSE {}
Pushed(enabled, resource) == IF enabled THEN <<resource>> ELSE <<>>

OpenCache(w) ==
    /\ worker[w].pc = "cache"
    /\ Move(w, "limiter", Pushed(api.env.cacheEnabled, "cache") \o worker[w].stack,
            worker[w].open \cup Opened(api.env.cacheEnabled, api.env.cacheBackend, "cache"))
    /\ Stays

OpenLimiter(w) ==
    /\ worker[w].pc = "limiter"
    /\ Move(w, "auth", Pushed(api.env.limiterEnabled, "limiter") \o worker[w].stack,
            worker[w].open \cup Opened(api.env.limiterEnabled, api.env.limiterBackend, "limiter"))
    /\ Stays

SessionsAnswer(e) == e.sessionBackend = "redis" => Pings(SessionRedis(e))

\* Faulty: shutdown is pushed when initialize has returned.
AuthFailsUnpushed(w) == Move(w, "unwinding", worker[w].stack, worker[w].open \cup {"auth"})

AuthFails(w) == Move(w, "unwinding", <<"auth">> \o worker[w].stack, worker[w].open \cup {"auth"})

\* The library may try the sessions' Redis or put that off.
OpenAuth(w) ==
    /\ worker[w].pc = "auth"
    /\ \/ Move(w, "serving", <<"auth">> \o worker[w].stack, worker[w].open \cup {"auth"})
       \/ ~SessionsAnswer(api.env) /\ AuthFails(w)
    /\ Stays

\* The pool opens its connections when the first request wants one.
Query(w) ==
    /\ worker[w].pc = "serving" /\ "database" \notin worker[w].open /\ Connects(api.env)
    /\ Move(w, "serving", worker[w].stack, worker[w].open \cup {"database"})
    /\ Stays

Stop(w) ==
    /\ worker[w].pc = "serving" /\ api.status = "stopping"
    /\ Move(w, "unwinding", worker[w].stack, worker[w].open)
    /\ Stays

\* The closer pushed last is called first; the one that raises keeps none of the others from it.
Unwind(w) ==
    /\ worker[w].pc = "unwinding"
    /\ IF worker[w].stack = <<>> THEN Move(w, "down", <<>>, worker[w].open)
       ELSE Move(w, "unwinding", Tail(worker[w].stack), worker[w].open \ {Head(worker[w].stack)})
    /\ Stays

\* Faulty: the service has none.
NoRestartPolicy == FALSE

RestartPolicy == mode = "prod"

Restart(w) ==
    /\ worker[w].pc = "down" /\ api.status = "started" /\ RestartPolicy
    /\ Move(w, "boot", <<>>, {})
    /\ Stays

-----------------------------------------------------------------------------
(* What happens to it. *)

HandEdit(role, permission) ==
    /\ \E w \in Workers : worker[w].pc = "serving"
    /\ Connects(api.env) /\ SessionsAnswer(api.env)
    /\ roles[role] # NoRole
    /\ roles' = [roles EXCEPT ![role] = [permissions |-> @.permissions \cup {permission}, edited |-> TRUE]]
    /\ UNCHANGED <<host, postgres, redis, rollout, migrate, api, worker, spent>>

Fault == spent.faults < MaxFaults /\ Spend("faults")

PostgresFails == Fault /\ postgres.up /\ postgres' = [postgres EXCEPT !.up = FALSE]
                 /\ UNCHANGED <<host, redis, roles, rollout, migrate, api, worker>>
RedisFails    == Fault /\ redis.up /\ redis' = [redis EXCEPT !.up = FALSE]
                 /\ UNCHANGED <<host, postgres, roles, rollout, migrate, api, worker>>

\* Killed where it stands: the transaction under way is rolled back, the roles before it stay synced.
MigrateDies == Fault /\ migrate.status \in Running /\ migrate' = [migrate EXCEPT !.status = "failed", !.next = 1]
               /\ UNCHANGED <<host, store, rollout, api, worker>>
Crash(w)    == Fault /\ worker[w].pc # "down" /\ worker' = [worker EXCEPT ![w] = Down]
               /\ UNCHANGED <<host, store, rollout, migrate, api>>

Returns == postgres.password # Unset /\ RestartPolicy

PostgresReturns == Returns /\ ~postgres.up /\ postgres' = [postgres EXCEPT !.up = TRUE]
                   /\ UNCHANGED <<host, redis, roles, rollout, migrate, api, worker, spent>>
RedisReturns    == Returns /\ ~redis.up /\ redis' = [redis EXCEPT !.up = TRUE]
                   /\ UNCHANGED <<host, postgres, roles, rollout, migrate, api, worker, spent>>

-----------------------------------------------------------------------------
Lifespan(w) == \/ Boot(w) \/ OpenDatabase(w) \/ OpenCache(w) \/ OpenLimiter(w) \/ OpenAuth(w)
               \/ Stop(w) \/ Unwind(w) \/ Restart(w)

Operator == (\E e \in EnvFiles : EditEnv(e)) \/ (\E r \in Releases : Build(r)) \/ Up \/ Exec
Compose  == Create \/ Start \/ GiveUp
Job      == Upgrade \/ SyncRole \/ SyncFails
Failures == PostgresFails \/ RedisFails \/ MigrateDies \/ \E w \in Workers : Crash(w)
Recovery == PostgresReturns \/ RedisReturns

Next == \/ Operator \/ Compose \/ Job \/ Failures \/ Recovery
        \/ \E w \in Workers : Lifespan(w) \/ Query(w)
        \/ \E role \in RoleNames, p \in HandGrants : HandEdit(role, p)

\* What runs goes on running, and what has a restart policy is restarted.
Fairness == /\ WF_vars(Compose) /\ WF_vars(Job) /\ WF_vars(PostgresReturns) /\ WF_vars(RedisReturns)
            /\ \A w \in Workers : WF_vars(Lifespan(w))

Spec == Init /\ [][Next]_vars /\ Fairness

-----------------------------------------------------------------------------
(* The runbook's second check: what the preflight says with the stack running. *)

DatabaseProblems(e, r) ==
    Raised([unreachable |-> ~Connects(e), unversioned |-> postgres.schema.version = 0,
            revision |-> postgres.schema.version # r.head])
Preflight(e, r) == ConfigProblems(e) \cup DatabaseProblems(e, r) \cup Raised([redis |-> ~Pings(SessionRedis(e))])

-----------------------------------------------------------------------------
(* Properties. *)

Serving == \E w \in Workers : worker[w].pc = "serving"

\* The tables, servers, jobs and workers keep their types (the state of the whole module).
TypeOK ==
    /\ mode \in {"prod", "local"} /\ env \in Settings /\ image \in Releases
    /\ postgres.up \in BOOLEAN /\ postgres.password \in DbPassword \cup {Unset}
    /\ postgres.schema.version \in 0..Len(Revisions)
    /\ redis \in [up : BOOLEAN, password : RedisPassword]
    /\ DOMAIN roles = RoleNames
    /\ rollout \in {"idle", "replacing", "starting"}
    /\ migrate.status \in Running \cup {"none", "done", "failed"} /\ migrate.next \in 1..Len(Roles)
    /\ migrate.release \in Releases /\ migrate.env \in Settings
    /\ api.status \in {"none", "created", "started", "stopping"} /\ api.release \in Releases /\ api.env \in Settings
    /\ \A w \in Workers : worker[w].open \subseteq Resource
    /\ spent.builds \in 0..MaxBuilds /\ spent.edits \in 0..MaxEdits /\ spent.faults \in 0..MaxFaults

\* The models of a release that serves find their tables and the labels they write, where a migration or
\* create_all has come first; and but for create_all the schema is what its version says (migrations and models).
SchemaIsRight ==
    /\ Serving /\ (mode = "prod" \/ api.env.createTables) => Fits(postgres.schema, api.release)
    /\ mode = "prod" \/ (~api.env.createTables /\ spent.edits = 0) => postgres.schema = SchemaAt(postgres.schema.version)

\* With the stack up, a preflight without problems is a worker that starts, on the schema of its models, with sessions
\* that answer, and so does the cache unless sessions have a URL of their own.  At the cache's Redis the limiter gets in
\* just if its port is the same, and so does the broker unless its password, which is not quoted, has characters of a URL.
PreflightIsEnough ==
    LET e == Container(env)
    IN  mode = "prod" /\ redis.up /\ redis.password = ServerPassword(e) /\ Preflight(e, image) = {} =>
            /\ ~RefusesToStart(e) /\ Fits(postgres.schema, image)
            /\ Pings(SessionRedis(e)) /\ (e.sessionUrl = <<>> => Pings(e.cache))
            /\ Pings(e.cache) =>
                  /\ Pings(e.limiter) <=> e.limiter.port = e.cache.port
                  /\ Pings(BrokerRedis(e)) <=> e.taskiq.port = e.cache.port /\ e.taskiq.password # "reserved"

\* Where nothing failed, "up" ends with the API started but for five reasons: a tool that cannot be imported, a role
\* with a permission nobody declares, a database that is ahead, a production without a key, and a database that is asked
\* for at another port or with another password; however often it was done before, and with create_all on (migrate).
RolloutStarts ==
    mode = "prod" /\ rollout = "idle" /\ api.status = "created" /\ spent.faults = 0 =>
        \/ ~Imports(api.release) \/ ~SeedsRoles(api.release)
        \/ api.release.head < postgres.schema.version
        \/ api.env.environment = "production" /\ "empty" \in api.env.secret
        \/ ~Admits(api.env)

\* Whatever the settings: a page of another origin writes through the API only and if it is listed by name, docs are
\* for everybody in development alone, all answers have a policy, and only files are kept by caches (middleware).
Guarded(s) ==
    \A r \in Request :
        LET a == Answer(s, r)
        IN  /\ r.write /\ r.origin \notin {"", "own"} /\ a.status # 403 => r.path = "api" /\ r.origin \in s.corsOrigins
            /\ r.path = "docs" /\ a.status = 200 => r.caller = "superuser" \/ s.environment \in {"development", "local"}
            /\ s.securityHeaders => a.policy # "" /\ (a.policy # "strict" => r.path \in {"admin", "docs"})
            /\ a.cached = "public" => r.path = "static"

\* What production may not be, by what is in use: the password the driver sends, what CORS answers, where sessions are;
\* and what it may be with a warning: documented, making tables, on a Redis without a password.
Hardened(s) ==
    /\ s.secret = {} /\ DatabasePassword(s) \notin {"postgres", "blank"}
    /\ s.adminEnabled => s.adminUsername # "" /\ s.adminPassword # ""
    /\ s.csrf /\ s.secureCookies /\ s.sessionBackend = "redis"
    /\ \A r \in Request : Answer(s, r).shared => r.origin \in s.corsOrigins
    /\ Docs(s) # "hidden" => <<"setting", "docs">> \in Warnings(s)
    /\ s.createTables => <<"setting", "createTables">> \in Warnings(s)
    /\ SessionRedis(s).password = Unset => <<"password", "sessions">> \in Warnings(s)
    /\ s.cacheEnabled /\ s.cacheBackend = "redis" /\ s.cache.password = Unset => <<"password", "cache">> \in Warnings(s)

Intended == {s \in {Container(e) : e \in EnvFiles} :
                /\ Guarded(s)
                /\ s.environment = "production" /\ s.validation => Hardened(s)}

\* What serves is guarded, and in production nothing of what the validator is there for is in use.
ExposureIsIntended == Serving => api.env \in Intended

\* The API is not up before every role has the permissions its release gives it, or what somebody made of them since.
RolesFollowTheRelease ==
    mode = "prod" /\ api.status = "started" =>
        \A role \in RoleNames : roles[role].edited \/ roles[role].permissions = Resolved(api.release, role)

\* Whatever a worker has open its exit stack closes, in whatever step the start-up fails (app_factory.lifespan_factory).
NothingLeaks == \A w \in Workers : worker[w].open \subseteq {worker[w].stack[i] : i \in DOMAIN worker[w].stack}

\* A worker whose start nothing in its file stands against serves in the end, after whatever failures.
Bootable(w) ==
    /\ mode = "prod" /\ api.status = "started"
    /\ ~RefusesToStart(api.env)
    /\ api.env.createTables => Admits(api.env)
    /\ api.env.sessionBackend = "redis" => Accepts(SessionRedis(api.env))

ComesBack == \A w \in Workers : Bootable(w) ~> (worker[w].pc = "serving" \/ ~Bootable(w))
=============================================================================
