# TLA+ models of the internal-tools platform

The repository is one FastAPI application that hosts internal tools on a shared platform: an
authentication and role layer, an append-only audit trail, a back office, and three tools (KYC review,
feature flags, tool-request intake). Every request runs in its own SQLAlchemy `AsyncSession` on
Postgres at READ COMMITTED (`backend/src/infrastructure/database/session.py:112-145`); sessions, cache and
rate-limit counters live in Redis or memcached. This directory models what those requests do to shared
state when they overlap, fail in the middle, or die, and proves the parts that hold for every size.

Paths below are relative to `src/backend/src/` unless they start with `src/`.

## 1. Inventory

| Component | State it keeps | Operations | Talks to |
|---|---|---|---|
| KYC review queue (`modules/tools/kyc`) | `kyc_case` rows, their audit events | claim, release, approve, reject, escalate, resume, the buttons | roles (permissions per request), audit |
| Tool request intake (`modules/tools/intake`) | `tool_request` rows, their audit events, sessions at Devin | submit (daily limit), dispatch, record the outcome | Devin HTTP API, advisory and row locks, audit |
| Feature flags (`modules/tools/flags`) | `feature_flag` rows, their audit events | create, update, toggle, evaluate, seed; back-office edit and delete | row lock, audit, API keys, rate limiter |
| Roles, platform audit, sign-in (`modules/platform`) | roles, grants, audit table | upsert/assign/revoke role, issue key, record login/logout/failed login, page gate | users, API keys |
| API keys (`modules/api_keys`) | keys, permissions, usage | create, update, deactivate, validate, permission fallback, usage metrics | users, rate limiter |
| Rate limiter (`infrastructure/rate_limit`) | a counter per key and window, the provider's policy | increment-and-check, reset, get-count, policy override | Redis or memcached |
| Cache (`infrastructure/cache`) | cached responses | cache-aside read, invalidating write (a decorator no shipped route uses yet) | Redis or memcached |
| Users, tiers, path limits (`modules/user`, `tier`, `rate_limit`, `scripts/create_first_superuser.py`) | rows with unique names and addresses, tiers they refer to | register, update, change tier, deactivate, anonymize, back-office forms, remove a tier, make the first superuser | API keys, sessions |
| Back office (`interfaces/admin`, `modules/platform/admin.py`) | its sign-in, in a signed cookie | sign-in, the configured pair, a gate on every request, generic edit and delete, audit after commit | every table |
| Sign-in routes (`infrastructure/auth`) | sessions (external package), OAuth state | login, logout, CSRF refresh, OAuth round trip | users, audit |
| Life cycle and middleware (`infrastructure/app_factory.py`, `middleware.py`) | a worker's exit stack and open resources | start, tear down, filter and stamp a request | settings, Postgres, Redis |
| Settings, production validation, preflight (`infrastructure/config`, `infrastructure/security`, `scripts/preflight.py`) | none of their own: functions of an env file | read, judge, warn, refuse to start | Postgres, Redis |
| Migrations, role sync, compose stack (`src/backend/migrations`, `scripts/sync_roles.py`, `src/DEPLOY.md`) | schema and version, role grants, containers and volumes | upgrade, sync, bring up, roll out or back | every table, the life cycle |
| Logging, task broker, CLI | none the rest reads | - | - |

What is hard in this code, and what would be right:

* **KYC.** `_decide` and the other operations read the row without a lock, judge the copy and issue an
  `UPDATE ... WHERE id` (`modules/tools/kyc/service.py:105-133`). Correct means: nobody decides a case
  they hold, a decision is final and is taken on a case in review, the audit trail of a case is a chain
  that ends at the row, and the buttons offered are the ones that would work.
* **Intake.** A click buys a paid session at an external API. Correct means: one session at most per
  request whatever is clicked, answered late, lost or killed; a failed request can be tried again and an
  ambiguous one cannot; the daily limit holds under concurrent submissions; no claim is left behind by a
  live worker; every click is answered.
* **Flags.** Two writers with different disciplines share the rows. Correct means: the trail replays to
  the table, keys are unique, no toggle is lost, a rollout of n percent is on for n percent and raising it
  takes the flag away from nobody.
* **Roles and sign-in.** Permissions are read again on every request, in queries of their own; a revoked role, a deleted
  account or a session that ended must stop working at the next request. Session, audit event and cookie are three steps, any
  of which may be the last: nobody may be signed in without a record, and what is recorded as signed out must be over.
* **API keys.** Validation is several queries; a revocation, an owner's deletion or a permission change can
  fall between them. A specific denial must beat a wildcard grant. Issuing a key takes two commits.
* **Rate limiter.** No window may admit more than its limit, whatever overlaps and however often a command is
  repeated; nobody is refused before the limit is used up; an override of the policy for errors ends with the call that made it.
* **Cache.** An entry may be out of date only for reasons that can be named, a write deletes everything it says it
  deletes, and nothing stays out of date.
* **Users and tiers.** Existence checks precede inserts, updates and deletes; the unique and foreign keys of the
  tables decide races. What was deleted or anonymized must not come back, and a tier in use must not go.
* **Deployment.** The same file is read by the validator, the preflight and the clients, each in its own way; a schema is
  reached by migrations or by `create_all`; a roll-out is a job and a container, and either may die. Correct means: what serves
  finds its tables and the roles of its release, nothing the validator forbids is in use, a preflight without problems is a
  worker that starts, a start-up that fails leaves nothing open, and a worker that can come back does.

`PROJECT.json` lists every component with its status, and every hazard at the line where it bites.

## 2. Plan

Order of work, most important behaviour first. Modules marked (done) exist.

1. `KycCase`, `KycReview`, `KycRequests`, `KycProofs` (done): rules, atomic queue, served queue, proofs.
2. `PaidSession`, `Quota`, `IntakeDispatch`, `IntakeProofs` (done): the one-session promise, a limit as such, the intake, proofs.
3. `FeatureFlags`, `FlagsProofs` (done): service, back office, evaluation, proofs.
4. `RateLimiter` (done): windows, both backends, lost answers, the policy override, the quota.
5. `ApiKeys`, `KeysProofs` (done): the life of a key, validation in its steps, issuing in two commits, proofs.
6. `UserAccounts`, `AccountsProofs` (done): registration, changes, both ends of an account, back-office forms,
   tiers, the superuser script, proofs.
7. `CacheAside` (done): reads and writes around two backends, scans, failures, expiry. `BackendProofs` (done) has the proofs
   about the two components on Redis or memcached.
8. `SignIn`, `SignInProofs` (done): signing in by form, API, provider and to the back office, signing out, the gates of
   pages and back office next to changes of roles and ends of accounts, proofs.
9. `Configuration`, `Surface`, `Release` (done): an env file as settings, validator and preflight see it; the middleware; what a
   checkout ships. `Deployment` (done) composes the three: the host, the migration job, the workers and their lifespan, failures.
10. `KeyUsage`: the usage log and the analytics over its first hundred records.
11. The audit of grants: roles changed by overlapping runs of `modules/platform/service.py`, the events they leave.
12. `DeploymentProofs` (done): every safety property of the deployment, for any files and releases.

Abstract specifications: the atomic review queue (`KycReview`), the one-session promise (`PaidSession`) and the quota (`Quota`),
which the limiter and the daily limit of the intake both implement, exist; a register that a write makes fresh would be worth
stating for the cache. Proofs still to write: the cache against such a register, and the two modules of the plan above once they exist.

## 3. How the models relate to the code

One process is one HTTP request. A step is what happens between two points at which the coroutine awaits
the database or the network and another request can change what this one relies on; everything a handler
does between such points (guards, writes, audit, commit) is one action. A transaction's writes become
visible at its commit, so write, audit row and commit are one action wherever the code has no other await on
shared state between them, and a crash or an error before the commit is an action (`Abort`, `Crash`) that
rolls back and releases the locks. Texts, times and ids are abstracted to what the properties tell apart.

**KYC.** `KycCase` holds the vocabulary (rows, guards, writes, audit events, buttons) and no state.
`KycReview` is the abstract queue: an operation judges the row it changes in the same step. `KycRequests` is
the queue as served: `Arrive` (permissions resolved, page gate, reason), `ReadCase` (plain SELECT and the
guards on that copy), `Apply` (UPDATE by id, audit of what was read, commit), `Abort`, and `ChangeRole` next to
them. Requests overlap as they may in the deployment; a commit on a row that is not the one read is a `StaleWrite`.

**Intake.** `IntakeDispatch` has one action per step of `submit_request` (`Submit`, `TakeSubmitLock`,
`CountToday`, `Insert`) and `dispatch_request` (`TakeRowLock`, `CheckRow`, `Claim`, `Call`, `Record`), with
`Retry` for the second click, `Crash` at any point, `ChangeKey` for the API key and `DayPasses` for the
24-hour window. `Call` is the external API: an answer below 500 made no session, a readable 2xx made one, and
anything else did either. `PaidSession` is the promise: at most one session per request; `KeepsPromise` is the
refinement, with "claimed" mapped to the requests whose status offers no retry. `Quota` is a limit as such: an account spends while
fewer uses than the limit stand on it, each use on one account. `KeepsDailyLimit` maps the requests of a requester's day to
what stands on the requester's account; an insert spends and a day that passes forgets.

**Flags.** `FeatureFlags` has the service (`Request`, `CheckKey`, `InsertFlag`, `LockFlag`, `WriteFlag`), the
back office (`OpenFlag`, `SaveFlag`, `DeleteFlag`, `AuditBackOffice`: SQLAdmin commits first and the audit
follows in a transaction of its own) and `Crash`. `Evaluate` is the rollout; the hash of flag key and subject
is a bucket, so a property over all buckets is one over all subjects. The constant `BackOffice` says
whether the back office is used.

**Rate limiter.** `RateLimiter` is one caller's requests on one path. `Check` stamps the window, and the
policy a call asks for is put into the one field all calls share, as the provider does. On Redis `Increment` is INCR and
EXPIRE in one transaction, sent again by `Resend` while the answer is out and the client's `Patience` lasts;
on memcached `ReadCounter` and `WriteCounter` are two commands. `Answer` compares, `Fail` asks the policy; a counter
whose time is over counts as none (`Current`). `backend` is chosen once; the properties about Redis say so. `KeepsQuota` maps each
window to an account of `Quota` on which the requests stand that were let in while it lasted; none is forgotten (`PeriodSpec`).

**API keys.** `ApiKeys` validates in the queries the service makes: `FindKey`, `CheckOwner`, `QueryPermission` once
per cell from the most specific row to the most general, `Touch`. Owners create, change and deactivate (`Ask`,
`AskAbout`, `CheckAccess`, `UpdateKey`), the seed issues in two commits (`CheckName`, `MintKey`, `Grant`), keys expire and
owners go. `throughout` is history only: what has stood against a presented key since it was presented, defined by
`Allowed`, a definition of its own.

**Accounts.** `UserAccounts` has the checks of every request as steps (`CheckEmail`, `CheckName`, `CheckTier`,
`CheckUsers`, `CheckLimits`), the statements that write by id (`Insert`, `Write`, `SaveUser`, `Drop`), and `Fits`, the unique
indexes and the foreign key that make such a statement fail. `me` is the session's user as it was authenticated, `seen` the row
as it was read. `password` says whether the hash is one that can match, `link` is the identity at a provider; an update and a form
may set the link, and an erasure clears both. The back office loads a row and saves the columns in which the form differs from it. The
script commits twice (`Insert`, `Promote`). The name of an anonymized account is stood for by its id; user names may
be spelled like that (`modules/user/constants.py`), so anybody may have taken it before.

**Cache.** `CacheAside` has the decorator's calls (`Get`, `Call`, `Set`; `Commit`, `DeleteOwn`, `DeleteExtra`, `Match`), the
pages of a SCAN (`Scan`, `DeletePage`: a key that is there throughout is in some page, any other may be), a backend that
fails at any call, and entries that expire. An entry remembers whether a write overtook the read that stored it or a write
passed it over, which is what the property about stale entries tells apart.

**Sign-in.** In `SignIn` a request `Arrive`s with the cookies of its browser and carries its own copy of what it has read.
Pages pass `Validate` (the session in Redis), `Load` (the account) and `Resolve` (the permissions); the back office passes
`LoadAdmin`, `Refresh` and `View`, on the copy of its session that came in the cookie and goes back with `Answer`. A sign-in is
`Authenticate`, `Open`, `Record` and `Answer`; the one through the provider is two requests around a state (`StartConsent`, then
`Return`, `Exchange` and `DropState`), the back office's is `Authenticate` and `Permit`, or `Match` for the configured pair.
Signing out is `Revoke`, `RecordLogout`, `Answer`, or `Leave`. `Regrant`, `SetSuper`, `DeleteAccount`, `Expire`, `Forget` and `Crash` happen at
any time. The password library is external: whether a password is right is open, for deleted accounts as well, so the model
allows more than the code. `throughout` is history, as in `ApiKeys`; `glass` remembers who signed in with the configured pair.

**Deployment.** `Configuration` is pure: a record of settings as the env file has them, what they make of passwords and URLs
(`DatabasePassword`, `SessionRedis`, `BrokerRedis`), `CriticalIssues`, `Warnings` and `ConfigProblems`. A secret is the set of its
flaws and a password one of the classes the checks tell apart, so the patterns they match are not spelled out. `Surface` is the
middleware as a function of the settings and a request: how far in it reaches and what its answer carries. `Release` is what a
checkout ships: the six revisions with the tables and enum labels they make, the models, the tools with their permissions, the grants.
In `Deployment` one operator (`EditEnv`, `Build`, `Up`, `Exec`) acts on the host. `Up` recreates what differs (`Create`), waits for the job and
the servers (`Start`, or `GiveUp`); the job is `Upgrade`, one transaction, and `SyncRole`, a commit per role, or `SyncFails`. A worker
goes through `Boot` (the validator), `OpenDatabase` (`create_all` if asked), `OpenCache`, `OpenLimiter`, `OpenAuth`, serves, and is taken down
by `Unwind`, closer by closer; `Query` is the first connection of the pool. Postgres, Redis, the job and the workers fail once at any point and come
back as their restart policy has it. `HandEdit` is the back office adding to a role. `mode` tells the stack of the runbook from the one of the
quick start, where nothing waits for the migration and nothing is restarted.

## 4. What the runs check

All runs are exhaustive over their bounds. Processes are used once (they model requests, and each request is
over after its answer), so every run may stop and deadlock checking is off; that nobody is stuck is checked
by the liveness run instead.

| Run | Bounds | Shows |
|---|---|---|
| `kyc_overlapping` | 2 users, 1 case, 3 requests, all roles, all seeded rows | what overlap cannot break: holders match states, the trail ends at the row, every decision was made on a case seen in review and held by somebody else, buttons match the service, change and audit land together; every other step than a stale write is one of `ReviewSpec`, and only a stale write on a case breaks its maker/checker separation, its audit chain or the finality of its decision |
| `kyc_maker_checker` | same | a counterexample, see Findings |
| `intake` | 1 user, 3 tickets, 2 requests, limit 1 | refinement of `PaidSession` (one session at most) and of `Quota` (the daily limit), row and payment agree, no lock is held while Devin is asked, every click answered, a claim settled unless a worker dies or a human has to look |
| `flags` | 2 ids, 2 keys, 2 requests, scale 3, back office | unique keys, exact and sticky rollouts, exact audit of the service's own changes |
| `rate` | 3 requests, limit 1, period 2, time 0..4, both backends, one repeat | refinement of `Quota` and bounded stragglers on Redis; earned refusals on both |
| `rate_override` | 2 requests, 2 policies, Redis | an override of the policy outlives the calls, see Findings |
| `keys` | 1 key, 2 users, 1 name, 2 requests, at most two permission rows in any cells | what stands against a key all along refuses it, a deactivated key stays so, an issued key has its one permission |
| `accounts` | 3 ids, 2 names, 2 addresses, 1 provider identity, 1 tier, 3 requests of every kind | unique people, tiers in use stay, gone stays gone |
| `accounts_updated_late` | same, 2 requests: changes and ends of an account | a late change is written onto a deleted account, see Findings |
| `cache` | 2 keys, 3 requests, both backends, every way to name keys | a stale entry has a named reason; none stays stale |
| `signin` | 1 user, 1 browser, 3 requests of which one signs in, 2 permissions held or not | nothing served that was forbidden all along, no sign-in without its record, a recorded sign-out is final |
| `deployment` | 22 env files, 4 releases, 3 roles, 1 worker; 1 checkout built, 1 edit of the file, 1 failure | what serves fits its schema, has the roles of its release and is guarded as production asks; what a clean preflight is enough for, port by port; a roll-out stops for five reasons only; a failed start-up leaves nothing open; a worker that can serve does in the end |

Why the bounds are enough. A race on a row needs two requests, and a third to reset the state in between (release and
claim between a read and a decision), so there are three on one row where states can be reset, and two where a row only
moves forward. Cases do not interact; tickets do through the daily limit, which is 1 with more tickets than that.
Two users tell the holder or owner from somebody else. A rollout scale of 3 has an empty, two partial and a full rollout and the
first and last bucket. Two periods of two ticks have a window's first and last moment, its successor, and the time after a
counter expired. A key with up to two permission rows has every pair of a specific and a general verdict, which is all the
fallback compares at a time. Three accounts let two requests and the superuser collide on names and addresses. Of a browser's three requests one signs in and the
other two can use, overtake and end what it opened; the requests of `signin` are those by form, those through the provider or those of the
back office, for pages and back office share no session and meet in the accounts alone, which change at any time. A second browser would
share only accounts with the first. The files of `deployment` are the one of the runbook, the one of the quick start, and each
slip the validator, the preflight or a client could judge differently (an edit makes a slip or mends it, in a file of the same kind); the
releases are before and after a tool with a migration, one whose seeded role names an unknown permission, and one with a tool that cannot be
imported, so one build rolls out, back, or into each error. Workers share nothing but the container, so one is enough; `MaxEdits`, `MaxBuilds`
and `MaxFaults` bound what happens to it to one each, in any order and at any step. Values are
symmetric where no expression tells them apart; runs with a liveness property use no symmetry.

Fairness. `intake` assumes `WF_vars(Step(p))` for every request: an asyncio loop resumes a coroutine whose await is done,
Postgres grants a lock once its holder has ended its transaction, and the HTTP client to Devin has a timeout
(`modules/tools/intake/devin.py:56`). Nothing forces a user to click, a key to be configured, or a crash to happen or not. `cache`
assumes `WF_vars(Expire(k))`: every entry is stored with a time to live (`infrastructure/cache/decorator.py:98`), and the finitely
many requests do not renew it for ever. `deployment` assumes it for what runs by itself: compose, the job, a worker's lifespan,
and the returns of Postgres and Redis, which `restart: unless-stopped` of the production stack brings back (`RestartPolicy`; in the
stack of the quick start they stay away, and `ComesBack` is about production). The operator, the failures and a first query are forced by nothing. No other run assumes any.

## 5. What is proved

tlapm proves the following for any number of users, rows, requests, keys and any limits; the requests asked may be any set.

* `KycProofs`. `TypeCorrect`; `OverlapSafety`, the invariants of the overlapping queue, from
  `AcceptedOnWhatWasSeen` (an accepted request's guards hold of the row it *saw*, which is all that overlap leaves
  true); `AuditIsAtomic`; `ReviewSafety` and `ReviewFinality` of the atomic queue, from what an operation of it keeps
  (`TransitionKeepsTheRules`). `ServedQueueIsAtomicUnlessStale`: a commit on the row that was read is a step of the atomic queue,
  which needs `NeededIsHeld` beside `AcceptedOnWhatWasSeen`; with the lemma it gives `RulesBreakOnlyByStaleWrites`. Neither assumes that
  requests keep apart: the step that overlap makes wrong is named in the statement. `ButtonsAlwaysMatch`, by cases over the operations.
* `IntakeProofs`. `IntakeSafety`, `PaidAtMostOnce` among it: the inductive invariant says who has claimed a request (one process between
  its claim and its record, nobody else past `CheckRow` with it), what was paid when, and that the status read under
  the row lock is still the status; none of the three safety invariants is inductive without it.
  `IntakeImplementsPromise` maps each step to `Take`, `Buy`, `GiveBack` or a stutter. `DailyLimitHolds` adds that the count
  taken under the advisory lock still bounds the table until the insert; with it `IntakeImplementsQuota` maps each insert to `Spend`,
  each day that passes to `Forget`, and everything else to a stutter. `DevinHoldsNobodyUp`, from the places at which the invariant has a lock held.
* `FlagsProofs`. `FlagsSafety`, `ServiceAuditsExactly` (from `ReadIsFresh`: between lock and write the row is the one
  read, whether or not the back office is at work), `TrailAlwaysReplays` under the assumption `~BackOffice`,
  `RolloutsAreExact`, `RolloutsAreSticky`.
* `BackendProofs`, the limiter. `QuotaIsKept`: a counter outlives every count in it by a period, so counts made within a period of
  the window's start are all different and the admitted ones map one to one into 1..Limit. `LimiterImplementsQuota`: an answer that admits is a `Spend` on its window, for the quota
  that holds after it leaves room before it, and nothing else moves anybody. `StragglersAreFew` needs that a client gives up
  within a period (`Patience <= Period`), or a late count could find the counter gone twice. `RefusalsHold`, on either
  backend: by `TallyInv`, as long as no command of a window was repeated its counter, and every count taken from it, is at most the number of
  requests counted there; overlapping reads and writes only lose counts, and an expired counter only forgets.
* `KeysProofs`. `RevocationHolds`: at each place of the validation, what was checked there cannot have stood against the
  key all along; a grant only adds "allow" in the exact cell, which never forbids. `RevocationStays`. `IssuedHolds`: no two seeds
  have the same new key, so nobody else grants on it.
* `AccountsProofs`. One lemma carries all: every step writes at most one row, and that row either passed the indexes and
  the foreign key or keeps the columns they look at, and brings nothing back. From it `PeopleStayUnique`,
  `TiersAlwaysHold` and `GoneIsForever`; the invariant says at which place a request has a row and an id.
* `BackendProofs`, the cache. `StaleHasReasons`: what a write still has to delete shrinks only by what is deleted; the invariant says
  that a page is deleted before the next is asked for and that the last page leaves nothing owed.
* `SignInProofs`. `AccessHolds`: at each place of the gate, what was passed cannot have stood against the request since it came.
  `EntriesHold`: a session with a user was opened by its own request, which alone records it and has not answered before it did.
  `LogoutHolds`: a cookie names only sessions that are on record, and a request opens nothing once its record is written.
* `DeploymentProofs`: all seven safety properties of `Deployment`, for any workers, any env files, any releases with any grants and any
  number of builds, edits and failures. About the pure modules: an upgrade in two steps is one of the whole way, from a schema that migrations
  made every later revision can be reached, and on it the models of a checkout fit and `create_all` finds nothing to do (`CheckoutFits`,
  `NothingToCreate`); every answer is guarded whatever the settings (`AlwaysGuarded`), and what the validator passes is hardened (`PassedIsHardened`). The
  inductive invariant, `DeploymentInv`, has a part per argument: while "up" goes on nothing on the host changes under it, and a worker past
  the validator has settings it let through (`HostInv`); the schema is never behind the release that runs (`SchemaInv`), without which `create_all`
  could change it; a failed job had a reason while nothing failed (`FailsForAReason`); the roles before the next one are as the image has
  them (`RolesSynced`); and from its first step on the closer of the database is on the stack, before the pool opens a connection
  (`ExitStacks`). `RedeployHolds` adds that a deploy done again changes nothing.

Assumptions are the named ASSUMEs of the modules (distinct "nobody" values, positive limits, a positive scale, files that are settings and
releases that are checkouts: since the label of the type was mended, with the tool of requests only where its migration is) and, where
named above, `~BackOffice` and `Patience <= Period`. `TrailAlwaysReplays` is proved and has no run, for the
runs use the back office; `PaidAtMostOnce` and `DecisionIsSigned` have none of their own, the first because `KeepsPromise` says it;
`DailyLimitHolds` and `QuotaIsKept` state as invariants what the runs check as refinements of `Quota`. The type invariants of the modules
with proofs are theorems, or conjuncts of the safety theorems, and no run repeats them. Only model-checked: liveness under fairness (`EveryRequestEnds`, `ClaimIsSettled`, `StaleEnds`,
`ComesBack`), which is out of the prover's reach; every other property of a passing run is a theorem. No theorem is about what a
recursive definition computes for every input: the provers cannot instantiate an induction principle, and the models have no such definition.

## 6. Findings

Shown by a run:

* **A reviewer can sign off their own work** (`kyc_maker_checker`, against `src/ARCHITECTURE.md:87-88`). Two overlapping requests
  that both pass their guards overwrite each other, and a case ends up approved by its own assignee: two claims on a pending case, with
  the second claimer's decision read between their commits. A `SELECT ... FOR UPDATE`, as flags and intake have it, would leave no
  stale write, and without one every step is the atomic queue's, which never does this (`ReviewSafety`).
* **An override of the rate limiter's policy can outlive its call** (`rate_override`, against `infrastructure/rate_limit/provider.py:272`
  and the test at `src/backend/tests/unit/infrastructure/rate_limit/test_fail_open_provider.py:107`). A call that finds the override of another in force puts that back when it ends. It takes a
  caller that asks for another policy than the configured one, and no caller in the sources does.
* **A late change is written onto a deleted account** (`accounts_updated_late`, against `modules/user/service.py:247`), and puts
  personal data back on an anonymized one, the `google_id` or `github_id` that was cleared among it (`modules/user/schemas.py:124`). A form of the back
  office that was loaded before does the same (`interfaces/admin/views/users.py:45`). What remains true is `GoneIsForever`: the account
  stays deleted, which keeps everybody out of it, and without a usable password.

Met while modelling, without a run of their own:

* The configured pair can have a user (against `src/SECURITY.md:38-39`): a browser that is signed in to the
  back office as somebody and signs in with the pair keeps the `user_id` (`interfaces/admin/auth.py:48`), and what is done with the
  pair is audited as that user's, and passes as that user's permissions allow. `Match` in `SignIn` has it so.
* An ambiguous dispatch is not retryable, which the code means; the docstring at `modules/tools/intake/service.py:75` promises
  a retry for every failed call.
* Memcached reads a counter and writes it back, so two overlapping requests share one count and both pass a limit of one
  (`infrastructure/rate_limit/backends/memcached.py:83`); `infrastructure/rate_limit/base.py:20` asks for an atomic count.
* The back office keeps its session in the cookie: an answer on its way while the browser signs out brings it back
  (`interfaces/admin/auth.py:97`). Every request still passes the gate.
* Two revocations of one grant that overlap are both audited (`modules/platform/service.py:174`), though one of them removed nothing;
  nothing in the sources calls `revoke_role`.
* Under the same overlap a KYC case is decided twice (`modules/tools/kyc/service.py:211`) and audited with a before that was no
  longer true (`modules/platform/audit.py:46`).
* The back office writes flags without the lock the service takes, so a toggle next to it is undone, and a crash after its
  commit leaves no audit (`modules/tools/flags/service.py:77`; `src/SECURITY.md:53` accepts the audit part).
* `reset` deletes a key under which nothing is counted (`infrastructure/rate_limit/backends/redis.py:131`).
* Two seeds that overlap issue a key of the same name twice, and a deactivated key keeps its name for ever
  (`modules/tools/flags/seed.py:95`).
* A superuser script that dies between its commits leaves a user it will not promote on the next run, for the existing user ends it
  (`scripts/create_first_superuser.py`, outside the paths above: `src/backend/scripts`).
* Anonymizing fails with an error if the name it makes up is taken, which the alphabet of user names allows.
* The cache's interface says a `get` that cannot connect returns nothing (`infrastructure/cache/base.py`), and both backends
  let the error through; results that are empty are stored and never count as hits.
* `src/DEPLOY.md:122` rolls code back by checking out the previous tag and repeating the upgrade steps. If a migration came in between, the
  older checkout cannot locate the database's revision: the job fails and the API, whose old container is gone by then, stays created. It is the
  third of the five reasons of `RolloutStarts`.
* What is granted to a seeded role by hand is gone at the next sync (`SyncedRole`), while `src/DEPLOY.md:116-118` has roles edited in the back
  office; and `src/DEPLOY.md:91` calls `toolsadmin` what the sources call `admin`.
* `DATABASE_URL` and the broker's URL are put together with the password unquoted, the session URL quotes it: a password with characters of a
  URL works for sessions and not for the rest, and the preflight says nothing of the broker's.
* The stacks set the hosts of the three Redis clients and not their ports, and their Redis listens at the standard one. A
  `RATE_LIMITER_REDIS_PORT` or `TASKIQ_REDIS_PORT` that differs makes another server of it for the preflight
  (`infrastructure/deploy/preflight.py:51-66`), which then compares no password and pings for sessions only: it reports nothing, and the client
  reaches nothing. `PreflightIsEnough` says exactly which clients a clean preflight vouches for; it would vouch for all if it pinged them.
* The broker's Redis is not among those the validator warns about; `PRODUCTION_SECURITY_STRICT_MODE` is read by nothing; a backend whose name is
  misspelt is registered nowhere and reported by nobody (`Opened`).

## 7. Not modelled

See the components with status `not_modelled` or `partly` in `PROJECT.json`. Logging, the task broker (no task is registered with it)
and the command line, which copies templates, hold no state the rest reads. Of the deployment, the proxy of the nginx stack, the broker's
worker and downgrades by hand are left out, and of the life cycle the routers, exception handlers, compression, the request id and a closer that fails half
way. Left out of the modelled components: operations nothing calls (permanent deletion of a user, creating tiers and limits, `get_count`, the
limiter's reset), a key's usage log and its analytics, how cache keys are spelled and stored values converted, and which limit a path has. Hazards without a property have a
note in `PROJECT.json` that says why. External code (SQLAdmin, FastCRUD, crudauth, Postgres,
Redis, memcached, compose, Alembic, the Devin API) is modelled from how the code uses it and marked external in the map.
