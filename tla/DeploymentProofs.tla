--------------------------- MODULE DeploymentProofs ---------------------------
(***************************************************************************)
(* Proofs about the deployment, for any number of workers, any env files   *)
(* and any checkouts, and any number of builds, edits and failures.        *)
(***************************************************************************)
EXTENDS Deployment, SequenceTheorems, TLAPS

-----------------------------------------------------------------------------
(* The migrations *)

\* What is in the list of revisions, place by place.
LEMMA SixRevisions ==
    /\ Len(Revisions) = 6
    /\ Revisions[1] = InitialSchema /\ Revisions[2] = KycTables /\ Revisions[3] = FlagTable
    /\ Revisions[4] = FlagResource /\ Revisions[5] = FlagMember /\ Revisions[6] = RequestTable
BY DEF Revisions

\* The steps of an upgrade are those of its parts.
LEMMA CreatedInParts ==
    ASSUME NEW a \in Nat, NEW b \in Nat, NEW c \in Nat, a <= b, b <= c
    PROVE  CreatedBetween(a, c) = CreatedBetween(a, b) \cup CreatedBetween(b, c)
<1>1. (a + 1)..c = ((a + 1)..b) \cup ((b + 1)..c)
  OBVIOUS
<1>. QED
  BY <1>1 DEF CreatedBetween

\* One more revision makes one more set of tables.
LEMMA CreatedStep ==
    ASSUME NEW i \in Nat \ {0}
    PROVE  CreatedBetween(0, i) = CreatedBetween(0, i - 1) \cup Revisions[i].creates
<1>1. (0 + 1)..i = (0 + 1)..(i - 1) \cup {i}
  OBVIOUS
<1>. QED
  BY <1>1 DEF CreatedBetween

\* The schema that migrations make of an empty database, field by field.
LEMMA SchemaOf ==
    ASSUME NEW h \in Nat
    PROVE  /\ SchemaAt(h).version = h
           /\ SchemaAt(h).tables = CreatedBetween(0, h)
           /\ SchemaAt(h).labels = UNION {Revisions[i].labels : i \in 1..h}
           /\ SchemaAt(h) = [version |-> h, tables |-> CreatedBetween(0, h),
                             labels |-> UNION {Revisions[i].labels : i \in 1..h}]
BY DEF SchemaAt, Upgraded, Empty

\* An upgrade in two steps is one of the whole way.
LEMMA UpgradeContinues ==
    ASSUME NEW v \in Nat, NEW h \in Nat, v <= h
    PROVE  Upgraded(SchemaAt(v), h) = SchemaAt(h)
<1>1. CreatedBetween(0, h) = CreatedBetween(0, v) \cup CreatedBetween(v, h)
  BY CreatedInParts
<1>2. 1..h = (1..v) \cup ((v + 1)..h)
  OBVIOUS
<1>3. UNION {Revisions[i].labels : i \in 1..h}
        = (UNION {Revisions[i].labels : i \in 1..v}) \cup (UNION {Revisions[i].labels : i \in (v + 1)..h})
  BY <1>2
<1>. QED
  BY <1>1, <1>3, SchemaOf DEF Upgraded

\* A revision makes tables that none before it makes, and refers to those that are there.
LEMMA RevisionsFollow ==
    ASSUME NEW i \in 1..6
    PROVE  /\ Revisions[i].creates \cap CreatedBetween(0, i - 1) = {}
           /\ Revisions[i].refers \subseteq CreatedBetween(0, i - 1) \cup Revisions[i].creates
<1>. DEFINE T(n) == CreatedBetween(0, n)
<1>1. T(0) = {}
  BY DEF CreatedBetween
<1>2. T(1) = T(0) \cup InitialSchema.creates
  BY CreatedStep, SixRevisions
<1>3. T(2) = T(1) \cup KycTables.creates
  BY CreatedStep, SixRevisions
<1>4. T(3) = T(2) \cup FlagTable.creates
  BY CreatedStep, SixRevisions
<1>5. T(4) = T(3) \cup FlagResource.creates
  BY CreatedStep, SixRevisions
<1>6. T(5) = T(4) \cup FlagMember.creates
  BY CreatedStep, SixRevisions
<1>. HIDE DEF T
<1>7. FlagResource.creates = {} /\ FlagMember.creates = {}
  BY DEF FlagResource, FlagMember
<1>8. /\ Revisions[i].creates \cap T(i - 1) = {}
      /\ Revisions[i].refers \subseteq T(i - 1) \cup Revisions[i].creates
  <2>1. CASE i = 1
    BY <2>1, <1>1, SixRevisions DEF InitialSchema
  <2>2. CASE i = 2
    BY <2>2, <1>1, <1>2, SixRevisions DEF InitialSchema, KycTables
  <2>3. CASE i = 3
    BY <2>3, <1>1, <1>2, <1>3, SixRevisions DEF InitialSchema, KycTables, FlagTable
  <2>4. CASE i = 4
    BY <2>4, <1>1, <1>2, <1>3, <1>4, SixRevisions DEF InitialSchema, FlagResource
  <2>5. CASE i = 5
    BY <2>5, <1>1, <1>2, <1>3, <1>4, <1>5, SixRevisions DEF InitialSchema, FlagMember
  <2>6. CASE i = 6
    BY <2>6, <1>1, <1>2, <1>3, <1>4, <1>5, <1>6, <1>7, SixRevisions
       DEF InitialSchema, KycTables, FlagTable, RequestTable
  <2>. QED
    BY <2>1, <2>2, <2>3, <2>4, <2>5, <2>6
<1>. QED
  BY <1>8 DEF T

\* From a schema that migrations made, every later revision can be reached.
LEMMA UpgradesApply ==
    ASSUME NEW v \in Nat, NEW h \in 0..6, v <= h
    PROVE  CanUpgrade(SchemaAt(v), h)
<1>. SUFFICES ASSUME NEW i \in (v + 1)..h
     PROVE  LET before == SchemaAt(v).tables \cup CreatedBetween(v, i - 1)
            IN  /\ Revisions[i].creates \cap before = {}
                /\ Revisions[i].refers \subseteq before \cup Revisions[i].creates
  BY SchemaOf DEF CanUpgrade
<1>1. i \in 1..6 /\ i - 1 \in Nat /\ v <= i - 1
  OBVIOUS
<1>2. SchemaAt(v).tables \cup CreatedBetween(v, i - 1) = CreatedBetween(0, i - 1)
  BY <1>1, SchemaOf, CreatedInParts
<1>. QED
  BY <1>1, <1>2, RevisionsFollow

\* What a checkout ships takes its models to the end of its migrations, and everything
\* that comes after keeps it there.
LEMMA CheckoutFits ==
    ASSUME NEW r \in Checkout, NEW h \in Nat, r.head <= h
    PROVE  Fits(SchemaAt(h), r)
<1>1. r.head \in 5..6 /\ r.tools \subseteq {"kyc", "flags", "intake"} /\ ("intake" \in r.tools => r.head = 6)
  BY SixRevisions DEF Checkout, ToolTables
<1>. DEFINE T == SchemaAt(h).tables
<1>2. ASSUME NEW i \in 1..6, i <= h PROVE Revisions[i].creates \subseteq T
  <2>1. i \in (0 + 1)..h
    BY <1>2
  <2>. QED
    BY <2>1, SchemaOf DEF CreatedBetween
<1>3. PlatformTables \subseteq T
  <2>1. PlatformTables \subseteq InitialSchema.creates
    BY DEF PlatformTables, InitialSchema
  <2>2. InitialSchema.creates \subseteq T
    BY <1>1, <1>2, SixRevisions
  <2>. QED
    BY <2>1, <2>2
<1>4. ASSUME NEW t \in r.tools PROVE ToolTables[t] \subseteq T
  <2>1. CASE t = "kyc"
    <3>1. ToolTables[t] \subseteq KycTables.creates
      BY <2>1 DEF ToolTables, KycTables
    <3>2. KycTables.creates \subseteq T
      BY <1>1, <1>2, SixRevisions
    <3>. QED
      BY <3>1, <3>2
  <2>2. CASE t = "flags"
    <3>1. ToolTables[t] \subseteq FlagTable.creates
      BY <2>2 DEF ToolTables, FlagTable
    <3>2. FlagTable.creates \subseteq T
      BY <1>1, <1>2, SixRevisions
    <3>. QED
      BY <3>1, <3>2
  <2>3. CASE t = "intake"
    <3>1. ToolTables[t] \subseteq RequestTable.creates
      BY <2>3 DEF ToolTables, RequestTable
    <3>2. RequestTable.creates \subseteq T
      BY <2>3, <1>1, <1>2, SixRevisions
    <3>. QED
      BY <3>1, <3>2
  <2>. QED
    BY <1>1, <2>1, <2>2, <2>3
<1>5. ModelTables(r) \subseteq T
  BY <1>3, <1>4 DEF ModelTables
<1>6. Resources \subseteq SchemaAt(h).labels
  <2>1. 1 \in 1..h /\ 5 \in 1..h
    BY <1>1
  <2>2. Revisions[1].labels \subseteq SchemaAt(h).labels /\ Revisions[5].labels \subseteq SchemaAt(h).labels
    BY <2>1, SchemaOf
  <2>3. Revisions[1].labels = FirstLabels /\ Revisions[5].labels = {"FEATURE_FLAGS"}
    BY SixRevisions DEF InitialSchema, FlagMember
  <2>. QED
    BY <2>2, <2>3 DEF Resources
<1>. QED
  BY <1>5, <1>6 DEF Fits

\* The table with the type of labels is made by the first revision alone.
LEMMA KeysComeFirst == \A i \in 1..6 : "key_permissions" \in Revisions[i].creates => i = 1
BY SixRevisions DEF InitialSchema, KycTables, FlagTable, FlagResource, FlagMember, RequestTable

\* The labels of the type are complete as soon as there is the type, whichever way it came.
LabelsAreComplete(schema) == "key_permissions" \in schema.tables => Resources \subseteq schema.labels

\* An upgrade that makes the table of the type goes on to the revision that mends its labels.
LEMMA UpgradeCompletes ==
    ASSUME NEW schema, schema.version \in Nat, NEW r \in Checkout, LabelsAreComplete(schema)
    PROVE  LabelsAreComplete(Upgraded(schema, r.head))
<1>. DEFINE v == schema.version
            h == r.head
            new == Upgraded(schema, h)
<1>0. h \in 5..6
  BY SixRevisions DEF Checkout
<1>1. /\ new.tables = schema.tables \cup CreatedBetween(v, h)
      /\ new.labels = schema.labels \cup UNION {Revisions[i].labels : i \in (v + 1)..h}
  BY DEF Upgraded
<1>. SUFFICES ASSUME "key_permissions" \in new.tables PROVE Resources \subseteq new.labels
  BY DEF LabelsAreComplete
<1>2. CASE "key_permissions" \in schema.tables
  BY <1>1, <1>2 DEF LabelsAreComplete
<1>3. CASE "key_permissions" \in CreatedBetween(v, h)
  <2>1. PICK i \in (v + 1)..h : "key_permissions" \in Revisions[i].creates
    BY <1>3 DEF CreatedBetween
  <2>2. v = 0
    BY <1>0, <2>1, KeysComeFirst
  <2>3. 1 \in (v + 1)..h /\ 5 \in (v + 1)..h
    BY <1>0, <2>2
  <2>4. Revisions[1].labels \subseteq new.labels /\ Revisions[5].labels \subseteq new.labels
    BY <1>1, <2>3
  <2>5. Revisions[1].labels = FirstLabels /\ Revisions[5].labels = {"FEATURE_FLAGS"}
    BY SixRevisions DEF InitialSchema, FlagMember
  <2>. QED
    BY <2>4, <2>5 DEF Resources
<1>. QED
  BY <1>1, <1>2, <1>3

\* create_all has nothing to do where the migrations have been.
LEMMA NothingToCreate ==
    ASSUME NEW r \in Checkout, NEW h \in Nat, r.head <= h
    PROVE  CreatedAll(SchemaAt(h), r) = SchemaAt(h)
<1>1. Fits(SchemaAt(h), r)
  BY CheckoutFits
<1>2. ModelTables(r) \subseteq SchemaAt(h).tables
  BY <1>1 DEF Fits
<1>3. "key_permissions" \in SchemaAt(h).tables
  BY <1>2 DEF ModelTables, PlatformTables
<1>4. SchemaAt(h).tables \cup ModelTables(r) = SchemaAt(h).tables
  BY <1>2
<1>. QED
  BY <1>3, <1>4, SchemaOf DEF CreatedAll

-----------------------------------------------------------------------------
(* The settings *)

Containers == {Container(e) : e \in EnvFiles}

\* The environment of a service changes the Redis of three clients, and nothing else.
LEMMA ContainerOf ==
    ASSUME NEW e \in Settings
    PROVE  /\ Container(e) \in Settings
           /\ Container(e).cache.host = "redis" /\ Container(e).limiter.host = "redis"
           /\ Container(e).taskiq.host = "redis"
           /\ Container(e).cache.password = e.cache.password
           /\ Container(e).sessionUrl = e.sessionUrl
           /\ Container(e).postgresPassword = e.postgresPassword
           /\ Container(e).databaseUrl = e.databaseUrl
           /\ Container(e).environment = e.environment
<1>1. /\ e.cache \in Redis /\ e.limiter \in Redis /\ e.taskiq \in Redis
  BY DEF Settings
<1>. DEFINE cache == [e.cache EXCEPT !.host = "redis"]
            limiter == [e.limiter EXCEPT !.host = "redis"]
            taskiq == [e.taskiq EXCEPT !.host = "redis"]
<1>2. cache \in Redis /\ limiter \in Redis /\ taskiq \in Redis
  BY <1>1, DeploymentAssumption DEF Redis
<1>3. cache.host = "redis" /\ limiter.host = "redis" /\ taskiq.host = "redis" /\ cache.password = e.cache.password
  BY <1>1 DEF Redis
<1>4. Container(e) = [e EXCEPT !.cache = cache, !.limiter = limiter, !.taskiq = taskiq]
  BY DEF Container, Settings
<1>. HIDE DEF cache, limiter, taskiq
<1>5. [e EXCEPT !.cache = cache, !.limiter = limiter, !.taskiq = taskiq] \in Settings
  BY <1>2 DEF Settings
<1>6. /\ Container(e).cache = cache /\ Container(e).limiter = limiter /\ Container(e).taskiq = taskiq
      /\ Container(e).postgresPassword = e.postgresPassword /\ Container(e).sessionUrl = e.sessionUrl
      /\ Container(e).databaseUrl = e.databaseUrl
      /\ Container(e).environment = e.environment
  BY <1>4 DEF Settings
<1>. QED
  BY <1>3, <1>4, <1>5, <1>6

\* Where the validator has no critical issue, none of its checks holds.
LEMMA NothingCritical ==
    ASSUME NEW s \in Settings, CriticalIssues(s) = {}
    PROVE  /\ ~InsecureSecret(s)
           /\ EffectiveDatabasePassword(s) \notin {"postgres", "blank"}
           /\ s.adminEnabled => ~NoAdminPassword(s)
           /\ s.csrf /\ s.secureCookies
           /\ s.sessionBackend = "redis"
           /\ ~TooPermissive(s)
<1>. DEFINE issues ==
            [secret          |-> InsecureSecret(s),
             defaultDatabase |-> EffectiveDatabasePassword(s) = "postgres",
             blankDatabase   |-> EffectiveDatabasePassword(s) = "blank",
             openAdmin       |-> s.adminEnabled /\ NoAdminPassword(s),
             csrf            |-> ~s.csrf,
             cookies         |-> ~s.secureCookies,
             sessions        |-> s.sessionBackend # "redis",
             cors            |-> TooPermissive(s)]
<1>1. \A i \in DOMAIN issues : ~issues[i]
  BY DEF CriticalIssues, Raised
<1>2. DOMAIN issues = {"secret", "defaultDatabase", "blankDatabase", "openAdmin", "csrf", "cookies", "sessions", "cors"}
  OBVIOUS
<1>3. /\ ~issues.secret /\ ~issues.defaultDatabase /\ ~issues.blankDatabase /\ ~issues.openAdmin
      /\ ~issues.csrf /\ ~issues.cookies /\ ~issues.sessions /\ ~issues.cors
  BY <1>1, <1>2
<1>4. s.csrf \in BOOLEAN /\ s.secureCookies \in BOOLEAN /\ s.adminEnabled \in BOOLEAN
  BY DEF Settings
<1>. QED
  BY <1>3, <1>4

\* What is warned about, by the settings it is about.
LEMMA WarnedOf ==
    ASSUME NEW s \in Settings
    PROVE  /\ s.docsInProduction => <<"setting", "docs">> \in Warnings(s)
           /\ s.createTables => <<"setting", "createTables">> \in Warnings(s)
           /\ s.sessionBackend = "redis" /\ SessionRedis(s).password = Unset => <<"password", "sessions">> \in Warnings(s)
           /\ s.cacheBackend = "redis" /\ s.cache.password = Unset => <<"password", "cache">> \in Warnings(s)
<1>1. s.docsInProduction => "docs" \in ExposureWarnings(s)
  BY DEF ExposureWarnings, Raised
<1>2. s.createTables => "createTables" \in SessionWarnings(s)
  BY DEF SessionWarnings, Raised
<1>3. s.sessionBackend = "redis" /\ SessionRedis(s).password = Unset => <<"password", "sessions">> \in RedisWarnings(s)
  BY DEF RedisWarnings, RedisConfigurations
<1>4. s.cacheBackend = "redis" /\ s.cache.password = Unset => <<"password", "cache">> \in RedisWarnings(s)
  BY DEF RedisWarnings, RedisConfigurations
<1>. QED
  BY <1>1, <1>2, <1>3, <1>4 DEF Warnings

\* The middleware does its work whatever the settings are.
LEMMA AlwaysGuarded ==
    ASSUME NEW s \in Settings
    PROVE  Guarded(s)
<1>. SUFFICES ASSUME NEW r \in Request
     PROVE  LET a == Answer(s, r)
            IN  /\ r.write /\ r.origin \notin {"", "own"} /\ a.status # 403 => r.path = "api" /\ r.origin \in s.corsOrigins
                /\ r.path = "docs" /\ a.status = 200 => r.caller = "superuser" \/ s.environment \in {"development", "local"}
                /\ s.securityHeaders => a.policy # "" /\ (a.policy # "strict" => r.path \in {"admin", "docs"})
                /\ a.cached = "public" => r.path = "static"
  BY DEF Guarded
<1>. DEFINE passed == {Order[i] : i \in 1..Reaches(s, r)}
<1>0. "headers" \in passed
  <2>1. 1 \in 1..Reaches(s, r)
    BY DEF Reaches
  <2>2. Order[1] = "headers"
    BY DEF Order
  <2>. QED
    BY <2>1, <2>2
<1>1. /\ Answer(s, r).status = Status(s, r)
      /\ Answer(s, r).policy = IF "headers" \in passed /\ Middleware(s)["headers"] THEN Policy(s, r.path) ELSE ""
      /\ Answer(s, r).cached = IF ~("cache" \in passed /\ Middleware(s)["cache"]) THEN ""
                               ELSE IF r.path = "static" THEN "public" ELSE "private"
  BY DEF Answer
<1>2. Middleware(s)["headers"] = s.securityHeaders
  BY DEF Middleware
<1>3. r.write /\ r.origin \notin {"", "own"} /\ Status(s, r) # 403 => r.path = "api" /\ r.origin \in s.corsOrigins
  <2>1. Rejected(s, r) => Status(s, r) = 403
    BY DEF Status
  <2>2. ~Rejected(s, r) /\ r.write /\ r.origin # "" => SameOriginAllows(s, r)
    BY DEF Rejected
  <2>3. SameOriginAllows(s, r) /\ r.origin # "own" => r.path = "api" /\ r.origin \in s.corsOrigins
    BY DEF SameOriginAllows, AllowedOrigins, CorsOrigins
  <2>. QED
    BY <2>1, <2>2, <2>3
<1>4. r.path = "docs" /\ Status(s, r) = 200 => r.caller = "superuser" \/ s.environment \in {"development", "local"}
  <2>0. r.caller \in {"nobody", "user", "superuser"}
    BY DEF Request
  <2>1. r.path = "docs" /\ Status(s, r) = 200 => Docs(s) # "hidden" /\ (Docs(s) # "superuser" \/ r.caller = "superuser")
    BY <2>0 DEF Status
  <2>2. Docs(s) \in {"hidden", "superuser"} \/ s.environment \notin {"production", "staging"}
    BY DEF Docs
  <2>3. s.environment \in {"production", "staging", "development", "local"}
    BY DEF Settings, Environment
  <2>. QED
    BY <2>1, <2>2, <2>3
<1>5. Policy(s, r.path) # "" /\ (Policy(s, r.path) # "strict" => r.path \in {"admin", "docs"})
  BY DEF Policy
<1>. QED
  BY <1>0, <1>1, <1>2, <1>3, <1>4, <1>5

\* What the validator lets through in production is hardened.
LEMMA PassedIsHardened ==
    ASSUME NEW s \in Settings, s.environment = "production", s.validation, ~RefusesToStart(s)
    PROVE  Hardened(s)
<1>1. CriticalIssues(s) = {}
  BY DEF RefusesToStart
<1>2. s.secret = {} /\ DatabasePassword(s) \notin {"postgres", "blank"}
  BY <1>1, NothingCritical DEF InsecureSecret, EffectiveDatabasePassword, DatabasePassword, Raw
<1>3. s.adminEnabled => s.adminUsername # "" /\ s.adminPassword # ""
  BY <1>1, NothingCritical DEF NoAdminPassword
<1>4. s.csrf /\ s.secureCookies /\ s.sessionBackend = "redis"
  BY <1>1, NothingCritical
<1>5. ASSUME NEW r \in Request, Answer(s, r).shared PROVE r.origin \in s.corsOrigins
  <2>1. CorsAllows(s, r.origin)
    BY <1>5 DEF Answer
  <2>2. ~TooPermissive(s)
    BY <1>1, NothingCritical
  <2>. QED
    BY <2>1, <2>2 DEF CorsAllows, TooPermissive, CorsOrigins
<1>6. Docs(s) # "hidden" => s.docsInProduction
  BY DEF Docs
<1>. QED
  BY <1>2, <1>3, <1>4, <1>5, <1>6, WarnedOf DEF Hardened

-----------------------------------------------------------------------------
(* Types *)

Tables == PlatformTables \cup CreatedBetween(0, 6) \cup UNION {ToolTables[t] : t \in DOMAIN ToolTables}
Labels == Resources \cup UNION {Revisions[i].labels : i \in 1..6}
Schema == [version : 0..6, tables : SUBSET Tables, labels : SUBSET Labels]

Permissions == HandGrants \cup UNION {Resolved(r, role) : r \in Releases, role \in RoleNames}

Places == {"down", "boot", "database", "cache", "limiter", "auth", "serving", "unwinding"}
Worker == [pc : Places, stack : Seq(Resource), open : SUBSET Resource]

Typed ==
    /\ mode \in {"prod", "local"} /\ env \in EnvFiles /\ image \in Releases
    /\ postgres \in [up : BOOLEAN, password : DbPassword \cup {Unset}, schema : Schema]
    /\ redis \in [up : BOOLEAN, password : RedisPassword]
    /\ roles \in [RoleNames -> [permissions : SUBSET Permissions, edited : BOOLEAN]]
    /\ rollout \in {"idle", "replacing", "starting"}
    /\ migrate \in [status : Running \cup {"none", "done", "failed"}, release : Releases, env : Containers,
                    next : 1..Len(Roles)]
    /\ api \in [status : {"none", "created", "started", "stopping"}, release : Releases, env : Containers]
    /\ worker \in [Workers -> Worker]
    /\ spent \in [builds : 0..MaxBuilds, edits : 0..MaxEdits, faults : 0..MaxFaults]

\* The seeded roles, in the order in which they are synced.
LEMMA ThreeRoles ==
    /\ Len(Roles) = 3
    /\ Roles[1] = "analyst" /\ Roles[2] = "reviewer" /\ Roles[3] = "admin"
    /\ RoleNames = {"analyst", "reviewer", "admin"}
<1>1. /\ Len(Roles) = 3
      /\ Roles[1] = "analyst" /\ Roles[2] = "reviewer" /\ Roles[3] = "admin"
  BY DEF Roles
<1>2. DOMAIN Roles = 1..3
  BY DEF Roles
<1>. QED
  BY <1>1, <1>2 DEF RoleNames

\* Neither way to a schema leads out of the tables and labels there are.
LEMMA SchemaTypes ==
    /\ Empty \in Schema
    /\ \A schema \in Schema, r \in Checkout :
          /\ Upgraded(schema, r.head) \in Schema
          /\ CreatedAll(schema, r) \in Schema
<1>1. Empty \in Schema
  BY DEF Empty, Schema
<1>2. ASSUME NEW schema \in Schema, NEW r \in Checkout PROVE Upgraded(schema, r.head) \in Schema
  <2>1. r.head \in 5..6 /\ schema.version \in 0..6 /\ schema.tables \subseteq Tables /\ schema.labels \subseteq Labels
    BY SixRevisions DEF Checkout, Schema
  <2>2. (schema.version + 1)..r.head \subseteq 1..6
    BY <2>1
  <2>3. CreatedBetween(schema.version, r.head) \subseteq Tables
    BY <2>2 DEF CreatedBetween, Tables
  <2>4. UNION {Revisions[i].labels : i \in (schema.version + 1)..r.head} \subseteq Labels
    BY <2>2 DEF Labels
  <2>. QED
    BY <2>1, <2>3, <2>4 DEF Upgraded, Schema
<1>3. ASSUME NEW schema \in Schema, NEW r \in Checkout PROVE CreatedAll(schema, r) \in Schema
  <2>1. r.tools \subseteq DOMAIN ToolTables
    BY DEF Checkout
  <2>2. ModelTables(r) \subseteq Tables
    BY <2>1 DEF ModelTables, Tables
  <2>3. Resources \subseteq Labels
    BY DEF Labels
  <2>. QED
    BY <2>2, <2>3 DEF CreatedAll, Schema
<1>. QED
  BY <1>1, <1>2, <1>3

\* create_all makes the type with all labels of the models.
LEMMA CreateCompletes ==
    ASSUME NEW schema \in Schema, NEW r, LabelsAreComplete(schema)
    PROVE  LabelsAreComplete(CreatedAll(schema, r))
BY DEF LabelsAreComplete, CreatedAll, Schema

\* The types hold at the start.
LEMMA TypesStart == Init => Typed
<1>. SUFFICES ASSUME Init PROVE Typed
  OBVIOUS
<1>1. postgres \in [up : BOOLEAN, password : DbPassword \cup {Unset}, schema : Schema]
  BY SchemaTypes DEF Init
<1>2. redis \in [up : BOOLEAN, password : RedisPassword]
  BY DEF Init, RedisPassword
<1>3. roles \in [RoleNames -> [permissions : SUBSET Permissions, edited : BOOLEAN]]
  BY DEF Init, NoRole
<1>4. Container(env) \in Containers /\ 1 \in 1..Len(Roles)
  BY ThreeRoles DEF Init, Containers
<1>5. /\ migrate \in [status : Running \cup {"none", "done", "failed"}, release : Releases, env : Containers,
                      next : 1..Len(Roles)]
      /\ api \in [status : {"none", "created", "started", "stopping"}, release : Releases, env : Containers]
  BY <1>4 DEF Init
<1>6. Down \in Worker
  BY EmptySeq DEF Down, Worker, Places
<1>7. worker \in [Workers -> Worker]
  BY <1>6 DEF Init
<1>8. spent \in [builds : 0..MaxBuilds, edits : 0..MaxEdits, faults : 0..MaxFaults]
  BY DeploymentAssumption DEF Init
<1>. QED
  BY <1>1, <1>2, <1>3, <1>5, <1>7, <1>8 DEF Init, Typed

\* A worker that moves keeps the types, if the database does.
LEMMA WorkerMoves ==
    ASSUME Typed, NEW w \in Workers, NEW pc \in Places, NEW stack \in Seq(Resource), NEW open \in SUBSET Resource,
           Move(w, pc, stack, open), UNCHANGED <<host, redis, roles, rollout, migrate, api, spent>>,
           postgres' \in [up : BOOLEAN, password : DbPassword \cup {Unset}, schema : Schema]
    PROVE  Typed'
<1>1. worker' \in [Workers -> Worker]
  BY DEF Typed, Move, Worker
<1>. QED
  BY <1>1 DEF Typed, host

\* Every step of a worker keeps the types.
LEMMA WorkerTypes ==
    ASSUME Typed, NEW w \in Workers, Lifespan(w) \/ Query(w)
    PROVE  Typed'
<1>. DEFINE stack == worker[w].stack
            open == worker[w].open
<1>0. stack \in Seq(Resource) /\ open \in SUBSET Resource
  BY DEF Typed, Worker
<1>1. ASSUME NEW pc \in Places, NEW new \in Seq(Resource), NEW opened \in SUBSET Resource,
             Move(w, pc, new, opened), Stays
      PROVE  Typed'
  <2>1. UNCHANGED <<host, redis, roles, rollout, migrate, api, spent>> /\ UNCHANGED postgres
    BY <1>1 DEF Stays, store
  <2>2. postgres \in [up : BOOLEAN, password : DbPassword \cup {Unset}, schema : Schema]
    BY DEF Typed
  <2>. QED
    BY <1>1, <2>1, <2>2, WorkerMoves
<1>2. /\ <<>> \in Seq(Resource) /\ {} \in SUBSET Resource
      /\ "database" \in Resource /\ "cache" \in Resource /\ "limiter" \in Resource /\ "auth" \in Resource
  BY EmptySeq DEF Resource
<1>3. /\ "down" \in Places /\ "boot" \in Places /\ "database" \in Places /\ "cache" \in Places
      /\ "limiter" \in Places /\ "auth" \in Places /\ "serving" \in Places /\ "unwinding" \in Places
  BY DEF Places
<1>4. ASSUME NEW enabled, NEW backend, NEW x \in Resource
      PROVE  Pushed(enabled, x) \o stack \in Seq(Resource) /\ open \cup Opened(enabled, backend, x) \in SUBSET Resource
  <2>1. Pushed(enabled, x) \in Seq(Resource)
    BY EmptySeq DEF Pushed
  <2>2. Pushed(enabled, x) \o stack \in Seq(Resource)
    BY <1>0, <2>1, ConcatProperties
  <2>3. Opened(enabled, backend, x) \subseteq Resource
    BY DEF Opened
  <2>. QED
    BY <1>0, <2>2, <2>3
<1>5. ASSUME NEW x \in Resource PROVE <<x>> \in Seq(Resource) /\ <<x>> \o stack \in Seq(Resource)
  <2>1. <<x>> \in Seq(Resource)
    OBVIOUS
  <2>. QED
    BY <1>0, <2>1, ConcatProperties
<1>. HIDE DEF stack, open
<1>6. CASE Boot(w)
  <2>1. PICK pc \in Places : Move(w, pc, <<>>, {}) /\ Stays
    BY <1>3, <1>6 DEF Boot
  <2>. QED
    BY <1>1, <1>2, <2>1
<1>7. CASE OpenDatabase(w)
  <2>1. CreatedAll(postgres.schema, api.release) \in Schema
    <3>1. api.release \in Checkout /\ postgres.schema \in Schema
      BY DeploymentAssumption DEF Typed
    <3>. QED
      BY <3>1, SchemaTypes
  <2>2. postgres' \in [up : BOOLEAN, password : DbPassword \cup {Unset}, schema : Schema]
    BY <1>7, <2>1 DEF OpenDatabase, Typed
  <2>3. PICK pc \in Places, new \in SUBSET Resource : Move(w, pc, <<"database">>, new)
    <3>1. {} \in SUBSET Resource /\ {"database"} \in SUBSET Resource
      BY <1>2
    <3>. QED
      BY <1>3, <1>7, <3>1 DEF OpenDatabase
  <2>4. UNCHANGED <<host, redis, roles, rollout, migrate, api, spent>>
    BY <1>7 DEF OpenDatabase
  <2>. QED
    BY <1>2, <1>5, <2>2, <2>3, <2>4, WorkerMoves
<1>8. CASE OpenCache(w)
  <2>1. /\ Move(w, "limiter", Pushed(api.env.cacheEnabled, "cache") \o stack,
                 open \cup Opened(api.env.cacheEnabled, api.env.cacheBackend, "cache"))
        /\ Stays
    BY <1>8 DEF OpenCache, stack, open
  <2>. QED
    BY <1>1, <1>2, <1>3, <1>4, <2>1
<1>9. CASE OpenLimiter(w)
  <2>1. /\ Move(w, "auth", Pushed(api.env.limiterEnabled, "limiter") \o stack,
                 open \cup Opened(api.env.limiterEnabled, api.env.limiterBackend, "limiter"))
        /\ Stays
    BY <1>9 DEF OpenLimiter, stack, open
  <2>. QED
    BY <1>1, <1>2, <1>3, <1>4, <2>1
<1>10. CASE OpenAuth(w)
  <2>1. PICK pc \in {"serving", "unwinding"} : Move(w, pc, <<"auth">> \o stack, open \cup {"auth"}) /\ Stays
    BY <1>10 DEF OpenAuth, AuthFails, stack, open
  <2>2. open \cup {"auth"} \in SUBSET Resource /\ pc \in Places
    BY <1>0, <1>2, <1>3
  <2>. QED
    BY <1>1, <1>2, <1>5, <2>1, <2>2
<1>11. CASE Stop(w)
  <2>1. Move(w, "unwinding", stack, open) /\ Stays
    BY <1>11 DEF Stop, stack, open
  <2>. QED
    BY <1>0, <1>1, <1>3, <2>1
<1>12. CASE Unwind(w)
  <2>1. CASE stack = <<>>
    <3>1. Move(w, "down", <<>>, open) /\ Stays
      BY <1>12, <2>1 DEF Unwind, stack, open
    <3>. QED
      BY <1>0, <1>1, <1>2, <1>3, <3>1
  <2>2. CASE stack # <<>>
    <3>1. Move(w, "unwinding", Tail(stack), open \ {Head(stack)}) /\ Stays
      BY <1>12, <2>2 DEF Unwind, stack, open
    <3>2. Tail(stack) \in Seq(Resource) /\ open \ {Head(stack)} \in SUBSET Resource
      BY <1>0, <2>2, HeadTailProperties
    <3>. QED
      BY <1>1, <1>3, <3>1, <3>2
  <2>. QED
    BY <2>1, <2>2
<1>13. CASE Restart(w)
  <2>1. Move(w, "boot", <<>>, {}) /\ Stays
    BY <1>13 DEF Restart
  <2>. QED
    BY <1>1, <1>2, <1>3, <2>1
<1>14. CASE Query(w)
  <2>1. Move(w, "serving", stack, open \cup {"database"}) /\ Stays
    BY <1>14 DEF Query, stack, open
  <2>2. open \cup {"database"} \in SUBSET Resource
    BY <1>0, <1>2
  <2>. QED
    BY <1>0, <1>1, <1>3, <2>1, <2>2
<1>. QED
  BY <1>6, <1>7, <1>8, <1>9, <1>10, <1>11, <1>12, <1>13, <1>14 DEF Lifespan

\* Every step keeps the types.
LEMMA TypesKept == Typed /\ [Next]_vars => Typed'
<1>. SUFFICES ASSUME Typed, [Next]_vars PROVE Typed'
  OBVIOUS
<1>. USE DEF Typed, host, store
<1>0. /\ \A r \in Releases : r \in Checkout
      /\ \A e \in EnvFiles : e \in Settings /\ Container(e) \in Containers
  BY DeploymentAssumption DEF Containers
<1>2. ASSUME NEW e \in EnvFiles, EditEnv(e) PROVE Typed'
  <2>1. spent' \in [builds : 0..MaxBuilds, edits : 0..MaxEdits, faults : 0..MaxFaults]
    BY <1>2, DeploymentAssumption DEF EditEnv, Spend
  <2>. QED
    BY <1>2, <2>1 DEF EditEnv
<1>3. ASSUME NEW r \in Releases, Build(r) PROVE Typed'
  <2>1. spent' \in [builds : 0..MaxBuilds, edits : 0..MaxEdits, faults : 0..MaxFaults]
    BY <1>3, DeploymentAssumption DEF Build, Spend
  <2>. QED
    BY <1>3, <2>1 DEF Build
<1>4. CASE Up
  <2>1. env.postgresPassword \in DbPassword /\ env.cache.password \in RedisPassword
    BY <1>0 DEF Settings, Redis
  <2>2. postgres' \in [up : BOOLEAN, password : DbPassword \cup {Unset}, schema : Schema]
    BY <1>4, <2>1 DEF Up
  <2>3. redis' \in [up : BOOLEAN, password : RedisPassword]
    BY <1>4, <2>1 DEF Up, ServerPassword, RedisPassword
  <2>4. api' \in [status : {"none", "created", "started", "stopping"}, release : Releases, env : Containers]
    BY <1>4 DEF Up
  <2>. QED
    BY <1>4, <2>2, <2>3, <2>4 DEF Up
<1>5. CASE Exec
  BY <1>5, ThreeRoles DEF Exec, Running
<1>6. CASE Create
  <2>1. Container(env) \in Containers /\ 1 \in 1..Len(Roles)
    BY <1>0, ThreeRoles
  <2>2. api' \in [status : {"none", "created", "started", "stopping"}, release : Releases, env : Containers]
    BY <1>6, <2>1 DEF Create
  <2>3. migrate' \in [status : Running \cup {"none", "done", "failed"}, release : Releases, env : Containers,
                      next : 1..Len(Roles)]
    BY <1>6, <2>1 DEF Create, Running
  <2>. QED
    BY <1>6, <2>2, <2>3 DEF Create
<1>7. CASE Start
  <2>1. Down \in Worker /\ [Down EXCEPT !.pc = "boot"] \in Worker
    BY EmptySeq DEF Down, Worker, Places
  <2>2. worker' \in [Workers -> Worker]
    BY <1>7, <2>1 DEF Start
  <2>3. api' \in [status : {"none", "created", "started", "stopping"}, release : Releases, env : Containers]
    BY <1>7 DEF Start
  <2>. QED
    BY <1>7, <2>2, <2>3 DEF Start
<1>8. CASE GiveUp
  BY <1>8 DEF GiveUp
<1>9. CASE Upgrade
  <2>1. migrate.release \in Checkout
    BY <1>0
  <2>2. Upgraded(postgres.schema, migrate.release.head) \in Schema
    BY <2>1, SchemaTypes
  <2>3. postgres' \in [up : BOOLEAN, password : DbPassword \cup {Unset}, schema : Schema]
    BY <1>9, <2>2 DEF Upgrade
  <2>4. migrate' \in [status : Running \cup {"none", "done", "failed"}, release : Releases, env : Containers,
                      next : 1..Len(Roles)]
    BY <1>9 DEF Upgrade, Running
  <2>. QED
    BY <1>9, <2>3, <2>4 DEF Upgrade
<1>10. CASE SyncRole
  <2>1. migrate.next \in 1..3 /\ Roles[migrate.next] \in RoleNames
    BY ThreeRoles
  <2>2. SyncedRole(Roles[migrate.next]) \in [permissions : SUBSET Permissions, edited : BOOLEAN]
    BY <2>1 DEF SyncedRole, Permissions
  <2>3. roles' \in [RoleNames -> [permissions : SUBSET Permissions, edited : BOOLEAN]]
    BY <1>10, <2>2 DEF SyncRole
  <2>4. migrate' \in [status : Running \cup {"none", "done", "failed"}, release : Releases, env : Containers,
                      next : 1..Len(Roles)]
    <3>1. CASE AtLastRole
      <4>1. migrate' = [migrate EXCEPT !.status = "done", !.next = 1]
        BY <1>10, <3>1 DEF SyncRole
      <4>2. 1 \in 1..Len(Roles)
        BY ThreeRoles
      <4>. QED
        BY <4>1, <4>2
    <3>2. CASE ~AtLastRole
      <4>1. migrate' = [migrate EXCEPT !.next = @ + 1] /\ migrate.next + 1 \in 1..Len(Roles)
        BY <1>10, <2>1, <3>2, ThreeRoles DEF SyncRole, AtLastRole
      <4>. QED
        BY <4>1
    <3>. QED
      BY <3>1, <3>2
  <2>. QED
    BY <1>10, <2>3, <2>4 DEF SyncRole
<1>11. CASE SyncFails
  <2>1. migrate' = [migrate EXCEPT !.status = "failed", !.next = 1] /\ 1 \in 1..Len(Roles)
    BY <1>11, ThreeRoles DEF SyncFails
  <2>2. migrate' \in [status : Running \cup {"none", "done", "failed"}, release : Releases, env : Containers,
                      next : 1..Len(Roles)]
    BY <2>1
  <2>. QED
    BY <1>11, <2>2 DEF SyncFails
<1>12. CASE Failures
  <2>0. ASSUME Fault PROVE spent' \in [builds : 0..MaxBuilds, edits : 0..MaxEdits, faults : 0..MaxFaults]
    BY <2>0, DeploymentAssumption DEF Fault, Spend
  <2>1. CASE PostgresFails
    <3>1. postgres' \in [up : BOOLEAN, password : DbPassword \cup {Unset}, schema : Schema]
      BY <2>1 DEF PostgresFails
    <3>. QED
      BY <2>0, <2>1, <3>1 DEF PostgresFails
  <2>2. CASE RedisFails
    <3>1. redis' \in [up : BOOLEAN, password : RedisPassword]
      BY <2>2 DEF RedisFails
    <3>. QED
      BY <2>0, <2>2, <3>1 DEF RedisFails
  <2>3. CASE MigrateDies
    <3>1. migrate' = [migrate EXCEPT !.status = "failed", !.next = 1] /\ 1 \in 1..Len(Roles)
      BY <2>3, ThreeRoles DEF MigrateDies
    <3>2. migrate' \in [status : Running \cup {"none", "done", "failed"}, release : Releases, env : Containers,
                        next : 1..Len(Roles)]
      BY <3>1
    <3>. QED
      BY <2>0, <2>3, <3>2 DEF MigrateDies
  <2>4. ASSUME NEW w \in Workers, Crash(w) PROVE Typed'
    <3>1. Down \in Worker
      BY EmptySeq DEF Down, Worker, Places
    <3>2. worker' \in [Workers -> Worker]
      BY <2>4, <3>1 DEF Crash
    <3>. QED
      BY <2>0, <2>4, <3>2 DEF Crash
  <2>. QED
    BY <1>12, <2>1, <2>2, <2>3, <2>4 DEF Failures
<1>13. CASE Recovery
  BY <1>13 DEF Recovery, PostgresReturns, RedisReturns
<1>14. ASSUME NEW role \in RoleNames, NEW p \in HandGrants, HandEdit(role, p) PROVE Typed'
  <2>1. p \in Permissions
    BY DEF Permissions
  <2>. QED
    BY <1>14, <2>1 DEF HandEdit
<1>15. ASSUME NEW w \in Workers, Lifespan(w) \/ Query(w) PROVE Typed'
  BY <1>15, WorkerTypes
<1>16. CASE UNCHANGED vars
  BY <1>16 DEF vars
<1>. QED
  BY <1>2, <1>3, <1>4, <1>5, <1>6, <1>7, <1>8, <1>9, <1>10, <1>11, <1>12, <1>13, <1>14, <1>15, <1>16
     DEF Next, Operator, Compose, Job

\* The types of the proofs are those the runs check, and finer.
LEMMA TypesSay == Typed => TypeOK
<1>. SUFFICES ASSUME Typed PROVE TypeOK
  OBVIOUS
<1>1. \A e \in EnvFiles : e \in Settings
  BY DeploymentAssumption
<1>2. \A e \in Containers : e \in Settings
  BY <1>1, ContainerOf DEF Containers
<1>3. postgres.schema.version \in 0..Len(Revisions)
  BY SixRevisions DEF Typed, Schema
<1>4. \A w \in Workers : worker[w].open \subseteq Resource
  BY DEF Typed, Worker
<1>5. DOMAIN roles = RoleNames
  BY DEF Typed
<1>6. /\ migrate.status \in Running \cup {"none", "done", "failed"} /\ migrate.next \in 1..Len(Roles)
      /\ migrate.release \in Releases /\ migrate.env \in Settings
      /\ api.status \in {"none", "created", "started", "stopping"} /\ api.release \in Releases /\ api.env \in Settings
  BY <1>2 DEF Typed
<1>7. env \in Settings
  BY <1>1 DEF Typed
<1>. QED
  BY <1>3, <1>4, <1>5, <1>6, <1>7 DEF Typed, TypeOK

-----------------------------------------------------------------------------
(* The host and the stack *)

Started == {"cache", "limiter", "auth", "serving"}

\* What one step of a worker may do, to itself and to the schema.
LEMMA WorkerGoes ==
    ASSUME Typed, NEW w \in Workers, Lifespan(w) \/ Query(w)
    PROVE  /\ UNCHANGED <<mode, env, image, redis, roles, rollout, migrate, api, spent>>
           /\ \A v \in Workers : v # w => worker'[v] = worker[v]
           /\ worker[w].pc = "down" => api.status = "started"
           /\ worker'[w].pc = "database" => ~RefusesToStart(api.env)
           /\ worker'[w].pc \in Started => worker[w].pc \in Started \cup {"database"}
           /\ \/ postgres' = postgres
              \/ worker[w].pc = "database" /\ MakesTables
                 /\ postgres' = [postgres EXCEPT !.schema = CreatedAll(@, api.release)]
           /\ worker[w].pc = "database" /\ worker'[w].pc \in Started /\ MakesTables =>
                 postgres' = [postgres EXCEPT !.schema = CreatedAll(@, api.release)]
<1>. USE DEF host, store, Stays, Started, Move
<1>0. worker \in [Workers -> Worker]
  BY DEF Typed
<1>1. CASE Boot(w)
  BY <1>0, <1>1 DEF Boot
<1>2. CASE OpenDatabase(w)
  BY <1>0, <1>2 DEF OpenDatabase
<1>3. CASE OpenCache(w)
  BY <1>0, <1>3 DEF OpenCache
<1>4. CASE OpenLimiter(w)
  BY <1>0, <1>4 DEF OpenLimiter
<1>5. CASE OpenAuth(w)
  BY <1>0, <1>5 DEF OpenAuth, AuthFails
<1>6. CASE Stop(w)
  BY <1>0, <1>6 DEF Stop
<1>7. CASE Unwind(w)
  BY <1>0, <1>7 DEF Unwind
<1>8. CASE Restart(w)
  BY <1>0, <1>8 DEF Restart
<1>9. CASE Query(w)
  BY <1>0, <1>9 DEF Query
<1>. QED
  BY <1>1, <1>2, <1>3, <1>4, <1>5, <1>6, <1>7, <1>8, <1>9 DEF Lifespan

\* While "up" goes on nothing on the host changes under it, and no job runs without it.
UpIsOfTheHost ==
    /\ rollout # "idle" /\ api.status \in {"created", "started"} => api.release = image /\ api.env = Container(env)
    /\ rollout = "starting" => api.status \in {"created", "started"}
    /\ mode = "prod" /\ rollout = "starting" =>
           migrate.release = image /\ migrate.env = Container(env) /\ migrate.status # "none"
    /\ mode = "prod" /\ rollout # "starting" => migrate.status \notin Running

\* No worker of a container that has not started.
Idle == api.status \in {"none", "created"} => \A w \in Workers : worker[w].pc = "down"

\* A worker that got past the validator has the settings it let through.
EnvPassed == \A w \in Workers : worker[w].pc \in Started \cup {"database"} => ~RefusesToStart(api.env)

HostInv == UpIsOfTheHost /\ Idle /\ EnvPassed

\* Nothing is up at the start.
LEMMA HostStarts == Init => HostInv
<1>. SUFFICES ASSUME Init PROVE HostInv
  OBVIOUS
<1>1. \A w \in Workers : worker[w].pc = "down"
  BY DEF Init, Down
<1>. QED
  BY <1>1 DEF Init, HostInv, UpIsOfTheHost, Idle, EnvPassed, Running, Started

\* No step changes the host under an "up", starts a worker without its container, or lets a refused one on.
LEMMA HostKept == Typed /\ HostInv /\ [Next]_vars => HostInv'
<1>. SUFFICES ASSUME Typed, HostInv, [Next]_vars PROVE HostInv'
  OBVIOUS
<1>. USE DEF HostInv, UpIsOfTheHost, Idle, EnvPassed, host, store, Running
<1>0. /\ api.status \in {"none", "created", "started", "stopping"}
      /\ rollout \in {"idle", "replacing", "starting"}
      /\ worker \in [Workers -> Worker]
  BY DEF Typed
<1>1. ASSUME NEW e \in EnvFiles, EditEnv(e) PROVE HostInv'
  BY <1>1 DEF EditEnv
<1>2. ASSUME NEW r \in Releases, Build(r) PROVE HostInv'
  BY <1>2 DEF Build
<1>3. CASE Up
  BY <1>0, <1>3 DEF Up, Typed
<1>4. CASE Exec
  BY <1>4 DEF Exec
<1>5. CASE Create
  BY <1>0, <1>5 DEF Create, Started
<1>6. CASE Start
  BY <1>0, <1>6 DEF Start, Started, Typed, Migrated
<1>7. CASE GiveUp
  BY <1>7 DEF GiveUp
<1>8. CASE Upgrade
  BY <1>8 DEF Upgrade, Typed
<1>9. CASE SyncRole
  BY <1>9 DEF SyncRole, Typed
<1>10. CASE SyncFails
  BY <1>10 DEF SyncFails, Typed
<1>11. CASE PostgresFails \/ RedisFails \/ PostgresReturns \/ RedisReturns
  BY <1>11 DEF PostgresFails, RedisFails, PostgresReturns, RedisReturns
<1>12. CASE MigrateDies
  BY <1>12 DEF MigrateDies, Typed
<1>13. ASSUME NEW w \in Workers, Crash(w) PROVE HostInv'
  BY <1>0, <1>13 DEF Crash, Down, Started
<1>14. ASSUME NEW w \in Workers, Lifespan(w) \/ Query(w) PROVE HostInv'
  BY <1>0, <1>14, WorkerGoes
<1>15. ASSUME NEW role \in RoleNames, NEW p \in HandGrants, HandEdit(role, p) PROVE HostInv'
  BY <1>15 DEF HandEdit
<1>16. CASE UNCHANGED vars
  BY <1>16 DEF vars
<1>. QED
  BY <1>1, <1>2, <1>3, <1>4, <1>5, <1>6, <1>7, <1>8, <1>9, <1>10, <1>11, <1>12, <1>13, <1>14, <1>15, <1>16
     DEF Next, Operator, Compose, Job, Failures, Recovery

-----------------------------------------------------------------------------
(* The schema *)

\* What makes the schema right: it is the one of its version where only migrations touch it, or create_all
\* has nothing to do; it is never behind the release that runs; and who started has made the tables.
MigratedOnly   == mode = "prod" \/ (~api.env.createTables /\ spent.edits = 0)
OfItsVersion   == MigratedOnly => postgres.schema = SchemaAt(postgres.schema.version)
FileIsTheHosts == spent.edits = 0 => api.env = Container(env)
NotBehind ==
    /\ mode = "prod" /\ (api.status = "started" \/ \E w \in Workers : worker[w].pc # "down") =>
           postgres.schema.version >= api.release.head
    /\ mode = "prod" /\ rollout = "starting" /\ migrate.status \in {"syncing", "done"} =>
           postgres.schema.version >= image.head
TablesMade ==
    \A w \in Workers : worker[w].pc \in Started /\ api.env.createTables =>
        ModelTables(api.release) \subseteq postgres.schema.tables

SchemaInv == OfItsVersion /\ FileIsTheHosts /\ LabelsAreComplete(postgres.schema) /\ NotBehind /\ TablesMade

\* The empty schema is that of version 0.
LEMMA SchemaStarts == Init => SchemaInv
<1>. SUFFICES ASSUME Init PROVE SchemaInv
  OBVIOUS
<1>1. SchemaAt(0) = Empty
  BY DEF SchemaAt, Upgraded, CreatedBetween, Empty
<1>2. postgres.schema = Empty /\ Empty.version = 0 /\ Empty.tables = {}
  BY DEF Init, Empty
<1>3. \A w \in Workers : worker[w].pc = "down"
  BY DEF Init, Down
<1>. QED
  BY <1>1, <1>2, <1>3
     DEF Init, SchemaInv, OfItsVersion, FileIsTheHosts, LabelsAreComplete, NotBehind, TablesMade, Started

\* Migrations, create_all, builds, edits and workers keep the schema right.
LEMMA SchemaKept == Typed /\ HostInv /\ SchemaInv /\ [Next]_vars => SchemaInv'
<1>. SUFFICES ASSUME Typed, HostInv, SchemaInv, [Next]_vars PROVE SchemaInv'
  OBVIOUS
<1>. USE DEF SchemaInv, OfItsVersion, MigratedOnly, FileIsTheHosts, NotBehind, TablesMade, host, store
<1>0. /\ api.status \in {"none", "created", "started", "stopping"} /\ api.release \in Checkout
      /\ rollout \in {"idle", "replacing", "starting"}
      /\ worker \in [Workers -> Worker]
      /\ image \in Checkout /\ migrate.release \in Checkout
      /\ postgres.schema \in Schema
      /\ postgres = [up |-> postgres.up, password |-> postgres.password, schema |-> postgres.schema]
  BY DeploymentAssumption DEF Typed
<1>a. \A r \in Checkout : r.head \in 5..6
  BY SixRevisions DEF Checkout
<1>b. postgres.schema.version \in 0..6
  BY <1>0 DEF Schema
<1>1. ASSUME NEW e \in EnvFiles, EditEnv(e) PROVE SchemaInv'
  <2>1. spent'.edits = spent.edits + 1 /\ spent.edits \in Nat
    BY <1>1, DeploymentAssumption DEF EditEnv, Spend, Typed
  <2>. QED
    BY <1>1, <2>1 DEF EditEnv
<1>2. ASSUME NEW r \in Releases, Build(r) PROVE SchemaInv'
  <2>1. spent'.edits = spent.edits
    BY <1>2 DEF Build, Spend, Typed
  <2>. QED
    BY <1>2, <2>1 DEF Build
<1>3. CASE Up
  <2>1. /\ postgres'.schema = postgres.schema /\ rollout' = "replacing"
        /\ api'.release = api.release /\ api'.env = api.env /\ (api'.status = "started" => api.status = "started")
    BY <1>3 DEF Up, Typed
  <2>. QED
    BY <1>3, <2>1 DEF Up
<1>4. CASE Exec
  BY <1>4 DEF Exec
<1>5. CASE Create
  <2>1. /\ api' = api \/ (api'.status = "created" /\ api'.env = Container(env) /\ \A w \in Workers : worker[w].pc = "down")
        /\ mode = "prod" => migrate'.status = "upgrading"
    BY <1>0, <1>5 DEF Create, HostInv, Idle
  <2>2. CASE api' = api
    BY <1>5, <2>1, <2>2 DEF Create
  <2>3. CASE api' # api
    BY <1>5, <2>1, <2>3 DEF Create, Started
  <2>. QED
    BY <2>2, <2>3
<1>6. CASE Start
  <2>1. /\ mode = "prod" => postgres.schema.version >= api.release.head
        /\ api'.status = "started" /\ api'.release = api.release /\ api'.env = api.env
    BY <1>6 DEF Start, Migrated, HostInv, UpIsOfTheHost, Typed
  <2>2. \A w \in Workers : worker'[w].pc \in Started => worker[w].pc \in Started
    BY <1>0, <1>6 DEF Start, Started, Down
  <2>. QED
    BY <1>6, <2>1, <2>2 DEF Start
<1>7. CASE GiveUp
  BY <1>7 DEF GiveUp
<1>8. CASE Upgrade
  <2>1. CASE UpgradeRuns
    <3>. DEFINE new == Upgraded(postgres.schema, migrate.release.head)
    <3>1. /\ postgres'.schema = new /\ migrate'.status = "syncing" /\ migrate'.release = migrate.release
          /\ UNCHANGED <<mode, env, image, redis, roles, rollout, api, worker, spent>>
      BY <1>0, <1>8, <2>1 DEF Upgrade, Typed
    <3>2. postgres.schema.version <= migrate.release.head
      BY <2>1 DEF UpgradeRuns, CanUpgrade
    <3>3. new.version = migrate.release.head /\ postgres.schema.tables \subseteq new.tables
      BY DEF Upgraded
    <3>4. MigratedOnly => new = SchemaAt(new.version)
      BY <1>0, <1>a, <1>b, <3>2, <3>3, UpgradeContinues
    <3>5. LabelsAreComplete(new)
      BY <1>0, <1>b, UpgradeCompletes
    <3>6. mode = "prod" /\ rollout = "starting" => migrate.release = image
      BY DEF HostInv, UpIsOfTheHost
    <3>7. migrate.release.head \in Nat /\ image.head \in Nat /\ api.release.head \in Nat /\ postgres.schema.version \in Nat
      BY <1>0, <1>a, <1>b
    <3>. HIDE DEF new
    <3>8. OfItsVersion'
      BY <3>1, <3>4
    <3>9. NotBehind'
      BY <3>1, <3>2, <3>3, <3>6, <3>7
    <3>10. TablesMade' /\ FileIsTheHosts'
      BY <3>1, <3>3
    <3>11. LabelsAreComplete(postgres.schema)'
      BY <3>1, <3>5
    <3>. QED
      BY <3>8, <3>9, <3>10, <3>11
  <2>2. CASE ~UpgradeRuns
    <3>1. migrate'.status = "failed"
      BY <1>8, <2>2 DEF Upgrade, Typed
    <3>. QED
      BY <1>8, <2>2, <3>1 DEF Upgrade
  <2>. QED
    BY <2>1, <2>2
<1>9. CASE SyncRole
  BY <1>9 DEF SyncRole, Typed
<1>10. CASE SyncFails \/ MigrateDies
  <2>1. migrate'.status = "failed" /\ spent'.edits = spent.edits
    BY <1>10 DEF SyncFails, MigrateDies, Fault, Spend, Typed
  <2>. QED
    BY <1>10, <2>1 DEF SyncFails, MigrateDies
<1>11. CASE PostgresFails \/ RedisFails \/ PostgresReturns \/ RedisReturns
  <2>1. postgres'.schema = postgres.schema /\ spent'.edits = spent.edits
    BY <1>11 DEF PostgresFails, RedisFails, PostgresReturns, RedisReturns, Fault, Spend, Typed
  <2>. QED
    BY <1>11, <2>1 DEF PostgresFails, RedisFails, PostgresReturns, RedisReturns
<1>12. ASSUME NEW w \in Workers, Crash(w) PROVE SchemaInv'
  <2>1. spent'.edits = spent.edits
    BY <1>12 DEF Crash, Fault, Spend, Typed
  <2>. QED
    BY <1>0, <1>12, <2>1 DEF Crash, Down, Started
<1>13. ASSUME NEW w \in Workers, Lifespan(w) \/ Query(w) PROVE SchemaInv'
  <2>1. /\ UNCHANGED <<mode, env, image, redis, roles, rollout, migrate, api, spent>>
        /\ \A v \in Workers : v # w => worker'[v] = worker[v]
        /\ worker[w].pc = "down" => api.status = "started"
        /\ worker'[w].pc \in Started => worker[w].pc \in Started \cup {"database"}
    BY <1>13, WorkerGoes
  <2>2. CASE postgres' = postgres /\ ~(worker[w].pc = "database" /\ worker'[w].pc \in Started /\ MakesTables)
    BY <1>0, <2>1, <2>2 DEF MakesTables, Started
  <2>3. CASE worker[w].pc = "database" /\ MakesTables /\ postgres' = [postgres EXCEPT !.schema = CreatedAll(@, api.release)]
    <3>. DEFINE new == CreatedAll(postgres.schema, api.release)
    <3>1. postgres'.schema = new
      BY <1>0, <2>3
    <3>2. /\ new.version = postgres.schema.version
          /\ postgres.schema.tables \subseteq new.tables /\ ModelTables(api.release) \subseteq new.tables
      BY <1>0 DEF CreatedAll, Schema
    <3>3. LabelsAreComplete(new)
      BY <1>0, CreateCompletes
    <3>4. mode = "prod" => new = postgres.schema
      BY <1>0, <1>a, <1>b, <2>3, NothingToCreate
    <3>5. MigratedOnly => mode = "prod"
      BY <2>3 DEF MakesTables
    <3>. HIDE DEF new
    <3>6. OfItsVersion'
      BY <2>1, <3>1, <3>2, <3>4, <3>5
    <3>7. NotBehind' /\ TablesMade' /\ FileIsTheHosts'
      BY <2>1, <2>3, <3>1, <3>2
    <3>8. LabelsAreComplete(postgres.schema)'
      BY <3>1, <3>3
    <3>. QED
      BY <3>6, <3>7, <3>8
  <2>. QED
    BY <1>13, <2>2, <2>3, WorkerGoes
<1>14. ASSUME NEW role \in RoleNames, NEW p \in HandGrants, HandEdit(role, p) PROVE SchemaInv'
  BY <1>14 DEF HandEdit
<1>15. CASE UNCHANGED vars
  BY <1>15 DEF vars
<1>. QED
  BY <1>1, <1>2, <1>3, <1>4, <1>5, <1>6, <1>7, <1>8, <1>9, <1>10, <1>11, <1>12, <1>13, <1>14, <1>15
     DEF Next, Operator, Compose, Job, Failures, Recovery

\* What keeps the schema right is enough for those who serve.
LEMMA SchemaSays == Typed /\ SchemaInv => SchemaIsRight
<1>. SUFFICES ASSUME Typed, SchemaInv PROVE SchemaIsRight
  OBVIOUS
<1>. USE DEF SchemaInv, OfItsVersion, MigratedOnly, NotBehind, TablesMade
<1>1. api.release \in Checkout /\ postgres.schema.version \in Nat
  BY DeploymentAssumption DEF Typed, Schema
<1>2. ASSUME Serving, mode = "prod" PROVE Fits(postgres.schema, api.release)
  <2>1. postgres.schema.version >= api.release.head /\ postgres.schema = SchemaAt(postgres.schema.version)
    BY <1>2 DEF Serving
  <2>2. api.release.head \in Nat
    BY <1>1, SixRevisions DEF Checkout
  <2>. QED
    BY <1>1, <2>1, <2>2, CheckoutFits
<1>3. ASSUME Serving, api.env.createTables PROVE Fits(postgres.schema, api.release)
  <2>1. ModelTables(api.release) \subseteq postgres.schema.tables
    BY <1>3 DEF Serving, Started
  <2>2. "key_permissions" \in postgres.schema.tables
    BY <2>1 DEF ModelTables, PlatformTables
  <2>. QED
    BY <2>1, <2>2 DEF Fits, LabelsAreComplete
<1>. QED
  BY <1>2, <1>3 DEF SchemaIsRight

-----------------------------------------------------------------------------
(* What may serve, and what is open *)

\* A worker that serves was let through, and what is let through is as intended.
LEMMA ExposureSays == Typed /\ HostInv => ExposureIsIntended
<1>. SUFFICES ASSUME Typed, HostInv, Serving PROVE api.env \in Intended
  BY DEF ExposureIsIntended
<1>1. api.env \in Containers
  BY DEF Typed
<1>2. api.env \in Settings
  BY <1>1, DeploymentAssumption, ContainerOf DEF Containers
<1>3. ~RefusesToStart(api.env)
  BY DEF Serving, HostInv, EnvPassed, Started
<1>4. Guarded(api.env)
  BY <1>2, AlwaysGuarded
<1>5. api.env.environment = "production" /\ api.env.validation => Hardened(api.env)
  BY <1>2, <1>3, PassedIsHardened
<1>. QED
  BY <1>1, <1>4, <1>5 DEF Intended, Containers

Closers(stack) == {stack[i] : i \in DOMAIN stack}

\* What pushing a closer and calling the last one do to the set of them.
LEMMA ClosersOf ==
    ASSUME NEW stack \in Seq(Resource)
    PROVE  /\ Closers(<<>>) = {}
           /\ \A x \in Resource : /\ Closers(<<x>>) = {x}
                                  /\ Closers(<<x>> \o stack) = {x} \cup Closers(stack)
           /\ <<>> \o stack = stack
           /\ stack # <<>> => Closers(stack) = {Head(stack)} \cup Closers(Tail(stack))
<1>1. Closers(<<>>) = {}
  BY DEF Closers
<1>2. ASSUME NEW x \in Resource PROVE Closers(<<x>>) = {x} /\ Closers(<<x>> \o stack) = {x} \cup Closers(stack)
  <2>1. <<x>> \in Seq(Resource) /\ Len(<<x>>) = 1 /\ DOMAIN <<x>> = 1..1 /\ <<x>>[1] = x
    OBVIOUS
  <2>2. Closers(<<x>>) = {x}
    BY <2>1 DEF Closers
  <2>. DEFINE s == <<x>> \o stack
  <2>3. s \in Seq(Resource) /\ Len(s) = 1 + Len(stack)
    BY <2>1, ConcatProperties
  <2>4. s[1] = x /\ \A i \in 1..Len(stack) : s[i + 1] = stack[i]
    <3>1. \A i \in 1..Len(s) : s[i] = IF i <= 1 THEN <<x>>[i] ELSE stack[i - 1]
      BY <2>1, <2>3, ConcatProperties
    <3>2. Len(stack) \in Nat
      OBVIOUS
    <3>. HIDE DEF s
    <3>3. s[1] = x
      BY <2>1, <2>3, <3>1, <3>2
    <3>4. ASSUME NEW i \in 1..Len(stack) PROVE s[i + 1] = stack[i]
      <4>1. i + 1 \in 1..Len(s) /\ ~(i + 1 <= 1) /\ (i + 1) - 1 = i
        BY <2>3, <3>2
      <4>. QED
        BY <3>1, <4>1
    <3>. QED
      BY <3>3, <3>4
  <2>. HIDE DEF s
  <2>5. DOMAIN s = 1..(1 + Len(stack)) /\ DOMAIN stack = 1..Len(stack) /\ Len(stack) \in Nat
    BY <2>3
  <2>6. Closers(s) \subseteq {x} \cup Closers(stack)
    <3>1. SUFFICES ASSUME NEW j \in 1..(1 + Len(stack)) PROVE s[j] = x \/ s[j] \in Closers(stack)
      BY <2>5 DEF Closers
    <3>2. CASE j = 1
      BY <3>2, <2>4
    <3>3. CASE j # 1
      <4>1. j - 1 \in 1..Len(stack) /\ (j - 1) + 1 = j
        BY <3>3, <2>5
      <4>2. s[j] = stack[j - 1]
        BY <4>1, <2>4
      <4>. QED
        BY <4>1, <4>2, <2>5 DEF Closers
    <3>. QED
      BY <3>2, <3>3
  <2>7. {x} \cup Closers(stack) \subseteq Closers(s)
    <3>1. 1 \in DOMAIN s /\ \A i \in 1..Len(stack) : i + 1 \in DOMAIN s
      BY <2>5
    <3>. QED
      BY <3>1, <2>4, <2>5 DEF Closers
  <2>8. Closers(s) = {x} \cup Closers(stack)
    BY <2>6, <2>7
  <2>. QED
    BY <2>2, <2>8 DEF s
<1>3. <<>> \o stack = stack
  BY ConcatEmptySeq
<1>4. ASSUME stack # <<>> PROVE Closers(stack) = {Head(stack)} \cup Closers(Tail(stack))
  <2>1. /\ Tail(stack) \in Seq(Resource) /\ Len(Tail(stack)) = Len(stack) - 1
        /\ \A i \in 1..Len(Tail(stack)) : Tail(stack)[i] = stack[i + 1]
    BY <1>4, HeadTailProperties
  <2>2. Len(stack) \in Nat /\ Len(stack) >= 1 /\ Head(stack) = stack[1]
    BY <1>4, HeadTailProperties, EmptySeq
  <2>3. DOMAIN stack = 1..Len(stack) /\ DOMAIN Tail(stack) = 1..(Len(stack) - 1)
    BY <2>1
  <2>4. Closers(stack) \subseteq {Head(stack)} \cup Closers(Tail(stack))
    <3>1. SUFFICES ASSUME NEW j \in 1..Len(stack) PROVE stack[j] = Head(stack) \/ stack[j] \in Closers(Tail(stack))
      BY <2>3 DEF Closers
    <3>2. CASE j = 1
      BY <3>2, <2>2
    <3>3. CASE j # 1
      <4>1. j - 1 \in 1..(Len(stack) - 1) /\ (j - 1) + 1 = j
        BY <3>3, <2>2
      <4>2. stack[j] = Tail(stack)[j - 1]
        BY <4>1, <2>1
      <4>. QED
        BY <4>1, <4>2, <2>3 DEF Closers
    <3>. QED
      BY <3>2, <3>3
  <2>5. {Head(stack)} \cup Closers(Tail(stack)) \subseteq Closers(stack)
    <3>1. 1 \in DOMAIN stack /\ \A i \in DOMAIN Tail(stack) : i + 1 \in DOMAIN stack /\ Tail(stack)[i] = stack[i + 1]
      BY <2>1, <2>2, <2>3
    <3>. QED
      BY <3>1, <2>2 DEF Closers
  <2>. QED
    BY <2>4, <2>5
<1>. QED
  BY <1>1, <1>2, <1>3, <1>4

\* The closer of whatever is open is on the stack, and that of the database from its step on, before
\* the pool opens its first connection.
ExitStacks ==
    \A w \in Workers :
        /\ worker[w].open \subseteq Closers(worker[w].stack)
        /\ worker[w].pc \in Started => "database" \in Closers(worker[w].stack)

\* Nothing is open at the start.
LEMMA StacksStart == Init => ExitStacks
BY DEF Init, Down, ExitStacks, Started

\* A worker that moves to a stack with the closers of what is open keeps the others as they are.
LEMMA StacksMove ==
    ASSUME Typed, ExitStacks, NEW w \in Workers, NEW pc, NEW stack, NEW open, Move(w, pc, stack, open),
           open \subseteq Closers(stack), pc \in Started => "database" \in Closers(stack)
    PROVE  ExitStacks'
BY DEF Typed, ExitStacks, Move

\* No step opens what the stack does not close, or drops a closer before it was called.
LEMMA StacksKept == Typed /\ ExitStacks /\ [Next]_vars => ExitStacks'
<1>. SUFFICES ASSUME Typed, ExitStacks, [Next]_vars PROVE ExitStacks'
  OBVIOUS
<1>0. worker \in [Workers -> Worker]
  BY DEF Typed
<1>1. CASE UNCHANGED worker
  BY <1>1 DEF ExitStacks
<1>2. CASE Start
  BY <1>0, <1>2 DEF Start, Down, ExitStacks, Started
<1>3. ASSUME NEW w \in Workers, Crash(w) PROVE ExitStacks'
  BY <1>0, <1>3 DEF Crash, Down, ExitStacks, Started
<1>4. ASSUME NEW w \in Workers, Lifespan(w) \/ Query(w) PROVE ExitStacks'
  <2>. DEFINE stack == worker[w].stack
              open == worker[w].open
  <2>1. /\ stack \in Seq(Resource) /\ open \subseteq Closers(stack)
        /\ worker[w].pc \in Started => "database" \in Closers(stack)
    BY <1>0 DEF Worker, ExitStacks
  <2>2. Closers(<<>>) = {}
    BY <2>1, ClosersOf
  <2>3. ASSUME NEW x \in Resource PROVE Closers(<<x>>) = {x} /\ Closers(<<x>> \o stack) = {x} \cup Closers(stack)
    BY <2>1, ClosersOf
  <2>4. <<>> \o stack = stack
    BY <2>1, ClosersOf
  <2>5. stack # <<>> => Closers(stack) = {Head(stack)} \cup Closers(Tail(stack))
    BY <2>1, ClosersOf
  <2>6. "database" \in Resource /\ "cache" \in Resource /\ "limiter" \in Resource /\ "auth" \in Resource
    BY DEF Resource
  <2>7. ASSUME NEW enabled, NEW backend, NEW x \in Resource
        PROVE  /\ Closers(stack) \subseteq Closers(Pushed(enabled, x) \o stack)
               /\ Opened(enabled, backend, x) \subseteq Closers(Pushed(enabled, x) \o stack)
    BY <2>3, <2>4 DEF Pushed, Opened
  <2>. HIDE DEF stack, open
  <2>8. CASE Boot(w)
    <3>1. PICK pc \in {"down", "database"} : Move(w, pc, <<>>, {})
      BY <2>8 DEF Boot
    <3>. QED
      BY <3>1, StacksMove DEF Started
  <2>9. CASE OpenDatabase(w)
    <3>1. PICK pc : Move(w, pc, <<"database">>, {}) \/ Move(w, pc, <<"database">>, {"database"})
      BY <2>9 DEF OpenDatabase
    <3>2. {} \subseteq Closers(<<"database">>) /\ {"database"} \subseteq Closers(<<"database">>)
          /\ "database" \in Closers(<<"database">>)
      BY <2>3, <2>6
    <3>. QED
      BY <3>1, <3>2, StacksMove
  <2>10. CASE OpenCache(w)
    <3>. DEFINE s == Pushed(api.env.cacheEnabled, "cache") \o stack
                o == open \cup Opened(api.env.cacheEnabled, api.env.cacheBackend, "cache")
    <3>1. Move(w, "limiter", s, o) /\ worker[w].pc = "cache"
      BY <2>10 DEF OpenCache, stack, open
    <3>2. o \subseteq Closers(s) /\ "database" \in Closers(s)
      BY <2>1, <2>6, <2>7, <3>1 DEF Started
    <3>. QED
      BY <3>1, <3>2, StacksMove
  <2>11. CASE OpenLimiter(w)
    <3>. DEFINE s == Pushed(api.env.limiterEnabled, "limiter") \o stack
                o == open \cup Opened(api.env.limiterEnabled, api.env.limiterBackend, "limiter")
    <3>1. Move(w, "auth", s, o) /\ worker[w].pc = "limiter"
      BY <2>11 DEF OpenLimiter, stack, open
    <3>2. o \subseteq Closers(s) /\ "database" \in Closers(s)
      BY <2>1, <2>6, <2>7, <3>1 DEF Started
    <3>. QED
      BY <3>1, <3>2, StacksMove
  <2>12. CASE OpenAuth(w)
    <3>1. PICK pc : Move(w, pc, <<"auth">> \o stack, open \cup {"auth"}) /\ worker[w].pc = "auth"
      BY <2>12 DEF OpenAuth, AuthFails, stack, open
    <3>2. open \cup {"auth"} \subseteq Closers(<<"auth">> \o stack) /\ "database" \in Closers(<<"auth">> \o stack)
      BY <2>1, <2>3, <2>6, <3>1 DEF Started
    <3>. QED
      BY <3>1, <3>2, StacksMove
  <2>13. CASE Stop(w)
    <3>1. Move(w, "unwinding", stack, open)
      BY <2>13 DEF Stop, stack, open
    <3>. QED
      BY <2>1, <3>1, StacksMove DEF Started
  <2>14. CASE Unwind(w)
    <3>1. CASE stack = <<>>
      <4>1. Move(w, "down", <<>>, open)
        BY <2>14, <3>1 DEF Unwind, stack, open
      <4>. QED
        BY <2>1, <3>1, <4>1, StacksMove DEF Started
    <3>2. CASE stack # <<>>
      <4>1. Move(w, "unwinding", Tail(stack), open \ {Head(stack)})
        BY <2>14, <3>2 DEF Unwind, stack, open
      <4>2. open \ {Head(stack)} \subseteq Closers(Tail(stack))
        BY <2>1, <2>5, <3>2
      <4>. QED
        BY <4>1, <4>2, StacksMove DEF Started
    <3>. QED
      BY <3>1, <3>2
  <2>15. CASE Restart(w)
    <3>1. Move(w, "boot", <<>>, {})
      BY <2>15 DEF Restart
    <3>. QED
      BY <3>1, StacksMove DEF Started
  <2>16. CASE Query(w)
    <3>1. Move(w, "serving", stack, open \cup {"database"}) /\ worker[w].pc = "serving"
      BY <2>16 DEF Query, stack, open
    <3>2. open \cup {"database"} \subseteq Closers(stack) /\ "database" \in Closers(stack)
      BY <2>1, <3>1 DEF Started
    <3>. QED
      BY <3>1, <3>2, StacksMove
  <2>. QED
    BY <1>4, <2>8, <2>9, <2>10, <2>11, <2>12, <2>13, <2>14, <2>15, <2>16 DEF Lifespan
<1>5. ASSUME Next PROVE UNCHANGED worker \/ Start \/ \E w \in Workers : Crash(w) \/ Lifespan(w) \/ Query(w)
  BY <1>5 DEF Next, Operator, Compose, Job, Failures, Recovery, EditEnv, Build, Up, Exec, Create, GiveUp, Upgrade,
     SyncRole, SyncFails, PostgresFails, RedisFails, MigrateDies, PostgresReturns, RedisReturns, HandEdit
<1>. QED
  BY <1>1, <1>2, <1>3, <1>4, <1>5 DEF vars

\* With the closer of all that is open on its stack, a worker leaks nothing.
LEMMA StacksSay == ExitStacks => NothingLeaks
BY DEF ExitStacks, NothingLeaks, Closers

-----------------------------------------------------------------------------
(* The rollout *)

\* Why a release with its file cannot come up, on the schema and the volume as they are.
Reasons(release, e) ==
    \/ ~Imports(release) \/ ~SeedsRoles(release)
    \/ release.head < postgres.schema.version
    \/ e.environment = "production" /\ "empty" \in e.secret
    \/ ~Admits(e)

\* Where nothing fails the servers are up when the job runs, and so it fails for a reason only.
FailsForAReason ==
    mode = "prod" /\ spent.faults = 0 =>
        /\ rollout # "idle" => postgres.up /\ redis.up
        /\ rollout = "starting" /\ migrate.status = "failed" => Reasons(migrate.release, migrate.env)
        /\ rollout = "idle" /\ api.status = "created" => Reasons(api.release, api.env)

\* There is no job at the start.
LEMMA ReasonsStart == Init => FailsForAReason
BY DEF Init, FailsForAReason

\* Where nothing fails, every job that fails has a reason, and it lasts until the next "up".
LEMMA ReasonsKept == Typed /\ HostInv /\ SchemaInv /\ FailsForAReason /\ [Next]_vars => FailsForAReason'
<1>. SUFFICES ASSUME Typed, HostInv, SchemaInv, FailsForAReason, [Next]_vars PROVE FailsForAReason'
  OBVIOUS
<1>. USE DEF host, store, FailsForAReason
<1>0. /\ api.status \in {"none", "created", "started", "stopping"}
      /\ rollout \in {"idle", "replacing", "starting"}
      /\ spent.faults \in Nat
      /\ migrate.release \in Checkout /\ postgres.schema \in Schema /\ postgres.up \in BOOLEAN
  BY DeploymentAssumption DEF Typed
<1>a. postgres.schema.version \in 0..6 /\ migrate.release.head \in 0..6
  BY <1>0, SixRevisions DEF Schema, Checkout
<1>1. ASSUME NEW e \in EnvFiles, EditEnv(e) PROVE FailsForAReason'
  <2>1. spent'.faults = spent.faults
    BY <1>1 DEF EditEnv, Spend, Typed
  <2>. QED
    BY <1>1, <2>1 DEF EditEnv, Reasons, Admits
<1>2. ASSUME NEW r \in Releases, Build(r) PROVE FailsForAReason'
  <2>1. spent'.faults = spent.faults
    BY <1>2 DEF Build, Spend, Typed
  <2>. QED
    BY <1>2, <2>1 DEF Build, Reasons, Admits
<1>3. CASE Up
  <2>1. postgres'.up /\ redis'.up /\ rollout' = "replacing"
    BY <1>3 DEF Up, Typed
  <2>. QED
    BY <2>1
<1>4. CASE Exec
  BY <1>4 DEF Exec
<1>5. CASE Create
  <2>1. rollout' = "starting" /\ rollout # "idle" /\ (mode = "prod" => migrate'.status = "upgrading")
    BY <1>5 DEF Create
  <2>. QED
    BY <1>5, <2>1 DEF Create
<1>6. CASE Start
  <2>1. api'.status = "started" /\ rollout' = "idle"
    BY <1>6 DEF Start, Typed
  <2>. QED
    BY <2>1
<1>7. CASE GiveUp
  <2>1. SUFFICES ASSUME mode = "prod", spent.faults = 0, api.status = "created" PROVE Reasons(api.release, api.env)'
    BY <1>7 DEF GiveUp
  <2>2. postgres.up /\ redis.up /\ rollout = "starting"
    BY <1>7, <2>1 DEF GiveUp
  <2>3. migrate.status = "failed"
    BY <1>7, <2>2 DEF GiveUp
  <2>4. api.release = migrate.release /\ api.env = migrate.env
    BY <2>1, <2>2 DEF HostInv, UpIsOfTheHost
  <2>5. Reasons(api.release, api.env)
    BY <2>1, <2>2, <2>3, <2>4
  <2>. QED
    BY <1>7, <2>5 DEF GiveUp, Reasons, Admits
<1>8. CASE Upgrade
  <2>1. SUFFICES ASSUME mode = "prod", spent.faults = 0 PROVE FailsForAReason'
    BY <1>8 DEF Upgrade
  <2>2. rollout = "starting" /\ rollout' = "starting" /\ postgres.up /\ redis.up
    BY <1>8, <2>1 DEF Upgrade, HostInv, UpIsOfTheHost, Running
  <2>3. CASE UpgradeRuns
    <3>1. postgres'.up = postgres.up /\ redis' = redis /\ migrate'.status = "syncing"
      BY <1>8, <2>3 DEF Upgrade, Typed
    <3>. QED
      BY <2>2, <3>1
  <2>4. CASE ~UpgradeRuns
    <3>1. UNCHANGED <<postgres, redis>> /\ migrate'.release = migrate.release /\ migrate'.env = migrate.env
      BY <1>8, <2>4 DEF Upgrade, Typed
    <3>2. ~Confirmed(migrate.env) => migrate.env.environment = "production" /\ "empty" \in migrate.env.secret
      BY <2>1 DEF Confirmed
    <3>3. ~Connects(migrate.env) => ~Admits(migrate.env)
      BY <2>2 DEF Connects
    <3>4. ~CanUpgrade(postgres.schema, migrate.release.head) => migrate.release.head < postgres.schema.version
      <4>1. postgres.schema = SchemaAt(postgres.schema.version)
        BY <2>1 DEF SchemaInv, OfItsVersion, MigratedOnly
      <4>2. postgres.schema.version <= migrate.release.head => CanUpgrade(postgres.schema, migrate.release.head)
        <5>. SUFFICES ASSUME postgres.schema.version <= migrate.release.head
                      PROVE  CanUpgrade(SchemaAt(postgres.schema.version), migrate.release.head)
          BY <4>1
        <5>. QED
          BY <1>a, UpgradesApply
      <4>. QED
        BY <1>a, <4>2
    <3>5. Reasons(migrate.release, migrate.env)
      BY <2>4, <3>2, <3>3, <3>4 DEF UpgradeRuns, Reasons
    <3>6. Reasons(migrate.release, migrate.env)'
      BY <3>1, <3>5 DEF Reasons, Admits
    <3>. QED
      BY <2>2, <3>1, <3>6
  <2>. QED
    BY <2>3, <2>4
<1>9. CASE SyncRole
  <2>1. migrate'.status \in {"done", "syncing"}
    BY <1>9 DEF SyncRole, Typed
  <2>2. mode = "prod" => rollout = "starting"
    BY <1>9 DEF SyncRole, HostInv, UpIsOfTheHost, Running
  <2>. QED
    BY <1>9, <2>1, <2>2 DEF SyncRole
<1>10. CASE SyncFails
  <2>1. SUFFICES ASSUME mode = "prod", spent.faults = 0 PROVE FailsForAReason'
    BY <1>10 DEF SyncFails
  <2>2. rollout = "starting" /\ rollout' = "starting" /\ postgres.up /\ redis.up
    BY <1>10, <2>1 DEF SyncFails, HostInv, UpIsOfTheHost, Running
  <2>3. UNCHANGED <<postgres, redis>> /\ migrate'.release = migrate.release /\ migrate'.env = migrate.env
    BY <1>10 DEF SyncFails, Typed
  <2>4. Reasons(migrate.release, migrate.env)
    BY <1>10, <2>2 DEF SyncFails, Connects, Reasons, Admits
  <2>5. Reasons(migrate.release, migrate.env)'
    BY <2>3, <2>4 DEF Reasons, Admits
  <2>. QED
    BY <2>2, <2>3, <2>5
<1>11. ASSUME Fault, mode' = mode PROVE FailsForAReason'
  <2>1. spent'.faults = spent.faults + 1
    BY <1>11 DEF Fault, Spend, Typed
  <2>. QED
    BY <1>0, <2>1
<1>12. CASE Failures
  BY <1>11, <1>12 DEF Failures, PostgresFails, RedisFails, MigrateDies, Crash
<1>13. CASE PostgresReturns
  <2>1. postgres'.up /\ postgres'.schema = postgres.schema /\ postgres'.password = postgres.password
    BY <1>13 DEF PostgresReturns, Typed
  <2>. QED
    BY <1>13, <2>1 DEF PostgresReturns, Reasons, Admits
<1>14. CASE RedisReturns
  <2>1. redis'.up
    BY <1>14 DEF RedisReturns, Typed
  <2>. QED
    BY <1>14, <2>1 DEF RedisReturns, Reasons, Admits
<1>15. ASSUME NEW w \in Workers, Lifespan(w) \/ Query(w) PROVE FailsForAReason'
  <2>1. UNCHANGED <<mode, env, image, redis, roles, rollout, migrate, api, spent>>
    BY <1>15, WorkerGoes
  <2>2. /\ postgres'.up = postgres.up /\ postgres'.password = postgres.password
        /\ postgres'.schema.version = postgres.schema.version
    <3>1. CASE postgres' = postgres
      BY <3>1
    <3>2. CASE postgres' = [postgres EXCEPT !.schema = CreatedAll(@, api.release)]
      <4>1. CreatedAll(postgres.schema, api.release).version = postgres.schema.version
        BY <1>0 DEF CreatedAll, Schema
      <4>. QED
        BY <3>2, <4>1 DEF Typed
    <3>. QED
      BY <1>15, <3>1, <3>2, WorkerGoes
  <2>. QED
    BY <2>1, <2>2 DEF Reasons, Admits
<1>16. ASSUME NEW role \in RoleNames, NEW p \in HandGrants, HandEdit(role, p) PROVE FailsForAReason'
  BY <1>16 DEF HandEdit, Reasons, Admits
<1>17. CASE UNCHANGED vars
  BY <1>17 DEF vars, Reasons, Admits
<1>. QED
  BY <1>1, <1>2, <1>3, <1>4, <1>5, <1>6, <1>7, <1>8, <1>9, <1>10, <1>12, <1>13, <1>14, <1>15, <1>16, <1>17
     DEF Next, Operator, Compose, Job, Recovery

\* The reasons are the five the property names.
LEMMA ReasonsSay == FailsForAReason => RolloutStarts
BY DEF FailsForAReason, RolloutStarts, Reasons, Admits

-----------------------------------------------------------------------------
(* The roles *)

\* The job leaves the roles it is done with as the image has them, and "up" starts the API after all of them.
Held(release, role) == roles[role].edited \/ roles[role].permissions = Resolved(release, role)

RolesSynced ==
    mode = "prod" =>
        /\ rollout = "starting" /\ migrate.status \in Running => \A i \in 1..(migrate.next - 1) : Held(image, Roles[i])
        /\ rollout = "starting" /\ migrate.status = "done" => \A role \in RoleNames : Held(image, role)
        /\ api.status = "started" => \A role \in RoleNames : Held(api.release, role)

\* There is no role to follow at the start.
LEMMA RolesStart == Init => RolesSynced
BY DEF Init, RolesSynced

\* A role that was synced stays as the image has it or as it was edited, until the next release.
LEMMA RolesKept == Typed /\ HostInv /\ RolesSynced /\ [Next]_vars => RolesSynced'
<1>. SUFFICES ASSUME Typed, HostInv, RolesSynced, [Next]_vars PROVE RolesSynced'
  OBVIOUS
<1>m. mode' = mode
  <2>1. ASSUME NEW w \in Workers, Lifespan(w) \/ Query(w) PROVE mode' = mode
    BY <2>1, WorkerGoes
  <2>. QED
    BY <2>1 DEF Next, vars, host, Operator, Compose, Job, Failures, Recovery, EditEnv, Build, Up, Exec, Create,
       Start, GiveUp, Upgrade, SyncRole, SyncFails, PostgresFails, RedisFails, MigrateDies, Crash, PostgresReturns,
       RedisReturns, HandEdit
<1>. SUFFICES ASSUME mode = "prod" PROVE RolesSynced'
  BY <1>m DEF RolesSynced
<1>. USE DEF host, store
<1>0. /\ api.status \in {"none", "created", "started", "stopping"}
      /\ rollout \in {"idle", "replacing", "starting"}
      /\ migrate.next \in 1..3
      /\ roles \in [RoleNames -> [permissions : SUBSET Permissions, edited : BOOLEAN]]
  BY ThreeRoles DEF Typed
<1>a. mode = "prod" /\ rollout = "starting" => migrate.release = image
  BY DEF HostInv, UpIsOfTheHost
<1>b. rollout # "idle" /\ api.status \in {"created", "started"} => api.release = image
  BY DEF HostInv, UpIsOfTheHost
<1>1. ASSUME NEW e \in EnvFiles, EditEnv(e) PROVE RolesSynced'
  BY <1>1 DEF EditEnv, RolesSynced, Held
<1>2. ASSUME NEW r \in Releases, Build(r) PROVE RolesSynced'
  BY <1>2 DEF Build, RolesSynced, Held
<1>3. CASE Up
  <2>1. rollout' = "replacing" /\ UNCHANGED <<mode, roles>>
        /\ api'.release = api.release /\ (api'.status = "started" => api.status = "started")
    BY <1>3 DEF Up, Typed
  <2>. QED
    BY <2>1 DEF RolesSynced, Held
<1>4. CASE Exec
  BY <1>4 DEF Exec
<1>5. CASE Create
  <2>1. /\ UNCHANGED <<mode, roles>> /\ migrate'.status = "upgrading" /\ migrate'.next = 1
        /\ api'.status = "started" => api' = api
    BY <1>5 DEF Create
  <2>. QED
    BY <2>1 DEF RolesSynced, Held, Running
<1>6. CASE Start
  <2>1. /\ UNCHANGED <<mode, roles>> /\ rollout' = "idle" /\ api'.release = api.release
        /\ rollout = "starting" /\ migrate.status = "done" /\ api.release = image
    BY <1>6 DEF Start, Migrated, Typed, HostInv, UpIsOfTheHost
  <2>. QED
    BY <2>1 DEF RolesSynced, Held
<1>7. CASE GiveUp
  BY <1>7 DEF GiveUp, RolesSynced, Held
<1>8. CASE Upgrade
  <2>1. /\ UNCHANGED <<mode, image, roles, rollout, api>>
        /\ migrate.status \in Running /\ migrate'.next = migrate.next /\ migrate'.status \in {"syncing", "failed"}
    BY <1>8 DEF Upgrade, Typed, Running
  <2>. QED
    BY <2>1 DEF RolesSynced, Held, Running
<1>9. CASE SyncRole
  <2>. DEFINE n == migrate.next
              role == Roles[n]
  <2>1. rollout = "starting" /\ migrate.release = image /\ UNCHANGED <<mode, image, rollout, api>>
    BY <1>9, <1>a DEF SyncRole, HostInv, UpIsOfTheHost, Running
  <2>2. role \in RoleNames /\ \A i \in 1..3, j \in 1..3 : i # j => Roles[i] # Roles[j]
    BY <1>0, ThreeRoles
  <2>3. /\ roles'[role].permissions = Resolved(image, role)
        /\ \A other \in RoleNames : other # role => roles'[other] = roles[other]
    <3>1. SyncedRole(role) = [permissions |-> Resolved(image, role), edited |-> FALSE]
      BY <2>1 DEF SyncedRole
    <3>2. roles' = [roles EXCEPT ![role] = SyncedRole(role)]
      BY <1>9 DEF SyncRole
    <3>. HIDE DEF role
    <3>. QED
      BY <1>0, <2>2, <3>1, <3>2
  <2>4. \A i \in 1..(n - 1) : Held(image, Roles[i])
    BY <1>9, <2>1 DEF RolesSynced, SyncRole, Running
  <2>5. ASSUME NEW i \in 1..n PROVE Held(image, Roles[i])'
    <3>1. CASE i = n
      BY <2>1, <2>3, <3>1 DEF Held
    <3>2. CASE i # n
      <4>1. i \in 1..(n - 1) /\ i \in 1..3 /\ n \in 1..3
        BY <1>0, <3>2
      <4>2. Roles[i] # role /\ Roles[i] \in RoleNames
        BY <4>1, <3>2, <2>2, ThreeRoles
      <4>. QED
        BY <2>1, <2>3, <2>4, <4>1, <4>2 DEF Held
    <3>. QED
      BY <3>1, <3>2
  <2>6. /\ AtLastRole => migrate'.status = "done" /\ n = 3
        /\ ~AtLastRole => migrate'.status = "syncing" /\ migrate'.next = n + 1
    BY <1>9, ThreeRoles DEF SyncRole, AtLastRole, Typed
  <2>7. api.status = "started" => \A other \in RoleNames : Held(api.release, other)'
    <3>1. SUFFICES ASSUME api.status = "started", NEW other \in RoleNames PROVE Held(api.release, other)'
      OBVIOUS
    <3>2. api.release = image /\ Held(image, other)
      BY <1>b, <2>1, <3>1 DEF RolesSynced
    <3>. QED
      BY <2>1, <2>3, <3>2 DEF Held
  <2>8. CASE AtLastRole
    <3>1. \A other \in RoleNames : \E i \in 1..n : other = Roles[i]
      BY <2>6, <2>8, ThreeRoles
    <3>2. \A other \in RoleNames : Held(image, other)'
      BY <2>5, <3>1
    <3>. QED
      BY <2>1, <2>6, <2>7, <2>8, <3>2 DEF RolesSynced, Running
  <2>9. CASE ~AtLastRole
    <3>1. (n + 1) - 1 = n
      BY <1>0
    <3>2. \A i \in 1..(migrate.next - 1)' : Held(image, Roles[i])'
      BY <2>5, <2>6, <2>9, <3>1
    <3>. QED
      BY <2>1, <2>6, <2>7, <2>9, <3>2 DEF RolesSynced
  <2>. QED
    BY <2>8, <2>9
<1>10. CASE SyncFails \/ MigrateDies
  <2>1. UNCHANGED <<mode, image, roles, rollout, api>> /\ migrate'.status = "failed"
    BY <1>10 DEF SyncFails, MigrateDies, Typed
  <2>. QED
    BY <2>1 DEF RolesSynced, Held, Running
<1>11. CASE PostgresFails \/ RedisFails \/ PostgresReturns \/ RedisReturns
  BY <1>11 DEF PostgresFails, RedisFails, PostgresReturns, RedisReturns, RolesSynced, Held
<1>12. ASSUME NEW w \in Workers, Crash(w) PROVE RolesSynced'
  BY <1>12 DEF Crash, RolesSynced, Held
<1>13. ASSUME NEW w \in Workers, Lifespan(w) \/ Query(w) PROVE RolesSynced'
  <2>1. UNCHANGED <<mode, env, image, redis, roles, rollout, migrate, api, spent>>
    BY <1>13, WorkerGoes
  <2>. QED
    BY <2>1 DEF RolesSynced, Held
<1>14. ASSUME NEW role \in RoleNames, NEW p \in HandGrants, HandEdit(role, p) PROVE RolesSynced'
  <2>1. /\ UNCHANGED <<mode, image, rollout, migrate, api>>
        /\ roles'[role].edited /\ \A other \in RoleNames : other # role => roles'[other] = roles[other]
    BY <1>0, <1>14 DEF HandEdit
  <2>2. ASSUME NEW release, NEW other \in RoleNames, Held(release, other) PROVE Held(release, other)'
    BY <2>1, <2>2 DEF Held
  <2>3. \A i \in 1..(migrate.next - 1) : Roles[i] \in RoleNames
    <3>1. 1..(migrate.next - 1) \subseteq 1..3
      BY <1>0
    <3>. QED
      BY <3>1, ThreeRoles
  <2>. QED
    BY <2>1, <2>2, <2>3 DEF RolesSynced
<1>15. CASE UNCHANGED vars
  BY <1>15 DEF vars, RolesSynced, Held
<1>. QED
  BY <1>1, <1>2, <1>3, <1>4, <1>5, <1>6, <1>7, <1>8, <1>9, <1>10, <1>11, <1>12, <1>13, <1>14, <1>15
     DEF Next, Operator, Compose, Job, Failures, Recovery

\* With all roles held at the start of the API, they follow its release.
LEMMA RolesSay == RolesSynced => RolesFollowTheRelease
BY DEF RolesSynced, RolesFollowTheRelease, Held

-----------------------------------------------------------------------------
(* The preflight *)

\* If no name is raised, nothing named holds.
LEMMA NothingRaised ==
    ASSUME NEW issues, Raised(issues) = {}
    PROVE  \A i \in DOMAIN issues : ~issues[i]
BY DEF Raised

\* What a preflight without problems excludes, on a schema that is the one of its version.
LEMMA PreflightSays == Typed /\ SchemaInv => PreflightIsEnough
<1>. DEFINE e == Container(env)
<1>. SUFFICES ASSUME Typed, SchemaInv, mode = "prod", redis.up, redis.password = ServerPassword(e), Preflight(e, image) = {}
     PROVE  /\ ~RefusesToStart(e) /\ Fits(postgres.schema, image)
            /\ Pings(SessionRedis(e)) /\ (e.sessionUrl = <<>> => Pings(e.cache))
            /\ Pings(e.cache) =>
                  /\ Pings(e.limiter) <=> e.limiter.port = e.cache.port
                  /\ Pings(BrokerRedis(e)) <=> e.taskiq.port = e.cache.port /\ e.taskiq.password # "reserved"
  BY DEF PreflightIsEnough
<1>1. CriticalIssues(e) = {} /\ SharedPasswordProblems(e) = {}
  BY DEF Preflight, ConfigProblems
<1>2. ~RefusesToStart(e)
  BY <1>1 DEF RefusesToStart
<1>3. e \in Settings /\ e.cache.host = "redis" /\ e.limiter.host = "redis" /\ e.taskiq.host = "redis"
  BY DeploymentAssumption, ContainerOf DEF Typed
<1>4. postgres.schema.version = image.head
  <2>. DEFINE issues == [unreachable |-> ~Connects(e), unversioned |-> postgres.schema.version = 0,
                         revision |-> postgres.schema.version # image.head]
  <2>1. Raised(issues) = {}
    BY DEF Preflight, DatabaseProblems
  <2>2. ~issues["revision"]
    <3>1. "revision" \in DOMAIN issues
      OBVIOUS
    <3>. HIDE DEF issues
    <3>. QED
      BY <2>1, <3>1, NothingRaised
  <2>. QED
    BY <2>2
<1>5. Fits(postgres.schema, image)
  <2>1. postgres.schema = SchemaAt(postgres.schema.version)
    BY DEF SchemaInv, OfItsVersion, MigratedOnly
  <2>2. image \in Checkout /\ image.head \in Nat
    BY DeploymentAssumption, SixRevisions DEF Typed, Checkout
  <2>3. Fits(SchemaAt(image.head), image)
    BY <2>2, CheckoutFits
  <2>. QED
    BY <1>4, <2>1, <2>3
<1>6. Pings(SessionRedis(e))
  <2>. DEFINE issues == [redis |-> ~Pings(SessionRedis(e))]
  <2>1. Raised(issues) = {}
    BY DEF Preflight
  <2>2. ~issues["redis"]
    <3>1. "redis" \in DOMAIN issues
      OBVIOUS
    <3>. HIDE DEF issues
    <3>. QED
      BY <2>1, <3>1, NothingRaised
  <2>. QED
    BY <2>2
<1>7. redis.password = e.cache.password
  BY DEF ServerPassword
<1>8. ASSUME e.sessionUrl = <<>> PROVE Pings(e.cache)
  <2>1. SessionRedis(e).host = e.cache.host /\ SessionRedis(e).port = e.cache.port /\ SessionRedis(e).password = e.cache.password
    BY <1>8 DEF SessionRedis
  <2>. QED
    BY <1>6, <2>1 DEF Pings, Accepts
<1>9. ASSUME NEW c \in {"limiter", "taskiq"}, e[c].port = e.cache.port PROVE e[c].password = e.cache.password
  <2>1. e[c].host = e.cache.host
    BY <1>3
  <2>. QED
    BY <1>1, <1>9, <2>1 DEF SharedPasswordProblems, SameServer
<1>10. ASSUME Pings(e.cache)
       PROVE  Pings(e.limiter) <=> e.limiter.port = e.cache.port
  <2>1. e["limiter"].port = e.cache.port => e["limiter"].password = e.cache.password
    BY <1>9
  <2>. QED
    BY <1>3, <1>10, <2>1 DEF Pings, Accepts
<1>11. ASSUME Pings(e.cache)
       PROVE  Pings(BrokerRedis(e)) <=> e.taskiq.port = e.cache.port /\ e.taskiq.password # "reserved"
  <2>1. e["taskiq"].port = e.cache.port => e["taskiq"].password = e.cache.password
    BY <1>9
  <2>2. e.taskiq \in Redis /\ e.cache.password # "garbled"
    BY <1>3 DEF Settings, Redis, RedisPassword, Unset
  <2>3. /\ BrokerRedis(e).host = e.taskiq.host /\ BrokerRedis(e).port = e.taskiq.port
        /\ BrokerRedis(e).password = Raw(e.taskiq.password)
    BY <2>2 DEF BrokerRedis, Redis
  <2>. QED
    BY <1>3, <1>7, <1>11, <2>1, <2>2, <2>3 DEF Pings, Accepts, Raw
<1>. QED
  BY <1>2, <1>5, <1>6, <1>8, <1>10, <1>11

-----------------------------------------------------------------------------
(* The specification *)

DeploymentInv ==
    /\ Typed /\ HostInv /\ SchemaInv
    /\ FailsForAReason /\ RolesSynced /\ ExitStacks

\* The inductive invariant: none of its parts but the types and the exit stacks is kept without the host's, and
\* the schema's is what the job's failures are told by.
THEOREM DeploymentInvariant == Spec => []DeploymentInv
<1>1. Init => DeploymentInv
  BY TypesStart, HostStarts, SchemaStarts, ReasonsStart, RolesStart, StacksStart DEF DeploymentInv
<1>2. DeploymentInv /\ [Next]_vars => DeploymentInv'
  BY TypesKept, HostKept, SchemaKept, ReasonsKept, RolesKept, StacksKept DEF DeploymentInv
<1>. QED
  BY <1>1, <1>2, PTL DEF Spec

\* The type invariant of the whole deployment.
THEOREM DeploymentTypes == Spec => []TypeOK
<1>1. DeploymentInv => TypeOK
  BY TypesSay DEF DeploymentInv
<1>. QED
  BY <1>1, DeploymentInvariant, PTL

\* The models that serve find their tables and labels, and the schema is the one its version says, whatever
\* checkouts were built before and however workers and the job interleave (migrations and create_all).
THEOREM SchemaHolds == Spec => []SchemaIsRight
<1>1. DeploymentInv => SchemaIsRight
  BY SchemaSays DEF DeploymentInv
<1>. QED
  BY <1>1, DeploymentInvariant, PTL

\* A preflight without problems, in a stack that is up, is a worker that starts on the schema of its models and whose
\* sessions answer, and tells by the ports alone which of the other clients get in, for every file there can be.
THEOREM PreflightHolds == Spec => []PreflightIsEnough
<1>1. DeploymentInv => PreflightIsEnough
  BY PreflightSays DEF DeploymentInv
<1>. QED
  BY <1>1, DeploymentInvariant, PTL

\* Where nothing failed, "up" ends with the API started or for one of the five reasons (the job of the compose stack).
THEOREM RolloutHolds == Spec => []RolloutStarts
<1>1. DeploymentInv => RolloutStarts
  BY ReasonsSay DEF DeploymentInv
<1>. QED
  BY <1>1, DeploymentInvariant, PTL

\* What serves is guarded by the middleware and, in production, hardened, for every file there can be.
THEOREM ExposureHolds == Spec => []ExposureIsIntended
<1>1. DeploymentInv => ExposureIsIntended
  BY ExposureSays DEF DeploymentInv
<1>. QED
  BY <1>1, DeploymentInvariant, PTL

\* A started API finds every role as its release seeds it or as somebody edited it since (scripts/sync_roles).
THEOREM RolesHold == Spec => []RolesFollowTheRelease
<1>1. DeploymentInv => RolesFollowTheRelease
  BY RolesSay DEF DeploymentInv
<1>. QED
  BY <1>1, DeploymentInvariant, PTL

\* Whatever a worker has open its exit stack closes, wherever its start or its end is broken off (the lifespan).
THEOREM StacksHold == Spec => []NothingLeaks
<1>1. DeploymentInv => NothingLeaks
  BY StacksSay DEF DeploymentInv
<1>. QED
  BY <1>1, DeploymentInvariant, PTL

\* What a deploy meets when it is done again.
RedeployIsSafe ==
    mode = "prod" =>
        /\ CanUpgrade(postgres.schema, postgres.schema.version)
        /\ Upgraded(postgres.schema, postgres.schema.version) = postgres.schema
        /\ \A r \in Releases : r.head <= postgres.schema.version => CreatedAll(postgres.schema, r) = postgres.schema

\* In production an upgrade that is repeated runs and changes nothing, wherever the job before it died, and neither
\* does create_all, whichever release starts on the schema (the job of the compose stack, create_tables).
THEOREM RedeployHolds == Spec => []RedeployIsSafe
<1>1. DeploymentInv => RedeployIsSafe
  <2>. SUFFICES ASSUME DeploymentInv, mode = "prod"
       PROVE  /\ CanUpgrade(postgres.schema, postgres.schema.version)
              /\ Upgraded(postgres.schema, postgres.schema.version) = postgres.schema
              /\ \A r \in Releases : r.head <= postgres.schema.version => CreatedAll(postgres.schema, r) = postgres.schema
    BY DEF RedeployIsSafe
  <2>. DEFINE v == postgres.schema.version
  <2>1. postgres.schema = SchemaAt(v)
    BY DEF DeploymentInv, SchemaInv, OfItsVersion, MigratedOnly
  <2>2. v \in 0..6
    BY DEF DeploymentInv, Typed, Schema
  <2>. HIDE DEF v
  <2>3. CanUpgrade(SchemaAt(v), v)
    BY <2>2, UpgradesApply
  <2>4. Upgraded(SchemaAt(v), v) = SchemaAt(v)
    BY <2>2, UpgradeContinues
  <2>5. \A r \in Releases : r.head <= v => CreatedAll(SchemaAt(v), r) = SchemaAt(v)
    BY <2>2, NothingToCreate, DeploymentAssumption
  <2>. QED
    BY <2>1, <2>3, <2>4, <2>5 DEF v
<1>. QED
  BY <1>1, DeploymentInvariant, PTL

=============================================================================
