---------------------------- MODULE Configuration ----------------------------
(***************************************************************************)
(* An env file as the settings read it, and what the production validator  *)
(* and the preflight say of it before and while a worker starts.           *)
(*                                                                         *)
(* Secrets are classes of secrets: a key is the set of its flaws, a        *)
(* password one of the kinds the checks and the connections tell apart.    *)
(***************************************************************************)
EXTENDS Naturals, FiniteSets

CONSTANTS Hosts,       \* where a Redis may be
          LocalHosts,  \* the names of the host itself
          Origins      \* the origins that CORS_ORIGINS may list

ASSUME ConfigurationAssumption == LocalHosts \subseteq Hosts /\ "*" \notin Origins

Unset == "unset"

\* "reserved" has characters a URL takes for its own, "none" is a URL without a password.
DbPassword    == {"postgres", "blank", "strong", "reserved"}
RedisPassword == {Unset, "plain", "other", "reserved"}
Port          == 1..65535
Redis         == [host : Hosts, port : Port, db : 0..3, password : RedisPassword]
Backend       == {"redis", "memcached", "memory", "misspelt"}

Environment   == {"production", "staging", "development", "local"}

Settings ==
    [environment : Environment, secret : SUBSET {"empty", "common", "short", "pattern"},
     postgresPassword : DbPassword, postgresPort : Port, databaseUrl : {Unset, "none"} \cup DbPassword, createTables : BOOLEAN,
     cacheEnabled : BOOLEAN, cacheBackend : Backend, cache : Redis, clientCache : BOOLEAN,
     limiterEnabled : BOOLEAN, limiterBackend : Backend, limiter : Redis,
     taskiq : Redis,
     sessionBackend : Backend, sessionDb : 0..3, sessionUrl : Redis \cup {<<>>}, sessionTls : BOOLEAN, longSessions : BOOLEAN,
     corsEnabled : BOOLEAN, corsGiven : BOOLEAN, corsOrigins : SUBSET (Origins \cup {"*"}), csrf : BOOLEAN, secureCookies : BOOLEAN,
     adminEnabled : BOOLEAN, adminUsername : {"", "weak", "good"}, adminPassword : {"", "short", "common", "good"},
     debug : BOOLEAN, docsInProduction : BOOLEAN, securityHeaders : BOOLEAN, validation : BOOLEAN]

-----------------------------------------------------------------------------
(* What the settings make of the file. *)

\* A URL that is put together unquoted comes apart at other places.
Raw(password) == IF password = "reserved" THEN "garbled" ELSE password

\* The password the driver connects with.
DatabasePassword(s) == IF s.databaseUrl = Unset THEN Raw(s.postgresPassword) ELSE s.databaseUrl

\* Sessions are in a Redis of their own or in the cache's, whose password is quoted.
SessionRedis(s) ==
    IF s.sessionUrl # <<>> THEN s.sessionUrl
    ELSE [host |-> s.cache.host, port |-> s.cache.port, db |-> s.sessionDb, password |-> s.cache.password]

BrokerRedis(s) == [s.taskiq EXCEPT !.password = Raw(@)]

CorsOrigins(s) == IF s.corsGiven THEN s.corsOrigins ELSE {"*"}

-----------------------------------------------------------------------------
(* The production validator. *)

InsecureSecret(s) == s.secret # {}

\* Faulty: DATABASE_URL is not looked at.
ConfiguredPassword(s) == s.postgresPassword

\* "none": an explicit URL without a password, about which there is only a warning.
EffectiveDatabasePassword(s) == IF s.databaseUrl = Unset THEN s.postgresPassword ELSE s.databaseUrl

NoAdminPassword(s) == s.adminUsername = "" \/ s.adminPassword = ""

TooPermissive(s) == s.corsEnabled /\ "*" \in CorsOrigins(s)

\* The names of those that hold.
Raised(issues) == {i \in DOMAIN issues : issues[i]}

CriticalIssues(s) == Raised(
    [secret          |-> InsecureSecret(s),
     defaultDatabase |-> EffectiveDatabasePassword(s) = "postgres",
     blankDatabase   |-> EffectiveDatabasePassword(s) = "blank",
     openAdmin       |-> s.adminEnabled /\ NoAdminPassword(s),
     csrf            |-> ~s.csrf,
     cookies         |-> ~s.secureCookies,
     sessions        |-> s.sessionBackend # "redis",
     cors            |-> TooPermissive(s)])

\* The connections of the services that are on Redis; there is TLS in a URL only.
RedisConfigurations(s) ==
    LET all == [cache       |-> [redis |-> s.cache, tls |-> FALSE],
                rateLimiter |-> [redis |-> s.limiter, tls |-> FALSE],
                sessions    |-> [redis |-> SessionRedis(s), tls |-> s.sessionUrl # <<>> /\ s.sessionTls]]
        on  == [cache |-> s.cacheBackend, rateLimiter |-> s.limiterBackend, sessions |-> s.sessionBackend]
    IN  [c \in {x \in DOMAIN all : on[x] = "redis"} |-> all[c]]

SameServer(a, b) == a.host = b.host /\ a.port = b.port

SharedInstance(s) ==
    LET r == RedisConfigurations(s)
    IN  \E a, b \in DOMAIN r : a # b /\ SameServer(r[a].redis, r[b].redis) /\ r[a].redis.db = r[b].redis.db

RedisWarnings(s) ==
    LET r == RedisConfigurations(s)
    IN  {<<"password", c>> : c \in {x \in DOMAIN r : r[x].redis.password = Unset}}
          \cup {<<"tls", c>> : c \in {x \in DOMAIN r : ~r[x].tls /\ r[x].redis.host \notin LocalHosts}}

ExposureWarnings(s) == Raised([debug |-> s.debug, docs |-> s.docsInProduction])
SessionWarnings(s)  == Raised([longSessions |-> s.longSessions, createTables |-> s.createTables])

\* Of a pair that is not complete the critical checks have spoken.
AdminWarnings(s) ==
    IF ~s.adminEnabled \/ NoAdminPassword(s) THEN {}
    ELSE Raised([adminUsername |-> s.adminUsername = "weak", adminPassword |-> s.adminPassword # "good"])

\* Logged, by the validator alone and only where nothing critical stops it.
Warnings(s) ==
    RedisWarnings(s)
      \cup {<<"setting", w>> : w \in ExposureWarnings(s) \cup SessionWarnings(s) \cup AdminWarnings(s)
                                   \cup Raised([shared      |-> SharedInstance(s),
                                               databaseUrl |-> EffectiveDatabasePassword(s) = "none"])}

\* The lifespan asks the validator unless told not to, and the validator looks at production only.
RefusesToStart(s) == s.validation /\ s.environment = "production" /\ CriticalIssues(s) # {}

-----------------------------------------------------------------------------
(* The preflight of a configuration, whatever ENVIRONMENT says. *)

\* Faulty: only the rate limiter is compared with the cache.
LimiterPasswordProblems(s) ==
    {c \in {"limiter"} : SameServer(s[c], s.cache) /\ s[c].password # s.cache.password}

SharedPasswordProblems(s) ==
    {c \in {"limiter", "taskiq"} : SameServer(s[c], s.cache) /\ s[c].password # s.cache.password}

ConfigProblems(s) ==
    CriticalIssues(s) \cup SharedPasswordProblems(s)
        \cup Raised([environment |-> s.environment # "production", createTables |-> s.createTables])
=============================================================================
