---------------------------- MODULE MCDeployment ----------------------------
(* The files of the runbook and of the quick start and files that differ in  *)
(* one thing or two from them, and four releases: before a tool was merged,  *)
(* with it, and with one slip or another.                                    *)
EXTENDS Deployment

CONSTANTS w1

At(name, db, password) == [host |-> name, port |-> RedisPort, db |-> db, password |-> password]

Runbook ==
    [environment |-> "production", secret |-> {},
     postgresPassword |-> "strong", postgresPort |-> PostgresPort, databaseUrl |-> Unset, createTables |-> FALSE,
     cacheEnabled |-> TRUE, cacheBackend |-> "redis", cache |-> At("localhost", 0, "plain"), clientCache |-> TRUE,
     limiterEnabled |-> TRUE, limiterBackend |-> "redis", limiter |-> At("localhost", 1, "plain"),
     taskiq |-> At("localhost", 3, "plain"),
     sessionBackend |-> "redis", sessionDb |-> 2, sessionUrl |-> <<>>, sessionTls |-> FALSE, longSessions |-> FALSE,
     corsEnabled |-> TRUE, corsGiven |-> TRUE, corsOrigins |-> {"listed"}, csrf |-> TRUE, secureCookies |-> TRUE,
     adminEnabled |-> TRUE, adminUsername |-> "good", adminPassword |-> "good",
     debug |-> FALSE, docsInProduction |-> FALSE, securityHeaders |-> TRUE, validation |-> TRUE]

QuickStart == [Runbook EXCEPT !.environment = "development", !.postgresPassword = "postgres", !.cache.password = Unset,
                              !.limiter.password = Unset, !.taskiq.password = Unset]

Slips == {
    [Runbook EXCEPT !.environment = "staging"],
    [Runbook EXCEPT !.postgresPassword = "reserved"],
    [Runbook EXCEPT !.databaseUrl = "postgres"],
    [Runbook EXCEPT !.databaseUrl = "none", !.postgresPassword = "postgres"],
    [Runbook EXCEPT !.limiter.password = "other"],
    [Runbook EXCEPT !.limiter.port = 6380, !.limiter.password = "other", !.taskiq.port = 6380],
    [Runbook EXCEPT !.cache.port = 6380],
    [Runbook EXCEPT !.postgresPort = 5433],
    [Runbook EXCEPT !.cache.password = "reserved", !.limiter.password = "reserved", !.taskiq.password = "reserved"],
    [Runbook EXCEPT !.taskiq.password = Unset],
    [Runbook EXCEPT !.sessionUrl = At("elsewhere", 0, Unset)],
    [Runbook EXCEPT !.sessionUrl = At("redis", 0, "other")],
    [Runbook EXCEPT !.sessionBackend = "memory", !.validation = FALSE],
    [Runbook EXCEPT !.corsGiven = FALSE, !.corsOrigins = {}],
    [Runbook EXCEPT !.corsOrigins = {"listed", "*"}, !.environment = "staging"],
    [Runbook EXCEPT !.docsInProduction = TRUE, !.cacheBackend = "misspelt"],
    [Runbook EXCEPT !.secret = {"empty"}],
    [Runbook EXCEPT !.secret = {"common", "short"}, !.adminUsername = ""],
    [Runbook EXCEPT !.createTables = TRUE],
    [QuickStart EXCEPT !.createTables = TRUE, !.limiterEnabled = FALSE]}

Files == {Runbook, QuickStart} \cup Slips

\* An edit makes a slip, or mends it, in a file for production or in one for development.
OneApart == {<<e, f>> \in Files \X Files : /\ e # f /\ {e, f} \cap {Runbook, QuickStart} # {}
                                          /\ (e.environment = "development") = (f.environment = "development")}

Release(head, tools, broken, grants) == [head |-> head, tools |-> tools, broken |-> broken, grants |-> grants]
Before == [Grants EXCEPT !.reviewer = @ \ {"tools.request"}]

Checkouts == {Release(5, {"kyc", "flags"}, {}, Before),
              Release(6, {"kyc", "flags", "intake"}, {}, Grants),
              Release(6, {"kyc", "flags", "intake"}, {}, [Grants EXCEPT !.analyst = @ \cup {"flag.read"}]),
              Release(6, {"kyc", "flags", "intake"}, {"intake"}, Before)}
=============================================================================
