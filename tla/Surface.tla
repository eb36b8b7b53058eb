------------------------------- MODULE Surface -------------------------------
(***************************************************************************)
(* What a worker lets through: the middleware a request passes on its way  *)
(* to a route, outermost first, and who is shown the documentation.        *)
(*                                                                         *)
(* Routes, their own authentication and the CORS middleware itself, which  *)
(* is a library's, are left out, and so are compression, the cookie of the *)
(* back office and the rate limiter, which is a component of its own: an   *)
(* answer is the status these give it and the headers on it.               *)
(***************************************************************************)
EXTENDS Configuration

\* An origin is that of a browser: this deployment's own, another, or none is sent.
Path    == {"api", "page", "admin", "docs", "static"}
Request == [path : Path, write : BOOLEAN, origin : Origins \cup {"own", ""}, caller : {"nobody", "user", "superuser"}]

-----------------------------------------------------------------------------
(* The documentation. *)

\* "builtin" is FastAPI's own, for everybody.
Docs(s) ==
    CASE s.environment = "production" -> IF s.docsInProduction THEN "superuser" ELSE "hidden"
      [] s.environment = "staging"    -> "superuser"
      [] OTHER                        -> "builtin"

-----------------------------------------------------------------------------
(* The middleware. *)

\* Added last is outermost.
Middleware(s) ==
    [name \in {"headers", "sameorigin", "cors", "cache", "route"} |->
        CASE name = "headers" -> s.securityHeaders
          [] name = "cors"    -> s.corsEnabled
          [] name = "cache"   -> s.cacheEnabled /\ s.clientCache
          [] OTHER            -> TRUE]

Order == <<"headers", "sameorigin", "cors", "cache", "route">>

\* What the middleware of CORS shares an answer with.
CorsAllows(s, origin) == s.corsEnabled /\ (origin \in CorsOrigins(s) \/ "*" \in CorsOrigins(s))

\* A wildcard is dropped from the list, which is empty while CORS is off.
AllowedOrigins(s, origin) == s.corsEnabled /\ origin \in CorsOrigins(s) \ {"*"}

SameOriginAllows(s, r) == (r.path = "api" /\ AllowedOrigins(s, r.origin)) \/ r.origin = "own"

Rejected(s, r) == r.origin # "" /\ r.write /\ ~SameOriginAllows(s, r)

\* How far in a request gets, and so which of the middleware its answer passes on its way out.
Reaches(s, r) == IF Rejected(s, r) THEN 2 ELSE 5

Policy(s, path) ==
    CASE path = "admin" -> "inline"
      [] path = "docs" /\ Docs(s) # "hidden" -> "cdn"
      [] OTHER -> "strict"

Status(s, r) ==
    IF Rejected(s, r) THEN 403
    ELSE CASE r.path = "docs" /\ Docs(s) = "hidden" -> 404
           [] r.path = "docs" /\ Docs(s) = "superuser" /\ r.caller = "nobody" -> 401
           [] r.path = "docs" /\ Docs(s) = "superuser" /\ r.caller = "user" -> 403
           [] OTHER -> 200

\* The middleware of an answer and what it put on it.
Answer(s, r) ==
    LET passed == {Order[i] : i \in 1..Reaches(s, r)}
        on(m)  == m \in passed /\ Middleware(s)[m]
    IN  [status |-> Status(s, r),
         policy |-> IF on("headers") THEN Policy(s, r.path) ELSE "",
         hsts   |-> on("headers") /\ s.environment \in {"production", "staging"},
         cached |-> IF ~on("cache") THEN "" ELSE IF r.path = "static" THEN "public" ELSE "private",
         shared |-> on("cors") /\ CorsAllows(s, r.origin)]
=============================================================================
