------------------------------- MODULE Access -------------------------------
(***************************************************************************)
(* What the middlewares of the API (api/main.py, api/middleware/) do with  *)
(* a request before a route sees it.  Starlette runs them in the reverse   *)
(* of the order in which main.py adds them: RBAC, guardrails, rate limit,  *)
(* authentication, CORS.                                                   *)
(*                                                                         *)
(* A request is a record with the path it asks for, the X-User-ID (None if *)
(* missing) and the key ("none", "right" or "wrong").                      *)
(***************************************************************************)
EXTENDS Integers, Sequences

CONSTANTS KeyConfigured,    \* internal_api_key is set, and not to "change-me"
          LimiterGiven,     \* the rate limit middleware was given a limiter
          None

ASSUME AccessAssumption == KeyConfigured \in BOOLEAN /\ LimiterGiven \in BOOLEAN

RolePermissions ==
    [admin    |-> {"chat", "analytics", "cx", "cx_write", "pricing", "supply", "supply_write",
                   "documents", "documents_write", "metrics", "admin"},
     manager  |-> {"chat", "analytics", "cx", "cx_write", "pricing", "supply", "documents", "metrics"},
     analyst  |-> {"chat", "analytics", "pricing", "documents"},
     operator |-> {"chat", "analytics", "cx", "supply", "supply_write", "documents", "documents_write"},
     viewer   |-> {"chat"},
     api      |-> {"chat", "cx", "documents"}]

\* The users known from the start are named like their roles, but for n8n.
RoleOf(user) ==
    CASE user \in {"n8n", None} -> "api"
      [] user \in DOMAIN RolePermissions \ {"api"} -> user
      [] OTHER -> "viewer"

\* A path that is not registered requires nothing.
EndpointPermissions(path) ==
    CASE path = "chat" -> {"chat"}
      [] path \in {"daily", "kpis"} -> {"analytics"}
      [] path \in {"prices", "recommend"} -> {"pricing"}
      [] path \in {"suppliers", "replenish"} -> {"supply"}
      [] path = "summarize" -> {"documents_write"}
      [] path = "search" -> {"documents"}
      [] OTHER -> {}

CheckEndpointAccess(user, path) ==
    LET role == RoleOf(user) required == EndpointPermissions(path)
    IN  \/ required = {} \/ role = "admin"
        \/ RolePermissions[role] \cap required # {}

Exempt(path) == path = "health"

-----------------------------------------------------------------------------
(* A middleware answers by itself or passes the request on.                *)

\* The body of the 403 contains a set, which JSON cannot express: the error
\* ends up as a 500.
RBAC(r) ==
    IF Exempt(r.path) \/ CheckEndpointAccess(r.user, r.path) THEN "pass" ELSE "500"

Guardrails(r) == "pass"

\* Without a limiter everything passes; with one, it is up to RateLimiter.
RateLimit(r) == IF LimiterGiven /\ ~Exempt(r.path) THEN "limited" ELSE "pass"

\* Seeded fault: any key will do.
AnyKey(r) == IF Exempt(r.path) \/ r.key # "none" THEN "pass" ELSE "401"

Auth(r) ==
    IF Exempt(r.path) THEN "pass"
    ELSE IF r.key = "none" THEN "401"
    ELSE IF ~KeyConfigured THEN "500"
    ELSE IF r.key = "right" THEN "pass" ELSE "401"

\* In the order in which main.py adds them, CORS left out.
Added(r) == <<Auth(r), RateLimit(r), Guardrails(r), RBAC(r)>>

\* The outermost that does not pass the request on answers it.
Verdict(r) ==
    LET added     == Added(r)
        answering == {k \in DOMAIN added : added[k] # "pass"}
    IN  IF answering = {} THEN "pass"
        ELSE added[CHOOSE k \in answering : \A j \in answering : j <= k]

=============================================================================
