------------------------------- MODULE MCChat --------------------------------
(* Instances for TLC of the rate limiter and of the turns behind it.  They *)
(* do not touch each other: a behaviour is about one of them, and the      *)
(* other stays as it starts.                                               *)
(*                                                                         *)
(* Limiter: two paths of different limits, like in main.py, and one        *)
(* window; in Redis every path has a key of its own, so that one is        *)
(* enough.  Turns: two clients, three turns, and room for two of three     *)
(* sessions, so that one is evicted; of the optional services one is       *)
(* passed to build_graph() and one is None, its default, so that one route *)
(* is missing.                                                             *)
EXTENDS RateLimiter, ChatPipeline, TLC

CONSTANTS chat, other, c1, c2, a1, a2, a3, a4, a5

TwoLimits == [p \in Paths |-> IF p = chat THEN 2 ELSE 3]
OneWindow == [p \in Paths |-> 3]
AskedFor == [m \in Modes |-> IF m = "redis" THEN {chat} ELSE Paths]
Horizon == [m \in Modes |-> CASE m = "redis" -> 4 [] m = "token" -> 5 [] OTHER -> 6]

TwoClients == {c1, c2}
FiveAddresses == {a1, a2, a3, a4, a5}
ThreeIds == 1..3
CoreAndPricing == CoreAgents \cup {"pricing"}

\* A query that asks for two tools of each agent with one try, one of two
\* independent tools, and two tasks at once.
SomeQueries ==
  {{"analytics_service", "inventory_service", "product_prices", "discount_analysis",
    "order_lookup", "extract_kpis", "generate_tasks"}}

\* Clients are interchangeable, and so are checks that wait for Redis.
Interchangeable == Permutations(Clients) \cup Permutations(Pending)

VARIABLE about   \* the part that moves
chatVars == <<about, limiterVars, vars>>

\* The part that does not move starts in one state.
ChatInit ==
  /\ about \in {"limiter", "turns"}
  /\ LimiterInit /\ Init
  /\ about # "limiter" => mode = "redis"

Only(part) ==
  /\ about = part /\ about' = about
  /\ part # "limiter" => UNCHANGED limiterVars
  /\ part # "turns" => UNCHANGED vars

ChatNext ==
  \/ LimiterNext /\ Only("limiter")
  \/ Next /\ Only("turns")

ChatSpec == ChatInit /\ [][ChatNext]_chatVars
==============================================================================
