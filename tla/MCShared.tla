------------------------------ MODULE MCShared ------------------------------
(* Instances for TLC of the parts that all tasks of the process share and   *)
(* that do not touch each other: the connection pool, the registry of       *)
(* single flights, the circuit breaker and the LRU dictionary.  A behaviour *)
(* is about one of them, and the others stay as they start.                 *)
(*                                                                          *)
(* Pool: one client more than connections, so that it fills and a client    *)
(* has to wait.  Flights: a leader and two waiters, every one of which may  *)
(* be cancelled; two keys.  Breaker: four callers, so that calls admitted   *)
(* while it was closed are still out when it opens and when it is probed.   *)
(* Dictionary: one key more than it has room for.  The run checks liveness, *)
(* so no symmetry is declared.                                              *)
EXTENDS ConnectionPool, SingleFlight, CircuitBreaker, LRUCache

CONSTANTS c1, c2, c3, c4, f1, f2

FourTasks == {c1, c2, c3, c4}
ThreeTasks == {c1, c2, c3}
TwoFlights == {f1, f2}

VARIABLE about   \* the part that moves
sharedVars == <<about, vars, flightVars, breakerVars, dictVars>>

\* A part that does not move starts in one state.
SharedInit ==
  /\ about \in {"pool", "flights", "breaker", "dictionary"}
  /\ Init /\ FlightInit /\ BreakerInit /\ DictInit
  /\ about # "flights" => \A p \in Callers : ckey[p] = f1
  /\ about # "breaker" => serviceUp

Only(part) ==
  /\ about = part /\ about' = about
  /\ part # "pool" => UNCHANGED vars
  /\ part # "flights" => UNCHANGED flightVars
  /\ part # "breaker" => UNCHANGED breakerVars
  /\ part # "dictionary" => UNCHANGED dictVars

SharedNext ==
  \/ Next /\ Only("pool")
  \/ FlightNext /\ Only("flights")
  \/ BreakerNext /\ Only("breaker")
  \/ DictNext /\ Only("dictionary")

\* The breaker could go on when it starts, and is not owed it while it does not
\* move; of the other parts nothing can that fairness is about.
SharedSpec ==
  /\ SharedInit /\ [][SharedNext]_sharedVars
  /\ Fairness /\ FlightFairness
  /\ about = "breaker" => BreakerFairness
=============================================================================
