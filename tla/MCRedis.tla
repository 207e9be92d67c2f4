------------------------------ MODULE MCRedis -------------------------------
(* Instances for TLC of the two parts that keep something in Redis and in *)
(* the process: the multi-tier cache and the session store.  They do not   *)
(* touch each other: a behaviour is about one of them, and the other stays *)
(* as it starts.                                                           *)
(*                                                                         *)
(* Cache: two keys under prefixes of their own and a first tier with room  *)
(* for one of them, so that every read of one key evicts the other.        *)
(* Sessions: two tasks, and histories of two messages, so that a third one *)
(* makes room.  The run checks liveness, so no symmetry is declared.       *)
EXTENDS MultiTierCache, RedisSessionStore, TLC

CONSTANTS k1, k2

TwoPrefixes == k1 :> "sales" @@ k2 :> "stock"


VARIABLE about   \* the part that moves
redisVars == <<about, vars, historyVars>>

\* The part that does not move starts in one state.
RedisInit ==
  /\ about \in {"cache", "sessions"}
  /\ Init /\ HistoryInit
  /\ about # "sessions" => connected

Only(part) ==
  /\ about = part /\ about' = about
  /\ part # "cache" => UNCHANGED vars
  /\ part # "sessions" => UNCHANGED historyVars

RedisNext ==
  \/ Next /\ Only("cache")
  \/ HistoryNext /\ Only("sessions")

RedisSpec == RedisInit /\ [][RedisNext]_redisVars /\ Fairness
=============================================================================
