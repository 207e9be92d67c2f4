--------------------------- MODULE MultiTierCache ---------------------------
(***************************************************************************)
(* src/infrastructure/cache/cache.py: MultiTierCache over an in-process    *)
(* LRUCache (L1) and Redis (L2), driven as cache/decorators.py and         *)
(* get_or_set drive it: cached functions read a source of truth through    *)
(* the cache, updates of the source invalidate it afterwards.              *)
(*                                                                         *)
(* L1 is touched synchronously; every Redis command is an await, at which  *)
(* other tasks run, so an operation is one action per stretch between two  *)
(* awaits.  RedisCache swallows every error of a command: it reads as a    *)
(* miss, and leaves Redis unchanged.  The values of a key are the versions *)
(* of its source, NoVersion is None.                                       *)
(***************************************************************************)
EXTENDS LRU

CONSTANTS Tasks,
          Prefix,      \* Prefix[k]: prefix of cache key k ("prefix:hash")
          MaxVersion   \* bound: versions of a source

ASSUME MaxVersionAssumption == MaxVersion \in Nat \ {0}

VARIABLES l1, l2,  \* the tiers
          db,      \* current version of the source of every key
          task,    \* operation every task is in
          tainted  \* history: keys with a race or a failed command

vars == <<l1, l2, db, task, tainted>>

NoVersion == 0
Versions == 1..MaxVersion
Prefixes == {Prefix[k] : k \in Keys}
Idle == [op |-> "none"]

(* Patterns of delete_pattern: "prefix:*" (what cache_invalidate builds)   *)
(* and a bare "prefix".  L1 matches the whole key with fnmatch; L2 gets    *)
(* the pattern wrapped in "*".                                             *)
Patterns == [prefix : Prefixes, star : BOOLEAN]

L1Matches(k, pat) == pat.star /\ Prefix[k] = pat.prefix
L2Matches(k, pat) == Prefix[k] = pat.prefix

KeysOf(op) ==
  CASE op.op = "none" -> {}
    [] op.op \in {"read", "delete"} -> {op.key}
    [] op.op = "bulk" -> {k \in Keys : L2Matches(k, op.pat)}
    [] op.op = "clear" -> {}
Reading(k) == \E p \in Tasks : task[p].op = "read" /\ task[p].key = k
Updating(k) == \E p \in Tasks : task[p].op \in {"delete", "bulk"} /\ k \in KeysOf(task[p])

L1Value(k) == LruValue(l1, k, NoVersion)

Entries == [key : Keys, val : Versions, live : BOOLEAN]
Operations ==
  {Idle}
  \cup [op : {"read"}, key : Keys, val : Versions \cup {NoVersion},
        step : {"l2get", "l2got", "compute", "computed", "l2set"}]
  \cup [op : {"delete"}, key : Keys, step : {"committed", "l2del"}]
  \cup [op : {"bulk"}, pat : Patterns, found : SUBSET Keys,
        step : {"committed", "scan", "l2del"}]
  \cup [op : {"clear"}, found : SUBSET Keys, step : {"scan", "l2del"}]

TypeOK ==
  /\ l1 \in Seq(Entries) /\ Len(l1) <= L1Size
  /\ \A i, j \in DOMAIN l1 : l1[i].key = l1[j].key => i = j
  /\ l2 \in [Keys -> Versions \cup {NoVersion}]
  /\ db \in [Keys -> Versions]
  /\ task \in [Tasks -> Operations]
  /\ tainted \subseteq Keys

Init ==
  /\ l1 = <<>>
  /\ l2 = [k \in Keys |-> NoVersion]
  /\ db = [k \in Keys |-> 1]
  /\ task = [p \in Tasks |-> Idle]
  /\ tainted = {}

Goto(p, step) == task' = [task EXCEPT ![p].step = step]
Finish(p) == task' = [task EXCEPT ![p] = Idle]

-----------------------------------------------------------------------------
(* The wrapper of @cached, and get_or_set: get, on a miss compute and set.  *)

ReadHit(p, k) ==
  /\ task[p] = Idle
  /\ LruVisible(l1, k)
  /\ l1' = LruAfterGet(l1, k)
  /\ UNCHANGED <<l2, db, task, tainted>>

ReadMiss(p, k) ==
  /\ task[p] = Idle
  /\ ~LruVisible(l1, k)
  /\ l1' = LruAfterGet(l1, k)
  /\ task' = [task EXCEPT ![p] =
                [op |-> "read", key |-> k, val |-> NoVersion, step |-> "l2get"]]
  /\ tainted' = tainted \cup {m \in {k} : Updating(m)}
  /\ UNCHANGED <<l2, db>>

\* warm() and @cache_warm compute without looking first.
Warm(p, k) ==
  /\ task[p] = Idle
  /\ task' = [task EXCEPT ![p] =
                [op |-> "read", key |-> k, val |-> NoVersion, step |-> "compute"]]
  /\ tainted' = tainted \cup {m \in {k} : Updating(m)}
  /\ UNCHANGED <<l1, l2, db>>

\* Redis answers GET, or the command fails and reads as a miss.
L2Get(p) ==
  /\ task[p].op = "read" /\ task[p].step = "l2get"
  /\ \E v \in {l2[task[p].key], NoVersion} :
       task' = [task EXCEPT ![p].val = v, ![p].step = "l2got"]
  /\ UNCHANGED <<l1, l2, db, tainted>>

\* An L2 hit is copied to L1 when the reader resumes.
L2Hit(p) ==
  /\ task[p].op = "read" /\ task[p].step = "l2got" /\ task[p].val # NoVersion
  /\ l1' = LruAfterSet(l1, task[p].key, task[p].val, TRUE)
  /\ Finish(p)
  /\ UNCHANGED <<l2, db, tainted>>

L2Miss(p) ==
  /\ task[p].op = "read" /\ task[p].step = "l2got" /\ task[p].val = NoVersion
  /\ Goto(p, "compute")
  /\ UNCHANGED <<l1, l2, db, tainted>>

\* The cached function reads the source ...
Compute(p) ==
  /\ task[p].op = "read" /\ task[p].step = "compute"
  /\ task' = [task EXCEPT ![p].val = db[task[p].key], ![p].step = "computed"]
  /\ UNCHANGED <<l1, l2, db, tainted>>

\* ... or raises, or returns None, which is not cached.
ComputeFails(p) ==
  /\ task[p].op = "read" /\ task[p].step = "compute"
  /\ Finish(p)
  /\ UNCHANGED <<l1, l2, db, tainted>>

\* set(): L1 first, then Redis.
StoreL1(p) ==
  /\ task[p].op = "read" /\ task[p].step = "computed"
  /\ l1' = LruAfterSet(l1, task[p].key, task[p].val, TRUE)
  /\ Goto(p, "l2set")
  /\ UNCHANGED <<l2, db, tainted>>

StoreL2(p) ==
  /\ task[p].op = "read" /\ task[p].step = "l2set"
  /\ l2' \in {[l2 EXCEPT ![task[p].key] = task[p].val], l2}
  /\ Finish(p)
  /\ UNCHANGED <<l1, db, tainted>>

-----------------------------------------------------------------------------
(* Updates of the source, followed by an invalidation of the cache.        *)

\* Seeded fault: L1 is not touched by delete().
L1Kept(k) == l1

WithoutInL1(k) == LruAfterDelete(l1, k)

\* The update commits; the invalidation starts when its await has returned.
UpdateOne(p, k) ==
  /\ task[p] = Idle
  /\ db[k] < MaxVersion
  /\ db' = [db EXCEPT ![k] = @ + 1]
  /\ task' = [task EXCEPT ![p] = [op |-> "delete", key |-> k, step |-> "committed"]]
  /\ tainted' = tainted \cup {m \in {k} : Reading(m)}
  /\ UNCHANGED <<l1, l2>>

DeleteL1(p) ==
  /\ task[p].op = "delete" /\ task[p].step = "committed"
  /\ l1' = WithoutInL1(task[p].key)
  /\ Goto(p, "l2del")
  /\ UNCHANGED <<l2, db, tainted>>

\* Redis executes DEL; delete() returns True.
DeleteL2(p) ==
  LET k == task[p].key IN
  /\ task[p].op = "delete" /\ task[p].step = "l2del"
  /\ l2' = [l2 EXCEPT ![k] = NoVersion]
  /\ Finish(p)
  /\ UNCHANGED <<l1, db, tainted>>

\* delete() returns False, which its callers do not look at.
DeleteL2Fails(p) ==
  /\ task[p].op = "delete" /\ task[p].step = "l2del"
  /\ tainted' = tainted \cup {task[p].key}
  /\ Finish(p)
  /\ UNCHANGED <<l1, l2, db>>

\* @cache_invalidate: update of the source of every key under a prefix.
UpdateMany(p, pat) ==
  LET keys == {k \in Keys : L2Matches(k, pat)} IN
  /\ task[p] = Idle
  /\ \A k \in keys : db[k] < MaxVersion
  /\ db' = [k \in Keys |-> IF k \in keys THEN db[k] + 1 ELSE db[k]]
  /\ task' = [task EXCEPT ![p] =
                [op |-> "bulk", pat |-> pat, found |-> {}, step |-> "committed"]]
  /\ tainted' = tainted \cup {k \in keys : Reading(k) \/ ~L1Matches(k, pat)}
  /\ UNCHANGED <<l1, l2>>

DeletePatternL1(p) ==
  /\ task[p].op = "bulk" /\ task[p].step = "committed"
  /\ l1' = LruWithout(l1, {k \in Keys : L1Matches(k, task[p].pat)})
  /\ Goto(p, "scan")
  /\ UNCHANGED <<l2, db, tainted>>

\* clear(): L1, then delete_pattern("*") of L2.
ClearL1(p) ==
  /\ task[p] = Idle
  /\ l1' = <<>>
  /\ task' = [task EXCEPT ![p] = [op |-> "clear", found |-> {}, step |-> "scan"]]
  /\ UNCHANGED <<l2, db, tainted>>

Matched(op) == IF op.op = "bulk" THEN KeysOf(op) ELSE Keys

\* SCAN: one page holds every key of the instance (bound).
Scan(p) ==
  LET found == {k \in Matched(task[p]) : l2[k] # NoVersion} IN
  /\ task[p].op \in {"bulk", "clear"} /\ task[p].step = "scan"
  /\ IF found = {} THEN Finish(p)
     ELSE task' = [task EXCEPT ![p].found = found, ![p].step = "l2del"]
  /\ UNCHANGED <<l1, l2, db, tainted>>

WithoutInL2(found) == [k \in Keys |-> IF k \in found THEN NoVersion ELSE l2[k]]

DeleteFound(p) ==
  /\ task[p].op \in {"bulk", "clear"} /\ task[p].step = "l2del"
  /\ l2' = WithoutInL2(task[p].found)
  /\ Finish(p)
  /\ UNCHANGED <<l1, db, tainted>>

\* SCAN or DEL fails: delete_pattern returns 0.
DeletePatternFails(p) ==
  /\ task[p].op \in {"bulk", "clear"} /\ task[p].step \in {"scan", "l2del"}
  /\ tainted' = tainted \cup KeysOf(task[p])
  /\ Finish(p)
  /\ UNCHANGED <<l1, l2, db>>

-----------------------------------------------------------------------------
\* The L1 or the L2 entry of k reaches its TTL.
ExpireL1(k) ==
  /\ \E i \in DOMAIN l1 : l1[i].key = k /\ l1[i].live
  /\ l1' = LruExpired(l1, k)
  /\ UNCHANGED <<l2, db, task, tainted>>

ExpireL2(k) ==
  /\ l2[k] # NoVersion
  /\ l2' = [l2 EXCEPT ![k] = NoVersion]
  /\ UNCHANGED <<l1, db, task, tainted>>

Advance(p) ==
  \/ L2Get(p) \/ L2Hit(p) \/ L2Miss(p) \/ Compute(p) \/ ComputeFails(p)
  \/ StoreL1(p) \/ StoreL2(p)
  \/ DeleteL1(p) \/ DeleteL2(p) \/ DeleteL2Fails(p)
  \/ DeletePatternL1(p) \/ Scan(p) \/ DeleteFound(p) \/ DeletePatternFails(p)

Next ==
  \/ \E p \in Tasks :
       \/ \E k \in Keys : ReadHit(p, k) \/ ReadMiss(p, k) \/ Warm(p, k) \/ UpdateOne(p, k)
       \/ \E pat \in Patterns : UpdateMany(p, pat)
       \/ ClearL1(p)
       \/ Advance(p)
  \/ \E k \in Keys : ExpireL1(k) \/ ExpireL2(k)

(* Commands are answered or fail, and TTLs run out.                        *)
Fairness ==
  /\ \A p \in Tasks : WF_vars(Advance(p))
  /\ \A k \in Keys : WF_vars(ExpireL1(k)) /\ WF_vars(ExpireL2(k))

Spec == Init /\ [][Next]_vars
FairSpec == Spec /\ Fairness

-----------------------------------------------------------------------------
(* Properties *)

\* A key none of whose reads overlapped an update, and none of whose
\* invalidations failed, is never served from an old version once its updates
\* have been followed by their invalidations, whatever is evicted or expires.
QuietKeysAreCurrent ==
  \A k \in Keys \ tainted : ~Updating(k) =>
    L1Value(k) \in {NoVersion, db[k]} /\ l2[k] \in {NoVersion, db[k]}

\* Once the sources stop changing, both tiers end up free of old versions,
\* whatever races and failures there were: the TTLs bound staleness.
EventuallyCurrent ==
  <>[](\A k \in Keys : L1Value(k) \in {NoVersion, db[k]} /\ l2[k] \in {NoVersion, db[k]})

\* Both tiers hold what they may, and quiet keys no old version of it
\* (cache.py, the tiers).
TiersAreSound == TypeOK /\ QuietKeysAreCurrent
==============================================================================
