------------------------------ MODULE LRUCache ------------------------------
(***************************************************************************)
(* LRUCache of src/infrastructure/cache/cache.py on its own, against what  *)
(* "least recently used" means: every key carries the time of its last     *)
(* use.  Its methods are synchronous, so each is one step.                 *)
(***************************************************************************)
EXTENDS LRU

CONSTANTS Values,
          Missing,  \* None
          MaxUses   \* bound: get() hits and set() calls in one behaviour

ASSUME MaxUsesAssumption == MaxUses \in Nat
ASSUME MissingAssumption == Missing \notin Values

VARIABLES cache,   \* self._cache
          uses,    \* history: number of uses so far
          lastUse, \* history: when each key was last used
          stored   \* history: what the last set() of each key stored, with
                   \* its liveness; Missing once deleted or found expired

dictVars == <<cache, uses, lastUse, stored>>

DictEntries == [key : Keys, val : Values, live : BOOLEAN]

DictTypeOK ==
  /\ cache \in Seq(DictEntries) /\ Len(cache) <= L1Size
  /\ \A i, j \in DOMAIN cache : cache[i].key = cache[j].key => i = j
  /\ uses \in 0..MaxUses
  /\ lastUse \in [Keys -> 0..MaxUses]

DictInit ==
  /\ cache = <<>>
  /\ uses = 0
  /\ lastUse = [k \in Keys |-> 0]
  /\ stored = [k \in Keys |-> Missing]

Use(k) ==
  /\ uses < MaxUses
  /\ uses' = uses + 1
  /\ lastUse' = [lastUse EXCEPT ![k] = uses']

GetHit(k) ==
  /\ LruVisible(cache, k)
  /\ cache' = LruAfterGet(cache, k)
  /\ Use(k)
  /\ UNCHANGED stored

GetMiss(k) ==
  /\ ~LruVisible(cache, k)
  /\ cache' = LruAfterGet(cache, k)
  /\ UNCHANGED <<uses, lastUse, stored>>

Set(k, v, live) ==
  /\ cache' = LruAfterSet(cache, k, v, live)
  /\ stored' = [stored EXCEPT ![k] = IF live THEN v ELSE Missing]
  /\ Use(k)

Delete(k) ==
  /\ cache' = LruAfterDelete(cache, k)
  /\ stored' = [stored EXCEPT ![k] = Missing]
  /\ UNCHANGED <<uses, lastUse>>

Clear ==
  /\ cache' = <<>>
  /\ stored' = [k \in Keys |-> Missing]
  /\ UNCHANGED <<uses, lastUse>>

CleanupExpired ==
  /\ cache' = LruCleanedUp(cache)
  /\ UNCHANGED <<uses, lastUse, stored>>

\* The clock passes an entry's expires_at.
Expire(k) ==
  /\ LruVisible(cache, k)
  /\ cache' = LruExpired(cache, k)
  /\ stored' = [stored EXCEPT ![k] = Missing]
  /\ UNCHANGED <<uses, lastUse>>

DictNext ==
  \/ \E k \in Keys :
       \/ GetHit(k) \/ GetMiss(k) \/ Delete(k) \/ Expire(k)
       \/ \E v \in Values, live \in BOOLEAN : Set(k, v, live)
  \/ Clear
  \/ CleanupExpired

DictSpec == DictInit /\ [][DictNext]_dictVars

-----------------------------------------------------------------------------
(* Properties *)

Present == LruKeys(cache)

\* The order of the dictionary is the order of last use: what eviction takes
\* from its front is the least recently used entry.
OrderIsRecency ==
  \A i, j \in DOMAIN cache : i < j => lastUse[cache[i].key] < lastUse[cache[j].key]

\* get() never returns a value that was overwritten, deleted or has expired: a
\* result is what the last set() of that key stored.
NoStaleResult ==
  \A k \in Keys : LruVisible(cache, k) => LruEntry(cache, k).val = stored[k]

\* Only set() of a new key into a full cache evicts, it evicts one entry, and
\* that one was used before every entry that stays.
EvictsLeastRecent ==
  [][\A k \in Keys :
       (k \in Present /\ k \notin Present' /\ uses' > uses) =>
         /\ Len(cache) = L1Size /\ Len(cache') = L1Size
         /\ \A m \in Present \cap Present' : lastUse[k] < lastUse[m]]_dictVars

\* The dictionary keeps its bound, its order, and serves what was last stored
\* (cache.py, the L1 cache).
DictionaryIsSound == DictTypeOK /\ OrderIsRecency /\ NoStaleResult
=============================================================================
