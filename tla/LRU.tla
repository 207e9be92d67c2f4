--------------------------------- MODULE LRU ---------------------------------
(***************************************************************************)
(* The operations of LRUCache (src/infrastructure/cache/cache.py) on its   *)
(* OrderedDict, kept as a sequence of entries from the least to the most   *)
(* recently used.  An entry is live until its expires_at has passed.       *)
(***************************************************************************)
EXTENDS Sequences, Integers

CONSTANTS Keys,
          L1Size   \* LRUCache._max_size

ASSUME L1SizeAssumption == L1Size \in Nat \ {0}

LruKeys(c) == {c[i].key : i \in DOMAIN c}
LruEntry(c, k) == c[CHOOSE i \in DOMAIN c : c[i].key = k]

\* del self._cache[key] for each of the keys: the others keep their order.
LruWithout(c, ks) ==
  LET kept[i \in 0..Len(c)] ==
        IF i = 0 THEN <<>>
        ELSE IF c[i].key \in ks THEN kept[i - 1] ELSE Append(kept[i - 1], c[i])
  IN  kept[Len(c)]

\* Seeded fault: expires_at is not looked at.
LruServedUntilEvicted(e) == TRUE

LruServed(e) == e.live

LruVisible(c, k) == k \in LruKeys(c) /\ LruServed(LruEntry(c, k))

\* Value get(k) would return; Nothing stands for None.
LruValue(c, k, Nothing) == IF LruVisible(c, k) THEN LruEntry(c, k).val ELSE Nothing

\* Seeded fault: a hit leaves the entry where it is.
LruGetInPlace(c, k) == IF LruVisible(c, k) THEN c ELSE LruWithout(c, {k})

\* get(k): a live entry moves to the end, an expired one is deleted.
LruAfterGet(c, k) ==
  IF LruVisible(c, k) THEN Append(LruWithout(c, {k}), LruEntry(c, k))
  ELSE LruWithout(c, {k})

\* Seeded faults: one entry too many is kept; the wrong end is dropped.
LruRoomForOneMore(c) ==
  IF Len(c) > L1Size THEN SubSeq(c, Len(c) - L1Size + 1, Len(c)) ELSE c
LruEvictNewest(c) == IF Len(c) >= L1Size THEN SubSeq(c, 1, L1Size - 1) ELSE c

\* popitem(last=False) while the cache is full.
LruMakeRoom(c) ==
  IF Len(c) >= L1Size THEN SubSeq(c, Len(c) - L1Size + 2, Len(c)) ELSE c

\* set(k, v): ttl -1 stores an entry that has expired already.
LruAfterSet(c, k, v, live) ==
  LET entry == [key |-> k, val |-> v, live |-> live] IN
  IF k \in LruKeys(c) THEN Append(LruWithout(c, {k}), entry)
  ELSE Append(LruMakeRoom(c), entry)

LruAfterDelete(c, k) == LruWithout(c, {k})

\* cleanup_expired() collects the keys first.
LruCleanedUp(c) == LruWithout(c, {c[i].key : i \in {j \in DOMAIN c : ~LruServed(c[j])}})

\* Time passes the expires_at of the entry of k.
LruExpired(c, k) ==
  [i \in DOMAIN c |-> IF c[i].key = k THEN [c[i] EXCEPT !.live = FALSE] ELSE c[i]]
==============================================================================
