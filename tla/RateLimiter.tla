----------------------------- MODULE RateLimiter -----------------------------
(***************************************************************************)
(* src/infrastructure/ratelimit: the three in-memory algorithms and        *)
(* RateLimiter.check/reset with its optional Redis store, for the requests *)
(* of one client (clients share nothing).  Time is in ticks.               *)
(*                                                                         *)
(* The in-memory check is synchronous.  With Redis the pipeline (ZADD,     *)
(* ZREMRANGEBYSCORE, ZCARD, EXPIRE) is executed some time after now was    *)
(* read, and in any order with respect to other checks.  It prunes by the  *)
(* clock that was read, but the key expires by Redis's own, a window after *)
(* the last pipeline: a check that was delayed may find nothing to count.  *)
(***************************************************************************)
EXTENDS Integers, Sequences, FiniteSets, Functions

CONSTANTS Paths,
          Limit, Window,  \* of every path (_get_limit_for_key)
          Modes,          \* configurations: an algorithm, or a Redis store
          Pending,        \* names for checks that wait for Redis
          Asked,          \* bound: paths that the client asks for, in every mode
          MaxTime,        \* bound: ticks, in every mode
          MaxPerTick      \* bound: checks started in one tick

ASSUME LimitsAssumption ==
  /\ Limit \in [Paths -> Nat \ {0}]
  /\ Window \in [Paths -> Nat \ {0}]
ASSUME ModesAssumption == Modes \subseteq {"sliding", "token", "fixed", "redis"}
ASSUME AskedAssumption == Asked \in [Modes -> SUBSET Paths]
ASSUME MaxTimeAssumption == MaxTime \in [Modes -> Nat]
\* Token amounts are kept in units of 1/Window of a token.
ASSUME OneWindowAssumption ==
  "token" \in Modes => \A p, q \in Paths : Window[p] = Window[q]

VARIABLES mode,     \* RateLimitConfig.algorithm, or "redis": a connected store
          now,
          mem,      \* the algorithm's entry of the client
          zset,     \* Redis: path -> score -> number of members
          expiry,   \* Redis: path -> time at which the key expires
          lapsed,   \* history: path -> time at which the key last expired
          pending,  \* checks that have read the clock and wait for Redis
          load,     \* checks started in this tick
          admitted, \* history: path -> time -> requests dated at that time
                    \* let through because the limiter's count allowed it
          honest    \* history: path -> time at which a denied client was told
                    \* to come back, or Never

keyVars == <<zset, expiry, lapsed>>
limiterVars == <<mode, now, mem, keyVars, pending, load, admitted, honest>>

Times == 0..MaxTime[mode]
Never == MaxTime[mode] + 1
Floor(a, b) == IF a > b THEN a ELSE b
Cap(a, b) == IF a < b THEN a ELSE b
CeilDiv(a, b) == (a + b - 1) \div b

NoRequests == [t \in Times |-> 0]
Members(z) == FoldFunction(+, 0, z)

\* No entry for the client in the algorithm's dict.
Unknown == [known |-> FALSE, log |-> <<>>, amount |-> 0, at |-> 0]

-----------------------------------------------------------------------------
(* The algorithms: verdict, new entry and retry_after of one check.        *)

Allowed(entry) == [ok |-> TRUE, entry |-> entry, retry |-> 0]
Denied(entry, retry) == [ok |-> FALSE, entry |-> entry, retry |-> retry]

\* The timestamps of a log after t, in their order.
Later(log, t) ==
  LET kept[i \in 0..Len(log)] ==
        IF i = 0 THEN <<>>
        ELSE IF log[i] > t THEN Append(kept[i - 1], log[i]) ELSE kept[i - 1]
  IN  kept[Len(log)]

\* Seeded faults: a request one tick too young is pruned; one too old is kept.
PrunedEarly(log, w) == Later(log, now - w + 1)
PrunedLate(log, w) == Later(log, now - w - 1)

Pruned(log, w) == Later(log, now - w)

\* Seeded fault: the request is put at the front.
RecordedFirst(log) == <<now>> \o log

Recorded(log) == Append(log, now)

\* SlidingWindowLimiter: a denied check does not write the pruned list back.
Sliding(m, l, w) ==
  LET kept == Pruned(m.log, w) IN
  IF Len(kept) >= l
  THEN Denied(m, Floor(0, w - (now - Head(kept))))
  ELSE Allowed([m EXCEPT !.known = TRUE, !.log = Recorded(kept)])

\* Seeded faults: the bucket is not capped; a denied client waits too little.
RefillUncapped(m, l, w) == IF m.known THEN m.amount + (now - m.at) * l ELSE l * w
WaitRoundedDown(tokens, l, w) == (w - tokens) \div l

Refilled(m, l, w) ==
  IF m.known THEN Cap(l * w, m.amount + (now - m.at) * l) ELSE l * w
WaitForToken(tokens, l, w) == CeilDiv(w - tokens, l)

\* TokenBucketLimiter, amounts times w.
Token(m, l, w) ==
  LET tokens == Refilled(m, l, w)
      after(amount) == [m EXCEPT !.known = TRUE, !.amount = amount, !.at = now] IN
  IF tokens >= w THEN Allowed(after(tokens - w))
  ELSE Denied(after(tokens), WaitForToken(tokens, l, w))

\* Seeded faults: a new window keeps the count, or starts at the request.
WindowNeverReset(m, w) == IF m.known THEN m ELSE [m EXCEPT !.at = now - (now % w)]
WindowFromRequest(m, w) ==
  IF m.known /\ now < m.at + w THEN m ELSE [m EXCEPT !.amount = 0, !.at = now]

CurrentWindow(m, w) ==
  LET start == now - (now % w) IN
  IF m.known /\ m.at >= start THEN m ELSE [m EXCEPT !.amount = 0, !.at = start]

\* FixedWindowLimiter.
Fixed(m, l, w) ==
  LET cur == CurrentWindow(m, w) IN
  IF cur.amount >= l
  THEN Denied(m, Floor(0, cur.at + w - now))
  ELSE Allowed([cur EXCEPT !.known = TRUE, !.amount = @ + 1])

Verdict(p) ==
  CASE mode = "sliding" -> Sliding(mem, Limit[p], Window[p])
    [] mode = "token"   -> Token(mem, Limit[p], Window[p])
    [] mode = "fixed"   -> Fixed(mem, Limit[p], Window[p])

-----------------------------------------------------------------------------
LimiterInit ==
  /\ mode \in Modes
  /\ now = 0
  /\ mem = Unknown
  /\ zset = [p \in Paths |-> NoRequests]
  /\ expiry = [p \in Paths |-> 0]
  /\ lapsed = [p \in Paths |-> 0]
  /\ pending = {}
  /\ load = 0
  /\ admitted = [p \in Paths |-> NoRequests]
  /\ honest = [p \in Paths |-> Never]

Start(p) == p \in Asked[mode] /\ load < MaxPerTick /\ load' = load + 1

\* A request dated at is let through.
Admit(p, at) == admitted' = [admitted EXCEPT ![p][at] = @ + 1]

\* check() without Redis.
CheckMemory(p) ==
  /\ mode # "redis"
  /\ Start(p)
  /\ LET v == Verdict(p) IN
       /\ mem' = v.entry
       /\ \/ v.ok /\ Admit(p, now) /\ honest' = [q \in Paths |-> Never]
          \/ /\ ~v.ok /\ UNCHANGED admitted
             /\ honest' = [honest EXCEPT ![p] = now + v.retry]
  /\ UNCHANGED <<mode, now, keyVars, pending>>

\* check() with Redis reads the clock and sends the pipeline ...
CheckRedis(p) ==
  /\ mode = "redis"
  /\ Start(p)
  /\ \E id \in Pending :
       /\ \A c \in pending : c.id # id
       /\ pending' = pending \cup {[id |-> id, path |-> p, at |-> now]}
  /\ UNCHANGED <<mode, now, mem, keyVars, admitted, honest>>

\* Seeded fault: one request over the limit is let through.
WithinLimitPlusOne(count, p) == count <= Limit[p] + 1

WithinLimit(count, p) == count <= Limit[p]

\* ... which adds the request, denied or not, prunes and counts.
WithRequest(z, c) ==
  [t \in Times |-> IF t <= c.at - Window[c.path] THEN 0
                   ELSE IF t = c.at THEN z[t] + 1 ELSE z[t]]

\* Seeded fault: the key keeps the deadline that it got when it was new.
DeadlineKept(p) == IF zset[p] = NoRequests THEN now + Window[p] ELSE expiry[p]

Deadline(p) == now + Window[p]

Counted(c) ==
  /\ zset' = [zset EXCEPT ![c.path] = WithRequest(@, c)]
  /\ expiry' = [expiry EXCEPT ![c.path] = Deadline(c.path)]

RedisAnswers(c) ==
  /\ pending' = pending \ {c}
  /\ Counted(c)
  /\ IF WithinLimit(Members(zset'[c.path]), c.path)
     THEN Admit(c.path, c.at) ELSE UNCHANGED admitted
  /\ UNCHANGED <<mode, now, mem, lapsed, load, honest>>

\* increment() catches the error itself, of the pipeline or of the command
\* after it, and reports a count of 0: the request is let through unchecked,
\* whether or not Redis has counted it.
RedisFails(c) ==
  /\ pending' = pending \ {c}
  /\ Counted(c) \/ UNCHANGED <<zset, expiry>>
  /\ UNCHANGED <<mode, now, mem, lapsed, load, admitted, honest>>

\* Redis drops the key, members and all.
KeyExpires(p) ==
  /\ mode = "redis"
  /\ zset[p] # NoRequests /\ now >= expiry[p]
  /\ zset' = [zset EXCEPT ![p] = NoRequests]
  /\ lapsed' = [lapsed EXCEPT ![p] = now]
  /\ UNCHANGED <<mode, now, mem, expiry, pending, load, admitted, honest>>

\* reset(key, path) asks the algorithm to drop "key:path", its entries are
\* under "key": only a reset without a path clears one.
ResetMemory(p) ==
  /\ mode # "redis"
  /\ mem' = Unknown
  /\ admitted' = [q \in Paths |-> NoRequests]
  /\ UNCHANGED <<mode, now, keyVars, pending, load, honest>>

\* Redis entries are under "rl:key:path": a reset without a path finds none.
\* A failing DEL is logged and changes nothing.
ResetRedis(p) ==
  /\ mode = "redis"
  /\ zset' = [zset EXCEPT ![p] = NoRequests]
  /\ admitted' = [admitted EXCEPT ![p] = NoRequests]
  /\ UNCHANGED <<mode, now, mem, expiry, lapsed, pending, load, honest>>

\* A deadline is met within its tick, before or after the pipelines of it.
Tick ==
  /\ now < MaxTime[mode]
  /\ \A p \in Paths : zset[p] # NoRequests => now < expiry[p]
  /\ now' = now + 1
  /\ load' = 0
  /\ UNCHANGED <<mode, mem, keyVars, pending, admitted, honest>>

LimiterNext ==
  \/ \E p \in Paths : \/ CheckMemory(p) \/ CheckRedis(p) \/ KeyExpires(p)
                     \/ ResetMemory(p) \/ ResetRedis(p)
  \/ \E c \in pending : RedisAnswers(c) \/ RedisFails(c)
  \/ Tick

LimiterSpec == LimiterInit /\ [][LimiterNext]_limiterVars

-----------------------------------------------------------------------------
(* Properties *)

LimiterTypes ==
  /\ mode \in Modes
  /\ now \in Times
  /\ mem.known \in BOOLEAN /\ mem.at \in 0..now
  /\ \A i \in DOMAIN mem.log : mem.log[i] \in 0..now
  /\ \A i, j \in DOMAIN mem.log : i < j => mem.log[i] <= mem.log[j]
  /\ \A p \in Paths : /\ lapsed[p] <= now
                      /\ \A t \in Times : zset[p][t] > 0 => t <= now
  /\ \A c \in pending : c.id \in Pending /\ c.path \in Paths /\ c.at \in 0..now

\* Number of requests of p let through, dated after one instant and up to
\* another.
Admissions(p, after, upto) ==
  FoldFunctionOnSet(+, 0, admitted[p], {t \in Times : after < t /\ t <= upto})

\* Sliding log: no window of the path's length that ends now holds more than
\* limit admitted requests, wherever requests and window boundaries fall.
SlidingBound == \A p \in Paths : Admissions(p, now - Window[p], now) <= Limit[p]

Largest(p) == \A q \in Paths : Limit[q] <= Limit[p]
Smallest(p) == \A q \in Paths : Limit[p] <= Limit[q]

\* Token bucket: in any stretch of d ticks at most the capacity plus what was
\* refilled meanwhile is admitted.  All paths fill and empty one bucket, so that
\* no path is held to less than the largest limit.
TokenBound ==
  \A p, q \in Paths : Largest(q) => \A d \in 1..(2 * Window[p]) :
    Admissions(p, now - d, now) * Window[p] <= (Window[p] + d - 1) * Limit[q]

\* Fixed window: at most limit per aligned window, and "up to 2x limit at
\* window boundaries", never more.
FixedBound ==
  \A p \in Paths :
    /\ Admissions(p, now - (now % Window[p]) - 1, now) <= Limit[p]
    /\ Admissions(p, now - Window[p], now) <= 2 * Limit[p]

Newest(z) == CHOOSE t \in Times : z[t] > 0 /\ \A u \in (t + 1)..MaxTime[mode] : z[u] = 0

\* Redis: whatever the order in which the pipelines of concurrent checks run,
\* the window that ends with the newest request in the set holds at most limit
\* requests that Redis answered and let through.  Only a request whose check was
\* delayed beyond the expiry of the key may be newest and older than that; of
\* its window what is older by a window than the expiry does not count.
RedisBound ==
  \A p \in Paths : zset[p] # NoRequests =>
    LET newest == Newest(zset[p]) IN
    Admissions(p, Floor(newest, lapsed[p]) - Window[p], newest) <= Limit[p]

\* "Per-endpoint limits": the client's requests to a path stay within the
\* limit of that path, or of its bucket, in the sense of the algorithm in use.
AdmissionsBounded ==
  CASE mode = "sliding" -> SlidingBound
    [] mode = "token"   -> TokenBound
    [] mode = "fixed"   -> FixedBound
    [] mode = "redis"   -> RedisBound

\* Paths share the client's log, bucket or window.  What a path is told holds
\* only if no other path may leave the log longer, or fill the bucket slower.
MayPromise(p) ==
  CASE mode = "sliding" -> Largest(p)
    [] mode = "token"   -> Smallest(p)
    [] mode = "fixed"   -> TRUE

\* A denied client that waits for the retry_after it was given is let through
\* when it comes back, if nothing else of it was let through meanwhile: for a
\* path of the largest limit in a sliding log, of the smallest in a bucket.
RetryAfterIsEnough ==
  mode # "redis" => \A p \in Paths : MayPromise(p) /\ now >= honest[p] => Verdict(p).ok

\* Logs, buckets and windows are in order, and admit what they may
\* (algorithms.py, limiter.py).
LimitsHold == LimiterTypes /\ AdmissionsBounded
=============================================================================
