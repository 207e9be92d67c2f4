--------------------------- MODULE ConnectionPool ---------------------------
(***************************************************************************)
(* src/infrastructure/pooling/__init__.py: ConnectionPool, with clients    *)
(* that acquire a connection, use it and release it in a finally clause,   *)
(* as execute(), search() and upsert() do.                                 *)
(*                                                                         *)
(* An asyncio task is interrupted only where it really waits: while        *)
(* _create_connection runs (it is overridden, and holds the pool's lock),  *)
(* in the sleep of the polling loop, while it uses the connection, and     *)
(* where the lock is taken.  Creating may raise or be cancelled.           *)
(* _active is never decremented, so its value after the increment names    *)
(* the connection created: slot 1, 2, ...                                  *)
(* Which task gets the lock next is left open (asyncio serves in order).   *)
(***************************************************************************)
EXTENDS Integers, Sequences

CONSTANTS Clients,   \* tasks that use the pool
          MaxSize,   \* self._max_size
          MaxPolls,  \* bound: polls of one wait, self._timeout / 0.1 s
          NoOne      \* the lock is free

ASSUME MaxSizeAssumption == MaxSize \in Nat \ {0}
ASSUME MaxPollsAssumption == MaxPolls \in Nat \ {0}
ASSUME NoOneAssumption == NoOne \notin Clients

VARIABLES pool,    \* self._pool, a deque of connections
          active,  \* self._active
          lock,    \* holder of self._lock across an await
          pc,      \* "idle", "creating", "sleeping", "locking",
                    \* "holding"
          conn,    \* connection of a holding or creating client, else 0
          polls,   \* polls the client has made in this wait
          lost     \* history: slots whose connection exists no more

vars == <<pool, active, lock, pc, conn, polls, lost>>

Slots == 1..MaxSize
NoConn == 0

Pooled == {pool[i] : i \in DOMAIN pool}
Holding(p) == pc[p] = "holding"
Held == {conn[p] : p \in {q \in Clients : Holding(q)}}
InCreation == {conn[p] : p \in {q \in Clients : pc[q] = "creating"}}
Live == Pooled \cup Held

TypeOK ==
  /\ pool \in Seq(Slots)
  /\ active \in 0..MaxSize
  /\ lock \in Clients \cup {NoOne}
  /\ pc \in [Clients -> {"idle", "creating", "sleeping", "locking", "holding"}]
  /\ conn \in [Clients -> Slots \cup {NoConn}]
  /\ polls \in [Clients -> 0..MaxPolls]
  /\ lost \subseteq Slots

Init ==
  /\ pool = <<>>
  /\ active = 0
  /\ lock = NoOne
  /\ pc = [p \in Clients |-> "idle"]
  /\ conn = [p \in Clients |-> NoConn]
  /\ polls = [p \in Clients |-> 0]
  /\ lost = {}

-----------------------------------------------------------------------------
\* Seeded fault: the connection handed out is read, not removed.
PeekedPool == pool

PoppedPool == Tail(pool)

\* self._pool.popleft(), return conn
TakeFirst(p) ==
  /\ pool # <<>>
  /\ conn' = [conn EXCEPT ![p] = Head(pool)]
  /\ pool' = PoppedPool
  /\ pc' = [pc EXCEPT ![p] = "holding"]
  /\ UNCHANGED <<active, lock, lost>>

(* acquire(): reuse a connection, ... *)
AcquireExisting(p) ==
  /\ pc[p] = "idle" /\ lock = NoOne
  /\ TakeFirst(p)
  /\ UNCHANGED polls

\* Seeded fault: off by one at the limit.
AtOrUnderLimit == active <= MaxSize

UnderLimit == active < MaxSize

(* ... or create one under the limit, keeping the lock ... *)
AcquireNew(p) ==
  /\ pc[p] = "idle" /\ lock = NoOne
  /\ pool = <<>> /\ UnderLimit
  /\ active' = active + 1
  /\ conn' = [conn EXCEPT ![p] = active']
  /\ lock' = p
  /\ pc' = [pc EXCEPT ![p] = "creating"]
  /\ UNCHANGED <<pool, polls, lost>>

(* ... or wait outside the lock; the first poll finds the pool empty. *)
AcquireWhenFull(p) ==
  /\ pc[p] = "idle" /\ lock = NoOne
  /\ pool = <<>> /\ ~UnderLimit
  /\ pc' = [pc EXCEPT ![p] = "sleeping"]
  /\ polls' = [polls EXCEPT ![p] = 1]
  /\ UNCHANGED <<pool, active, lock, conn, lost>>

\* Seeded fault: the lock is not released when creating ends.
LockKept == lock

LockReleased == NoOne

CreateReturns(p) ==
  /\ pc[p] = "creating"
  /\ lock' = LockReleased
  /\ pc' = [pc EXCEPT ![p] = "holding"]
  /\ UNCHANGED <<pool, active, conn, polls, lost>>

\* _create_connection raises or is cancelled: _active stays incremented.
CreateFails(p) ==
  /\ pc[p] = "creating"
  /\ lock' = LockReleased
  /\ pc' = [pc EXCEPT ![p] = "idle"]
  /\ lost' = lost \cup {conn[p]}
  /\ conn' = [conn EXCEPT ![p] = NoConn]
  /\ UNCHANGED <<pool, active, polls>>

-----------------------------------------------------------------------------
(* _wait_for_connection(): sleep, look at the clock, take the lock and     *)
(* look into the pool, until the time is up.                               *)

InWait(p) == pc[p] \in {"sleeping", "locking"}

LeaveWait(p) ==
  /\ pc' = [pc EXCEPT ![p] = "idle"]
  /\ polls' = [polls EXCEPT ![p] = 0]
  /\ UNCHANGED <<pool, active, lock, conn, lost>>

\* The clock decides after how many polls the time is up.
SleepOn(p) ==
  /\ pc[p] = "sleeping"
  /\ polls[p] < MaxPolls
  /\ pc' = [pc EXCEPT ![p] = "locking"]
  /\ UNCHANGED <<pool, active, lock, conn, polls, lost>>

\* Seeded fault: the elapsed time is never looked at.
NeverElapsed(p) == FALSE

TimeIsUp(p) == pc[p] = "sleeping"

\* TimeoutError.
TimeOut(p) == TimeIsUp(p) /\ LeaveWait(p)

PollFinds(p) ==
  /\ pc[p] = "locking" /\ lock = NoOne
  /\ TakeFirst(p)
  /\ polls' = [polls EXCEPT ![p] = 0]

PollFindsNothing(p) ==
  /\ pc[p] = "locking" /\ lock = NoOne
  /\ pool = <<>>
  /\ pc' = [pc EXCEPT ![p] = "sleeping"]
  /\ polls' = [polls EXCEPT ![p] = @ + 1]
  /\ UNCHANGED <<pool, active, lock, conn, lost>>

\* The task is cancelled in its sleep or while it queues for the lock.
CancelWait(p) == InWait(p) /\ LeaveWait(p)

-----------------------------------------------------------------------------
\* Seeded fault: a released connection is not put back.
PoolWithout(c) == pool

PoolWith(c) == Append(pool, c)

\* release() in the finally clause of the client.
Release(p) ==
  /\ Holding(p) /\ lock = NoOne
  /\ pool' = PoolWith(conn[p])
  /\ conn' = [conn EXCEPT ![p] = NoConn]
  /\ pc' = [pc EXCEPT ![p] = "idle"]
  /\ UNCHANGED <<active, lock, polls, lost>>

\* The client is cancelled in release() while another task holds the lock.
CancelRelease(p) ==
  /\ Holding(p) /\ lock # NoOne
  /\ lost' = lost \cup {conn[p]}
  /\ conn' = [conn EXCEPT ![p] = NoConn]
  /\ pc' = [pc EXCEPT ![p] = "idle"]
  /\ UNCHANGED <<pool, active, lock, polls>>

-----------------------------------------------------------------------------
Next ==
  \E p \in Clients :
    \/ AcquireExisting(p) \/ AcquireNew(p) \/ AcquireWhenFull(p)
    \/ CreateReturns(p) \/ CreateFails(p)
    \/ SleepOn(p) \/ TimeOut(p) \/ PollFinds(p) \/ PollFindsNothing(p) \/ CancelWait(p)
    \/ Release(p) \/ CancelRelease(p)

(* Creating ends, sleeps end, and a task that queues for the lock gets   *)
(* it once it stays free.  A client may hold a connection for ever.        *)
Fairness ==
  \A p \in Clients :
    /\ WF_vars(CreateReturns(p) \/ CreateFails(p))
    /\ WF_vars(SleepOn(p) \/ TimeOut(p))
    /\ WF_vars(PollFinds(p) \/ PollFindsNothing(p))

Spec == Init /\ [][Next]_vars
FairSpec == Spec /\ Fairness

-----------------------------------------------------------------------------
(* Properties *)

\* A connection is never handed to two clients, and never handed out while it
\* is still (or twice) in the pool.
OneHolderPerConnection ==
  /\ \A p, q \in Clients : Holding(p) /\ Holding(q) /\ conn[p] = conn[q] => p = q
  /\ Pooled \cap Held = {}
  /\ \A i, j \in DOMAIN pool : pool[i] = pool[j] => i = j

\* Every unit of _active is a pooled connection, a held one, one being created,
\* or a slot lost to a failed creation or release; there is no other way for
\* capacity to disappear or to be exceeded.
SlotsAccounted ==
  /\ 1..active = Live \cup InCreation \cup lost
  /\ Live \cap (InCreation \cup lost) = {}
  /\ InCreation \cap lost = {}

\* The lock is held exactly by the one client that creates a connection.
LockHeldByCreator ==
  \A p \in Clients : lock = p <=> pc[p] = "creating"

\* A wait for a connection ends: with a connection or with TimeoutError.
WaitEnds == \A p \in Clients : InWait(p) ~> ~InWait(p)

\* The pool's lock is always released again.
LockIsFreed == lock # NoOne ~> lock = NoOne

\* Who has the connection of each slot.
lease ==
  [s \in Slots |->
     IF s \in lost THEN "gone"
     ELSE IF s \in Held THEN CHOOSE p \in Clients : Holding(p) /\ conn[p] = s
     ELSE IF s \in Pooled THEN "free"
     ELSE "unborn"]

\* Every client sees the pool as a set of leases (Lease): a connection moves
\* between clients only through the pool, and a lost one never comes back.
Leases == INSTANCE Lease WITH Unborn <- "unborn", Free <- "free", Gone <- "gone"
LeaseSpec == Leases!Spec

\* At most max_size connections are counted, and the lock has exactly the one
\* creator (pooling/__init__.py, acquire()).
PoolIsSound == TypeOK /\ LockHeldByCreator
=============================================================================
