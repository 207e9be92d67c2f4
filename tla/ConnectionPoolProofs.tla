------------------------- MODULE ConnectionPoolProofs -------------------------
(* Proofs about ConnectionPool, for every set of clients and every pool size. *)
EXTENDS ConnectionPool, TLAPS

Distinct(s) == \A i, j \in DOMAIN s : s[i] = s[j] => i = j
Elements(s) == {s[i] : i \in DOMAIN s}

\* Taking the first element of a sequence without duplicates removes that
\* element and no other.
LEMMA TailElements ==
  ASSUME NEW S, NEW s \in Seq(S), s # <<>>, Distinct(s)
  PROVE  /\ Tail(s) \in Seq(S)
         /\ Head(s) \in S
         /\ Distinct(Tail(s))
         /\ Elements(Tail(s)) = Elements(s) \ {Head(s)}
         /\ Head(s) \in Elements(s)
<1>1. Len(s) \in Nat \ {0} /\ DOMAIN s = 1..Len(s)
  OBVIOUS
<1>2. /\ Tail(s) \in Seq(S) /\ Head(s) \in S
      /\ DOMAIN Tail(s) = 1..(Len(s) - 1)
      /\ \A i \in 1..(Len(s) - 1) : Tail(s)[i] = s[i + 1]
      /\ Head(s) = s[1]
  BY <1>1
<1>3. Distinct(Tail(s))
  BY <1>1, <1>2 DEF Distinct
<1>4. Elements(Tail(s)) \subseteq Elements(s) \ {Head(s)}
  <2>1. ASSUME NEW i \in 1..(Len(s) - 1)
        PROVE  s[i + 1] \in Elements(s) /\ s[i + 1] # s[1]
    BY <1>1 DEF Elements, Distinct
  <2> QED BY <1>2, <2>1 DEF Elements
<1>5. Elements(s) \ {Head(s)} \subseteq Elements(Tail(s))
  <2>1. ASSUME NEW i \in 1..Len(s), i # 1
        PROVE  s[i] \in Elements(Tail(s))
    <3>1. i - 1 \in 1..(Len(s) - 1) /\ Tail(s)[i - 1] = s[i]
      BY <1>1, <1>2, <2>1
    <3> QED BY <1>2, <3>1 DEF Elements
  <2> QED BY <1>1, <1>2, <2>1 DEF Elements
<1>6. Head(s) \in Elements(s)
  BY <1>1, <1>2 DEF Elements
<1> QED BY <1>2, <1>3, <1>4, <1>5, <1>6

\* Returning an element that is not there adds it and keeps elements distinct.
LEMMA AppendElements ==
  ASSUME NEW S, NEW s \in Seq(S), NEW c \in S, Distinct(s), c \notin Elements(s)
  PROVE  /\ Append(s, c) \in Seq(S)
         /\ Distinct(Append(s, c))
         /\ Elements(Append(s, c)) = Elements(s) \cup {c}
<1> DEFINE t == Append(s, c)
<1>1. /\ Len(s) \in Nat /\ DOMAIN s = 1..Len(s)
      /\ t \in Seq(S) /\ DOMAIN t = 1..(Len(s) + 1)
      /\ \A i \in 1..Len(s) : t[i] = s[i]
      /\ t[Len(s) + 1] = c
  OBVIOUS
<1> HIDE DEF t
<1>2. \A i \in 1..(Len(s) + 1) : i \in 1..Len(s) \/ i = Len(s) + 1
  BY <1>1
<1>3. Distinct(t)
  <2> SUFFICES ASSUME NEW i \in 1..(Len(s) + 1), NEW j \in 1..(Len(s) + 1), t[i] = t[j]
               PROVE  i = j
    BY <1>1 DEF Distinct
  <2>1. \A n \in 1..Len(s) : t[n] # c
    BY <1>1 DEF Elements
  <2> QED BY <1>1, <1>2, <2>1 DEF Distinct
<1>4. Elements(t) = Elements(s) \cup {c}
  BY <1>1, <1>2 DEF Elements
<1> QED BY <1>1, <1>3, <1>4 DEF t

-------------------------------------------------------------------------------
(* Why the pool is safe: the lock makes creation exclusive, so the slot being  *)
(* created is always the latest one; and a client has a slot exactly while it   *)
(* creates or holds a connection.                                              *)
BusyClientsHaveSlots ==
  \A p \in Clients : (Holding(p) \/ pc[p] = "creating") <=> conn[p] \in Slots

OneCreator ==
  \A p, q \in Clients : pc[p] = "creating" /\ pc[q] = "creating" => p = q

WaitsArePolled ==
  \A p \in Clients : pc[p] = "locking" => polls[p] < MaxPolls

IInv ==
  /\ TypeOK
  /\ OneHolderPerConnection
  /\ SlotsAccounted
  /\ LockHeldByCreator
  /\ BusyClientsHaveSlots
  /\ OneCreator
  /\ WaitsArePolled

USE MaxSizeAssumption, MaxPollsAssumption, NoOneAssumption DEF Slots, NoConn

\* Nothing is created, pooled or held at the start.
LEMMA InitIInv == Init => IInv
<1> SUFFICES ASSUME Init PROVE IInv
  OBVIOUS
<1>1. Pooled = {} /\ Held = {} /\ InCreation = {}
  BY DEF Init, Pooled, Held, InCreation, Holding
<1> QED
  BY <1>1 DEF Init, IInv, TypeOK, OneHolderPerConnection, SlotsAccounted, Live,
    LockHeldByCreator, BusyClientsHaveSlots, OneCreator, WaitsArePolled, Holding

\* Steps that leave the connections alone.
LEMMA WaitingKeepsIInv ==
  ASSUME IInv, NEW p \in Clients,
         \/ AcquireWhenFull(p) \/ SleepOn(p) \/ TimeOut(p)
         \/ PollFindsNothing(p) \/ CancelWait(p)
  PROVE  IInv'
<1>1. /\ UNCHANGED <<pool, active, lock, conn, lost>>
      /\ pc[p] \notin {"creating", "holding"}
      /\ \E s \in {"idle", "sleeping", "locking"} : pc' = [pc EXCEPT ![p] = s]
  BY DEF AcquireWhenFull, SleepOn, TimeOut, TimeIsUp, PollFindsNothing, CancelWait,
         LeaveWait, InWait
<1>2. \A q \in Clients : /\ Holding(q)' <=> Holding(q)
                         /\ pc'[q] = "creating" <=> pc[q] = "creating"
  BY <1>1 DEF IInv, TypeOK, Holding
<1>3. Pooled' = Pooled /\ Held' = Held /\ InCreation' = InCreation /\ Live' = Live
  BY <1>1, <1>2 DEF Pooled, Held, InCreation, Live
<1>4. polls' \in [Clients -> 0..MaxPolls] /\ WaitsArePolled'
  <2>1. CASE AcquireWhenFull(p)
    <3>1. pc' = [pc EXCEPT ![p] = "sleeping"] /\ polls' = [polls EXCEPT ![p] = 1]
      BY <2>1 DEF AcquireWhenFull
    <3>2. 1 \in 0..MaxPolls
      OBVIOUS
    <3>3. polls' \in [Clients -> 0..MaxPolls]
      BY <3>1, <3>2 DEF IInv, TypeOK
    <3>4. \A q \in Clients : pc'[q] = "locking" => q # p /\ pc[q] = "locking"
      BY <3>1 DEF IInv, TypeOK
    <3>5. \A q \in Clients : q # p => polls'[q] = polls[q]
      BY <3>1 DEF IInv, TypeOK
    <3> QED BY <3>3, <3>4, <3>5 DEF IInv, WaitsArePolled
  <2>2. CASE SleepOn(p)
    <3>1. pc' = [pc EXCEPT ![p] = "locking"] /\ polls' = polls /\ polls[p] < MaxPolls
      BY <2>2 DEF SleepOn
    <3> QED BY <3>1 DEF IInv, TypeOK, WaitsArePolled
  <2>3. CASE TimeOut(p) \/ CancelWait(p)
    <3>1. pc' = [pc EXCEPT ![p] = "idle"] /\ polls' = [polls EXCEPT ![p] = 0]
      BY <2>3 DEF TimeOut, CancelWait, LeaveWait
    <3>2. 0 \in 0..MaxPolls
      OBVIOUS
    <3>3. polls' \in [Clients -> 0..MaxPolls]
      BY <3>1, <3>2 DEF IInv, TypeOK
    <3>4. \A q \in Clients : pc'[q] = "locking" => q # p /\ pc[q] = "locking"
      BY <3>1 DEF IInv, TypeOK
    <3>5. \A q \in Clients : q # p => polls'[q] = polls[q]
      BY <3>1 DEF IInv, TypeOK
    <3> QED BY <3>3, <3>4, <3>5 DEF IInv, WaitsArePolled
  <2>4. CASE PollFindsNothing(p)
    <3>1. polls[p] \in 0..MaxPolls /\ polls[p] < MaxPolls
      BY <2>4 DEF PollFindsNothing, IInv, TypeOK, WaitsArePolled
    <3>2. polls' = [polls EXCEPT ![p] = polls[p] + 1]
      BY <2>4 DEF PollFindsNothing
    <3> QED BY <2>4, <3>1, <3>2 DEF PollFindsNothing, IInv, TypeOK, WaitsArePolled
  <2> QED BY <2>1, <2>2, <2>3, <2>4
<1>5. TypeOK'
  BY <1>1, <1>4 DEF IInv, TypeOK
<1> QED
  BY <1>1, <1>2, <1>3, <1>4, <1>5
  DEF IInv, OneHolderPerConnection, SlotsAccounted, LockHeldByCreator,
      BusyClientsHaveSlots, OneCreator

\* A connection leaves the pool for a client.
LEMMA TakingKeepsIInv ==
  ASSUME IInv, NEW p \in Clients, AcquireExisting(p) \/ PollFinds(p)
  PROVE  IInv'
<1>1. /\ pc[p] \in {"idle", "locking"}
      /\ pool # <<>>
      /\ pool' = Tail(pool)
      /\ conn' = [conn EXCEPT ![p] = Head(pool)]
      /\ pc' = [pc EXCEPT ![p] = "holding"]
      /\ UNCHANGED <<active, lock, lost>>
      /\ polls' \in [Clients -> 0..MaxPolls]
      /\ \A q \in Clients : q # p => polls'[q] = polls[q]
  <2>1. CASE AcquireExisting(p)
    BY <2>1 DEF AcquireExisting, TakeFirst, PoppedPool, IInv, TypeOK
  <2>2. CASE PollFinds(p)
    BY <2>2 DEF PollFinds, TakeFirst, PoppedPool, IInv, TypeOK
  <2> QED BY <2>1, <2>2
<1>2. Distinct(pool) /\ Elements(pool) = Pooled /\ Elements(Tail(pool)) = Pooled'
  BY <1>1 DEF IInv, OneHolderPerConnection, Distinct, Elements, Pooled
<1>3. /\ pool' \in Seq(Slots) /\ Head(pool) \in Slots
      /\ Distinct(pool')
      /\ Pooled' = Pooled \ {Head(pool)}
      /\ Head(pool) \in Pooled
  BY <1>1, <1>2, TailElements DEF IInv, TypeOK
<1>4. \A q \in Clients :
        /\ Holding(q)' <=> Holding(q) \/ q = p
        /\ pc'[q] = "creating" <=> pc[q] = "creating"
        /\ conn'[q] = IF q = p THEN Head(pool) ELSE conn[q]
  BY <1>1 DEF IInv, TypeOK, Holding
<1>5. ~Holding(p) /\ pc[p] # "creating"
  BY <1>1 DEF Holding
<1>6. Held' = Held \cup {Head(pool)}
  BY <1>4, <1>5 DEF Held
<1>7. InCreation' = InCreation
  BY <1>4, <1>5 DEF InCreation
<1>8. Live' = Live
  BY <1>3, <1>6 DEF Live
<1>9. TypeOK'
  BY <1>1, <1>3 DEF IInv, TypeOK
<1>10. OneHolderPerConnection'
  <2>1. \A q \in Clients : Holding(q) => conn[q] # Head(pool)
    BY <1>3 DEF IInv, OneHolderPerConnection, Held
  <2>2. \A q, r \in Clients : Holding(q)' /\ Holding(r)' /\ conn'[q] = conn'[r] => q = r
    BY <1>4, <2>1 DEF IInv, OneHolderPerConnection
  <2>3. Pooled' \cap Held' = {}
    BY <1>3, <1>6 DEF IInv, OneHolderPerConnection
  <2> QED BY <1>3, <2>2, <2>3 DEF OneHolderPerConnection, Distinct
<1>11. SlotsAccounted'
  BY <1>1, <1>7, <1>8 DEF IInv, SlotsAccounted
<1>12. LockHeldByCreator' /\ OneCreator'
  BY <1>1, <1>4 DEF IInv, LockHeldByCreator, OneCreator
<1>13. BusyClientsHaveSlots' /\ WaitsArePolled'
  BY <1>1, <1>3, <1>4 DEF IInv, TypeOK, BusyClientsHaveSlots, WaitsArePolled
<1> QED BY <1>9, <1>10, <1>11, <1>12, <1>13 DEF IInv

\* A slot is created under the lock: the next one, never used before.
LEMMA CreatingKeepsIInv ==
  ASSUME IInv, NEW p \in Clients, AcquireNew(p)
  PROVE  IInv'
<1>1. /\ pc[p] = "idle" /\ lock = NoOne
      /\ active \in 0..MaxSize /\ active < MaxSize
      /\ active' = active + 1
      /\ conn' = [conn EXCEPT ![p] = active + 1]
      /\ lock' = p
      /\ pc' = [pc EXCEPT ![p] = "creating"]
      /\ UNCHANGED <<pool, polls, lost>>
  BY DEF AcquireNew, UnderLimit, IInv, TypeOK
<1>2. \A q \in Clients :
        /\ Holding(q)' <=> Holding(q)
        /\ pc[q] # "creating"
        /\ pc'[q] = "creating" <=> q = p
        /\ conn'[q] = IF q = p THEN active + 1 ELSE conn[q]
        /\ Holding(q) => q # p
  BY <1>1 DEF IInv, TypeOK, Holding, LockHeldByCreator
<1>3. Held' = Held /\ Pooled' = Pooled /\ Live' = Live
  BY <1>1, <1>2 DEF Held, Pooled, Live
<1>4. InCreation = {} /\ InCreation' = {active + 1}
  BY <1>2 DEF InCreation
<1>5. 1..active' = 1..active \cup {active + 1} /\ active + 1 \notin 1..active
  BY <1>1
<1>6. SlotsAccounted'
  BY <1>1, <1>3, <1>4, <1>5 DEF IInv, SlotsAccounted
<1>7. OneHolderPerConnection'
  BY <1>1, <1>2, <1>3 DEF IInv, OneHolderPerConnection
<1>8. TypeOK' /\ BusyClientsHaveSlots' /\ WaitsArePolled'
  BY <1>1, <1>2 DEF IInv, TypeOK, BusyClientsHaveSlots, WaitsArePolled
<1>9. LockHeldByCreator' /\ OneCreator'
  BY <1>1, <1>2 DEF LockHeldByCreator, OneCreator
<1> QED BY <1>6, <1>7, <1>8, <1>9 DEF IInv

\* Creating ends: the connection is held, or its slot is lost.
LEMMA CreatedKeepsIInv ==
  ASSUME IInv, NEW p \in Clients, CreateReturns(p) \/ CreateFails(p)
  PROVE  IInv'
<1>1. /\ pc[p] = "creating" /\ lock' = NoOne
      /\ conn[p] \in Slots
      /\ UNCHANGED <<pool, active, polls>>
  BY DEF CreateReturns, CreateFails, LockReleased, IInv, BusyClientsHaveSlots
<1>2. \A q \in Clients : q # p => pc[q] # "creating"
  BY <1>1 DEF IInv, OneCreator
<1>3. InCreation = {conn[p]} /\ Pooled' = Pooled
  BY <1>1, <1>2 DEF InCreation, Pooled
<1>4. conn[p] \notin Pooled /\ conn[p] \notin Held /\ conn[p] \notin lost
  BY <1>3 DEF IInv, SlotsAccounted, Live
<1>5. CASE CreateReturns(p)
  <2>1. /\ pc' = [pc EXCEPT ![p] = "holding"] /\ UNCHANGED <<conn, lost>>
    BY <1>5 DEF CreateReturns
  <2>2. \A q \in Clients : /\ Holding(q)' <=> Holding(q) \/ q = p
                           /\ pc'[q] # "creating"
    BY <1>1, <1>2, <2>1 DEF IInv, TypeOK, Holding
  <2>3. InCreation' = {} /\ Held' = Held \cup {conn[p]}
    BY <2>1, <2>2 DEF InCreation, Held
  <2>4. SlotsAccounted'
    BY <1>1, <1>3, <1>4, <2>1, <2>3 DEF IInv, SlotsAccounted, Live
  <2>5. OneHolderPerConnection'
    <3>1. \A q \in Clients : Holding(q) => conn[q] # conn[p]
      BY <1>4 DEF Held
    <3>2. \A q, r \in Clients : Holding(q)' /\ Holding(r)' /\ conn'[q] = conn'[r] => q = r
      BY <2>1, <2>2, <3>1 DEF IInv, OneHolderPerConnection
    <3>3. Pooled' \cap Held' = {}
      BY <1>3, <1>4, <2>3 DEF IInv, OneHolderPerConnection
    <3> QED BY <1>1, <3>2, <3>3 DEF IInv, OneHolderPerConnection
  <2>6. TypeOK'
    BY <1>1, <2>1 DEF IInv, TypeOK
  <2>7. BusyClientsHaveSlots'
    <3>1. \A q \in Clients : (Holding(q) \/ pc[q] = "creating")' <=>
                               (Holding(q) \/ pc[q] = "creating")
      BY <1>1, <1>2, <2>2
    <3> QED BY <2>1, <3>1 DEF IInv, BusyClientsHaveSlots
  <2>8. WaitsArePolled'
    BY <1>1, <2>1 DEF IInv, TypeOK, WaitsArePolled
  <2>9. LockHeldByCreator' /\ OneCreator'
    BY <1>1, <2>2 DEF LockHeldByCreator, OneCreator
  <2> QED BY <2>4, <2>5, <2>6, <2>7, <2>8, <2>9 DEF IInv
<1>6. CASE CreateFails(p)
  <2>1. /\ pc' = [pc EXCEPT ![p] = "idle"]
        /\ lost' = lost \cup {conn[p]}
        /\ conn' = [conn EXCEPT ![p] = 0]
    BY <1>6 DEF CreateFails
  <2>2. \A q \in Clients : /\ Holding(q)' <=> Holding(q)
                           /\ pc'[q] # "creating"
                           /\ Holding(q) => q # p
                           /\ conn'[q] = IF q = p THEN 0 ELSE conn[q]
    BY <1>1, <1>2, <2>1 DEF IInv, TypeOK, Holding
  <2>3. InCreation' = {} /\ Held' = Held /\ Live' = Live
    BY <1>3, <2>1, <2>2 DEF InCreation, Held, Live
  <2>4. SlotsAccounted'
    BY <1>1, <1>3, <1>4, <2>1, <2>3 DEF IInv, SlotsAccounted, Live
  <2>5. OneHolderPerConnection'
    BY <1>1, <1>3, <2>2, <2>3 DEF IInv, OneHolderPerConnection
  <2>6. TypeOK'
    BY <1>1, <2>1 DEF IInv, TypeOK
  <2>7. BusyClientsHaveSlots'
    <3>1. \A q \in Clients : q # p => (Holding(q) \/ pc[q] = "creating")' <=>
                                        (Holding(q) \/ pc[q] = "creating")
      BY <1>2, <2>2
    <3>2. ~Holding(p)' /\ pc'[p] # "creating" /\ conn'[p] \notin Slots
      BY <2>2
    <3> QED BY <2>2, <3>1, <3>2 DEF IInv, BusyClientsHaveSlots
  <2>8. WaitsArePolled'
    BY <1>1, <2>1 DEF IInv, TypeOK, WaitsArePolled
  <2>9. LockHeldByCreator' /\ OneCreator'
    BY <1>1, <2>2 DEF LockHeldByCreator, OneCreator
  <2> QED BY <2>4, <2>5, <2>6, <2>7, <2>8, <2>9 DEF IInv
<1> QED BY <1>5, <1>6

\* A client gives its connection back, or loses it.
LEMMA ReturningKeepsIInv ==
  ASSUME IInv, NEW p \in Clients, Release(p) \/ CancelRelease(p)
  PROVE  IInv'
<1> DEFINE c == conn[p]
<1>1. /\ Holding(p) /\ c \in Slots
      /\ pc' = [pc EXCEPT ![p] = "idle"]
      /\ conn' = [conn EXCEPT ![p] = 0]
      /\ UNCHANGED <<active, lock, polls>>
  BY DEF Release, CancelRelease, IInv, BusyClientsHaveSlots
<1>2. \A q \in Clients : /\ Holding(q)' <=> Holding(q) /\ q # p
                         /\ pc'[q] = "creating" <=> pc[q] = "creating"
                         /\ pc[q] = "creating" => q # p
                         /\ conn'[q] = IF q = p THEN 0 ELSE conn[q]
  BY <1>1 DEF IInv, TypeOK, Holding
<1>3. \A q \in Clients : Holding(q) /\ q # p => conn[q] # c
  BY <1>1 DEF IInv, OneHolderPerConnection
<1>4. Held' = Held \ {c} /\ c \in Held
  BY <1>1, <1>2, <1>3 DEF Held
<1>5. InCreation' = InCreation
  BY <1>2 DEF InCreation
<1>6. c \notin Pooled /\ c \notin lost /\ c \notin InCreation
  BY <1>4 DEF IInv, OneHolderPerConnection, SlotsAccounted, Live
<1>7. BusyClientsHaveSlots' /\ WaitsArePolled' /\ LockHeldByCreator' /\ OneCreator'
  BY <1>1, <1>2 DEF IInv, TypeOK, BusyClientsHaveSlots, WaitsArePolled,
                    LockHeldByCreator, OneCreator
<1>8. \A q, r \in Clients : Holding(q)' /\ Holding(r)' /\ conn'[q] = conn'[r] => q = r
  BY <1>2 DEF IInv, OneHolderPerConnection
<1>9. CASE Release(p)
  <2>1. pool' = Append(pool, c) /\ UNCHANGED lost
    BY <1>9 DEF Release, PoolWith
  <2>2. pool \in Seq(Slots) /\ Distinct(pool) /\ Elements(pool) = Pooled
    BY DEF IInv, TypeOK, OneHolderPerConnection, Distinct, Elements, Pooled
  <2>3. pool' \in Seq(Slots) /\ Distinct(pool') /\ Elements(pool') = Pooled \cup {c}
    BY <1>1, <1>6, <2>1, <2>2, AppendElements
  <2>4. Pooled' = Pooled \cup {c}
    BY <2>3 DEF Elements, Pooled
  <2>5. Live' = Live
    BY <1>4, <2>4 DEF Live
  <2>6. SlotsAccounted'
    BY <1>1, <1>5, <2>1, <2>5 DEF IInv, SlotsAccounted
  <2>7. Pooled' \cap Held' = {}
    BY <1>4, <2>4 DEF IInv, OneHolderPerConnection
  <2>8. OneHolderPerConnection'
    BY <1>8, <2>3, <2>7 DEF OneHolderPerConnection, Distinct
  <2>9. TypeOK'
    BY <1>1, <2>1, <2>3 DEF IInv, TypeOK
  <2> QED BY <1>7, <2>6, <2>8, <2>9 DEF IInv
<1>10. CASE CancelRelease(p)
  <2>1. lost' = lost \cup {c} /\ UNCHANGED pool
    BY <1>10 DEF CancelRelease
  <2>2. Pooled' = Pooled /\ Live' = Live \ {c} /\ c \in Live
    BY <1>4, <1>6, <2>1 DEF Pooled, Live
  <2>3. SlotsAccounted'
    BY <1>1, <1>5, <1>6, <2>1, <2>2 DEF IInv, SlotsAccounted
  <2>4. OneHolderPerConnection'
    BY <1>4, <1>8, <2>1, <2>2 DEF IInv, OneHolderPerConnection
  <2>5. TypeOK'
    BY <1>1, <2>1 DEF IInv, TypeOK
  <2> QED BY <1>7, <2>3, <2>4, <2>5 DEF IInv
<1> QED BY <1>9, <1>10

-------------------------------------------------------------------------------
\* Every step of every client preserves the invariant.
LEMMA NextKeepsIInv == IInv /\ [Next]_vars => IInv'
<1> SUFFICES ASSUME IInv, [Next]_vars PROVE IInv'
  OBVIOUS
<1>1. CASE UNCHANGED vars
  <2>1. /\ UNCHANGED <<pool, active, lock, pc, conn, polls, lost>>
        /\ \A q \in Clients : Holding(q)' <=> Holding(q)
    BY <1>1 DEF vars, Holding
  <2>2. Pooled' = Pooled /\ Held' = Held /\ InCreation' = InCreation /\ Live' = Live
    BY <2>1 DEF Pooled, Held, InCreation, Live
  <2> QED
    BY <2>1, <2>2 DEF IInv, TypeOK, OneHolderPerConnection, SlotsAccounted,
      LockHeldByCreator, BusyClientsHaveSlots, OneCreator, WaitsArePolled
<1>2. CASE Next
  BY <1>2, WaitingKeepsIInv, TakingKeepsIInv, CreatingKeepsIInv, CreatedKeepsIInv,
     ReturningKeepsIInv DEF Next
<1> QED BY <1>1, <1>2

\* The strengthened invariant always holds.
THEOREM SpecIInv == Spec => []IInv
  BY InitIInv, NextKeepsIInv, PTL DEF Spec

\* _active never exceeds max_size, and across its await the lock belongs to the
\* one client that creates a connection.
THEOREM PoolHolds == Spec => []PoolIsSound
<1>1. IInv => PoolIsSound
  BY DEF IInv, PoolIsSound
<1> QED BY <1>1, SpecIInv, PTL

\* No connection is ever in the hands of two clients, or pooled while in use.
THEOREM ExclusiveUse == Spec => []OneHolderPerConnection
  BY SpecIInv, PTL DEF IInv

\* Capacity is conserved: each unit of _active is pooled, held, being created or
\* lost to a failed creation or a cancelled release.
THEOREM CapacityConserved == Spec => []SlotsAccounted
  BY SpecIInv, PTL DEF IInv

-------------------------------------------------------------------------------
(* The pool implements the table of leases.  The lease of a slot can be read   *)
(* off the pool, the holders and the lost slots, because these exclude each    *)
(* other; so a step that changes them at one slot moves one lease.             *)
LeaseIsRead ==
  \A s \in Slots :
    /\ s \in lost => lease[s] = "gone"
    /\ s \in Pooled => lease[s] = "free"
    /\ \A p \in Clients : Holding(p) /\ conn[p] = s => lease[s] = p
    /\ s \notin lost /\ s \notin Live => lease[s] = "unborn"

\* The CHOOSE in lease finds the one holder there is.
LEMMA ReadLease == IInv => LeaseIsRead
<1> SUFFICES ASSUME IInv, NEW s \in Slots
             PROVE  /\ s \in lost => lease[s] = "gone"
                    /\ s \in Pooled => lease[s] = "free"
                    /\ \A p \in Clients : Holding(p) /\ conn[p] = s => lease[s] = p
                    /\ s \notin lost /\ s \notin Live => lease[s] = "unborn"
  BY DEF LeaseIsRead
<1>1. /\ s \in lost => s \notin Held /\ s \notin Pooled
      /\ s \in Pooled => s \notin Held
  BY DEF IInv, SlotsAccounted, OneHolderPerConnection, Live
<1>2. ASSUME NEW p \in Clients, Holding(p), conn[p] = s
      PROVE  lease[s] = p
  <2>1. s \in Held
    BY <1>2 DEF Held
  <2>2. \A q \in Clients : Holding(q) /\ conn[q] = s => q = p
    BY <1>2 DEF IInv, OneHolderPerConnection
  <2>3. (CHOOSE q \in Clients : Holding(q) /\ conn[q] = s) = p
    BY <1>2, <2>2
  <2> QED BY <1>1, <2>1, <2>3 DEF lease
<1> QED BY <1>1, <1>2 DEF lease, Live

\* The same after a step.
LEMMA ReadLeaseAfter == IInv' => LeaseIsRead'
  BY ReadLease, PTL

\* The step changes nothing at slot t.
SameAt(t) ==
  /\ t \in lost' <=> t \in lost
  /\ t \in Pooled' <=> t \in Pooled
  /\ \A q \in Clients : Holding(q)' /\ conn'[q] = t <=> Holding(q) /\ conn[q] = t

\* A slot where nothing changes keeps its lease.
LEMMA SameLease ==
  ASSUME IInv, IInv', NEW t \in Slots, SameAt(t)
  PROVE  lease'[t] = lease[t]
<1>1. LeaseIsRead /\ LeaseIsRead'
  BY ReadLease, ReadLeaseAfter
<1>2. CASE t \in lost
  BY <1>1, <1>2 DEF LeaseIsRead, SameAt
<1>3. CASE t \in Pooled
  BY <1>1, <1>3 DEF LeaseIsRead, SameAt
<1>4. CASE t \in Held
  <2>1. PICK p \in Clients : Holding(p) /\ conn[p] = t
    BY <1>4 DEF Held
  <2>2. Holding(p)' /\ conn'[p] = t
    BY <2>1 DEF SameAt
  <2> QED BY <1>1, <2>1, <2>2 DEF LeaseIsRead
<1>5. CASE t \notin lost /\ t \notin Pooled /\ t \notin Held
  <2>1. t \notin Held'
    BY <1>5 DEF Held, SameAt
  <2>2. t \notin lost' /\ t \notin Live' /\ t \notin Live
    BY <1>5, <2>1 DEF SameAt, Live
  <2> QED BY <1>1, <1>5, <2>2 DEF LeaseIsRead
<1> QED BY <1>2, <1>3, <1>4, <1>5

\* A step that changes one slot at most moves that lease only.
LEMMA OneLeaseMoves ==
  ASSUME IInv, IInv', NEW s \in Slots, \A t \in Slots \ {s} : SameAt(t)
  PROVE  lease' = [lease EXCEPT ![s] = lease'[s]]
<1>1. \A t \in Slots \ {s} : lease'[t] = lease[t]
  BY SameLease
<1>2. DOMAIN lease = Slots /\ DOMAIN lease' = Slots
  BY DEF lease
<1>3. lease = [t \in Slots |-> lease[t]] /\ lease' = [t \in Slots |-> lease'[t]]
  BY DEF lease
<1> QED BY <1>1, <1>2, <1>3

\* A step that changes no slot moves no lease.
LEMMA NoLeaseMoves ==
  ASSUME IInv, IInv', \A t \in Slots : SameAt(t)
  PROVE  UNCHANGED lease
<1>1. \A t \in Slots : lease'[t] = lease[t]
  BY SameLease
<1>2. lease = [t \in Slots |-> lease[t]] /\ lease' = [t \in Slots |-> lease'[t]]
  BY DEF lease
<1> QED BY <1>1, <1>2

\* The initial pool maps to the initial table of leases.
LEMMA InitLease == Init => Leases!Init
<1> SUFFICES ASSUME Init PROVE Leases!Init
  OBVIOUS
<1>1. Pooled = {} /\ Held = {} /\ lost = {}
  BY DEF Init, Pooled, Held, Holding
<1> QED BY <1>1 DEF Leases!Init, Leases!Slots, lease

\* A connection that leaves the pool for a client is taken.
LEMMA TakingTakes ==
  ASSUME IInv, IInv', NEW p \in Clients, AcquireExisting(p) \/ PollFinds(p)
  PROVE  \E s \in Slots : Leases!Take(p, s)
<1> DEFINE s == Head(pool)
<1>1. /\ pc[p] \in {"idle", "locking"}
      /\ pool # <<>>
      /\ pool' = Tail(pool)
      /\ conn' = [conn EXCEPT ![p] = s]
      /\ pc' = [pc EXCEPT ![p] = "holding"]
      /\ lost' = lost
  BY DEF AcquireExisting, PollFinds, TakeFirst, PoppedPool
<1>2. Distinct(pool) /\ Elements(pool) = Pooled /\ Elements(Tail(pool)) = Pooled'
  BY <1>1 DEF IInv, OneHolderPerConnection, Distinct, Elements, Pooled
<1>3. s \in Slots /\ s \in Pooled /\ Pooled' = Pooled \ {s}
  BY <1>1, <1>2, TailElements DEF IInv, TypeOK
<1>4. \A q \in Clients : /\ Holding(q)' <=> Holding(q) \/ q = p
                         /\ conn'[q] = IF q = p THEN s ELSE conn[q]
  BY <1>1 DEF IInv, TypeOK, Holding
<1>5. ~Holding(p)
  BY <1>1 DEF Holding
<1> HIDE DEF s
<1>6. \A t \in Slots \ {s} : SameAt(t)
  BY <1>1, <1>3, <1>4, <1>5 DEF SameAt
<1>7. lease[s] = "free"
  BY <1>3, ReadLease DEF LeaseIsRead
<1>8. lease'[s] = p
  BY <1>3, <1>4, ReadLeaseAfter DEF LeaseIsRead
<1>9. lease' = [lease EXCEPT ![s] = p]
  BY <1>3, <1>6, <1>8, OneLeaseMoves
<1> QED BY <1>3, <1>7, <1>9 DEF Leases!Take, Leases!Move

\* A slot being created is unborn; when creating ends it is leased or gone.
LEMMA CreatedOpensOrSpoils ==
  ASSUME IInv, IInv', NEW p \in Clients, CreateReturns(p) \/ CreateFails(p)
  PROVE  \E s \in Slots : Leases!Open(p, s) \/ Leases!Spoil(s)
<1> DEFINE s == conn[p]
<1>1. /\ pc[p] = "creating" /\ pool' = pool
      /\ s \in Slots
  BY DEF CreateReturns, CreateFails, IInv, BusyClientsHaveSlots
<1>2. s \in InCreation /\ Pooled' = Pooled /\ ~Holding(p)
  BY <1>1 DEF InCreation, Pooled, Holding
<1>3. s \notin Live /\ s \notin lost
  BY <1>2 DEF IInv, SlotsAccounted
<1>4. lease[s] = "unborn"
  BY <1>1, <1>3, ReadLease DEF LeaseIsRead
<1>5. CASE CreateReturns(p)
  <2>1. pc' = [pc EXCEPT ![p] = "holding"] /\ conn' = conn /\ lost' = lost
    BY <1>5 DEF CreateReturns
  <2>2. \A q \in Clients : Holding(q)' <=> Holding(q) \/ q = p
    BY <2>1 DEF IInv, TypeOK, Holding
  <2>3. \A t \in Slots \ {s} : SameAt(t)
    BY <1>2, <2>1, <2>2 DEF SameAt
  <2>4. lease'[s] = p
    BY <1>1, <2>1, <2>2, ReadLeaseAfter DEF LeaseIsRead
  <2>5. lease' = [lease EXCEPT ![s] = p]
    BY <1>1, <2>3, <2>4, OneLeaseMoves
  <2> QED BY <1>1, <1>4, <2>5 DEF Leases!Open, Leases!Move
<1>6. CASE CreateFails(p)
  <2>1. /\ pc' = [pc EXCEPT ![p] = "idle"]
        /\ lost' = lost \cup {s}
        /\ conn' = [conn EXCEPT ![p] = 0]
    BY <1>6 DEF CreateFails
  <2>2. \A q \in Clients : /\ Holding(q)' <=> Holding(q)
                           /\ Holding(q) => q # p /\ conn'[q] = conn[q]
    BY <1>2, <2>1 DEF IInv, TypeOK, Holding
  <2>3. \A t \in Slots \ {s} : SameAt(t)
    BY <1>2, <2>1, <2>2 DEF SameAt
  <2>4. lease'[s] = "gone"
    BY <1>1, <2>1, ReadLeaseAfter DEF LeaseIsRead
  <2>5. lease' = [lease EXCEPT ![s] = "gone"]
    BY <1>1, <2>3, <2>4, OneLeaseMoves
  <2> QED BY <1>1, <1>4, <2>5 DEF Leases!Spoil, Leases!Move
<1> QED BY <1>5, <1>6

\* A client gives its lease back, or its slot is gone.
LEMMA ReturningReturnsOrDrops ==
  ASSUME IInv, IInv', NEW p \in Clients, Release(p) \/ CancelRelease(p)
  PROVE  \E s \in Slots : Leases!Return(p, s) \/ Leases!Drop(p, s)
<1> DEFINE s == conn[p]
<1>1. /\ Holding(p) /\ s \in Slots
      /\ pc' = [pc EXCEPT ![p] = "idle"]
      /\ conn' = [conn EXCEPT ![p] = 0]
  BY DEF Release, CancelRelease, IInv, BusyClientsHaveSlots
<1>2. \A q \in Clients : /\ Holding(q)' <=> Holding(q) /\ q # p
                         /\ conn'[q] = IF q = p THEN 0 ELSE conn[q]
  BY <1>1 DEF IInv, TypeOK, Holding
<1>3. lease[s] = p
  BY <1>1, ReadLease DEF LeaseIsRead
<1>4. CASE Release(p)
  <2>1. pool' = Append(pool, s) /\ lost' = lost
    BY <1>4 DEF Release, PoolWith
  <2>2. s \in Held
    BY <1>1 DEF Held
  <2>3. s \notin Pooled
    BY <2>2 DEF IInv, OneHolderPerConnection
  <2>4. pool \in Seq(Slots) /\ Distinct(pool) /\ Elements(pool) = Pooled
    BY DEF IInv, TypeOK, OneHolderPerConnection, Distinct, Elements, Pooled
  <2>5. Elements(pool') = Pooled \cup {s}
    BY <1>1, <2>1, <2>3, <2>4, AppendElements
  <2>6. Pooled' = Pooled \cup {s}
    BY <2>5 DEF Elements, Pooled
  <2> HIDE DEF s
  <2>7. \A t \in Slots \ {s} : SameAt(t)
    BY <1>2, <2>1, <2>6 DEF SameAt, s
  <2>8. lease'[s] = "free"
    BY <1>1, <2>6, ReadLeaseAfter DEF LeaseIsRead
  <2>9. lease' = [lease EXCEPT ![s] = "free"]
    BY <1>1, <2>7, <2>8, OneLeaseMoves
  <2> QED BY <1>1, <1>3, <2>9 DEF Leases!Return, Leases!Move
<1>5. CASE CancelRelease(p)
  <2>1. lost' = lost \cup {s} /\ Pooled' = Pooled
    BY <1>5 DEF CancelRelease, Pooled
  <2>2. \A t \in Slots \ {s} : SameAt(t)
    BY <1>2, <2>1 DEF SameAt
  <2>3. lease'[s] = "gone"
    BY <1>1, <2>1, ReadLeaseAfter DEF LeaseIsRead
  <2>4. lease' = [lease EXCEPT ![s] = "gone"]
    BY <1>1, <2>2, <2>3, OneLeaseMoves
  <2> QED BY <1>1, <1>3, <2>4 DEF Leases!Drop, Leases!Move
<1> QED BY <1>4, <1>5

\* The other steps move no lease: a slot in creation is not leased yet, and a
\* waiting client has none.
LEMMA OthersMoveNoLease ==
  ASSUME IInv, IInv', NEW p \in Clients,
         \/ AcquireNew(p) \/ AcquireWhenFull(p) \/ SleepOn(p) \/ TimeOut(p)
         \/ PollFindsNothing(p) \/ CancelWait(p)
  PROVE  UNCHANGED lease
<1>1. /\ UNCHANGED <<pool, lost>>
      /\ ~Holding(p)
      /\ \E w \in {"idle", "sleeping", "locking", "creating"} : pc' = [pc EXCEPT ![p] = w]
      /\ conn' = conn \/ conn' = [conn EXCEPT ![p] = active + 1]
  BY DEF AcquireNew, AcquireWhenFull, SleepOn, TimeOut, TimeIsUp, PollFindsNothing,
         CancelWait, LeaveWait, InWait, Holding
<1>2. \A q \in Clients : /\ Holding(q)' <=> Holding(q)
                         /\ Holding(q) => conn'[q] = conn[q]
  BY <1>1 DEF IInv, TypeOK, Holding
<1>3. Pooled' = Pooled
  BY <1>1 DEF Pooled
<1>4. \A t \in Slots : SameAt(t)
  BY <1>1, <1>2, <1>3 DEF SameAt
<1> QED BY <1>4, NoLeaseMoves

\* Every step of the pool is a step of one lease or a stutter.
LEMMA NextMovesLease == IInv /\ IInv' /\ [Next]_vars => [Leases!Next]_lease
<1> SUFFICES ASSUME IInv, IInv', [Next]_vars
             PROVE  Leases!Next \/ UNCHANGED lease
  OBVIOUS
<1>1. CASE UNCHANGED vars
  <2>1. /\ UNCHANGED <<pool, pc, conn, lost>>
        /\ \A q \in Clients : Holding(q)' <=> Holding(q)
    BY <1>1 DEF vars, Holding
  <2>2. Pooled' = Pooled
    BY <2>1 DEF Pooled
  <2>3. \A t \in Slots : SameAt(t)
    BY <2>1, <2>2 DEF SameAt
  <2> QED BY <2>3, NoLeaseMoves
<1>2. CASE Next
  <2>1. PICK p \in Clients :
          \/ AcquireExisting(p) \/ AcquireNew(p) \/ AcquireWhenFull(p)
          \/ CreateReturns(p) \/ CreateFails(p)
          \/ SleepOn(p) \/ TimeOut(p) \/ PollFinds(p) \/ PollFindsNothing(p)
          \/ CancelWait(p) \/ Release(p) \/ CancelRelease(p)
    BY <1>2 DEF Next
  <2>2. Leases!Slots = Slots
    BY DEF Leases!Slots
  <2>3. CASE AcquireExisting(p) \/ PollFinds(p)
    BY <2>2, <2>3, TakingTakes DEF Leases!Next
  <2>4. CASE CreateReturns(p) \/ CreateFails(p)
    BY <2>2, <2>4, CreatedOpensOrSpoils DEF Leases!Next
  <2>5. CASE Release(p) \/ CancelRelease(p)
    BY <2>2, <2>5, ReturningReturnsOrDrops DEF Leases!Next
  <2>6. CASE \/ AcquireNew(p) \/ AcquireWhenFull(p) \/ SleepOn(p) \/ TimeOut(p)
             \/ PollFindsNothing(p) \/ CancelWait(p)
    BY <2>6, OthersMoveNoLease
  <2> QED BY <2>1, <2>3, <2>4, <2>5, <2>6
<1> QED BY <1>1, <1>2

\* acquire() and release(), with every wait, failure and cancellation between
\* them, implement the table of leases: a connection changes hands only through
\* the pool, and a slot that is gone never comes back.
THEOREM ImplementsLease == Spec => LeaseSpec
<1>1. Init => Leases!Init
  BY InitLease
<1>2. IInv /\ IInv' /\ [Next]_vars => [Leases!Next]_lease
  BY NextMovesLease
<1> QED BY <1>1, <1>2, SpecIInv, PTL DEF Spec, LeaseSpec, Leases!Spec

===============================================================================
