-------------------------- MODULE ChatPipelineProofs --------------------------
(***************************************************************************)
(* Proofs about ChatPipeline: turns of one session may overlap, fail, be   *)
(* cancelled, or lose the session on the way, and still every history is a *)
(* sequence of whole turns, histories go only by the limits of the store,  *)
(* and a response tells the truth about its session and its tools.         *)
(***************************************************************************)
EXTENDS ChatPipeline, FiniteSetTheorems, SequenceTheorems, TLAPS

-----------------------------------------------------------------------------
(* The operations of the store.                                            *)

IsStore(s) == StoreType(s, Messages)

\* The entries of the store without the first n.
Rest(s, n) == SubSeq(s.sessions, n + 1, Len(s.sessions))

\* The fields of a store.
LEMMA StoreFields ==
  ASSUME NEW s, IsStore(s)
  PROVE  /\ s.sessions \in Seq(Entries) /\ Len(s.sessions) \in Nat
         /\ DOMAIN s.sessions = 1..Len(s.sessions)
         /\ s.expired \in 0..Len(s.sessions)
         /\ s.msgs \in [Addresses -> Seq(Messages)]
         /\ Len(s.sessions) <= MaxSessions /\ Distinct(s.sessions)
  BY DEF IsStore, StoreType

\* Any three fields of the right type make a store.
LEMMA StoreOf ==
  ASSUME NEW q \in Seq(Entries), NEW n \in Nat, NEW h \in [Addresses -> Seq(Messages)],
         Len(q) <= MaxSessions, Distinct(q), n <= Len(q)
  PROVE  IsStore([sessions |-> q, expired |-> n, msgs |-> h])
  BY DEF IsStore, StoreType

\* What is left of the entries when the first n go.
LEMMA RestOfSessions ==
  ASSUME NEW s, IsStore(s), NEW n \in 0..Len(s.sessions)
  PROVE  /\ Rest(s, n) \in Seq(Entries)
         /\ Len(Rest(s, n)) = Len(s.sessions) - n
         /\ DOMAIN Rest(s, n) = 1..(Len(s.sessions) - n)
         /\ \A i \in 1..(Len(s.sessions) - n) : Rest(s, n)[i] = s.sessions[n + i]
         /\ Distinct(Rest(s, n))
<1>1. PICK q : q = s.sessions
  OBVIOUS
<1>2. PICK m : m = Len(q)
  OBVIOUS
<1>3. q \in Seq(Entries) /\ m \in Nat /\ n \in 0..m /\ Distinct(q) /\ DOMAIN q = 1..m
  BY <1>1, <1>2, StoreFields
<1>4. \A i \in (n + 1)..m : q[i] \in Entries
  BY <1>2, <1>3, ElementOfSeq
<1>5. PICK r : r = SubSeq(q, n + 1, m)
  OBVIOUS
<1>6. /\ r \in Seq(Entries)
      /\ Len(r) = m - n
      /\ \A i \in 1..(m - n) : r[i] = q[n + i]
  <2>1. /\ r \in Seq(Entries)
        /\ Len(r) = IF n + 1 <= m THEN m - (n + 1) + 1 ELSE 0
        /\ \A i \in 1..(m - (n + 1) + 1) : r[i] = q[(n + 1) + i - 1]
    BY <1>3, <1>4, <1>5, SubSeqProperties
  <2> QED BY <1>3, <2>1
<1>7. DOMAIN r = 1..(m - n)
  BY <1>6, LenProperties
<1>8. Distinct(r)
  <2> SUFFICES ASSUME NEW i \in 1..(m - n), NEW j \in 1..(m - n), i # j
               PROVE  r[i].id # r[j].id /\ r[i].object # r[j].object
    BY <1>7 DEF Distinct
  <2>1. PICK u, v : u = n + i /\ v = n + j
    OBVIOUS
  <2>2. u \in 1..m /\ v \in 1..m /\ u # v /\ r[i] = q[u] /\ r[j] = q[v]
    BY <1>3, <1>6, <2>1
  <2> QED BY <1>3, <2>2 DEF Distinct
<1> QED BY <1>1, <1>2, <1>5, <1>6, <1>7, <1>8 DEF Rest


\* A clean-up takes the expired entries, and nothing else.
LEMMA CleanedUpStore ==
  ASSUME NEW s, IsStore(s)
  PROVE  CleanedUp(s) = [sessions |-> Rest(s, s.expired), expired |-> 0, msgs |-> s.msgs]
<1>1. PICK q, n, h : q = s.sessions /\ n = s.expired /\ h = s.msgs
  OBVIOUS
<1>2. s = [sessions |-> q, expired |-> n, msgs |-> h]
  BY <1>1 DEF IsStore, StoreType
<1>3. CleanedUp(s) = [s EXCEPT !.sessions = SubSeq(q, n + 1, Len(q)), !.expired = 0]
  BY <1>1 DEF CleanedUp
<1>4. Rest(s, s.expired) = SubSeq(q, n + 1, Len(q))
  BY <1>1 DEF Rest
<1> HIDE <1>1
<1>5. CleanedUp(s) = [sessions |-> SubSeq(q, n + 1, Len(q)), expired |-> 0, msgs |-> h]
  BY <1>2, <1>3
<1> QED BY <1>1, <1>4, <1>5

\* Room for one more entry is made by at most one eviction, only if there is
\* none, and only of the first entry that is not expired.
LEMMA RoomIsMade ==
  ASSUME NEW s, IsStore(s)
  PROVE  \E n \in s.expired..Len(s.sessions) :
           /\ RoomMade(Rest(s, s.expired)) = Rest(s, n)
           /\ Len(s.sessions) - n < MaxSessions
           /\ \/ n = s.expired
              \/ n = s.expired + 1 /\ Len(s.sessions) - s.expired = MaxSessions
<1> USE MaxSessionsAssumption
<1>1. PICK e, l : e = s.expired /\ l = Len(s.sessions)
  OBVIOUS
<1>2. l \in Nat /\ e \in 0..l /\ l <= MaxSessions
  BY <1>1, StoreFields
<1>3. PICK r : r = Rest(s, e)
  OBVIOUS
<1>4. r \in Seq(Entries) /\ Len(r) = l - e /\ \A i \in 1..(l - e) : r[i] = s.sessions[e + i]
  <2>1. e \in 0..Len(s.sessions)
    BY <1>1, <1>2
  <2>2. /\ Rest(s, e) \in Seq(Entries)
        /\ Len(Rest(s, e)) = Len(s.sessions) - e
        /\ \A i \in 1..(Len(s.sessions) - e) : Rest(s, e)[i] = s.sessions[e + i]
    BY <2>1, RestOfSessions
  <2> QED BY <1>1, <1>3, <2>2
<1>5. CASE Len(r) < MaxSessions
  <2>1. RoomMade(r) = Rest(s, e) /\ l - e < MaxSessions
    BY <1>2, <1>3, <1>4, <1>5 DEF RoomMade
  <2> QED BY <1>1, <1>2, <1>3, <2>1
<1>6. CASE Len(r) >= MaxSessions
  <2>1. l - e = MaxSessions /\ e + 1 \in 0..l /\ r # <<>>
    BY <1>2, <1>4, <1>6
  <2>2. PICK t : t = Tail(r)
    OBVIOUS
  <2>3. t \in Seq(Entries) /\ Len(t) = l - e - 1 /\ \A i \in 1..(l - e - 1) : t[i] = r[i + 1]
    BY <1>2, <1>4, <2>1, <2>2, HeadTailProperties
  <2>4. PICK n : n = e + 1
    OBVIOUS
  <2>5. PICK u : u = Rest(s, n)
    OBVIOUS
  <2>6. u \in Seq(Entries) /\ Len(u) = l - n /\ \A i \in 1..(l - n) : u[i] = s.sessions[n + i]
    BY ZenonT(40), <1>1, <1>2, <2>1, <2>4, <2>5, RestOfSessions
  <2>7. \A i \in 1..Len(t) : t[i] = u[i]
    <3> SUFFICES ASSUME NEW i \in 1..Len(t) PROVE t[i] = u[i]
      OBVIOUS
    <3>1. i + 1 \in 1..(l - e) /\ i \in 1..(l - n) /\ e + (i + 1) = n + i
      BY <1>2, <2>3, <2>4
    <3> QED BY <1>4, <2>3, <2>6, <3>1
  <2>8. t = u
    BY SMTT(30), <1>2, <2>1, <2>3, <2>4, <2>6, <2>7, SeqEqual
  <2>9. RoomMade(r) = u
    BY <1>6, <2>2, <2>8 DEF RoomMade, OldestEvicted
  <2> QED BY <1>1, <1>2, <1>3, <2>1, <2>4, <2>5, <2>9
<1> QED BY <1>2, <1>4, <1>5, <1>6

\* The two ways in which get_or_create() ends.
Found(s, t, id) ==
  /\ t = [sessions |-> Rest(s, s.expired), expired |-> 0, msgs |-> s.msgs]
  /\ id \in Stored(t)

Created(s, t, id, fresh, n) ==
  /\ t = [sessions |-> Append(Rest(s, n), [id |-> id, object |-> fresh]), expired |-> 0,
          msgs |-> [s.msgs EXCEPT ![fresh] = <<>>]]
  /\ \A j \in (s.expired + 1)..Len(s.sessions) : s.sessions[j].id # id
  /\ Len(s.sessions) - n < MaxSessions
  /\ \/ n = s.expired
     \/ n = s.expired + 1 /\ Len(s.sessions) - s.expired = MaxSessions

LEMMA GetOrCreateEnds ==
  ASSUME NEW s, IsStore(s), NEW id, NEW fresh
  PROVE  LET t == GetOrCreate(s, id, fresh) IN
         \/ Found(s, t, id)
         \/ \E n \in s.expired..Len(s.sessions) : Created(s, t, id, fresh, n)
<1>1. PICK c : c = CleanedUp(s)
  OBVIOUS
<1>2. c = [sessions |-> Rest(s, s.expired), expired |-> 0, msgs |-> s.msgs]
  BY <1>1, CleanedUpStore
<1>3. PICK t : t = GetOrCreate(s, id, fresh)
  OBVIOUS
<1>4. CASE id \in Stored(c)
  <2>1. t = c
    BY <1>1, <1>3, <1>4 DEF GetOrCreate
  <2> QED BY <1>2, <1>3, <1>4, <2>1 DEF Found
<1>5. CASE id \notin Stored(c)
  <2>1. t = [c EXCEPT !.sessions = Append(RoomMade(@), [id |-> id, object |-> fresh]),
                      !.msgs[fresh] = <<>>]
    BY <1>1, <1>3, <1>5 DEF GetOrCreate
  <2>2. PICK n \in s.expired..Len(s.sessions) :
          /\ RoomMade(Rest(s, s.expired)) = Rest(s, n)
          /\ Len(s.sessions) - n < MaxSessions
          /\ \/ n = s.expired
             \/ n = s.expired + 1 /\ Len(s.sessions) - s.expired = MaxSessions
    BY RoomIsMade
  <2>3. t = [sessions |-> Append(Rest(s, n), [id |-> id, object |-> fresh]), expired |-> 0,
             msgs |-> [s.msgs EXCEPT ![fresh] = <<>>]]
    BY <1>2, <2>1, <2>2
  <2>4. ASSUME NEW j \in (s.expired + 1)..Len(s.sessions) PROVE s.sessions[j].id # id
    <3>1. PICK e, l : e = s.expired /\ l = Len(s.sessions)
      OBVIOUS
    <3>2. l \in Nat /\ e \in 0..l
      BY <3>1, StoreFields
    <3>3. PICK r : r = Rest(s, e)
      OBVIOUS
    <3>4. DOMAIN r = 1..(l - e) /\ \A i \in 1..(l - e) : r[i] = s.sessions[e + i]
      <4>1. e \in 0..Len(s.sessions)
        BY <3>1, <3>2
      <4>2. /\ DOMAIN Rest(s, e) = 1..(Len(s.sessions) - e)
            /\ \A i \in 1..(Len(s.sessions) - e) : Rest(s, e)[i] = s.sessions[e + i]
        BY <4>1, RestOfSessions
      <4> QED BY <3>1, <3>3, <4>2
    <3>5. PICK i : i = j - e
      OBVIOUS
    <3>6. i \in 1..(l - e) /\ j = e + i
      BY <3>1, <3>2, <3>5
    <3>7. r[i].id # id
      BY <1>2, <1>5, <3>1, <3>3, <3>4, <3>6 DEF Stored
    <3> QED BY <3>4, <3>6, <3>7
  <2>5. Created(s, t, id, fresh, n)
    BY <2>2, <2>3, <2>4 DEF Created
  <2> QED BY <1>3, <2>5
<1> QED BY <1>4, <1>5

\* What every call of get_or_create() promises: the entry asked for is stored;
\* the other entries are old ones that were not expired; of those at most the
\* first is missing, and only if the store was full; and messages are only
\* touched at the address of a new session, which starts empty.
LookedUp(s, t, id, fresh) ==
  /\ IsStore(t) /\ t.expired = 0 /\ id \in Stored(t)
  /\ \A k \in DOMAIN t.sessions :
       \/ t.sessions[k] = [id |-> id, object |-> fresh]
       \/ \E j \in (s.expired + 1)..Len(s.sessions) : t.sessions[k] = s.sessions[j]
  /\ \A j \in (s.expired + 1)..Len(s.sessions) :
       \/ \E k \in DOMAIN t.sessions : t.sessions[k] = s.sessions[j]
       \/ j = s.expired + 1 /\ Len(s.sessions) - s.expired = MaxSessions
  /\ \A a \in Addresses : \/ t.msgs[a] = s.msgs[a]
                          \/ a = fresh /\ t.msgs[a] = <<>>

\* Where the entries of a rest were before.
LEMMA RestComesFrom ==
  ASSUME NEW s, IsStore(s), NEW n \in 0..Len(s.sessions)
  PROVE  /\ \A k \in DOMAIN Rest(s, n) :
              \E j \in (n + 1)..Len(s.sessions) : Rest(s, n)[k] = s.sessions[j]
         /\ \A j \in (n + 1)..Len(s.sessions) :
              \E k \in DOMAIN Rest(s, n) : Rest(s, n)[k] = s.sessions[j]
<1>1. PICK q, l, r : q = s.sessions /\ l = Len(s.sessions) /\ r = Rest(s, n)
  OBVIOUS
<1>2. l \in Nat /\ n \in 0..l /\ DOMAIN r = 1..(l - n) /\ \A i \in 1..(l - n) : r[i] = q[n + i]
  <2>1. /\ DOMAIN Rest(s, n) = 1..(Len(s.sessions) - n)
        /\ \A i \in 1..(Len(s.sessions) - n) : Rest(s, n)[i] = s.sessions[n + i]
    BY RestOfSessions
  <2> QED BY <1>1, <2>1, StoreFields
<1>3. ASSUME NEW k \in 1..(l - n) PROVE \E j \in (n + 1)..l : r[k] = q[j]
  <2>1. PICK j : j = n + k
    OBVIOUS
  <2>2. j \in (n + 1)..l /\ r[k] = q[j]
    BY <1>2, <2>1
  <2> QED BY <2>2
<1>4. ASSUME NEW j \in (n + 1)..l PROVE \E k \in 1..(l - n) : r[k] = q[j]
  <2>1. PICK k : k = j - n
    OBVIOUS
  <2>2. k \in 1..(l - n) /\ n + k = j
    BY SMTT(30), <1>2, <2>1
  <2>3. r[k] = q[j]
    BY <1>2, <2>2
  <2> QED BY <2>2, <2>3
<1> QED BY ZenonT(40), <1>1, <1>2, <1>3, <1>4

LEMMA FoundIsLookedUp ==
  ASSUME NEW s, IsStore(s), NEW t, NEW id, NEW fresh, Found(s, t, id)
  PROVE  LookedUp(s, t, id, fresh)
<1>1. s.expired \in 0..Len(s.sessions) /\ Len(s.sessions) \in Nat /\ s.msgs \in [Addresses -> Seq(Messages)]
      /\ Len(s.sessions) <= MaxSessions
  BY StoreFields
<1>2. PICK r : r = Rest(s, s.expired)
  OBVIOUS
<1>3. /\ r \in Seq(Entries) /\ Distinct(r)
      /\ Len(r) = Len(s.sessions) - s.expired
  BY <1>1, <1>2, RestOfSessions
<1>4. /\ \A k \in DOMAIN r : \E j \in (s.expired + 1)..Len(s.sessions) : r[k] = s.sessions[j]
      /\ \A j \in (s.expired + 1)..Len(s.sessions) : \E k \in DOMAIN r : r[k] = s.sessions[j]
  BY <1>1, <1>2, RestComesFrom
<1>5. t = [sessions |-> r, expired |-> 0, msgs |-> s.msgs] /\ id \in Stored(t)
  BY <1>2 DEF Found
<1>6. Len(r) <= MaxSessions /\ 0 <= Len(r)
  BY <1>1, <1>3, MaxSessionsAssumption
<1>7. IsStore(t)
  BY <1>1, <1>3, <1>5, <1>6, StoreOf
<1> QED BY <1>4, <1>5, <1>7 DEF LookedUp

\* An entry whose id and object are new keeps the entries distinct.
LEMMA AppendedIsDistinct ==
  ASSUME NEW q \in Seq(Entries), Distinct(q), NEW e \in Entries,
         \A k \in DOMAIN q : q[k].id # e.id /\ q[k].object # e.object
  PROVE  /\ Append(q, e) \in Seq(Entries) /\ Len(Append(q, e)) = Len(q) + 1
         /\ DOMAIN Append(q, e) = 1..(Len(q) + 1)
         /\ \A i \in 1..Len(q) : Append(q, e)[i] = q[i]
         /\ Append(q, e)[Len(q) + 1] = e
         /\ Distinct(Append(q, e))
<1>1. PICK r, l : r = Append(q, e) /\ l = Len(q)
  OBVIOUS
<1>2. /\ l \in Nat /\ DOMAIN q = 1..l
      /\ r \in Seq(Entries) /\ Len(r) = l + 1 /\ DOMAIN r = 1..(l + 1)
      /\ \A i \in 1..l : r[i] = q[i]
      /\ r[l + 1] = e
  BY <1>1, AppendProperties, LenProperties
<1>3. Distinct(r)
  <2> SUFFICES ASSUME NEW i \in 1..(l + 1), NEW j \in 1..(l + 1), i # j
               PROVE  r[i].id # r[j].id /\ r[i].object # r[j].object
    BY <1>2 DEF Distinct
  <2>1. CASE i \in 1..l /\ j \in 1..l
    BY <1>2, <2>1 DEF Distinct
  <2>2. CASE i = l + 1
    <3>1. j \in 1..l
      BY <1>2, <2>2
    <3> QED BY <1>2, <2>2, <3>1
  <2>3. CASE j = l + 1
    <3>1. i \in 1..l
      BY <1>2, <2>3
    <3> QED BY <1>2, <2>3, <3>1
  <2> QED BY <1>2, <2>1, <2>2, <2>3
<1> QED BY <1>1, <1>2, <1>3

LEMMA CreatedIsLookedUp ==
  ASSUME NEW s, IsStore(s), NEW id \in SessionIds, NEW fresh \in Addresses, fresh \notin InUse(s),
         NEW n \in s.expired..Len(s.sessions), NEW t, Created(s, t, id, fresh, n)
  PROVE  LookedUp(s, t, id, fresh)
<1>1. /\ s.expired \in 0..Len(s.sessions) /\ Len(s.sessions) \in Nat
      /\ s.msgs \in [Addresses -> Seq(Messages)]
      /\ n \in 0..Len(s.sessions)
      /\ DOMAIN s.sessions = 1..Len(s.sessions)
  BY StoreFields
<1>2. PICK e : e = [id |-> id, object |-> fresh]
  OBVIOUS
<1>3. e \in Entries /\ e.id = id /\ e.object = fresh
  BY <1>2 DEF Entries
<1>4. PICK r, q : r = Rest(s, n) /\ q = Append(r, e)
  OBVIOUS
<1>5. r \in Seq(Entries) /\ Distinct(r) /\ Len(r) = Len(s.sessions) - n
  BY <1>1, <1>4, RestOfSessions
<1>6. /\ \A k \in DOMAIN r : \E j \in (n + 1)..Len(s.sessions) : r[k] = s.sessions[j]
      /\ \A j \in (n + 1)..Len(s.sessions) : \E k \in DOMAIN r : r[k] = s.sessions[j]
  BY ZenonT(40), <1>1, <1>4, RestComesFrom
<1>7. PICK h : h = [s.msgs EXCEPT ![fresh] = <<>>]
  OBVIOUS
<1>8. /\ t = [sessions |-> q, expired |-> 0, msgs |-> h]
      /\ \A j \in (s.expired + 1)..Len(s.sessions) : s.sessions[j].id # id
      /\ Len(s.sessions) - n < MaxSessions
      /\ \/ n = s.expired
         \/ n = s.expired + 1 /\ Len(s.sessions) - s.expired = MaxSessions
  BY <1>2, <1>4, <1>7 DEF Created
<1>9. \A k \in DOMAIN r : r[k].id # e.id /\ r[k].object # e.object
  <2> SUFFICES ASSUME NEW k \in DOMAIN r PROVE r[k].id # e.id /\ r[k].object # e.object
    OBVIOUS
  <2>1. PICK j \in (n + 1)..Len(s.sessions) : r[k] = s.sessions[j]
    BY <1>6
  <2>2. j \in (s.expired + 1)..Len(s.sessions) /\ j \in DOMAIN s.sessions
    BY <1>1, <2>1
  <2>3. s.sessions[j].object \in InUse(s)
    BY <2>2 DEF InUse
  <2> QED BY <1>3, <1>8, <2>1, <2>2, <2>3
<1>10. /\ q \in Seq(Entries) /\ Len(q) = Len(r) + 1 /\ DOMAIN q = 1..(Len(r) + 1)
       /\ \A i \in 1..Len(r) : q[i] = r[i]
       /\ q[Len(r) + 1] = e
       /\ Distinct(q)
  BY <1>3, <1>4, <1>5, <1>9, AppendedIsDistinct
<1>11. DOMAIN r = 1..Len(r) /\ Len(r) \in Nat
  BY <1>5, LenProperties
<1>12. h \in [Addresses -> Seq(Messages)] /\ h[fresh] = <<>> /\ \A a \in Addresses \ {fresh} : h[a] = s.msgs[a]
  BY <1>1, <1>7
<1>13. IsStore(t)
  <2>1. Len(q) <= MaxSessions /\ 0 <= Len(q)
    BY <1>1, <1>5, <1>8, <1>10, <1>11, MaxSessionsAssumption
  <2> QED BY <1>8, <1>10, <1>12, <2>1, StoreOf
<1>14. id \in Stored(t)
  <2>1. Len(r) + 1 \in DOMAIN q
    BY <1>10, <1>11
  <2> QED BY <1>3, <1>8, <1>10, <2>1 DEF Stored
<1>15. ASSUME NEW k \in DOMAIN q
       PROVE  q[k] = e \/ \E j \in (s.expired + 1)..Len(s.sessions) : q[k] = s.sessions[j]
  <2>1. CASE k \in DOMAIN r
    <3>1. PICK j \in (n + 1)..Len(s.sessions) : r[k] = s.sessions[j]
      BY <1>6, <2>1
    <3>2. j \in (s.expired + 1)..Len(s.sessions) /\ q[k] = r[k]
      BY <1>1, <1>10, <1>11, <2>1
    <3> QED BY <3>1, <3>2
  <2>2. CASE k \notin DOMAIN r
    BY <1>10, <1>11, <2>2
  <2> QED BY <2>1, <2>2
<1>16. ASSUME NEW j \in (s.expired + 1)..Len(s.sessions)
       PROVE  \/ \E k \in DOMAIN q : q[k] = s.sessions[j]
              \/ j = s.expired + 1 /\ Len(s.sessions) - s.expired = MaxSessions
  <2>1. CASE j \in (n + 1)..Len(s.sessions)
    <3>1. PICK k \in DOMAIN r : r[k] = s.sessions[j]
      BY <1>6, <2>1
    <3>2. k \in DOMAIN q /\ q[k] = r[k]
      BY <1>10, <1>11, <3>1
    <3> QED BY <3>1, <3>2
  <2>2. CASE j \notin (n + 1)..Len(s.sessions)
    BY <1>1, <1>8, <2>2
  <2> QED BY <2>1, <2>2
<1> QED BY <1>2, <1>8, <1>12, <1>13, <1>14, <1>15, <1>16 DEF LookedUp

LEMMA GetOrCreateLooksUp ==
  ASSUME NEW s, IsStore(s), NEW id \in SessionIds, NEW fresh \in Addresses, fresh \notin InUse(s)
  PROVE  LookedUp(s, GetOrCreate(s, id, fresh), id, fresh)
  BY GetOrCreateEnds, FoundIsLookedUp, CreatedIsLookedUp

\* Moving an entry to the end keeps the entries.
LEMMA MovedToTheEnd ==
  ASSUME NEW q \in Seq(Entries), Distinct(q), NEW k \in DOMAIN q
  PROVE  LET r == Append(RemoveAt(q, k), q[k]) IN
         /\ r \in Seq(Entries) /\ Len(r) = Len(q) /\ Distinct(r)
         /\ \A i \in DOMAIN r : \E j \in DOMAIN q : r[i] = q[j]
         /\ \A j \in DOMAIN q : \E i \in DOMAIN r : r[i] = q[j]
<1>1. PICK l : l = Len(q)
  OBVIOUS
<1>2. l \in Nat /\ DOMAIN q = 1..l /\ k \in 1..l /\ \A i \in 1..l : q[i] \in Entries
  BY <1>1, LenProperties
<1>3. PICK a : a = SubSeq(q, 1, k - 1)
  OBVIOUS
<1>4. a \in Seq(Entries) /\ Len(a) = k - 1 /\ \A i \in 1..(k - 1) : a[i] = q[i]
  <2>1. /\ a \in Seq(Entries)
        /\ Len(a) = IF 1 <= k - 1 THEN (k - 1) - 1 + 1 ELSE 0
        /\ \A i \in 1..((k - 1) - 1 + 1) : a[i] = q[1 + i - 1]
    BY <1>2, <1>3, SubSeqProperties
  <2> QED BY <1>2, <2>1
<1>5. PICK b : b = SubSeq(q, k + 1, l)
  OBVIOUS
<1>6. b \in Seq(Entries) /\ Len(b) = l - k /\ \A i \in 1..(l - k) : b[i] = q[k + i]
  <2>1. /\ b \in Seq(Entries)
        /\ Len(b) = IF k + 1 <= l THEN l - (k + 1) + 1 ELSE 0
        /\ \A i \in 1..(l - (k + 1) + 1) : b[i] = q[(k + 1) + i - 1]
    BY <1>2, <1>5, SubSeqProperties
  <2>2. l - (k + 1) + 1 = l - k /\ (k + 1 <= l <=> l - k # 0)
    BY <1>2
  <2>3. ASSUME NEW i \in 1..(l - k) PROVE b[i] = q[k + i]
    <3>1. (k + 1) + i - 1 = k + i
      BY <1>2
    <3> QED BY <2>1, <2>2, <3>1
  <2> QED BY <1>2, <2>1, <2>2, <2>3
<1>7. PICK c : c = a \o b
  OBVIOUS
<1>8. /\ c \in Seq(Entries) /\ Len(c) = l - 1
      /\ \A i \in 1..(l - 1) : c[i] = IF i < k THEN q[i] ELSE q[i + 1]
  <2>1. /\ c \in Seq(Entries) /\ Len(c) = (k - 1) + (l - k)
        /\ \A i \in 1..(k - 1) + (l - k) : c[i] = IF i <= k - 1 THEN a[i] ELSE b[i - (k - 1)]
    BY SMTT(30), <1>2, <1>4, <1>6, <1>7, ConcatProperties
  <2>2. ASSUME NEW i \in 1..(l - 1) PROVE c[i] = IF i < k THEN q[i] ELSE q[i + 1]
    <3>1. CASE i < k
      BY <1>2, <1>4, <2>1, <3>1
    <3>2. CASE ~(i < k)
      <4>1. PICK j : j = i - (k - 1)
        OBVIOUS
      <4>2. j \in 1..(l - k) /\ k + j = i + 1 /\ c[i] = b[j]
        BY <1>2, <2>1, <3>2, <4>1
      <4> QED BY <1>6, <3>2, <4>2
    <3> QED BY <3>1, <3>2
  <2> QED BY <1>2, <2>1, <2>2
<1>9. PICK r : r = Append(c, q[k])
  OBVIOUS
<1>10. /\ r \in Seq(Entries) /\ Len(r) = l /\ DOMAIN r = 1..l
       /\ \A i \in 1..(l - 1) : r[i] = IF i < k THEN q[i] ELSE q[i + 1]
       /\ r[l] = q[k]
  <2>1. /\ r \in Seq(Entries) /\ Len(r) = Len(c) + 1
        /\ \A i \in 1..Len(c) : r[i] = c[i]
        /\ r[Len(c) + 1] = q[k]
    BY <1>2, <1>8, <1>9, AppendProperties
  <2>2. Len(r) = l /\ \A i \in 1..(l - 1) : r[i] = c[i]
    BY <1>2, <1>8, <2>1
  <2>3. r[l] = q[k]
    BY <1>2, <1>8, <2>1
  <2>4. DOMAIN r = 1..l
    BY <2>1, <2>2, LenProperties
  <2> QED BY <1>8, <2>1, <2>2, <2>3, <2>4
<1>11. PICK p : p = [i \in 1..l |-> IF i = l THEN k ELSE IF i < k THEN i ELSE i + 1]
  OBVIOUS
<1>12. ASSUME NEW i \in 1..l PROVE p[i] \in 1..l /\ r[i] = q[p[i]]
  <2>1. CASE i = l
    BY <1>2, <1>10, <1>11, <2>1
  <2>2. CASE i # l
    <3>1. i \in 1..(l - 1) /\ p[i] = IF i < k THEN i ELSE i + 1
      BY <1>2, <1>11, <2>2
    <3> QED BY <1>2, <1>10, <3>1
  <2> QED BY <2>1, <2>2
<1>13. ASSUME NEW i \in 1..l, NEW j \in 1..l, i # j PROVE p[i] # p[j]
  BY <1>2, <1>11, <1>13
<1>14. Distinct(r)
  <2> SUFFICES ASSUME NEW i \in 1..l, NEW j \in 1..l, i # j
               PROVE  r[i].id # r[j].id /\ r[i].object # r[j].object
    BY <1>10 DEF Distinct
  <2>1. PICK u, v : u = p[i] /\ v = p[j]
    OBVIOUS
  <2>2. u \in 1..l /\ v \in 1..l /\ u # v /\ r[i] = q[u] /\ r[j] = q[v]
    BY <1>12, <1>13, <2>1
  <2> QED BY <1>2, <2>2 DEF Distinct
<1>15. ASSUME NEW j \in 1..l PROVE \E i \in 1..l : r[i] = q[j]
  <2>1. CASE j = k
    BY <1>2, <1>10, <2>1
  <2>2. CASE j < k
    BY <1>2, <1>10, <2>2
  <2>3. CASE j > k
    <3>1. PICK i : i = j - 1
      OBVIOUS
    <3>2. i \in 1..(l - 1) /\ ~(i < k) /\ i + 1 = j
      BY <1>2, <2>3, <3>1
    <3>3. r[i] = q[j] /\ i \in 1..l
      BY <1>2, <1>10, <3>2
    <3> QED BY <3>3
  <2> QED BY <1>2, <2>1, <2>2, <2>3
<1>16. r = Append(RemoveAt(q, k), q[k])
  BY <1>1, <1>3, <1>5, <1>7, <1>9 DEF RemoveAt
<1> QED BY ZenonT(40), <1>1, <1>2, <1>10, <1>12, <1>14, <1>15, <1>16

\* The entry that is asked for.
LEMMA PlaceOfId ==
  ASSUME NEW s, NEW id \in Stored(s)
  PROVE  PlaceOf(s, id) \in DOMAIN s.sessions /\ EntryOf(s, id).id = id
  BY DEF PlaceOf, EntryOf, Stored

\* t is what get_or_create() leaves, u what the whole of add_message() leaves.
Adds(s, id, fresh, m, t, u) ==
  t = GetOrCreate(s, id, fresh) /\ u = AddMessages(s, id, m, fresh)

\* u has the entries of t, in whatever order, and its messages, with the new ones
\* at the address of the session of the id.
Added(t, id, m, u) ==
  /\ IsStore(u) /\ u.expired = 0
  /\ \A i \in DOMAIN u.sessions : \E j \in DOMAIN t.sessions : u.sessions[i] = t.sessions[j]
  /\ \A j \in DOMAIN t.sessions : \E i \in DOMAIN u.sessions : u.sessions[i] = t.sessions[j]
  /\ EntryOf(t, id).object \in Addresses
  /\ \A a \in Addresses :
       u.msgs[a] = IF a = EntryOf(t, id).object THEN t.msgs[a] \o m ELSE t.msgs[a]

LEMMA MessagesAdded ==
  ASSUME NEW s, NEW id \in SessionIds, NEW fresh, NEW m \in Seq(Messages),
         NEW t, NEW u, LookedUp(s, t, id, fresh), Adds(s, id, fresh, m, t, u)
  PROVE  Added(t, id, m, u)
<1>2. IsStore(t) /\ t.expired = 0 /\ id \in Stored(t)
  BY DEF LookedUp
<1>3. PICK q, h, k, e, o : /\ q = t.sessions /\ h = t.msgs /\ k = PlaceOf(t, id) /\ e = q[k]
                           /\ o = e.object
  OBVIOUS
<1>4. e = EntryOf(t, id) /\ k \in DOMAIN q
  BY <1>2, <1>3, PlaceOfId DEF EntryOf
<1>5. /\ q \in Seq(Entries) /\ Distinct(q) /\ Len(q) <= MaxSessions
      /\ h \in [Addresses -> Seq(Messages)]
  BY <1>2, <1>3, StoreFields
<1>6. o \in Addresses
  <2>1. k \in 1..Len(q)
    BY <1>4, <1>5, LenProperties
  <2>2. q[k] \in Entries
    BY <1>5, <2>1, ElementOfSeq
  <2>3. e \in Entries
    BY <1>3, <2>2
  <2> QED BY <1>3, <2>3 DEF Entries
<1>7. t = [sessions |-> q, expired |-> 0, msgs |-> h]
  BY <1>2, <1>3 DEF IsStore, StoreType
<1>8. PICK r, g : r = Append(RemoveAt(q, k), e) /\ g = [h EXCEPT ![o] = @ \o m]
  OBVIOUS
<1>9. /\ r \in Seq(Entries) /\ Len(r) = Len(q) /\ Distinct(r)
      /\ \A i \in DOMAIN r : \E j \in DOMAIN q : r[i] = q[j]
      /\ \A j \in DOMAIN q : \E i \in DOMAIN r : r[i] = q[j]
  <2>1. /\ Append(RemoveAt(q, k), q[k]) \in Seq(Entries)
        /\ Len(Append(RemoveAt(q, k), q[k])) = Len(q)
        /\ Distinct(Append(RemoveAt(q, k), q[k]))
        /\ \A i \in DOMAIN Append(RemoveAt(q, k), q[k]) :
             \E j \in DOMAIN q : Append(RemoveAt(q, k), q[k])[i] = q[j]
        /\ \A j \in DOMAIN q :
             \E i \in DOMAIN Append(RemoveAt(q, k), q[k]) : Append(RemoveAt(q, k), q[k])[i] = q[j]
    BY <1>4, <1>5, MovedToTheEnd
  <2>2. r = Append(RemoveAt(q, k), q[k])
    BY <1>3, <1>8
  <2> QED BY <2>1, <2>2
<1>10. g \in [Addresses -> Seq(Messages)]
  <2>1. h[o] \o m \in Seq(Messages)
    BY <1>5, <1>6, ConcatProperties
  <2> QED BY <1>5, <1>8, <2>1
<1>12. u = [sessions |-> r, expired |-> 0, msgs |-> g]
  <2>1. u = [t EXCEPT !.msgs[o] = @ \o m, !.sessions = Append(RemoveAt(@, k), e)]
    BY <1>3, <1>4 DEF AddMessages, Adds
  <2> QED BY <1>7, <1>8, <2>1
<1>13. IsStore(u)
  <2>1. Len(r) <= MaxSessions /\ 0 <= Len(r)
    BY <1>5, <1>9, LenProperties
  <2> QED BY <1>9, <1>10, <1>12, <2>1, StoreOf
<1>14. /\ IsStore(u) /\ u.expired = 0
       /\ \A i \in DOMAIN u.sessions : \E j \in DOMAIN t.sessions : u.sessions[i] = t.sessions[j]
       /\ \A j \in DOMAIN t.sessions : \E i \in DOMAIN u.sessions : u.sessions[i] = t.sessions[j]
       /\ EntryOf(t, id).object \in Addresses
       /\ \A a \in Addresses :
            u.msgs[a] = IF a = EntryOf(t, id).object THEN t.msgs[a] \o m ELSE t.msgs[a]
  <2>1. EntryOf(t, id).object = o
    BY <1>3, <1>4
  <2>2. u.expired = 0 /\ u.sessions = r /\ u.msgs = g
    BY <1>12
  <2>3. \A a \in Addresses :
          u.msgs[a] = IF a = EntryOf(t, id).object THEN t.msgs[a] \o m ELSE t.msgs[a]
    BY <1>3, <1>5, <1>8, <2>1, <2>2
  <2> QED BY <1>3, <1>6, <1>9, <1>13, <2>1, <2>2, <2>3
<1> QED BY <1>14 DEF Added

\* Collecting takes messages of nobody only.
LEMMA CollectedStore ==
  ASSUME NEW s, IsStore(s), NEW held
  PROVE  LET c == Collected(s, held) IN
         /\ IsStore(c) /\ c.sessions = s.sessions /\ c.expired = s.expired
         /\ \A a \in Addresses :
              c.msgs[a] = IF a \in held \cup InUse(s) THEN s.msgs[a] ELSE <<>>
<1>1. PICK q, n, h : q = s.sessions /\ n = s.expired /\ h = s.msgs
  OBVIOUS
<1>2. /\ q \in Seq(Entries) /\ Distinct(q) /\ Len(q) <= MaxSessions /\ n \in Nat /\ n <= Len(q)
      /\ h \in [Addresses -> Seq(Messages)]
      /\ s = [sessions |-> q, expired |-> n, msgs |-> h]
  BY <1>1, StoreFields DEF IsStore, StoreType
<1>3. PICK g : g = [a \in Addresses |-> IF a \in held \cup InUse(s) THEN h[a] ELSE <<>>]
  OBVIOUS
<1>4. g \in [Addresses -> Seq(Messages)]
  BY <1>2, <1>3, EmptySeq
<1>5. Collected(s, held) = [sessions |-> q, expired |-> n, msgs |-> g]
  <2>1. Collected(s, held) = [s EXCEPT !.msgs = g]
    BY <1>1, <1>3 DEF Collected
  <2> QED BY <1>2, <2>1
<1>6. IsStore([sessions |-> q, expired |-> n, msgs |-> g])
  BY <1>2, <1>4, StoreOf
<1> QED BY <1>1, <1>3, <1>5, <1>6

-----------------------------------------------------------------------------
(* The inductive invariant.                                                *)

\* A history of whole turns.
Paired(h) ==
  \E m \in Nat :
    /\ Len(h) = 2 * m
    /\ \A k \in 1..m : /\ h[2 * k - 1].role = "user"
                       /\ h[2 * k] = [turn |-> h[2 * k - 1].turn, role |-> "assistant"]

\* Also the histories of sessions that only turns still refer to are paired.
HistoriesArePaired == \A a \in Addresses : Paired(store.msgs[a])

RunningClients == {c \in Clients : Running(c)}

\* Turns that have not ended have added nothing yet.
CountsFit ==
  \A a \in Addresses :
    Len(store.msgs[a]) + 2 * Cardinality(RunningClients) <= 2 * turns

\* The session that a turn holds is stored under the id of the turn, if it is.
SessionKeepsId ==
  \A c \in Clients, k \in DOMAIN store.sessions :
    Running(c) /\ store.sessions[k].object = turn[c].session => store.sessions[k].id = turn[c].id

Called(t) == {k.tool : k \in Range(t.calls)}
NoError(calls) == \A k \in DOMAIN calls : calls[k].outcome # "error"

\* The agent has called all wanted tools but those left, which come later; or it
\* has a single try, the last call failed, and the later tools are skipped.
CallsFollow(t) ==
  LET wanted == ToolsFor(t.agent, t.query) IN
  \/ /\ t.left \subseteq wanted
     /\ \A j \in wanted \ t.left, k \in t.left : j < k
     /\ Called(t) = ToolsAt(t.agent, wanted \ t.left)
     /\ t.agent \in OneTry => NoError(t.calls)
  \/ /\ t.agent \in OneTry /\ t.left = {}
     /\ t.calls # <<>> /\ t.calls[Len(t.calls)].outcome = "error"
     /\ \A k \in DOMAIN t.calls : t.calls[k].outcome = "error" => k = Len(t.calls)
     /\ \E last \in wanted : Called(t) = ToolsAt(t.agent, {k \in wanted : k <= last})

AgentsFollow == \A c \in Clients : turn[c].at = "agent" => CallsFollow(turn[c])

IInv ==
  /\ TypeOK
  /\ HistoriesArePaired
  /\ CountsFit
  /\ SessionKeepsId
  /\ AgentsFollow

-----------------------------------------------------------------------------
(* Addresses and histories.                                                *)

\* The address of a new session belongs to no stored and to no held session.
LEMMA FreshIsFree ==
  ASSUME TypeOK
  PROVE  Fresh \in Addresses /\ Fresh \notin InUse(store) /\ Fresh \notin HeldBy(Clients)
<1> USE AddressesAssumption, MaxSessionsAssumption
<1>1. PICK q, l : q = store.sessions /\ l = Len(q)
  OBVIOUS
<1>2. q \in Seq(Entries) /\ l \in Nat /\ l <= MaxSessions /\ DOMAIN q = 1..l
  BY <1>1, StoreFields DEF TypeOK, IsStore
<1> DEFINE objects == {q[k].object : k \in 1..l}
           f == [k \in 1..l |-> q[k].object]
           running == {d \in Clients : Running(d)}
           held == {turn[c].session : c \in running}
           g == [c \in running |-> turn[c].session]
<1>3. f \in Surjection(1..l, objects) /\ g \in Surjection(running, held)
  BY DEF Surjection
<1>4. running \in SUBSET Clients
  OBVIOUS
<1>5. objects = InUse(store) /\ held = HeldBy(Clients)
  BY <1>1, <1>2 DEF InUse, HeldBy
<1> HIDE DEF objects, f, running, held, g
<1>6. IsFiniteSet(1..l) /\ Cardinality(1..l) = l
  BY <1>2, FS_Interval
<1>7. IsFiniteSet(objects) /\ Cardinality(objects) <= l
  BY <1>3, <1>6, FS_Surjection
<1>8. IsFiniteSet(running) /\ Cardinality(running) <= Cardinality(Clients)
  BY <1>4, FS_Subset
<1>9. IsFiniteSet(held) /\ Cardinality(held) <= Cardinality(running)
  BY <1>3, <1>8, FS_Surjection
<1>10. /\ Cardinality(objects) \in Nat /\ Cardinality(running) \in Nat /\ Cardinality(held) \in Nat
       /\ Cardinality(Clients) \in Nat /\ Cardinality(Addresses) \in Nat
       /\ Cardinality(objects \cap held) \in Nat
  BY <1>7, <1>8, <1>9, FS_CardinalityType, FS_Intersection
<1>11. /\ IsFiniteSet(objects \cup held)
       /\ Cardinality(objects \cup held)
            = Cardinality(objects) + Cardinality(held) - Cardinality(objects \cap held)
  BY <1>7, <1>9, FS_Union
<1>12. \E a \in Addresses : a \notin objects \cup held
  <2> SUFFICES ASSUME Addresses \subseteq objects \cup held PROVE FALSE
    OBVIOUS
  <2>1. Cardinality(Addresses) <= Cardinality(objects \cup held)
    BY <1>11, FS_Subset
  <2> QED BY <1>2, <1>7, <1>8, <1>9, <1>10, <1>11, <2>1
<1>13. Fresh \in Addresses /\ Fresh \notin InUse(store) \cup HeldBy(Clients)
  BY <1>5, <1>12 DEF Fresh
<1> QED BY <1>13

LEMMA EmptyIsPaired == Len(<<>>) = 0 /\ Paired(<<>>)
<1>1. Len(<<>>) = 2 * 0 /\ \A k \in 1..0 : FALSE
  OBVIOUS
<1> QED BY <1>1 DEF Paired

\* A history stays one of whole turns when a whole turn is added.
LEMMA PairedGrows ==
  ASSUME NEW h \in Seq(Messages), Paired(h), NEW t, t.n \in 1..MaxTurns
  PROVE  /\ NewMessages(t) \in Seq(Messages)
         /\ h \o NewMessages(t) \in Seq(Messages)
         /\ Len(h \o NewMessages(t)) = Len(h) + 2
         /\ Paired(h \o NewMessages(t))
         /\ IsExtension(h, h \o NewMessages(t))
<1>1. PICK n \in 1..MaxTurns : n = t.n
  OBVIOUS
<1>2. PICK u : u = [turn |-> n, role |-> "user"]
  OBVIOUS
<1>3. PICK a : a = [turn |-> n, role |-> "assistant"]
  OBVIOUS
<1>4. u \in Messages /\ a \in Messages /\ u.role = "user" /\ a = [turn |-> u.turn, role |-> "assistant"]
  BY <1>2, <1>3 DEF Messages
<1>5. PICK m : m = <<u, a>>
  OBVIOUS
<1>6. m \in Seq(Messages) /\ Len(m) = 2 /\ m[1] = u /\ m[2] = a
  BY <1>4, <1>5
<1>7. NewMessages(t) = m
  BY <1>1, <1>2, <1>3, <1>5 DEF NewMessages
<1>8. PICK g : g = h \o m
  OBVIOUS
<1>9. PICK c \in Nat : /\ Len(h) = 2 * c
                       /\ \A k \in 1..c : /\ h[2 * k - 1].role = "user"
                                          /\ h[2 * k] = [turn |-> h[2 * k - 1].turn, role |-> "assistant"]
  BY DEF Paired
<1>10. /\ g \in Seq(Messages) /\ Len(g) = Len(h) + 2
       /\ \A i \in 1..Len(h) : g[i] = h[i]
       /\ g[Len(h) + 1] = u /\ g[Len(h) + 2] = a
  <2>1. /\ g \in Seq(Messages) /\ Len(g) = Len(h) + 2
        /\ \A i \in 1..(Len(h) + 2) : g[i] = IF i <= Len(h) THEN h[i] ELSE m[i - Len(h)]
    <3>1. /\ g \in Seq(Messages) /\ Len(g) = Len(h) + Len(m)
          /\ \A i \in 1..(Len(h) + Len(m)) : g[i] = IF i <= Len(h) THEN h[i] ELSE m[i - Len(h)]
      BY <1>6, <1>8, ConcatProperties
    <3> QED BY <1>6, <3>1
  <2>2. PICK l \in Nat : l = Len(h)
    BY LenProperties
  <2>3. ASSUME NEW i \in 1..l PROVE g[i] = h[i]
    BY <2>1, <2>2, <2>3
  <2>4. g[l + 1] = m[1] /\ g[l + 2] = m[2]
    BY <2>1, <2>2
  <2> QED BY <1>6, <2>1, <2>2, <2>3, <2>4
<1>11. Paired(g)
  <2>1. PICK d : d = c + 1
    OBVIOUS
  <2>2. d \in Nat /\ Len(g) = 2 * d
    BY <1>9, <1>10, <2>1
  <2>3. ASSUME NEW k \in 1..d
        PROVE  g[2 * k - 1].role = "user" /\ g[2 * k] = [turn |-> g[2 * k - 1].turn, role |-> "assistant"]
    <3>1. CASE k \in 1..c
      <4>1. 2 * k \in 1..Len(h) /\ 2 * k - 1 \in 1..Len(h)
        BY <1>9, <3>1
      <4> QED BY <1>9, <1>10, <3>1, <4>1
    <3>2. CASE k = d
      <4>1. 2 * k - 1 = Len(h) + 1 /\ 2 * k = Len(h) + 2
        BY <1>9, <2>1, <3>2
      <4> QED BY <1>4, <1>10, <4>1
    <3> QED BY <1>9, <2>1, <3>1, <3>2
  <2> QED BY <2>2, <2>3 DEF Paired
<1>12. IsExtension(h, g)
  <2>1. PICK l \in Nat : l = Len(h)
    BY LenProperties
  <2>2. PICK s : s = SubSeq(g, 1, l)
    OBVIOUS
  <2>3. \A i \in 1..l : g[i] \in Messages
    BY <1>10, <2>1, ElementOfSeq
  <2>4. s \in Seq(Messages) /\ Len(s) = l /\ \A i \in 1..l : s[i] = g[i]
    BY <1>10, <2>1, <2>2, <2>3, SubSeqProperties
  <2>5. s = h
    BY <1>10, <2>1, <2>4, SeqEqual
  <2> QED BY <1>10, <2>1, <2>2, <2>5 DEF IsExtension
<1> QED BY <1>7, <1>8, <1>10, <1>11, <1>12

LEMMA ExtensionOfItself ==
  ASSUME NEW h \in Seq(Messages)
  PROVE  IsExtension(h, h)
  BY SubSeqFull, LenProperties DEF IsExtension

-----------------------------------------------------------------------------
(* Turns.                                                                  *)

\* The state of one client changes.
LEMMA TurnMoves ==
  ASSUME TypeOK, NEW c \in Clients, NEW w \in TurnStates, turn' = [turn EXCEPT ![c] = w]
  PROVE  /\ turn' \in [Clients -> TurnStates]
         /\ turn'[c] = w
         /\ \A d \in Clients : d # c => turn'[d] = turn[d]
  BY DEF TypeOK

LEMMA IdleState == Idle \in TurnStates /\ Idle.at = "none"
  BY DEF TurnStates, Idle

\* The fields of a turn that runs.
LEMMA RunningFields ==
  ASSUME NEW t \in TurnStates, t.at \in {"classify", "agent"}
  PROVE  t.n \in 1..MaxTurns /\ t.id \in SessionIds /\ t.session \in Addresses /\ t.query \in QueryType
  BY IdleState DEF TurnStates

LEMMA AgentFields ==
  ASSUME NEW t \in TurnStates, t.at = "agent"
  PROVE  t.agent \in Agents /\ t.left \in SUBSET Nat /\ t.calls \in Seq(Calls)
  BY IdleState DEF TurnStates

LEMMA ClassifyState ==
  ASSUME NEW n \in 1..MaxTurns, NEW id \in SessionIds, NEW session \in Addresses,
         NEW query \in QueryType, NEW t,
         t = [at |-> "classify", n |-> n, id |-> id, session |-> session, query |-> query]
  PROVE  t \in TurnStates /\ t.at = "classify" /\ t.n = n /\ t.id = id /\ t.session = session
  BY DEF TurnStates

LEMMA AgentState ==
  ASSUME NEW n \in 1..MaxTurns, NEW id \in SessionIds, NEW session \in Addresses,
         NEW query \in QueryType, NEW agent \in Agents, NEW left \in SUBSET Nat,
         NEW calls \in Seq(Calls), NEW t,
         t = [at |-> "agent", n |-> n, id |-> id, session |-> session, query |-> query,
              agent |-> agent, left |-> left, calls |-> calls]
  PROVE  /\ t \in TurnStates /\ t.at = "agent" /\ t.n = n /\ t.id = id /\ t.session = session
         /\ t.query = query /\ t.agent = agent /\ t.left = left /\ t.calls = calls
  BY DEF TurnStates

\* How many clients wait for an answer.
LEMMA RunningIsFinite ==
  IsFiniteSet(RunningClients) /\ Cardinality(RunningClients) \in Nat
<1>1. RunningClients \in SUBSET Clients
  BY DEF RunningClients
<1>2. IsFiniteSet(RunningClients)
  BY <1>1, AddressesAssumption, FS_Subset
<1> QED BY <1>2, FS_CardinalityType

LEMMA OneMoreRuns ==
  ASSUME TypeOK, NEW c \in Clients, NEW w \in TurnStates, turn' = [turn EXCEPT ![c] = w],
         ~Running(c), w.at \in {"classify", "agent"}
  PROVE  Cardinality(RunningClients') = Cardinality(RunningClients) + 1
<1>1. RunningClients' = RunningClients \cup {c} /\ c \notin RunningClients
  BY TurnMoves DEF RunningClients, Running
<1> QED BY <1>1, RunningIsFinite, FS_AddElement

LEMMA OneLessRuns ==
  ASSUME TypeOK, NEW c \in Clients, turn' = [turn EXCEPT ![c] = Idle], Running(c)
  PROVE  Cardinality(RunningClients') = Cardinality(RunningClients) - 1
<1>1. RunningClients' = RunningClients \ {c} /\ c \in RunningClients
  BY TurnMoves, IdleState DEF RunningClients, Running
<1> QED BY <1>1, RunningIsFinite, FS_RemoveElement

LEMMA AsManyRun ==
  ASSUME TypeOK, NEW c \in Clients, NEW w \in TurnStates, turn' = [turn EXCEPT ![c] = w],
         Running(c), w.at \in {"classify", "agent"}
  PROVE  RunningClients' = RunningClients
  BY TurnMoves DEF RunningClients, Running

\* The tools of an agent.
LEMMA ToolsOfAgents ==
  ASSUME NEW a \in Agents
  PROVE  /\ DOMAIN ToolsOf[a] \in SUBSET Nat
         /\ \A k \in DOMAIN ToolsOf[a] : ToolsOf[a][k] \in Tools
<1>1. a \in {"analytical", "cx", "internal_ops", "general", "pricing", "supply_chain"}
  BY AgentsAssumption DEF CoreAgents, OptionalAgents
<1>2. a \in DOMAIN ToolsOf
  BY <1>1 DEF ToolsOf
<1>3. \A k \in DOMAIN ToolsOf[a] : ToolsOf[a][k] \in Tools
  BY <1>2 DEF Tools, Range
<1>4. DOMAIN ToolsOf[a] \in SUBSET Nat
  BY <1>1 DEF ToolsOf
<1> QED BY <1>3, <1>4

LEMMA RepliesAreIntents ==
  ASSUME NEW reply \in Replies
  PROVE  AgentOf[Intent(reply)] \in {"analytical", "cx", "internal_ops", "general", "pricing", "supply_chain"}
  BY DEF AgentOf, Intent, Replies, ValidIntents

-----------------------------------------------------------------------------
(* Every step keeps the inductive invariant.                               *)

LEMMA InitIInv == Init => IInv
<1> SUFFICES ASSUME Init PROVE IInv
  OBVIOUS
<1> USE MaxTurnsAssumption, MaxSessionsAssumption
<1>1. PICK h : h = [a \in Addresses |-> <<>>]
  OBVIOUS
<1>2. h \in [Addresses -> Seq(Messages)] /\ \A a \in Addresses : h[a] = <<>>
  BY <1>1, EmptySeq
<1>3. store = [sessions |-> <<>>, expired |-> 0, msgs |-> h]
  BY <1>1 DEF Init, EmptyStore
<1>4. <<>> \in Seq(Entries) /\ Len(<<>>) = 0 /\ DOMAIN <<>> = {} /\ Distinct(<<>>)
  BY EmptySeq DEF Distinct
<1>5. IsStore(store)
  BY <1>2, <1>3, <1>4, StoreOf
<1>6. turn \in [Clients -> TurnStates] /\ \A c \in Clients : turn[c] = Idle
  BY IdleState DEF Init
<1>7. \A c \in Clients : ~Running(c) /\ turn[c].at # "agent"
  BY <1>6, IdleState DEF Running
<1>8. turns = 0 /\ ids = 0 /\ sent = <<>> /\ sent \in Seq(Responses) /\ Len(sent) = 0
  BY EmptySeq DEF Init
<1>9. TypeOK
  BY <1>5, <1>6, <1>7, <1>8 DEF TypeOK, IsStore
<1>10. HistoriesArePaired
  BY <1>2, <1>3, EmptyIsPaired DEF HistoriesArePaired
<1>11. CountsFit
  <2>1. RunningClients = {}
    BY <1>7 DEF RunningClients
  <2>2. Cardinality(RunningClients) = 0
    BY <2>1, FS_EmptySet
  <2> QED BY <1>2, <1>3, <1>8, <2>2, EmptyIsPaired DEF CountsFit
<1>12. SessionKeepsId
  BY <1>7 DEF SessionKeepsId
<1>13. AgentsFollow
  BY <1>7 DEF AgentsFollow
<1> QED BY <1>9, <1>10, <1>11, <1>12, <1>13 DEF IInv

\* What a client's step has to show for the types.
LEMMA StepKeepsTypes ==
  ASSUME TypeOK, NEW c \in Clients, NEW w \in TurnStates, turn' = [turn EXCEPT ![c] = w],
         IsStore(store'), turns' \in turns..MaxTurns, ids' \in 0..turns',
         w.at \in {"classify", "agent"} => w.n <= turns',
         sent' \in Seq(Responses), Len(sent') <= 1
  PROVE  TypeOK'
<1>1. turns \in 0..MaxTurns
  BY DEF TypeOK
<1>2. turns' \in 0..MaxTurns
  BY <1>1, MaxTurnsAssumption
<1>3. ASSUME NEW d \in Clients, Running(d)' PROVE turn'[d].n <= turns'
  <2>1. CASE d = c
    BY <1>3, <2>1, TurnMoves DEF Running
  <2>2. CASE d # c
    <3>1. turn'[d] = turn[d]
      BY <2>2, TurnMoves
    <3>2. Running(d)
      BY <1>3, <3>1 DEF Running
    <3>3. turn[d].n <= turns /\ turn[d].n \in 1..MaxTurns
      BY <3>2, RunningFields DEF TypeOK, Running
    <3> QED BY <1>1, <3>1, <3>3
  <2> QED BY <2>1, <2>2
<1>4. turn' \in [Clients -> TurnStates]
  BY TurnMoves
<1> QED BY <1>2, <1>3, <1>4 DEF TypeOK, IsStore

LEMMA NothingSent == <<>> \in Seq(Responses) /\ Len(<<>>) <= 1
  BY EmptySeq

LEMMA OneSent ==
  ASSUME NEW r \in Responses
  PROVE  <<r>> \in Seq(Responses) /\ Len(<<r>>) <= 1 /\ DOMAIN <<r>> = {1} /\ <<r>>[1] = r
  OBVIOUS

\* Only the agent's own step can break what its calls say.
LEMMA OthersFollow ==
  ASSUME TypeOK, AgentsFollow, NEW c \in Clients, NEW w \in TurnStates,
         turn' = [turn EXCEPT ![c] = w], w.at = "agent" => CallsFollow(w)
  PROVE  AgentsFollow'
<1> SUFFICES ASSUME NEW d \in Clients, turn'[d].at = "agent" PROVE CallsFollow(turn'[d])
  BY DEF AgentsFollow, CallsFollow
<1>1. CASE d = c
  BY <1>1, TurnMoves
<1>2. CASE d # c
  <2>1. turn'[d] = turn[d]
    BY <1>2, TurnMoves
  <2> QED BY <2>1 DEF AgentsFollow
<1> QED BY <1>1, <1>2

\* A step inside a turn that leaves the store alone.
LEMMA InnerStepKeepsIInv ==
  ASSUME IInv, NEW c \in Clients, Running(c), NEW w \in TurnStates, turn' = [turn EXCEPT ![c] = w],
         w.at = "agent", w.n = turn[c].n, w.id = turn[c].id, w.session = turn[c].session,
         CallsFollow(w), sent' = <<>>, UNCHANGED <<store, turns, ids>>
  PROVE  IInv'
<1> USE MaxTurnsAssumption
<1>1. TypeOK /\ turns \in 0..MaxTurns /\ ids \in 0..turns /\ IsStore(store) /\ turn[c].n <= turns
  BY DEF IInv, TypeOK, IsStore
<1>2. TypeOK'
  <2>1. turns' \in turns..MaxTurns /\ ids' \in 0..turns' /\ w.n <= turns' /\ IsStore(store')
    BY <1>1
  <2>2. sent' \in Seq(Responses) /\ Len(sent') <= 1
    BY NothingSent
  <2> QED BY <1>1, <2>1, <2>2, StepKeepsTypes
<1>3. HistoriesArePaired'
  BY DEF IInv, HistoriesArePaired
<1>4. CountsFit'
  <2>1. RunningClients' = RunningClients
    BY <1>1, AsManyRun
  <2> QED BY <2>1 DEF IInv, CountsFit
<1>5. SessionKeepsId'
  <2> SUFFICES ASSUME NEW d \in Clients, NEW k \in DOMAIN store.sessions,
                      Running(d)', store.sessions[k].object = turn'[d].session
               PROVE  store.sessions[k].id = turn'[d].id
    BY DEF SessionKeepsId
  <2>1. Running(d) /\ turn'[d].session = turn[d].session /\ turn'[d].id = turn[d].id
    <3>1. CASE d = c
      BY <1>1, <3>1, TurnMoves
    <3>2. CASE d # c
      BY <1>1, <3>2, TurnMoves DEF Running
    <3> QED BY <3>1, <3>2
  <2> QED BY <2>1 DEF IInv, SessionKeepsId
<1>6. AgentsFollow'
  BY <1>1, OthersFollow DEF IInv
<1> QED BY <1>2, <1>3, <1>4, <1>5, <1>6 DEF IInv

\* Sessions may go and messages of nobody too, but the rest stays as it is.
OnlyLess(s, v) ==
  /\ \A i \in DOMAIN v.sessions : \E j \in DOMAIN s.sessions : v.sessions[i] = s.sessions[j]
  /\ \A a \in Addresses : v.msgs[a] = s.msgs[a] \/ v.msgs[a] = <<>>

LEMMA LessIsPaired ==
  ASSUME NEW s, IsStore(s), NEW v, \A a \in Addresses : Paired(s.msgs[a]),
         \A a \in Addresses : v.msgs[a] = s.msgs[a] \/ v.msgs[a] = <<>>
  PROVE  \A a \in Addresses : Paired(v.msgs[a]) /\ Len(v.msgs[a]) <= Len(s.msgs[a])
<1> SUFFICES ASSUME NEW a \in Addresses PROVE Paired(v.msgs[a]) /\ Len(v.msgs[a]) <= Len(s.msgs[a])
  OBVIOUS
<1>1. s.msgs[a] \in Seq(Messages) /\ Paired(s.msgs[a])
  BY StoreFields
<1>2. Len(s.msgs[a]) \in Nat
  BY <1>1, LenProperties
<1>3. CASE v.msgs[a] = s.msgs[a]
  BY <1>1, <1>2, <1>3
<1>4. CASE v.msgs[a] = <<>>
  BY <1>2, <1>4, EmptyIsPaired
<1> QED BY <1>3, <1>4

\* A turn that ends without adding anything.
LEMMA EndKeepsIInv ==
  ASSUME IInv, NEW c \in Clients, Running(c), turn' = [turn EXCEPT ![c] = Idle],
         IsStore(store'), OnlyLess(store, store'),
         sent' \in Seq(Responses), Len(sent') <= 1, UNCHANGED <<turns, ids>>
  PROVE  IInv'
<1> USE MaxTurnsAssumption
<1>1. TypeOK /\ turns \in 0..MaxTurns /\ ids \in 0..turns /\ IsStore(store)
  BY DEF IInv, TypeOK, IsStore
<1>2. TypeOK'
  <2>1. turns' \in turns..MaxTurns /\ ids' \in 0..turns'
    BY <1>1
  <2>2. Idle \in TurnStates /\ ~(Idle.at \in {"classify", "agent"})
    BY IdleState
  <2> QED BY <1>1, <2>1, <2>2, StepKeepsTypes
<1>3. \A a \in Addresses : Paired(store'.msgs[a]) /\ Len(store'.msgs[a]) <= Len(store.msgs[a])
  BY <1>1, LessIsPaired DEF IInv, HistoriesArePaired, OnlyLess
<1>4. HistoriesArePaired'
  BY <1>3 DEF HistoriesArePaired
<1>5. CountsFit'
  <2> SUFFICES ASSUME NEW a \in Addresses
               PROVE  Len(store'.msgs[a]) + 2 * Cardinality(RunningClients') <= 2 * turns
    BY DEF CountsFit
  <2>1. Cardinality(RunningClients') = Cardinality(RunningClients) - 1
    BY <1>1, OneLessRuns
  <2>2. Len(store.msgs[a]) + 2 * Cardinality(RunningClients) <= 2 * turns
    BY DEF IInv, CountsFit
  <2>3. store.msgs[a] \in Seq(Messages) /\ store'.msgs[a] \in Seq(Messages)
    BY <1>1, StoreFields
  <2>4. Len(store.msgs[a]) \in Nat /\ Len(store'.msgs[a]) \in Nat
    BY <2>3, LenProperties
  <2>5. PICK n, m : n = Cardinality(RunningClients) /\ m = Cardinality(RunningClients')
    OBVIOUS
  <2>6. n \in Nat /\ m = n - 1 /\ Len(store.msgs[a]) + 2 * n <= 2 * turns
    BY <2>1, <2>2, <2>5, RunningIsFinite
  <2>7. Len(store'.msgs[a]) + 2 * m <= 2 * turns
    <3>1. Len(store'.msgs[a]) <= Len(store.msgs[a])
      BY <1>3
    <3>2. PICK x, y : x = Len(store'.msgs[a]) /\ y = Len(store.msgs[a])
      OBVIOUS
    <3>3. x \in Nat /\ y \in Nat /\ x <= y /\ y + 2 * n <= 2 * turns
      BY <2>4, <2>6, <3>1, <3>2
    <3>4. x + 2 * m <= 2 * turns
      BY <1>1, <2>6, <3>3
    <3> QED BY <3>2, <3>4
  <2> QED BY <2>5, <2>7
<1>6. SessionKeepsId'
  <2> SUFFICES ASSUME NEW d \in Clients, NEW k \in DOMAIN store'.sessions,
                      Running(d)', store'.sessions[k].object = turn'[d].session
               PROVE  store'.sessions[k].id = turn'[d].id
    BY DEF SessionKeepsId
  <2>1. d # c /\ turn'[d] = turn[d] /\ Running(d)
    BY <1>1, TurnMoves, IdleState DEF Running
  <2>2. PICK j \in DOMAIN store.sessions : store'.sessions[k] = store.sessions[j]
    BY DEF OnlyLess
  <2> QED BY <2>1, <2>2 DEF IInv, SessionKeepsId
<1>7. AgentsFollow'
  BY <1>1, IdleState, OthersFollow DEF IInv
<1> QED BY <1>2, <1>4, <1>5, <1>6, <1>7 DEF IInv

LEMMA CollectedIsLess ==
  ASSUME NEW s, IsStore(s), NEW held
  PROVE  IsStore(Collected(s, held)) /\ OnlyLess(s, Collected(s, held))
<1>1. PICK v : v = Collected(s, held)
  OBVIOUS
<1>2. /\ IsStore(v) /\ v.sessions = s.sessions
      /\ \A a \in Addresses : v.msgs[a] = IF a \in held \cup InUse(s) THEN s.msgs[a] ELSE <<>>
  BY <1>1, CollectedStore
<1> QED BY <1>1, <1>2 DEF OnlyLess

LEMMA ClassifyKeepsIInv ==
  ASSUME IInv, NEW c \in Clients, NEW reply \in Replies, Classify(c, reply)
  PROVE  IInv'
<1>1. PICK t : t = turn[c]
  OBVIOUS
<1>2. t \in TurnStates /\ t.at = "classify" /\ Running(c)
  BY <1>1 DEF IInv, TypeOK, Classify, Running
<1>3. t.n \in 1..MaxTurns /\ t.id \in SessionIds /\ t.session \in Addresses /\ t.query \in QueryType
  BY <1>2, RunningFields
<1>4. PICK agent : agent = AgentOf[Intent(reply)]
  OBVIOUS
<1>5. agent \in Agents
  BY <1>4 DEF Classify
<1>6. PICK left : left = ToolsFor(agent, t.query)
  OBVIOUS
<1>7. left \in SUBSET Nat
  BY <1>5, <1>6, ToolsOfAgents DEF ToolsFor
<1>0. PICK calls : calls = <<>>
  OBVIOUS
<1>8. PICK w : w = [at |-> "agent", n |-> t.n, id |-> t.id, session |-> t.session,
                    query |-> t.query, agent |-> agent, left |-> left, calls |-> calls]
  OBVIOUS
<1>9. /\ w \in TurnStates /\ w.at = "agent" /\ w.n = t.n /\ w.id = t.id /\ w.session = t.session
      /\ w.query = t.query /\ w.agent = agent /\ w.left = left /\ w.calls = <<>>
  <2>1. calls \in Seq(Calls)
    BY <1>0, EmptySeq
  <2>2. /\ w \in TurnStates /\ w.at = "agent" /\ w.n = t.n /\ w.id = t.id /\ w.session = t.session
        /\ w.query = t.query /\ w.agent = agent /\ w.left = left /\ w.calls = calls
    <3>1. PICK n, id, session, query :
            n = t.n /\ id = t.id /\ session = t.session /\ query = t.query
      OBVIOUS
    <3>2. /\ n \in 1..MaxTurns /\ id \in SessionIds /\ session \in Addresses /\ query \in QueryType
          /\ w = [at |-> "agent", n |-> n, id |-> id, session |-> session,
                  query |-> query, agent |-> agent, left |-> left, calls |-> calls]
      BY <1>3, <1>8, <3>1
    <3>3. /\ w \in TurnStates /\ w.at = "agent" /\ w.n = n /\ w.id = id /\ w.session = session
          /\ w.query = query /\ w.agent = agent /\ w.left = left /\ w.calls = calls
      BY <1>5, <1>7, <2>1, <3>2, AgentState
    <3> QED BY <3>1, <3>3
  <2> QED BY <1>0, <2>2
<1>10. turn' = [turn EXCEPT ![c] = w]
  BY <1>0, <1>1, <1>4, <1>6, <1>8 DEF Classify
<1>11. CallsFollow(w)
  <2>1. DOMAIN <<>> = {}
    OBVIOUS
  <2>2. Called(w) = {} /\ NoError(w.calls)
    BY <1>9, <2>1 DEF Called, NoError, Range
  <2>3. ToolsAt(agent, left \ left) = {}
    BY DEF ToolsAt
  <2> QED BY <1>6, <1>9, <2>2, <2>3 DEF CallsFollow
<1>12. sent' = <<>> /\ UNCHANGED <<store, turns, ids>>
  BY DEF Classify
<1> QED BY <1>1, <1>2, <1>9, <1>10, <1>11, <1>12, InnerStepKeepsIInv

LEMMA RouteMissingKeepsIInv ==
  ASSUME IInv, NEW c \in Clients, NEW reply \in Replies, RouteMissing(c, reply)
  PROVE  IInv'
<1>1. Running(c) /\ turn' = [turn EXCEPT ![c] = Idle] /\ UNCHANGED <<store, turns, ids>>
  BY DEF RouteMissing, Running
<1>2. IsStore(store') /\ OnlyLess(store, store')
  BY <1>1 DEF IInv, TypeOK, IsStore, OnlyLess
<1>3. PICK r : r = [status |-> 500]
  OBVIOUS
<1>4. r \in Responses /\ sent' = <<r>>
  BY <1>3 DEF Responses, RouteMissing
<1> QED BY <1>1, <1>2, <1>4, OneSent, EndKeepsIInv

LEMMA CancelKeepsIInv ==
  ASSUME IInv, NEW c \in Clients, Cancel(c)
  PROVE  IInv'
<1>1. /\ Running(c) /\ turn' = [turn EXCEPT ![c] = Idle] /\ sent' = <<>> /\ UNCHANGED <<turns, ids>>
      /\ store' = Collected(store, HeldBy(Clients \ {c}))
  BY DEF Cancel
<1>2. IsStore(store') /\ OnlyLess(store, store')
  BY <1>1, CollectedIsLess DEF IInv, TypeOK, IsStore
<1> QED BY <1>1, <1>2, NothingSent, EndKeepsIInv

LEMMA ExpiryKeepsIInv ==
  ASSUME IInv, SessionExpires
  PROVE  IInv'
<1>1. PICK q, n, h : q = store.sessions /\ n = store.expired /\ h = store.msgs
  OBVIOUS
<1>2. /\ q \in Seq(Entries) /\ Distinct(q) /\ Len(q) <= MaxSessions /\ n \in Nat /\ n < Len(q)
      /\ h \in [Addresses -> Seq(Messages)]
      /\ store = [sessions |-> q, expired |-> n, msgs |-> h]
  BY <1>1, StoreFields DEF IInv, TypeOK, IsStore, StoreType, SessionExpires
<1>3. store' = [sessions |-> q, expired |-> n + 1, msgs |-> h]
  BY <1>2 DEF SessionExpires, OneMoreExpired
<1>4. IsStore(store')
  <2>1. n + 1 \in Nat /\ n + 1 <= Len(q)
    BY <1>2, LenProperties
  <2> QED BY <1>2, <1>3, <2>1, StoreOf
<1>5. store'.sessions = store.sessions /\ store'.msgs = store.msgs
  BY <1>1, <1>3
<1>6. sent' = <<>> /\ UNCHANGED <<turn, turns, ids>>
  BY DEF SessionExpires
<1>7. TypeOK'
  BY <1>4, <1>6, NothingSent DEF IInv, TypeOK, IsStore, Running
<1> QED BY <1>5, <1>6, <1>7 DEF IInv, HistoriesArePaired, CountsFit, RunningClients, Running,
                               SessionKeepsId, AgentsFollow

\* The places of the wanted tools.
LEMMA WantedPlaces ==
  ASSUME NEW a \in Agents, NEW query
  PROVE  /\ ToolsFor(a, query) \in SUBSET Nat
         /\ \A k \in ToolsFor(a, query) : ToolsOf[a][k] \in Tools
  BY ToolsOfAgents DEF ToolsFor

\* One more call.
LEMMA CallAppended ==
  ASSUME NEW calls \in Seq(Calls), NEW call \in Calls
  PROVE  LET new == Append(calls, call) IN
         /\ new \in Seq(Calls) /\ new # <<>> /\ new[Len(new)] = call
         /\ Range(new) = Range(calls) \cup {call}
         /\ NoError(calls) => \A k \in DOMAIN new : new[k].outcome = "error" => k = Len(new)
         /\ NoError(calls) /\ call.outcome # "error" => NoError(new)
<1>1. PICK l, new : l = Len(calls) /\ new = Append(calls, call)
  OBVIOUS
<1>2. /\ l \in Nat /\ DOMAIN calls = 1..l
      /\ new \in Seq(Calls) /\ new # <<>> /\ Len(new) = l + 1 /\ DOMAIN new = 1..(l + 1)
      /\ \A i \in 1..l : new[i] = calls[i]
      /\ new[l + 1] = call
  BY <1>1, LenProperties, AppendProperties
<1>3. Range(new) = Range(calls) \cup {call}
  <2>1. ASSUME NEW e \in Range(new) PROVE e \in Range(calls) \cup {call}
    <3>1. PICK i \in 1..(l + 1) : e = new[i]
      BY <1>2, <2>1 DEF Range
    <3>2. CASE i \in 1..l
      BY <1>2, <3>1, <3>2 DEF Range
    <3>3. CASE i = l + 1
      BY <1>2, <3>1, <3>3
    <3> QED BY <1>2, <3>1, <3>2, <3>3
  <2>2. ASSUME NEW e \in Range(calls) PROVE e \in Range(new)
    <3>1. PICK i \in 1..l : e = calls[i]
      BY <1>2, <2>2 DEF Range
    <3>2. i \in DOMAIN new /\ new[i] = e
      BY <1>2, <3>1
    <3> QED BY <3>2 DEF Range
  <2>3. call \in Range(new)
    <3>1. l + 1 \in DOMAIN new
      BY <1>2
    <3> QED BY <1>2, <3>1 DEF Range
  <2> QED BY <2>1, <2>2, <2>3
<1>4. ASSUME NoError(calls), NEW k \in DOMAIN new, new[k].outcome = "error"
      PROVE  k = Len(new)
  <2>1. CASE k \in 1..l
    BY <1>2, <1>4, <2>1 DEF NoError
  <2>2. CASE k = l + 1
    BY <1>2, <2>2
  <2> QED BY <1>2, <1>4, <2>1, <2>2
<1>5. ASSUME NoError(calls), call.outcome # "error" PROVE NoError(new)
  <2> SUFFICES ASSUME NEW k \in DOMAIN new PROVE new[k].outcome # "error"
    BY DEF NoError
  <2>1. CASE k \in 1..l
    BY <1>2, <1>5, <2>1 DEF NoError
  <2>2. CASE k = l + 1
    BY <1>2, <1>5, <2>2
  <2> QED BY <1>2, <2>1, <2>2
<1> QED BY <1>1, <1>2, <1>3, <1>4, <1>5

\* The least of the places left is the next after those called.
LEMMA NextPlace ==
  ASSUME NEW wanted \in SUBSET Nat, NEW left \in SUBSET wanted, NEW k \in left,
         \A j \in left : k <= j, \A j \in wanted \ left, i \in left : j < i
  PROVE  /\ (wanted \ left) \cup {k} = {j \in wanted : j <= k}
         /\ wanted \ (left \ {k}) = (wanted \ left) \cup {k}
         /\ \A j \in wanted \ (left \ {k}), i \in left \ {k} : j < i
<1>1. ASSUME NEW j \in wanted, j <= k PROVE j \in (wanted \ left) \cup {k}
  <2>1. CASE j \in left
    BY <1>1, <2>1
  <2> QED BY <1>1, <2>1
<1>2. ASSUME NEW j \in (wanted \ left) \cup {k} PROVE j \in wanted /\ j <= k
  BY <1>2
<1>3. wanted \ (left \ {k}) = (wanted \ left) \cup {k}
  OBVIOUS
<1>4. ASSUME NEW j \in (wanted \ left) \cup {k}, NEW i \in left \ {k} PROVE j < i
  <2>1. i \in Nat /\ k \in Nat /\ k <= i /\ k # i
    OBVIOUS
  <2>2. CASE j = k
    BY <2>1, <2>2
  <2>3. CASE j \in wanted \ left
    BY <2>3
  <2> QED BY <1>4, <2>2, <2>3
<1> QED BY <1>1, <1>2, <1>3, <1>4

LEMMA CallFollows ==
  ASSUME NEW t, t.agent \in Agents, t.calls \in Seq(Calls), CallsFollow(t),
         NEW k \in t.left, \A j \in t.left : k <= j,
         NEW outcome \in Outcomes, NEW call,
         call = [tool |-> ToolsOf[t.agent][k], outcome |-> outcome],
         NEW w, w.agent = t.agent, w.query = t.query,
         w.left = ToolsLeft(t.agent, t.left \ {k}, outcome), w.calls = Append(t.calls, call)
  PROVE  call \in Calls /\ w.left \in SUBSET Nat /\ CallsFollow(w)
<1>1. PICK a, wanted, left, calls, new :
        /\ a = t.agent /\ wanted = ToolsFor(a, t.query) /\ left = t.left
        /\ calls = t.calls /\ new = Append(calls, call)
  OBVIOUS
<1>2. /\ a \in Agents /\ calls \in Seq(Calls) /\ k \in left
      /\ wanted = ToolsFor(w.agent, w.query) /\ w.calls = new /\ w.agent = a
      /\ w.left = ToolsLeft(a, left \ {k}, outcome)
  BY <1>1
<1>3. /\ left \subseteq wanted
      /\ \A j \in wanted \ left, i \in left : j < i
      /\ Called(t) = ToolsAt(a, wanted \ left)
      /\ a \in OneTry => NoError(calls)
  BY <1>1, <1>2 DEF CallsFollow
<1>4. wanted \in SUBSET Nat /\ \A j \in wanted : ToolsOf[a][j] \in Tools
  BY <1>1, <1>2, WantedPlaces
<1>5. call \in Calls /\ call.tool = ToolsOf[a][k] /\ call.outcome = outcome
  BY <1>1, <1>2, <1>3, <1>4 DEF Calls
<1>6. /\ new # <<>> /\ new[Len(new)] = call
      /\ Range(new) = Range(calls) \cup {call}
      /\ NoError(calls) => \A i \in DOMAIN new : new[i].outcome = "error" => i = Len(new)
      /\ NoError(calls) /\ outcome # "error" => NoError(new)
  BY <1>1, <1>2, <1>5, CallAppended
<1>7. Called(w) = Called(t) \cup {ToolsOf[a][k]}
  BY <1>1, <1>2, <1>5, <1>6 DEF Called
<1>8. /\ (wanted \ left) \cup {k} = {j \in wanted : j <= k}
      /\ wanted \ (left \ {k}) = (wanted \ left) \cup {k}
      /\ \A j \in wanted \ (left \ {k}), i \in left \ {k} : j < i
  BY <1>1, <1>2, <1>3, <1>4, NextPlace
<1>9. Called(w) = ToolsAt(a, (wanted \ left) \cup {k})
  BY <1>3, <1>7 DEF ToolsAt
<1>10. w.left \in SUBSET Nat
  BY <1>2, <1>3, <1>4 DEF ToolsLeft
<1>11. CASE outcome = "error" /\ a \in OneTry
  <2>1. w.left = {}
    BY <1>2, <1>11 DEF ToolsLeft
  <2>2. w.calls # <<>> /\ w.calls[Len(w.calls)].outcome = "error"
    BY <1>2, <1>5, <1>6, <1>11
  <2>3. \A i \in DOMAIN w.calls : w.calls[i].outcome = "error" => i = Len(w.calls)
    BY <1>2, <1>3, <1>6, <1>11
  <2>4. k \in wanted /\ Called(w) = ToolsAt(a, {j \in wanted : j <= k})
    BY <1>2, <1>3, <1>8, <1>9
  <2> QED BY <1>2, <1>5, <1>10, <1>11, <2>1, <2>2, <2>3, <2>4 DEF CallsFollow
<1>12. CASE ~(outcome = "error" /\ a \in OneTry)
  <2>1. w.left = left \ {k}
    BY <1>2, <1>12 DEF ToolsLeft
  <2>2. w.left \subseteq wanted /\ \A j \in wanted \ w.left, i \in w.left : j < i
    BY <1>3, <1>8, <2>1
  <2>3. Called(w) = ToolsAt(a, wanted \ w.left)
    BY <1>8, <1>9, <2>1
  <2>4. a \in OneTry => NoError(w.calls)
    BY <1>2, <1>3, <1>6, <1>12
  <2> QED BY <1>2, <1>5, <1>10, <2>2, <2>3, <2>4 DEF CallsFollow
<1> QED BY <1>11, <1>12

LEMMA CallToolKeepsIInv ==
  ASSUME IInv, NEW c \in Clients, NEW outcome \in Outcomes, CallTool(c, outcome)
  PROVE  IInv'
<1>1. PICK t : t = turn[c]
  OBVIOUS
<1>2. t \in TurnStates /\ t.at = "agent" /\ Running(c) /\ CallsFollow(t)
  BY <1>1 DEF IInv, TypeOK, CallTool, Running, AgentsFollow
<1>3. /\ t.n \in 1..MaxTurns /\ t.id \in SessionIds /\ t.session \in Addresses /\ t.query \in QueryType
      /\ t.agent \in Agents /\ t.left \in SUBSET Nat /\ t.calls \in Seq(Calls)
  BY <1>2, RunningFields, AgentFields
<1>4. PICK k \in t.left :
        /\ \A j \in t.left : k <= j
        /\ turn' = [turn EXCEPT
             ![c].left = ToolsLeft(turn[c].agent, @ \ {k}, outcome),
             ![c].calls = Append(@, [tool |-> ToolsOf[turn[c].agent][k], outcome |-> outcome])]
  BY <1>1 DEF CallTool
<1>5. PICK call : call = [tool |-> ToolsOf[t.agent][k], outcome |-> outcome]
  OBVIOUS
<1>6. PICK left, new : left = ToolsLeft(t.agent, t.left \ {k}, outcome) /\ new = Append(t.calls, call)
  OBVIOUS
<1>7. PICK w : w = [t EXCEPT !.left = left, !.calls = new]
  OBVIOUS
<1>8. /\ w.at = "agent" /\ w.n = t.n /\ w.id = t.id /\ w.session = t.session
      /\ w.query = t.query /\ w.agent = t.agent /\ w.left = left /\ w.calls = new
      /\ w = [at |-> "agent", n |-> t.n, id |-> t.id, session |-> t.session,
              query |-> t.query, agent |-> t.agent, left |-> left, calls |-> new]
  BY <1>2, <1>7, IdleState DEF TurnStates
<1>9. call \in Calls /\ left \in SUBSET Nat /\ CallsFollow(w)
  BY ZenonT(40), <1>2, <1>3, <1>4, <1>5, <1>6, <1>8, CallFollows
<1>10. w \in TurnStates
  <2>1. new \in Seq(Calls)
    BY <1>3, <1>6, <1>9, AppendProperties
  <2>2. PICK n, id, session, query, agent :
          n = t.n /\ id = t.id /\ session = t.session /\ query = t.query /\ agent = t.agent
    OBVIOUS
  <2>3. w = [at |-> "agent", n |-> n, id |-> id, session |-> session,
             query |-> query, agent |-> agent, left |-> left, calls |-> new]
    BY <1>8, <2>2
  <2>4. /\ n \in 1..MaxTurns /\ id \in SessionIds /\ session \in Addresses /\ query \in QueryType
        /\ agent \in Agents
    BY <1>3, <2>2
  <2> QED BY <1>9, <2>1, <2>3, <2>4, AgentState
<1>11. turn' = [turn EXCEPT ![c] = w]
  <2>1. turn' = [turn EXCEPT ![c] = [@ EXCEPT !.left = left, !.calls = new]]
    BY <1>1, <1>4, <1>5, <1>6 DEF IInv, TypeOK
  <2> QED BY <1>1, <1>7, <2>1
<1>12. sent' = <<>> /\ UNCHANGED <<store, turns, ids>>
  BY DEF CallTool
<1> QED BY <1>1, <1>2, <1>8, <1>9, <1>10, <1>11, <1>12, InnerStepKeepsIInv

\* No other entry has the id or the object of the one asked for.
LEMMA OnlyEntry ==
  ASSUME NEW s, IsStore(s), NEW id \in Stored(s)
  PROVE  /\ EntryOf(s, id) \in Entries
         /\ EntryOf(s, id).id = id
         /\ EntryOf(s, id).object \in Addresses
         /\ EntryOf(s, id).object \in InUse(s)
         /\ \A k \in DOMAIN s.sessions :
              s.sessions[k].object = EntryOf(s, id).object \/ s.sessions[k].id = id
                => s.sessions[k] = EntryOf(s, id)
<1>1. PICK q, p : q = s.sessions /\ p = PlaceOf(s, id)
  OBVIOUS
<1>2. q \in Seq(Entries) /\ Distinct(q) /\ DOMAIN q = 1..Len(q)
  BY <1>1, StoreFields
<1>3. p \in DOMAIN q /\ EntryOf(s, id) = q[p] /\ EntryOf(s, id).id = id
  BY <1>1, PlaceOfId DEF EntryOf
<1>4. q[p] \in Entries
  BY <1>2, <1>3, ElementOfSeq
<1>5. q[p].object \in Addresses
  BY <1>4 DEF Entries
<1>6. q[p].object \in InUse(s)
  BY <1>1, <1>3 DEF InUse
<1>7. ASSUME NEW k \in DOMAIN q, q[k].object = q[p].object \/ q[k].id = q[p].id PROVE k = p
  BY <1>2, <1>3, <1>7 DEF Distinct
<1> QED BY <1>1, <1>3, <1>4, <1>5, <1>6, <1>7

\* An entry of the store that a turn just looked at: old, or of nobody else.
LEMMA LookedUpKeepsIds ==
  ASSUME IInv, NEW id \in SessionIds, NEW t, LookedUp(store, t, id, Fresh),
         NEW d \in Clients, Running(d), NEW k \in DOMAIN t.sessions,
         t.sessions[k].object = turn[d].session
  PROVE  t.sessions[k].id = turn[d].id
<1>1. Fresh \notin HeldBy(Clients)
  BY FreshIsFree DEF IInv
<1>2. turn[d].session \in HeldBy(Clients)
  BY DEF HeldBy
<1>3. CASE t.sessions[k] = [id |-> id, object |-> Fresh]
  BY <1>1, <1>2, <1>3
<1>4. CASE \E j \in (store.expired + 1)..Len(store.sessions) : t.sessions[k] = store.sessions[j]
  <2>1. PICK j \in (store.expired + 1)..Len(store.sessions) : t.sessions[k] = store.sessions[j]
    BY <1>4
  <2>2. j \in DOMAIN store.sessions
    BY StoreFields DEF IInv, TypeOK, IsStore
  <2> QED BY <2>1, <2>2 DEF IInv, SessionKeepsId
<1> QED BY <1>3, <1>4 DEF LookedUp

LEMMA LookedUpInStore ==
  ASSUME IInv, NEW id \in SessionIds
  PROVE  LookedUp(store, GetOrCreate(store, id, Fresh), id, Fresh)
<1>1. IsStore(store) /\ Fresh \in Addresses /\ Fresh \notin InUse(store)
  BY FreshIsFree DEF IInv, TypeOK, IsStore
<1> QED BY <1>1, GetOrCreateLooksUp

LEMMA LookedUpIsPaired ==
  ASSUME IInv, NEW id \in SessionIds, NEW t, LookedUp(store, t, id, Fresh)
  PROVE  \A a \in Addresses : Paired(t.msgs[a]) /\ Len(t.msgs[a]) <= Len(store.msgs[a])
<1>1. IsStore(store) /\ \A a \in Addresses : Paired(store.msgs[a])
  BY DEF IInv, TypeOK, IsStore, HistoriesArePaired
<1>2. \A a \in Addresses : t.msgs[a] = store.msgs[a] \/ t.msgs[a] = <<>>
  BY DEF LookedUp
<1> QED BY <1>1, <1>2, LessIsPaired

LEMMA BeginKeepsIInv ==
  ASSUME IInv, NEW c \in Clients, NEW id \in SessionIds, NEW query \in Queries, Begin(c, id, query)
  PROVE  IInv'
<1> USE MaxTurnsAssumption
<1>1. PICK t : t = GetOrCreate(store, id, Fresh)
  OBVIOUS
<1>2. LookedUp(store, t, id, Fresh) /\ IsStore(t) /\ id \in Stored(t)
  BY <1>1, LookedUpInStore DEF LookedUp
<1>3. PICK e, o : e = EntryOf(t, id) /\ o = e.object
  OBVIOUS
<1>4. o \in Addresses /\ \A k \in DOMAIN t.sessions : t.sessions[k].object = o => t.sessions[k].id = id
  BY <1>2, <1>3, OnlyEntry
<1>5. PICK w : w = [at |-> "classify", n |-> turns + 1, id |-> id, session |-> o, query |-> query]
  OBVIOUS
<1>6. /\ ~Running(c) /\ turns < MaxTurns /\ id <= ids + 1
      /\ turns' = turns + 1 /\ ids' = IF id > ids THEN id ELSE ids
      /\ turn' = [turn EXCEPT ![c] = w]
      /\ store' = Collected(t, HeldBy(Clients))
      /\ sent' = <<>>
  BY <1>1, <1>3, <1>5 DEF Begin
<1>7. TypeOK /\ turns \in 0..MaxTurns /\ ids \in 0..turns /\ query \in QueryType /\ id \in Nat
  BY QueriesAssumption, SessionIdsAssumption DEF IInv, TypeOK
<1>8. w \in TurnStates /\ w.at = "classify" /\ w.n = turns + 1 /\ w.id = id /\ w.session = o
  <2>1. PICK n : n = turns + 1
    OBVIOUS
  <2>2. n \in 1..MaxTurns
    BY <1>6, <1>7, <2>1
  <2> QED BY <1>4, <1>5, <1>7, <2>1, <2>2, ClassifyState
<1>9. IsStore(store') /\ OnlyLess(t, store')
  BY <1>2, <1>6, CollectedIsLess
<1>10. TypeOK'
  <2>1. turns' \in turns..MaxTurns /\ ids' \in 0..turns' /\ w.n <= turns'
    BY <1>6, <1>7, <1>8
  <2>2. sent' \in Seq(Responses) /\ Len(sent') <= 1
    BY <1>6, NothingSent
  <2> QED BY <1>6, <1>7, <1>8, <1>9, <2>1, <2>2, StepKeepsTypes
<1>11. \A a \in Addresses : Paired(t.msgs[a]) /\ Len(t.msgs[a]) <= Len(store.msgs[a])
  BY <1>2, LookedUpIsPaired
<1>12. \A a \in Addresses : Paired(store'.msgs[a]) /\ Len(store'.msgs[a]) <= Len(t.msgs[a])
  BY <1>2, <1>9, <1>11, LessIsPaired DEF OnlyLess
<1>13. HistoriesArePaired'
  BY <1>12 DEF HistoriesArePaired
<1>14. CountsFit'
  <2> SUFFICES ASSUME NEW a \in Addresses
               PROVE  Len(store'.msgs[a]) + 2 * Cardinality(RunningClients') <= 2 * turns'
    BY DEF CountsFit
  <2>1. PICK n, m, x, y, z : /\ n = Cardinality(RunningClients) /\ m = Cardinality(RunningClients')
                             /\ x = Len(store.msgs[a]) /\ y = Len(t.msgs[a]) /\ z = Len(store'.msgs[a])
    OBVIOUS
  <2>2. n \in Nat /\ m = n + 1
    BY <1>6, <1>7, <1>8, <2>1, OneMoreRuns, RunningIsFinite
  <2>3. x + 2 * n <= 2 * turns
    BY <2>1 DEF IInv, CountsFit
  <2>4. z <= y /\ y <= x
    BY <1>11, <1>12, <2>1
  <2>5. x \in Nat /\ y \in Nat /\ z \in Nat
    <3>1. /\ store.msgs[a] \in Seq(Messages) /\ t.msgs[a] \in Seq(Messages)
          /\ store'.msgs[a] \in Seq(Messages)
      BY <1>2, <1>9, StoreFields DEF IInv, TypeOK, IsStore
    <3> QED BY <2>1, <3>1, LenProperties
  <2>6. z + 2 * m <= 2 * (turns + 1)
    BY <1>7, <2>2, <2>3, <2>4, <2>5
  <2> QED BY <1>6, <2>1, <2>6
<1>15. SessionKeepsId'
  <2> SUFFICES ASSUME NEW d \in Clients, NEW k \in DOMAIN store'.sessions,
                      Running(d)', store'.sessions[k].object = turn'[d].session
               PROVE  store'.sessions[k].id = turn'[d].id
    BY DEF SessionKeepsId
  <2>1. PICK j \in DOMAIN t.sessions : store'.sessions[k] = t.sessions[j]
    BY <1>9 DEF OnlyLess
  <2>2. CASE d = c
    <3>1. turn'[d] = w
      BY <1>6, <1>7, <1>8, <2>2, TurnMoves
    <3>2. t.sessions[j].object = o
      BY <1>8, <2>1, <3>1
    <3>3. t.sessions[j].id = id
      BY <1>4, <3>2
    <3> QED BY <1>8, <2>1, <3>1, <3>3
  <2>3. CASE d # c
    <3>1. turn'[d] = turn[d] /\ Running(d)
      BY <1>6, <1>7, <1>8, <2>3, TurnMoves DEF Running
    <3> QED BY <1>2, <2>1, <3>1, LookedUpKeepsIds
  <2> QED BY <2>2, <2>3
<1>16. AgentsFollow'
  BY <1>6, <1>7, <1>8, OthersFollow DEF IInv
<1> QED BY <1>10, <1>13, <1>14, <1>15, <1>16 DEF IInv

\* id is that of the turn, t the store after its get_or_create(), u after its
\* add_message().
Ending(c, id, t, u) ==
  id = turn[c].id /\ t = GetOrCreate(store, id, Fresh) /\ u = After(turn[c])

\* The store right after a turn has added its messages.
LEMMA AfterTurn ==
  ASSUME IInv, NEW c \in Clients, turn[c].at = "agent", NEW id, NEW t, NEW u, Ending(c, id, t, u)
  PROVE  /\ id \in SessionIds
         /\ LookedUp(store, t, id, Fresh)
         /\ Added(t, id, NewMessages(turn[c]), u)
<1>1. PICK w : w = turn[c] /\ id = w.id
  BY DEF Ending
<1>2. w \in TurnStates /\ w.at = "agent"
  BY <1>1 DEF IInv, TypeOK
<1>3. w.n \in 1..MaxTurns /\ id \in SessionIds
  BY <1>1, <1>2, RunningFields
<1>4. PICK m : m = NewMessages(w)
  OBVIOUS
<1>5. LookedUp(store, t, id, Fresh) /\ IsStore(t)
  BY <1>3, LookedUpInStore DEF LookedUp, Ending
<1>6. m \in Seq(Messages)
  <2>1. <<>> \in Seq(Messages) /\ Paired(<<>>)
    BY EmptySeq, EmptyIsPaired
  <2> QED BY <1>3, <1>4, <2>1, PairedGrows
<1>7. Adds(store, id, Fresh, m, t, u)
  BY <1>1, <1>4 DEF After, Adds, Ending
<1>8. Added(t, id, m, u)
  BY <1>3, <1>5, <1>6, <1>7, MessagesAdded
<1> QED BY <1>1, <1>3, <1>4, <1>5, <1>8

LEMMA AfterTurnIsPaired ==
  ASSUME IInv, NEW c \in Clients, turn[c].at = "agent"
  PROVE  \A a \in Addresses :
           /\ Paired(After(turn[c]).msgs[a])
           /\ Len(After(turn[c]).msgs[a]) <= Len(store.msgs[a]) + 2
<1> SUFFICES ASSUME NEW a \in Addresses
             PROVE  /\ Paired(After(turn[c]).msgs[a])
                    /\ Len(After(turn[c]).msgs[a]) <= Len(store.msgs[a]) + 2
  OBVIOUS
<1>1. PICK w, id, t, u : w = turn[c] /\ id = w.id /\ u = After(w) /\ Ending(c, id, t, u)
  BY DEF Ending
<1>2. /\ id \in SessionIds /\ LookedUp(store, t, id, Fresh)
      /\ u.msgs[a] = t.msgs[a] \o NewMessages(w) \/ u.msgs[a] = t.msgs[a]
  <2>1. /\ id \in SessionIds /\ LookedUp(store, t, id, Fresh)
        /\ u.msgs[a] = IF a = EntryOf(t, id).object
                       THEN t.msgs[a] \o NewMessages(turn[c]) ELSE t.msgs[a]
    <3>1. Added(t, id, NewMessages(turn[c]), u)
      BY <1>1, AfterTurn
    <3> QED BY <1>1, <3>1, AfterTurn DEF Added
  <2> QED BY <1>1, <2>1
<1>3. Paired(t.msgs[a]) /\ Len(t.msgs[a]) <= Len(store.msgs[a]) /\ t.msgs[a] \in Seq(Messages)
  BY <1>2, LookedUpIsPaired, StoreFields DEF LookedUp
<1>4. Len(store.msgs[a]) \in Nat /\ Len(t.msgs[a]) \in Nat
  <2>1. store.msgs[a] \in Seq(Messages)
    BY StoreFields DEF IInv, TypeOK, IsStore
  <2> QED BY <1>3, <2>1, LenProperties
<1>5. w.n \in 1..MaxTurns
  BY <1>1, RunningFields DEF IInv, TypeOK
<1>6. Paired(t.msgs[a] \o NewMessages(w)) /\ Len(t.msgs[a] \o NewMessages(w)) = Len(t.msgs[a]) + 2
  BY <1>3, <1>5, PairedGrows
<1>7. CASE u.msgs[a] = t.msgs[a] \o NewMessages(w)
  <2>1. Len(u.msgs[a]) <= Len(store.msgs[a]) + 2
    BY <1>3, <1>4, <1>6, <1>7
  <2> QED BY <1>1, <1>6, <1>7, <2>1
<1>8. CASE u.msgs[a] = t.msgs[a]
  <2>1. Len(u.msgs[a]) <= Len(store.msgs[a]) + 2
    BY <1>3, <1>4, <1>8
  <2> QED BY <1>1, <1>3, <1>8, <2>1
<1> QED BY <1>2, <1>7, <1>8

LEMMA ToolsUsedAreTools ==
  ASSUME NEW t, t.calls \in Seq(Calls)
  PROVE  ToolsUsed(t) \in SUBSET (Tools \cup Range(OpsTasks))
<1>1. \A k \in Range(t.calls) : k.tool \in Tools
  <2>1. \A k \in Range(t.calls) : k \in Calls
    BY RangeOfSeq
  <2> QED BY <2>1 DEF Calls
<1>2. TaskChosen(t.agent, t.query) \subseteq Range(OpsTasks)
  BY DEF TaskChosen, Range
<1> QED BY <1>1, <1>2 DEF ToolsUsed

LEMMA AnswerKeepsIInv ==
  ASSUME IInv, NEW c \in Clients, Answer(c)
  PROVE  IInv'
<1> USE MaxTurnsAssumption
<1>1. PICK w, id, t, u : w = turn[c] /\ id = w.id /\ u = After(w) /\ Ending(c, id, t, u)
  BY DEF Ending
<1>2. w \in TurnStates /\ w.at = "agent" /\ Running(c)
  BY <1>1 DEF IInv, TypeOK, Answer, Running
<1>3. /\ id \in SessionIds /\ LookedUp(store, t, id, Fresh) /\ IsStore(u)
      /\ \A i \in DOMAIN u.sessions : \E j \in DOMAIN t.sessions : u.sessions[i] = t.sessions[j]
  BY <1>1, <1>2, AfterTurn DEF Added
<1>4. \A a \in Addresses : Paired(u.msgs[a]) /\ Len(u.msgs[a]) <= Len(store.msgs[a]) + 2
  BY <1>1, <1>2, AfterTurnIsPaired
<1>5. PICK r : r = [status |-> 200, tools_used |-> ToolsUsed(w), message_count |-> MessageCount(w)]
  OBVIOUS
<1>6. /\ turn' = [turn EXCEPT ![c] = Idle]
      /\ sent' = <<r>>
      /\ store' = Collected(u, HeldBy(Clients \ {c}))
      /\ UNCHANGED <<turns, ids>>
  BY <1>1, <1>5 DEF Answer
<1>7. TypeOK /\ turns \in 0..MaxTurns /\ ids \in 0..turns
  BY DEF IInv, TypeOK
<1>8. IsStore(store') /\ OnlyLess(u, store')
  BY <1>3, <1>6, CollectedIsLess
<1>9. PICK n, m : n = Cardinality(RunningClients) /\ m = Cardinality(RunningClients')
  OBVIOUS
<1>10. n \in Nat /\ n >= 1 /\ m = n - 1
  <2>1. m = n - 1 /\ n \in Nat
    BY <1>2, <1>6, <1>7, <1>9, OneLessRuns, RunningIsFinite
  <2>2. c \in RunningClients
    BY <1>2 DEF RunningClients
  <2>3. n # 0
    BY <1>9, <2>2, RunningIsFinite, FS_EmptySet
  <2> QED BY <2>1, <2>3
<1>11. ASSUME NEW a \in Addresses
       PROVE  Len(u.msgs[a]) \in Nat /\ Len(u.msgs[a]) + 2 * m <= 2 * turns
  <2>1. u.msgs[a] \in Seq(Messages) /\ store.msgs[a] \in Seq(Messages)
    BY <1>3, StoreFields DEF IInv, TypeOK, IsStore
  <2>2. PICK x, y : x = Len(u.msgs[a]) /\ y = Len(store.msgs[a])
    OBVIOUS
  <2>3. x \in Nat /\ y \in Nat /\ x <= y + 2
    BY <1>4, <2>1, <2>2, LenProperties
  <2>4. y + 2 * n <= 2 * turns
    BY <1>9, <2>2 DEF IInv, CountsFit
  <2>5. x + 2 * m <= 2 * turns
    BY <1>7, <1>10, <2>3, <2>4
  <2> QED BY <2>2, <2>3, <2>5
<1>12. r \in Responses
  <2>1. ToolsUsed(w) \in SUBSET (Tools \cup Range(OpsTasks))
    BY <1>2, AgentFields, ToolsUsedAreTools
  <2>2. w.session \in Addresses
    BY <1>2, RunningFields
  <2>3. MessageCount(w) = Len(u.msgs[w.session])
    BY <1>1 DEF MessageCount
  <2>4. MessageCount(w) \in 0..2 * MaxTurns
    <3>1. PICK x : x = Len(u.msgs[w.session])
      OBVIOUS
    <3>2. x \in Nat /\ x + 2 * m <= 2 * turns
      BY <1>11, <2>2, <3>1
    <3>3. x <= 2 * MaxTurns
      BY <1>7, <1>10, <3>2
    <3> QED BY <2>3, <3>1, <3>2, <3>3
  <2> QED BY <1>5, <2>1, <2>4 DEF Responses
<1>13. TypeOK'
  <2>1. turns' \in turns..MaxTurns /\ ids' \in 0..turns'
    BY <1>6, <1>7
  <2>2. Idle \in TurnStates /\ ~(Idle.at \in {"classify", "agent"})
    BY IdleState
  <2>3. sent' \in Seq(Responses) /\ Len(sent') <= 1
    BY <1>6, <1>12, OneSent
  <2> QED BY <1>6, <1>7, <1>8, <2>1, <2>2, <2>3, StepKeepsTypes
<1>14. \A a \in Addresses : Paired(store'.msgs[a]) /\ Len(store'.msgs[a]) <= Len(u.msgs[a])
  BY <1>3, <1>4, <1>8, LessIsPaired DEF OnlyLess
<1>15. HistoriesArePaired'
  BY <1>14 DEF HistoriesArePaired
<1>16. CountsFit'
  <2> SUFFICES ASSUME NEW a \in Addresses
               PROVE  Len(store'.msgs[a]) + 2 * m <= 2 * turns
    BY <1>6, <1>9 DEF CountsFit
  <2>1. PICK x, y : x = Len(store'.msgs[a]) /\ y = Len(u.msgs[a])
    OBVIOUS
  <2>2. store'.msgs[a] \in Seq(Messages)
    BY <1>8, StoreFields
  <2>3. x \in Nat /\ y \in Nat /\ x <= y /\ y + 2 * m <= 2 * turns
    BY <1>11, <1>14, <2>1, <2>2, LenProperties
  <2>4. x + 2 * m <= 2 * turns
    BY <1>7, <1>10, <2>3
  <2> QED BY <2>1, <2>4
<1>17. SessionKeepsId'
  <2> SUFFICES ASSUME NEW d \in Clients, NEW k \in DOMAIN store'.sessions,
                      Running(d)', store'.sessions[k].object = turn'[d].session
               PROVE  store'.sessions[k].id = turn'[d].id
    BY DEF SessionKeepsId
  <2>1. turn'[d] = turn[d] /\ Running(d)
    BY <1>6, <1>7, TurnMoves, IdleState DEF Running
  <2>2. PICK i \in DOMAIN u.sessions : store'.sessions[k] = u.sessions[i]
    BY <1>8 DEF OnlyLess
  <2>3. PICK j \in DOMAIN t.sessions : u.sessions[i] = t.sessions[j]
    BY <1>3
  <2> QED BY <1>3, <2>1, <2>2, <2>3, LookedUpKeepsIds
<1>18. AgentsFollow'
  BY <1>6, <1>7, IdleState, OthersFollow DEF IInv
<1> QED BY <1>13, <1>15, <1>16, <1>17, <1>18 DEF IInv

LEMMA StutterKeepsIInv ==
  ASSUME IInv, UNCHANGED vars
  PROVE  IInv'
<1>1. TypeOK' /\ HistoriesArePaired'
  BY DEF vars, IInv, TypeOK, HistoriesArePaired, Running
<1>2. CountsFit'
  BY DEF vars, IInv, CountsFit, RunningClients, Running
<1>3. SessionKeepsId' /\ AgentsFollow'
  BY DEF vars, IInv, SessionKeepsId, AgentsFollow, Running
<1> QED BY <1>1, <1>2, <1>3 DEF IInv

LEMMA NextKeepsIInv == IInv /\ [Next]_vars => IInv'
<1> SUFFICES ASSUME IInv, [Next]_vars PROVE IInv'
  OBVIOUS
<1>1. ASSUME NEW c \in Clients, NEW id \in SessionIds, NEW query \in Queries, Begin(c, id, query)
      PROVE  IInv'
  BY <1>1, BeginKeepsIInv
<1>2. ASSUME NEW c \in Clients, NEW reply \in Replies, Classify(c, reply) PROVE IInv'
  BY <1>2, ClassifyKeepsIInv
<1>3. ASSUME NEW c \in Clients, NEW reply \in Replies, RouteMissing(c, reply) PROVE IInv'
  BY <1>3, RouteMissingKeepsIInv
<1>4. ASSUME NEW c \in Clients, NEW outcome \in Outcomes, CallTool(c, outcome) PROVE IInv'
  BY <1>4, CallToolKeepsIInv
<1>5. ASSUME NEW c \in Clients, Answer(c) PROVE IInv'
  BY <1>5, AnswerKeepsIInv
<1>6. ASSUME NEW c \in Clients, Cancel(c) PROVE IInv'
  BY <1>6, CancelKeepsIInv
<1>7. CASE SessionExpires
  BY <1>7, ExpiryKeepsIInv
<1>8. CASE UNCHANGED vars
  BY <1>8, StutterKeepsIInv
<1> QED BY <1>1, <1>2, <1>3, <1>4, <1>5, <1>6, <1>7, <1>8 DEF Next

LEMMA IInvHolds == Spec => []IInv
<1>1. Init => IInv
  BY InitIInv
<1>2. IInv /\ [Next]_vars => IInv'
  BY NextKeepsIInv
<1> QED BY <1>1, <1>2, PTL DEF Spec

\* The invariant of the run: the store keeps its bound and its entries apart, and
\* every history in it is a sequence of whole turns (chat.py, session_store.py).
THEOREM TurnsHold == Spec => []TurnsAreSound
<1>1. ASSUME IInv PROVE TurnsAreSound
  <2> SUFFICES ASSUME NEW o \in InUse(store), NEW h, h = store.msgs[o]
               PROVE  /\ Len(h) % 2 = 0
                      /\ \A k \in 1..(Len(h) \div 2) :
                           /\ h[2 * k - 1].role = "user"
                           /\ h[2 * k] = [turn |-> h[2 * k - 1].turn, role |-> "assistant"]
    BY <1>1 DEF IInv, TurnsAreSound, TurnsArePaired
  <2>1. o \in Addresses
    <3>1. PICK k \in DOMAIN store.sessions : o = store.sessions[k].object
      BY DEF InUse
    <3>2. store.sessions \in Seq(Entries) /\ DOMAIN store.sessions = 1..Len(store.sessions)
      BY <1>1, StoreFields DEF IInv, TypeOK, IsStore
    <3>3. store.sessions[k] \in Entries
      BY <3>1, <3>2, ElementOfSeq
    <3> QED BY <3>1, <3>3 DEF Entries
  <2>2. Paired(h)
    BY <1>1, <2>1 DEF IInv, HistoriesArePaired
  <2>3. PICK m \in Nat :
          /\ Len(h) = 2 * m
          /\ \A k \in 1..m : /\ h[2 * k - 1].role = "user"
                             /\ h[2 * k] = [turn |-> h[2 * k - 1].turn, role |-> "assistant"]
    BY <2>2 DEF Paired
  <2>4. (2 * m) % 2 = 0 /\ (2 * m) \div 2 = m
    OBVIOUS
  <2> QED BY <2>3, <2>4
<1> QED BY <1>1, IInvHolds, PTL

-----------------------------------------------------------------------------
(* What a response says.                                                   *)

\* A 200 is sent by the handler that answers, and by no other step.
LEMMA OnlyTheHandlerAnswers ==
  ASSUME TypeOK, Next, NEW c \in Clients, Answers(c)
  PROVE  Answer(c)
<1>1. Running(c) /\ ~Running(c)' /\ \E k \in DOMAIN sent' : sent'[k].status = 200
  BY DEF Answers
<1>2. sent' # <<>>
  BY <1>1
<1>3. ASSUME NEW d \in Clients, NEW reply \in Replies, RouteMissing(d, reply) PROVE FALSE
  <2>1. PICK r : r = [status |-> 500]
    OBVIOUS
  <2>2. sent' = <<r>> /\ r.status = 500
    BY <1>3, <2>1 DEF RouteMissing
  <2> QED BY <1>1, <2>2
<1>4. ASSUME NEW d \in Clients, Answer(d) PROVE d = c
  <2>1. turn' = [turn EXCEPT ![d] = Idle]
    BY <1>4 DEF Answer
  <2> QED BY <1>1, <2>1, IdleState, TurnMoves DEF Running
<1> QED BY <1>2, <1>3, <1>4 DEF Next, Begin, Classify, CallTool, Cancel, SessionExpires

LEMMA ResponseSent ==
  ASSUME NEW c, Answer(c)
  PROVE  /\ sent'[1].tools_used = ToolsUsed(turn[c])
         /\ sent'[1].message_count = MessageCount(turn[c])
<1>1. PICK r : r = [status |-> 200, tools_used |-> ToolsUsed(turn[c]),
                    message_count |-> MessageCount(turn[c])]
  OBVIOUS
<1>2. sent' = <<r>>
  BY <1>1 DEF Answer
<1> QED BY <1>1, <1>2

\* No task is a tool.
LEMMA TasksAreNoTools == Tools \cap Range(OpsTasks) = {}
<1> DEFINE all == {"analytics_service", "inventory_service", "rag_retrieval", "order_lookup",
                   "customer_lookup", "document_retrieval", "product_prices", "discount_analysis",
                   "pricing_recommendations", "supplier_list", "replenishment_check",
                   "purchase_orders"}
<1>1. ASSUME NEW a \in DOMAIN ToolsOf PROVE Range(ToolsOf[a]) \subseteq all
  <2>1. a \in {"analytical", "cx", "internal_ops", "general", "pricing", "supply_chain"}
    BY DEF ToolsOf
  <2>2. CASE a = "analytical"
    BY <2>2 DEF ToolsOf, Range
  <2>3. CASE a = "cx"
    BY <2>3 DEF ToolsOf, Range
  <2>4. CASE a = "internal_ops"
    BY <2>4 DEF ToolsOf, Range
  <2>5. CASE a = "general"
    BY <2>5 DEF ToolsOf, Range
  <2>6. CASE a = "pricing"
    BY <2>6 DEF ToolsOf, Range
  <2>7. CASE a = "supply_chain"
    BY <2>7 DEF ToolsOf, Range
  <2> QED BY <2>1, <2>2, <2>3, <2>4, <2>5, <2>6, <2>7
<1>2. Tools \subseteq all
  BY <1>1 DEF Tools
<1>3. \A x \in Range(OpsTasks) : x \notin all
  BY DEF OpsTasks, Range
<1> QED BY <1>2, <1>3

\* The tools of the calls with such an outcome.
MadeBy(t, outcomes) == {k.tool : k \in {j \in Range(t.calls) : j.outcome \in outcomes}}

LEMMA UsedAreMade ==
  ASSUME NEW t, t.calls \in Seq(Calls)
  PROVE  /\ MadeBy(t, {"data"}) \subseteq ToolsUsed(t) \cap Tools
         /\ ToolsUsed(t) \cap Tools \subseteq MadeBy(t, {"data", "nothing"})
         /\ MadeBy(t, Outcomes) = Called(t)
<1>1. \A k \in Range(t.calls) : k \in Calls
  BY RangeOfSeq
<1>2. \A k \in Range(t.calls) : k.tool \in Tools /\ k.outcome \in Outcomes
  BY <1>1 DEF Calls
<1>3. TaskChosen(t.agent, t.query) \cap Tools = {}
  <2>1. TaskChosen(t.agent, t.query) \subseteq Range(OpsTasks)
    BY DEF TaskChosen, Range
  <2> QED BY <2>1, TasksAreNoTools
<1>4. ASSUME NEW x \in MadeBy(t, {"data"}) PROVE x \in ToolsUsed(t) \cap Tools
  <2>1. PICK k \in Range(t.calls) : k.outcome = "data" /\ x = k.tool
    BY DEF MadeBy
  <2>2. Listed(k.tool, k.outcome)
    BY <2>1 DEF Listed
  <2> QED BY <1>2, <2>1, <2>2 DEF ToolsUsed
<1>5. ASSUME NEW x \in ToolsUsed(t) \cap Tools PROVE x \in MadeBy(t, {"data", "nothing"})
  <2>1. PICK k \in Range(t.calls) : Listed(k.tool, k.outcome) /\ x = k.tool
    BY <1>3 DEF ToolsUsed
  <2> QED BY <2>1 DEF Listed, MadeBy
<1>6. MadeBy(t, Outcomes) = Called(t)
  BY <1>2 DEF MadeBy, Called
<1> QED BY <1>4, <1>5, <1>6

\* What the property says of one turn that is answered.
Honest(t, used) ==
  LET Made(outcomes) == {k.tool : k \in {j \in Range(t.calls) : j.outcome \in outcomes}}
      listed == used \cap Tools
      wanted == ToolsFor(t.agent, t.query)
  IN /\ Made({"data"}) \subseteq listed
     /\ listed \subseteq Made({"data", "nothing"})
     /\ \/ Made(Outcomes) = ToolsAt(t.agent, wanted)
        \/ /\ t.agent \in OneTry
           /\ t.calls # <<>> /\ t.calls[Len(t.calls)].outcome = "error"
           /\ \E last \in wanted :
                Made(Outcomes) = ToolsAt(t.agent, {k \in wanted : k <= last})
     /\ t.agent \in OneTry =>
          \A k \in DOMAIN t.calls : t.calls[k].outcome = "error" => k = Len(t.calls)

LEMMA AnsweredIsHonest ==
  ASSUME NEW t, t.calls \in Seq(Calls), t.left = {}, CallsFollow(t)
  PROVE  Honest(t, ToolsUsed(t))
<1>1. PICK wanted : wanted = ToolsFor(t.agent, t.query)
  OBVIOUS
<1>2. /\ MadeBy(t, {"data"}) \subseteq ToolsUsed(t) \cap Tools
      /\ ToolsUsed(t) \cap Tools \subseteq MadeBy(t, {"data", "nothing"})
      /\ MadeBy(t, Outcomes) = Called(t)
  BY UsedAreMade
<1>3. \/ Called(t) = ToolsAt(t.agent, wanted)
      \/ /\ t.agent \in OneTry
         /\ t.calls # <<>> /\ t.calls[Len(t.calls)].outcome = "error"
         /\ \E last \in wanted : Called(t) = ToolsAt(t.agent, {k \in wanted : k <= last})
  <2>1. wanted \ t.left = wanted
    OBVIOUS
  <2> QED BY <1>1, <2>1 DEF CallsFollow
<1>4. t.agent \in OneTry =>
        \A k \in DOMAIN t.calls : t.calls[k].outcome = "error" => k = Len(t.calls)
  BY DEF CallsFollow, NoError
<1> QED BY <1>1, <1>2, <1>3, <1>4 DEF Honest, MadeBy

\* However services fail and turns are cut short, tools_used says which tools
\* were called and did not fail, and failures hide what they have to (agents/nodes).
THEOREM ToolsUsedHonest == Spec => ToolsUsedIsHonest
<1>1. ASSUME IInv, [Next]_vars
      PROVE  [\A c \in Clients : Answers(c) => Honest(turn[c], sent'[1].tools_used)]_vars
  <2> SUFFICES ASSUME Next, NEW c \in Clients, Answers(c)
               PROVE  Honest(turn[c], sent'[1].tools_used)
    BY <1>1
  <2>1. Answer(c)
    BY <1>1, OnlyTheHandlerAnswers DEF IInv
  <2>2. sent'[1].tools_used = ToolsUsed(turn[c])
    BY <2>1, ResponseSent
  <2>3. turn[c] \in TurnStates /\ turn[c].at = "agent" /\ turn[c].left = {} /\ CallsFollow(turn[c])
    BY <1>1, <2>1 DEF IInv, TypeOK, AgentsFollow, Answer
  <2>4. turn[c].calls \in Seq(Calls)
    BY <2>3, AgentFields
  <2> QED BY <2>2, <2>3, <2>4, AnsweredIsHonest
<1>2. Spec => [][\A c \in Clients : Answers(c) => Honest(turn[c], sent'[1].tools_used)]_vars
  BY <1>1, IInvHolds, PTL DEF Spec
<1> QED BY <1>2 DEF ToolsUsedIsHonest, Honest

\* As long as the session is stored, message_count is its count, with the two new
\* messages, whatever other turns did to the session and the store (chat.py).
THEOREM CountsHold == Spec => CountIsOfTheSession
<1> DEFINE Counted(c) ==
      /\ sent'[1].message_count = Len(store'.msgs[turn[c].session])
      /\ sent'[1].message_count >= Len(store.msgs[turn[c].session]) + 2
<1>1. ASSUME IInv, [Next]_vars
      PROVE  [\A c \in Clients : Answers(c) /\ turn[c].session \in InUse(store') => Counted(c)]_vars
  <2> SUFFICES ASSUME Next, NEW c \in Clients, Answers(c), turn[c].session \in InUse(store')
               PROVE  Counted(c)
    BY <1>1
  <2>1. Answer(c)
    BY <1>1, OnlyTheHandlerAnswers DEF IInv
  <2>2. PICK w, o, id, t, u : /\ w = turn[c] /\ o = w.session /\ id = w.id /\ u = After(w)
                              /\ Ending(c, id, t, u)
    BY DEF Ending
  <2>3. w \in TurnStates /\ w.at = "agent" /\ Running(c)
    BY <1>1, <2>1, <2>2 DEF IInv, TypeOK, Answer, Running
  <2>4. w.n \in 1..MaxTurns /\ o \in Addresses
    BY <2>2, <2>3, RunningFields
  <2>5. id \in SessionIds /\ LookedUp(store, t, id, Fresh) /\ Added(t, id, NewMessages(w), u)
    BY <1>1, <2>2, <2>3, AfterTurn
  <2>6. IsStore(u) /\ IsStore(t) /\ IsStore(store) /\ id \in Stored(t)
    BY <1>1, <2>5 DEF LookedUp, Added, IInv, TypeOK, IsStore
  <2>7. store' = Collected(u, HeldBy(Clients \ {c}))
    BY <2>1, <2>2 DEF Answer
  <2>8. /\ store'.sessions = u.sessions
        /\ store'.msgs[o] = IF o \in HeldBy(Clients \ {c}) \cup InUse(u) THEN u.msgs[o] ELSE <<>>
    BY <2>4, <2>6, <2>7, CollectedStore
  <2>9. PICK i \in DOMAIN u.sessions : u.sessions[i].object = o
    BY <2>2, <2>8 DEF InUse
  <2>10. store'.msgs[o] = u.msgs[o]
    BY <2>8, <2>9 DEF InUse
  <2>11. PICK j \in DOMAIN t.sessions : t.sessions[j].object = o
    BY <2>5, <2>9 DEF Added
  <2>12. t.sessions[j].id = id
    BY <1>1, <2>2, <2>3, <2>5, <2>11, LookedUpKeepsIds
  <2>13. EntryOf(t, id).object = o
    BY <2>6, <2>11, <2>12, OnlyEntry
  <2>14. u.msgs[o] = t.msgs[o] \o NewMessages(w)
    BY <2>4, <2>5, <2>13 DEF Added
  <2>15. t.msgs[o] = store.msgs[o]
    <3>1. o \in HeldBy(Clients)
      BY <2>2, <2>3 DEF HeldBy
    <3>2. o # Fresh
      BY <1>1, <3>1, FreshIsFree DEF IInv
    <3> QED BY <2>4, <2>5, <3>2 DEF LookedUp
  <2>16. Len(u.msgs[o]) = Len(store.msgs[o]) + 2 /\ Len(store.msgs[o]) \in Nat
    <3>1. store.msgs[o] \in Seq(Messages) /\ Paired(store.msgs[o])
      BY <1>1, <2>4, <2>6, StoreFields DEF IInv, HistoriesArePaired
    <3> QED BY <2>4, <2>14, <2>15, <3>1, PairedGrows, LenProperties
  <2>17. sent'[1].message_count = Len(u.msgs[o])
    BY <2>1, <2>2, ResponseSent DEF MessageCount
  <2> QED BY <2>2, <2>10, <2>16, <2>17
<1>2. Spec => [][\A c \in Clients :
                   Answers(c) /\ turn[c].session \in InUse(store') => Counted(c)]_vars
  BY <1>1, IInvHolds, PTL DEF Spec
<1> QED BY <1>2 DEF CountIsOfTheSession

-----------------------------------------------------------------------------
(* What becomes of a history.                                              *)

LEMMA EntryIsTyped ==
  ASSUME NEW s, IsStore(s), NEW i \in DOMAIN s.sessions
  PROVE  /\ s.sessions[i] \in Entries
         /\ s.sessions[i].object \in Addresses /\ s.sessions[i].object \in InUse(s)
<1>1. s.sessions \in Seq(Entries) /\ DOMAIN s.sessions = 1..Len(s.sessions)
  BY StoreFields
<1>2. s.sessions[i] \in Entries
  BY <1>1, ElementOfSeq
<1> QED BY <1>2 DEF Entries, InUse

\* Collecting leaves the stored sessions alone.
LEMMA CollectedKeeps ==
  ASSUME NEW s, IsStore(s), NEW held, NEW i \in DOMAIN s.sessions, NEW v, v = Collected(s, held)
  PROVE  /\ s.sessions[i] \in Range(v.sessions)
         /\ v.msgs[s.sessions[i].object] = s.msgs[s.sessions[i].object]
<1>1. PICK o : o = s.sessions[i].object
  OBVIOUS
<1>2. o \in Addresses /\ o \in InUse(s)
  BY <1>1, EntryIsTyped
<1>3. /\ v.sessions = s.sessions
      /\ v.msgs[o] = IF o \in held \cup InUse(s) THEN s.msgs[o] ELSE <<>>
  BY <1>2, CollectedStore
<1> QED BY <1>1, <1>2, <1>3 DEF Range

\* A session that is not expired outlives a look-up, or was the first of a full
\* store.
LEMMA LookedUpKeeps ==
  ASSUME IInv, NEW id \in SessionIds, NEW t, LookedUp(store, t, id, Fresh),
         NEW j \in (store.expired + 1)..Len(store.sessions)
  PROVE  /\ t.msgs[store.sessions[j].object] = store.msgs[store.sessions[j].object]
         /\ \/ \E k \in DOMAIN t.sessions : t.sessions[k] = store.sessions[j]
            \/ j = store.expired + 1 /\ Len(store.sessions) - store.expired = MaxSessions
<1>1. PICK o : o = store.sessions[j].object
  OBVIOUS
<1>2. j \in DOMAIN store.sessions /\ IsStore(store)
  BY StoreFields DEF IInv, TypeOK, IsStore
<1>3. o \in Addresses /\ o \in InUse(store)
  BY <1>1, <1>2, EntryIsTyped
<1>4. o # Fresh
  BY <1>3, FreshIsFree DEF IInv
<1>5. t.msgs[o] = store.msgs[o]
  BY <1>3, <1>4 DEF LookedUp
<1> QED BY <1>1, <1>5 DEF LookedUp

\* A session that is expired does not outlive it.
LEMMA LookedUpDrops ==
  ASSUME IInv, NEW id \in SessionIds, NEW t, LookedUp(store, t, id, Fresh),
         NEW k \in 1..store.expired, NEW i \in DOMAIN t.sessions
  PROVE  t.sessions[i].object # store.sessions[k].object
<1>1. IsStore(store) /\ store.expired \in 0..Len(store.sessions) /\ Len(store.sessions) \in Nat
      /\ DOMAIN store.sessions = 1..Len(store.sessions) /\ Distinct(store.sessions)
  BY StoreFields DEF IInv, TypeOK, IsStore
<1>2. k \in DOMAIN store.sessions
  BY <1>1
<1>3. CASE t.sessions[i] = [id |-> id, object |-> Fresh]
  <2>1. store.sessions[k].object \in InUse(store)
    BY <1>1, <1>2, EntryIsTyped
  <2> QED BY <1>3, <2>1, FreshIsFree DEF IInv
<1>4. CASE \E j \in (store.expired + 1)..Len(store.sessions) : t.sessions[i] = store.sessions[j]
  <2>1. PICK j \in (store.expired + 1)..Len(store.sessions) : t.sessions[i] = store.sessions[j]
    BY <1>4
  <2>2. j \in DOMAIN store.sessions /\ j # k
    BY <1>1, <2>1
  <2> QED BY <1>1, <1>2, <2>1, <2>2 DEF Distinct
<1> QED BY <1>3, <1>4 DEF LookedUp

\* An entry is still there, and its history has at most grown.
Kept(e) ==
  /\ e \in Range(store'.sessions)
  /\ IsExtension(store.msgs[e.object], store'.msgs[e.object])

KeptOrEvicted(j) ==
  \/ Kept(store.sessions[j])
  \/ j = store.expired + 1 /\ Len(store.sessions) - store.expired = MaxSessions

LEMMA KeptAsItIs ==
  ASSUME IInv, NEW j \in DOMAIN store.sessions, store.sessions[j] \in Range(store'.sessions),
         store'.msgs[store.sessions[j].object] = store.msgs[store.sessions[j].object]
  PROVE  Kept(store.sessions[j])
<1>1. PICK o : o = store.sessions[j].object
  OBVIOUS
<1>2. o \in Addresses
  BY <1>1, EntryIsTyped DEF IInv, TypeOK, IsStore
<1>3. store.msgs[o] \in Seq(Messages)
  BY <1>2, StoreFields DEF IInv, TypeOK, IsStore
<1> QED BY <1>1, <1>3, ExtensionOfItself DEF Kept

LEMMA BeginKeeps ==
  ASSUME IInv, NEW c \in Clients, NEW id \in SessionIds, NEW query \in Queries, Begin(c, id, query)
  PROVE  /\ \A j \in (store.expired + 1)..Len(store.sessions) : KeptOrEvicted(j)
         /\ \A k \in 1..store.expired :
              /\ store.sessions[k] \notin Range(store'.sessions)
              /\ turn'[c].session # store.sessions[k].object
<1>1. PICK t : t = GetOrCreate(store, id, Fresh)
  OBVIOUS
<1>2. LookedUp(store, t, id, Fresh) /\ IsStore(t) /\ id \in Stored(t)
  BY <1>1, LookedUpInStore DEF LookedUp
<1>3. store' = Collected(t, HeldBy(Clients))
  BY <1>1 DEF Begin
<1>4. store'.sessions = t.sessions
  BY <1>2, <1>3, CollectedStore
<1>5. ASSUME NEW j \in (store.expired + 1)..Len(store.sessions) PROVE KeptOrEvicted(j)
  <2>1. PICK e : e = store.sessions[j]
    OBVIOUS
  <2>2. j \in DOMAIN store.sessions
    BY StoreFields DEF IInv, TypeOK, IsStore
  <2>3. t.msgs[e.object] = store.msgs[e.object]
    BY <1>2, <2>1, LookedUpKeeps
  <2>4. CASE \E k \in DOMAIN t.sessions : t.sessions[k] = e
    <3>1. PICK k \in DOMAIN t.sessions : t.sessions[k] = e
      BY <2>4
    <3>2. e \in Range(store'.sessions) /\ store'.msgs[e.object] = t.msgs[e.object]
      BY <1>2, <1>3, <3>1, CollectedKeeps
    <3> QED BY <2>1, <2>2, <2>3, <3>2, KeptAsItIs DEF KeptOrEvicted
  <2>5. CASE j = store.expired + 1 /\ Len(store.sessions) - store.expired = MaxSessions
    BY <2>5 DEF KeptOrEvicted
  <2> QED BY <1>2, <2>1, <2>4, <2>5, LookedUpKeeps
<1>6. ASSUME NEW k \in 1..store.expired
      PROVE  /\ store.sessions[k] \notin Range(store'.sessions)
             /\ turn'[c].session # store.sessions[k].object
  <2>1. \A i \in DOMAIN t.sessions : t.sessions[i].object # store.sessions[k].object
    BY <1>2, LookedUpDrops
  <2>2. store.sessions[k] \notin Range(store'.sessions)
    BY <1>4, <2>1 DEF Range
  <2>3. turn'[c].session = EntryOf(t, id).object
    BY <1>1 DEF Begin, IInv, TypeOK
  <2>4. EntryOf(t, id).object \in InUse(t)
    BY <1>2, OnlyEntry
  <2> QED BY <2>1, <2>2, <2>3, <2>4 DEF InUse
<1> QED BY <1>5, <1>6

LEMMA AnswerKeeps ==
  ASSUME IInv, NEW c \in Clients, Answer(c)
  PROVE  /\ \A j \in (store.expired + 1)..Len(store.sessions) : KeptOrEvicted(j)
         /\ \A k \in 1..store.expired : store.sessions[k] \notin Range(store'.sessions)
<1>1. PICK w, id, t, u : w = turn[c] /\ id = w.id /\ u = After(w) /\ Ending(c, id, t, u)
  BY DEF Ending
<1>2. w \in TurnStates /\ w.at = "agent"
  BY <1>1 DEF IInv, TypeOK, Answer
<1>3. w.n \in 1..MaxTurns /\ id \in SessionIds
  BY <1>1, <1>2, RunningFields
<1>4. LookedUp(store, t, id, Fresh) /\ Added(t, id, NewMessages(w), u)
  BY <1>1, <1>2, AfterTurn
<1>5. IsStore(t) /\ IsStore(u)
  BY <1>4 DEF LookedUp, Added
<1>6. store' = Collected(u, HeldBy(Clients \ {c}))
  BY <1>1 DEF Answer
<1>7. store'.sessions = u.sessions
  BY <1>5, <1>6, CollectedStore
<1>8. ASSUME NEW j \in (store.expired + 1)..Len(store.sessions) PROVE KeptOrEvicted(j)
  <2>1. PICK e, o : e = store.sessions[j] /\ o = e.object
    OBVIOUS
  <2>2. j \in DOMAIN store.sessions /\ IsStore(store)
    BY StoreFields DEF IInv, TypeOK, IsStore
  <2>3. t.msgs[o] = store.msgs[o]
    BY <1>3, <1>4, <2>1, LookedUpKeeps
  <2>4. o \in Addresses
    BY <2>1, <2>2, EntryIsTyped
  <2>5. CASE \E k \in DOMAIN t.sessions : t.sessions[k] = e
    <3>1. PICK i \in DOMAIN u.sessions : u.sessions[i] = e
      BY <1>4, <2>5 DEF Added
    <3>2. e \in Range(store'.sessions) /\ store'.msgs[o] = u.msgs[o]
      BY SMTT(30), <1>5, <1>6, <2>1, <3>1, CollectedKeeps
    <3>3. store.msgs[o] \in Seq(Messages) /\ Paired(store.msgs[o])
      BY <2>2, <2>4, StoreFields DEF IInv, HistoriesArePaired
    <3>4. u.msgs[o] = store.msgs[o] \o NewMessages(w) \/ u.msgs[o] = store.msgs[o]
      BY <1>4, <2>3, <2>4 DEF Added
    <3>5. IsExtension(store.msgs[o], u.msgs[o])
      BY <1>3, <3>3, <3>4, PairedGrows, ExtensionOfItself
    <3> QED BY <2>1, <3>2, <3>5 DEF KeptOrEvicted, Kept
  <2>6. CASE j = store.expired + 1 /\ Len(store.sessions) - store.expired = MaxSessions
    BY <2>6 DEF KeptOrEvicted
  <2> QED BY <1>3, <1>4, <2>1, <2>5, <2>6, LookedUpKeeps
<1>9. ASSUME NEW k \in 1..store.expired PROVE store.sessions[k] \notin Range(store'.sessions)
  <2>1. \A i \in DOMAIN t.sessions : t.sessions[i].object # store.sessions[k].object
    BY <1>3, <1>4, LookedUpDrops
  <2>2. ASSUME NEW i \in DOMAIN u.sessions PROVE u.sessions[i].object # store.sessions[k].object
    <3>1. PICK h \in DOMAIN t.sessions : u.sessions[i] = t.sessions[h]
      BY <1>4 DEF Added
    <3> QED BY <2>1, <3>1
  <2> QED BY <1>7, <2>2 DEF Range
<1> QED BY <1>8, <1>9

\* The other steps leave stored sessions and their messages alone.
LEMMA OthersKeep ==
  ASSUME IInv, Next, ~\E c \in Clients :
           Answer(c) \/ \E id \in SessionIds, query \in Queries : Begin(c, id, query)
  PROVE  /\ \A j \in DOMAIN store.sessions :
              /\ Kept(store.sessions[j])
              /\ store'.msgs[store.sessions[j].object] = store.msgs[store.sessions[j].object]
         /\ \A c \in Clients : Running(c)' => Running(c)
<1>1. IsStore(store) /\ TypeOK
  BY DEF IInv, TypeOK, IsStore
<1>2. ASSUME NEW j \in DOMAIN store.sessions, UNCHANGED store
      PROVE  /\ store.sessions[j] \in Range(store'.sessions)
             /\ store'.msgs[store.sessions[j].object] = store.msgs[store.sessions[j].object]
  BY <1>2 DEF Range
<1>3. ASSUME NEW j \in DOMAIN store.sessions, NEW c \in Clients, Cancel(c)
      PROVE  /\ store.sessions[j] \in Range(store'.sessions)
             /\ store'.msgs[store.sessions[j].object] = store.msgs[store.sessions[j].object]
  <2>1. store' = Collected(store, HeldBy(Clients \ {c}))
    BY <1>3 DEF Cancel
  <2> QED BY <1>1, <2>1, CollectedKeeps
<1>4. ASSUME NEW j \in DOMAIN store.sessions, SessionExpires
      PROVE  /\ store.sessions[j] \in Range(store'.sessions)
             /\ store'.msgs[store.sessions[j].object] = store.msgs[store.sessions[j].object]
  <2>1. store'.sessions = store.sessions /\ store'.msgs = store.msgs
    BY <1>1, <1>4 DEF SessionExpires, OneMoreExpired, IsStore, StoreType
  <2> QED BY <2>1 DEF Range
<1>5. \/ UNCHANGED store
      \/ \E c \in Clients : Cancel(c)
      \/ SessionExpires
  BY DEF Next, Classify, RouteMissing, CallTool
<1>6. \A c \in Clients : Running(c)' => Running(c)
  <2> SUFFICES ASSUME NEW c \in Clients, Running(c)' PROVE Running(c)
    OBVIOUS
  <2>1. CASE SessionExpires
    BY <2>1 DEF SessionExpires, Running
  <2>2. ASSUME NEW d \in Clients,
               Running(d), \A b \in Clients : b # d => turn'[b] = turn[b]
        PROVE  Running(c)
    BY <2>2 DEF Running
  <2>3. ASSUME NEW d \in Clients,
               \/ \E reply \in Replies : Classify(d, reply) \/ RouteMissing(d, reply)
               \/ \E outcome \in Outcomes : CallTool(d, outcome)
               \/ Cancel(d)
        PROVE  Running(d) /\ \A b \in Clients : b # d => turn'[b] = turn[b]
    BY <1>1, <2>3 DEF TypeOK, Running, Classify, RouteMissing, CallTool, Cancel
  <2> QED BY <2>1, <2>2, <2>3 DEF Next
<1>7. ASSUME NEW j \in DOMAIN store.sessions
      PROVE  /\ store.sessions[j] \in Range(store'.sessions)
             /\ store'.msgs[store.sessions[j].object] = store.msgs[store.sessions[j].object]
  BY <1>2, <1>3, <1>4, <1>5
<1> QED BY <1>6, <1>7, KeptAsItIs

\* Both halves of the property, as facts about one step.
LEMMA StepKeepsHistories ==
  ASSUME IInv, Next
  PROVE  /\ \A j \in (store.expired + 1)..Len(store.sessions) : KeptOrEvicted(j)
         /\ \A k \in 1..store.expired :
              /\ store.sessions[k] \in Range(store'.sessions) =>
                   store'.msgs[store.sessions[k].object] = store.msgs[store.sessions[k].object]
              /\ \A c \in Clients :
                   ~Running(c) /\ Running(c)' => turn'[c].session # store.sessions[k].object
<1>1. DOMAIN store.sessions = 1..Len(store.sessions) /\ store.expired \in 0..Len(store.sessions)
      /\ Len(store.sessions) \in Nat
  BY StoreFields DEF IInv, TypeOK, IsStore
<1>2. ASSUME NEW c \in Clients, NEW id \in SessionIds, NEW query \in Queries, Begin(c, id, query),
             NEW d \in Clients, ~Running(d), Running(d)'
      PROVE  d = c
  BY <1>2 DEF Begin, Running, IInv, TypeOK
<1>3. ASSUME NEW c \in Clients, Answer(c), NEW d \in Clients, Running(d)' PROVE Running(d)
  <2>1. turn' = [turn EXCEPT ![c] = Idle] /\ Running(c)
    BY <1>3 DEF Answer, Running
  <2> QED BY <1>3, <2>1, IdleState, TurnMoves DEF Running, IInv
<1>4. CASE \E c \in Clients, id \in SessionIds, query \in Queries : Begin(c, id, query)
  <2>1. PICK c \in Clients, id \in SessionIds, query \in Queries : Begin(c, id, query)
    BY <1>4
  <2>2. /\ \A j \in (store.expired + 1)..Len(store.sessions) : KeptOrEvicted(j)
        /\ \A k \in 1..store.expired :
             /\ store.sessions[k] \notin Range(store'.sessions)
             /\ turn'[c].session # store.sessions[k].object
    BY <2>1, BeginKeeps
  <2>3. \A d \in Clients : ~Running(d) /\ Running(d)' => d = c
    BY <1>2, <2>1
  <2> QED BY <2>2, <2>3
<1>5. CASE \E c \in Clients : Answer(c)
  <2>1. PICK c \in Clients : Answer(c)
    BY <1>5
  <2>2. /\ \A j \in (store.expired + 1)..Len(store.sessions) : KeptOrEvicted(j)
        /\ \A k \in 1..store.expired : store.sessions[k] \notin Range(store'.sessions)
    BY <2>1, AnswerKeeps
  <2>3. \A d \in Clients : Running(d)' => Running(d)
    BY <1>3, <2>1
  <2> QED BY <2>2, <2>3
<1>6. CASE ~\E c \in Clients :
             Answer(c) \/ \E id \in SessionIds, query \in Queries : Begin(c, id, query)
  <2>1. /\ \A j \in DOMAIN store.sessions :
             /\ Kept(store.sessions[j])
             /\ store'.msgs[store.sessions[j].object] = store.msgs[store.sessions[j].object]
        /\ \A c \in Clients : Running(c)' => Running(c)
    BY <1>6, OthersKeep
  <2>2. \A j \in (store.expired + 1)..Len(store.sessions) : KeptOrEvicted(j)
    BY <1>1, <2>1 DEF KeptOrEvicted
  <2>3. \A k \in 1..store.expired : k \in DOMAIN store.sessions
    BY <1>1
  <2> QED BY <2>1, <2>2, <2>3
<1> QED BY <1>4, <1>5, <1>6

LEMMA LiveEntries ==
  ASSUME IInv, NEW k \in DOMAIN Live
  PROVE  \E j \in (store.expired + 1)..Len(store.sessions) :
           /\ Live[k] = store.sessions[j]
           /\ j = store.expired + 1 => k = 1
           /\ Len(Live) = Len(store.sessions) - store.expired
<1>1. PICK e, l : e = store.expired /\ l = Len(store.sessions)
  OBVIOUS
<1>2. l \in Nat /\ e \in 0..l /\ IsStore(store)
  BY <1>1, StoreFields DEF IInv, TypeOK, IsStore
<1>3. Live = Rest(store, e)
  BY <1>1 DEF Live, Rest
<1>4. /\ Len(Live) = l - e /\ DOMAIN Live = 1..(l - e)
      /\ \A i \in 1..(l - e) : Live[i] = store.sessions[e + i]
  <2>1. e \in 0..Len(store.sessions)
    BY <1>1, <1>2
  <2>2. /\ Len(Rest(store, e)) = Len(store.sessions) - e
        /\ DOMAIN Rest(store, e) = 1..(Len(store.sessions) - e)
        /\ \A i \in 1..(Len(store.sessions) - e) : Rest(store, e)[i] = store.sessions[e + i]
    BY <1>2, <2>1, RestOfSessions
  <2> QED BY <1>1, <1>3, <2>2
<1>5. PICK j : j = e + k
  OBVIOUS
<1>6. j \in (e + 1)..l /\ Live[k] = store.sessions[j] /\ (j = e + 1 => k = 1)
  BY <1>2, <1>4, <1>5
<1> QED BY <1>1, <1>4, <1>6

\* A history is lost only to the limits of the store, and once expired it neither
\* grows nor comes back (session_store.py).
THEOREM HistoriesStay == Spec => HistoriesAreKept
<1> DEFINE LimitsStep ==
      \A k \in DOMAIN Live :
        \/ /\ Live[k] \in Range(store'.sessions)
           /\ IsExtension(store.msgs[Live[k].object], store'.msgs[Live[k].object])
        \/ Len(Live) = MaxSessions /\ k = 1
<1> DEFINE SilentStep ==
      \A k \in 1..store.expired :
        LET old == store.sessions[k] IN
        /\ old \in Range(store'.sessions) => store'.msgs[old.object] = store.msgs[old.object]
        /\ \A c \in Clients : ~Running(c) /\ Running(c)' => turn'[c].session # old.object
<1>1. ASSUME IInv, [Next]_vars PROVE [LimitsStep]_vars
  <2> SUFFICES ASSUME Next, NEW k \in DOMAIN Live
               PROVE  \/ /\ Live[k] \in Range(store'.sessions)
                         /\ IsExtension(store.msgs[Live[k].object], store'.msgs[Live[k].object])
                      \/ Len(Live) = MaxSessions /\ k = 1
    BY <1>1
  <2>1. PICK j \in (store.expired + 1)..Len(store.sessions) :
          /\ Live[k] = store.sessions[j]
          /\ j = store.expired + 1 => k = 1
          /\ Len(Live) = Len(store.sessions) - store.expired
    BY <1>1, LiveEntries
  <2>2. KeptOrEvicted(j)
    BY <1>1, StepKeepsHistories
  <2> QED BY <2>1, <2>2 DEF KeptOrEvicted, Kept
<1>2. ASSUME IInv, [Next]_vars PROVE [SilentStep]_vars
  BY <1>2, StepKeepsHistories
<1>3. Spec => [][LimitsStep]_vars
  <2> HIDE DEF LimitsStep
  <2> QED BY <1>1, IInvHolds, PTL DEF Spec
<1>4. Spec => [][SilentStep]_vars
  <2> HIDE DEF SilentStep
  <2> QED BY <1>2, IInvHolds, PTL DEF Spec
<1> QED BY <1>3, <1>4 DEF HistoriesAreKept, LostOnlyByLimits, ExpiredStaysSilent
=============================================================================
