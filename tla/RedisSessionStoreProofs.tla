----------------------- MODULE RedisSessionStoreProofs -----------------------
(***************************************************************************)
(* Proofs about RedisSessionStore: whatever overlaps or fails, histories   *)
(* stay in order; and while nothing overlaps and nothing fails they lose   *)
(* no message that max_messages leaves room for.                           *)
(***************************************************************************)
EXTENDS RedisSessionStore, FiniteSetTheorems, SequenceTheorems, TLAPS

-----------------------------------------------------------------------------
(* Histories: what append and trim do to them.                             *)

\* No message of h is repeated, out of order or newer than the newest.
Ordered(h, newest) == Increasing(h) /\ \A i \in DOMAIN h : h[i] <= newest

\* The histories of the type are the sequences of at most max_messages.
LEMMA HistoriesAreSequences ==
  /\ \A h \in Histories : h \in Seq(MessageNumbers) /\ Len(h) <= MaxMessages
  /\ \A h \in Seq(MessageNumbers) : Len(h) <= MaxMessages => h \in Histories
<1> USE MaxMessagesAssumption, MaxAddsAssumption
<1>1. ASSUME NEW h \in Histories PROVE h \in Seq(MessageNumbers) /\ Len(h) <= MaxMessages
  <2>1. PICK n \in 0..MaxMessages : h \in [1..n -> MessageNumbers]
    BY <1>1 DEF Histories
  <2> QED BY <2>1
<1>2. ASSUME NEW h \in Seq(MessageNumbers), Len(h) <= MaxMessages PROVE h \in Histories
  <2>1. Len(h) \in 0..MaxMessages /\ h \in [1..Len(h) -> MessageNumbers]
    BY <1>2
  <2> QED BY <2>1 DEF Histories
<1> QED BY <1>1, <1>2

\* Appending and trimming keep the bound of a history.
LEMMA TrimmedIsHistory ==
  ASSUME NEW h \in Histories, NEW m \in MessageNumbers
  PROVE  Trimmed(Appended(h, m)) \in Histories
<1> USE MaxMessagesAssumption
<1>1. h \in Seq(MessageNumbers) /\ Len(h) <= MaxMessages
  BY HistoriesAreSequences
<1>2. PICK g : g = Append(h, m)
  OBVIOUS
<1>3. g \in Seq(MessageNumbers) /\ Len(g) = Len(h) + 1
  BY <1>1, <1>2
<1>4. Trimmed(g) \in Seq(MessageNumbers) /\ Len(Trimmed(g)) <= MaxMessages
  <2>1. CASE Len(g) <= MaxMessages
    BY <1>3, <2>1 DEF Trimmed
  <2>2. CASE Len(g) > MaxMessages
    <3>1. PICK t : t = SubSeq(g, Len(g) - MaxMessages + 1, Len(g))
      OBVIOUS
    <3>2. t \in Seq(MessageNumbers) /\ Len(t) = MaxMessages
      BY <1>3, <2>2, <3>1
    <3> QED BY <2>2, <3>1, <3>2 DEF Trimmed
  <2> QED BY <1>1, <1>3, <2>1, <2>2
<1> QED BY <1>2, <1>4, HistoriesAreSequences DEF Appended

\* A message newer than all others, appended, leaves the history in order.
LEMMA TrimmedIsOrdered ==
  ASSUME NEW h \in Seq(MessageNumbers), NEW n \in Nat, Ordered(h, n), n + 1 \in MessageNumbers
  PROVE  Ordered(Trimmed(Appended(h, n + 1)), n + 1)
<1> USE MaxMessagesAssumption, MaxAddsAssumption
<1>1. PICK g : g = Append(h, n + 1)
  OBVIOUS
<1>2. /\ g \in Seq(MessageNumbers) /\ Len(g) = Len(h) + 1
      /\ \A i \in 1..Len(h) : g[i] = h[i]
      /\ g[Len(h) + 1] = n + 1
  BY <1>1
<1>3. Ordered(g, n + 1)
  <2>1. ASSUME NEW i \in 1..Len(g) PROVE g[i] \in Int /\ g[i] <= n + 1
    <3>1. CASE i = Len(h) + 1
      BY <1>2, <3>1
    <3>2. CASE i # Len(h) + 1
      <4>1. i \in 1..Len(h) /\ g[i] = h[i] /\ h[i] <= n /\ h[i] \in Int
        BY <1>2, <3>2 DEF Ordered, MessageNumbers
      <4> QED BY <4>1
    <3> QED BY <3>1, <3>2
  <2>2. ASSUME NEW i \in 1..Len(g), NEW j \in 1..Len(g), i < j PROVE g[i] < g[j]
    <3>1. i \in 1..Len(h) /\ g[i] = h[i] /\ h[i] \in Int /\ h[i] <= n
      BY SMTT(30), <1>2, <2>2 DEF Ordered, MessageNumbers
    <3>2. CASE j = Len(h) + 1
      BY <1>2, <3>1, <3>2
    <3>3. CASE j # Len(h) + 1
      BY SMTT(30), <1>2, <2>2, <3>1, <3>3 DEF Ordered, Increasing
    <3> QED BY <3>2, <3>3
  <2> QED BY <1>2, <2>1, <2>2 DEF Ordered, Increasing
<1>4. CASE Len(g) <= MaxMessages
  BY <1>1, <1>2, <1>3, <1>4 DEF Trimmed, Appended
<1>5. CASE Len(g) > MaxMessages
  <2>1. PICK t : t = SubSeq(g, Len(g) - MaxMessages + 1, Len(g))
    OBVIOUS
  <2>2. /\ t \in Seq(MessageNumbers) /\ Len(t) = MaxMessages
        /\ \A i \in 1..Len(t) : t[i] = g[Len(g) - MaxMessages + i]
    BY <1>2, <1>5, <2>1
  <2>3. Ordered(t, n + 1)
    <3>1. ASSUME NEW i \in 1..Len(t)
          PROVE  Len(g) - MaxMessages + i \in 1..Len(g)
      BY <1>2, <1>5, <2>2
    <3>2. ASSUME NEW i \in 1..Len(t) PROVE t[i] <= n + 1
      <4>1. PICK k : k = Len(g) - MaxMessages + i
        OBVIOUS
      <4>2. k \in 1..Len(g)
        BY <3>1, <4>1
      <4>3. t[i] = g[k]
        BY <2>2, <4>1
      <4> QED BY <1>2, <1>3, <4>2, <4>3 DEF Ordered
    <3>3. ASSUME NEW i \in 1..Len(t), NEW j \in 1..Len(t), i < j PROVE t[i] < t[j]
      <4>1. PICK k : k = Len(g) - MaxMessages + i
        OBVIOUS
      <4>2. PICK q : q = Len(g) - MaxMessages + j
        OBVIOUS
      <4>3. k < q
        BY <1>2, <2>2, <3>3, <4>1, <4>2
      <4>4. k \in 1..Len(g) /\ q \in 1..Len(g)
        BY <3>1, <4>1, <4>2
      <4>5. t[i] = g[k] /\ t[j] = g[q]
        BY <2>2, <4>1, <4>2
      <4>6. \A u, v \in 1..Len(g) : u < v => g[u] < g[v]
        <5>1. DOMAIN g = 1..Len(g)
          BY <1>2
        <5> QED BY ONLY <1>3, <5>1 DEF Ordered, Increasing
      <4>7. g[k] < g[q]
        BY <4>3, <4>4, <4>6
      <4> QED BY <4>5, <4>7
    <3> QED BY <2>2, <3>2, <3>3 DEF Ordered, Increasing
  <2> QED BY <1>1, <1>5, <2>1, <2>3 DEF Trimmed, Appended
<1> QED BY <1>2, <1>4, <1>5

\* Trimming after each message keeps the same messages as trimming once.
LEMMA TrimmedIsLast ==
  ASSUME NEW l \in Seq(MessageNumbers), NEW m \in MessageNumbers
  PROVE  Trimmed(Appended(LastOf(l), m)) = LastOf(Append(l, m))
<1> USE MaxMessagesAssumption
<1> DEFINE s == LastOf(l)
           a == Append(l, m)
           b == Append(s, m)
<1>1. CASE Len(l) < MaxMessages
  <2>1. s = l
    <3>1. ~(Len(l) > MaxMessages)
      BY <1>1
    <3>2. LastOf(l) = SubSeq(l, 1, Len(l))
      BY <3>1 DEF LastOf
    <3> QED BY <3>2, SubSeqFull
  <2>2. a \in Seq(MessageNumbers) /\ Len(a) = Len(l) + 1
    OBVIOUS
  <2> HIDE DEF a
  <2>3. Trimmed(a) = a /\ LastOf(a) = a
    <3>1. ~(Len(a) > MaxMessages)
      BY <1>1, <2>2
    <3>2. LastOf(a) = SubSeq(a, 1, Len(a)) /\ Trimmed(a) = a
      BY <3>1 DEF LastOf, Trimmed
    <3> QED BY <2>2, <3>2, SubSeqFull
  <2> QED BY <2>1, <2>3 DEF Appended, a
<1>2. CASE Len(l) >= MaxMessages
  <2>1. /\ s \in Seq(MessageNumbers) /\ Len(s) = MaxMessages
        /\ \A i \in 1..MaxMessages : s[i] = l[Len(l) - MaxMessages + i]
    <3>1. CASE Len(l) = MaxMessages
      BY <3>1 DEF LastOf
    <3>2. CASE Len(l) > MaxMessages
      BY <3>2 DEF LastOf
    <3> QED BY <1>2, <3>1, <3>2
  <2> HIDE DEF s
  <2>2. /\ a \in Seq(MessageNumbers) /\ Len(a) = Len(l) + 1 /\ a[Len(l) + 1] = m
        /\ \A i \in 1..Len(l) : a[i] = l[i]
    OBVIOUS
  <2>3. /\ b \in Seq(MessageNumbers) /\ Len(b) = MaxMessages + 1 /\ b[MaxMessages + 1] = m
        /\ \A i \in 1..MaxMessages : b[i] = s[i]
    BY <2>1
  <2> HIDE DEF a, b
  <2>4. PICK x : x = SubSeq(a, Len(a) - MaxMessages + 1, Len(a))
    OBVIOUS
  <2>5. PICK y : y = SubSeq(b, Len(b) - MaxMessages + 1, Len(b))
    OBVIOUS
  <2>6. /\ x \in Seq(MessageNumbers) /\ Len(x) = MaxMessages
        /\ \A i \in 1..MaxMessages : x[i] = a[Len(l) + 1 - MaxMessages + i]
    BY <1>2, <2>2, <2>4
  <2>7. y = SubSeq(b, 2, MaxMessages + 1)
    <3>1. Len(b) - MaxMessages + 1 = 2
      BY <2>3
    <3> QED BY <2>3, <2>5, <3>1
  <2>8. /\ y \in Seq(MessageNumbers) /\ Len(y) = MaxMessages
        /\ \A i \in 1..MaxMessages : y[i] = b[i + 1]
    BY <2>3, <2>7
  <2>9. ASSUME NEW i \in 1..MaxMessages PROVE x[i] = y[i]
    <3>1. CASE i = MaxMessages
      <4>1. Len(l) + 1 - MaxMessages + i = Len(l) + 1
        BY <3>1
      <4>2. y[i] = m
        BY <2>3, <2>8, <3>1
      <4>3. x[i] = a[Len(l) + 1]
        BY <2>6, <4>1
      <4> QED BY <2>2, <4>2, <4>3
    <3>2. CASE i # MaxMessages
      <4>1. PICK j : j = i + 1
        OBVIOUS
      <4>2. PICK k : k = Len(l) - MaxMessages + j
        OBVIOUS
      <4>3. j \in 1..MaxMessages /\ k \in 1..Len(l)
        BY <1>2, <3>2, <4>1, <4>2
      <4>4. y[i] = l[k]
        BY <2>1, <2>3, <2>8, <4>1, <4>2, <4>3
      <4>5. Len(l) + 1 - MaxMessages + i = k
        BY <4>1, <4>2
      <4>6. x[i] = a[k]
        BY <2>6, <4>5
      <4> QED BY <2>2, <4>3, <4>4, <4>6
    <3> QED BY <3>1, <3>2
  <2>10. x = y
    BY <2>6, <2>8, <2>9
  <2>11. LastOf(a) = x
    BY <1>2, <2>2, <2>4 DEF LastOf
  <2>12. Trimmed(b) = y
    BY <2>3, <2>5 DEF Trimmed
  <2> QED BY <2>10, <2>11, <2>12 DEF a, b, s, Appended
<1> QED BY <1>1, <1>2

-----------------------------------------------------------------------------
(* The invariant.                                                          *)

TaskStates ==
  {Unused} \cup [op : {"get", "drop"}, adds : BOOLEAN]
    \cup [op : {"set"}, dict : Dicts, msgs : Histories, new : MessageNumbers]
    \cup [op : {"del"}]

\* Every history, wherever it is kept, is in order, and so is the one that a
\* task has dumped and not yet sent.
OrderKept ==
  /\ \A i \in DOMAIN redis : Ordered(redis[i].msgs, added)
  /\ \A d \in Dicts : Ordered(heap[d], added)
  /\ \A p \in Users : use[p].op = "set" => Ordered(use[p].msgs, added)

\* Without Redis nothing is awaited.
OfflineIsIdle == ~connected => \A p \in Users : use[p] = Unused

OfflineIsUnused == ~connected => redis = <<>>

\* With Redis, only a command that raises puts a session into the fallback.
FallbackIsForFailures == connected /\ ~failed => fallback = {}

Writes(p) ==
  \/ use[p].op \in {"get", "drop"} /\ use[p].adds
  \/ use[p].op \in {"set", "del"}

OneWriter == ~overlap => \A p, q \in Users : Writes(p) /\ Writes(q) => p = q

\* What a lone writer is about to store is the history with its message.
StoresTheNext ==
  ~overlap /\ ~failed =>
    \A p \in Users : use[p].op = "set" => use[p].msgs = LastOf(Append(log, use[p].new))

LogIsTyped == log \in Seq(MessageNumbers)

OrderInv == HistoryTypes /\ OfflineIsIdle /\ OrderKept

IInv ==
  /\ OrderInv
  /\ LogIsTyped
  /\ OfflineIsUnused
  /\ FallbackIsForFailures
  /\ OneWriter
  /\ StoresTheNext
  /\ HistoryIsComplete

-----------------------------------------------------------------------------
(* A dict of a task's own.                                                 *)

\* A task that has not dumped a session yet finds a dict that nobody uses.
LEMMA FreshIsFree ==
  ASSUME HistoryTypes, NEW p \in Users, use[p].op # "set"
  PROVE  FreshDict \in Dicts
<1> USE DictsAssumption
<1> DEFINE senders == {q \in Users : use[q].op = "set"}
           dicts == {use[q].dict : q \in senders}
           f == [q \in senders |-> use[q].dict]
<1>1. IsFiniteSet(Users \ {p}) /\ Cardinality(Users \ {p}) = Cardinality(Users) - 1
      /\ Cardinality(Users) \in Nat
  BY FS_RemoveElement, FS_CardinalityType
<1>2. senders \in SUBSET (Users \ {p})
  OBVIOUS
<1>3. IsFiniteSet(senders) /\ Cardinality(senders) <= Cardinality(Users) - 1
  BY <1>1, <1>2, FS_Subset
<1>4. f \in Surjection(senders, dicts)
  BY DEF Surjection
<1> HIDE DEF f, senders, dicts
<1>5. IsFiniteSet(dicts) /\ Cardinality(dicts) <= Cardinality(senders)
  BY <1>3, <1>4, FS_Surjection
<1>6. IsFiniteSet(fallback) /\ Cardinality(fallback) <= 1
  BY FS_Subset DEF HistoryTypes
<1>7. Used = fallback \cup dicts
  BY DEF Used, dicts, senders
<1>8. /\ Cardinality(senders) \in Nat /\ Cardinality(dicts) \in Nat
      /\ Cardinality(fallback) \in Nat /\ Cardinality(fallback \cap dicts) \in Nat
      /\ Cardinality(Dicts) \in Nat
  BY <1>3, <1>5, <1>6, FS_CardinalityType, FS_Intersection
<1>9. IsFiniteSet(Used) /\ Cardinality(Used) <= Cardinality(Users)
  <2>1. /\ IsFiniteSet(fallback \cup dicts)
        /\ Cardinality(fallback \cup dicts)
             = Cardinality(fallback) + Cardinality(dicts) - Cardinality(fallback \cap dicts)
    BY <1>5, <1>6, FS_Union
  <2> QED BY <1>1, <1>3, <1>5, <1>6, <1>7, <1>8, <2>1
<1>10. \E d \in Dicts : d \notin Used
  <2> SUFFICES ASSUME Dicts \subseteq Used PROVE FALSE
    OBVIOUS
  <2>1. Cardinality(Dicts) <= Cardinality(Used) /\ Cardinality(Used) \in Nat
    BY <1>9, FS_Subset, FS_CardinalityType
  <2> QED BY <1>1, <1>8, <1>9, <2>1
<1> QED BY <1>10 DEF FreshDict

-----------------------------------------------------------------------------
(* The histories stay in order.                                            *)

\* What a newer message is appended to may be measured against it.
LEMMA OrderedBelow ==
  ASSUME NEW h \in Histories, NEW m \in Nat, NEW n \in Nat, m <= n, Ordered(h, m)
  PROVE  Ordered(h, n)
<1>1. h \in Seq(MessageNumbers) /\ \A i \in DOMAIN h : h[i] \in Int
  BY HistoriesAreSequences, MaxAddsAssumption DEF MessageNumbers
<1> QED BY <1>1 DEF Ordered

\* The state of a task about to send a session.
Sending(d, msgs, new) == [op |-> "set", dict |-> d, msgs |-> msgs, new |-> new]

LEMMA SendingState ==
  ASSUME NEW d \in Dicts, NEW h \in Histories, NEW m \in MessageNumbers,
         NEW t, t = Sending(d, h, m)
  PROVE  t \in TaskStates /\ t.op = "set" /\ t.msgs = h /\ t.new = m /\ t.dict = d
  BY DEF Sending, TaskStates

LEMMA IdleState == Unused \in TaskStates /\ Unused.op = "none"
  BY DEF Unused, TaskStates

\* get_history() and the part of add_message() between its awaits keep every
\* history in order and within its bound.
LEMMA UseKeepsOrder ==
  ASSUME HistoryTypes, OrderKept, NEW p \in Users, NEW d \in Dicts,
         NEW h \in [Dicts -> Histories], \A e \in Dicts : Ordered(h[e], added),
         UseSession(p, d, h)
  PROVE  /\ heap' \in [Dicts -> Histories]
         /\ use' \in [Users -> TaskStates]
         /\ added' \in 0..MaxAdds /\ added <= added'
         /\ \A e \in Dicts : Ordered(heap'[e], added')
         /\ \A q \in Users : use'[q].op = "set" => Ordered(use'[q].msgs, added')
<1> USE MaxAddsAssumption
<1>1. added \in Nat /\ use \in [Users -> TaskStates]
  BY DEF HistoryTypes, TaskStates
<1>2. CASE ~use[p].adds
  <2>1. heap' = h /\ use' = [use EXCEPT ![p] = Unused] /\ added' = added
    BY <1>2 DEF UseSession, EndUse
  <2>2. use' \in [Users -> TaskStates]
    BY <1>1, <2>1, IdleState
  <2>3. ASSUME NEW q \in Users, use'[q].op = "set" PROVE Ordered(use'[q].msgs, added')
    <3>1. q # p
      BY <1>1, <2>1, <2>3, IdleState
    <3> QED BY <1>1, <2>1, <2>3, <3>1 DEF OrderKept
  <2> QED BY <1>1, <2>1, <2>2, <2>3 DEF HistoryTypes
<1>3. CASE use[p].adds
  <2>1. PICK msgs : msgs = Trimmed(Appended(h[d], added + 1))
    OBVIOUS
  <2>2. PICK t : t = Sending(d, msgs, added + 1)
    OBVIOUS
  <2>3. /\ added < MaxAdds /\ added' = added + 1
        /\ heap' = [h EXCEPT ![d] = msgs]
        /\ use' = [use EXCEPT ![p] = t]
    BY <1>3, <2>1, <2>2 DEF UseSession, Sending
  <2>4. added + 1 \in MessageNumbers /\ added' \in 0..MaxAdds /\ added <= added'
    BY <1>1, <2>3 DEF MessageNumbers
  <2>5. msgs \in Histories
    BY <2>1, <2>4, TrimmedIsHistory
  <2>6. Ordered(msgs, added')
    BY <1>1, <2>1, <2>3, <2>4, TrimmedIsOrdered, HistoriesAreSequences
  <2>7. t \in TaskStates /\ t.op = "set" /\ t.msgs = msgs
    BY <2>2, <2>4, <2>5, SendingState
  <2>8. ASSUME NEW e \in Dicts PROVE Ordered(heap'[e], added')
    <3>1. CASE e = d
      BY <2>3, <2>6, <3>1
    <3>2. CASE e # d
      <4>1. heap'[e] = h[e] /\ h[e] \in Histories
        BY <2>3, <3>2
      <4> QED BY <1>1, <2>4, <4>1, OrderedBelow
    <3> QED BY <3>1, <3>2
  <2>9. ASSUME NEW q \in Users, use'[q].op = "set" PROVE Ordered(use'[q].msgs, added')
    <3>1. CASE q = p
      BY <1>1, <2>3, <2>6, <2>7, <3>1
    <3>2. CASE q # p
      <4>1. use'[q] = use[q] /\ Ordered(use[q].msgs, added)
        BY <1>1, <2>3, <2>9, <3>2 DEF OrderKept
      <4>2. use[q].msgs \in Histories
        BY <1>1, <2>9, <4>1 DEF TaskStates, Unused
      <4> QED BY <1>1, <2>4, <4>1, <4>2, OrderedBelow
    <3> QED BY <3>1, <3>2
  <2> QED BY <1>1, <2>3, <2>4, <2>5, <2>7, <2>8, <2>9
<1> QED BY <1>2, <1>3

LEMMA InitHasOrder == HistoryInit => OrderInv
<1> SUFFICES ASSUME HistoryInit PROVE OrderInv
  OBVIOUS
<1> USE MaxMessagesAssumption, MaxAddsAssumption
<1>1. <<>> \in Histories /\ Ordered(<<>>, 0)
  <2>1. <<>> \in Seq(MessageNumbers) /\ Len(<<>>) <= MaxMessages /\ DOMAIN <<>> = {}
    OBVIOUS
  <2> QED BY <2>1, HistoriesAreSequences DEF Ordered, Increasing
<1>2. heap = [d \in Dicts |-> <<>>] /\ use = [p \in Users |-> Unused] /\ added = 0
      /\ redis = <<>> /\ fallback = {}
  BY DEF HistoryInit
<1>3. Cardinality(fallback) <= 1
  BY <1>2, FS_EmptySet
<1>4. connected \in BOOLEAN /\ overlap \in BOOLEAN /\ failed \in BOOLEAN
  BY DEF HistoryInit
<1>5. \A p \in Users : use[p] = Unused /\ use[p].op = "none"
  BY <1>2, IdleState
<1>6. HistoryTypes
  BY <1>1, <1>2, <1>3, <1>4, IdleState DEF HistoryTypes, TaskStates
<1>7. OfflineIsIdle
  BY <1>5 DEF OfflineIsIdle
<1>8. OrderKept
  BY <1>1, <1>2, <1>5 DEF OrderKept
<1> QED BY <1>6, <1>7, <1>8 DEF OrderInv

\* What may be stored under the key.
Entry(h, alive) == [msgs |-> h, live |-> alive]
SoundKey(r, n) ==
  /\ r \in Seq([msgs : Histories, live : BOOLEAN]) /\ Len(r) <= 1
  /\ \A i \in DOMAIN r : Ordered(r[i].msgs, n)

LEMMA EmptyKeyIsSound ==
  ASSUME NEW n \in Nat PROVE SoundKey(<<>>, n)
  BY DEF SoundKey

LEMMA EntryIsSound ==
  ASSUME NEW n \in Nat, NEW h \in Histories, NEW alive \in BOOLEAN, Ordered(h, n)
  PROVE  SoundKey(<<Entry(h, alive)>>, n)
<1>1. PICK e : e = Entry(h, alive)
  OBVIOUS
<1>2. e \in [msgs : Histories, live : BOOLEAN] /\ e.msgs = h
  BY <1>1 DEF Entry
<1>3. <<e>> \in Seq([msgs : Histories, live : BOOLEAN]) /\ Len(<<e>>) = 1
      /\ \A i \in DOMAIN <<e>> : <<e>>[i] = e
  BY <1>2
<1> QED BY <1>1, <1>2, <1>3 DEF SoundKey

LEMMA KeyStaysSound ==
  ASSUME NEW r, NEW m \in Nat, NEW n \in Nat, m <= n, SoundKey(r, m)
  PROVE  SoundKey(r, n)
<1>1. ASSUME NEW i \in DOMAIN r PROVE r[i].msgs \in Histories /\ Ordered(r[i].msgs, m)
  <2>1. PICK S : S = [msgs : Histories, live : BOOLEAN]
    OBVIOUS
  <2>2. r \in Seq(S) /\ Ordered(r[i].msgs, m)
    BY <1>1, <2>1 DEF SoundKey
  <2>3. r[i] \in S
    BY <1>1, <2>2
  <2> QED BY <2>1, <2>2, <2>3
<1> QED BY <1>1, OrderedBelow DEF SoundKey

\* The entry of a key that is there.
LEMMA KeyEntry ==
  ASSUME NEW r, NEW n, SoundKey(r, n), r # <<>>
  PROVE  /\ r[1].msgs \in Histories /\ r[1].live \in BOOLEAN /\ Ordered(r[1].msgs, n)
         /\ r = <<r[1]>> /\ r[1] = Entry(r[1].msgs, r[1].live)
         /\ DOMAIN r = {1}
<1>1. Len(r) = 1 /\ DOMAIN r = {1} /\ r[1] \in [msgs : Histories, live : BOOLEAN]
  <2>1. PICK S : S = [msgs : Histories, live : BOOLEAN]
    OBVIOUS
  <2>2. r \in Seq(S) /\ Len(r) <= 1
    BY <2>1 DEF SoundKey
  <2>3. Len(r) = 1 /\ DOMAIN r = {1} /\ r[1] \in S
    <3>1. Len(r) \in Nat \ {0} /\ DOMAIN r = 1..Len(r)
      BY <2>2, EmptySeq, LenProperties
    <3>2. Len(r) = 1
      BY <2>2, <3>1
    <3>3. r[1] \in S
      BY <2>2, <3>2, ElementOfSeq
    <3> QED BY <3>1, <3>2, <3>3
  <2> QED BY <2>1, <2>3
<1>2. r = <<r[1]>>
  <2>1. r \in Seq([msgs : Histories, live : BOOLEAN])
    BY DEF SoundKey
  <2> QED BY <1>1, <2>1
<1> QED BY <1>1, <1>2 DEF SoundKey, Entry

\* The parts of OrderInv that a step has to keep.
LEMMA OrderInvParts ==
  OrderInv <=>
    /\ connected \in BOOLEAN /\ overlap \in BOOLEAN /\ failed \in BOOLEAN
    /\ SoundKey(redis, added)
    /\ fallback \subseteq Dicts /\ Cardinality(fallback) <= 1
    /\ heap \in [Dicts -> Histories]
    /\ use \in [Users -> TaskStates]
    /\ added \in 0..MaxAdds
    /\ OfflineIsIdle
    /\ \A d \in Dicts : Ordered(heap[d], added)
    /\ \A p \in Users : use[p].op = "set" => Ordered(use[p].msgs, added)
  BY DEF OrderInv, HistoryTypes, OrderKept, SoundKey, TaskStates

\* The steps in which a task gets a session and uses it.
LEMMA UsingKeepsOrder ==
  ASSUME OrderInv, NEW p \in Users,
         GetFinds(p) \/ GetFindsNothing(p) \/ Drop(p) \/ GetFails(p)
  PROVE  OrderInv'
<1> USE MaxAddsAssumption, MaxMessagesAssumption
<1> DEFINE Used2 == \E d \in Dicts, h \in [Dicts -> Histories] :
                      (\A e \in Dicts : Ordered(h[e], added)) /\ UseSession(p, d, h)
<1>1. HistoryTypes /\ OrderKept /\ added \in Nat
  BY DEF OrderInv, HistoryTypes
<1>2. use[p].op \in {"get", "drop"} /\ use[p] # Unused /\ connected
  <2>1. use[p].op \in {"get", "drop"}
    BY DEF GetFinds, GetFindsNothing, Drop, DropKey, GetFails
  <2>2. use[p] # Unused
    BY <2>1 DEF Unused
  <2>3. connected \in BOOLEAN
    BY <1>1 DEF HistoryTypes
  <2> QED BY <2>1, <2>2, <2>3 DEF OrderInv, OfflineIsIdle
<1>3. FreshDict \in Dicts
  <2>1. use[p].op # "set"
    BY <1>2
  <2> QED BY <1>1, <2>1, FreshIsFree
<1>4. ASSUME NEW msgs \in Histories, Ordered(msgs, added), UseOwn(p, msgs)
      PROVE  Used2
  <2>1. PICK d : d = FreshDict
    OBVIOUS
  <2>2. PICK h : h = [heap EXCEPT ![d] = msgs]
    OBVIOUS
  <2>3. UseSession(p, d, h) /\ d \in Dicts
    BY <1>3, <1>4, <2>1, <2>2 DEF UseOwn
  <2>4. h \in [Dicts -> Histories] /\ \A e \in Dicts : Ordered(h[e], added)
    BY <1>1, <1>4, <2>2, <2>3 DEF HistoryTypes, OrderKept
  <2> QED BY <2>3, <2>4
<1>5. <<>> \in Histories /\ Ordered(<<>>, added)
  <2>1. <<>> \in Seq(MessageNumbers) /\ Len(<<>>) <= MaxMessages /\ DOMAIN <<>> = {}
    OBVIOUS
  <2> QED BY <2>1, HistoriesAreSequences DEF Ordered, Increasing
<1>6. SoundKey(redis, added)
  BY OrderInvParts
<1>7. Used2
  <2>1. CASE GetFinds(p)
    <3>1. redis # <<>> /\ UseOwn(p, redis[1].msgs)
      BY <2>1 DEF GetFinds
    <3> QED BY <1>4, <1>6, <3>1, KeyEntry
  <2>2. CASE GetFindsNothing(p) \/ Drop(p)
    BY <1>4, <1>5, <2>2 DEF GetFindsNothing, Drop
  <2>3. CASE GetFails(p)
    <3>1. CASE fallback # {}
      <4>1. PICK d \in fallback : UseSession(p, d, heap)
        BY <2>3, <3>1 DEF GetFails, UseFallback
      <4> QED BY <1>1, <4>1 DEF HistoryTypes, OrderKept
    <3>2. CASE fallback = {}
      <4>1. UseSession(p, FreshDict, [heap EXCEPT ![FreshDict] = <<>>])
        BY <2>3, <3>2 DEF GetFails, UseFallback
      <4>2. PICK d : d = FreshDict
        OBVIOUS
      <4>3. PICK h : h = [heap EXCEPT ![d] = <<>>]
        OBVIOUS
      <4>4. UseSession(p, d, h) /\ d \in Dicts
        BY <1>3, <4>1, <4>2, <4>3
      <4>5. h \in [Dicts -> Histories] /\ \A e \in Dicts : Ordered(h[e], added)
        BY <1>1, <1>5, <4>3, <4>4 DEF HistoryTypes, OrderKept
      <4> QED BY <4>4, <4>5
    <3> QED BY <3>1, <3>2
  <2> QED BY <2>1, <2>2, <2>3
<1>8. /\ heap' \in [Dicts -> Histories]
      /\ use' \in [Users -> TaskStates]
      /\ added' \in 0..MaxAdds /\ added <= added'
      /\ \A e \in Dicts : Ordered(heap'[e], added')
      /\ \A q \in Users : use'[q].op = "set" => Ordered(use'[q].msgs, added')
  BY <1>1, <1>7, UseKeepsOrder
<1>9. SoundKey(redis', added')
  <2>1. redis' = redis \/ redis' = <<>>
    BY DEF GetFinds, GetFindsNothing, Drop, DropKey, GetFails
  <2> QED BY <1>1, <1>6, <1>8, <2>1, KeyStaysSound, EmptyKeyIsSound
<1>10. fallback' \subseteq Dicts /\ Cardinality(fallback') <= 1
  <2>1. fallback' = fallback \/ fallback' = {FreshDict}
    BY DEF GetFinds, GetFindsNothing, Drop, GetFails, UseOwn, UseFallback
  <2>2. Cardinality({FreshDict}) = 1 /\ {FreshDict} \subseteq Dicts
    BY <1>3, FS_Singleton
  <2>3. 1 <= 1
    OBVIOUS
  <2> QED BY <1>1, <2>1, <2>2, <2>3 DEF HistoryTypes
<1>11. connected' = connected /\ overlap' \in BOOLEAN /\ failed' \in BOOLEAN
  BY <1>1 DEF HistoryTypes, GetFinds, GetFindsNothing, Drop, DropKey, GetFails
<1>12. OfflineIsIdle' /\ connected' \in BOOLEAN
  BY <1>1, <1>2, <1>11 DEF OfflineIsIdle, HistoryTypes
<1> QED
  <2> HIDE DEF Used2
  <2> QED BY <1>8, <1>9, <1>10, <1>11, <1>12
          DEF OrderInv, HistoryTypes, OrderKept, SoundKey, TaskStates

LEMMA GetState ==
  ASSUME NEW b \in BOOLEAN, NEW o \in {"get", "drop"}, NEW t, t = [op |-> o, adds |-> b]
  PROVE  t \in TaskStates /\ t.op = o
  BY DEF TaskStates

LEMMA DelState ==
  ASSUME NEW t, t = [op |-> "del"]
  PROVE  t \in TaskStates /\ t.op = "del"
  BY DEF TaskStates

\* What a task that has dumped a session carries.
LEMMA SenderState ==
  ASSUME OrderInv, NEW p \in Users, use[p].op = "set"
  PROVE  /\ use[p].msgs \in Histories /\ use[p].new \in MessageNumbers /\ use[p].dict \in Dicts
         /\ Ordered(use[p].msgs, added)
<1>1. use[p] \in TaskStates /\ Ordered(use[p].msgs, added)
  BY OrderInvParts
<1> QED BY <1>1 DEF TaskStates, Unused

\* A reader that has found an expired session.
LEMMA ReaderState ==
  ASSUME OrderInv, NEW p \in Users, use[p].op \in {"get", "drop"},
         NEW t, t = [use[p] EXCEPT !.op = "drop"]
  PROVE  t \in TaskStates /\ t.op = "drop" /\ t.adds = use[p].adds
<1>1. use[p] \in TaskStates
  BY OrderInvParts
<1>2. use[p] \in [op : {"get", "drop"}, adds : BOOLEAN]
  BY <1>1 DEF TaskStates, Unused
<1>3. PICK b \in BOOLEAN, o \in {"get", "drop"} : use[p] = [op |-> o, adds |-> b]
  BY <1>2
<1>4. t = [op |-> "drop", adds |-> b]
  BY <1>3
<1> QED BY <1>3, <1>4 DEF TaskStates

\* A step that changes the state of one task and adds no message.
LEMMA TaskStepKeepsOrder ==
  ASSUME OrderInv, NEW p \in Users, NEW t \in TaskStates, t.op # "set",
         use' = [use EXCEPT ![p] = t], UNCHANGED <<connected, heap, added>>,
         connected \/ t = Unused,
         SoundKey(redis', added),
         fallback' \subseteq Dicts /\ Cardinality(fallback') <= 1,
         overlap' \in BOOLEAN /\ failed' \in BOOLEAN
  PROVE  OrderInv'
<1>1. /\ connected \in BOOLEAN /\ heap \in [Dicts -> Histories] /\ use \in [Users -> TaskStates]
      /\ added \in 0..MaxAdds /\ OfflineIsIdle
      /\ \A d \in Dicts : Ordered(heap[d], added)
      /\ \A q \in Users : use[q].op = "set" => Ordered(use[q].msgs, added)
  BY OrderInvParts
<1>2. use' \in [Users -> TaskStates]
  BY <1>1
<1>3. ASSUME NEW q \in Users, use'[q].op = "set" PROVE Ordered(use'[q].msgs, added)
  BY <1>1, <1>3
<1>4. OfflineIsIdle'
  BY <1>1 DEF OfflineIsIdle
<1> QED BY <1>1, <1>2, <1>3, <1>4 DEF OrderInv, HistoryTypes, OrderKept, SoundKey, TaskStates

LEMMA CommandKeepsOrder ==
  ASSUME OrderInv, NEW p \in Users,
         \/ \E adds \in BOOLEAN : Get(p, adds)
         \/ GetFindsExpired(p) \/ SetAnswers(p) \/ SetFails(p)
         \/ Delete(p) \/ DeleteAnswers(p) \/ DeleteFails(p)
  PROVE  OrderInv'
<1> USE MaxAddsAssumption
<1>1. /\ connected \in BOOLEAN /\ overlap \in BOOLEAN /\ failed \in BOOLEAN
      /\ SoundKey(redis, added) /\ added \in Nat /\ use \in [Users -> TaskStates]
      /\ fallback \subseteq Dicts /\ Cardinality(fallback) <= 1
      /\ OfflineIsIdle
  BY OrderInvParts
<1>2. SoundKey(<<>>, added) /\ {} \subseteq Dicts /\ Cardinality({}) <= 1
  BY <1>1, EmptyKeyIsSound, FS_EmptySet
<1>3. Unused \in TaskStates /\ Unused.op # "set"
  BY IdleState
<1>4. CASE \E adds \in BOOLEAN : Get(p, adds)
  <2>1. PICK adds \in BOOLEAN : Get(p, adds)
    BY <1>4
  <2>2. PICK t : t = [op |-> "get", adds |-> adds]
    OBVIOUS
  <2>3. t \in TaskStates /\ t.op # "set"
    BY <2>2, GetState
  <2>4. use' = [use EXCEPT ![p] = t] /\ connected /\ overlap' \in BOOLEAN
        /\ UNCHANGED <<connected, redis, fallback, heap, added, failed>>
    BY <2>1, <2>2 DEF Get
  <2> QED BY <1>1, <2>3, <2>4, TaskStepKeepsOrder
<1>5. CASE GetFindsExpired(p)
  <2>1. PICK t : t = [use[p] EXCEPT !.op = "drop"]
    OBVIOUS
  <2>2. t \in TaskStates /\ t.op # "set" /\ use[p] # Unused
    BY <1>5, <2>1, ReaderState DEF GetFindsExpired, Unused
  <2>3. use' = [use EXCEPT ![p] = t]
        /\ UNCHANGED <<connected, redis, fallback, heap, added, overlap, failed>>
    BY <1>5, <2>1 DEF GetFindsExpired
  <2>4. connected
    BY <1>1, <2>2 DEF OfflineIsIdle
  <2> QED BY <1>1, <2>2, <2>3, <2>4, TaskStepKeepsOrder
<1>6. CASE SetAnswers(p) \/ SetFails(p)
  <2>1. use[p].op = "set"
    BY <1>6 DEF SetAnswers, SetFails
  <2>2. SoundKey(StoredHistory(p), added)
    <3>1. PICK h : h = use[p].msgs
      OBVIOUS
    <3>2. h \in Histories /\ Ordered(h, added)
      BY <2>1, <3>1, SenderState
    <3> QED BY <1>1, <3>1, <3>2, EntryIsSound DEF StoredHistory, Entry
  <2>3. PICK d : d = use[p].dict
    OBVIOUS
  <2>4. {d} \subseteq Dicts /\ Cardinality({d}) <= 1
    <3>1. Cardinality({d}) = 1 /\ d \in Dicts
      BY <2>1, <2>3, SenderState, FS_Singleton
    <3> QED BY <3>1
  <2>5. /\ use' = [use EXCEPT ![p] = Unused]
        /\ redis' = redis \/ redis' = StoredHistory(p)
        /\ fallback' = fallback \/ fallback' = {d}
        /\ UNCHANGED <<connected, heap, added>> /\ overlap' = overlap /\ failed' \in BOOLEAN
    BY <1>1, <1>6, <2>3 DEF SetAnswers, SetFails, EndUse
  <2> QED BY <1>1, <1>3, <2>2, <2>4, <2>5, TaskStepKeepsOrder
<1>7. CASE Delete(p)
  <2>1. PICK t : t = [op |-> "del"]
    OBVIOUS
  <2>2. t \in TaskStates /\ t.op # "set"
    BY <2>1, DelState
  <2>3. use' = [use EXCEPT ![p] = t] /\ connected /\ overlap' \in BOOLEAN
        /\ UNCHANGED <<connected, redis, fallback, heap, added, failed>>
    BY <1>7, <2>1 DEF Delete
  <2> QED BY <1>1, <2>2, <2>3, TaskStepKeepsOrder
<1>8. CASE DeleteAnswers(p) \/ DeleteFails(p)
  <2>1. /\ use' = [use EXCEPT ![p] = Unused]
        /\ redis' = redis \/ redis' = <<>>
        /\ fallback' = fallback \/ fallback' = {}
        /\ UNCHANGED <<connected, heap, added>> /\ overlap' = overlap /\ failed' \in BOOLEAN
    BY <1>1, <1>8 DEF DeleteAnswers, DeleteFails, EndUse
  <2> QED BY <1>1, <1>2, <1>3, <2>1, TaskStepKeepsOrder
<1> QED BY <1>4, <1>5, <1>6, <1>7, <1>8

\* Without Redis: the tasks are all idle.
LEMMA LocalKeepsOrder ==
  ASSUME OrderInv, AddLocal \/ DeleteLocal
  PROVE  OrderInv'
<1> USE MaxAddsAssumption, MaxMessagesAssumption
<1>1. /\ connected \in BOOLEAN /\ overlap \in BOOLEAN /\ failed \in BOOLEAN
      /\ SoundKey(redis, added) /\ added \in Nat /\ use \in [Users -> TaskStates]
      /\ heap \in [Dicts -> Histories]
      /\ fallback \subseteq Dicts /\ Cardinality(fallback) <= 1
      /\ \A d \in Dicts : Ordered(heap[d], added)
      /\ \A q \in Users : use[q] = Unused
  BY OrderInvParts DEF OfflineIsIdle, AddLocal, DeleteLocal
<1>2. \A q \in Users : use[q].op # "set"
  BY <1>1, IdleState
<1>3. CASE AddLocal
  <2>1. PICK d, old : /\ d = IF fallback = {} THEN FreshDict ELSE CHOOSE x \in fallback : TRUE
                      /\ old = IF fallback = {} THEN <<>> ELSE heap[d]
    OBVIOUS
  <2>2. PICK m : m = Trimmed(Appended(old, added + 1))
    OBVIOUS
  <2>3. /\ added < MaxAdds /\ added' = added + 1 /\ fallback' = {d}
        /\ heap' = [heap EXCEPT ![d] = m]
        /\ UNCHANGED <<connected, redis, use, overlap, failed>>
    BY <1>3, <2>1, <2>2 DEF AddLocal
  <2>4. d \in Dicts
    <3>1. CASE fallback = {}
      <4>1. Used = {}
        BY <1>2, <3>1 DEF Used
      <4>2. Dicts # {}
        BY DictsAssumption, FS_EmptySet, FS_CardinalityType
      <4> QED BY <2>1, <3>1, <4>1, <4>2 DEF FreshDict
    <3>2. CASE fallback # {}
      BY <1>1, <2>1, <3>2
    <3> QED BY <3>1, <3>2
  <2>5. old \in Histories /\ Ordered(old, added)
    <3>1. <<>> \in Seq(MessageNumbers) /\ Len(<<>>) <= MaxMessages /\ DOMAIN <<>> = {}
      OBVIOUS
    <3>2. <<>> \in Histories /\ Ordered(<<>>, added)
      BY <3>1, HistoriesAreSequences DEF Ordered, Increasing
    <3> QED BY <1>1, <2>1, <2>4, <3>2
  <2>6. added + 1 \in MessageNumbers /\ added' \in 0..MaxAdds /\ added <= added'
    BY <1>1, <2>3 DEF MessageNumbers
  <2>7. m \in Histories /\ Ordered(m, added')
    BY <1>1, <2>2, <2>3, <2>5, <2>6, HistoriesAreSequences, TrimmedIsHistory, TrimmedIsOrdered
  <2>8. heap' \in [Dicts -> Histories]
    BY <1>1, <2>3, <2>7
  <2>9. ASSUME NEW e \in Dicts PROVE Ordered(heap'[e], added')
    <3>1. CASE e = d
      BY <1>1, <2>3, <2>4, <2>7, <3>1
    <3>2. CASE e # d
      <4>1. heap'[e] = heap[e] /\ heap[e] \in Histories
        BY <1>1, <2>3, <3>2
      <4> QED BY <1>1, <2>6, <4>1, OrderedBelow
    <3> QED BY <3>1, <3>2
  <2>10. SoundKey(redis', added')
    BY <1>1, <2>3, <2>6, KeyStaysSound
  <2>11. fallback' \subseteq Dicts /\ Cardinality(fallback') <= 1
    <3>1. Cardinality({d}) = 1
      BY FS_Singleton
    <3> QED BY <2>3, <2>4, <3>1
  <2> QED BY <1>1, <1>2, <2>3, <2>6, <2>8, <2>9, <2>10, <2>11
          DEF OrderInv, HistoryTypes, OfflineIsIdle, OrderKept, SoundKey, TaskStates
<1>4. CASE DeleteLocal
  <2>1. fallback' = {} /\ UNCHANGED <<connected, redis, heap, use, added, overlap, failed>>
    BY <1>4 DEF DeleteLocal
  <2>2. Cardinality({}) <= 1
    BY FS_EmptySet
  <2> QED BY <1>1, <1>2, <2>1, <2>2
          DEF OrderInv, HistoryTypes, OfflineIsIdle, OrderKept, SoundKey, TaskStates
<1> QED BY <1>3, <1>4

\* An entry that gets older keeps its messages.
LEMMA EntryAges ==
  ASSUME NEW h, NEW b, NEW c, NEW e, e = Entry(h, b)
  PROVE  [e EXCEPT !.live = c] = Entry(h, c)
  BY DEF Entry

LEMMA TimeKeepsOrder ==
  ASSUME OrderInv, Expire \/ RedisDrops
  PROVE  OrderInv'
<1> USE MaxAddsAssumption
<1>1. /\ connected \in BOOLEAN /\ overlap \in BOOLEAN /\ failed \in BOOLEAN
      /\ SoundKey(redis, added) /\ added \in Nat
  BY OrderInvParts
<1>2. SoundKey(redis', added)
  <2>1. CASE Expire
    <3>1. PICK e, c : e = redis[1] /\ c = FALSE
      OBVIOUS
    <3>2. redis' = <<[e EXCEPT !.live = c]>> /\ redis # <<>> /\ c \in BOOLEAN
      BY <2>1, <3>1 DEF Expire
    <3>3. PICK h, b : h = e.msgs /\ b = e.live
      OBVIOUS
    <3>4. h \in Histories /\ Ordered(h, added) /\ e = Entry(h, b)
      BY <1>1, <3>1, <3>2, <3>3, KeyEntry
    <3>5. [e EXCEPT !.live = c] = Entry(h, c)
      BY <3>4, EntryAges
    <3> QED BY <1>1, <3>2, <3>4, <3>5, EntryIsSound
  <2>2. CASE RedisDrops
    BY <1>1, <2>2, EmptyKeyIsSound DEF RedisDrops
  <2> QED BY <2>1, <2>2
<1>3. UNCHANGED <<connected, fallback, heap, use, added, failed>> /\ overlap' \in BOOLEAN
  BY <1>1 DEF Expire, RedisDrops
<1> QED BY <1>2, <1>3 DEF OrderInv, HistoryTypes, OfflineIsIdle, OrderKept, SoundKey, TaskStates

LEMMA NextKeepsOrder == OrderInv /\ [HistoryNext]_historyVars => OrderInv'
<1> SUFFICES ASSUME OrderInv, [HistoryNext]_historyVars PROVE OrderInv'
  OBVIOUS
<1>1. CASE UNCHANGED historyVars
  BY <1>1 DEF historyVars, OrderInv, HistoryTypes, OfflineIsIdle, OrderKept
<1>2. CASE HistoryNext
  BY <1>2, UsingKeepsOrder, CommandKeepsOrder, LocalKeepsOrder, TimeKeepsOrder DEF HistoryNext
<1> QED BY <1>1, <1>2

\* Whatever overlaps or fails, and however sessions move between Redis and the
\* fallback, no history of redis_store.py repeats a message or has two out of
\* order, for any number of tasks and any max_messages.
THEOREM HistoriesStayInOrder == HistorySpec => []HistoryInOrder
<1>1. OrderInv => HistoryInOrder
  BY DEF OrderInv, HistoryTypes, OrderKept, Ordered, HistoryInOrder
<1> QED BY <1>1, InitHasOrder, NextKeepsOrder, PTL DEF HistorySpec

-----------------------------------------------------------------------------
(* Without overlaps and failures the history is complete.                  *)

LEMMA EmptyLog == <<>> \in Seq(MessageNumbers) /\ LastOf(<<>>) = <<>>
<1>1. ~(0 > MaxMessages) /\ Len(<<>>) = 0
  BY MaxMessagesAssumption
<1>2. LastOf(<<>>) = SubSeq(<<>>, 1, 0)
  BY <1>1 DEF LastOf
<1> QED BY <1>2

\* What a call of get_history() is answered with Redis.
Answer(r) == IF r # <<>> /\ Served(r[1]) THEN r[1].msgs ELSE <<>>

\* The states of the tasks that a step of one of them leaves.
LEMMA TaskChanged ==
  ASSUME use \in [Users -> TaskStates], NEW p \in Users, NEW t, use' = [use EXCEPT ![p] = t]
  PROVE  use'[p] = t /\ \A q \in Users : q # p => use'[q] = use[q]
  OBVIOUS

\* Nobody begins to write.
LEMMA NoNewWriter ==
  ASSUME OneWriter, overlap => overlap', \A q \in Users : Writes(q)' => Writes(q)
  PROVE  OneWriter'
  BY DEF OneWriter

\* p begins to write, alone or as an overlap.
LEMMA NewWriter ==
  ASSUME OneWriter, NEW p \in Users, overlap \/ Writing(Users) => overlap',
         \A q \in Users : q # p => (Writes(q)' => Writes(q))
  PROVE  OneWriter'
<1>1. ASSUME ~overlap' PROVE \A q \in Users : ~Writes(q)
  BY <1>1 DEF Writing, Writes
<1> QED BY <1>1 DEF OneWriter

\* What a task goes on with after it has used a session.
LEMMA UseEffect ==
  ASSUME HistoryTypes, NEW p \in Users, NEW d, NEW h, UseSession(p, d, h)
  PROVE  \E t : /\ use' = [use EXCEPT ![p] = t]
                /\ \/ t = Unused
                   \/ /\ use[p].adds /\ t.op = "set"
                      /\ t.msgs = Trimmed(Appended(h[d], added + 1)) /\ t.new = added + 1
                      /\ added + 1 \in MessageNumbers
<1>1. CASE ~use[p].adds
  BY <1>1 DEF UseSession, EndUse
<1>2. CASE use[p].adds
  <2>1. PICK msgs : msgs = Trimmed(Appended(h[d], added + 1))
    OBVIOUS
  <2>2. PICK m : m = added + 1
    OBVIOUS
  <2>3. PICK t : t = Sending(d, msgs, m)
    OBVIOUS
  <2>4. use' = [use EXCEPT ![p] = t] /\ added < MaxAdds
    BY <1>2, <2>1, <2>2, <2>3 DEF UseSession, Sending
  <2>5. t.op = "set" /\ t.msgs = msgs /\ t.new = m
    BY <2>3 DEF Sending
  <2>6. added + 1 \in MessageNumbers
    BY <2>4, MaxAddsAssumption DEF HistoryTypes, MessageNumbers
  <2> QED BY <1>2, <2>1, <2>2, <2>4, <2>5, <2>6
<1> QED BY <1>1, <1>2

\* The parts of IInv besides the order of the histories.
WritesInv ==
  /\ LogIsTyped
  /\ OfflineIsUnused
  /\ FallbackIsForFailures
  /\ OneWriter
  /\ StoresTheNext
  /\ HistoryIsComplete

LEMMA UsingKeepsWrites ==
  ASSUME IInv, NEW p \in Users,
         GetFinds(p) \/ GetFindsNothing(p) \/ Drop(p) \/ GetFails(p)
  PROVE  WritesInv'
<1>1. HistoryTypes /\ OrderInv /\ use \in [Users -> TaskStates] /\ added \in Nat /\ log \in Seq(MessageNumbers)
  BY OrderInvParts, MaxAddsAssumption DEF IInv, OrderInv, LogIsTyped
<1>2. use[p].op \in {"get", "drop"} /\ use[p] # Unused /\ connected
  <2>1. use[p].op \in {"get", "drop"}
    BY DEF GetFinds, GetFindsNothing, Drop, DropKey, GetFails
  <2>2. use[p] # Unused
    BY <2>1 DEF Unused
  <2> QED BY <1>1, <2>1, <2>2 DEF OrderInv, OfflineIsIdle
<1>3. /\ connected' = connected /\ log' = log
      /\ overlap => overlap'
      /\ failed => failed'
  <2>1. connected' = connected /\ log' = log
    BY DEF GetFinds, GetFindsNothing, Drop, GetFails
  <2>2. failed' = failed \/ failed' = TRUE
    BY DEF GetFinds, GetFindsNothing, Drop, GetFails
  <2>3. DropKey(p) \/ overlap' = overlap
    BY DEF GetFinds, GetFindsNothing, Drop, GetFails
  <2>4. overlap => overlap'
    BY <2>3 DEF DropKey
  <2> QED BY <2>1, <2>2, <2>4
<1>4. LogIsTyped' /\ OfflineIsUnused'
  BY <1>1, <1>2, <1>3 DEF LogIsTyped, OfflineIsUnused
<1>5. \E d, h : UseSession(p, d, h)
  BY DEF GetFinds, GetFindsNothing, Drop, GetFails, UseOwn, UseFallback
<1>6. OneWriter'
  <2>1. PICK t : /\ use' = [use EXCEPT ![p] = t]
                 /\ t = Unused \/ (use[p].adds /\ t.op = "set")
    BY <1>1, <1>5, UseEffect
  <2>2. use'[p] = t /\ \A q \in Users : q # p => use'[q] = use[q]
    BY <1>1, <2>1, TaskChanged
  <2>3. Writes(p)' => Writes(p)
    BY <1>2, <2>1, <2>2 DEF Writes, Unused
  <2>4. ASSUME NEW q \in Users PROVE Writes(q)' => Writes(q)
    BY <2>2, <2>3 DEF Writes
  <2> QED BY <1>3, <2>4, NoNewWriter DEF IInv
<1>7. CASE failed'
  BY <1>4, <1>6, <1>7 DEF WritesInv, FallbackIsForFailures, StoresTheNext, HistoryIsComplete
<1>8. CASE ~failed'
  <2>1. GetFinds(p) \/ GetFindsNothing(p) \/ Drop(p)
    BY <1>8 DEF GetFails
  <2>2. ~failed /\ fallback' = fallback /\ fallback = {}
    BY <1>2, <1>3, <1>8, <2>1
    DEF IInv, FallbackIsForFailures, GetFinds, GetFindsNothing, Drop, UseOwn
  <2>3. FallbackIsForFailures'
    BY <2>2 DEF FallbackIsForFailures
  <2>4. CASE overlap'
    BY <1>4, <1>6, <2>3, <2>4 DEF WritesInv, StoresTheNext, HistoryIsComplete
  <2>5. CASE ~overlap'
    <3>1. Answer(redis) = LastOf(log) /\ ~overlap
      BY <1>2, <1>3, <2>2, <2>5 DEF IInv, HistoryIsComplete, Visible, Answer
    <3>2. \E msgs : UseOwn(p, msgs) /\ msgs = LastOf(log) /\ Answer(redis') = LastOf(log)
      <4>1. CASE GetFinds(p)
        BY <3>1, <4>1 DEF GetFinds, Answer
      <4>2. CASE GetFindsNothing(p)
        BY <3>1, <4>2 DEF GetFindsNothing, Answer
      <4>3. CASE Drop(p)
        <5>1. UseOwn(p, <<>>) /\ redis' = <<>> /\ ~\E i \in DOMAIN redis : redis[i].live
          BY <2>5, <4>3 DEF Drop, DropKey
        <5>2. redis # <<>> => 1 \in DOMAIN redis
          <6>1. SoundKey(redis, added)
            BY <1>1, OrderInvParts
          <6> QED BY <6>1, KeyEntry
        <5>3. Answer(redis) = <<>>
          BY <5>1, <5>2 DEF Answer, Served
        <5> QED BY <3>1, <5>1, <5>3 DEF Answer
      <4> QED BY <2>1, <4>1, <4>2, <4>3
    <3>3. PICK msgs : UseOwn(p, msgs) /\ msgs = LastOf(log) /\ Answer(redis') = LastOf(log)
      BY <3>2
    <3>4. HistoryIsComplete'
      BY <1>2, <1>3, <3>3 DEF HistoryIsComplete, Visible, Answer
    <3>5. PICK d : d = FreshDict
      OBVIOUS
    <3>6. PICK h : h = [heap EXCEPT ![d] = msgs]
      OBVIOUS
    <3>7. UseSession(p, d, h)
      BY <3>3, <3>5, <3>6 DEF UseOwn
    <3>8. d \in Dicts
      <4>1. use[p].op # "set"
        BY <1>2
      <4> QED BY <1>1, <3>5, <4>1, FreshIsFree
    <3>9. h[d] = msgs
      BY <1>1, <3>6, <3>8 DEF HistoryTypes
    <3>10. PICK t : /\ use' = [use EXCEPT ![p] = t]
                    /\ \/ t = Unused
                       \/ /\ t.op = "set"
                          /\ t.msgs = Trimmed(Appended(h[d], added + 1)) /\ t.new = added + 1
                          /\ added + 1 \in MessageNumbers
      BY <1>1, <3>7, UseEffect
    <3>11. use'[p] = t /\ \A q \in Users : q # p => use'[q] = use[q]
      BY <1>1, <3>10, TaskChanged
    <3>12. ASSUME NEW q \in Users, use'[q].op = "set"
           PROVE  use'[q].msgs = LastOf(Append(log, use'[q].new))
      <4>1. CASE q = p
        <5>1. t # Unused
          BY <3>11, <3>12, <4>1, IdleState
        <5>2. t.msgs = LastOf(Append(log, t.new))
          BY <1>1, <3>3, <3>9, <3>10, <5>1, TrimmedIsLast
        <5> QED BY <3>11, <4>1, <5>2
      <4>2. CASE q # p
        BY <2>2, <3>1, <3>11, <3>12, <4>2 DEF IInv, StoresTheNext
      <4> QED BY <4>1, <4>2
    <3>13. StoresTheNext'
      BY <1>3, <3>12 DEF StoresTheNext
    <3> QED BY <1>4, <1>6, <2>3, <3>4, <3>13 DEF WritesInv
  <2> QED BY <2>4, <2>5
<1> QED BY <1>7, <1>8

\* A step of one task that stores nothing and acknowledges nothing.
LEMMA CommandSent ==
  ASSUME IInv, NEW p \in Users, NEW t, use' = [use EXCEPT ![p] = t], t.op # "set",
         UNCHANGED <<connected, redis, fallback, failed, log>>,
         overlap => overlap', OneWriter', connected
  PROVE  WritesInv'
<1>1. use \in [Users -> TaskStates]
  BY OrderInvParts DEF IInv
<1>2. use'[p] = t /\ \A q \in Users : q # p => use'[q] = use[q]
  BY <1>1, TaskChanged
<1>3. StoresTheNext'
  BY <1>2 DEF IInv, StoresTheNext
<1>4. HistoryIsComplete'
  BY DEF IInv, HistoryIsComplete, Visible
<1> QED BY <1>3, <1>4
        DEF IInv, WritesInv, LogIsTyped, OfflineIsUnused, FallbackIsForFailures

\* The end of a write.
LEMMA CommandAnswered ==
  ASSUME IInv, NEW p \in Users, use' = [use EXCEPT ![p] = Unused], Writes(p),
         UNCHANGED <<connected, overlap>>, connected, log' \in Seq(MessageNumbers),
         failed' \/ (UNCHANGED <<fallback, failed>>
                      /\ (~overlap /\ ~failed => Answer(redis') = LastOf(log')))
  PROVE  WritesInv'
<1>1. use \in [Users -> TaskStates]
  BY OrderInvParts DEF IInv
<1>2. use'[p] = Unused /\ \A q \in Users : q # p => use'[q] = use[q]
  BY <1>1, TaskChanged
<1>3. LogIsTyped' /\ OfflineIsUnused'
  BY DEF LogIsTyped, OfflineIsUnused
<1>4. ASSUME NEW q \in Users PROVE Writes(q)' => Writes(q)
  BY <1>2 DEF Writes, Unused
<1>5. OneWriter'
  BY <1>4, NoNewWriter DEF IInv
<1>6. CASE failed'
  BY <1>3, <1>5, <1>6 DEF WritesInv, FallbackIsForFailures, StoresTheNext, HistoryIsComplete
<1>7. CASE ~failed'
  <2>1. FallbackIsForFailures'
    BY <1>7 DEF IInv, FallbackIsForFailures
  <2>2. ASSUME ~overlap', NEW q \in Users PROVE use'[q].op # "set"
    <3>1. CASE q = p
      BY <1>2, <3>1, IdleState
    <3>2. CASE q # p
      BY <1>2, <2>2, <3>2 DEF IInv, OneWriter, Writes
    <3> QED BY <3>1, <3>2
  <2>3. StoresTheNext'
    BY <2>2 DEF StoresTheNext
  <2>4. HistoryIsComplete'
    BY <1>7 DEF HistoryIsComplete, Visible, Answer
  <2> QED BY <1>3, <1>5, <2>1, <2>3, <2>4 DEF WritesInv
<1> QED BY <1>6, <1>7

LEMMA CommandKeepsWrites ==
  ASSUME IInv, NEW p \in Users,
         \/ \E adds \in BOOLEAN : Get(p, adds)
         \/ GetFindsExpired(p) \/ SetAnswers(p) \/ SetFails(p)
         \/ Delete(p) \/ DeleteAnswers(p) \/ DeleteFails(p)
  PROVE  WritesInv'
<1>1. OrderInv /\ use \in [Users -> TaskStates] /\ log \in Seq(MessageNumbers)
  BY OrderInvParts DEF IInv, LogIsTyped
<1>2. use[p] # Unused => connected
  BY DEF IInv, OrderInv, OfflineIsIdle
<1>3. CASE \E adds \in BOOLEAN : Get(p, adds)
  <2>1. PICK adds \in BOOLEAN : Get(p, adds)
    BY <1>3
  <2>2. PICK t : t = [op |-> "get", adds |-> adds]
    OBVIOUS
  <2>3. t.op = "get" /\ t.adds = adds
    BY <2>2
  <2>4. /\ use' = [use EXCEPT ![p] = t] /\ connected
        /\ UNCHANGED <<connected, redis, fallback, failed, log>>
        /\ overlap' = (overlap \/ (adds /\ Writing(Users)))
    BY <2>1, <2>2 DEF Get
  <2>5. use'[p] = t /\ \A q \in Users : q # p => use'[q] = use[q]
    BY <1>1, <2>4, TaskChanged
  <2>6. \A q \in Users : q # p => (Writes(q)' => Writes(q))
    BY <2>5 DEF Writes
  <2>7. OneWriter'
    <3>1. CASE adds
      <4>1. overlap \/ Writing(Users) => overlap'
        BY <2>4, <3>1
      <4> QED BY <2>6, <4>1, NewWriter DEF IInv
    <3>2. CASE ~adds
      <4>1. ~Writes(p)'
        BY <2>3, <2>5, <3>2 DEF Writes
      <4>2. overlap => overlap'
        BY <2>4
      <4> QED BY <2>6, <4>1, <4>2, NoNewWriter DEF IInv
    <3> QED BY <3>1, <3>2
  <2>8. overlap => overlap'
    BY <2>4
  <2> QED BY <2>3, <2>4, <2>7, <2>8, CommandSent
<1>4. CASE GetFindsExpired(p)
  <2>1. PICK t : t = [use[p] EXCEPT !.op = "drop"]
    OBVIOUS
  <2>2. use[p].op = "get" /\ use' = [use EXCEPT ![p] = t]
        /\ UNCHANGED <<connected, redis, fallback, failed, log, overlap>>
    BY <1>4, <2>1 DEF GetFindsExpired
  <2>3. t.op = "drop" /\ t.adds = use[p].adds
    BY <1>1, <2>1, <2>2, ReaderState
  <2>4. use'[p] = t /\ \A q \in Users : q # p => use'[q] = use[q]
    BY <1>1, <2>2, TaskChanged
  <2>5. ASSUME NEW q \in Users PROVE Writes(q)' => Writes(q)
    BY <2>2, <2>3, <2>4 DEF Writes
  <2>6. OneWriter'
    BY <2>2, <2>5, NoNewWriter DEF IInv
  <2>7. connected
    BY <1>2, <2>2 DEF Unused
  <2> QED BY <2>2, <2>3, <2>6, <2>7, CommandSent
<1>5. CASE SetAnswers(p) \/ SetFails(p)
  <2>1. /\ use[p].op = "set" /\ use' = [use EXCEPT ![p] = Unused]
        /\ UNCHANGED <<connected, overlap>> /\ log' = Append(log, use[p].new)
        /\ \/ failed' = TRUE
           \/ redis' = StoredHistory(p) /\ UNCHANGED <<fallback, failed>>
    BY <1>5 DEF SetAnswers, SetFails, EndUse, Acknowledge
  <2>2. connected /\ Writes(p)
    BY <1>2, <2>1 DEF Unused, Writes
  <2>3. log' \in Seq(MessageNumbers)
    BY <1>1, <2>1, SenderState
  <2>4. Answer(StoredHistory(p)) = use[p].msgs
    BY DEF Answer, StoredHistory, Served
  <2>5. ~overlap /\ ~failed => use[p].msgs = LastOf(log')
    BY <2>1 DEF IInv, StoresTheNext
  <2> QED BY <2>1, <2>2, <2>3, <2>4, <2>5, CommandAnswered
<1>6. CASE Delete(p)
  <2>1. PICK t : t = [op |-> "del"]
    OBVIOUS
  <2>2. t.op = "del"
    BY <2>1
  <2>3. /\ use' = [use EXCEPT ![p] = t] /\ connected
        /\ UNCHANGED <<connected, redis, fallback, failed, log>>
        /\ overlap' = (overlap \/ Writing(Users))
    BY <1>6, <2>1 DEF Delete
  <2>4. use'[p] = t /\ \A q \in Users : q # p => use'[q] = use[q]
    BY <1>1, <2>3, TaskChanged
  <2>5. \A q \in Users : q # p => (Writes(q)' => Writes(q))
    BY <2>4 DEF Writes
  <2>6. overlap \/ Writing(Users) => overlap'
    BY <2>3
  <2>7. OneWriter'
    BY <2>5, <2>6, NewWriter DEF IInv
  <2> QED BY <2>2, <2>3, <2>6, <2>7, CommandSent
<1>7. CASE DeleteAnswers(p) \/ DeleteFails(p)
  <2>1. /\ use[p].op = "del" /\ use' = [use EXCEPT ![p] = Unused]
        /\ UNCHANGED <<connected, overlap>> /\ log' = <<>>
        /\ \/ failed' = TRUE
           \/ redis' = <<>> /\ UNCHANGED <<fallback, failed>>
    BY <1>7 DEF DeleteAnswers, DeleteFails, EndUse
  <2>2. connected /\ Writes(p)
    BY <1>2, <2>1 DEF Unused, Writes
  <2>3. Answer(<<>>) = <<>>
    BY DEF Answer
  <2> QED BY <2>1, <2>2, <2>3, EmptyLog, CommandAnswered
<1> QED BY <1>3, <1>4, <1>5, <1>6, <1>7

\* Without Redis each call is one step.
LEMMA LocalKeepsWrites ==
  ASSUME IInv, AddLocal \/ DeleteLocal
  PROVE  WritesInv'
<1> USE MaxAddsAssumption
<1>1. /\ OrderInv /\ log \in Seq(MessageNumbers) /\ added \in Nat /\ ~connected
      /\ UNCHANGED <<connected, redis, use, overlap, failed>>
      /\ \A q \in Users : use[q] = Unused
  BY OrderInvParts DEF IInv, LogIsTyped, OrderInv, OfflineIsIdle, AddLocal, DeleteLocal
<1>2. OfflineIsUnused' /\ FallbackIsForFailures' /\ OneWriter'
  BY <1>1 DEF IInv, OfflineIsUnused, FallbackIsForFailures, OneWriter, Writes
<1>3. StoresTheNext'
  BY <1>1, IdleState DEF StoresTheNext
<1>4. CASE AddLocal
  <2>1. PICK d, old : /\ d = IF fallback = {} THEN FreshDict ELSE CHOOSE x \in fallback : TRUE
                      /\ old = IF fallback = {} THEN <<>> ELSE heap[d]
    OBVIOUS
  <2>2. PICK m : m = Trimmed(Appended(old, added + 1))
    OBVIOUS
  <2>3. /\ added < MaxAdds /\ fallback' = {d}
        /\ heap' = [heap EXCEPT ![d] = m]
        /\ log' = Append(log, added + 1)
    BY <1>4, <2>1, <2>2 DEF AddLocal
  <2>4. added + 1 \in MessageNumbers /\ log' \in Seq(MessageNumbers)
    BY <1>1, <2>3 DEF MessageNumbers
  <2>5. d \in Dicts /\ heap \in [Dicts -> Histories]
    <3>1. OrderInv'
      BY <1>1, <1>4, LocalKeepsOrder
    <3> QED BY <1>1, <2>3, <3>1 DEF OrderInv, HistoryTypes
  <2>6. Visible = old
    BY <1>1, <2>1 DEF Visible
  <2>7. Visible' = m
    <3>1. (CHOOSE x \in fallback' : TRUE) = d
      BY <2>3
    <3> QED BY <1>1, <2>3, <2>5, <3>1 DEF Visible
  <2>8. ~overlap /\ ~failed => m = LastOf(log')
    BY <1>1, <2>2, <2>3, <2>4, <2>6, TrimmedIsLast DEF IInv, HistoryIsComplete
  <2>9. HistoryIsComplete'
    BY <1>1, <2>7, <2>8 DEF HistoryIsComplete
  <2> QED BY <1>2, <1>3, <2>4, <2>9 DEF WritesInv, LogIsTyped
<1>5. CASE DeleteLocal
  <2>1. fallback' = {} /\ log' = <<>>
    BY <1>5 DEF DeleteLocal
  <2>2. HistoryIsComplete'
    BY <1>1, <2>1, EmptyLog DEF HistoryIsComplete, Visible
  <2> QED BY <1>2, <1>3, <2>1, <2>2, EmptyLog DEF WritesInv, LogIsTyped
<1> QED BY <1>1, <1>4, <1>5 DEF AddLocal, DeleteLocal

\* A session expires, and its key goes.
LEMMA TimeKeepsWrites ==
  ASSUME IInv, Expire \/ RedisDrops
  PROVE  WritesInv'
<1>1. /\ SoundKey(redis, added) /\ log \in Seq(MessageNumbers) /\ redis # <<>>
      /\ UNCHANGED <<connected, fallback, use, failed>>
  BY OrderInvParts DEF IInv, LogIsTyped, Expire, RedisDrops
<1>2. connected
  BY <1>1 DEF IInv, OfflineIsUnused
<1>3. overlap => overlap'
  <2>1. Expire => overlap' = (overlap \/ Writing(Users))
    BY DEF Expire
  <2>2. RedisDrops => overlap' = overlap
    BY DEF RedisDrops
  <2> QED BY <2>1, <2>2
<1>4. OfflineIsUnused' /\ FallbackIsForFailures' /\ OneWriter'
  <2>1. \A q \in Users : Writes(q)' => Writes(q)
    BY <1>1 DEF Writes
  <2> QED BY <1>1, <1>2, <1>3, <2>1, NoNewWriter DEF IInv, OfflineIsUnused, FallbackIsForFailures
<1>5. CASE Expire
  <2>1. PICK e, c : e = redis[1] /\ c = FALSE
    OBVIOUS
  <2>2. redis' = <<[e EXCEPT !.live = c]>> /\ log' = <<>>
        /\ overlap' = (overlap \/ Writing(Users))
    BY <1>5, <2>1 DEF Expire
  <2>3. PICK h, b : h = e.msgs /\ b = e.live
    OBVIOUS
  <2>4. redis' = <<Entry(h, c)>>
    BY <1>1, <2>1, <2>2, <2>3, KeyEntry, EntryAges
  <2>5. ~Served(redis'[1])
    BY <2>1, <2>4 DEF Served, Entry
  <2>6. Visible' = <<>>
    BY <1>1, <1>2, <2>5 DEF Visible
  <2>7. StoresTheNext'
    BY <1>1, <2>2 DEF StoresTheNext, Writing
  <2> QED BY <1>4, <2>2, <2>6, <2>7, EmptyLog DEF WritesInv, LogIsTyped, HistoryIsComplete
<1>6. CASE RedisDrops
  <2>1. redis' = <<>> /\ log' = log /\ overlap' = overlap /\ ~redis[1].live
    BY <1>6 DEF RedisDrops
  <2>2. Visible = <<>> /\ Visible' = <<>>
    BY <1>1, <1>2, <2>1 DEF Visible, Served
  <2>3. HistoryIsComplete'
    BY <1>1, <2>1, <2>2 DEF IInv, HistoryIsComplete
  <2>4. StoresTheNext'
    BY <1>1, <2>1 DEF IInv, StoresTheNext
  <2> QED BY <1>1, <1>4, <2>1, <2>3, <2>4 DEF WritesInv, LogIsTyped
<1> QED BY <1>5, <1>6

LEMMA InitIInv == HistoryInit => IInv
<1> SUFFICES ASSUME HistoryInit PROVE IInv
  OBVIOUS
<1>1. /\ redis = <<>> /\ fallback = {} /\ log = <<>> /\ use = [p \in Users |-> Unused]
  BY DEF HistoryInit
<1>2. \A p \in Users : use[p] = Unused /\ use[p].op = "none"
  BY <1>1, IdleState
<1>3. OneWriter /\ StoresTheNext
  BY <1>2 DEF OneWriter, Writes, StoresTheNext
<1>4. Visible = <<>>
  BY <1>1 DEF Visible
<1>5. HistoryIsComplete
  BY <1>1, <1>4, EmptyLog DEF HistoryIsComplete
<1> QED BY <1>1, <1>3, <1>5, EmptyLog, InitHasOrder
        DEF IInv, LogIsTyped, OfflineIsUnused, FallbackIsForFailures

LEMMA NextKeepsIInv == IInv /\ [HistoryNext]_historyVars => IInv'
<1> SUFFICES ASSUME IInv, [HistoryNext]_historyVars PROVE IInv'
  OBVIOUS
<1>1. OrderInv'
  BY NextKeepsOrder DEF IInv
<1>2. WritesInv'
  <2>1. CASE UNCHANGED historyVars
    BY <2>1 DEF historyVars, IInv, WritesInv, LogIsTyped, OfflineIsUnused, FallbackIsForFailures,
       OneWriter, Writes, StoresTheNext, HistoryIsComplete, Visible
  <2>2. CASE HistoryNext
    BY <2>2, UsingKeepsWrites, CommandKeepsWrites, LocalKeepsWrites, TimeKeepsWrites DEF HistoryNext
  <2> QED BY <2>1, <2>2
<1> QED BY <1>1, <1>2 DEF IInv, WritesInv

\* The histories of redis_store.py keep max_messages, and as long as no write
\* overlaps another and no command raises, a reader gets exactly the newest
\* max_messages of what was added, for any number of tasks.
THEOREM HistoriesHold == HistorySpec => []HistoriesAreSound
<1>1. IInv => HistoriesAreSound
  BY DEF IInv, OrderInv, HistoriesAreSound
<1> QED BY <1>1, InitIInv, NextKeepsIInv, PTL DEF HistorySpec
==============================================================================
