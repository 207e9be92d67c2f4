-------------------------- MODULE RedisSessionStore --------------------------
(***************************************************************************)
(* src/infrastructure/session/redis_store.py, for one session (sessions    *)
(* share nothing) and the tasks that use it at the same time.              *)
(*                                                                         *)
(* Every Redis command is an await at which other tasks run, and may raise *)
(* before or after Redis has executed it.  A session read from Redis is a  *)
(* dict of the reader's own; a session taken from self._fallback is the    *)
(* very dict kept there, so its changes show at once.  The dicts therefore *)
(* live in a heap.  Messages are numbered in the order in which they are   *)
(* appended.                                                               *)
(***************************************************************************)
EXTENDS Integers, Sequences, FiniteSets

CONSTANTS Users,
          Dicts,        \* addresses of session dicts
          MaxMessages,  \* max_messages
          MaxAdds       \* bound: messages added in one behaviour

ASSUME MaxMessagesAssumption == MaxMessages \in Nat \ {0}
ASSUME MaxAddsAssumption == MaxAdds \in Nat
\* One dict in the fallback and one per task that is under way.
ASSUME DictsAssumption ==
  /\ IsFiniteSet(Users) /\ IsFiniteSet(Dicts)
  /\ Cardinality(Dicts) > Cardinality(Users)

VARIABLES connected, \* self._connected
          redis,     \* the key: <<>> or <<[msgs, live]>>; live until last_active
                     \* is longer ago than the TTL
          fallback,  \* self._fallback: {} or the address of the session
          heap,      \* messages of the dict at an address
          use,      \* what every task awaits
          added,     \* number of messages appended so far
          log,       \* history: messages whose add_message() has ended, since
                     \* the session was last deleted or expired
          overlap,   \* history: a write ran while another task was in a write
          failed     \* history: a command raised

historyVars == <<connected, redis, fallback, heap, use, added, log, overlap, failed>>

MessageNumbers == 1..MaxAdds
Histories == UNION {[1..n -> MessageNumbers] : n \in 0..MaxMessages}
Unused == [op |-> "none"]

\* Addresses that are in use.
Used == fallback \cup {use[p].dict : p \in {q \in Users : use[q].op = "set"}}
FreshDict == CHOOSE d \in Dicts : d \notin Used

\* Tasks that are about to write what they have read, or to delete.
Writing(tasks) ==
  \E p \in tasks : \/ use[p].op \in {"get", "drop"} /\ use[p].adds
                   \/ use[p].op \in {"set", "del"}

HistoryTypes ==
  /\ connected \in BOOLEAN
  /\ redis \in Seq([msgs : Histories, live : BOOLEAN]) /\ Len(redis) <= 1
  /\ fallback \subseteq Dicts /\ Cardinality(fallback) <= 1
  /\ heap \in [Dicts -> Histories]
  /\ use \in [Users -> {Unused} \cup [op : {"get", "drop"}, adds : BOOLEAN]
                 \cup [op : {"set"}, dict : Dicts, msgs : Histories, new : MessageNumbers]
                 \cup [op : {"del"}]]
  /\ added \in 0..MaxAdds
  /\ overlap \in BOOLEAN /\ failed \in BOOLEAN

HistoryInit ==
  /\ connected \in BOOLEAN
  /\ redis = <<>>
  /\ fallback = {}
  /\ heap = [d \in Dicts |-> <<>>]
  /\ use = [p \in Users |-> Unused]
  /\ added = 0
  /\ log = <<>>
  /\ overlap = FALSE
  /\ failed = FALSE

EndUse(p) == use' = [use EXCEPT ![p] = Unused]

-----------------------------------------------------------------------------
(* The part of add_message() between its two awaits.                       *)

\* Seeded faults: the first messages are kept; nothing is trimmed.
FirstMessages(h) == IF Len(h) > MaxMessages THEN SubSeq(h, 1, MaxMessages) ELSE h
Untrimmed(h) == h

Trimmed(h) ==
  IF Len(h) > MaxMessages THEN SubSeq(h, Len(h) - MaxMessages + 1, Len(h)) ELSE h

\* Seeded fault: the new message goes in front.
Prepended(h, m) == <<m>> \o h

Appended(h, m) == Append(h, m)

\* p has the session in dict d of a heap h: get_history() returns it, and
\* add_message() appends, trims and sends SETEX with the dumped session.
UseSession(p, d, h) ==
  IF ~use[p].adds
  THEN heap' = h /\ EndUse(p) /\ UNCHANGED added
  ELSE LET msgs == Trimmed(Appended(h[d], added + 1)) IN
       /\ added < MaxAdds
       /\ added' = added + 1
       /\ heap' = [h EXCEPT ![d] = msgs]
       /\ use' = [use EXCEPT ![p] =
                     [op |-> "set", dict |-> d, msgs |-> msgs, new |-> added + 1]]

\* A session of the task's own.
UseOwn(p, msgs) ==
  UseSession(p, FreshDict, [heap EXCEPT ![FreshDict] = msgs]) /\ UNCHANGED fallback

\* _fallback_get_or_create().
UseFallback(p) ==
  \/ /\ fallback # {}
     /\ \E d \in fallback : UseSession(p, d, heap)
     /\ UNCHANGED fallback
  \/ /\ fallback = {}
     /\ fallback' = {FreshDict}
     /\ UseSession(p, FreshDict, [heap EXCEPT ![FreshDict] = <<>>])

-----------------------------------------------------------------------------
(* get_or_create() with Redis, of get_history() and add_message().         *)

Get(p, adds) ==
  /\ connected
  /\ use[p] = Unused
  /\ adds => added < MaxAdds
  /\ use' = [use EXCEPT ![p] = [op |-> "get", adds |-> adds]]
  /\ overlap' = (overlap \/ (adds /\ Writing(Users)))
  /\ UNCHANGED <<connected, redis, fallback, heap, added, log, failed>>

\* Seeded fault: the age of the session is not looked at.
ServedUntilDropped(entry) == TRUE

Served(entry) == entry.live

GetFinds(p) ==
  /\ use[p].op = "get"
  /\ redis # <<>> /\ Served(redis[1])
  /\ UseOwn(p, redis[1].msgs)
  /\ UNCHANGED <<connected, redis, log, overlap, failed>>

GetFindsNothing(p) ==
  /\ use[p].op = "get"
  /\ redis = <<>>
  /\ UseOwn(p, <<>>)
  /\ UNCHANGED <<connected, redis, log, overlap, failed>>

\* The session is too old: another await deletes it ...
GetFindsExpired(p) ==
  /\ use[p].op = "get"
  /\ redis # <<>> /\ ~Served(redis[1])
  /\ use' = [use EXCEPT ![p].op = "drop"]
  /\ UNCHANGED <<connected, redis, fallback, heap, added, log, overlap, failed>>

\* ... whatever is there by then.
DropKey(p) ==
  /\ use[p].op = "drop"
  /\ redis' = <<>>
  /\ overlap' = (overlap \/ Writing(Users \ {p}) \/ \E i \in DOMAIN redis : redis[i].live)

Drop(p) ==
  /\ DropKey(p)
  /\ UseOwn(p, <<>>)
  /\ UNCHANGED <<connected, log, failed>>

GetFails(p) ==
  /\ use[p].op \in {"get", "drop"}
  /\ DropKey(p) \/ UNCHANGED <<redis, overlap>>
  /\ UseFallback(p)
  /\ failed' = TRUE
  /\ UNCHANGED <<connected, log>>

-----------------------------------------------------------------------------
(* End of add_message().                                                   *)

StoredHistory(p) == <<[msgs |-> use[p].msgs, live |-> TRUE]>>
Acknowledge(p) == log' = Append(log, use[p].new)

SetAnswers(p) ==
  /\ use[p].op = "set"
  /\ redis' = StoredHistory(p)
  /\ Acknowledge(p)
  /\ EndUse(p)
  /\ UNCHANGED <<connected, fallback, heap, added, overlap, failed>>

SetFails(p) ==
  /\ use[p].op = "set"
  /\ redis' \in {redis, StoredHistory(p)}
  /\ fallback' = {use[p].dict}
  /\ Acknowledge(p)
  /\ EndUse(p)
  /\ failed' = TRUE
  /\ UNCHANGED <<connected, heap, added, overlap>>

-----------------------------------------------------------------------------
Delete(p) ==
  /\ connected
  /\ use[p] = Unused
  /\ use' = [use EXCEPT ![p] = [op |-> "del"]]
  /\ overlap' = (overlap \/ Writing(Users))
  /\ UNCHANGED <<connected, redis, fallback, heap, added, log, failed>>

\* The copy in the fallback stays.
DeleteAnswers(p) ==
  /\ use[p].op = "del"
  /\ redis' = <<>>
  /\ log' = <<>>
  /\ EndUse(p)
  /\ UNCHANGED <<connected, fallback, heap, added, overlap, failed>>

DeleteFails(p) ==
  /\ use[p].op = "del"
  /\ redis' \in {redis, <<>>}
  /\ fallback' = {}
  /\ log' = <<>>
  /\ EndUse(p)
  /\ failed' = TRUE
  /\ UNCHANGED <<connected, heap, added, overlap>>

\* Without Redis nothing is awaited: each call is one step on the fallback.
AddLocal ==
  LET d == IF fallback = {} THEN FreshDict ELSE CHOOSE x \in fallback : TRUE
      old == IF fallback = {} THEN <<>> ELSE heap[d] IN
  /\ ~connected
  /\ added < MaxAdds
  /\ added' = added + 1
  /\ fallback' = {d}
  /\ heap' = [heap EXCEPT ![d] = Trimmed(Appended(old, added + 1))]
  /\ log' = Append(log, added + 1)
  /\ UNCHANGED <<connected, redis, use, overlap, failed>>

DeleteLocal ==
  /\ ~connected
  /\ fallback' = {}
  /\ log' = <<>>
  /\ UNCHANGED <<connected, redis, heap, use, added, overlap, failed>>

-----------------------------------------------------------------------------
\* last_active is longer ago than the TTL, and a moment later the key is gone.
Expire ==
  /\ redis # <<>> /\ redis[1].live
  /\ redis' = <<[redis[1] EXCEPT !.live = FALSE]>>
  /\ log' = <<>>
  /\ overlap' = (overlap \/ Writing(Users))
  /\ UNCHANGED <<connected, fallback, heap, use, added, failed>>

RedisDrops ==
  /\ redis # <<>> /\ ~redis[1].live
  /\ redis' = <<>>
  /\ UNCHANGED <<connected, fallback, heap, use, added, log, overlap, failed>>

HistoryNext ==
  \/ \E p \in Users :
       \/ \E adds \in BOOLEAN : Get(p, adds)
       \/ GetFinds(p) \/ GetFindsNothing(p) \/ GetFindsExpired(p) \/ Drop(p) \/ GetFails(p)
       \/ SetAnswers(p) \/ SetFails(p)
       \/ Delete(p) \/ DeleteAnswers(p) \/ DeleteFails(p)
  \/ AddLocal \/ DeleteLocal
  \/ Expire \/ RedisDrops

HistorySpec == HistoryInit /\ [][HistoryNext]_historyVars

-----------------------------------------------------------------------------
(* Properties *)

\* What a call of get_history() that meets no error is answered.
Visible ==
  IF connected
  THEN IF redis # <<>> /\ Served(redis[1]) THEN redis[1].msgs ELSE <<>>
  ELSE IF fallback # {} THEN heap[CHOOSE d \in fallback : TRUE] ELSE <<>>

LastOf(h) == SubSeq(h, IF Len(h) > MaxMessages THEN Len(h) - MaxMessages + 1 ELSE 1, Len(h))

\* As long as writes do not overlap and no command raises, the history is
\* exactly the last max_messages messages that were added since the session
\* was created, deleted or expired.
HistoryIsComplete == ~overlap /\ ~failed => Visible = LastOf(log)

Increasing(h) == \A i, j \in DOMAIN h : i < j => h[i] < h[j]

\* Whatever overlaps or fails, and through every exchange between the fallback
\* and Redis, no history repeats a message or has two out of order.
HistoryInOrder ==
  /\ \A i \in DOMAIN redis : Increasing(redis[i].msgs)
  /\ \A d \in fallback : Increasing(heap[d])
  /\ \A p \in Users : use[p].op = "set" => Increasing(use[p].msgs)

\* Histories keep their bound, and without overlaps and failures their messages
\* (redis_store.py).
HistoriesAreSound == HistoryTypes /\ HistoryIsComplete
==============================================================================
