----------------------------- MODULE SessionStore -----------------------------
(***************************************************************************)
(* The methods of src/infrastructure/session/session_store.py, as          *)
(* operators on the state of a store.  They run without an await, so each  *)
(* call is a part of one step of the request that makes it.                *)
(*                                                                         *)
(* A store is a record:                                                    *)
(*   sessions  the entries of _sessions, in the order of their last_active, *)
(*             the oldest first: an id and the address of a Session object *)
(*   expired   how many of them, from the front, are older than session_ttl *)
(*   msgs      the messages of the object at an address                    *)
(* Callers keep references to Session objects, so an object may outlive    *)
(* its entry in _sessions.                                                 *)
(***************************************************************************)
EXTENDS Integers, Sequences, SequencesExt, FiniteSets

CONSTANTS SessionIds,
          Addresses,    \* of Session objects
          MaxSessions   \* max_sessions

ASSUME MaxSessionsAssumption == MaxSessions \in Nat \ {0}

EmptyStore ==
  [sessions |-> <<>>, expired |-> 0, msgs |-> [a \in Addresses |-> <<>>]]

Stored(s) == {s.sessions[k].id : k \in DOMAIN s.sessions}
InUse(s) == {s.sessions[k].object : k \in DOMAIN s.sessions}

PlaceOf(s, id) == CHOOSE k \in DOMAIN s.sessions : s.sessions[k].id = id
EntryOf(s, id) == s.sessions[PlaceOf(s, id)]

\* Seeded fault: only sessions that somebody asks for are looked at.
NotCleanedUp(s) == s

CleanedUp(s) ==
  [s EXCEPT !.sessions = SubSeq(@, s.expired + 1, Len(@)), !.expired = 0]

\* Seeded fault: the session that was created or used last goes.
NewestEvicted(sessions) == SubSeq(sessions, 1, Len(sessions) - 1)

OldestEvicted(sessions) == Tail(sessions)

\* Seeded fault: the limit is looked at after the session was added.
RoomMadeLate(sessions) == IF Len(sessions) > MaxSessions THEN OldestEvicted(sessions) ELSE sessions

RoomMade(sessions) == IF Len(sessions) >= MaxSessions THEN OldestEvicted(sessions) ELSE sessions

\* fresh is the address of a new, empty Session.
GetOrCreate(s, id, fresh) ==
  LET clean == CleanedUp(s) IN
  IF id \in Stored(clean) THEN clean
  ELSE [clean EXCEPT !.sessions = Append(RoomMade(@), [id |-> id, object |-> fresh]),
                     !.msgs[fresh] = <<>>]

\* add_message() for each of several messages, with no await in between: the
\* first may create the session, all set last_active.
AddMessages(s, id, messages, fresh) ==
  LET t == GetOrCreate(s, id, fresh)
      entry == EntryOf(t, id)
  IN [t EXCEPT !.msgs[entry.object] = @ \o messages,
               !.sessions = Append(RemoveAt(@, PlaceOf(t, id)), entry)]

\* Of Session objects that neither _sessions nor a caller refers to nothing is
\* left.
Collected(s, held) ==
  [s EXCEPT !.msgs = [a \in Addresses |-> IF a \in held \cup InUse(s) THEN s.msgs[a] ELSE <<>>]]

\* Time passes: of the sessions that are not expired yet, the one that has been
\* inactive for the longest time expires first.
OneMoreExpired(s) == [s EXCEPT !.expired = @ + 1]

Entries == [id : SessionIds, object : Addresses]

\* No two entries have the same id or the same object.
Distinct(sessions) ==
  \A j, k \in DOMAIN sessions : j # k =>
    /\ sessions[j].id # sessions[k].id
    /\ sessions[j].object # sessions[k].object

StoreType(s, messages) ==
  /\ s \in [sessions : Seq(Entries), expired : Nat, msgs : [Addresses -> Seq(messages)]]
  /\ Len(s.sessions) <= MaxSessions
  /\ Distinct(s.sessions)
  /\ s.expired <= Len(s.sessions)
==============================================================================
