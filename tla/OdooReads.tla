----------------------------- MODULE OdooReads -----------------------------
(***************************************************************************)
(* The operations of Reports, run through the one OdooClient of the        *)
(* process (infrastructure/data/odoo_client.py).                           *)
(*                                                                         *)
(* The client blocks on the network, so that nothing else of the process   *)
(* runs while it asks; what interleaves are the waits of its two nested    *)
(* retries, each of three attempts: search_read asks _authenticate, and    *)
(* only then the ERP.  The ERP goes through a given history of tables; it  *)
(* is reachable or not, and takes the password or not, as it likes.        *)
(***************************************************************************)
EXTENDS Reports

CONSTANTS Calls,        \* calls in progress
          Idle,         \* what a call is before it begins
          History,      \* the ERP's tables, one record after the other
          Attempts,     \* attempts of either retry (3 in the code)
          MaxEvents     \* bound on outages and changes of the password

VARIABLES version,      \* index in History
          up,           \* the ERP can be reached
          good,         \* it takes the configured password
          uid,          \* "none", "ok", or "refused": False, which is not None
          events,       \* outages and changes so far
          call          \* what every call has got and how far it is

readVars == <<version, up, good, uid, events, call>>
envVars  == <<version, up, good, events>>

\* A row has a key of its own, and nothing is reserved in the negative.
ASSUME HistoryAssumption ==
    History # <<>> /\ History \in Seq({h \in TablesType : Keyed(h)})
ASSUME ReadsAssumption == /\ Attempts \in Nat \ {0}
                          /\ MaxEvents \in Nat

ERP == History[version]

ReadsInit == /\ version = 1
             /\ up = TRUE
             /\ good \in BOOLEAN
             /\ uid = "none"
             /\ events = 0
             /\ call = [c \in Calls |-> Idle]

\* status is "none" while the call runs, then "ok" or why it failed: "value" is a
\* ValueError, "type" another error of its own, "retry" a RetryError.
Finished(c) == call[c] # Idle /\ call[c].status # "none"
Running(c)  == call[c] # Idle /\ call[c].status = "none"

\* Only a retry lets the others run.
Undisturbed(c) == \A d \in Calls \ {c} : Running(d) => call[d].waits

-----------------------------------------------------------------------------

\* The call as it is after its rows got, without a suspension: it fails, is
\* done, or goes on to the next read.  since and upTo are the states of the ERP
\* that its first and its last read saw.
Continued(c, op, got) ==
    LET status == IF Unreadable(op, got) \/ (got # <<>> /\ ~Fits(op, got)) THEN "value"
                  ELSE IF Len(got) < ReadsNeeded(op, got) THEN "none"
                  ELSE IF op.do = "export_kpis" /\ got # <<>> THEN "type" ELSE "ok"
    IN  [op |-> op, got |-> got, status |-> status, waits |-> FALSE,
         tries |-> 0, logins |-> 0, asked |-> 0,
         since |-> IF Len(got) <= 1 THEN version ELSE call[c].since, upTo |-> version]

Begin(c, op) ==
    /\ call[c] = Idle
    /\ Undisturbed(c)
    /\ call' = [call EXCEPT ![c] = Continued(c, op, <<>>)]
    /\ UNCHANGED <<envVars, uid>>

\* Seeded fault: the retry has no last attempt.
RetriedForEver(c, requests) ==
    [call[c] EXCEPT !.tries = @ + 1, !.logins = 0, !.asked = @ + requests, !.waits = TRUE]

\* An attempt of search_read failed: wait for the next one or give up.
Retried(c, requests) ==
    LET r == call[c] IN
    [r EXCEPT !.tries = @ + 1, !.logins = 0, !.asked = @ + requests,
              !.waits = r.tries + 1 < Attempts,
              !.status = IF r.tries + 1 < Attempts THEN "none" ELSE "retry"]

\* Seeded fault: after its last attempt the login begins anew.
LoginStartsOver(c) ==
    IF call[c].logins + 1 = Attempts THEN [call[c] EXCEPT !.logins = 0, !.asked = 1]
    ELSE [call[c] EXCEPT !.logins = @ + 1, !.asked = @ + 1, !.waits = TRUE]

\* An attempt of _authenticate failed; the last one fails that of search_read.
LoginFailed(c) ==
    IF call[c].logins + 1 = Attempts THEN Retried(c, 1)
    ELSE [call[c] EXCEPT !.logins = @ + 1, !.asked = @ + 1, !.waits = TRUE]

Unreachable(c) ==
    /\ Running(c) /\ Undisturbed(c)
    /\ uid = "none" /\ ~up
    /\ call' = [call EXCEPT ![c] = LoginFailed(c)]
    /\ UNCHANGED <<envVars, uid>>

\* The answer False is kept before it is taken for a failure.
Refused(c) ==
    /\ Running(c) /\ Undisturbed(c)
    /\ uid = "none" /\ up /\ ~good
    /\ uid' = "refused"
    /\ call' = [call EXCEPT ![c] = LoginFailed(c)]
    /\ UNCHANGED envVars

\* With a uid, kept or new, the read is asked for at once.
Accepted(c) ==
    /\ Running(c) /\ Undisturbed(c)
    /\ uid = "none" /\ up /\ good
    /\ uid' = "ok"
    /\ call' = [call EXCEPT ![c].asked = @ + 1, ![c].waits = FALSE]
    /\ UNCHANGED envVars

ReadSucceeds(c) ==
    /\ Running(c) /\ Undisturbed(c)
    /\ uid = "ok" /\ up /\ good
    /\ \E rows \in Returned(call[c].op, Len(call[c].got) + 1, Matching(ERP, call[c].op, call[c].got)) :
          call' = [call EXCEPT ![c] = Continued(c, call[c].op, Append(call[c].got, rows))]
    /\ UNCHANGED <<envVars, uid>>

\* False is no user, and the password goes with every request.
ReadFails(c) ==
    /\ Running(c) /\ Undisturbed(c)
    /\ uid # "none"
    /\ uid = "refused" \/ ~up \/ ~good
    /\ call' = [call EXCEPT ![c] = Retried(c, 1)]
    /\ UNCHANGED <<envVars, uid>>

Attempt(c) ==
    Unreachable(c) \/ Refused(c) \/ Accepted(c) \/ ReadSucceeds(c) \/ ReadFails(c)

\* health_check asks for the version, for which no login is needed.
Connected == up

-----------------------------------------------------------------------------
(* The ERP.                                                                *)

Changes ==
    /\ version < Len(History)
    /\ version' = version + 1
    /\ UNCHANGED <<up, good, events, uid, call>>

Outage ==
    /\ events < MaxEvents
    /\ events' = events + 1
    /\ up' = ~up
    /\ UNCHANGED <<version, good, uid, call>>

PasswordChange ==
    /\ events < MaxEvents
    /\ events' = events + 1
    /\ good' = ~good
    /\ UNCHANGED <<version, up, uid, call>>

Environment == Changes \/ Outage \/ PasswordChange

=============================================================================
