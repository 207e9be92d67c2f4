--------------------------- MODULE CircuitBreaker ---------------------------
(***************************************************************************)
(* src/infrastructure/resilience/circuit_breaker.py, with the callers it   *)
(* is written for: can_execute(), then an awaited call of the service,     *)
(* then record_success() or record_failure().  The three methods are       *)
(* synchronous; between admission and record other callers run, and a      *)
(* call may be abandoned (cancelled) without any record.  Time is kept as  *)
(* the ticks since the last recorded failure.                              *)
(***************************************************************************)
EXTENDS Integers

CONSTANTS Requesters,
          Threshold,   \* failure_threshold
          Recovery,    \* recovery_timeout, in ticks
          MaxFailures  \* bound: failures recorded without a success

ASSUME ThresholdAssumption == Threshold \in Nat \ {0}
ASSUME RecoveryAssumption == Recovery \in Nat
ASSUME MaxFailuresAssumption == MaxFailures \in Nat /\ MaxFailures >= Threshold

VARIABLES state,        \* self.state
          failureCount, \* self.failure_count
          elapsed,      \* time.time() - self.last_failure_time
          calling,      \* callers that were admitted and have not ended
          serviceUp     \* the environment: does the service answer

breakerVars == <<state, failureCount, elapsed, calling, serviceUp>>

States == {"CLOSED", "OPEN", "HALF_OPEN"}
LongAgo == Recovery + 1

BreakerTypeOK ==
  /\ state \in States
  /\ failureCount \in 0..MaxFailures
  /\ elapsed \in 0..LongAgo
  /\ calling \subseteq Requesters
  /\ serviceUp \in BOOLEAN

\* last_failure_time = 0.0 is long ago.
BreakerInit ==
  /\ state = "CLOSED"
  /\ failureCount = 0
  /\ elapsed = LongAgo
  /\ calling = {}
  /\ serviceUp \in BOOLEAN

-----------------------------------------------------------------------------
(* can_execute() returns True ...                                          *)

Begin(p) == p \notin calling /\ calling' = calling \cup {p}

AdmitClosed(p) ==
  /\ state = "CLOSED"
  /\ Begin(p)
  /\ UNCHANGED <<state, failureCount, elapsed, serviceUp>>

\* Seeded fault: the clock is never compared.
NeverExpired == FALSE

RecoveryExpired == elapsed > Recovery

AdmitFirstProbe(p) ==
  /\ state = "OPEN"
  /\ RecoveryExpired
  /\ state' = "HALF_OPEN"
  /\ Begin(p)
  /\ UNCHANGED <<failureCount, elapsed, serviceUp>>

AdmitProbe(p) ==
  /\ state = "HALF_OPEN"
  /\ Begin(p)
  /\ UNCHANGED <<state, failureCount, elapsed, serviceUp>>

(* ... and the call ends.  In OPEN before the timeout it returns False,    *)
(* which changes nothing.                                                  *)
End(p) ==
  /\ p \in calling
  /\ calling' = calling \ {p}

\* Seeded fault: a success takes back one failure only.
CountDecremented == failureCount - 1

CountReset == 0

RecordSuccess(p) ==
  /\ serviceUp
  /\ End(p)
  /\ failureCount' = CountReset
  /\ state' = "CLOSED"
  /\ UNCHANGED <<elapsed, serviceUp>>

\* Seeded fault: off by one at the threshold.
OverThreshold(count) == count > Threshold

Trips(count) == count >= Threshold

RecordFailure(p) ==
  /\ ~serviceUp
  /\ failureCount < MaxFailures
  /\ End(p)
  /\ failureCount' = failureCount + 1
  /\ elapsed' = 0
  /\ state' = IF Trips(failureCount') THEN "OPEN" ELSE state
  /\ UNCHANGED serviceUp

Abandon(p) ==
  /\ End(p)
  /\ UNCHANGED <<state, failureCount, elapsed, serviceUp>>

TimePasses ==
  /\ elapsed < LongAgo
  /\ elapsed' = elapsed + 1
  /\ UNCHANGED <<state, failureCount, calling, serviceUp>>

ServiceChanges ==
  /\ serviceUp' = ~serviceUp
  /\ UNCHANGED <<state, failureCount, elapsed, calling>>

Attempt(p) == AdmitClosed(p) \/ AdmitFirstProbe(p) \/ AdmitProbe(p)
Answer(p) == RecordSuccess(p) \/ RecordFailure(p)

BreakerNext ==
  \/ \E p \in Requesters : Attempt(p) \/ Answer(p) \/ Abandon(p)
  \/ TimePasses
  \/ ServiceChanges

(* Time passes, callers keep trying, and not every call is abandoned.      *)
BreakerFairness ==
  /\ WF_breakerVars(TimePasses)
  /\ \A p \in Requesters : WF_breakerVars(Attempt(p)) /\ SF_breakerVars(Answer(p))

BreakerSpec == BreakerInit /\ [][BreakerNext]_breakerVars
FairBreakerSpec == BreakerSpec /\ BreakerFairness

-----------------------------------------------------------------------------
(* Properties *)

\* The counter and the state tell the same story in every interleaving of
\* answers, late ones included: the circuit is closed exactly while fewer than
\* failure_threshold failures followed the last success.
StateMatchesCount == state = "CLOSED" <=> failureCount < Threshold

\* A service that stays up is eventually called freely again: no late failure,
\* abandoned probe or clock value keeps the circuit open or half open.
Recovers == <>[]serviceUp => <>[](state = "CLOSED")
=============================================================================
