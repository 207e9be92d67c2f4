---------------------------- MODULE SingleFlight ----------------------------
(***************************************************************************)
(* src/infrastructure/cache/singleflight.py: SingleFlight.do(key, fn).     *)
(*                                                                         *)
(* The first caller of a key leads a flight: it stores a future under the  *)
(* key, runs fn and settles the future.  Callers that find the key taken   *)
(* wait for that future.  Everything runs on one event loop, so a caller   *)
(* is interrupted only at its awaits: the leader in fn, a waiter on the    *)
(* future.  An asyncio task may be cancelled at either await.  Flight      *)
(* numbers stand for the future objects and for the value fn computes.     *)
(* The counters of get_stats() are left out.                               *)
(***************************************************************************)
EXTENDS Integers

CONSTANTS Callers,      \* tasks that call do()
          FlightKeys,         \* deduplication keys
          Cancellable,  \* the callers that run under a timeout or a request
                        \* that may go away, and so may be cancelled
          MaxFlights    \* bound: flights started in one behaviour

ASSUME CancellableAssumption == Cancellable \subseteq Callers
ASSUME MaxFlightsAssumption == MaxFlights \in Nat \ {0}

VARIABLES inFlight,  \* self._in_flight: key -> future, 0 when absent
          future,    \* state of every future
          stage,        \* where each caller is: "idle", "computing", "waiting"
          ckey,      \* argument key of the caller's call
          flight,    \* flight the caller leads or waits for
          launched,  \* number of futures created so far
          outcomes,  \* history: what callers that were not cancelled got
          disturbed, \* history: flights of which a waiter was cancelled
          deserted   \* history: flights whose leader was cancelled

flightVars == <<inFlight, future, stage, ckey, flight, launched,
          outcomes, disturbed, deserted>>
history == <<outcomes, disturbed, deserted>>

Flights == 1..MaxFlights
NoFlight == 0
FutureStates == {"none", "pending", "result", "exception", "cancelled"}
Settled == {"result", "exception", "cancelled"}

Waiting(p) == stage[p] = "waiting"
Computing(p) == stage[p] = "computing"

FlightTypeOK ==
  /\ inFlight \in [FlightKeys -> Flights \cup {NoFlight}]
  /\ future \in [Flights -> FutureStates]
  /\ \A f \in Flights : future[f] = "none" <=> f > launched
  /\ stage \in [Callers -> {"idle", "computing", "waiting"}]
  /\ ckey \in [Callers -> FlightKeys]
  /\ flight \in [Callers -> Flights \cup {NoFlight}]
  /\ launched \in 0..MaxFlights
  /\ outcomes \in [Flights -> SUBSET {"result", "exception", "cancelled"}]
  /\ disturbed \subseteq Flights
  /\ deserted \subseteq Flights

FlightInit ==
  /\ inFlight = [k \in FlightKeys |-> NoFlight]
  /\ future = [f \in Flights |-> "none"]
  /\ stage = [p \in Callers |-> "idle"]
  /\ ckey \in [Callers -> FlightKeys]
  /\ \A p, q \in Callers : ckey[p] = ckey[q]
  /\ flight = [p \in Callers |-> NoFlight]
  /\ launched = 0
  /\ outcomes = [f \in Flights |-> {}]
  /\ disturbed = {}
  /\ deserted = {}

-----------------------------------------------------------------------------
(* Entry of do(): join the flight of the key or lead a new one.            *)

Join(p, k) ==
  /\ stage[p] = "idle"
  /\ inFlight[k] # NoFlight
  /\ stage' = [stage EXCEPT ![p] = "waiting"]
  /\ ckey' = [ckey EXCEPT ![p] = k]
  /\ flight' = [flight EXCEPT ![p] = inFlight[k]]
  /\ UNCHANGED <<inFlight, future, launched, history>>

\* Seeded fault: a new flight is started even while the key is taken.
LeadGuardDropped(k) == TRUE

MayLead(k) == inFlight[k] = NoFlight

\* Seeded fault: the future is stored but never created.
FutureNotCreated(f) == future

NewFuture(f) == [future EXCEPT ![f] = "pending"]

Lead(p, k) ==
  LET f == launched + 1 IN
  /\ stage[p] = "idle"
  /\ launched < MaxFlights
  /\ MayLead(k)
  /\ launched' = f
  /\ future' = NewFuture(f)
  /\ inFlight' = [inFlight EXCEPT ![k] = f]
  /\ stage' = [stage EXCEPT ![p] = "computing"]
  /\ ckey' = [ckey EXCEPT ![p] = k]
  /\ flight' = [flight EXCEPT ![p] = f]
  /\ UNCHANGED history

-----------------------------------------------------------------------------
(* End of the leader's fn.  set_result and set_exception raise             *)
(* InvalidStateError on a future that is already done: the leader then     *)
(* fails even though fn succeeded.  The finally clause frees the key.      *)

Depart(p, outs) ==
  /\ stage' = [stage EXCEPT ![p] = "idle"]
  /\ outcomes' = [outcomes EXCEPT ![flight[p]] = @ \cup outs]

\* Seeded fault: the finally clause is missing.
KeyNotFreed(k) == inFlight

FreedKey(k) == [inFlight EXCEPT ![k] = NoFlight]

FnReturns(p) ==
  LET f == flight[p] IN
  /\ Computing(p)
  /\ \/ /\ future[f] = "pending"
        /\ future' = [future EXCEPT ![f] = "result"]
        /\ Depart(p, {"result"})
     \/ /\ future[f] # "pending"
        /\ UNCHANGED future
        /\ Depart(p, {"exception"})
  /\ inFlight' = FreedKey(ckey[p])
  /\ UNCHANGED <<ckey, flight, launched, disturbed, deserted>>

\* Seeded faults: the waiters are told of a result, or of nothing at all.
FailureReportedAsResult(f) == [future EXCEPT ![f] = "result"]
FailureNotReported(f) == future

\* future.set_exception(e): on a done future it raises instead.
FailedFuture(f) ==
  [future EXCEPT ![f] = IF @ = "pending" THEN "exception" ELSE @]

FnRaises(p) ==
  LET f == flight[p] IN
  /\ Computing(p)
  /\ future' = FailedFuture(f)
  /\ Depart(p, {"exception"})
  /\ inFlight' = FreedKey(ckey[p])
  /\ UNCHANGED <<ckey, flight, launched, disturbed, deserted>>

(* CancelledError is no Exception: the except clause is skipped and the    *)
(* future stays pending, the finally clause still frees the key.           *)
CancelLeader(p) ==
  /\ p \in Cancellable
  /\ Computing(p)
  /\ Depart(p, {})
  /\ deserted' = deserted \cup {flight[p]}
  /\ inFlight' = FreedKey(ckey[p])
  /\ UNCHANGED <<future, ckey, flight, launched, disturbed>>

-----------------------------------------------------------------------------
(* A waiter.                                                               *)

\* The awaited future is done and the loop resumes the waiter.
Wake(p) ==
  /\ Waiting(p)
  /\ future[flight[p]] \in Settled
  /\ Depart(p, {future[flight[p]]})
  /\ UNCHANGED <<inFlight, future, ckey, flight, launched, disturbed, deserted>>

(* Task.cancel() cancels the future the task awaits, here the one the      *)
(* whole flight shares; the task itself gets CancelledError.               *)
CancelWaiter(p) ==
  LET f == flight[p] IN
  /\ p \in Cancellable
  /\ Waiting(p)
  /\ future' = [future EXCEPT ![f] = IF @ = "pending" THEN "cancelled" ELSE @]
  /\ disturbed' = IF future[f] = "pending" THEN disturbed \cup {f} ELSE disturbed
  /\ Depart(p, {})
  /\ UNCHANGED <<inFlight, ckey, flight, launched, deserted>>

-----------------------------------------------------------------------------
FlightNext ==
  \E p \in Callers :
    \/ \E k \in FlightKeys : Join(p, k) \/ Lead(p, k)
    \/ FnReturns(p)
    \/ FnRaises(p)
    \/ CancelLeader(p)
    \/ Wake(p)
    \/ CancelWaiter(p)

(* fn is assumed to end, and the loop resumes every task that is ready.    *)
FlightFairness ==
  \A p \in Callers : WF_flightVars(FnReturns(p) \/ FnRaises(p)) /\ WF_flightVars(Wake(p))

FlightSpec == FlightInit /\ [][FlightNext]_flightVars
FairFlightSpec == FlightSpec /\ FlightFairness

-----------------------------------------------------------------------------
(* Properties *)

\* "only one computes the result": no two callers run fn for the same key at
\* the same time, whatever is cancelled and however calls overlap.
OneLeaderPerKey ==
  \A p, q \in Callers :
    Computing(p) /\ Computing(q) /\ ckey[p] = ckey[q] => p = q

\* A key is taken exactly while a caller runs fn for it, and the future under
\* it is that caller's: an entry that outlived its leader would make every
\* later call of the key wait for nobody.
TakenKeyIsLed ==
  /\ \A k \in FlightKeys : inFlight[k] # NoFlight =>
       \E p \in Callers : Computing(p) /\ ckey[p] = k /\ flight[p] = inFlight[k]
  /\ \A p \in Callers : Computing(p) => inFlight[ckey[p]] = flight[p]

\* A flight that can be joined has not delivered a result yet: a caller never
\* shares a computation that ended before its call.
JoinableIsUnfinished ==
  \A k \in FlightKeys : inFlight[k] # NoFlight =>
     future[inFlight[k]] \in {"pending", "cancelled"}

\* All callers of a flight get the same outcome, unless a waiter of it was
\* cancelled while the flight was up.
OutcomeIsShared ==
  \A f \in Flights : f \notin disturbed => \A a, b \in outcomes[f] : a = b

\* A waiter whose leader is not cancelled gets an answer.
WaiterReturns ==
  \A p \in Callers : \A f \in Flights :
    (Waiting(p) /\ flight[p] = f) ~> (~(Waiting(p) /\ flight[p] = f) \/ f \in deserted)

\* The registry, the futures and the callers fit together, and what can be
\* joined is still being computed (singleflight.py, do()).
RegistryIsSound == FlightTypeOK /\ JoinableIsUnfinished
=============================================================================
