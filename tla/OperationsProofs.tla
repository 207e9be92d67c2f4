-------------------------- MODULE OperationsProofs --------------------------
(* Proofs about Operations, for every set of calls, every history of the    *)
(* ERP and every number of attempts.                                        *)
EXTENDS Operations, FiniteSetTheorems, SequenceTheorems, TLAPS

\* What a call is once it has begun.
IsCall(r) ==
  r = [op |-> r.op, got |-> r.got, status |-> r.status, waits |-> r.waits,
       tries |-> r.tries, logins |-> r.logins, asked |-> r.asked,
       since |-> r.since, upTo |-> r.upTo]

\* Every failed attempt of a read cost as many requests as its login made, or
\* one; the login that worked, or was refused, cost one more.  A call that is
\* over is not in the middle of a login.
Account(r, logged) ==
  /\ r.tries \in 0..Attempts /\ r.logins \in 0..(Attempts - 1) /\ r.asked \in Nat
  /\ r.status = "none" => r.tries < Attempts
  /\ r.status # "none" => r.logins = 0
  /\ r.asked <= r.tries * Attempts + r.logins + logged

Logged == IF uid = "none" THEN 0 ELSE 1

CallsAreSound ==
  /\ call = [c \in Calls |-> call[c]]
  /\ \A c \in Calls : call[c] # Idle => IsCall(call[c]) /\ Account(call[c], Logged)

-----------------------------------------------------------------------------
\* Products of the number of attempts, for what the solver does not find.
LEMMA Products ==
  ASSUME NEW A \in Nat \ {0}, NEW t \in 0..(A - 1)
  PROVE  /\ t * A \in Nat /\ (t + 1) * A = t * A + A
         /\ t * A + A <= A * A
<1>1. A - 1 - t \in Nat /\ (A - 1 - t) * A \in Nat
  OBVIOUS
<1>2. A * A = t * A + A + (A - 1 - t) * A
  OBVIOUS
<1> QED BY <1>1, <1>2

LEMMA AccountBounds ==
  ASSUME NEW r, NEW logged \in {0, 1}, Account(r, logged)
  PROVE  r.asked <= Attempts * Attempts + 1
<1>1. Attempts \in Nat \ {0}
  BY ReadsAssumption
<1>2. CASE r.status = "none"
  <2>1. r.tries \in 0..(Attempts - 1)
    BY <1>1, <1>2 DEF Account
  <2>2. r.tries * Attempts + Attempts <= Attempts * Attempts
    BY <1>1, <2>1, Products
  <2> QED BY <1>1, <2>1, <2>2, Products DEF Account
<1>3. CASE r.status # "none"
  <2>1. r.logins = 0 /\ r.tries \in 0..Attempts
    BY <1>3 DEF Account
  <2>2. r.tries * Attempts <= Attempts * Attempts
    <3>1. CASE r.tries = Attempts
      BY <1>1, <3>1
    <3>2. CASE r.tries \in 0..(Attempts - 1)
      BY <1>1, <3>2, Products
    <3> QED BY <1>1, <2>1, <3>1, <3>2
  <2> QED BY <1>1, <2>1, <2>2 DEF Account
<1> QED BY <1>2, <1>3

\* A failed attempt of search_read leaves an account that is sound.
LEMMA RetriedIsSound ==
  ASSUME NEW c \in Calls, Running(c), IsCall(call[c]), NEW before \in {0, 1}, NEW after \in {0, 1},
         Account(call[c], before), before <= after,
         before = 0 => call[c].logins + 1 = Attempts
  PROVE  LET r == Retried(c, 1)
         IN  IsCall(r) /\ Account(r, after) /\ r.got = call[c].got
<1> DEFINE s == call[c]
           r == Retried(c, 1)
<1>1. Attempts \in Nat \ {0} /\ s.status = "none" /\ s.tries \in 0..(Attempts - 1)
  BY ReadsAssumption DEF Running, Account
<1>2. r = [op |-> s.op, got |-> s.got,
           status |-> IF s.tries + 1 < Attempts THEN "none" ELSE "retry",
           waits |-> s.tries + 1 < Attempts, tries |-> s.tries + 1, logins |-> 0,
           asked |-> s.asked + 1, since |-> s.since, upTo |-> s.upTo]
  <2>1. s = [op |-> s.op, got |-> s.got, status |-> s.status, waits |-> s.waits,
             tries |-> s.tries, logins |-> s.logins, asked |-> s.asked,
             since |-> s.since, upTo |-> s.upTo]
    BY DEF IsCall
  <2>2. r = [s EXCEPT !.tries = s.tries + 1, !.logins = 0, !.asked = s.asked + 1,
                      !.waits = s.tries + 1 < Attempts,
                      !.status = IF s.tries + 1 < Attempts THEN "none" ELSE "retry"]
    BY DEF Retried
  <2> HIDE DEF s, r
  <2> QED BY <2>1, <2>2
<1> HIDE DEF r
<1>3. /\ s.tries * Attempts \in Nat /\ (s.tries + 1) * Attempts = s.tries * Attempts + Attempts
  BY <1>1, Products
<1>4. s.asked + 1 <= s.tries * Attempts + Attempts + after
  BY <1>1, <1>3 DEF Account
<1>5. Account(r, after)
  BY <1>1, <1>2, <1>3, <1>4 DEF Account
<1> QED BY <1>2, <1>5 DEF IsCall, r

\* So does a failed attempt of the login, which is the only thing a call does
\* while no login is kept.
LEMMA LoginFailedIsSound ==
  ASSUME NEW c \in Calls, Running(c), IsCall(call[c]), Account(call[c], 0), NEW after \in {0, 1}
  PROVE  LET r == LoginFailed(c)
         IN  IsCall(r) /\ Account(r, after) /\ r.got = call[c].got
<1> DEFINE s == call[c]
<1>1. Attempts \in Nat \ {0} /\ s.status = "none" /\ s.tries \in 0..(Attempts - 1)
  BY ReadsAssumption DEF Running, Account
<1>2. CASE s.logins + 1 = Attempts
  BY <1>2, RetriedIsSound DEF LoginFailed
<1>3. CASE s.logins + 1 # Attempts
  <2> DEFINE r == LoginFailed(c)
  <2>1. r = [op |-> s.op, got |-> s.got, status |-> s.status, waits |-> TRUE,
             tries |-> s.tries, logins |-> s.logins + 1, asked |-> s.asked + 1,
             since |-> s.since, upTo |-> s.upTo]
    BY <1>3 DEF LoginFailed, IsCall
  <2> HIDE DEF r
  <2>2. s.tries * Attempts \in Nat
    BY <1>1, Products
  <2>3. s.asked + 1 <= s.tries * Attempts + (s.logins + 1) + after
    BY <1>1, <2>2 DEF Account
  <2>4. s.logins + 1 \in 0..(Attempts - 1) /\ s.asked + 1 \in Nat
    BY <1>1, <1>3 DEF Account
  <2>5. Account(r, after)
    BY <1>1, <2>1, <2>3, <2>4 DEF Account
  <2> QED BY <2>1, <2>5 DEF IsCall, r
<1> QED BY <1>2, <1>3

\* A call begins, and goes on after a read, with an empty account.
LEMMA ContinuedIsSound ==
  ASSUME NEW c \in Calls, NEW op, NEW got, NEW logged \in {0, 1}
  PROVE  IsCall(Continued(c, op, got)) /\ Account(Continued(c, op, got), logged)
<1> DEFINE r == Continued(c, op, got)
<1>1. PICK status, since :
        r = [op |-> op, got |-> got, status |-> status, waits |-> FALSE,
             tries |-> 0, logins |-> 0, asked |-> 0, since |-> since, upTo |-> version]
  BY DEF Continued
<1> HIDE DEF r
<1>2. Attempts \in Nat \ {0}
  BY ReadsAssumption
<1>3. Account(r, logged)
  BY <1>1, <1>2 DEF Account
<1> QED BY <1>1, <1>3 DEF IsCall, r

\* Nothing but an attempt of a call, or its beginning, touches its record.
LEMMA OthersKeepTheirAccount ==
  ASSUME CallsAreSound, NEW c \in Calls, NEW r, call' = [call EXCEPT ![c] = r],
         IsCall(r), Account(r, Logged'), uid = "none" \/ uid' # "none"
  PROVE  CallsAreSound'
<1>1. /\ call' = [d \in Calls |-> call'[d]]
      /\ \A d \in Calls : call'[d] = IF d = c THEN r ELSE call[d]
  BY DEF CallsAreSound
<1>2. ASSUME NEW d \in Calls, call'[d] # Idle
      PROVE  IsCall(call'[d]) /\ Account(call'[d], Logged')
  <2>1. CASE d = c
    BY <1>1, <2>1
  <2>2. CASE d # c
    <3>1. call'[d] = call[d] /\ call[d] # Idle
      BY <1>1, <1>2, <2>2
    <3>2. IsCall(call[d]) /\ Account(call[d], Logged)
      BY <3>1 DEF CallsAreSound
    <3>3. Logged \in {0, 1} /\ Logged' \in {0, 1} /\ Logged <= Logged'
      BY DEF Logged
    <3>4. Attempts \in Nat \ {0}
      BY ReadsAssumption
    <3>5. call[d].tries * Attempts \in Nat
      BY <3>2, <3>4 DEF Account
    <3>6. Account(call[d], Logged')
      BY <3>2, <3>3, <3>4, <3>5 DEF Account
    <3> QED BY <3>1, <3>2, <3>6
  <2> QED BY <2>1, <2>2
<1> QED BY <1>1, <1>2 DEF CallsAreSound

LEMMA AttemptIsSound ==
  ASSUME CallsAreSound, NEW c \in Calls, Attempt(c)
  PROVE  CallsAreSound'
<1> DEFINE s == call[c]
<1>1. Running(c)
  BY DEF Attempt, Unreachable, Refused, Accepted, ReadSucceeds, ReadFails
<1>2. IsCall(s) /\ Account(s, Logged) /\ Logged \in {0, 1}
  BY <1>1 DEF Running, CallsAreSound, Logged
<1>3. CASE Unreachable(c) \/ Refused(c)
  <2>1. uid = "none" /\ Logged = 0 /\ Logged' \in {0, 1} /\ call' = [call EXCEPT ![c] = LoginFailed(c)]
    BY <1>3 DEF Unreachable, Refused, Logged
  <2>2. IsCall(LoginFailed(c)) /\ Account(LoginFailed(c), Logged')
    BY <1>1, <1>2, <2>1, LoginFailedIsSound
  <2> QED BY <2>1, <2>2, OthersKeepTheirAccount
<1>4. CASE Accepted(c)
  <2> DEFINE r == [s EXCEPT !.asked = s.asked + 1, !.waits = FALSE]
  <2>1. /\ uid = "none" /\ uid' = "ok" /\ Logged = 0 /\ Logged' = 1
        /\ call' = [call EXCEPT ![c] = r]
    BY <1>4 DEF Accepted, Logged
  <2>2. r = [op |-> s.op, got |-> s.got, status |-> s.status, waits |-> FALSE,
             tries |-> s.tries, logins |-> s.logins, asked |-> s.asked + 1,
             since |-> s.since, upTo |-> s.upTo]
    <3>1. s = [op |-> s.op, got |-> s.got, status |-> s.status, waits |-> s.waits,
               tries |-> s.tries, logins |-> s.logins, asked |-> s.asked,
               since |-> s.since, upTo |-> s.upTo]
      BY <1>2 DEF IsCall
    <3>2. r = [s EXCEPT !.asked = s.asked + 1, !.waits = FALSE]
      OBVIOUS
    <3> HIDE DEF s, r
    <3> QED BY <3>1, <3>2
  <2> HIDE DEF r
  <2>3. Attempts \in Nat \ {0} /\ s.tries \in Nat /\ s.tries * Attempts \in Nat
    BY <1>2, ReadsAssumption DEF Account
  <2>4. Account(r, 1)
    BY <1>2, <2>1, <2>2, <2>3 DEF Account
  <2>5. IsCall(r)
    BY <2>2 DEF IsCall
  <2> QED BY <2>1, <2>4, <2>5, OthersKeepTheirAccount
<1>5. CASE ReadSucceeds(c)
  <2>1. PICK got : call' = [call EXCEPT ![c] = Continued(c, s.op, got)] /\ uid' = uid /\ uid = "ok"
    BY <1>5 DEF ReadSucceeds
  <2>2. Logged' \in {0, 1}
    BY DEF Logged
  <2>3. IsCall(Continued(c, s.op, got)) /\ Account(Continued(c, s.op, got), Logged')
    BY <2>2, ContinuedIsSound
  <2> QED BY <2>1, <2>3, OthersKeepTheirAccount
<1>6. CASE ReadFails(c)
  <2>1. /\ uid # "none" /\ uid' = uid /\ Logged = 1 /\ Logged' = 1
        /\ call' = [call EXCEPT ![c] = Retried(c, 1)]
    BY <1>6 DEF ReadFails, Logged
  <2>2. IsCall(Retried(c, 1)) /\ Account(Retried(c, 1), 1)
    BY <1>1, <1>2, <2>1, RetriedIsSound
  <2> QED BY <2>1, <2>2, OthersKeepTheirAccount
<1> QED BY <1>3, <1>4, <1>5, <1>6 DEF Attempt

\* Steps in which no call does anything.
LEMMA CallsUntouched ==
  ASSUME CallsAreSound, UNCHANGED <<call, uid>>
  PROVE  CallsAreSound'
BY DEF CallsAreSound, Account, IsCall, Logged

LEMMA BeginIsSound ==
  ASSUME CallsAreSound, NEW c \in Calls, NEW op, Begin(c, op)
  PROVE  CallsAreSound'
<1>1. call' = [call EXCEPT ![c] = Continued(c, op, <<>>)] /\ uid' = uid /\ Logged' \in {0, 1}
  BY DEF Begin, Logged
<1>2. IsCall(Continued(c, op, <<>>)) /\ Account(Continued(c, op, <<>>), Logged')
  BY <1>1, ContinuedIsSound
<1> QED BY <1>1, <1>2, OthersKeepTheirAccount

LEMMA StepIsSound ==
  ASSUME CallsAreSound, [Next]_vars
  PROVE  CallsAreSound'
<1>1. ASSUME NEW c \in Calls,
             Rejected(c) \/ EscalateRequest(c) \/ ResolveRequest(c) \/ LookRequest(c)
      PROVE  UNCHANGED <<call, uid>>
  BY <1>1 DEF Rejected, EscalateRequest, ResolveRequest, LookRequest, Answered, readVars
<1>2. ASSUME NEW c \in Calls, ReadRequest(c) PROVE CallsAreSound'
  BY <1>2, BeginIsSound DEF ReadRequest
<1>3. ASSUME NEW c \in Calls, Goes(c) PROVE CallsAreSound'
  BY <1>3, AttemptIsSound DEF Goes
<1>4. ASSUME Environment PROVE UNCHANGED <<call, uid>>
  BY <1>4 DEF Environment, Changes, Outage, PasswordChange
<1>5. ASSUME UNCHANGED vars PROVE UNCHANGED <<call, uid>>
  BY <1>5 DEF vars, readVars
<1> QED BY <1>1, <1>2, <1>3, <1>4, <1>5, CallsUntouched DEF Next

\* A read costs the ERP a bounded number of requests, for every number of
\* attempts (odoo_client.py).
THEOREM RequestsAreBounded == Spec => []AsksAreBounded
<1>1. Init => CallsAreSound
  BY DEF Init, ReadsInit, CallsAreSound
<1>2. CallsAreSound /\ [Next]_vars => CallsAreSound'
  BY StepIsSound
<1>3. CallsAreSound => AsksAreBounded
  <2>1. Logged \in {0, 1}
    BY DEF Logged
  <2> QED BY <2>1, AccountBounds DEF CallsAreSound, AsksAreBounded
<1> QED BY <1>1, <1>2, <1>3, PTL DEF Spec

-----------------------------------------------------------------------------
\* What the middlewares decide, the outermost first.
LEMMA VerdictIsOutermost ==
  ASSUME NEW r
  PROVE  Verdict(r) = IF RBAC(r) # "pass" THEN RBAC(r)
                      ELSE IF RateLimit(r) # "pass" THEN RateLimit(r) ELSE Auth(r)
<1> DEFINE added     == Added(r)
           answering == {k \in DOMAIN added : added[k] # "pass"}
           last      == CHOOSE k \in answering : \A j \in answering : j <= k
<1>1. /\ DOMAIN added = 1..4
      /\ added[1] = Auth(r) /\ added[2] = RateLimit(r) /\ added[3] = "pass" /\ added[4] = RBAC(r)
  BY DEF Added, Guardrails
<1>2. Verdict(r) = IF answering = {} THEN "pass" ELSE added[last]
  BY DEF Verdict
<1> HIDE DEF added
<1>3. CASE RBAC(r) # "pass"
  <2>1. 4 \in answering /\ \A j \in answering : j <= 4
    BY <1>1, <1>3
  <2>2. last = 4
    BY <1>1, <2>1
  <2> QED BY <1>1, <1>2, <1>3, <2>1, <2>2
<1>4. CASE RBAC(r) = "pass" /\ RateLimit(r) # "pass"
  <2>1. answering \subseteq {1, 2} /\ 2 \in answering
    BY <1>1, <1>4
  <2>2. last = 2
    BY <2>1
  <2> QED BY <1>1, <1>2, <1>4, <2>1, <2>2
<1>5. CASE RBAC(r) = "pass" /\ RateLimit(r) = "pass" /\ Auth(r) # "pass"
  <2>1. answering = {1}
    BY <1>1, <1>5
  <2>2. last = 1
    BY <2>1
  <2> QED BY <1>1, <1>2, <1>5, <2>1, <2>2
<1>6. CASE RBAC(r) = "pass" /\ RateLimit(r) = "pass" /\ Auth(r) = "pass"
  <2>1. answering = {}
    BY <1>1, <1>6
  <2> QED BY <1>2, <1>6, <2>1
<1> QED BY <1>3, <1>4, <1>5, <1>6

\* An admin has every permission that a path can require.
LEMMA AccessIsEntitlement ==
  ASSUME NEW r
  PROVE  CheckEndpointAccess(r.user, r.path) <=> Entitled(r)
<1> DEFINE required == EndpointPermissions(r.path)
           role     == RoleOf(r.user)
<1>1. required \subseteq RolePermissions["admin"]
  <2>1. RolePermissions["admin"] =
          {"chat", "analytics", "cx", "cx_write", "pricing", "supply", "supply_write",
           "documents", "documents_write", "metrics", "admin"}
    BY DEF RolePermissions
  <2> QED BY <2>1 DEF EndpointPermissions
<1>2. CheckEndpointAccess(r.user, r.path) <=>
        required = {} \/ role = "admin" \/ RolePermissions[role] \cap required # {}
  BY DEF CheckEndpointAccess
<1>3. Entitled(r) <=> required = {} \/ \E p \in required : p \in RolePermissions[role]
  BY DEF Entitled
<1> HIDE DEF required, role
<1> QED BY <1>1, <1>2, <1>3

\* Who passes, and what those who do not are told.
LEMMA VerdictTells ==
  ASSUME NEW r
  PROVE  /\ Verdict(r) \in {"pass", "401", "500", "limited"}
         /\ r.path = "health" => Verdict(r) = "pass" /\ Entitled(r)
         /\ Verdict(r) = "pass" => Entitled(r) /\ (r.path = "health" \/ r.key = "right")
         /\ Verdict(r) = "401" => Entitled(r) /\ r.key # "right"
         /\ ~Entitled(r) => Verdict(r) = "500"
<1>1. RBAC(r) = IF r.path = "health" \/ Entitled(r) THEN "pass" ELSE "500"
  BY AccessIsEntitlement DEF RBAC, Exempt
<1>2. r.path = "health" => Entitled(r)
  BY DEF Entitled, EndpointPermissions
<1>3. RateLimit(r) \in {"pass", "limited"} /\ (r.path = "health" => RateLimit(r) = "pass")
  BY DEF RateLimit, Exempt
<1>4. /\ Auth(r) \in {"pass", "401", "500"} /\ (r.path = "health" => Auth(r) = "pass")
      /\ Auth(r) = "pass" => r.path = "health" \/ r.key = "right"
      /\ Auth(r) = "401" => r.key # "right"
  BY DEF Auth, Exempt
<1> QED BY <1>1, <1>2, <1>3, <1>4, VerdictIsOutermost

\* What has become of the request of a call, but for those from within.
Treated(c) ==
  LET r == request[c] IN
  \/ Verdict(r) # "pass" /\ reply[c] = Verdict(r) /\ call[c] = Idle
  \/ Verdict(r) = "pass" /\ r.path \notin Direct /\ reply[c] = "none"
  \/ /\ Verdict(r) = "pass" /\ call[c] = Idle /\ r.path \in Direct \ {"health"}
     /\ reply[c] \in {"200", "400", "404", "500"}
  \/ /\ r.path = "health" /\ call[c] = Idle /\ reply[c] \in {"healthy", "degraded"}

RequestsAreSound ==
  /\ call = [c \in Calls |-> call[c]]
  /\ request = [c \in Calls |-> request[c]]
  /\ reply = [c \in Calls |-> reply[c]]
  /\ \A c \in Calls : IF request[c] = Idle THEN call[c] = Idle /\ reply[c] = "none"
                      ELSE request[c].user # Internal => Treated(c)

LEMMA TreatedAsEntitled == RequestsAreSound => ServedOnlyIfEntitled
<1> SUFFICES ASSUME RequestsAreSound, NEW c \in Calls, Outside(c)
             PROVE  LET r == request[c]
                    IN  /\ call[c] # Idle \/ reply[c] \in {"200", "400", "404"} =>
                              r.key = "right" /\ Entitled(r)
                        /\ reply[c] = "401" => r.key # "right"
                        /\ r.path = "health" <=> reply[c] \in {"healthy", "degraded"}
  BY DEF ServedOnlyIfEntitled
<1>1. Treated(c)
  BY DEF RequestsAreSound, Outside
<1> QED BY <1>1, VerdictTells DEF Treated, Direct

\* A step that only a new request of one call takes.
LEMMA NewRequestIsSound ==
  ASSUME RequestsAreSound, NEW c \in Calls, NEW r \in Offers[c], New(c, r),
         call' = [d \in Calls |-> call'[d]], reply' = [d \in Calls |-> reply'[d]],
         \A d \in Calls : d # c => call'[d] = call[d] /\ reply'[d] = reply[d],
         r.user # Internal => Treated(c)'
  PROVE  RequestsAreSound'
<1>1. r # Idle
  BY OffersAssumption
<1>2. /\ request' = [d \in Calls |-> request'[d]] /\ request'[c] = r
      /\ \A d \in Calls : d # c => request'[d] = request[d]
  BY DEF New, RequestsAreSound
<1>3. ASSUME NEW d \in Calls
      PROVE  IF request'[d] = Idle THEN call'[d] = Idle /\ reply'[d] = "none"
             ELSE request'[d].user # Internal => Treated(d)'
  <2>1. CASE d = c
    BY <1>1, <1>2, <2>1
  <2>2. CASE d # c
    BY <1>2, <2>2 DEF RequestsAreSound, Treated
  <2> QED BY <2>1, <2>2
<1> QED BY <1>2, <1>3 DEF RequestsAreSound

LEMMA AnsweredIsSound ==
  ASSUME RequestsAreSound, NEW c \in Calls, NEW r \in Offers[c], NEW status,
         New(c, r), Answered(c, status),
         \/ r.user # Internal /\ Verdict(r) # "pass" /\ status = Verdict(r)
         \/ /\ Verdict(r) = "pass" /\ r.path \in Direct \ {"health"}
            /\ status \in {"200", "400", "404", "500"}
         \/ r.path = "health" /\ status \in {"healthy", "degraded"}
  PROVE  RequestsAreSound'
<1>1. request[c] = Idle /\ request'[c] = r
  BY DEF New, RequestsAreSound
<1>2. call' = call /\ reply' = [reply EXCEPT ![c] = status]
  BY DEF Answered, readVars
<1>3. call[c] = Idle /\ reply'[c] = status
  BY <1>1, <1>2 DEF RequestsAreSound
<1>4. Treated(c)'
  BY <1>1, <1>2, <1>3 DEF Treated
<1> QED BY <1>2, <1>4, NewRequestIsSound DEF RequestsAreSound

LEMMA RequestStepIsSound ==
  ASSUME RequestsAreSound, [Next]_vars
  PROVE  RequestsAreSound'
<1>1. ASSUME NEW c \in Calls, Rejected(c) PROVE RequestsAreSound'
  <2>1. PICK r \in Offers[c] : /\ r.user # Internal /\ Verdict(r) # "pass"
                               /\ New(c, r) /\ Answered(c, Verdict(r))
    BY <1>1 DEF Rejected
  <2> QED BY <2>1, AnsweredIsSound
<1>2. ASSUME NEW c \in Calls, ReadRequest(c) PROVE RequestsAreSound'
  <2>1. PICK r \in Offers[c] : /\ "op" \in DOMAIN r /\ (r.user = Internal \/ Verdict(r) = "pass")
                               /\ New(c, r) /\ Begin(c, Asked(r.op)) /\ reply' = reply
    BY <1>2 DEF ReadRequest
  <2>2. request[c] = Idle /\ request'[c] = r
    BY <2>1 DEF New, RequestsAreSound
  <2>3. r.path \notin Direct
    BY <2>1, OffersAssumption
  <2>4. reply'[c] = "none"
    BY <2>1, <2>2 DEF RequestsAreSound
  <2>5. r.user # Internal => Treated(c)'
    BY <2>1, <2>2, <2>3, <2>4 DEF Treated
  <2>6. /\ call' = [d \in Calls |-> call'[d]]
        /\ \A d \in Calls : d # c => call'[d] = call[d]
    BY <2>1 DEF Begin, RequestsAreSound
  <2> QED BY <2>1, <2>5, <2>6, NewRequestIsSound DEF RequestsAreSound
<1>3. ASSUME NEW c \in Calls, EscalateRequest(c) PROVE RequestsAreSound'
  <2>1. PICK r \in Offers[c] : /\ r.path = "escalate" /\ Verdict(r) = "pass"
                               /\ New(c, r) /\ Answered(c, Escalate(r).status)
    BY <1>3 DEF EscalateRequest
  <2>2. Escalate(r).status \in {"200", "400"}
    BY DEF Escalate
  <2> QED BY <2>1, <2>2, AnsweredIsSound DEF Direct
<1>4. ASSUME NEW c \in Calls, ResolveRequest(c) PROVE RequestsAreSound'
  <2>1. PICK r \in Offers[c] : /\ r.path = "resolve" /\ Verdict(r) = "pass"
                               /\ New(c, r) /\ Answered(c, Resolve(r.id, "done").status)
    BY <1>4 DEF ResolveRequest
  <2>2. Resolve(r.id, "done").status \in {"200", "404", "500"}
    BY DEF Resolve
  <2> QED BY <2>1, <2>2, AnsweredIsSound DEF Direct
<1>5. ASSUME NEW c \in Calls, LookRequest(c) PROVE RequestsAreSound'
  <2>1. PICK r \in Offers[c] :
          /\ r.path \in {"ticket", "stats", "export_report", "health"} /\ Verdict(r) = "pass"
          /\ New(c, r)
          /\ Answered(c, CASE r.path = "ticket" -> GetTicket(r.id)
                           [] r.path = "health" -> HealthReport
                           [] r.path = "export_report" -> ExportReport(r.format)
                           [] OTHER -> "200")
    BY <1>5 DEF LookRequest
  <2> DEFINE status == CASE r.path = "ticket" -> GetTicket(r.id)
                         [] r.path = "health" -> HealthReport
                         [] r.path = "export_report" -> ExportReport(r.format)
                         [] OTHER -> "200"
  <2>2. CASE r.path = "health"
    <3>1. HealthReport \in {"healthy", "degraded"}
      BY DEF HealthReport
    <3> QED BY <2>1, <2>2, <3>1, AnsweredIsSound
  <2>3. CASE r.path # "health"
    <3>1. GetTicket(r.id) \in {"200", "404"} /\ ExportReport(r.format) \in {"200", "500"}
      BY DEF GetTicket, ExportReport
    <3>2. status \in {"200", "400", "404", "500"}
      BY <2>1, <2>3, <3>1
    <3> QED BY <2>1, <2>3, <3>2, AnsweredIsSound DEF Direct
  <2> QED BY <2>2, <2>3
<1>6. ASSUME NEW c \in Calls, Goes(c) PROVE RequestsAreSound'
  <2>1. Running(c) /\ UNCHANGED <<request, reply>>
    BY <1>6 DEF Goes, Attempt, Unreachable, Refused, Accepted, ReadSucceeds, ReadFails
  <2>2. /\ call' = [d \in Calls |-> call'[d]]
        /\ \A d \in Calls : d # c => call'[d] = call[d]
    BY <1>6 DEF Goes, Attempt, Unreachable, Refused, Accepted, ReadSucceeds, ReadFails,
                RequestsAreSound
  <2>3. /\ request[c] # Idle
        /\ request[c].user # Internal => /\ Verdict(request[c]) = "pass"
                                         /\ request[c].path \notin Direct /\ reply[c] = "none"
    BY <2>1 DEF RequestsAreSound, Treated, Running
  <2>4. ASSUME NEW d \in Calls
        PROVE  IF request'[d] = Idle THEN call'[d] = Idle /\ reply'[d] = "none"
               ELSE request'[d].user # Internal => Treated(d)'
    <3>1. CASE d = c
      BY <2>1, <2>3, <3>1 DEF Treated
    <3>2. CASE d # c
      BY <2>1, <2>2, <3>2 DEF RequestsAreSound, Treated
    <3> QED BY <3>1, <3>2
  <2> QED BY <2>1, <2>2, <2>4 DEF RequestsAreSound
<1>7. ASSUME Environment, UNCHANGED <<request, reply>> PROVE RequestsAreSound'
  BY <1>7 DEF Environment, Changes, Outage, PasswordChange, RequestsAreSound, Treated
<1>8. CASE UNCHANGED vars
  BY <1>8 DEF vars, readVars, RequestsAreSound, Treated
<1> QED BY <1>1, <1>2, <1>3, <1>4, <1>5, <1>6, <1>7, <1>8 DEF Next

\* A route runs only for whoever is entitled to it, whatever comes in and
\* however the ERP answers (main.py, middleware/rbac.py, auth.py).
THEOREM OnlyTheEntitledAreServed == Spec => []ServedOnlyIfEntitled
<1>1. Init => RequestsAreSound
  BY DEF Init, ReadsInit, RequestsAreSound
<1>2. RequestsAreSound /\ [Next]_vars => RequestsAreSound'
  BY RequestStepIsSound
<1> QED BY <1>1, <1>2, TreatedAsEntitled, PTL DEF Spec

-----------------------------------------------------------------------------
Listed(got) == Len(got) \in Nat /\ got = [i \in 1 .. Len(got) |-> got[i]]

\* A read that the ERP answered from the state w of its tables.
ReadBy(op, got, i, w) ==
  got[i] \in Returned(op, i, Matching(History[w], op, SubSeq(got, 1, i - 1)))

\* What a call has got by version v: each read is from a state of the ERP that
\* it had since the first, and the next depends only on the reads before it.
ReadsOf(r, v) ==
  /\ r.op \in OpType /\ Listed(r.got)
  /\ r.upTo \in 1 .. v /\ r.since \in 1 .. r.upTo
  /\ \A i \in 1 .. Len(r.got) : \E w \in r.since .. r.upTo : ReadBy(r.op, r.got, i, w)
  /\ r.status = "ok" => ~(Len(r.got) < ReadsNeeded(r.op, r.got))

FiguresAreSound ==
  /\ version \in 1 .. Len(History)
  /\ \A c \in Calls : call[c] # Idle => ReadsOf(call[c], version)

\* One more read leaves those before it as they were.
LEMMA OneMoreRead ==
  ASSUME NEW got, Listed(got), NEW rows
  PROVE  /\ Listed(Append(got, rows)) /\ Len(Append(got, rows)) = Len(got) + 1
         /\ \A i \in 1 .. Len(got) : /\ Append(got, rows)[i] = got[i]
                                     /\ SubSeq(Append(got, rows), 1, i - 1) = SubSeq(got, 1, i - 1)
         /\ Append(got, rows)[Len(got) + 1] = rows
         /\ SubSeq(Append(got, rows), 1, Len(got)) = got
<1> DEFINE S    == {got[i] : i \in 1 .. Len(got)} \cup {rows}
           more == Append(got, rows)
<1>1. PICK n \in Nat : n = Len(got) /\ got = [i \in 1 .. n |-> got[i]]
  BY DEF Listed
<1>2. got \in Seq(S) /\ rows \in S
  BY <1>1
<1>3. /\ more \in Seq(S) /\ Len(more) = n + 1 /\ more[n + 1] = rows
      /\ \A i \in 1 .. n : more[i] = got[i]
  BY <1>1, <1>2, AppendProperties
<1>4. more = [i \in 1 .. Len(more) |-> more[i]]
  BY <1>3, LenProperties
<1> HIDE DEF S, more
<1>5. ASSUME NEW i \in 0 .. n
      PROVE  SubSeq(more, 1, i) = SubSeq(got, 1, i)
  <2>0. \A j \in 1 .. i : j \in 1 .. n /\ got[j] \in S
    BY <1>1, <1>2, ElementOfSeq
  <2>1. \A j \in 1 .. i : more[j] \in S /\ got[j] \in S /\ more[j] = got[j]
    BY <1>3, <2>0
  <2>2. /\ SubSeq(more, 1, i) \in Seq(S) /\ Len(SubSeq(more, 1, i)) = i
        /\ \A j \in 1 .. i : SubSeq(more, 1, i)[j] = more[j]
    BY <2>1, SubSeqProperties
  <2>3. /\ SubSeq(got, 1, i) \in Seq(S) /\ Len(SubSeq(got, 1, i)) = i
        /\ \A j \in 1 .. i : SubSeq(got, 1, i)[j] = got[j]
    BY <2>1, SubSeqProperties
  <2> QED BY <2>1, <2>2, <2>3, SeqEqual
<1>6. SubSeq(got, 1, n) = got
  <2>1. \A j \in 1 .. n : got[j] \in S
    BY <1>1, <1>2, ElementOfSeq
  <2>2. /\ SubSeq(got, 1, n) \in Seq(S) /\ Len(SubSeq(got, 1, n)) = n
        /\ \A j \in 1 .. n : SubSeq(got, 1, n)[j] = got[j]
    BY <2>1, SubSeqProperties
  <2> QED BY <1>1, <1>2, <2>2, SeqEqual
<1>7. n \in 0 .. n /\ \A i \in 1 .. n : i - 1 \in 0 .. n
  OBVIOUS
<1>8. SubSeq(more, 1, n) = got
  BY <1>5, <1>6, <1>7
<1>9. \A i \in 1 .. n : SubSeq(more, 1, i - 1) = SubSeq(got, 1, i - 1)
  BY <1>5, <1>7
<1> QED BY <1>1, <1>3, <1>4, <1>8, <1>9 DEF Listed, more

\* A call as it goes on after rows.
LEMMA ContinuedReads ==
  ASSUME NEW c, NEW op \in OpType, NEW got, Listed(got), version \in Nat,
         NEW since \in 1 .. version,
         since = IF Len(got) <= 1 THEN version ELSE call[c].since,
         \A i \in 1 .. Len(got) : \E w \in since .. version : ReadBy(op, got, i, w)
  PROVE  ReadsOf(Continued(c, op, got), version)
<1> DEFINE status == IF Unreadable(op, got) \/ (got # <<>> /\ ~Fits(op, got)) THEN "value"
                     ELSE IF Len(got) < ReadsNeeded(op, got) THEN "none"
                     ELSE IF op.do = "export_kpis" /\ got # <<>> THEN "type" ELSE "ok"
           r      == Continued(c, op, got)
<1>1. r = [op |-> op, got |-> got, status |-> status, waits |-> FALSE,
           tries |-> 0, logins |-> 0, asked |-> 0, since |-> since, upTo |-> version]
  BY DEF Continued
<1>2. status = "ok" => ~(Len(got) < ReadsNeeded(op, got))
  OBVIOUS
<1> HIDE DEF status, r
<1>3. r.op = op /\ r.got = got /\ r.status = status /\ r.since = since /\ r.upTo = version
  BY <1>1
<1>4. version \in 1 .. version
  OBVIOUS
<1>5. ReadsOf(r, version)
  BY <1>2, <1>3, <1>4 DEF ReadsOf
<1> QED BY <1>5 DEF r

\* What only costs a request, or time, leaves what was read.
LEMMA FailuresKeepReads ==
  ASSUME NEW c \in Calls, Running(c), IsCall(call[c]), ReadsOf(call[c], version)
  PROVE  /\ ReadsOf(Retried(c, 1), version) /\ ReadsOf(LoginFailed(c), version)
         /\ \A asked : ReadsOf([call[c] EXCEPT !.asked = asked, !.waits = FALSE], version)
<1> DEFINE s == call[c]
<1>1. s = [op |-> s.op, got |-> s.got, status |-> s.status, waits |-> s.waits,
           tries |-> s.tries, logins |-> s.logins, asked |-> s.asked,
           since |-> s.since, upTo |-> s.upTo]
  BY DEF IsCall
<1>2. s.status = "none"
  BY DEF Running
<1>3. ASSUME NEW r, r.op = s.op, r.got = s.got, r.since = s.since, r.upTo = s.upTo,
             r.status \in {"none", "retry"}
      PROVE  ReadsOf(r, version)
  BY <1>3 DEF ReadsOf
<1>4. /\ Retried(c, 1).op = s.op /\ Retried(c, 1).got = s.got
      /\ Retried(c, 1).since = s.since /\ Retried(c, 1).upTo = s.upTo
      /\ Retried(c, 1).status \in {"none", "retry"}
  BY <1>1, <1>2 DEF Retried
<1>5. ReadsOf(Retried(c, 1), version)
  BY <1>3, <1>4
<1>6. ASSUME s.logins + 1 # Attempts
      PROVE  ReadsOf([s EXCEPT !.logins = s.logins + 1, !.asked = s.asked + 1, !.waits = TRUE], version)
  <2> DEFINE r == [s EXCEPT !.logins = s.logins + 1, !.asked = s.asked + 1, !.waits = TRUE]
  <2>1. /\ r.op = s.op /\ r.got = s.got /\ r.since = s.since /\ r.upTo = s.upTo
        /\ r.status = s.status
    BY <1>1
  <2> QED BY <1>2, <1>3, <2>1
<1>7. ReadsOf(LoginFailed(c), version)
  BY <1>5, <1>6 DEF LoginFailed
<1>8. ASSUME NEW asked
      PROVE  ReadsOf([s EXCEPT !.asked = asked, !.waits = FALSE], version)
  <2> DEFINE r == [s EXCEPT !.asked = asked, !.waits = FALSE]
  <2>1. /\ r.op = s.op /\ r.got = s.got /\ r.since = s.since /\ r.upTo = s.upTo
        /\ r.status = s.status
    BY <1>1
  <2> QED BY <1>2, <1>3, <2>1
<1> QED BY <1>5, <1>7, <1>8

\* Only the call of a step gets another record.
LEMMA OthersKeepTheirReads ==
  ASSUME CallsAreSound, FiguresAreSound, NEW c \in Calls, NEW r,
         call' = [call EXCEPT ![c] = r], version' = version, ReadsOf(r, version)
  PROVE  FiguresAreSound'
<1>1. \A d \in Calls : call'[d] = IF d = c THEN r ELSE call[d]
  BY DEF CallsAreSound
<1> QED BY <1>1 DEF FiguresAreSound

\* What is asked of the supply chain is still an operation.
LEMMA AskedIsOperation ==
  ASSUME NEW op \in OpType
  PROVE  Asked(op) \in OpType
<1>1. Today \in Int /\ op.back \in Nat
  BY ReportsAssumption DEF OpType
<1>2. PICK start \in Int, end \in Int : start = Today - op.back /\ end = Today
  BY <1>1
<1>3. [op EXCEPT !.start = start, !.end = end] \in OpType
  BY DEF OpType
<1> QED BY <1>2, <1>3 DEF Asked

LEMMA ReadIsSound ==
  ASSUME CallsAreSound, FiguresAreSound, NEW c \in Calls, ReadSucceeds(c)
  PROVE  FiguresAreSound'
<1> DEFINE op  == call[c].op
           old == call[c].got
<1>1. PICK rows \in Returned(op, Len(old) + 1, Matching(ERP, op, old)) :
        call' = [call EXCEPT ![c] = Continued(c, op, Append(old, rows))] /\ version' = version
  BY DEF ReadSucceeds, envVars
<1>2. call[c] # Idle /\ ReadsOf(call[c], version)
  BY DEF ReadSucceeds, Running, FiguresAreSound
<1>3. PICK got : got = Append(old, rows)
  OBVIOUS
<1>4. PICK n \in Nat : n = Len(old) /\ Listed(old)
  BY <1>2 DEF ReadsOf, Listed
<1>5. /\ Listed(got) /\ Len(got) = n + 1 /\ got[n + 1] = rows /\ SubSeq(got, 1, n) = old
       /\ \A i \in 1 .. n : got[i] = old[i] /\ SubSeq(got, 1, i - 1) = SubSeq(old, 1, i - 1)
  BY <1>3, <1>4, OneMoreRead
<1>6. version \in Nat /\ version >= 1
  <2>1. PICK m \in Nat : m = Len(History)
    BY HistoryAssumption, LenProperties
  <2> QED BY <2>1 DEF FiguresAreSound
<1>7. PICK first \in 1 .. version, last \in 1 .. version :
        first = call[c].since /\ last = call[c].upTo /\ first <= last
  BY <1>2, <1>6 DEF ReadsOf
<1>8. PICK since \in 1 .. version : since = IF Len(got) <= 1 THEN version ELSE call[c].since
  BY <1>6, <1>7
<1>9. ASSUME NEW i \in 1 .. Len(got)
      PROVE  \E w \in since .. version : ReadBy(op, got, i, w)
  <2>1. CASE i \in 1 .. n
    <3>1. PICK w \in call[c].since .. call[c].upTo : ReadBy(op, old, i, w)
      BY <1>2, <1>4, <2>1 DEF ReadsOf
    <3>2. ReadBy(op, got, i, w)
      BY <1>4, <1>5, <2>1, <3>1 DEF ReadBy
    <3>3. since = first /\ w \in since .. version
      BY <1>4, <1>5, <1>7, <1>8, <2>1, <3>1
    <3> QED BY <3>2, <3>3
  <2>2. CASE i = n + 1
    <3>1. i - 1 = n
      BY <1>4, <1>5, <2>2
    <3>2. ReadBy(op, got, i, version)
      BY <1>1, <1>4, <1>5, <2>2, <3>1 DEF ReadBy, ERP
    <3>3. version \in since .. version
      BY <1>6, <1>8
    <3> QED BY <3>2, <3>3
  <2> QED BY <1>4, <1>5, <2>1, <2>2
<1>10. ReadsOf(Continued(c, op, got), version)
  <2>1. op \in OpType
    BY <1>2 DEF ReadsOf
  <2> HIDE DEF op
  <2> QED BY <1>5, <1>6, <1>8, <1>9, <2>1, ContinuedReads
<1> QED BY <1>1, <1>3, <1>10, OthersKeepTheirReads

LEMMA FigureStepIsSound ==
  ASSUME CallsAreSound, FiguresAreSound, [Next]_vars
  PROVE  FiguresAreSound'
<1>1. ASSUME UNCHANGED <<call, version>> PROVE FiguresAreSound'
  BY <1>1 DEF FiguresAreSound
<1>2. ASSUME NEW c \in Calls,
             Rejected(c) \/ EscalateRequest(c) \/ ResolveRequest(c) \/ LookRequest(c)
      PROVE  UNCHANGED <<call, version>>
  BY <1>2 DEF Rejected, EscalateRequest, ResolveRequest, LookRequest, Answered, readVars
<1>3. ASSUME NEW c \in Calls, ReadRequest(c) PROVE FiguresAreSound'
  <2>1. PICK r \in Offers[c] : "op" \in DOMAIN r /\ Begin(c, Asked(r.op))
    BY <1>3 DEF ReadRequest
  <2>2. PICK op \in OpType : op = Asked(r.op)
    BY <2>1, OffersAssumption, AskedIsOperation
  <2>3. /\ call[c] = Idle /\ call' = [call EXCEPT ![c] = Continued(c, op, <<>>)]
        /\ version' = version
    BY <2>1, <2>2 DEF Begin, envVars
  <2>4. Listed(<<>>) /\ Len(<<>>) <= 1 /\ \A i \in 1 .. Len(<<>>) : FALSE
    BY DEF Listed
  <2>5. version \in Nat /\ version \in 1 .. version
    <3>1. PICK n \in Nat : n = Len(History)
      BY HistoryAssumption, LenProperties
    <3> QED BY <3>1 DEF FiguresAreSound
  <2>6. ReadsOf(Continued(c, op, <<>>), version)
    BY <2>3, <2>4, <2>5, ContinuedReads
  <2> QED BY <2>3, <2>6, OthersKeepTheirReads
<1>4. ASSUME NEW c \in Calls, Goes(c) PROVE FiguresAreSound'
  <2>1. Attempt(c)
    BY <1>4 DEF Goes
  <2>2. /\ Running(c) /\ version' = version
    BY <2>1 DEF Attempt, Unreachable, Refused, Accepted, ReadSucceeds, ReadFails, envVars
  <2>3. IsCall(call[c]) /\ ReadsOf(call[c], version)
    BY <2>2 DEF Running, CallsAreSound, FiguresAreSound
  <2>4. CASE Unreachable(c) \/ Refused(c)
    <3>1. call' = [call EXCEPT ![c] = LoginFailed(c)]
      BY <2>4 DEF Unreachable, Refused
    <3> QED BY <2>2, <2>3, <3>1, FailuresKeepReads, OthersKeepTheirReads
  <2>5. CASE Accepted(c)
    <3>1. PICK asked : call' = [call EXCEPT ![c] = [call[c] EXCEPT !.asked = asked, !.waits = FALSE]]
      BY <2>5 DEF Accepted
    <3> QED BY <2>2, <2>3, <3>1, FailuresKeepReads, OthersKeepTheirReads
  <2>6. CASE ReadFails(c)
    <3>1. call' = [call EXCEPT ![c] = Retried(c, 1)]
      BY <2>6 DEF ReadFails
    <3> QED BY <2>2, <2>3, <3>1, FailuresKeepReads, OthersKeepTheirReads
  <2> QED BY <2>1, <2>4, <2>5, <2>6, ReadIsSound DEF Attempt
<1>5. ASSUME Changes PROVE FiguresAreSound'
  <2>1. PICK n \in Nat : n = Len(History)
    BY HistoryAssumption, LenProperties
  <2>2. version' = version + 1 /\ call' = call /\ version < n /\ version \in 1 .. n
    BY <1>5, <2>1 DEF Changes, FiguresAreSound
  <2>3. \A r : ReadsOf(r, version) => ReadsOf(r, version')
    BY <2>2 DEF ReadsOf
  <2> QED BY <2>1, <2>2, <2>3 DEF FiguresAreSound
<1>6. ASSUME Outage \/ PasswordChange PROVE UNCHANGED <<call, version>>
  BY <1>6 DEF Outage, PasswordChange
<1>7. CASE UNCHANGED vars
  BY <1>1, <1>7 DEF vars, readVars
<1> QED BY <1>1, <1>2, <1>3, <1>4, <1>5, <1>6, <1>7 DEF Next, Environment

LEMMA FiguresHold == Spec => [](CallsAreSound /\ FiguresAreSound)
<1>1. Init => CallsAreSound /\ FiguresAreSound
  <2>1. Len(History) \in Nat /\ Len(History) # 0
    BY HistoryAssumption, LenProperties, EmptySeq
  <2> QED BY <2>1 DEF Init, ReadsInit, CallsAreSound, FiguresAreSound
<1>2. CallsAreSound /\ FiguresAreSound /\ [Next]_vars => (CallsAreSound /\ FiguresAreSound)'
  BY StepIsSound, FigureStepIsSound
<1> QED BY <1>1, <1>2, PTL DEF Spec

-----------------------------------------------------------------------------
(* What the tables are, and what a read got of them.                       *)

LEMMA OperationFields ==
  ASSUME NEW op \in OpType
  PROVE  /\ op.do \in OpNames
         /\ op.day \in Int /\ op.start \in Int /\ op.end \in Int /\ op.threshold \in Int
         /\ op.back \in Nat /\ op.ahead \in Nat /\ op.branches \in Seq(STRING)
BY DEF OpType

\* The states of the ERP by which a call is judged.
LEMMA TablesAreKeyed ==
  ASSUME FiguresAreSound, NEW c \in Calls, call[c] # Idle, NEW v \in During(c)
  PROVE  History[v] \in TablesType /\ Keyed(History[v])
<1>1. v \in 1 .. Len(History)
  <2>1. PICK n \in Nat : n = Len(History)
    BY HistoryAssumption, LenProperties
  <2> QED BY <2>1 DEF FiguresAreSound, ReadsOf, During
<1> QED BY <1>1, HistoryAssumption, ElementOfSeq

LEMMA LastIsDuring ==
  ASSUME FiguresAreSound, NEW c \in Calls, call[c] # Idle
  PROVE  call[c].upTo \in During(c) /\ Tables(c) \in TablesType /\ Keyed(Tables(c))
<1>1. call[c].upTo \in During(c)
  <2>1. PICK n \in Nat : n = Len(History)
    BY HistoryAssumption, LenProperties
  <2> QED BY <2>1 DEF FiguresAreSound, ReadsOf, During
<1> QED BY <1>1, TablesAreKeyed DEF Tables

\* No read has more than the code's largest limit.
LEMMA LimitsAreSmall ==
  ASSUME NEW op \in OpType, NEW i
  PROVE  /\ LargestLimit \in Nat /\ Limit(op, i) \in Nat
         /\ Limit(op, i) >= 1 /\ Limit(op, i) <= LargestLimit
<1>1. PICK most \in Nat : most = LargestLimit
  BY DEF LargestLimit
<1>2. PICK n \in ReadNames : Limit(op, i) = Limits[n]
  BY OperationFields DEF Limit, ReadNames
<1>3. PICK k \in 1 .. most : k = Limits[n]
  BY <1>1, ReportsAssumption
<1> QED BY <1>1, <1>2, <1>3

\* A set that a read cuts off has as many rows as the limit allows.
LEMMA ReturnedInFull ==
  ASSUME NEW op \in OpType, NEW i, NEW rows, NEW got \in Returned(op, i, rows)
  PROVE  got \subseteq rows /\ (Cardinality(got) < Limit(op, i) => got = rows)
<1>1. Limit(op, i) \in Nat
  BY LimitsAreSmall
<1> QED BY <1>1 DEF Returned, kSubset

\* A call that is done, and where its reads are from.
LEMMA DoneReads ==
  ASSUME FiguresAreSound, NEW c \in Calls, Done(c)
  PROVE  /\ call[c] # Idle /\ call[c].op \in OpType /\ Listed(call[c].got)
         /\ ~(Len(call[c].got) < ReadsNeeded(call[c].op, call[c].got))
         /\ \A i \in 1 .. Len(call[c].got) :
               \E w \in During(c) : ReadBy(call[c].op, call[c].got, i, w)
BY DEF Done, Finished, FiguresAreSound, ReadsOf, During

\* Where only one state was seen and nothing was cut off, a read is what matched.
LEMMA JudgedReads ==
  ASSUME FiguresAreSound, NEW c \in Calls, NEW names, Judged(c, names)
  PROVE  /\ Done(c) /\ call[c] # Idle /\ call[c].op.do \in names
         /\ call[c].op \in OpType /\ Listed(call[c].got)
         /\ ~(Len(call[c].got) < ReadsNeeded(call[c].op, call[c].got))
         /\ \A i \in 1 .. Len(call[c].got) :
               /\ call[c].got[i] = Matching(Tables(c), call[c].op, SubSeq(call[c].got, 1, i - 1))
               /\ Cardinality(call[c].got[i]) < Limit(call[c].op, i)
<1>1. Done(c) /\ call[c].op.do \in names /\ call[c].since = call[c].upTo
  BY DEF Judged
<1>2. PICK got : got = call[c].got /\ Listed(got)
  BY <1>1, DoneReads
<1>3. PICK op \in OpType : op = call[c].op
  BY <1>1, DoneReads
<1>4. PICK last \in Nat : last = call[c].upTo /\ last = call[c].since
  <2>1. PICK n \in Nat : n = Len(History)
    BY HistoryAssumption, LenProperties
  <2> QED BY <1>1, <2>1 DEF Done, Finished, FiguresAreSound, ReadsOf
<1>5. \A i \in 1 .. Len(got) : Cardinality(got[i]) < Limit(op, i)
  BY <1>2, <1>3 DEF Judged, Listed
<1>6. ASSUME NEW i \in 1 .. Len(got)
      PROVE  got[i] = Matching(Tables(c), op, SubSeq(got, 1, i - 1))
  <2>1. PICK w \in During(c) : ReadBy(op, got, i, w)
    BY <1>1, <1>2, <1>3, DoneReads
  <2>2. w = last
    BY <1>4, <2>1 DEF During
  <2>3. got[i] \in Returned(op, i, Matching(Tables(c), op, SubSeq(got, 1, i - 1)))
    BY <1>4, <2>1, <2>2 DEF ReadBy, Tables
  <2> QED BY <1>5, <2>3, ReturnedInFull
<1> QED BY <1>1, <1>2, <1>3, <1>5, <1>6, DoneReads

\* Operations that make one read.
Single == OpNames \ {"kpis", "export_kpis", "discounts", "trends", "compare"}

LEMMA SingleRead ==
  ASSUME FiguresAreSound, NEW c \in Calls, Done(c), call[c].op.do \in Single
  PROVE  /\ 1 \in 1 .. Len(call[c].got) /\ SubSeq(call[c].got, 1, 1 - 1) = <<>>
         /\ \E w \in During(c) :
               call[c].got[1] \in Returned(call[c].op, 1, Matching(History[w], call[c].op, <<>>))
<1>1. PICK n \in Nat : n = Len(call[c].got)
  BY DoneReads DEF Listed
<1>2. ReadsNeeded(call[c].op, call[c].got) = 1
  BY DEF ReadsNeeded, Single
<1>3. ~(n < 1)
  BY <1>1, <1>2, DoneReads
<1>4. 1 \in 1 .. Len(call[c].got) /\ SubSeq(call[c].got, 1, 1 - 1) = <<>>
  BY <1>1, <1>3, SubSeqEmpty
<1> QED BY <1>4, DoneReads DEF ReadBy

\* The only read of such an operation, if it is judged.
LEMMA SingleRows ==
  ASSUME FiguresAreSound, NEW c \in Calls, NEW names, Judged(c, names), names \subseteq Single
  PROVE  /\ call[c].got[1] = Matching(Tables(c), call[c].op, <<>>)
         /\ call[c].op \in OpType /\ call[c].op.do \in names
         /\ Tables(c) \in TablesType /\ Keyed(Tables(c))
<1>1. Done(c) /\ call[c] # Idle /\ call[c].op.do \in Single
  BY JudgedReads
<1> QED BY <1>1, SingleRead, JudgedReads, LastIsDuring

\* The fields of the rows that figures are made of.
LEMMA RowFields ==
  ASSUME NEW t \in TablesType, Keyed(t)
  PROVE  /\ IsFiniteSet(t.orders) /\ IsFiniteSet(t.promos) /\ IsFiniteSet(t.lines)
         /\ IsFiniteSet(t.products)
         /\ \A o \in t.orders : o.time \in Nat /\ o.amount \in Int
         /\ \A q \in t.quants : q.quantity \in Int /\ q.reserved \in Nat
         /\ \A p \in t.products : p.list \in Int /\ p.cost \in Int
         /\ \A l \in t.lines : l.time \in Nat /\ l.amount \in Int
         /\ \A p \in t.promos : p.id \in Nat
<1>1. DOMAIN t = {"orders", "quants", "promos", "products", "lines", "partners", "purchases", "branches"}
  BY DEF TablesType
<1>2. IsFiniteSet(t.orders) /\ IsFiniteSet(t.promos) /\ IsFiniteSet(t.lines) /\ IsFiniteSet(t.products)
  BY <1>1 DEF Keyed
<1>3. \A o \in t.orders : o.time \in Nat /\ o.amount \in Int
  BY DEF TablesType
<1>4. \A q \in t.quants : q.quantity \in Int /\ q.reserved \in Nat
  BY DEF TablesType
<1>5. \A p \in t.products : p.list \in Int /\ p.cost \in Int
  BY DEF TablesType
<1>6. \A l \in t.lines : l.time \in Nat /\ l.amount \in Int
  BY DEF TablesType
<1>7. \A p \in t.promos : p.id \in Nat
  BY DEF TablesType
<1> QED BY <1>2, <1>3, <1>4, <1>5, <1>6, <1>7

-----------------------------------------------------------------------------
(* Stock.                                                                  *)

LEMMA MaxOfTwo ==
  ASSUME NEW a \in Int, NEW b \in Int
  PROVE  Max({a, b}) = IF a >= b THEN a ELSE b
<1>1. \E x \in {a, b} : \A y \in {a, b} : x >= y
  OBVIOUS
<1> QED BY <1>1 DEF Max

\* The alerts are for the shelves that hold less than the threshold, and each
\* restores its own.
LEMMA AlertRows ==
  ASSUME FiguresAreSound, NEW c \in Calls, Judged(c, {"replenish"})
  PROVE  LET limit == call[c].op.threshold alerts == Alerts(call[c].got[1], limit)
         IN  /\ \A q \in Tables(c).quants :
                   q.quantity < limit => \E a \in alerts : OfShelf(a, q)
             /\ \A a \in alerts : /\ \E q \in Tables(c).quants : Available(q) < limit /\ OfShelf(a, q)
                                  /\ a.available + a.suggested >= 2 * limit
                                  /\ a.urgency = "critical" <=> a.available <= 0
<1>1. /\ call[c].got[1] = Matching(Tables(c), call[c].op, <<>>)
      /\ call[c].op \in OpType /\ call[c].op.do = "replenish"
      /\ Tables(c) \in TablesType /\ Keyed(Tables(c))
  BY SingleRows DEF Single, OpNames
<1>2. PICK limit \in Int : limit = call[c].op.threshold
  BY <1>1, OperationFields
<1>3. PICK t \in TablesType : t = Tables(c) /\ Keyed(t)
  BY <1>1
<1>4. PICK rows : rows = call[c].got[1] /\ rows = {q \in t.quants : q.quantity < limit}
  <2>1. Matching(t, call[c].op, <<>>) = ReplenishmentRows(t, limit)
    BY <1>1, <1>2 DEF Matching
  <2> QED BY <1>1, <1>3, <2>1 DEF ReplenishmentRows
<1>5. \A q \in t.quants : q.quantity \in Int /\ q.reserved \in Nat
  BY <1>3, RowFields
<1>6. LowStock(rows, limit) = rows /\ \A q \in rows : Available(q) < limit
  BY <1>4, <1>5 DEF LowStock, Available
<1> DEFINE alert(q) == [product |-> q.product, branch |-> q.branch, available |-> Available(q),
                        suggested |-> Max({limit * 2 - Available(q), limit}),
                        urgency |-> IF Available(q) <= 0 THEN "critical"
                                    ELSE IF Available(q) < 5 THEN "high" ELSE "medium"]
<1>7. Alerts(rows, limit) = {alert(q) : q \in rows}
  BY <1>6 DEF Alerts
<1>8. ASSUME NEW q \in rows
      PROVE  /\ alert(q).product = q.product /\ alert(q).branch = q.branch
             /\ alert(q).available + alert(q).suggested >= 2 * limit
             /\ alert(q).urgency = "critical" <=> alert(q).available <= 0
  <2>1. PICK a \in Int : a = Available(q)
    BY <1>4, <1>5 DEF Available
  <2>2. PICK m \in Int : m = Max({limit * 2 - a, limit}) /\ a + m >= 2 * limit
    BY MaxOfTwo
  <2>3. PICK u : /\ u = IF a <= 0 THEN "critical" ELSE IF a < 5 THEN "high" ELSE "medium"
                 /\ u = "critical" <=> a <= 0
    OBVIOUS
  <2>4. alert(q) = [product |-> q.product, branch |-> q.branch, available |-> a,
                    suggested |-> m, urgency |-> u]
    BY <2>1, <2>2, <2>3
  <2> HIDE DEF alert
  <2> QED BY <2>2, <2>3, <2>4
<1> HIDE DEF alert
<1>9. ASSUME NEW q \in t.quants, q.quantity < limit
      PROVE  \E a \in Alerts(rows, limit) : OfShelf(a, q)
  <2>1. q \in rows
    BY <1>4, <1>9
  <2> QED BY <1>7, <1>8, <2>1 DEF OfShelf
<1>10. ASSUME NEW a \in Alerts(rows, limit)
       PROVE  /\ \E q \in t.quants : Available(q) < limit /\ OfShelf(a, q)
              /\ a.available + a.suggested >= 2 * limit
              /\ a.urgency = "critical" <=> a.available <= 0
  <2>1. PICK q \in rows : a = alert(q)
    BY <1>7
  <2>2. q \in t.quants /\ Available(q) < limit /\ OfShelf(a, q)
    BY <1>4, <1>6, <1>8, <2>1 DEF OfShelf
  <2> QED BY <1>8, <2>1, <2>2
<1> QED BY <1>2, <1>3, <1>4, <1>9, <1>10

\* What the low-stock check and that of the repository name.
LEMMA NamedRows ==
  ASSUME FiguresAreSound, NEW c \in Calls, NEW names, Judged(c, names),
         names \subseteq {"lowstock", "repo_low"}
  PROVE  Named(c) = {q \in Tables(c).quants :
                       InScope(c, q) /\ Available(q) < call[c].op.threshold}
<1>1. /\ call[c].got[1] = Matching(Tables(c), call[c].op, <<>>)
      /\ call[c].op.do \in {"lowstock", "repo_low"}
  <2>1. names \subseteq Single
    BY DEF Single, OpNames
  <2> QED BY <2>1, SingleRows
<1>2. CASE call[c].op.do = "lowstock"
  <2>1. Matching(Tables(c), call[c].op, <<>>) = InventoryStatus(Tables(c), Everywhere)
    BY <1>2 DEF Matching
  <2> QED BY <1>1, <1>2, <2>1 DEF InventoryStatus, Named, InScope, LowStock
<1>3. CASE call[c].op.do = "repo_low"
  <2>1. Matching(Tables(c), call[c].op, <<>>) = RepoStockLevels(Tables(c), call[c].op.branch, {})
    BY <1>3 DEF Matching
  <2> QED BY <1>1, <1>3, <2>1 DEF RepoStockLevels, Named, InScope, RepoLowStock, LowStock
<1> QED BY <1>1, <1>2, <1>3

\* For every state of the stock and every threshold: alerts restore it and are
\* only for shelves that the low-stock checks name, a named shelf that holds
\* less than the threshold has one, and the two checks name the same
\* (analytics_service.py, supply_chain_service.py, inventory_repository.py).
THEOREM StockIsJudgedSoundly == Spec => []StockIsJudgedAlike
<1>1. CallsAreSound /\ FiguresAreSound => StockIsJudgedAlike
  <2> SUFFICES ASSUME FiguresAreSound PROVE StockIsJudgedAlike
    OBVIOUS
  <2>1. AlertsRestoreStock
    BY AlertRows DEF AlertsRestoreStock
  <2>2. ASSUME NEW c \in Calls, NEW d \in Calls, Judged(c, {"replenish"}),
               Judged(d, {"lowstock", "repo_low"}), SameStock(c, d),
               NEW alerts, alerts = Alerts(call[c].got[1], call[c].op.threshold)
        PROVE  /\ \A a \in alerts : InScope(d, a) => \E q \in Named(d) : OfShelf(a, q)
               /\ \A q \in Named(d) :
                     q.quantity < call[c].op.threshold => \E a \in alerts : OfShelf(a, q)
    <3>1. Tables(c) = Tables(d) /\ call[c].op.threshold = call[d].op.threshold
      BY <2>2 DEF Tables, SameStock
    <3>2. Named(d) = {q \in Tables(d).quants :
                        InScope(d, q) /\ Available(q) < call[d].op.threshold}
      BY <2>2, NamedRows
    <3>3. ASSUME NEW a \in alerts, InScope(d, a)
          PROVE  \E q \in Named(d) : OfShelf(a, q)
      <4>1. PICK q \in Tables(c).quants : Available(q) < call[c].op.threshold /\ OfShelf(a, q)
        BY <2>2, AlertRows
      <4>2. InScope(d, q)
        BY <3>3, <4>1 DEF InScope, OfShelf
      <4> QED BY <3>1, <3>2, <4>1, <4>2
    <3>4. ASSUME NEW q \in Named(d), q.quantity < call[c].op.threshold
          PROVE  \E a \in alerts : OfShelf(a, q)
      <4>1. q \in Tables(c).quants
        BY <3>1, <3>2
      <4> QED BY <2>2, <3>4, <4>1, AlertRows
    <3> QED BY <3>3, <3>4
  <2>3. AlertsAreNamed
    BY <2>2 DEF AlertsAreNamed
  <2>4. ASSUME NEW c \in Calls, NEW d \in Calls, Judged(c, {"lowstock"}), Judged(d, {"repo_low"}),
               SameStock(c, d)
        PROVE  Named(d) = {q \in Named(c) : InScope(d, q)}
    <3>1. Tables(c) = Tables(d) /\ call[c].op.threshold = call[d].op.threshold
      BY <2>4 DEF Tables, SameStock
    <3>2. Named(d) = {q \in Tables(d).quants :
                        InScope(d, q) /\ Available(q) < call[d].op.threshold}
      BY <2>4, NamedRows
    <3>3. Named(c) = {q \in Tables(c).quants :
                        InScope(c, q) /\ Available(q) < call[c].op.threshold}
      BY <2>4, NamedRows
    <3>4. call[c].op.do = "lowstock"
      BY <2>4, JudgedReads
    <3> QED BY <3>1, <3>2, <3>3, <3>4 DEF InScope
  <2>5. LowStockIsNamedAlike
    BY <2>4 DEF LowStockIsNamedAlike
  <2> QED BY <2>1, <2>3, <2>5 DEF StockIsJudgedAlike
<1> QED BY <1>1, FiguresHold, PTL

-----------------------------------------------------------------------------
(* Quotients.                                                              *)

LEMMA Quotient ==
  ASSUME NEW n \in Int, NEW d \in Nat \ {0}
  PROVE  n \div d \in Int /\ d * (n \div d) <= n /\ n < d * (n \div d) + d
OBVIOUS

LEMMA Multiple ==
  ASSUME NEW d \in Nat \ {0}, NEW q \in Int
  PROVE  /\ d * q \in Int
         /\ (q >= 1 => d * q >= d) /\ (q <= 0 => d * q <= 0)
         /\ (q <= -1 => d * q <= -d) /\ (q >= 0 => d * q >= 0)
OBVIOUS

LEMMA QuotientSign ==
  ASSUME NEW n \in Int, NEW d \in Nat \ {0}
  PROVE  (n \div d > 0 <=> n >= d) /\ (n \div d < 0 <=> n < 0)
<1>1. PICK q \in Int : q = n \div d
  BY Quotient
<1>2. PICK m \in Int : m = d * q /\ m <= n /\ n < m + d
  BY Quotient, <1>1
<1>3. (q >= 1 => m >= d) /\ (q <= 0 => m <= 0) /\ (q <= -1 => m <= -d) /\ (q >= 0 => m >= 0)
  BY <1>2, Multiple
<1> QED BY <1>1, <1>2, <1>3

LEMMA QuotientAbove ==
  ASSUME NEW n \in Int, NEW d \in Nat \ {0}, n \div d > 5000
  PROVE  n >= 5001 * d
<1>1. PICK q \in Int : q = n \div d /\ q >= 5001
  BY Quotient
<1>2. PICK m \in Int : m = d * q /\ m <= n
  BY Quotient, <1>1
<1>3. m = 5001 * d + d * (q - 5001)
  BY <1>1, <1>2
<1>4. d * (q - 5001) >= 0 /\ d * (q - 5001) \in Int
  BY <1>1, Multiple
<1> QED BY <1>2, <1>3, <1>4

-----------------------------------------------------------------------------
(* Answers.                                                                *)

\* A margin above one half leaves a cut of a tenth above the cost.
LEMMA CutKeepsMargin ==
  ASSUME NEW p, p.list \in Int, p.cost \in Int
  PROVE  /\ Margin(p) \in Int
         /\ Margin(p) > 5000 => 9 * p.list > 10 * p.cost
<1>1. PICK list \in Int, cost \in Int : list = p.list /\ cost = p.cost
  OBVIOUS
<1>2. CASE list > 0
  <2>1. PICK n \in Int, d \in Nat \ {0} :
          n = 2 * 10000 * (list - cost) + list /\ d = 2 * list
    BY <1>2
  <2>2. Margin(p) = n \div d
    BY <1>1, <1>2, <2>1 DEF Margin
  <2>3. n \div d > 5000 => n >= 5001 * d
    BY <2>1, QuotientAbove
  <2>4. n >= 5001 * d => 9 * list > 10 * cost
    BY <1>2, <2>1
  <2>5. n \div d \in Int
    BY <2>1, Quotient
  <2> QED BY <1>1, <2>2, <2>3, <2>4, <2>5
<1>3. CASE ~(list > 0)
  BY <1>1, <1>3 DEF Margin
<1> QED BY <1>2, <1>3

LEMMA AdviceIsSafe ==
  ASSUME FiguresAreSound, NEW c \in Calls, Done(c), call[c].op.do = "recommend"
  PROVE  LET advice == Recommendations(call[c].got[1])
         IN  \E v \in During(c) :
                /\ \A a \in advice : \E p \in History[v].products :
                      a.id = p.id /\ (a.risk = "low" => a.tenths > 10 * p.cost)
                /\ \A a, b \in advice : a.id = b.id => a = b
<1>1. PICK v \in During(c) :
         call[c].got[1] \in Returned(call[c].op, 1, Matching(History[v], call[c].op, <<>>))
  BY SingleRead DEF Single, OpNames
<1>2. PICK t \in TablesType : t = History[v] /\ Keyed(t)
  BY TablesAreKeyed, DoneReads
<1>3. PICK rows : rows = call[c].got[1] /\ rows \subseteq t.products
  <2>1. call[c].got[1] \subseteq Matching(t, call[c].op, <<>>)
    BY <1>1, <1>2, DoneReads, ReturnedInFull
  <2>2. Matching(t, call[c].op, <<>>) = ProductPrices(t, call[c].op)
    BY DEF Matching
  <2> QED BY <2>1, <2>2 DEF ProductPrices
<1>4. \A p, q \in rows : p.id = q.id => p = q
  BY <1>2, <1>3 DEF Keyed
<1>5. \A p \in rows : /\ p.list \in Int /\ p.cost \in Int /\ Margin(p) \in Int
                      /\ Margin(p) > 5000 => 9 * p.list > 10 * p.cost
  BY <1>2, <1>3, RowFields, CutKeepsMargin
<1> DEFINE rise(p) == [id |-> p.id, risk |-> "medium", tenths |-> 11 * p.list]
           cut(p)  == [id |-> p.id, risk |-> "low", tenths |-> 9 * p.list]
<1>6. Recommendations(rows) = {rise(p) : p \in {x \in rows : Margin(x) < 1000}}
                                \cup {cut(p) : p \in {x \in rows : Margin(x) > 5000}}
  BY DEF Recommendations
<1>7. \A p : /\ rise(p).id = p.id /\ rise(p).risk = "medium"
             /\ cut(p).id = p.id /\ cut(p).risk = "low" /\ cut(p).tenths = 9 * p.list
  OBVIOUS
<1> HIDE DEF rise, cut
<1> DEFINE Raised(a, p) == a = rise(p) /\ a.risk = "medium" /\ Margin(p) < 1000
           Lowered(a, p) == /\ a = cut(p) /\ a.risk = "low" /\ a.tenths = 9 * p.list
                            /\ Margin(p) > 5000
<1>8. ASSUME NEW a \in Recommendations(rows)
      PROVE  \E p \in rows : a.id = p.id /\ (Raised(a, p) \/ Lowered(a, p))
  BY <1>6, <1>7
<1>9. ASSUME NEW a \in Recommendations(rows)
      PROVE  \E p \in t.products : a.id = p.id /\ (a.risk = "low" => a.tenths > 10 * p.cost)
  <2>1. PICK p \in rows : a.id = p.id /\ (Raised(a, p) \/ Lowered(a, p))
    BY <1>8
  <2>2. a.risk = "low" => a.tenths > 10 * p.cost
    BY <1>5, <2>1
  <2> QED BY <1>3, <2>1, <2>2
<1>10. \A a, b : \A p \in rows :
         (Raised(a, p) \/ Lowered(a, p)) /\ (Raised(b, p) \/ Lowered(b, p)) => a = b
  BY <1>5
<1>11. ASSUME NEW a \in Recommendations(rows), NEW b \in Recommendations(rows), a.id = b.id
       PROVE  a = b
  <2> HIDE DEF Raised, Lowered
  <2>1. PICK p \in rows : a.id = p.id /\ (Raised(a, p) \/ Lowered(a, p))
    BY <1>8
  <2>2. PICK q \in rows : b.id = q.id /\ (Raised(b, q) \/ Lowered(b, q))
    BY <1>8
  <2>3. p = q
    BY <1>4, <1>11, <2>1, <2>2
  <2> QED BY <1>10, <2>1, <2>2, <2>3
<1> QED BY <1>2, <1>3, <1>9, <1>11

-----------------------------------------------------------------------------
(* Promotions.                                                             *)

Rank(promos, p) == Cardinality({q \in promos : q.id < p.id})

\* Promotions with ids of their own have the places from 0 on.
LEMMA Ranks ==
  ASSUME NEW promos, IsFiniteSet(promos), \A p \in promos : p.id \in Nat,
         \A p, q \in promos : p.id = q.id => p = q, NEW n \in Nat, n = Cardinality(promos)
  PROVE  /\ \A p \in promos : Rank(promos, p) \in 0 .. (n - 1)
         /\ \A p, q \in promos : Rank(promos, p) = Rank(promos, q) => p = q
         /\ \A k \in 0 .. (n - 1) : \E p \in promos : Rank(promos, p) = k
<1> DEFINE Below(p) == {q \in promos : q.id < p.id}
<1>1. ASSUME NEW p \in promos
      PROVE  Rank(promos, p) = Cardinality(Below(p)) /\ IsFiniteSet(Below(p)) /\ Rank(promos, p) \in 0 .. (n - 1)
  <2>1. p \notin Below(p) /\ Below(p) \in SUBSET promos /\ Below(p) # promos
    OBVIOUS
  <2>2. PICK S : S = Below(p) /\ S \in SUBSET promos /\ S # promos
    BY <2>1
  <2>3. IsFiniteSet(S) /\ Cardinality(S) <= n /\ Cardinality(S) # n
    BY <2>2, FS_Subset
  <2>4. Cardinality(S) \in Nat
    BY <2>3, FS_CardinalityType
  <2>5. Rank(promos, p) = Cardinality(S)
    BY <2>2 DEF Rank
  <2>6. Rank(promos, p) \in 0 .. (n - 1)
    BY <2>3, <2>4, <2>5
  <2> HIDE DEF Below
  <2> QED BY <2>2, <2>3, <2>5, <2>6
<1>2. ASSUME NEW p \in promos, NEW q \in promos, p.id < q.id
      PROVE  Rank(promos, p) < Rank(promos, q)
  <2>1. Below(p) \in SUBSET Below(q) /\ p \in Below(q) /\ p \notin Below(p)
    BY <1>2
  <2>2. PICK S, T : S = Below(p) /\ T = Below(q) /\ S \in SUBSET T /\ S # T
    BY <2>1
  <2>3. IsFiniteSet(T) /\ Rank(promos, p) = Cardinality(S) /\ Rank(promos, q) = Cardinality(T)
    <3> HIDE DEF Below
    <3> QED BY <1>1, <2>2
  <2>4. Cardinality(S) <= Cardinality(T) /\ Cardinality(S) # Cardinality(T)
    BY <2>2, <2>3, FS_Subset
  <2>5. Cardinality(S) \in Nat /\ Cardinality(T) \in Nat
    BY <2>2, <2>3, FS_Subset, FS_CardinalityType
  <2> QED BY <2>3, <2>4, <2>5
<1> HIDE DEF Below
<1>3. ASSUME NEW p \in promos, NEW q \in promos, Rank(promos, p) = Rank(promos, q)
      PROVE  p = q
  <2>1. Rank(promos, p) \in Nat /\ Rank(promos, q) \in Nat /\ p.id \in Nat /\ q.id \in Nat
    BY <1>1
  <2>2. ~(p.id < q.id) /\ ~(q.id < p.id)
    BY <1>2, <1>3, <2>1
  <2> QED BY <2>1, <2>2
<1>4. ASSUME NEW k \in 0 .. (n - 1)
      PROVE  \E p \in promos : Rank(promos, p) = k
  <2>1. PICK f : f = [p \in promos |-> Rank(promos, p)]
    OBVIOUS
  <2>2. PICK T : T = 0 .. (n - 1) /\ IsFiniteSet(T) /\ Cardinality(T) = n
    BY FS_Interval
  <2>3. f \in Injection(promos, T)
    <3>1. f \in [promos -> T]
      BY <1>1, <2>1, <2>2
    <3>2. \A p, q \in promos : f[p] = f[q] => p = q
      BY <1>3, <2>1
    <3> QED BY <2>1, <3>1, <3>2 DEF Injection, IsInjective
  <2>4. f \in Surjection(promos, T)
    BY <2>2, <2>3, FS_Injection
  <2>5. PICK p \in promos : f[p] = k
    BY <2>2, <2>4 DEF Surjection
  <2> QED BY <2>1, <2>5
<1> QED BY <1>1, <1>3, <1>4

\* The order in which they come has each of them, once.
LEMMA OrderIsComplete ==
  ASSUME NEW promos, IsFiniteSet(promos), \A p \in promos : p.id \in Nat,
         \A p, q \in promos : p.id = q.id => p = q, NEW n \in Nat, n = Cardinality(promos)
  PROVE  /\ Len(InOrder(promos)) = n
         /\ \A i \in 1 .. n : InOrder(promos)[i] \in promos
         /\ \A i, j \in 1 .. n : InOrder(promos)[i].id = InOrder(promos)[j].id => i = j
         /\ \A p \in promos : \E i \in 1 .. n : InOrder(promos)[i] = p
<1> DEFINE Place(i) == CHOOSE p \in promos : Rank(promos, p) = i - 1
<1>1. PICK order : order = InOrder(promos) /\ order = [i \in 1 .. n |-> Place(i)]
  BY DEF InOrder, Rank
<1>2. ASSUME NEW i \in 1 .. n
      PROVE  Place(i) \in promos /\ Rank(promos, Place(i)) = i - 1
  <2>1. i - 1 \in 0 .. (n - 1)
    OBVIOUS
  <2>2. \E p \in promos : Rank(promos, p) = i - 1
    BY <2>1, Ranks
  <2> QED BY <2>2
<1> HIDE DEF Place
<1>3. \A i \in 1 .. n : order[i] \in promos /\ Rank(promos, order[i]) = i - 1
  BY <1>1, <1>2
<1>4. ASSUME NEW i \in 1 .. n, NEW j \in 1 .. n, order[i].id = order[j].id
      PROVE  i = j
  <2>1. order[i] = order[j]
    BY <1>3, <1>4
  <2>2. i - 1 = j - 1
    BY <1>3, <2>1
  <2> QED BY <2>2
<1>5. ASSUME NEW p \in promos
      PROVE  \E i \in 1 .. n : order[i] = p
  <2>1. PICK k \in 0 .. (n - 1) : k = Rank(promos, p)
    BY Ranks
  <2>2. k + 1 \in 1 .. n /\ (k + 1) - 1 = k
    OBVIOUS
  <2>3. order[k + 1] \in promos /\ Rank(promos, order[k + 1]) = Rank(promos, p)
    BY <1>3, <2>1, <2>2
  <2>4. order[k + 1] = p
    BY <2>3, Ranks
  <2> QED BY <2>2, <2>4
<1>6. Len(order) = n
  BY <1>1
<1> QED BY <1>1, <1>3, <1>4, <1>5, <1>6

LEMMA PrefixOfReads ==
  ASSUME NEW got, Listed(got), NEW k \in 1 .. Len(got)
  PROVE  /\ Len(SubSeq(got, 1, k - 1)) + 1 = k
         /\ k # 1 => SubSeq(got, 1, k - 1)[1] = got[1]
<1> DEFINE S == {got[j] : j \in 1 .. Len(got)}
<1>1. PICK n \in Nat : n = Len(got)
  BY DEF Listed
<1>2. \A j \in 1 .. (k - 1) : got[j] \in S
  BY <1>1
<1> HIDE DEF S
<1>3. /\ Len(SubSeq(got, 1, k - 1)) = k - 1
      /\ \A j \in 1 .. (k - 1) : SubSeq(got, 1, k - 1)[j] = got[j]
  BY <1>1, <1>2, SubSeqProperties
<1> QED BY <1>1, <1>3

\* The promotions of an answer are those of some state of the ERP during the
\* call, and so are the sales and the product of each of them.
LEMMA PromotionReads ==
  ASSUME FiguresAreSound, NEW c \in Calls, Done(c), call[c].op.do = "discounts"
  PROVE  /\ \E v \in During(c) :
               call[c].got[1] \in Returned(call[c].op, 1, Promotions(History[v], call[c].op))
         /\ Cardinality(call[c].got[1]) \in Nat
         /\ \A i \in 1 .. Cardinality(call[c].got[1]) :
               LET promo == InOrder(call[c].got[1])[i]
               IN  /\ \E w \in During(c) :
                         call[c].got[2 * i] \in Returned(call[c].op, 2 * i,
                                                         PromotionSales(History[w], call[c].op, promo))
                   /\ \E w \in During(c) :
                         call[c].got[2 * i + 1] \in Returned(call[c].op, 2 * i + 1,
                                                             PromotedProduct(History[w], promo))
<1>1. PICK got : got = call[c].got /\ Listed(got)
  BY DoneReads
<1>2. PICK op \in OpType : op = call[c].op /\ op.do = "discounts"
  BY DoneReads
<1>3. \A k \in 1 .. Len(got) : \E w \in During(c) : ReadBy(op, got, k, w)
  BY <1>1, <1>2, DoneReads
<1>4. PICK m \in Nat : m = Len(got) /\ ~(m < ReadsNeeded(op, got))
  BY <1>1, <1>2, DoneReads DEF Listed
<1>5. 1 \in 1 .. m /\ got # <<>>
  <2>1. CASE got = <<>>
    <3>1. Len(got) = 0
      BY <2>1
    <3>2. ReadsNeeded(op, got) = 1
      BY <1>2, <2>1 DEF ReadsNeeded
    <3> QED BY <1>4, <3>1, <3>2
  <2>2. CASE got # <<>>
    <3>1. m = 0 => got = <<>>
      BY <1>1, <1>4 DEF Listed
    <3> QED BY <2>2, <3>1
  <2> QED BY <2>1, <2>2
<1>6. PICK v \in During(c) : got[1] \in Returned(op, 1, Promotions(History[v], op))
  <2>1. PICK v \in During(c) : ReadBy(op, got, 1, v)
    BY <1>3, <1>4, <1>5
  <2>2. SubSeq(got, 1, 1 - 1) = <<>>
    BY SubSeqEmpty
  <2>3. Matching(History[v], op, <<>>) = Promotions(History[v], op)
    BY <1>2 DEF Matching
  <2> QED BY <2>1, <2>2, <2>3 DEF ReadBy
<1>7. PICK n \in Nat : n = Cardinality(got[1])
  <2>1. PICK t \in TablesType : t = History[v] /\ Keyed(t)
    BY TablesAreKeyed, DoneReads
  <2>2. got[1] \in SUBSET t.promos
    BY <1>6, <2>1, ReturnedInFull DEF Promotions
  <2> QED BY <2>1, <2>2, RowFields, FS_Subset, FS_CardinalityType
<1>8. m >= 1 + 2 * n
  <2>1. ReadsNeeded(op, got) = 1 + 2 * n
    BY <1>2, <1>5, <1>7 DEF ReadsNeeded
  <2> QED BY <1>4, <2>1
<1>9. ASSUME NEW i \in 1 .. n, NEW promo, promo = InOrder(got[1])[i]
      PROVE  /\ \E w \in During(c) : got[2 * i] \in Returned(op, 2 * i, PromotionSales(History[w], op, promo))
             /\ \E w \in During(c) : got[2 * i + 1] \in Returned(op, 2 * i + 1, PromotedProduct(History[w], promo))
  <2>1. PICK k \in 1 .. m : k = 2 * i /\ k # 1 /\ k % 2 = 0 /\ k \div 2 = i
    BY <1>8
  <2>2. PICK w \in During(c) : ReadBy(op, got, k, w)
    BY <1>3, <1>4, <2>1
  <2>3. PICK sofar : sofar = SubSeq(got, 1, k - 1) /\ Len(sofar) + 1 = k /\ sofar[1] = got[1]
    BY <1>1, <1>4, <2>1, PrefixOfReads
  <2>4. Matching(History[w], op, sofar) = PromotionSales(History[w], op, promo)
    <3>1. Matching(History[w], op, sofar) = PromotionSales(History[w], op, InOrder(sofar[1])[i])
      BY <1>2, <2>1, <2>3 DEF Matching
    <3> QED BY <1>9, <2>3, <3>1
  <2>5. got[2 * i] \in Returned(op, 2 * i, PromotionSales(History[w], op, promo))
    BY <2>1, <2>2, <2>3, <2>4 DEF ReadBy
  <2>6. PICK j \in 1 .. m : j = 2 * i + 1 /\ j # 1 /\ j % 2 # 0 /\ j \div 2 = i
    BY <1>8
  <2>7. PICK u \in During(c) : ReadBy(op, got, j, u)
    BY <1>3, <1>4, <2>6
  <2>8. PICK before : before = SubSeq(got, 1, j - 1) /\ Len(before) + 1 = j /\ before[1] = got[1]
    <3>1. j \in 1 .. Len(got)
      BY <1>4, <2>6
    <3>2. Len(SubSeq(got, 1, j - 1)) + 1 = j /\ SubSeq(got, 1, j - 1)[1] = got[1]
      BY <1>1, <2>6, <3>1, PrefixOfReads
    <3> QED BY <3>2
  <2>9. Matching(History[u], op, before) = PromotedProduct(History[u], promo)
    <3>1. Matching(History[u], op, before) = PromotedProduct(History[u], InOrder(before[1])[i])
      BY <1>2, <2>6, <2>8 DEF Matching
    <3> QED BY <1>9, <2>8, <3>1
  <2>10. got[2 * i + 1] \in Returned(op, 2 * i + 1, PromotedProduct(History[u], promo))
    BY <2>6, <2>7, <2>8, <2>9 DEF ReadBy
  <2> QED BY <2>5, <2>10
<1> QED BY <1>1, <1>2, <1>6, <1>7, <1>9

\* The price that is shown for the rows of a product.
Priced(rows) == IF rows = {} THEN 0 ELSE (CHOOSE p \in rows : TRUE).list

\* What is shown of a promotion, from the rows of its own.
LEMMA ShownRows ==
  ASSUME NEW got, NEW n \in Nat, Len(InOrder(got[1])) = n
  PROVE  LET shown == DiscountAnalyses(got)
         IN  /\ DOMAIN shown = 1 .. n /\ Len(shown) = n
             /\ \A i \in 1 .. n :
                   /\ shown[i].promo = InOrder(got[1])[i].id
                   /\ shown[i].units = Cardinality(got[2 * i])
                   /\ shown[i].revenue = Total(got[2 * i])
                   /\ shown[i].price = Priced(got[2 * i + 1])
<1> DEFINE promos      == InOrder(got[1])
           units(i)    == Cardinality(got[2 * i])
           revenue(i)  == Total(got[2 * i])
           price(i)    == Priced(got[2 * i + 1])
           analysis(i) == [promo |-> promos[i].id, units |-> units(i),
                           revenue |-> revenue(i), price |-> price(i)]
<1>1. PICK shown : shown = DiscountAnalyses(got) /\ shown = [i \in 1 .. n |-> analysis(i)]
  BY DEF DiscountAnalyses, Priced
<1>2. \A i : /\ analysis(i).promo = promos[i].id /\ analysis(i).units = units(i)
             /\ analysis(i).revenue = revenue(i) /\ analysis(i).price = price(i)
  <2> HIDE DEF units, price, revenue
  <2> QED OBVIOUS
<1> HIDE DEF analysis
<1>3. DOMAIN shown = 1 .. n /\ Len(shown) = n /\ \A i \in 1 .. n : shown[i] = analysis(i)
  BY <1>1
<1>4. \A i \in 1 .. n : /\ shown[i].promo = promos[i].id /\ shown[i].units = units(i)
                        /\ shown[i].revenue = revenue(i) /\ shown[i].price = price(i)
  <2> HIDE DEF units, price, revenue, promos
  <2> QED BY <1>2, <1>3
<1> QED BY <1>1, <1>3, <1>4

\* Sales are shown with their own product, and all of them below the limit.
LEMMA SalesAreKept ==
  ASSUME FiguresAreSound, NEW c \in Calls, Done(c), call[c].op.do = "discounts",
         NEW i \in Nat \ {0}, NEW promo, NEW w \in During(c), NEW rows,
         rows \in Returned(call[c].op, 2 * i, PromotionSales(History[w], call[c].op, promo)),
         NEW shown, shown.units = Cardinality(rows), shown.revenue = Total(rows)
  PROVE  SalesOf(c, promo.product, shown)
<1>1. PICK t \in TablesType : t = History[w] /\ Keyed(t)
  BY TablesAreKeyed, DoneReads
<1>2. PICK op \in OpType : op = call[c].op /\ op.do = "discounts"
  BY DoneReads
<1>3. PICK first \in Int, last \in Int : first = op.start /\ last = op.end
  BY OperationFields
<1>4. PICK sales : /\ sales = PromotionSales(t, op, promo)
                   /\ sales = {l \in t.lines : /\ l.product = promo.product
                                               /\ l.time >= 2 * first /\ l.time <= 2 * last}
  BY <1>3 DEF PromotionSales, Midnight
<1>5. /\ rows \subseteq sales
      /\ Cardinality(rows) < Limit(op, 2 * i) => rows = sales
  BY <1>1, <1>2, <1>4, ReturnedInFull
<1>6. Limit(op, 2 * i) = Limits["promotion_sales"]
  <2>1. 2 * i # 1 /\ (2 * i) % 2 = 0
    OBVIOUS
  <2> QED BY <1>2, <2>1 DEF Limit
<1>7. rows \in SUBSET {l \in t.lines : l.product = promo.product}
  BY <1>4, <1>5
<1>8. ASSUME shown.units < Limits["promotion_sales"], NEW l \in t.lines,
             l.product = promo.product, DayOf(l) \in first .. (last - 1)
      PROVE  l \in rows
  <2>1. PICK time \in Nat : time = l.time
    BY <1>1, RowFields
  <2>2. PICK day \in Nat : day = time \div 2 /\ 2 * day <= time /\ time <= 2 * day + 1
    OBVIOUS
  <2>3. first <= day /\ day <= last - 1
    BY <1>8, <2>1, <2>2 DEF DayOf
  <2>4. time >= 2 * first /\ time <= 2 * last
    BY <2>2, <2>3
  <2> QED BY <1>4, <1>5, <1>6, <1>8, <2>1, <2>4
<1> QED BY <1>1, <1>2, <1>3, <1>7, <1>8 DEF SalesOf

\* The price is that of the product, of which there is one row at most.
LEMMA PriceIsKept ==
  ASSUME FiguresAreSound, NEW c \in Calls, Done(c),
         NEW i, NEW promo, NEW w \in During(c), NEW rows,
         rows \in Returned(call[c].op, i, PromotedProduct(History[w], promo)),
         NEW shown, shown.price = Priced(rows)
  PROVE  PriceOf(c, promo.product, shown)
<1>1. PICK t \in TablesType : t = History[w] /\ Keyed(t)
  BY TablesAreKeyed, DoneReads
<1>2. PICK sold : sold = PromotedProduct(t, promo) /\ sold = {p \in t.products : p.id = promo.product}
  BY DEF PromotedProduct
<1>3. call[c].op \in OpType
  BY DoneReads
<1>4. rows \in Returned(call[c].op, i, sold)
  BY <1>1, <1>2
<1>5. CASE sold = {}
  <2>1. rows = {}
    BY <1>3, <1>4, <1>5, ReturnedInFull
  <2> QED BY <1>1, <1>2, <1>5, <2>1 DEF PriceOf, Priced
<1>6. CASE sold # {}
  <2>1. PICK p \in sold : sold = {p}
    BY <1>1, <1>2, <1>6 DEF Keyed
  <2>2. Cardinality(sold) = 1
    BY <2>1, FS_Singleton
  <2>3. 1 <= Limit(call[c].op, i)
    BY <1>3, LimitsAreSmall
  <2>4. rows = sold
    BY <1>4, <2>2, <2>3 DEF Returned
  <2>5. shown.price = p.list
    BY <2>1, <2>4 DEF Priced
  <2> QED BY <1>1, <1>2, <1>6, <2>1, <2>5 DEF PriceOf
<1> QED BY <1>5, <1>6

LEMMA PromotionsAreKept ==
  ASSUME FiguresAreSound, NEW c \in Calls, Done(c), call[c].op.do = "discounts"
  PROVE  LET shown == DiscountAnalyses(call[c].got)
         IN  \E v \in During(c) :
                LET promos == Promotions(History[v], call[c].op)
                IN  /\ \A i \in DOMAIN shown : \E promo \in promos :
                          /\ promo.id = shown[i].promo
                          /\ SalesOf(c, promo.product, shown[i])
                          /\ PriceOf(c, promo.product, shown[i])
                    /\ \A i, j \in DOMAIN shown : shown[i].promo = shown[j].promo => i = j
                    /\ Len(shown) < Limits["discounts"] =>
                          \A promo \in promos : \E i \in DOMAIN shown : shown[i].promo = promo.id
<1>1. PICK got : got = call[c].got
  OBVIOUS
<1>2. PICK op \in OpType : op = call[c].op /\ op.do = "discounts"
  BY DoneReads
<1>3. PICK v \in During(c) : got[1] \in Returned(op, 1, Promotions(History[v], op))
  BY <1>1, <1>2, PromotionReads
<1>4. PICK n \in Nat : n = Cardinality(got[1])
  BY <1>1, PromotionReads
<1>5. PICK t \in TablesType : t = History[v] /\ Keyed(t)
  BY TablesAreKeyed, DoneReads
<1>6. PICK promos : promos = Promotions(t, op) /\ promos \in SUBSET t.promos
  BY DEF Promotions
<1>7. PICK seen : /\ seen = got[1] /\ seen \in SUBSET promos
                  /\ n < Limits["discounts"] => seen = promos
  <2>1. Limit(op, 1) = Limits["discounts"]
    BY <1>2 DEF Limit
  <2> QED BY <1>3, <1>4, <1>5, <1>6, <2>1, ReturnedInFull
<1>8. /\ IsFiniteSet(seen) /\ \A p \in seen : p.id \in Nat
      /\ \A p, q \in seen : p.id = q.id => p = q
  BY <1>5, <1>6, <1>7, RowFields, FS_Subset DEF Keyed
<1>9. PICK order : /\ order = InOrder(seen) /\ Len(order) = n
                   /\ \A i \in 1 .. n : order[i] \in seen
                   /\ \A i, j \in 1 .. n : order[i].id = order[j].id => i = j
                   /\ \A p \in seen : \E i \in 1 .. n : order[i] = p
  BY <1>4, <1>7, <1>8, OrderIsComplete
<1>10. PICK shown : /\ shown = DiscountAnalyses(got) /\ DOMAIN shown = 1 .. n /\ Len(shown) = n
                    /\ \A i \in 1 .. n :
                          /\ shown[i].promo = order[i].id
                          /\ shown[i].units = Cardinality(got[2 * i])
                          /\ shown[i].revenue = Total(got[2 * i])
                          /\ shown[i].price = Priced(got[2 * i + 1])
  <2>1. InOrder(got[1]) = order /\ Len(InOrder(got[1])) = n
    BY <1>7, <1>9
  <2> QED BY <2>1, ShownRows
<1>11. ASSUME NEW i \in 1 .. n
       PROVE  \E promo \in promos : /\ promo.id = shown[i].promo
                                    /\ SalesOf(c, promo.product, shown[i])
                                    /\ PriceOf(c, promo.product, shown[i])
  <2>1. PICK promo \in promos : promo = order[i]
    BY <1>7, <1>9
  <2>2. PICK w \in During(c) : got[2 * i] \in Returned(op, 2 * i, PromotionSales(History[w], op, promo))
    BY <1>1, <1>2, <1>4, <1>7, <1>9, <2>1, PromotionReads
  <2>3. PICK u \in During(c) : got[2 * i + 1] \in Returned(op, 2 * i + 1, PromotedProduct(History[u], promo))
    BY <1>1, <1>2, <1>4, <1>7, <1>9, <2>1, PromotionReads
  <2>4. SalesOf(c, promo.product, shown[i])
    <3>1. i \in Nat \ {0}
      OBVIOUS
    <3>2. shown[i].units = Cardinality(got[2 * i]) /\ shown[i].revenue = Total(got[2 * i])
      BY <1>10
    <3> QED BY <1>2, <2>2, <3>1, <3>2, SalesAreKept
  <2>5. PriceOf(c, promo.product, shown[i])
    BY <1>2, <1>10, <2>3, PriceIsKept
  <2> QED BY <1>10, <2>1, <2>4, <2>5
<1>12. \A i, j \in 1 .. n : shown[i].promo = shown[j].promo => i = j
  BY <1>9, <1>10
<1>13. ASSUME n < Limits["discounts"], NEW promo \in promos
       PROVE  \E i \in 1 .. n : shown[i].promo = promo.id
  <2>1. promo \in seen
    BY <1>7, <1>13
  <2>2. PICK i \in 1 .. n : order[i] = promo
    BY <1>9, <2>1
  <2> QED BY <1>10, <2>2
<1> DEFINE Kept(s, ps) ==
             /\ \A i \in DOMAIN s : \E promo \in ps : /\ promo.id = s[i].promo
                                                    /\ SalesOf(c, promo.product, s[i])
                                                    /\ PriceOf(c, promo.product, s[i])
             /\ \A i, j \in DOMAIN s : s[i].promo = s[j].promo => i = j
             /\ Len(s) < Limits["discounts"] =>
                   \A promo \in ps : \E i \in DOMAIN s : s[i].promo = promo.id
<1>14. Kept(shown, promos)
  BY <1>10, <1>11, <1>12, <1>13
<1> HIDE DEF Kept
<1>15. Kept(DiscountAnalyses(call[c].got), Promotions(History[v], call[c].op))
  BY <1>1, <1>2, <1>5, <1>6, <1>10, <1>14
<1> QED BY <1>15 DEF Kept

\* However the ERP changes between the reads of an answer: no advised cut goes
\* below the cost, and each promotion has the sales and the price that its own
\* product had during the call, none missing or shown twice below the limit
\* (pricing_service.py).
THEOREM AnswersFollow == Spec => []AnswersFollowTheirRows
<1>1. FiguresAreSound => AnswersFollowTheirRows
  <2> SUFFICES ASSUME FiguresAreSound PROVE AnswersFollowTheirRows
    OBVIOUS
  <2>1. AdviceKeepsMargin
    BY AdviceIsSafe DEF AdviceKeepsMargin
  <2>2. PromotionsKeepTheirSales
    BY PromotionsAreKept DEF PromotionsKeepTheirSales
  <2> QED BY <2>1, <2>2 DEF AnswersFollowTheirRows
<1> QED BY <1>1, FiguresHold, PTL

-----------------------------------------------------------------------------
(* Sums over sets of rows.                                                 *)

\* Induction over the subsets of a finite set; Good is a set of sets.
LEMMA SetInduction ==
  ASSUME NEW S, IsFiniteSet(S), NEW Good,
         \A T \in SUBSET S : (\A U \in SUBSET T : U # T => U \in Good) => T \in Good
  PROVE  S \in Good
<1> DEFINE Bad == {T \in SUBSET S : T \notin Good}
<1>1. SUFFICES ASSUME Bad # {} PROVE FALSE
  OBVIOUS
<1>2. IsWellFoundedOn(StrictSubsetOrdering(S), FiniteSubsetsOf(S))
  BY FS_StrictSubsetOrderingWellFounded
<1>3. FiniteSubsetsOf(S) = SUBSET S
  BY FS_FiniteSubsetsOfFinite
<1>4. PICK T \in Bad : \A U \in Bad : <<U, T>> \notin StrictSubsetOrdering(S)
  <2>1. Bad \subseteq SUBSET S
    OBVIOUS
  <2> HIDE DEF Bad
  <2> QED BY <1>1, <1>2, <1>3, <2>1, WFMin
<1>5. \A U \in SUBSET T : U # T => U \in Good
  BY <1>4 DEF StrictSubsetOrdering
<1> QED BY <1>5

First(s) == CHOOSE r \in s : TRUE

\* The function that adds up amounts, for every subset of T.
Sums(g, T) ==
  \A s \in SUBSET T : g[s] = IF s = {} THEN 0 ELSE First(s).amount + g[s \ {First(s)}]

\* It has no choice.
LEMMA SumsAgree ==
  ASSUME NEW s, IsFiniteSet(s), NEW g, NEW h, NEW T, NEW U, Sums(g, T), Sums(h, U),
         s \subseteq T, s \subseteq U
  PROVE  g[s] = h[s]
<1> DEFINE Good == {u \in SUBSET s : g[u] = h[u]}
<1>1. ASSUME NEW u \in SUBSET s, \A v \in SUBSET u : v # u => v \in Good
      PROVE  u \in Good
  <2>1. /\ g[u] = IF u = {} THEN 0 ELSE First(u).amount + g[u \ {First(u)}]
        /\ h[u] = IF u = {} THEN 0 ELSE First(u).amount + h[u \ {First(u)}]
    BY DEF Sums
  <2>2. u # {} => g[u \ {First(u)}] = h[u \ {First(u)}]
    BY <1>1 DEF First
  <2> QED BY <2>1, <2>2
<1>2. s \in Good
  <2> HIDE DEF Good
  <2> QED BY <1>1, SetInduction
<1> QED BY <1>2

\* It exists, and what it adds up is an integer.
LEMMA SumsExist ==
  ASSUME NEW S, IsFiniteSet(S), \A r \in S : r.amount \in Int
  PROVE  \E g \in [SUBSET S -> Int] : Sums(g, S)
<1> DEFINE Good  == {T \in SUBSET S : \E g \in [SUBSET T -> Int] : Sums(g, T)}
           Of(s) == CHOOSE g : g \in [SUBSET s -> Int] /\ Sums(g, s)
<1>1. ASSUME NEW T \in SUBSET S, \A U \in SUBSET T : U # T => U \in Good
      PROVE  T \in Good
  <2> DEFINE f == [s \in SUBSET T |-> IF s = {} THEN 0
                                      ELSE First(s).amount + Of(s \ {First(s)})[s \ {First(s)}]]
  <2>1. ASSUME NEW u \in SUBSET T, u # T
        PROVE  Of(u) \in [SUBSET u -> Int] /\ Sums(Of(u), u) /\ Of(u)[u] \in Int
    <3>1. \E g : g \in [SUBSET u -> Int] /\ Sums(g, u)
      BY <1>1, <2>1
    <3>2. Of(u) \in [SUBSET u -> Int] /\ Sums(Of(u), u)
      <4> HIDE DEF Good
      <4> QED BY <3>1
    <3> QED BY <3>2
  <2>2. ASSUME NEW s \in SUBSET T, s # {}
        PROVE  First(s) \in s /\ s \ {First(s)} \in SUBSET T /\ s \ {First(s)} # T
    BY <2>2 DEF First
  <2> HIDE DEF Of, Good
  <2>3. ASSUME NEW s \in SUBSET T
        PROVE  f[s] \in Int
    <3>1. CASE s = {}
      BY <3>1
    <3>2. CASE s # {}
      <4>1. f[s] = First(s).amount + Of(s \ {First(s)})[s \ {First(s)}]
        BY <3>2
      <4>2. First(s).amount \in Int /\ Of(s \ {First(s)})[s \ {First(s)}] \in Int
        BY <2>1, <2>2, <3>2
      <4> HIDE DEF f
      <4> QED BY <4>1, <4>2
    <3> QED BY <3>1, <3>2
  <2>4. ASSUME NEW u \in SUBSET T, u # T
        PROVE  f[u] = Of(u)[u]
    <3>1. Of(u)[u] = IF u = {} THEN 0 ELSE First(u).amount + Of(u)[u \ {First(u)}]
      BY <2>1, <2>4 DEF Sums
    <3>2. CASE u = {}
      BY <3>1, <3>2
    <3>3. CASE u # {}
      <4> DEFINE v == u \ {First(u)}
      <4>1. v \in SUBSET T /\ v # T /\ v \subseteq u
        BY <2>2, <3>3
      <4>2. IsFiniteSet(v)
        BY <4>1, FS_Subset
      <4> HIDE DEF v, f
      <4>3. Of(u)[v] = Of(v)[v]
        BY <2>1, <2>4, <4>1, <4>2, SumsAgree
      <4>4. f[u] = First(u).amount + Of(v)[v]
        BY <3>3 DEF f, v
      <4> QED BY <3>1, <3>3, <4>3, <4>4 DEF v
    <3> QED BY <3>2, <3>3
  <2>5. Sums(f, T)
    <3>1. ASSUME NEW s \in SUBSET T
          PROVE  f[s] = IF s = {} THEN 0 ELSE First(s).amount + f[s \ {First(s)}]
      <4>1. CASE s = {}
        BY <4>1
      <4>2. CASE s # {}
        <5>1. f[s \ {First(s)}] = Of(s \ {First(s)})[s \ {First(s)}]
          <6> HIDE DEF f
          <6> QED BY <2>2, <2>4, <4>2
        <5>2. f[s] = First(s).amount + Of(s \ {First(s)})[s \ {First(s)}]
          BY <4>2
        <5> HIDE DEF f
        <5> QED BY <4>2, <5>1, <5>2
      <4> QED BY <4>1, <4>2
    <3> HIDE DEF f
    <3> QED BY <3>1 DEF Sums
  <2>6. f \in [SUBSET T -> Int]
    <3>1. f = [s \in SUBSET T |-> f[s]]
      OBVIOUS
    <3> HIDE DEF f
    <3> QED BY <2>3, <3>1
  <2> HIDE DEF f
  <2> QED BY <2>5, <2>6 DEF Good
<1>2. S \in Good
  <2> HIDE DEF Good
  <2> QED BY <1>1, SetInduction
<1> QED BY <1>2

\* The total of finitely many amounts is an integer.
LEMMA TotalIsWhole ==
  ASSUME NEW rows, IsFiniteSet(rows), \A r \in rows : r.amount \in Int
  PROVE  Total(rows) \in Int
<1> DEFINE IsIter(g) == g = [s \in SUBSET rows |->
                               IF s = {} THEN 0 ELSE First(s).amount + g[s \ {First(s)}]]
           iter      == CHOOSE g : IsIter(g)
<1>1. Total(rows) = iter[rows]
  BY DEF Total, MapThenSumSet, MapThenFoldSet, First
<1>2. PICK g \in [SUBSET rows -> Int] : Sums(g, rows)
  BY SumsExist
<1>3. IsIter(g)
  BY <1>2 DEF Sums
<1>4. IsIter(iter)
  <2> HIDE DEF IsIter
  <2> QED BY <1>3
<1>5. Sums(iter, rows)
  <2> HIDE DEF iter
  <2> QED BY <1>4 DEF Sums
<1>6. iter[rows] = g[rows]
  <2> HIDE DEF iter
  <2> QED BY <1>2, <1>5, SumsAgree
<1> QED BY <1>1, <1>2, <1>6

-----------------------------------------------------------------------------
(* Periods.                                                                *)

\* The sign of a change tells which of two small counts is larger; equal
\* totals show none.
LEMMA ChangeOfCounts ==
  ASSUME NEW a \in Nat, NEW b \in Nat, a < LargestLimit, b < LargestLimit
  PROVE  (a > b <=> CalcChange(a, b) > 0) /\ (a < b <=> CalcChange(a, b) < 0)
<1>1. CASE b = 0
  BY <1>1 DEF CalcChange
<1>2. CASE b # 0
  <2>1. PICK n \in Int, d \in Nat \ {0} : n = 2 * 10000 * (a - b) + b /\ d = 2 * b
    BY <1>2
  <2>2. CalcChange(a, b) = n \div d
    BY <1>2, <2>1 DEF CalcChange
  <2>3. (n \div d > 0 <=> n >= d) /\ (n \div d < 0 <=> n < 0)
    BY <2>1, QuotientSign
  <2>4. (n >= d <=> a > b) /\ (n < 0 <=> a < b)
    BY <1>2, <2>1 DEF LargestLimit
  <2> QED BY <2>2, <2>3, <2>4
<1> QED BY <1>1, <1>2

LEMMA NoChange ==
  ASSUME NEW a \in Int
  PROVE  CalcChange(a, a) = 0
<1>1. CASE a = 0
  BY <1>1 DEF CalcChange
<1>2. CASE a # 0
  <2>1. PICK b \in Nat \ {0} : b = IF a > 0 THEN a ELSE -a
    BY <1>2
  <2>2. PICK n \in Int, d \in Nat \ {0} : n = b /\ d = 2 * b
    BY <2>1
  <2>3. CalcChange(a, a) = n \div d
    <3>1. CalcChange(a, a) = (2 * 10000 * 0 + b) \div (2 * b)
      BY <1>2, <2>1 DEF CalcChange
    <3> QED BY <2>2, <3>1
  <2>4. ~(n \div d > 0) /\ ~(n \div d < 0) /\ n \div d \in Int
    BY <2>2, QuotientSign, Quotient
  <2> QED BY <2>3, <2>4
<1> QED BY <1>1, <1>2

\* The days of a period, seen from its orders.
LEMMA PeriodDays ==
  ASSUME NEW orders, \A o \in orders : o.time \in Nat, NEW start \in Int, NEW end \in Int,
         NEW branch
  PROVE  Between(orders, start, end, branch) =
           {o \in orders : /\ branch \in {Everywhere, o.branch}
                           /\ DayOf(o) \in start .. end
                           /\ DayOf(o) = end => o.time = Midnight(end)}
<1>1. ASSUME NEW o \in orders
      PROVE  o.time >= Midnight(start) /\ o.time <= Midnight(end) <=>
               DayOf(o) \in start .. end /\ (DayOf(o) = end => o.time = Midnight(end))
  <2>1. PICK time \in Nat : time = o.time
    OBVIOUS
  <2>2. PICK day \in Nat : day = time \div 2 /\ 2 * day <= time /\ time <= 2 * day + 1
    OBVIOUS
  <2> QED BY <2>1, <2>2 DEF DayOf, Midnight
<1> QED BY <1>1 DEF Between

\* What is between two dates covers the days from the first to the last.
LEMMA BetweenCovers ==
  ASSUME NEW c \in Calls, NEW t, t = Tables(c), \A o \in t.orders : o.time \in Nat,
         NEW start \in Int, NEW end \in Int, NEW branch
  PROVE  Covers(Between(t.orders, start, end, branch), c, start, end, branch)
<1>1. PICK rows : rows = Between(t.orders, start, end, branch)
  OBVIOUS
<1>2. rows = {o \in t.orders : /\ branch \in {Everywhere, o.branch}
                               /\ DayOf(o) \in start .. end
                               /\ DayOf(o) = end => o.time = Midnight(end)}
  BY <1>1, PeriodDays
<1>3. \A o \in t.orders : DayOf(o) \in Int
  BY DEF DayOf
<1>4. OrdersOf(c, start, end - 1, branch) \subseteq rows
  <2>1. ASSUME NEW o \in t.orders, DayOf(o) \in start .. (end - 1)
        PROVE  DayOf(o) \in start .. end /\ DayOf(o) # end
    BY <1>3, <2>1
  <2> QED BY <1>2, <2>1 DEF OrdersOf
<1>5. rows \subseteq OrdersOf(c, start, end, branch)
  BY <1>2 DEF OrdersOf
<1> QED BY <1>1, <1>4, <1>5 DEF Covers

LEMMA DailyReportsCover ==
  ASSUME FiguresAreSound, NEW c \in Calls, NEW names, Judged(c, names),
         names \subseteq {"daily", "export_daily", "repo_daily"},
         NEW ofTheDay, ofTheDay = OrdersOf(c, call[c].op.day, call[c].op.day, call[c].op.branch)
  PROVE  IF call[c].op.do = "repo_daily" THEN call[c].got[1] = ofTheDay
         ELSE /\ ofTheDay \subseteq call[c].got[1]
              /\ \A o \in call[c].got[1] : /\ DayOf(o) >= call[c].op.day
                                           /\ call[c].op.branch \in {Everywhere, o.branch}
              /\ DailyReport(call[c].got[1]).orders >= Cardinality(ofTheDay)
<1>1. /\ call[c].got[1] = Matching(Tables(c), call[c].op, <<>>)
      /\ call[c].op \in OpType /\ call[c].op.do \in {"daily", "export_daily", "repo_daily"}
      /\ Tables(c) \in TablesType /\ Keyed(Tables(c))
  <2>1. names \subseteq Single
    BY DEF Single, OpNames
  <2> QED BY <2>1, SingleRows
<1>2. PICK day \in Int : day = call[c].op.day
  BY <1>1, OperationFields
<1>3. PICK branch : branch = call[c].op.branch
  OBVIOUS
<1>4. PICK t \in TablesType : t = Tables(c) /\ Keyed(t)
  BY <1>1
<1>5. ASSUME NEW o \in t.orders
      PROVE  /\ o.time >= Midnight(day) <=> DayOf(o) >= day
             /\ o.time < Midnight(day + 1) <=> DayOf(o) <= day
             /\ DayOf(o) \in Nat
  <2>1. PICK time \in Nat : time = o.time
    BY <1>4, RowFields
  <2>2. PICK d \in Nat : d = time \div 2 /\ 2 * d <= time /\ time <= 2 * d + 1
    OBVIOUS
  <2> QED BY <2>1, <2>2 DEF DayOf, Midnight
<1>6. ofTheDay = {o \in t.orders : /\ DayOf(o) >= day /\ DayOf(o) <= day
                                   /\ branch \in {Everywhere, o.branch}}
  BY <1>2, <1>3, <1>4, <1>5 DEF OrdersOf
<1>7. CASE call[c].op.do = "repo_daily"
  <2>1. Matching(t, call[c].op, <<>>) = RepoDailySales(t, call[c].op)
    BY <1>7 DEF Matching
  <2>2. RepoDailySales(t, call[c].op) = ofTheDay
    BY <1>2, <1>3, <1>5, <1>6 DEF RepoDailySales
  <2> QED BY <1>1, <1>4, <1>7, <2>1, <2>2
<1>8. CASE call[c].op.do \in {"daily", "export_daily"}
  <2>1. Matching(t, call[c].op, <<>>) = DailySales(t, call[c].op)
    BY <1>8 DEF Matching
  <2>2. PICK rows \in SUBSET t.orders :
          /\ rows = call[c].got[1]
          /\ rows = {o \in t.orders : DayOf(o) >= day /\ branch \in {Everywhere, o.branch}}
    BY <1>1, <1>2, <1>3, <1>4, <1>5, <2>1 DEF DailySales
  <2>3. ofTheDay \in SUBSET rows
    BY <1>6, <2>2
  <2>4. IsFiniteSet(rows)
    BY <1>4, RowFields, FS_Subset
  <2>5. Cardinality(ofTheDay) <= Cardinality(rows)
    BY <2>3, <2>4, FS_Subset
  <2>6. Cardinality(rows) \in Nat /\ Cardinality(ofTheDay) \in Nat
    BY <2>3, <2>4, FS_Subset, FS_CardinalityType
  <2>7. DailyReport(rows).orders >= Cardinality(ofTheDay)
    BY <2>5, <2>6 DEF DailyReport
  <2> QED BY <1>2, <1>3, <1>8, <2>2, <2>3, <2>7
<1> QED BY <1>1, <1>7, <1>8

LEMMA BranchesAreCovered ==
  ASSUME FiguresAreSound, NEW c \in Calls, Judged(c, {"kpis"})
  PROVE  LET op == call[c].op kpis == BranchKPIs(op, call[c].got)
         IN  \A i \in DOMAIN kpis :
                /\ Covers(call[c].got[i], c, op.start, op.end, op.branches[i])
                /\ kpis[i].orders >= Cardinality(OrdersOf(c, op.start, op.end - 1, op.branches[i]))
<1>1. PICK op \in OpType : op = call[c].op /\ op.do = "kpis"
  BY JudgedReads
<1>2. PICK got : got = call[c].got /\ Listed(got) /\ ~(Len(got) < ReadsNeeded(op, got))
  BY <1>1, JudgedReads
<1>3. PICK n \in Nat, m \in Nat : n = Len(op.branches) /\ m = Len(got) /\ n <= m
  <2>1. ReadsNeeded(op, got) = Len(op.branches)
    BY <1>1 DEF ReadsNeeded
  <2>2. Len(op.branches) \in Nat
    BY OperationFields, LenProperties
  <2> QED BY <1>2, <2>1, <2>2 DEF Listed
<1>4. PICK t \in TablesType : t = Tables(c) /\ Keyed(t)
  BY JudgedReads, LastIsDuring
<1>5. PICK start \in Int, end \in Int : start = op.start /\ end = op.end
  BY OperationFields
<1>6. PICK kpis : /\ kpis = BranchKPIs(op, got) /\ DOMAIN kpis = 1 .. n
                  /\ \A i \in 1 .. n : kpis[i].orders = Cardinality(got[i])
  <2> DEFINE kpi(i) == [branch |-> op.branches[i], revenue |-> Total(got[i]),
                        orders |-> Cardinality(got[i])]
  <2>1. BranchKPIs(op, got) = [i \in 1 .. n |-> kpi(i)]
    BY <1>3 DEF BranchKPIs
  <2>2. \A i : kpi(i).orders = Cardinality(got[i])
    OBVIOUS
  <2> HIDE DEF kpi
  <2> QED BY <2>1, <2>2
<1>7. ASSUME NEW i \in 1 .. n
      PROVE  /\ Covers(got[i], c, start, end, op.branches[i])
             /\ kpis[i].orders >= Cardinality(OrdersOf(c, start, end - 1, op.branches[i]))
  <2>1. i \in 1 .. Len(got)
    BY <1>3
  <2>2. PICK sofar : /\ sofar = SubSeq(got, 1, i - 1) /\ Len(sofar) + 1 = i
                     /\ got[i] = Matching(t, op, sofar)
    <3>1. got[i] = Matching(t, op, SubSeq(got, 1, i - 1))
      BY <1>1, <1>2, <1>4, <2>1, JudgedReads
    <3>2. Len(SubSeq(got, 1, i - 1)) + 1 = i
      BY <1>2, <2>1, PrefixOfReads
    <3> QED BY <3>1, <3>2
  <2>3. PICK branch : branch = op.branches[i]
    OBVIOUS
  <2>4. got[i] = Between(t.orders, start, end, branch)
    <3>1. Matching(t, op, sofar) = BranchOrders(t, op, op.branches[i])
      BY <1>1, <2>2 DEF Matching
    <3> QED BY <1>5, <2>2, <2>3, <3>1 DEF BranchOrders
  <2>5. Covers(got[i], c, start, end, branch)
    BY <1>4, <2>4, RowFields, BetweenCovers
  <2>6. PICK rows, own : rows = got[i] /\ own = OrdersOf(c, start, end - 1, branch)
    OBVIOUS
  <2>7. rows \in SUBSET t.orders /\ own \in SUBSET rows
    BY <2>4, <2>5, <2>6 DEF Between, Covers
  <2>8. IsFiniteSet(rows)
    BY <1>4, <2>7, RowFields, FS_Subset
  <2>9. Cardinality(own) <= Cardinality(rows) /\ Cardinality(own) \in Nat /\ Cardinality(rows) \in Nat
    BY <2>7, <2>8, FS_Subset, FS_CardinalityType
  <2>10. kpis[i].orders >= Cardinality(own)
    BY <1>6, <2>6, <2>9
  <2> QED BY <2>3, <2>5, <2>6, <2>10
<1> QED BY <1>1, <1>2, <1>5, <1>6, <1>7

\* The four reads of a comparison of the latest two periods.
LEMMA TrendRows ==
  ASSUME FiguresAreSound, NEW c \in Calls, Judged(c, {"trends"})
  PROVE  LET got == call[c].got orders == Tables(c).orders op == call[c].op
         IN  /\ 3 \in 1 .. Len(got) /\ 4 \in 1 .. Len(got)
             /\ got[1] = Between(orders, Today - op.back, Today, op.branch) /\ got[3] = got[1]
             /\ got[2] = Between(orders, Today - 2 * op.back, Today - op.back, op.branch)
             /\ got[4] = got[2]
<1>1. PICK op \in OpType : op = call[c].op /\ op.do = "trends"
  BY JudgedReads
<1>2. PICK got : got = call[c].got /\ Listed(got) /\ ~(Len(got) < ReadsNeeded(op, got))
  BY <1>1, JudgedReads
<1>3. PICK m \in Nat : m = Len(got) /\ m >= 4
  <2>1. ReadsNeeded(op, got) = 4
    BY <1>1 DEF ReadsNeeded
  <2> QED BY <1>2, <2>1 DEF Listed
<1>4. PICK t : t = Tables(c)
  OBVIOUS
<1>5. ASSUME NEW k \in 1 .. 4
      PROVE  got[k] = PeriodRows(t, op, k)
  <2>1. k \in 1 .. Len(got)
    BY <1>3
  <2>2. PICK sofar : sofar = SubSeq(got, 1, k - 1) /\ Len(sofar) + 1 = k
    BY <1>2, <2>1, PrefixOfReads
  <2>3. got[k] = Matching(t, op, sofar)
    BY <1>1, <1>2, <1>4, <2>1, <2>2, JudgedReads
  <2>4. Matching(t, op, sofar) = PeriodRows(t, op, k)
    BY <1>1, <2>2 DEF Matching
  <2> QED BY <2>3, <2>4
<1>6. PICK now, turn, before :
        now = Today /\ turn = Today - op.back /\ before = Today - 2 * op.back
  OBVIOUS
<1>7. Periods(op) = << <<turn, now>>, <<before, turn>> >>
  BY <1>1, <1>6 DEF Periods
<1>8. ASSUME NEW k \in {1, 3}
      PROVE  PeriodRows(t, op, k) = Between(t.orders, turn, now, op.branch)
  <2>1. 2 - (k % 2) = 1
    OBVIOUS
  <2> QED BY <1>7, <2>1 DEF PeriodRows
<1>9. ASSUME NEW k \in {2, 4}
      PROVE  PeriodRows(t, op, k) = Between(t.orders, before, turn, op.branch)
  <2>1. 2 - (k % 2) = 2
    OBVIOUS
  <2> QED BY <1>7, <2>1 DEF PeriodRows
<1>10. 3 \in 1 .. Len(got) /\ 4 \in 1 .. Len(got)
  BY <1>3
<1> QED BY <1>1, <1>2, <1>4, <1>5, <1>6, <1>8, <1>9, <1>10

LEMMA TrendsAreRight ==
  ASSUME FiguresAreSound, NEW c \in Calls, Judged(c, {"trends"})
  PROVE  LET got == call[c].got back == call[c].op.back branch == call[c].op.branch
         IN  /\ \A o \in got[1] \cap got[2] : o.time = Midnight(Today - back)
             /\ Covers(got[1], c, Today - back, Today, branch)
             /\ Covers(got[2], c, Today - 2 * back, Today - back, branch)
             /\ got[3] = got[1] /\ got[4] = got[2]
             /\ Total(got[1]) = Total(got[2]) => Trends(got).sales = 0
             /\ Cardinality(got[3]) > Cardinality(got[4]) <=> Trends(got).orders > 0
             /\ Cardinality(got[3]) < Cardinality(got[4]) <=> Trends(got).orders < 0
<1>1. PICK op \in OpType : op = call[c].op
  BY JudgedReads
<1>2. PICK turn \in Int, before \in Int, now \in Int :
        turn = Today - op.back /\ before = Today - 2 * op.back /\ now = Today
  BY ReportsAssumption, OperationFields
<1>3. PICK t \in TablesType : t = Tables(c) /\ Keyed(t)
  BY JudgedReads, LastIsDuring
<1>4. PICK got : /\ got = call[c].got /\ 3 \in 1 .. Len(got) /\ 4 \in 1 .. Len(got)
                 /\ got[1] = Between(t.orders, turn, now, op.branch) /\ got[3] = got[1]
                 /\ got[2] = Between(t.orders, before, turn, op.branch) /\ got[4] = got[2]
  BY <1>1, <1>2, <1>3, TrendRows
<1>5. IsFiniteSet(t.orders) /\ \A o \in t.orders : o.time \in Nat /\ o.amount \in Int
  BY <1>3, RowFields
<1>6. ASSUME NEW o \in got[1] \cap got[2]
      PROVE  o.time = Midnight(turn)
  <2>1. o \in t.orders /\ o.time >= 2 * turn /\ o.time <= 2 * turn
    BY <1>4 DEF Between, Midnight
  <2>2. PICK time \in Nat : time = o.time
    BY <1>5, <2>1
  <2> QED BY <2>1, <2>2 DEF Midnight
<1>7. Covers(got[1], c, turn, now, op.branch)
  BY <1>3, <1>4, <1>5, BetweenCovers
<1>8. Covers(got[2], c, before, turn, op.branch)
  BY <1>3, <1>4, <1>5, BetweenCovers
<1>9. ASSUME NEW rows \in {got[1], got[2]}
      PROVE  Cardinality(rows) \in Nat /\ Total(rows) \in Int
  <2>1. rows \in SUBSET t.orders
    BY <1>4 DEF Between
  <2>2. IsFiniteSet(rows)
    BY <1>5, <2>1, FS_Subset
  <2>3. \A r \in rows : r.amount \in Int
    BY <1>5, <2>1
  <2> QED BY <2>2, <2>3, FS_CardinalityType, TotalIsWhole
<1>10. PICK m \in Nat, n \in Nat : m = Cardinality(got[3]) /\ n = Cardinality(got[4])
  BY <1>4, <1>9
<1>11. m < LargestLimit /\ n < LargestLimit
  <2>1. m < Limit(op, 3) /\ n < Limit(op, 4)
    BY <1>1, <1>4, <1>10, JudgedReads
  <2>2. /\ LargestLimit \in Nat /\ Limit(op, 3) \in Nat /\ Limit(op, 4) \in Nat
        /\ Limit(op, 3) <= LargestLimit /\ Limit(op, 4) <= LargestLimit
    BY LimitsAreSmall
  <2> QED BY <2>1, <2>2
<1>12. /\ Trends(got).sales = CalcChange(Total(got[1]), Total(got[2]))
       /\ Trends(got).orders = CalcChange(m, n)
  BY <1>10 DEF Trends
<1>13. Total(got[1]) = Total(got[2]) => Trends(got).sales = 0
  <2>1. Total(got[2]) \in Int
    BY <1>9
  <2> QED BY <1>12, <2>1, NoChange
<1>14. (m > n <=> Trends(got).orders > 0) /\ (m < n <=> Trends(got).orders < 0)
  BY <1>11, <1>12, ChangeOfCounts
<1> QED BY <1>1, <1>2, <1>4, <1>6, <1>7, <1>8, <1>10, <1>13, <1>14

LEMMA ForecastIsRight ==
  ASSUME FiguresAreSound, NEW c \in Calls, Judged(c, {"forecast"})
  PROVE  /\ Covers(call[c].got[1], c, Today - Lookback, Today, call[c].op.branch)
         /\ \A day \in 1 .. call[c].op.ahead : Forecast(call[c].op, call[c].got)[day] >= 0
<1>1. /\ call[c].got[1] = Matching(Tables(c), call[c].op, <<>>)
      /\ call[c].op.do = "forecast"
      /\ Tables(c) \in TablesType /\ Keyed(Tables(c))
  BY SingleRows DEF Single, OpNames
<1>2. PICK t \in TablesType : t = Tables(c) /\ Keyed(t)
  BY <1>1
<1>3. PICK first \in Int, last \in Int : first = Today - Lookback /\ last = Today
  BY ReportsAssumption
<1>4. PICK rows : rows = call[c].got[1] /\ rows = Between(t.orders, first, last, call[c].op.branch)
  <2>1. Matching(t, call[c].op, <<>>) = ForecastRows(t, call[c].op)
    BY <1>1 DEF Matching
  <2> QED BY <1>1, <1>2, <1>3, <2>1 DEF ForecastRows
<1>5. IsFiniteSet(t.orders) /\ \A o \in t.orders : o.time \in Nat /\ o.amount \in Int
  BY <1>2, RowFields
<1>6. Covers(rows, c, first, last, call[c].op.branch)
  BY <1>2, <1>4, <1>5, BetweenCovers
<1>7. PICK sales \in Int : sales = Total(rows)
  <2>1. rows \in SUBSET t.orders
    BY <1>4 DEF Between
  <2>2. IsFiniteSet(rows) /\ \A r \in rows : r.amount \in Int
    BY <1>5, <2>1, FS_Subset
  <2> QED BY <2>2, TotalIsWhole
<1>8. ASSUME NEW day \in 1 .. call[c].op.ahead
      PROVE  Forecast(call[c].op, call[c].got)[day] >= 0
  <2>1. Forecast(call[c].op, call[c].got)[day] = IF sales > 0 THEN sales ELSE 0
    BY <1>4, <1>7 DEF Forecast
  <2> QED BY <2>1
<1> QED BY <1>3, <1>4, <1>6, <1>8

\* For every state of the tables, every period and every branch: reports, KPIs,
\* trends and forecasts have all orders of the days they name but of the last,
\* and none from before (analytics_service.py, sales_repository.py,
\* advanced.py).
THEOREM PeriodsAreCoveredSoundly == Spec => []PeriodsAreCovered
<1>1. FiguresAreSound => PeriodsAreCovered
  <2> SUFFICES ASSUME FiguresAreSound PROVE PeriodsAreCovered
    OBVIOUS
  <2>1. DailyIsComplete
    <3>1. ASSUME NEW c \in Calls, NEW ofTheDay,
                 ofTheDay = OrdersOf(c, call[c].op.day, call[c].op.day, call[c].op.branch)
          PROVE  /\ Judged(c, {"daily", "export_daily"}) =>
                      /\ ofTheDay \subseteq call[c].got[1]
                      /\ \A o \in call[c].got[1] : /\ DayOf(o) >= call[c].op.day
                                                   /\ call[c].op.branch \in {Everywhere, o.branch}
                      /\ DailyReport(call[c].got[1]).orders >= Cardinality(ofTheDay)
                 /\ Judged(c, {"repo_daily"}) => call[c].got[1] = ofTheDay
      <4>1. /\ Judged(c, {"daily", "export_daily"}) => call[c].op.do # "repo_daily"
            /\ Judged(c, {"repo_daily"}) => call[c].op.do = "repo_daily"
        BY DEF Judged
      <4> QED BY <3>1, <4>1, DailyReportsCover
    <3> QED BY <3>1 DEF DailyIsComplete
  <2>2. KPIsCountOnce
    BY BranchesAreCovered DEF KPIsCountOnce
  <2>3. PeriodsMeetAtMidnight
    BY TrendsAreRight DEF PeriodsMeetAtMidnight
  <2>4. ForecastIsRecent
    BY ForecastIsRight DEF ForecastIsRecent
  <2> QED BY <2>1, <2>2, <2>3, <2>4 DEF PeriodsAreCovered
<1> QED BY <1>1, FiguresHold, PTL
=============================================================================
