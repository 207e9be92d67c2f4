----------------------------- MODULE Operations -----------------------------
(***************************************************************************)
(* The HTTP interface put together: requests pass the middlewares          *)
(* (Access), and a route then reads from the ERP (OdooReads) or handles    *)
(* tickets (Escalations).  Agents and repositories use the same services   *)
(* without a request.                                                      *)
(*                                                                         *)
(* A request is a record with user, key, path and, for a route that reads, *)
(* op; for the others what they need.  The user Internal marks a call of   *)
(* an agent or a repository.                                               *)
(***************************************************************************)
EXTENDS OdooReads, Access, Escalations

CONSTANTS Offers,       \* what each call may be, a set of requests
          Others        \* what the health check finds of every service but the ERP

VARIABLES request,      \* what came in, Idle at first
          reply,        \* what was answered without reading, "none" if nothing
          promised      \* the tickets that were acknowledged, in order

vars == <<readVars, tickets, request, reply, promised>>

Internal == "internal"

\* Paths of routes that do not read.
Direct == {"escalate", "resolve", "ticket", "stats", "export_report", "health"}

\* A request that reads says what, and comes on the path of that; no other does.
ASSUME OffersAssumption ==
    \A c \in Calls : \A r \in Offers[c] :
       /\ r # Idle
       /\ "op" \in DOMAIN r <=> r.path \notin Direct
       /\ "op" \in DOMAIN r => r.op \in OpType /\ r.path = r.op.do

Init == /\ ReadsInit
        /\ EscalationInit
        /\ request = [c \in Calls |-> Idle]
        /\ reply = [c \in Calls |-> "none"]
        /\ promised = <<>>

-----------------------------------------------------------------------------
(* What the routes answer when the service returns or raises.              *)

AnalyticsReply(op, status) ==
    CASE status = "ok" -> "200"
      [] status = "value" /\ op.do # "lowstock" -> "400"
      [] OTHER -> "500"

PricingReply(op, status) ==
    CASE status = "ok" -> "200"
      [] status = "value" /\ op.do = "discounts" -> "400"
      [] OTHER -> "500"

SupplyReply(op, status) == IF status = "ok" THEN "200" ELSE "500"

ExportReply(op, status) ==
    CASE status = "ok" -> "200"
      [] status = "value" -> "400"
      [] OTHER -> "500"

\* The 400 for an unknown format is caught with everything else.
ExportReport(format) == IF format \in {"pdf", "excel", "xlsx", "csv", "json"} THEN "200" ELSE "500"

\* Healthy only if every service is as it should be; a Redis that is not even
\* configured is not.
HealthReport ==
    LET found == [Others EXCEPT !.odoo = IF Connected THEN "connected" ELSE "disconnected"]
    IN  IF \A s \in DOMAIN found : found[s] \in {"connected", "available", "active", "healthy"}
        THEN "healthy" ELSE "degraded"

\* The supply chain routes are told how many days to look back.
Asked(op) ==
    IF op.do \in {"purchases", "performance"}
    THEN [op EXCEPT !.start = Today - op.back, !.end = Today] ELSE op

\* The answer to a request, "none" while there is none.  Whoever calls without a
\* request gets the rows or the exception.
Answer(c) ==
    IF reply[c] # "none" THEN reply[c]
    ELSE IF ~Finished(c) THEN "none"
    ELSE LET op == call[c].op status == call[c].status IN
         IF request[c].user = Internal THEN status
         ELSE CASE op.do \in {"daily", "kpis", "lowstock"} -> AnalyticsReply(op, status)
                [] op.do \in {"prices", "recommend", "discounts"} -> PricingReply(op, status)
                [] op.do \in {"export_daily", "export_kpis"} -> ExportReply(op, status)
                [] OTHER -> SupplyReply(op, status)

-----------------------------------------------------------------------------

New(c, r) == request[c] = Idle /\ request' = [request EXCEPT ![c] = r]

\* Answers without suspending.
Answered(c, status) ==
    /\ Undisturbed(c)
    /\ reply' = [reply EXCEPT ![c] = status]
    /\ UNCHANGED readVars

Rejected(c) ==
    \E r \in Offers[c] :
        /\ r.user # Internal /\ Verdict(r) # "pass"
        /\ New(c, r)
        /\ Answered(c, Verdict(r))
        /\ UNCHANGED <<tickets, promised>>

ReadRequest(c) ==
    \E r \in Offers[c] :
        /\ "op" \in DOMAIN r
        /\ r.user = Internal \/ Verdict(r) = "pass"
        /\ New(c, r)
        /\ Begin(c, Asked(r.op))
        /\ UNCHANGED <<tickets, reply, promised>>

EscalateRequest(c) ==
    \E r \in Offers[c] :
        /\ r.path = "escalate" /\ Verdict(r) = "pass"
        /\ New(c, r)
        /\ LET e == Escalate(r)
           IN  /\ Answered(c, e.status)
               /\ tickets' = e.tickets
               /\ promised' = IF e.status = "200" THEN Append(promised, e.ticket) ELSE promised

ResolveRequest(c) ==
    \E r \in Offers[c] :
        /\ r.path = "resolve" /\ Verdict(r) = "pass"
        /\ New(c, r)
        /\ LET e == Resolve(r.id, "done")
           IN  Answered(c, e.status) /\ tickets' = e.tickets
        /\ UNCHANGED promised

\* Looking up a ticket, the statistics, and the export of what the client
\* sent change nothing.
LookRequest(c) ==
    \E r \in Offers[c] :
        /\ r.path \in {"ticket", "stats", "export_report", "health"} /\ Verdict(r) = "pass"
        /\ New(c, r)
        /\ Answered(c, CASE r.path = "ticket" -> GetTicket(r.id)
                         [] r.path = "health" -> HealthReport
                         [] r.path = "export_report" -> ExportReport(r.format)
                         [] OTHER -> "200")
        /\ UNCHANGED <<tickets, promised>>

Goes(c) == Attempt(c) /\ UNCHANGED <<tickets, request, reply, promised>>

\* When everything is answered, nobody sees what the ERP does.
Next == \/ \E c \in Calls : \/ Rejected(c) \/ ReadRequest(c) \/ EscalateRequest(c)
                            \/ ResolveRequest(c) \/ LookRequest(c) \/ Goes(c)
        \/ /\ Environment
           /\ \E c \in Calls : Answer(c) = "none"
           /\ UNCHANGED <<tickets, request, reply, promised>>

\* A retry's wait ends, and the event loop comes to everyone who waits.
Spec == Init /\ [][Next]_vars /\ \A c \in Calls : WF_vars(Goes(c))

-----------------------------------------------------------------------------
(* What the figures of a call are held against.                            *)

Done(c) == Finished(c) /\ call[c].status = "ok"

\* The states of the ERP while the call read, and the tables of the last.
During(c) == call[c].since .. call[c].upTo
Tables(c) == History[call[c].upTo]

\* The reads of the call saw one state, and no limit cut anything off.
Judged(c, names) ==
    /\ Done(c) /\ call[c].op.do \in names
    /\ call[c].since = call[c].upTo
    /\ \A i \in DOMAIN call[c].got : Cardinality(call[c].got[i]) < Limit(call[c].op, i)

DayOf(o) == o.time \div 2

OrdersOf(c, first, last, branch) ==
    {o \in Tables(c).orders : DayOf(o) \in first .. last /\ branch \in {Everywhere, o.branch}}

\* All orders of the branch on the days before the last, and none of other days
\* or branches.
Covers(rows, c, first, last, branch) ==
    /\ OrdersOf(c, first, last - 1, branch) \subseteq rows
    /\ rows \subseteq OrdersOf(c, first, last, branch)

\* A report misses no order of its day and has none from before; the repository
\* has exactly those of the day.
DailyIsComplete ==
    \A c \in Calls :
       LET op == call[c].op rows == call[c].got[1] ofTheDay == OrdersOf(c, op.day, op.day, op.branch)
       IN  /\ Judged(c, {"daily", "export_daily"}) =>
                 /\ ofTheDay \subseteq rows
                 /\ \A o \in rows : DayOf(o) >= op.day /\ op.branch \in {Everywhere, o.branch}
                 /\ DailyReport(rows).orders >= Cardinality(ofTheDay)
           /\ Judged(c, {"repo_daily"}) => rows = ofTheDay

\* What a branch is given is its own, so that no order counts for two.
KPIsCountOnce ==
    \A c \in Calls : Judged(c, {"kpis"}) =>
       LET op == call[c].op kpis == BranchKPIs(op, call[c].got)
       IN  \A i \in DOMAIN kpis :
              /\ Covers(call[c].got[i], c, op.start, op.end, op.branches[i])
              /\ kpis[i].orders >= Cardinality(OrdersOf(c, op.start, op.end - 1, op.branches[i]))

\* Two periods share at most the midnight between them; sales and counts are of
\* the same orders; equal sales show no change, and the count goes up or down
\* as the orders become more or fewer, however little.
PeriodsMeetAtMidnight ==
    \A c \in Calls : Judged(c, {"trends"}) =>
       LET got == call[c].got back == call[c].op.back branch == call[c].op.branch
       IN  /\ \A o \in got[1] \cap got[2] : o.time = Midnight(Today - back)
           /\ Covers(got[1], c, Today - back, Today, branch)
           /\ Covers(got[2], c, Today - 2 * back, Today - back, branch)
           /\ got[3] = got[1] /\ got[4] = got[2]
           /\ Total(got[1]) = Total(got[2]) => Trends(got).sales = 0
           /\ Cardinality(got[3]) > Cardinality(got[4]) <=> Trends(got).orders > 0
           /\ Cardinality(got[3]) < Cardinality(got[4]) <=> Trends(got).orders < 0

\* What the forecast is based on, and that it is never negative.
ForecastIsRecent ==
    \A c \in Calls : Judged(c, {"forecast"}) =>
       /\ Covers(call[c].got[1], c, Today - Lookback, Today, call[c].op.branch)
       /\ \A day \in 1 .. call[c].op.ahead : Forecast(call[c].op, call[c].got)[day] >= 0

\* Reports, KPIs, trends and forecasts miss no order of the days they name, with
\* the last day left open, and have none from before (analytics_service.py,
\* sales_repository.py, advanced.py).
PeriodsAreCovered ==
    DailyIsComplete /\ KPIsCountOnce /\ PeriodsMeetAtMidnight /\ ForecastIsRecent

\* "Returns aggregated sales data for the specified date" (routes/analytics.py:48):
\* a report has no order of another day.  The code takes every later one as well.
DailyIsOfItsDay ==
    \A c \in Calls : Judged(c, {"daily", "export_daily"}) =>
       \A o \in call[c].got[1] : DayOf(o) = call[c].op.day

\* A period of a month is named by its first and its last day
\* (docs/API_REFERENCE.md): no order of either is missing.  The code stops at the
\* midnight with which the last begins.
KPIsHaveTheLastDay ==
    \A c \in Calls : Judged(c, {"kpis", "export_kpis"}) =>
       LET op == call[c].op
       IN  \A i \in DOMAIN op.branches :
              OrdersOf(c, op.start, op.end, op.branches[i]) \subseteq call[c].got[i]

\* Reports and KPIs are of the days that they name, from the first to the last.
ReportsAreOfTheirDays == DailyIsOfItsDay /\ KPIsHaveTheLastDay

-----------------------------------------------------------------------------
\* The shelves that a low-stock check names.
Named(c) ==
    IF call[c].op.do = "lowstock" THEN LowStock(call[c].got[1], call[c].op.threshold)
    ELSE RepoLowStock(call[c].op, call[c].got)

\* The shelves that a low-stock check looks at.
InScope(c, q) == call[c].op.do = "lowstock" \/ call[c].op.branch \in {Everywhere, q.branch}

OfShelf(a, q) == a.product = q.product /\ a.branch = q.branch

\* Two judgements of the same state of the stock by the same threshold.
SameStock(c, d) ==
    call[c].upTo = call[d].upTo /\ call[c].op.threshold = call[d].op.threshold

\* What is suggested brings a shelf to twice the threshold; only a bare one is
\* critical.
AlertsRestoreStock ==
    \A c \in Calls : Judged(c, {"replenish"}) =>
       LET limit == call[c].op.threshold
       IN  \A a \in Alerts(call[c].got[1], limit) :
              /\ a.available + a.suggested >= 2 * limit
              /\ a.urgency = "critical" <=> a.available <= 0

\* A shelf has an alert only if the low-stock checks name it as well, and a
\* shelf that they name has an alert if it holds less than the threshold.  One
\* that holds more, of which much is reserved, may be named without an alert.
AlertsAreNamed ==
    \A c, d \in Calls :
       Judged(c, {"replenish"}) /\ Judged(d, {"lowstock", "repo_low"}) /\ SameStock(c, d) =>
          LET alerts == Alerts(call[c].got[1], call[c].op.threshold)
          IN  /\ \A a \in alerts : InScope(d, a) => \E q \in Named(d) : OfShelf(a, q)
              /\ \A q \in Named(d) :
                    q.quantity < call[c].op.threshold => \E a \in alerts : OfShelf(a, q)

\* "List of ReplenishmentAlert for low-stock products"
\* (supply_chain_service.py:126): each shelf that the low-stock checks name has
\* an alert.  The code looks only at shelves that hold less than the threshold,
\* however much of a fuller one is reserved.
LowStockIsAlerted ==
    \A c, d \in Calls :
       Judged(c, {"replenish"}) /\ Judged(d, {"lowstock", "repo_low"}) /\ SameStock(c, d) =>
          \A q \in Named(d) : \E a \in Alerts(call[c].got[1], call[c].op.threshold) : OfShelf(a, q)

\* The service and the repository name the same shelves.
LowStockIsNamedAlike ==
    \A c, d \in Calls :
       Judged(c, {"lowstock"}) /\ Judged(d, {"repo_low"}) /\ SameStock(c, d) =>
          Named(d) = {q \in Named(c) : InScope(d, q)}

\* The replenishment alerts, the low-stock check and the repository agree on the
\* stock as far as they look at the same quantity (analytics_service.py,
\* supply_chain_service.py, inventory_repository.py).
StockIsJudgedAlike == AlertsRestoreStock /\ AlertsAreNamed /\ LowStockIsNamedAlike

-----------------------------------------------------------------------------
\* No recommended cut goes below the cost, and no product gets both advices.
AdviceKeepsMargin ==
    \A c \in Calls : Done(c) /\ call[c].op.do = "recommend" =>
       LET advice == Recommendations(call[c].got[1])
       IN  \E v \in During(c) :
              /\ \A a \in advice : \E p \in History[v].products :
                    a.id = p.id /\ (a.risk = "low" => a.tenths > 10 * p.cost)
              /\ \A a, b \in advice : a.id = b.id => a = b

\* Units and revenue are of the same sales of the product, of all of them on the
\* days before the last if they are fewer than the limit.
SalesOf(c, product, shown) ==
    \E v \in During(c) : \E rows \in SUBSET {l \in History[v].lines : l.product = product} :
       /\ shown.units = Cardinality(rows) /\ shown.revenue = Total(rows)
       /\ shown.units < Limits["promotion_sales"] =>
             \A l \in History[v].lines :
                l.product = product /\ DayOf(l) \in call[c].op.start .. call[c].op.end - 1 => l \in rows

PriceOf(c, product, shown) ==
    \E v \in During(c) :
       LET sold == {p \in History[v].products : p.id = product}
       IN  IF sold = {} THEN shown.price = 0 ELSE \E p \in sold : shown.price = p.list

\* The ERP may change between the reads of an answer: each shown promotion has
\* the sales and the price that its own product had at some time during the
\* call, and none is missing or shown twice if they are fewer than the limit.
PromotionsKeepTheirSales ==
    \A c \in Calls : Done(c) /\ call[c].op.do = "discounts" =>
       LET shown == DiscountAnalyses(call[c].got)
       IN  \E v \in During(c) :
              LET promos == Promotions(History[v], call[c].op)
              IN  /\ \A i \in DOMAIN shown : \E promo \in promos :
                        /\ promo.id = shown[i].promo
                        /\ SalesOf(c, promo.product, shown[i])
                        /\ PriceOf(c, promo.product, shown[i])
                  /\ \A i, j \in DOMAIN shown : shown[i].promo = shown[j].promo => i = j
                  /\ Len(shown) < Limits["discounts"] =>
                        \A promo \in promos : \E i \in DOMAIN shown : shown[i].promo = promo.id

\* What the pricing service presents follows from the rows of the product it is
\* about, whatever changes between its reads (pricing_service.py).
AnswersFollowTheirRows == AdviceKeepsMargin /\ PromotionsKeepTheirSales

-----------------------------------------------------------------------------
\* A read costs the ERP at most ten requests, whatever fails: the nested
\* retries multiply, but a login that worked is kept (odoo_client.py).
AsksAreBounded == \A c \in Calls : call[c] # Idle => call[c].asked <= Attempts * Attempts + 1

\* "Uses exponential backoff retry on failure" (odoo_client.py:54): while the ERP
\* is up and takes the password, no attempt fails, whatever failed before.  The
\* code keeps a refused login and sends no other.
LoginIsRetried ==
    [][up /\ good => \A c \in Calls : Running(c) => call'[c].tries <= call[c].tries]_vars

\* Every request is answered, with rows or an error, however long the ERP is
\* out of reach.
EveryRequestIsAnswered == \A c \in Calls : request[c] # Idle ~> Answer(c) # "none"

Entitled(r) ==
    \/ EndpointPermissions(r.path) = {}
    \/ \E p \in EndpointPermissions(r.path) : p \in RolePermissions[RoleOf(r.user)]

Outside(c) == request[c] # Idle /\ request[c].user # Internal

\* A route runs only for the right key, and for a path with permissions only
\* for a role that has one; nobody with the right key is told that it is wrong,
\* and only the health check answers everyone (main.py, middleware/rbac.py,
\* auth.py).
ServedOnlyIfEntitled ==
    \A c \in Calls : Outside(c) =>
       LET r == request[c]
       IN  /\ call[c] # Idle \/ reply[c] \in {"200", "400", "404"} => r.key = "right" /\ Entitled(r)
           /\ reply[c] = "401" => r.key # "right"
           /\ r.path = "health" <=> reply[c] \in {"healthy", "degraded"}

\* Who has the right key but no permission is told 403 (middleware/rbac.py:62).
\* The code means to, but the error that it answers instead ends up as a 500.
ForbiddenIsTold ==
    \A c \in Calls :
       Outside(c) /\ request[c].key = "right" /\ ~Entitled(request[c]) => Answer(c) = "403"

\* "List all escalation tickets" (escalation.py:101): each acknowledged one is
\* there.
TicketsAreListed ==
    \A t \in ToSet(promised) : \E id \in DOMAIN tickets :
       [tickets[id] EXCEPT !.resolution = "none"] = t

\* "Resolve an escalation ticket" (escalation.py:139): that never fails.
TicketsAreResolved ==
    \A c \in Calls :
       Outside(c) /\ request[c].path = "resolve" /\ Verdict(request[c]) = "pass" => reply[c] # "500"

\* Acknowledged tickets keep their identity and can be resolved.  The code gives
\* all of them one id, and looks for them where they never are.
TicketsAreKept == TicketsAreListed /\ TicketsAreResolved

=============================================================================
