------------------------------ MODULE Reports ------------------------------
(***************************************************************************)
(* What the services and repositories ask the ERP for, and what they make  *)
(* of the rows.  An operation is a record op with a field do; it makes one *)
(* read after another, each determined by the rows got so far, and its     *)
(* answer is computed from all of them.                                    *)
(*                                                                         *)
(* The ERP is a record of tables, each a set of rows.  Time is in half     *)
(* days: day d begins at midnight, tick 2d, and tick 2d + 1 stands for the *)
(* rest of it, because a date in a filter means its midnight.              *)
(***************************************************************************)
EXTENDS Integers, Sequences, FiniteSets, FiniteSetsExt, SequencesExt

CONSTANTS Limits,      \* most rows that a read returns, by its name
          Today,       \* the day on which everything happens
          Lookback     \* days on which a forecast is based (30 in the code)

NotANumber == "bad"    \* an id that int() does not accept
Everywhere == "any"    \* no filter
BadDate    == -1       \* a date that is not in ISO format

OpNames == {"daily", "export_daily", "kpis", "export_kpis", "inventory", "lowstock", "prices",
            "recommend", "discounts", "suppliers", "replenish", "purchases", "performance",
            "order", "history", "customer", "branch", "repo_daily", "repo_range", "repo_stock",
            "repo_low", "repo_product", "repo_orders", "repo_customer", "repo_search",
            "repo_branch", "trends", "compare", "forecast"}

\* A read is named like its operation, but for those that follow the promotions.
ReadNames == OpNames \cup {"promotion_sales", "promoted_product"}

\* An operation looks only at the fields that it needs.
OpType ==
    [do : OpNames, day : Int, branch : STRING, start : Int, end : Int, branches : Seq(STRING),
     ids : SUBSET STRING, id : STRING, supplier : STRING, products : SUBSET STRING,
     threshold : Int, back : Nat, ahead : Nat, text : STRING,
     current : Int \X Int, previous : Int \X Int]

\* The tables; ids of promotions are in the order in which the ERP returns them.
TablesType ==
    [orders    : SUBSET [id : STRING, time : Nat, branch : STRING, amount : Int, partner : STRING],
     quants    : SUBSET [product : STRING, branch : STRING, quantity : Int, reserved : Nat],
     promos    : SUBSET [id : Nat, product : STRING, start : Nat, end : Nat],
     products  : SUBSET [id : STRING, list : Int, cost : Int],
     lines     : SUBSET [id : STRING, product : STRING, time : Nat, amount : Int],
     partners  : SUBSET [id : STRING, supplier : BOOLEAN, active : BOOLEAN, words : SUBSET STRING],
     purchases : SUBSET [id : STRING, supplier : STRING, time : Nat, amount : Int, state : STRING],
     branches  : SUBSET STRING]

\* Tables are finite; a promotion or a product has one row, and so has a product
\* in a branch.
Keyed(h) ==
    /\ \A t \in DOMAIN h : IsFiniteSet(h[t])
    /\ \A p, q \in h.promos : p.id = q.id => p = q
    /\ \A p, q \in h.products : p.id = q.id => p = q
    /\ \A p, q \in h.quants : p.product = q.product /\ p.branch = q.branch => p = q

\* No read of the code asks for more rows.
LargestLimit == 5000

ASSUME ReportsAssumption ==
    /\ Today \in Nat /\ Lookback \in Nat
    /\ Limits \in [ReadNames -> 1 .. LargestLimit]

Midnight(day) == 2 * day
Total(rows)   == MapThenSumSet(LAMBDA r : r.amount, rows)

\* Seeded fault: the period begins after its first midnight.
BetweenOpen(orders, start, end, branch) ==
    {o \in orders : /\ o.time > Midnight(start) /\ o.time <= Midnight(end)
                    /\ branch \in {Everywhere, o.branch}}

\* Orders whose date_order passes  start <= date_order <= end  on bare dates.
Between(orders, start, end, branch) ==
    {o \in orders : /\ o.time >= Midnight(start) /\ o.time <= Midnight(end)
                    /\ branch \in {Everywhere, o.branch}}

-----------------------------------------------------------------------------
(* Analytics service: the daily report, branch KPIs, inventory.  The daily *)
(* report has no upper bound on the date.                                  *)

DailySales(erp, op) ==
    {o \in erp.orders : o.time >= Midnight(op.day) /\ op.branch \in {Everywhere, o.branch}}

DailyReport(rows) == [sales |-> Total(rows), orders |-> Cardinality(rows)]

\* One read for each branch of the list, in its order.
BranchOrders(erp, op, branch) == Between(erp.orders, op.start, op.end, branch)

BranchKPIs(op, got) ==
    [i \in 1 .. Len(op.branches) |->
        [branch |-> op.branches[i], revenue |-> Total(got[i]), orders |-> Cardinality(got[i])]]

InventoryStatus(erp, branch) == {q \in erp.quants : branch \in {Everywhere, q.branch}}

Available(q) == q.quantity - q.reserved

LowStock(rows, threshold) == {q \in rows : Available(q) < threshold}

-----------------------------------------------------------------------------
(* Pricing service.  A margin is in hundredths of a percent, rounded.      *)

ProductPrices(erp, op) == {p \in erp.products : op.ids = {} \/ p.id \in op.ids}

Margin(p) ==
    IF p.list > 0 THEN (2 * 10000 * (p.list - p.cost) + p.list) \div (2 * p.list) ELSE 0

\* A rise of a tenth below 10 %, a cut of a tenth above 50 %, else nothing;
\* prices in tenths.
Recommendations(rows) ==
    {[id |-> p.id, risk |-> "medium", tenths |-> 11 * p.list] : p \in {x \in rows : Margin(x) < 1000}}
      \cup {[id |-> p.id, risk |-> "low", tenths |-> 9 * p.list] : p \in {x \in rows : Margin(x) > 5000}}

Promotions(erp, op) == {p \in erp.promos : p.start >= op.start /\ p.end <= op.end}

\* The order in which the promotions came: the one with n before it is next
\* after those.
InOrder(promos) ==
    [i \in 1 .. Cardinality(promos) |->
        CHOOSE p \in promos : Cardinality({q \in promos : q.id < p.id}) = i - 1]

\* Seeded fault: the sales of all products.
SalesOfAll(erp, op, promo) ==
    {l \in erp.lines : l.time >= Midnight(op.start) /\ l.time <= Midnight(op.end)}

\* The sales are those of the requested period, not of the promotion's own.
PromotionSales(erp, op, promo) ==
    {l \in erp.lines : /\ l.product = promo.product
                       /\ l.time >= Midnight(op.start) /\ l.time <= Midnight(op.end)}

PromotedProduct(erp, promo) == {p \in erp.products : p.id = promo.product}

\* got[1] are the promotions, then sales and product of each in turn.
DiscountAnalyses(got) ==
    LET promos == InOrder(got[1])
    IN  [i \in 1 .. Len(promos) |->
            [promo |-> promos[i].id, units |-> Cardinality(got[2 * i]),
             revenue |-> Total(got[2 * i]),
             price |-> IF got[2 * i + 1] = {} THEN 0
                       ELSE (CHOOSE p \in got[2 * i + 1] : TRUE).list]]

-----------------------------------------------------------------------------
(* Supply chain service.                                                   *)

Suppliers(erp) == {p \in erp.partners : p.supplier /\ p.active}

PurchaseOrders(erp, op) ==
    {o \in erp.purchases : /\ op.supplier \in {Everywhere, o.supplier}
                           /\ o.time >= Midnight(op.start) /\ o.time <= Midnight(op.end)}

\* The filter is on the quantity in stock, the alert on what is not reserved.
ReplenishmentRows(erp, threshold) == {q \in erp.quants : q.quantity < threshold}

Alerts(rows, threshold) ==
    {[product |-> q.product, branch |-> q.branch, available |-> Available(q),
      suggested |-> Max({threshold * 2 - Available(q), threshold}),
      urgency |-> IF Available(q) <= 0 THEN "critical"
                  ELSE IF Available(q) < 5 THEN "high" ELSE "medium"] :
        q \in LowStock(rows, threshold)}

SupplierPerformance(rows) ==
    [orders |-> Cardinality(rows), done |-> Cardinality({o \in rows : o.state = "done"}),
     spend |-> Total(rows)]

-----------------------------------------------------------------------------
(* Customer service, used by the cx agent.                                 *)

OrderStatus(erp, op) == {o \in erp.orders : o.id = op.id}

CustomerHistory(erp, op) == {o \in erp.orders : o.partner = op.id}

CustomerRecord(erp, op) == {p \in erp.partners : p.id = op.id}

BranchRecord(erp, op) == {w \in erp.branches : w = op.branch}

-----------------------------------------------------------------------------
(* The repositories ask the same questions a second time.                  *)

RepoDailySales(erp, op) ==
    {o \in erp.orders : /\ o.time >= Midnight(op.day) /\ o.time < Midnight(op.day + 1)
                        /\ op.branch \in {Everywhere, o.branch}}

RepoSalesRange(erp, op) == Between(erp.orders, op.start, op.end, op.branch)

RepoStockLevels(erp, branch, products) ==
    {q \in erp.quants : /\ branch \in {Everywhere, q.branch}
                        /\ products = {} \/ q.product \in products}

\* Seeded fault: what is reserved counts as available.
RepoLowOnHand(op, got) == {q \in got[1] : q.quantity < op.threshold}

RepoLowStock(op, got) == LowStock(got[1], op.threshold)

RepoProductStock(op, got) == IF got[1] = {} THEN {} ELSE {CHOOSE q \in got[1] : TRUE}

RepoCustomerOrders(erp, op) == {o \in erp.orders : o.partner = op.id}

RepoCustomer(erp, op) == {p \in erp.partners : p.id = op.id}

RepoSearch(erp, op) == {p \in erp.partners : op.text \in p.words}

RepoBranch(erp, op) == {w \in erp.branches : w = op.branch}

-----------------------------------------------------------------------------
(* Advanced analytics: sales and counts of two periods, each a read of its *)
(* own; the earlier period ends on the midnight on which the later starts. *)

Periods(op) ==
    IF op.do = "trends"
    THEN << <<Today - op.back, Today>>, <<Today - 2 * op.back, Today - op.back>> >>
    ELSE << op.current, op.previous >>

\* Reads 1 and 2 are for the sales, 3 and 4 for the counts.
PeriodRows(erp, op, read) ==
    LET p == Periods(op)[2 - (read % 2)]
    IN  Between(erp.orders, p[1], p[2], op.branch)

\* In hundredths of a percent, rounded.  Where the sales were negative, a rise
\* has a negative sign.
CalcChange(current, previous) ==
    IF previous = 0 THEN IF current > 0 THEN 10000 ELSE 0
    ELSE LET base == IF previous > 0 THEN previous ELSE -previous
             gain == IF previous > 0 THEN current - previous ELSE previous - current
         IN  (2 * 10000 * gain + base) \div (2 * base)

Trends(got) ==
    [sales |-> CalcChange(Total(got[1]), Total(got[2])),
     orders |-> CalcChange(Cardinality(got[3]), Cardinality(got[4]))]

ForecastRows(erp, op) == Between(erp.orders, Today - Lookback, Today, op.branch)

\* The same prediction for every day ahead: the average, here the total, if the
\* sales were positive.
Forecast(op, got) ==
    [i \in 1 .. op.ahead |-> IF Total(got[1]) > 0 THEN Total(got[1]) ELSE 0]

-----------------------------------------------------------------------------
(* The reads of an operation.                                              *)

\* The rows that the next read matches.
Matching(erp, op, got) ==
    LET read == Len(got) + 1 IN
    CASE op.do \in {"daily", "export_daily"} -> DailySales(erp, op)
      [] op.do \in {"kpis", "export_kpis"}   -> BranchOrders(erp, op, op.branches[read])
      [] op.do = "inventory"   -> InventoryStatus(erp, op.branch)
      [] op.do = "lowstock"    -> InventoryStatus(erp, Everywhere)
      [] op.do \in {"prices", "recommend"}   -> ProductPrices(erp, op)
      [] op.do = "discounts"   ->
             IF read = 1 THEN Promotions(erp, op)
             ELSE LET promo == InOrder(got[1])[read \div 2]
                  IN  IF read % 2 = 0 THEN PromotionSales(erp, op, promo)
                      ELSE PromotedProduct(erp, promo)
      [] op.do = "suppliers"   -> Suppliers(erp)
      [] op.do = "replenish"   -> ReplenishmentRows(erp, op.threshold)
      [] op.do \in {"purchases", "performance"} -> PurchaseOrders(erp, op)
      [] op.do = "order"       -> OrderStatus(erp, op)
      [] op.do = "history"     -> CustomerHistory(erp, op)
      [] op.do = "customer"    -> CustomerRecord(erp, op)
      [] op.do = "branch"      -> BranchRecord(erp, op)
      [] op.do = "repo_daily"  -> RepoDailySales(erp, op)
      [] op.do = "repo_range"  -> RepoSalesRange(erp, op)
      [] op.do \in {"repo_stock", "repo_product"} -> RepoStockLevels(erp, op.branch, op.products)
      [] op.do = "repo_low"    -> RepoStockLevels(erp, op.branch, {})
      [] op.do = "repo_orders" -> RepoCustomerOrders(erp, op)
      [] op.do = "repo_customer" -> RepoCustomer(erp, op)
      [] op.do = "repo_search" -> RepoSearch(erp, op)
      [] op.do = "repo_branch" -> RepoBranch(erp, op)
      [] op.do \in {"trends", "compare"} -> PeriodRows(erp, op, read)
      [] op.do = "forecast"    -> ForecastRows(erp, op)

\* How many reads it makes in all; the promotions tell how many follow.
ReadsNeeded(op, got) ==
    CASE op.do \in {"kpis", "export_kpis"} -> Len(op.branches)
      [] op.do = "discounts" -> IF got = <<>> THEN 1 ELSE 1 + 2 * Cardinality(got[1])
      [] op.do \in {"trends", "compare"} -> 4
      [] OTHER               -> 1

\* The operations that ask for the latest rows; others get them in any order.
Latest == {"purchases", "performance", "history", "repo_orders"}

Limit(op, read) ==
    Limits[IF op.do # "discounts" \/ read = 1 THEN op.do
           ELSE IF read % 2 = 0 THEN "promotion_sales" ELSE "promoted_product"]

\* What a read may return: all that matches, or as much of it as its limit
\* allows.
Returned(op, read, rows) ==
    IF Cardinality(rows) <= Limit(op, read) THEN {rows}
    ELSE {s \in kSubset(Limit(op, read), rows) :
             op.do \in Latest => \A r \in s, x \in rows \ s : r.time >= x.time}

-----------------------------------------------------------------------------
(* What makes an operation fail although the ERP answers.                  *)

\* Dates are parsed before anything is read.
Undated(op) ==
    CASE op.do \in {"daily", "export_daily"} -> op.day = BadDate
      [] op.do \in {"kpis", "export_kpis", "discounts"} -> BadDate \in {op.start, op.end}
      [] OTHER -> FALSE

\* What int() is applied to before the next read.
Converted(op, got) ==
    CASE op.do \in {"kpis", "export_kpis"} -> {op.branches[Len(got) + 1]}
      [] op.do = "discounts" ->
             IF got = <<>> THEN {} ELSE {InOrder(got[1])[(Len(got) + 1) \div 2].product}
      [] op.do \in {"prices", "recommend"} -> op.ids
      [] op.do \in {"purchases", "performance"} -> {op.supplier}
      [] op.do \in {"order", "history", "customer", "repo_orders", "repo_customer"} -> {op.id}
      [] op.do \in {"repo_stock", "repo_product"} -> {op.branch} \cup op.products
      [] op.do \in {"lowstock", "suppliers", "replenish", "repo_search"} -> {}
      [] OTHER -> {op.branch}

\* The operation cannot go on after what it got.
Unreadable(op, got) ==
    \/ Undated(op)
    \/ Len(got) < ReadsNeeded(op, got) /\ NotANumber \in Converted(op, got)

\* The domain models take no negative amount or quantity, and no date with a
\* time of day.
Sound(r)      == r.amount >= 0
Dated(r)      == r.time % 2 = 0
InStock(q)    == q.quantity >= 0 /\ q.reserved >= 0 /\ Available(q) >= 0

\* Whether the models can be built from the last read.
Fits(op, got) ==
    LET rows == Last(got) IN
    CASE op.do \in {"daily", "export_daily", "repo_daily"} -> \A r \in rows : Sound(r)
      [] op.do \in {"kpis", "export_kpis"} -> Total(rows) >= 0
      [] op.do \in {"inventory", "lowstock", "repo_stock", "repo_low", "repo_product"} ->
             \A q \in rows : InStock(q)
      [] op.do = "replenish" -> \A q \in LowStock(rows, op.threshold) : q.quantity >= 0
      [] op.do = "discounts" -> \/ Len(got) < 3 \/ Len(got) % 2 = 0
                                \/ Total(got[Len(got) - 1]) >= 0
      [] op.do \in {"purchases", "order", "history", "repo_orders", "repo_range"} ->
             \A r \in rows : Sound(r) /\ Dated(r)
      \* SupplierPerformance is built without the return_rate that it requires
      [] op.do = "performance" -> rows = {}
      [] OTHER -> TRUE

=============================================================================
