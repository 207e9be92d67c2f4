---------------------------- MODULE MCOperations ----------------------------
(***************************************************************************)
(* A small ERP that goes through three states, and requests to every       *)
(* route.  The first call is any of them; the second, beside it, a report  *)
(* or something about tickets.  Ids are strings, like in the code; today   *)
(* is day 4.                                                               *)
(***************************************************************************)
EXTENDS Operations

CONSTANTS c1, c2

MCCalls == {c1, c2}
MCToday == 4

Order(id, time, branch, amount, partner) ==
    [id |-> id, time |-> time, branch |-> branch, amount |-> amount, partner |-> partner]

Quant(product, branch, quantity, reserved) ==
    [product |-> product, branch |-> branch, quantity |-> quantity, reserved |-> reserved]

\* Orders of noon and midnight, before, on and after days 2 and 3; o7 is of the
\* noon of day 3.
Orders1 == {Order("o1", 4, "b1", 20, "p1"), Order("o2", 5, "b1", 30, "p1"),
            Order("o3", 6, "b2", 10, "p2"), Order("o4", 8, "b2", 25, "p1"),
            Order("o7", 7, "b1", 15, "p2")}

\* o3 moves to the other branch and a new order comes in.
Orders2 == (Orders1 \ {Order("o3", 6, "b2", 10, "p2")})
              \cup {Order("o3", 6, "b1", 10, "p2"), Order("o5", 9, "b1", 40, "p2")}

\* A credit makes a negative amount.
Orders3 == Orders2 \cup {Order("o6", 9, "b2", -5, "p1")}

\* Enough, reserved, nearly bare; then one shelf promises more than it holds.
Quants1 == {Quant("a", "b1", 12, 4), Quant("a", "b2", 9, 2), Quant("e", "b1", 4, 4)}
Quants2 == {Quant("a", "b1", 12, 1), Quant("a", "b2", 9, 2), Quant("e", "b1", 3, 4)}

Products == {[id |-> "a", list |-> 100, cost |-> 95], [id |-> "e", list |-> 100, cost |-> 40],
             [id |-> "f", list |-> 0, cost |-> 10]}

Promos == {[id |-> 1, product |-> "a", start |-> 2, end |-> 3],
           [id |-> 2, product |-> "e", start |-> 2, end |-> 3]}
Odd    == {[id |-> 3, product |-> NotANumber, start |-> 3, end |-> 3]}

Lines == {[id |-> "l1", product |-> "a", time |-> 4, amount |-> 20],
          [id |-> "l2", product |-> "e", time |-> 5, amount |-> 30],
          [id |-> "l3", product |-> "e", time |-> 9, amount |-> 15]}

\* While the promotions are read, more is sold and a price goes up.
Lines2    == Lines \cup {[id |-> "l4", product |-> "a", time |-> 5, amount |-> 25],
                          [id |-> "l5", product |-> "a", time |-> 6, amount |-> 20]}
Products2 == (Products \ {[id |-> "a", list |-> 100, cost |-> 95]})
                \cup {[id |-> "a", list |-> 120, cost |-> 95]}

Partners == {[id |-> "p1", supplier |-> TRUE, active |-> TRUE, words |-> {"x"}],
             [id |-> "p2", supplier |-> FALSE, active |-> TRUE, words |-> {"x", "y"}],
             [id |-> "p3", supplier |-> TRUE, active |-> FALSE, words |-> {}]}

Purchases == {[id |-> "q1", supplier |-> "p1", time |-> 6, amount |-> 50, state |-> "done"],
              [id |-> "q2", supplier |-> "p1", time |-> 8, amount |-> 10, state |-> "draft"],
              [id |-> "q3", supplier |-> "p3", time |-> 7, amount |-> 10, state |-> "done"]}

State(orders, quants, promos, products, lines) ==
    [orders |-> orders, quants |-> quants, promos |-> promos, products |-> products,
     lines |-> lines, partners |-> Partners, purchases |-> Purchases, branches |-> {"b1", "b2"}]

MCHistory == <<State(Orders1, Quants1, Promos, Products, Lines),
               State(Orders2, Quants1, Promos, Products2, Lines2),
               State(Orders3, Quants2, Promos \cup Odd, Products2, Lines2)>>

-----------------------------------------------------------------------------

\* Those that ask for the latest rows are cut off, and so are the sales of a
\* promotion when there are three.
MCLimits == [n \in ReadNames |-> IF n \in {"history", "repo_orders", "promoted_product"} THEN 1
                               ELSE IF n \in {"purchases", "performance", "promotion_sales"} THEN 2
                               ELSE 8]

\* Fields that an operation does not look at are filled in alike.
Op(do, day, branch, start, end) ==
    [do |-> do, day |-> day, branch |-> branch, start |-> start, end |-> end,
     branches |-> <<"b1", "b2">>, ids |-> {}, id |-> "p1", supplier |-> "p1", products |-> {"a"},
     threshold |-> 10, back |-> 1, ahead |-> 2, text |-> "x",
     current |-> <<3, 4>>, previous |-> <<1, 2>>]

Plain(do) == Op(do, 2, Everywhere, 2, 3)

Routed == {"daily", "export_daily", "kpis", "export_kpis", "lowstock", "prices", "recommend",
           "discounts", "suppliers", "replenish", "purchases", "performance"}

\* Requests that read: as they should be, then with something unreadable.
ReadOps ==
    {Plain(n) : n \in Routed}
       \cup {Op("daily", BadDate, Everywhere, 2, 3), Op("daily", 3, "b1", 2, 3),
             [Plain("kpis") EXCEPT !.branches = <<"b1", NotANumber>>],
             Op("kpis", 2, Everywhere, BadDate, 3),
             [Plain("recommend") EXCEPT !.ids = {"a", NotANumber}],
             [Plain("performance") EXCEPT !.supplier = "p2"],
             [Plain("purchases") EXCEPT !.supplier = "p3", !.back = 3]}

Http(user, key, op) == [user |-> user, key |-> key, path |-> op.do, op |-> op]

Inner(op) == [user |-> Internal, key |-> "none", path |-> op.do, op |-> op]

Ticket(user, path, id) == [user |-> user, key |-> "right", path |-> path, id |-> id]

Escalation(words, answer, reason, level) ==
    [user |-> None, key |-> "right", path |-> "escalate", query |-> words, words |-> words,
     answer |-> answer, reason |-> reason, level |-> level]

Queries == {Escalation({"financial", "complaint"}, {}, "none", "none"),
            Escalation({"complaint"}, {}, "none", "high"),
            Escalation({"human"}, {"cannot"}, "none", "none"),
            Escalation({"long"}, {"cannot"}, "none", "none"),
            Escalation({"long"}, {}, "none", "none"),
            Escalation({}, {}, "none", "none"),
            Escalation({}, {}, "data_unavailable", "critical"),
            Escalation({}, {}, "nonsense", "low")}

First == Queries \cup {Http("admin", "right", op) : op \in ReadOps}
            \cup {Inner(Plain(n)) : n \in OpNames \ Routed}
            \cup {Inner([Plain("order") EXCEPT !.id = "o1"]),
                  Inner([Plain("repo_customer") EXCEPT !.id = NotANumber])}
            \cup {Http(u, k, Plain("suppliers")) :
                     u \in {"manager", "analyst", "stranger", None}, k \in {"none", "wrong", "right"}}
            \cup {[user |-> None, key |-> "none", path |-> "health"],
                  [user |-> "viewer", key |-> "right", path |-> "export_report", format |-> "csv"],
                  [user |-> "viewer", key |-> "right", path |-> "export_report", format |-> "doc"]}

Second == {Inner(Plain("repo_low")), Escalation({}, {}, "none", "none"),
           Ticket(None, "resolve", "E1"), Ticket(None, "ticket", "E1"), Ticket(None, "stats", "none")}

MCOffers == (c1 :> First) @@ (c2 :> Second)

MCOthers == [qdrant |-> "connected", odoo |-> "", llm |-> "available", embeddings |-> "healthy",
             cache |-> "healthy", rate_limiter |-> "active", redis |-> "connected"]

MCIds == <<"E1", "E2", "E3">>

=============================================================================
