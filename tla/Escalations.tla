---------------------------- MODULE Escalations ----------------------------
(***************************************************************************)
(* Escalation to people: infrastructure/escalation/workflow.py and the     *)
(* routes of api/routes/escalation.py.                                     *)
(*                                                                         *)
(* Every request makes an EscalationWorkflow of its own.  What it leaves   *)
(* behind is app.state.escalation_tickets, a function from ids to tickets; *)
(* the workflow, its counter and its own tickets are gone with it.  No     *)
(* handler awaits anything, so that each is one step.                      *)
(***************************************************************************)
EXTENDS Integers, Sequences, FiniteSets

CONSTANTS Ids             \* ids of tickets, in the order in which one workflow gives them

VARIABLES tickets

ASSUME EscalationAssumption == Ids \in Seq(STRING) /\ Ids # <<>>

EscalationInit == tickets = <<>>

-----------------------------------------------------------------------------

\* The words of the query come first, in this order; what the middleware or
\* the agent said follows.  The route gives no context, so that no guardrail
\* is ever reported.
ShouldEscalate(q, context) ==
    IF "financial" \in q.words THEN [reason |-> "financial_decision", level |-> "high"]
    ELSE IF "complaint" \in q.words THEN [reason |-> "complaint_sensitive", level |-> "high"]
    ELSE IF "human" \in q.words THEN [reason |-> "user_request", level |-> "medium"]
    ELSE IF context THEN [reason |-> "guardrail_triggered", level |-> "high"]
    ELSE IF "cannot" \in q.answer THEN [reason |-> "agent_uncertainty", level |-> "low"]
    ELSE IF "long" \in q.words THEN [reason |-> "complex_query", level |-> "low"]
    ELSE [reason |-> "none", level |-> "low"]

AssignmentRules ==
    [financial_decision |-> "finance_team", complaint_sensitive |-> "customer_relations",
     user_request |-> "support_team", guardrail_triggered |-> "admin_team",
     complex_query |-> "analytics_team", data_unavailable |-> "data_team",
     agent_uncertainty |-> "support_team"]

Levels == {"low", "medium", "high", "critical"}

\* What the workflow counted before tells the id of its next ticket.
CreateTicket(counted, query, reason, level) ==
    [id |-> Ids[counted + 1], query |-> query, reason |-> reason, level |-> level,
     team |-> AssignmentRules[reason], resolution |-> "none"]

\* Among the tickets of a workflow, not of the application.
ResolveTicket(own, id, resolution) ==
    IF id \in DOMAIN own
    THEN [found |-> TRUE, own |-> [own EXCEPT ![id].resolution = resolution]]
    ELSE [found |-> FALSE, own |-> own]

-----------------------------------------------------------------------------
(* The routes, and what they answer.                                       *)

\* A ticket replaces the one with its id.
Stored(t) == [id \in DOMAIN tickets \cup {t.id} |-> IF id = t.id THEN t ELSE tickets[id]]

\* Overrides count only together, and a wrong one is refused.
Escalate(q) ==
    LET auto   == ShouldEscalate(q, FALSE)
        given  == q.reason # "none" /\ q.level # "none"
        reason == IF given THEN q.reason
                  ELSE IF auto.reason = "none" THEN "user_request" ELSE auto.reason
        level  == IF given THEN q.level ELSE auto.level
    IN  IF given /\ ~(reason \in DOMAIN AssignmentRules /\ level \in Levels)
        THEN [status |-> "400", ticket |-> "none", tickets |-> tickets]
        ELSE LET t == CreateTicket(0, q.query, reason, level)
             IN  [status |-> "200", ticket |-> t,
                  tickets |-> Stored(t)]

GetTicket(id) == IF id \in DOMAIN tickets THEN "200" ELSE "404"

\* The fresh workflow does not know the ticket that the application has.
Resolve(id, resolution) ==
    IF id \notin DOMAIN tickets THEN [status |-> "404", tickets |-> tickets]
    ELSE IF ~ResolveTicket(<<>>, id, resolution).found
         THEN [status |-> "500", tickets |-> tickets]
         ELSE [status |-> "200", tickets |-> [tickets EXCEPT ![id].resolution = resolution]]

Pending == {id \in DOMAIN tickets : tickets[id].resolution = "none"}

\* Listing and the statistics count the same.
Stats == [total |-> Cardinality(DOMAIN tickets), pending |-> Cardinality(Pending),
          resolved |-> Cardinality(DOMAIN tickets \ Pending),
          byReason |-> [r \in DOMAIN AssignmentRules |->
                           Cardinality({id \in DOMAIN tickets : tickets[id].reason = r})],
          byLevel  |-> [v \in Levels |->
                           Cardinality({id \in DOMAIN tickets : tickets[id].level = v})]]

=============================================================================
