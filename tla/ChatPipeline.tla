----------------------------- MODULE ChatPipeline -----------------------------
(***************************************************************************)
(* One turn of POST /chat, from the handler in src/api/routes/chat.py      *)
(* through the supervisor graph (src/agents/graph.py, nodes/, llm.py) and  *)
(* back, for clients that share the sessions of a SessionStore.            *)
(*                                                                         *)
(* The handler calls the store without an await, so this is the SessionStore *)
(* that the handler is written for.  The awaits of a turn, at which other  *)
(* turns run and at which the turn may be cancelled, are the call of the   *)
(* classifying LLM, every call of a service, and the call of the answering *)
(* LLM.  A query is the set of tools that its words ask for.               *)
(***************************************************************************)
EXTENDS SessionStore

CONSTANTS Clients,
          Agents,    \* nodes of the graph other than the supervisor
          Queries,   \* sets of tools
          MaxTurns   \* bound: turns in one behaviour

CoreAgents == {"analytical", "cx", "internal_ops", "general"}
OptionalAgents == {"pricing", "supply_chain"}

\* pricing_service and supply_chain_service may be None.
ASSUME AgentsAssumption ==
  CoreAgents \subseteq Agents /\ Agents \subseteq CoreAgents \cup OptionalAgents
ASSUME MaxTurnsAssumption == MaxTurns \in Nat
\* Session ids are numbered in the order in which requests first name them.
ASSUME SessionIdsAssumption == SessionIds = 1..MaxTurns
\* One address per stored session, and one per session that a turn still holds.
ASSUME AddressesAssumption ==
  /\ IsFiniteSet(Clients) /\ IsFiniteSet(Addresses)
  /\ Cardinality(Addresses) > MaxSessions + Cardinality(Clients)

VARIABLES store, \* the SessionStore
          turn,  \* where the last request of each client is
          sent,  \* the response that the last step sent, if it sent one
          turns, \* number of turns begun
          ids    \* number of session ids that requests have named so far

vars == <<store, turn, sent, turns, ids>>

-----------------------------------------------------------------------------
(* The graph: which agent serves an intent, and the tools of an agent.      *)

\* _route_by_intent(), for the intents the supervisor knows.
AgentOf == [analytics |-> "analytical", cx |-> "cx", internal_ops |-> "internal_ops",
            pricing |-> "pricing", supply_chain |-> "supply_chain", general |-> "general"]
ValidIntents == DOMAIN AgentOf

\* What the classifying LLM may say: an intent, or anything else.  A timeout or
\* an error of the call reads as "general".
Replies == ValidIntents \cup {"nonsense"}

Intent(reply) == IF reply \in ValidIntents THEN reply ELSE "general"

\* Tools an agent may call, in the order in which it calls them.
ToolsOf ==
  [analytical   |-> <<"analytics_service", "inventory_service">>,
   cx           |-> <<"rag_retrieval", "order_lookup", "customer_lookup">>,
   internal_ops |-> <<"document_retrieval">>,
   pricing      |-> <<"product_prices", "discount_analysis", "pricing_recommendations">>,
   supply_chain |-> <<"supplier_list", "replenishment_check", "purchase_orders">>,
   general      |-> <<>>]
Tools == UNION {Range(ToolsOf[a]) : a \in DOMAIN ToolsOf}

\* Called whatever the query says.
Unconditional == {"rag_retrieval", "document_retrieval"}
\* Listed in tools_used even if the service finds nothing.
ListedWhenEmpty == {"analytics_service", "inventory_service"}
\* One try around all tools: the first that fails ends the data collection.
OneTry == {"analytical", "pricing", "supply_chain"}

\* The tools at these places of an agent's list.
ToolsAt(agent, places) == {ToolsOf[agent][k] : k \in places}

\* Places of the tools that the agent has to call for this query.
ToolsFor(agent, query) ==
  {k \in DOMAIN ToolsOf[agent] : ToolsOf[agent][k] \in query \cup Unconditional}

\* The instructions internal_ops chooses are listed as a tool as well; the
\* first kind of task that the query names wins.
OpsTasks == <<"summarize_report", "extract_kpis", "generate_tasks">>
TaskChosen(agent, query) ==
  LET named == {k \in DOMAIN OpsTasks : OpsTasks[k] \in query} IN
  {OpsTasks[k] : k \in {j \in named : agent = "internal_ops" /\ \A i \in named : j <= i}}

Outcomes == {"data", "nothing", "error"}
Listed(tool, outcome) ==
  \/ outcome = "data"
  \/ outcome = "nothing" /\ tool \in ListedWhenEmpty

\* Seeded fault: an agent that handles each failure on its own gives up, and
\* one with a single try goes on.
TriesSwapped(agent, rest, outcome) ==
  IF outcome = "error" /\ agent \notin OneTry THEN {} ELSE rest

ToolsLeft(agent, rest, outcome) ==
  IF outcome = "error" /\ agent \in OneTry THEN {} ELSE rest

-----------------------------------------------------------------------------
Messages == [turn : 1..MaxTurns, role : {"user", "assistant"}]
QueryType == SUBSET (Tools \cup Range(OpsTasks))
ASSUME QueriesAssumption == Queries \subseteq QueryType
Calls == [tool : Tools, outcome : Outcomes]


\* Where a client's request is.  left are the places of the tools the agent still
\* has to call, calls those it has called.
Idle == [at |-> "none"]
TurnStates ==
  {Idle}
  \cup [at : {"classify"}, n : 1..MaxTurns, id : SessionIds, session : Addresses, query : QueryType]
  \cup [at : {"agent"}, n : 1..MaxTurns, id : SessionIds, session : Addresses, query : QueryType,
        agent : Agents, left : SUBSET Nat, calls : Seq(Calls)]

Responses ==
  [status : {500}]
  \cup [status : {200}, tools_used : SUBSET (Tools \cup Range(OpsTasks)),
        message_count : 0..2 * MaxTurns]

Running(c) == turn[c].at \in {"classify", "agent"}

TypeOK ==
  /\ StoreType(store, Messages)
  /\ turns \in 0..MaxTurns /\ ids \in 0..turns
  /\ turn \in [Clients -> TurnStates]
  /\ \A c \in Clients : Running(c) => turn[c].n <= turns
  /\ sent \in Seq(Responses) /\ Len(sent) <= 1

Init ==
  /\ store = EmptyStore
  /\ turn = [c \in Clients |-> Idle]
  /\ sent = <<>>
  /\ turns = 0
  /\ ids = 0

\* Sessions that the turns of these clients hold.
HeldBy(clients) == {turn[c].session : c \in {d \in clients : Running(d)}}

\* The address of an object that nobody refers to.
Fresh == CHOOSE a \in Addresses : a \notin InUse(store) \cup HeldBy(Clients)

-----------------------------------------------------------------------------
\* chat() up to the first await of ainvoke(), for a session named before or a
\* new one.
Begin(c, id, query) ==
  /\ ~Running(c)
  /\ turns < MaxTurns
  /\ id <= ids + 1
  /\ turns' = turns + 1
  /\ ids' = IF id > ids THEN id ELSE ids
  /\ LET found == GetOrCreate(store, id, Fresh) IN
     /\ turn' = [turn EXCEPT ![c] = [at |-> "classify", n |-> turns + 1, id |-> id,
                                     session |-> EntryOf(found, id).object, query |-> query]]
     /\ store' = Collected(found, HeldBy(Clients))
  /\ sent' = <<>>

\* The supervisor hears from the LLM, or stops waiting for it, and the graph
\* goes on to the agent's node.
Classify(c, reply) ==
  LET agent == AgentOf[Intent(reply)] IN
  /\ turn[c].at = "classify"
  /\ agent \in Agents
  /\ turn' = [turn EXCEPT ![c] =
       [at |-> "agent", n |-> @.n, id |-> @.id, session |-> @.session, query |-> @.query,
        agent |-> agent, left |-> ToolsFor(agent, @.query), calls |-> <<>>]]
  /\ sent' = <<>>
  /\ UNCHANGED <<store, turns, ids>>

\* There is no edge to the agent: ainvoke() raises, and chat() answers 500.
RouteMissing(c, reply) ==
  /\ turn[c].at = "classify"
  /\ AgentOf[Intent(reply)] \notin Agents
  /\ turn' = [turn EXCEPT ![c] = Idle]
  /\ sent' = <<[status |-> 500]>>
  /\ UNCHANGED <<store, turns, ids>>

\* The service behind the agent's next tool returns or raises.
CallTool(c, outcome) ==
  /\ turn[c].at = "agent"
  /\ \E k \in turn[c].left :
       /\ \A j \in turn[c].left : k <= j
       /\ turn' = [turn EXCEPT
            ![c].left = ToolsLeft(turn[c].agent, @ \ {k}, outcome),
            ![c].calls = Append(@, [tool |-> ToolsOf[turn[c].agent][k], outcome |-> outcome])]
  /\ sent' = <<>>
  /\ UNCHANGED <<store, turns, ids>>

\* tools_used of an agent that has made these calls, as a set: nobody relies on
\* its order.
ToolsUsed(t) ==
  {k.tool : k \in {j \in Range(t.calls) : Listed(j.tool, j.outcome)}}
  \cup TaskChosen(t.agent, t.query)

\* Seeded fault: the two messages are stored in the wrong order.
AnswerFirst(t) ==
  <<[turn |-> t.n, role |-> "assistant"], [turn |-> t.n, role |-> "user"]>>

\* What chat() adds to the session after the graph has answered.
NewMessages(t) ==
  <<[turn |-> t.n, role |-> "user"], [turn |-> t.n, role |-> "assistant"]>>

After(t) == AddMessages(store, t.id, NewMessages(t), Fresh)

\* Seeded fault: the count is taken before the messages are added.
CountBefore(t) == Len(store.msgs[t.session])

\* session.message_count, of the object that the turn has held all the time.
MessageCount(t) == Len(After(t).msgs[t.session])

\* The LLM answers, or llm_chat() gives up and apologises, which is an answer
\* like any other.
Answer(c) ==
  /\ turn[c].at = "agent"
  /\ turn[c].left = {}
  /\ turn' = [turn EXCEPT ![c] = Idle]
  /\ sent' = <<[status |-> 200, tools_used |-> ToolsUsed(turn[c]),
                message_count |-> MessageCount(turn[c])]>>
  /\ store' = Collected(After(turn[c]), HeldBy(Clients \ {c}))
  /\ UNCHANGED <<turns, ids>>

\* The client goes away: CancelledError passes every except Exception.
Cancel(c) ==
  /\ Running(c)
  /\ turn' = [turn EXCEPT ![c] = Idle]
  /\ store' = Collected(store, HeldBy(Clients \ {c}))
  /\ sent' = <<>>
  /\ UNCHANGED <<turns, ids>>

SessionExpires ==
  /\ store.expired < Len(store.sessions)
  /\ store' = OneMoreExpired(store)
  /\ sent' = <<>>
  /\ UNCHANGED <<turn, turns, ids>>

Next ==
  \/ \E c \in Clients :
       \/ \E id \in SessionIds, query \in Queries : Begin(c, id, query)
       \/ \E reply \in Replies : Classify(c, reply) \/ RouteMissing(c, reply)
       \/ \E outcome \in Outcomes : CallTool(c, outcome)
       \/ Answer(c)
       \/ Cancel(c)
  \/ SessionExpires

Spec == Init /\ [][Next]_vars

-----------------------------------------------------------------------------
(* Properties *)

\* However turns of one session overlap, are cancelled or lose their session on
\* the way, every history is a sequence of whole turns: a query, directly
\* followed by the answer to that very query.
TurnsArePaired ==
  \A object \in InUse(store) :
    LET history == store.msgs[object] IN
    /\ Len(history) % 2 = 0
    /\ \A k \in 1..(Len(history) \div 2) :
         /\ history[2 * k - 1].role = "user"
         /\ history[2 * k] = [turn |-> history[2 * k - 1].turn, role |-> "assistant"]

Answers(c) ==
  Running(c) /\ ~Running(c)' /\ \E k \in DOMAIN sent' : sent'[k].status = 200

\* As long as the store still has the session that the turn began with,
\* message_count is what its description promises, "Total messages in this
\* session", with the two of this turn, whatever other turns added meanwhile.
CountIsOfTheSession ==
  [][\A c \in Clients : Answers(c) /\ turn[c].session \in InUse(store') =>
       /\ sent'[1].message_count = Len(store'.msgs[turn[c].session])
       /\ sent'[1].message_count >= Len(store.msgs[turn[c].session]) + 2]_vars

IsExtension(old, new) == Len(old) <= Len(new) /\ SubSeq(new, 1, Len(old)) = old

\* The sessions that are not expired, the one inactive for longest first.
Live == SubSeq(store.sessions, store.expired + 1, Len(store.sessions))

\* A history is lost only because its session expired, or because the store was
\* full of sessions that were all used or created later.  Until then it only
\* grows, whatever turns of other sessions come and go.
LostOnlyByLimits ==
  [][\A k \in DOMAIN Live :
       \/ /\ Live[k] \in Range(store'.sessions)
          /\ IsExtension(store.msgs[Live[k].object], store'.msgs[Live[k].object])
       \/ Len(Live) = MaxSessions /\ k = 1]_vars

\* An expired history never grows and is never handed to a turn.
ExpiredStaysSilent ==
  [][\A k \in 1..store.expired :
       LET old == store.sessions[k] IN
       /\ old \in Range(store'.sessions) => store'.msgs[old.object] = store.msgs[old.object]
       /\ \A c \in Clients : ~Running(c) /\ Running(c)' => turn'[c].session # old.object]_vars

\* What a response lists as tools_used was called and did not fail, and each tool
\* that brought data is listed.  Every tool that the query asks for, or that is
\* called always, was called, and no other: unless the agent has a single try and
\* its last call failed, which hides the tools after it and no other.
ToolsUsedIsHonest ==
  [][\A c \in Clients : Answers(c) =>
       LET t == turn[c]
           Made(outcomes) == {k.tool : k \in {j \in Range(t.calls) : j.outcome \in outcomes}}
           listed == sent'[1].tools_used \cap Tools
           wanted == ToolsFor(t.agent, t.query)
       IN /\ Made({"data"}) \subseteq listed
          /\ listed \subseteq Made({"data", "nothing"})
          /\ \/ Made(Outcomes) = ToolsAt(t.agent, wanted)
             \/ /\ t.agent \in OneTry
                /\ t.calls # <<>> /\ t.calls[Len(t.calls)].outcome = "error"
                /\ \E last \in wanted :
                     Made(Outcomes) = ToolsAt(t.agent, {k \in wanted : k <= last})
          /\ t.agent \in OneTry =>
               \A k \in DOMAIN t.calls : t.calls[k].outcome = "error" => k = Len(t.calls)]_vars

\* The store keeps its bound, and every history pairs queries with answers
\* (chat.py, session_store.py).
TurnsAreSound == TypeOK /\ TurnsArePaired

\* Histories go only by the limits of the store, and then stay away
\* (session_store.py).
HistoriesAreKept == LostOnlyByLimits /\ ExpiredStaysSilent
==============================================================================
