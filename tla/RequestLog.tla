------------------------------ MODULE RequestLog ------------------------------
(***************************************************************************)
(* From a request at the proxy to its row in request_log.  Each request    *)
(* has a goroutine that evaluates it, blocks, holds or forwards it and     *)
(* reports the outcome over the IPC socket; the server's onMessage stores  *)
(* the report and counts it.  The operator creates and deletes rules and   *)
(* agents meanwhile, and the proxy learns of that by messages of its own.  *)
(*                                                                         *)
(* The socket does not break here and nobody crashes (ApprovalFlow).  A    *)
(* hold ends when the operator resolves it or when it times out; how the   *)
(* decision travels is ApprovalFlow's.  Which rules an agent has           *)
(* (RulesSync) and which of them a URL matches are left open: a request    *)
(* may match any rule the evaluator holds, or none.  Bodies are left out.  *)
(***************************************************************************)
EXTENDS Naturals, Sequences, FiniteSets, Functions

CONSTANTS
  Request,           \* requests, one goroutine each
  Rule, AllowRule,   \* rule ids, never reused, and those whose action is allow
  Agent, Unknown,    \* agent names, and the "" of an unregistered source IP
  None,              \* no rule
  Defaults,          \* values of --default-behavior: "deny", "queue", "hold"
  MaxChanges         \* bound: rules and agents the operator creates or deletes

ASSUME RuleAssumption == AllowRule \subseteq Rule /\ None \notin Rule
ASSUME AgentAssumption == Unknown \notin Agent
ASSUME DefaultAssumption == Defaults \subseteq {"deny", "queue", "hold"}
ASSUME BoundAssumption == MaxChanges \in Nat

VARIABLES
  ruleRow,           \* each rule: not created yet, a row, or deleted
  agentRow,          \* names in the agents table
  toProxy,           \* rules.reload and agents.reload on their way
  defaultBehavior,   \* fixed when the proxy starts
  loaded,            \* the rules of the evaluator
  registered,        \* the agents of the auth handler
  tunnels,           \* agents with an open CONNECT tunnel
  request,           \* each request's goroutine
  toServer,          \* reports on their way
  log,               \* request_log: the row of each id in the table
  nextId,            \* AUTOINCREMENT: the id of the next row, never one used before
  queue,             \* approval_queue: the status of each request's row
  hits,              \* hit_count of each rule
  counts,            \* request_count of each agent
  wiped,             \* history: requests whose rows an agent's deletion took
  changes            \* counter of the bound

adminVars  == <<ruleRow, agentRow, changes>>
mirrorVars == <<defaultBehavior, toProxy, loaded, registered, tunnels>>
tableVars  == <<log, nextId, queue, hits, counts, wiped>>
vars == <<adminVars, mirrorVars, request, toServer, tableVars>>

Sender  == Agent \cup {Unknown}
RuleRef == Rule \cup {None}
Final   == {"allowed", "denied"}
Report  == [type : {"request.logged", "request.blocked", "approval.needed"},
            request : Request, agent : Sender, rule : RuleRef]
Row     == [request : Request, decision : Final \cup {"held"}, agent : Sender, rule : RuleRef]

TypeOK ==
  /\ ruleRow \in [Rule -> {"new", "live", "gone"}]
  /\ agentRow \subseteq Agent
  /\ defaultBehavior \in Defaults
  /\ toProxy \in Seq([rules : SUBSET Rule] \cup [agents : SUBSET Agent])
  /\ loaded \subseteq Rule /\ registered \subseteq Agent /\ tunnels \subseteq Agent
  /\ request \in [Request -> [at : {"new", "upstream", "held", "failed"} \cup Final,
                              agent : Sender, rule : RuleRef]]
  /\ toServer \in Seq(Report)
  /\ nextId \in Nat /\ DOMAIN log \subseteq 0 .. nextId - 1
  /\ log \in [DOMAIN log -> Row]
  /\ queue \in [Request -> {"none", "pending", "resolved"}]
  /\ hits \in [Rule -> Nat] /\ counts \in [Agent -> Nat]
  /\ wiped \subseteq Request
  /\ changes \in 0 .. MaxChanges

Live(row) == {x \in Rule : row[x] = "live"}

(* The proxy has connected and has been sent what the tables hold. *)
Init ==
  /\ ruleRow \in [Rule -> {"new", "live"}]
  /\ agentRow = Agent
  /\ defaultBehavior \in Defaults
  /\ toProxy = << >> /\ loaded = Live(ruleRow) /\ registered = Agent /\ tunnels = {}
  /\ request = [r \in Request |-> [at |-> "new", agent |-> Unknown, rule |-> None]]
  /\ toServer = << >>
  /\ log = << >> /\ nextId = 1 /\ queue = [r \in Request |-> "none"]
  /\ hits = [x \in Rule |-> 0] /\ counts = [a \in Agent |-> 0]
  /\ wiped = {}
  /\ changes = 0

-----------------------------------------------------------------------------
(* The proxy. *)

Send(type, r, a, x) ==
  toServer' = Append(toServer, [type |-> type, request |-> r, agent |-> a, rule |-> x])

Becomes(r, at, a, x) == request' = [request EXCEPT ![r] = [at |-> at, agent |-> a, rule |-> x]]

(* HandleConnect: the tunnel keeps the name it was opened with. *)
OpenTunnel(a) ==
  /\ a \in registered
  /\ tunnels' = tunnels \cup {a}
  /\ UNCHANGED <<adminVars, defaultBehavior, toProxy, loaded, registered, request, toServer, tableVars>>

CloseTunnel(a) ==
  /\ a \in tunnels
  /\ tunnels' = tunnels \ {a}
  /\ UNCHANGED <<adminVars, defaultBehavior, toProxy, loaded, registered, request, toServer, tableVars>>

(* Who sent it: Basic credentials or the tunnel's name in proxy mode, the  *)
(* source IP in transparent mode, where nobody is turned away.             *)
Senders(mode) == IF mode = "proxy" THEN registered \cup tunnels ELSE registered \cup {Unknown}

Arrives(r, a, mode) == request[r].at = "new" /\ a \in Senders(mode)

(* Action "allow" of a rule. *)
AllowedByRule(r, a, mode, x) ==
  /\ Arrives(r, a, mode)
  /\ x \in loaded \cap AllowRule
  /\ Becomes(r, "upstream", a, x)
  /\ UNCHANGED <<adminVars, mirrorVars, toServer, tableVars>>

(* Action "deny" of a rule, reported with the rule. *)
DeniedByRule(r, a, x) ==
  /\ Arrives(r, a, "proxy")
  /\ x \in loaded \ AllowRule
  /\ Becomes(r, "denied", a, x)
  /\ Send("request.blocked", r, a, x)
  /\ UNCHANGED <<adminVars, mirrorVars, tableVars>>

(* In transparent mode the report does not say which rule it was. *)
TransparentDeny(r, a, x) ==
  /\ Arrives(r, a, "transparent")
  /\ x \in loaded \ AllowRule
  /\ Becomes(r, "denied", a, x)
  /\ Send("request.blocked", r, a, None)
  /\ UNCHANGED <<adminVars, mirrorVars, tableVars>>

(* No rule matches, and the default is "deny" or "queue". *)
DeniedByDefault(r, a, mode) ==
  /\ Arrives(r, a, mode)
  /\ defaultBehavior \in {"deny", "queue"}
  /\ Becomes(r, "denied", a, None)
  /\ Send("request.blocked", r, a, None)
  /\ UNCHANGED <<adminVars, mirrorVars, tableVars>>

(* No rule matches, and the default is "hold". *)
HeldByDefault(r, a, mode) ==
  /\ Arrives(r, a, mode)
  /\ defaultBehavior = "hold"
  /\ Becomes(r, "held", a, None)
  /\ Send("approval.needed", r, a, None)
  /\ UNCHANGED <<adminVars, mirrorVars, tableVars>>

(* slip: nothing is reported *)
HoldDeniedSilently(r) == Becomes(r, "denied", request[r].agent, None) /\ UNCHANGED toServer

(* holdRequest returns: rejected, or timed out. *)
HoldDenied(r) ==
  /\ Becomes(r, "denied", request[r].agent, None)
  /\ Send("request.blocked", r, request[r].agent, None)

HoldApproved(r) == Becomes(r, "upstream", request[r].agent, None) /\ UNCHANGED toServer

(* slip: the timeout is reported, and the request forwarded *)
HoldTimesOutAnyway(r) ==
  /\ request[r].at = "held"
  /\ Becomes(r, "upstream", request[r].agent, None)
  /\ Send("request.blocked", r, request[r].agent, None)
  /\ UNCHANGED <<adminVars, mirrorVars, tableVars>>

HoldTimesOut(r) ==
  /\ request[r].at = "held"
  /\ HoldDenied(r)
  /\ UNCHANGED <<adminVars, mirrorVars, tableVars>>

(* slip: only requests a rule has allowed are reported *)
UpstreamAnswersForRule(r) ==
  /\ request[r].at = "upstream"
  /\ Becomes(r, "allowed", request[r].agent, request[r].rule)
  /\ IF request[r].rule = None THEN UNCHANGED toServer
     ELSE Send("request.logged", r, request[r].agent, request[r].rule)
  /\ UNCHANGED <<adminVars, mirrorVars, tableVars>>

(* The response handler, or the end of transparentForward. *)
UpstreamAnswers(r) ==
  /\ request[r].at = "upstream"
  /\ Becomes(r, "allowed", request[r].agent, request[r].rule)
  /\ Send("request.logged", r, request[r].agent, request[r].rule)
  /\ UNCHANGED <<adminVars, mirrorVars, tableVars>>

(* RoundTrip fails: the agent gets an error and the server hears nothing. *)
UpstreamFails(r) ==
  /\ request[r].at = "upstream"
  /\ Becomes(r, "failed", request[r].agent, request[r].rule)
  /\ UNCHANGED <<adminVars, mirrorVars, toServer, tableVars>>

Reload ==
  /\ toProxy # << >>
  /\ toProxy' = Tail(toProxy)
  /\ LET m == Head(toProxy) IN
       IF "rules" \in DOMAIN m
         THEN loaded' = m.rules /\ UNCHANGED registered
         ELSE registered' = m.agents /\ UNCHANGED loaded
  /\ UNCHANGED <<adminVars, defaultBehavior, tunnels, request, toServer, tableVars>>

-----------------------------------------------------------------------------
(* The server. *)

DecisionOf(type) ==
  [t \in {"request.logged", "request.blocked", "approval.needed"} |->
     IF t = "request.logged" THEN "allowed"
     ELSE IF t = "request.blocked" THEN "denied" ELSE "held"][type]

Insert(row) ==
  /\ log' = [i \in DOMAIN log \cup {nextId} |-> IF i = nextId THEN row ELSE log[i]]
  /\ nextId' = nextId + 1

(* onMessage: insert, which the foreign key on rule_id refuses when the    *)
(* rule is gone; the error is caught and everything after it is skipped.   *)
OnMessage ==
  /\ toServer # << >>
  /\ toServer' = Tail(toServer)
  /\ LET m == Head(toServer)
         stored == m.rule = None \/ ruleRow[m.rule] = "live" IN
       IF stored
         THEN /\ Insert([request |-> m.request, decision |-> DecisionOf(m.type),
                         agent |-> m.agent, rule |-> m.rule])
              /\ queue' = IF m.type = "approval.needed"
                          THEN [queue EXCEPT ![m.request] = "pending"] ELSE queue
              /\ hits' = [x \in Rule |-> IF x = m.rule THEN hits[x] + 1 ELSE hits[x]]
              /\ counts' = [a \in Agent |-> IF a = m.agent /\ a \in agentRow
                                            THEN counts[a] + 1 ELSE counts[a]]
         ELSE UNCHANGED <<log, nextId, queue, hits, counts>>
  /\ UNCHANGED <<adminVars, mirrorVars, request, wiped>>

(* POST /api/approvals/:id/resolve; the hold may have timed out already. *)
Resolve(r, approve) ==
  /\ queue[r] = "pending"
  /\ queue' = [queue EXCEPT ![r] = "resolved"]
  /\ \/ request[r].at = "held" /\ approve /\ HoldApproved(r)
     \/ request[r].at = "held" /\ ~approve /\ HoldDenied(r)
     \/ request[r].at # "held" /\ UNCHANGED <<request, toServer>>
  /\ UNCHANGED <<adminVars, mirrorVars, log, nextId, hits, counts, wiped>>

Change == changes < MaxChanges /\ changes' = changes + 1

CreateRule(x) ==
  /\ Change
  /\ ruleRow[x] = "new"
  /\ ruleRow' = [ruleRow EXCEPT ![x] = "live"]
  /\ toProxy' = Append(toProxy, [rules |-> Live(ruleRow')])
  /\ UNCHANGED <<agentRow, defaultBehavior, loaded, registered, tunnels, request, toServer, tableVars>>

(* slip: the column keeps the id of the deleted rule *)
DeleteRuleKeepsRefs(x) ==
  /\ Change
  /\ ruleRow[x] = "live"
  /\ ruleRow' = [ruleRow EXCEPT ![x] = "gone"]
  /\ toProxy' = Append(toProxy, [rules |-> Live(ruleRow')])
  /\ UNCHANGED <<agentRow, defaultBehavior, loaded, registered, tunnels, request, toServer, tableVars>>

(* ON DELETE SET NULL *)
DeleteRule(x) ==
  /\ Change
  /\ ruleRow[x] = "live"
  /\ ruleRow' = [ruleRow EXCEPT ![x] = "gone"]
  /\ log' = [i \in DOMAIN log |-> IF log[i].rule = x THEN [log[i] EXCEPT !.rule = None] ELSE log[i]]
  /\ toProxy' = Append(toProxy, [rules |-> Live(ruleRow')])
  /\ UNCHANGED <<agentRow, defaultBehavior, loaded, registered, tunnels, request, toServer, nextId, queue,
                 hits, counts, wiped>>

CreateAgent(a) ==
  /\ Change
  /\ a \notin agentRow
  /\ agentRow' = agentRow \cup {a}
  /\ counts' = [counts EXCEPT ![a] = 0]
  /\ toProxy' = Append(toProxy, [agents |-> agentRow'])
  /\ UNCHANGED <<ruleRow, defaultBehavior, loaded, registered, tunnels, request, toServer, log, nextId,
                 queue, hits, wiped>>

(* One transaction: the queue's rows, the log's rows, the agent. *)
DeleteAgent(a) ==
  /\ Change
  /\ a \in agentRow
  /\ agentRow' = agentRow \ {a}
  /\ LET taken == {log[i].request : i \in {j \in DOMAIN log : log[j].agent = a}} IN
       /\ queue' = [r \in Request |-> IF r \in taken THEN "none" ELSE queue[r]]
       /\ wiped' = wiped \cup taken
  /\ log' = Restrict(log, {i \in DOMAIN log : log[i].agent # a})
  /\ toProxy' = Append(toProxy, [agents |-> agentRow'])
  /\ UNCHANGED <<ruleRow, defaultBehavior, loaded, registered, tunnels, request, toServer, nextId,
                 hits, counts>>

-----------------------------------------------------------------------------
Evaluate ==
  \E r \in Request, a \in Sender, mode \in {"proxy", "transparent"} :
    \/ DeniedByDefault(r, a, mode)
    \/ HeldByDefault(r, a, mode)
    \/ \E x \in Rule : AllowedByRule(r, a, mode, x) \/ DeniedByRule(r, a, x) \/ TransparentDeny(r, a, x)

Upstream(r) == UpstreamAnswers(r) \/ UpstreamFails(r)

Admin ==
  \/ \E x \in Rule : CreateRule(x) \/ DeleteRule(x)
  \/ \E a \in Agent : CreateAgent(a) \/ DeleteAgent(a)

Next ==
  \/ Evaluate
  \/ \E a \in Agent : OpenTunnel(a) \/ CloseTunnel(a)
  \/ \E r \in Request : HoldTimesOut(r) \/ Upstream(r) \/ \E approve \in BOOLEAN : Resolve(r, approve)
  \/ Reload \/ OnMessage
  \/ Admin

Safety == Init /\ [][Next]_vars

(* Goroutines and the two read loops run; a hold has a timeout and a round *)
(* trip ends.                                                              *)
Spec ==
  /\ Safety
  /\ WF_vars(OnMessage)
  /\ \A r \in Request : WF_vars(Upstream(r)) /\ WF_vars(HoldTimesOut(r))
-----------------------------------------------------------------------------
(* Properties. *)

Rows(r) == {i \in DOMAIN log : log[i].request = r}
FinalRows(r) == {i \in Rows(r) : log[i].decision \in Final}

(* The log tells what the proxy did: the decision, the sender, the rule    *)
(* and, for a held request, that it was held before (proxy.go DoFunc,      *)
(* transparent.go, index.js onMessage).  No request is told twice.         *)
LogIsTrue ==
  \A r \in Request :
    /\ \A i, j \in FinalRows(r) : i = j
    /\ \A i \in Rows(r) :
         /\ log[i].agent = request[r].agent
         /\ log[i].rule \in {request[r].rule, None}
         /\ log[i].decision \in Final => log[i].decision = request[r].at
         /\ log[i].decision = "held" => request[r].at # "new" /\ \A j \in FinalRows(r) : i < j

(* connection.js: foreign keys.  No row of the log names a deleted rule,   *)
(* no approval is left without its row, and the hits of a rule are the     *)
(* rows that name it and those that went with their agent.                 *)
TablesAgree ==
  /\ \A i \in DOMAIN log : log[i].rule # None => ruleRow[log[i].rule] = "live"
  /\ \A r \in Request : queue[r] # "none" => \E i \in Rows(r) : log[i].decision = "held"
  /\ \A x \in Rule : ruleRow[x] = "live" =>
       LET named == {r \in Request : \E i \in FinalRows(r) : log[i].rule = x} IN
         /\ hits[x] >= Cardinality(named)
         /\ hits[x] <= Cardinality(named \cup {r \in wiped : request[r].rule = x})

Reported(r) == \E k \in DOMAIN toServer : toServer[k].request = r /\ toServer[k].type # "approval.needed"

(* The two ways the row of a request may be missing: the rule was deleted  *)
(* before the report arrived, or the rows went with the agent.             *)
Excused(r) == r \in wiped \/ (request[r].rule # None /\ ruleRow[request[r].rule] = "gone")

(* Whoever got an answer from the proxy or its upstream has a row in the   *)
(* log or a report on its way to it.                                       *)
NothingGoesUnlogged ==
  \A r \in Request : request[r].at \in Final => FinalRows(r) # {} \/ Reported(r) \/ Excused(r)

(* Every request the proxy lets wait or forwards ends, and leaves a row    *)
(* unless it fails upstream or is excused.                                 *)
EveryRequestIsLogged ==
  \A r \in Request :
    (request[r].at # "new") ~> (FinalRows(r) # {} \/ request[r].at = "failed" \/ Excused(r))
=============================================================================
