------------------------------- MODULE RulesSync -------------------------------
(***************************************************************************)
(* How the rules of PolicyStore reach the evaluator of the Go proxy.       *)
(* Every API handler writes the tables and pushes a rules.reload over the  *)
(* IPC socket; the proxy replaces its evaluator's rules with what the      *)
(* message holds and looks a request's rules up by the agent's name.       *)
(*                                                                         *)
(* A handler awaits only settled promises between its write and its push,  *)
(* so no other handler runs in between: each is one action.  The socket    *)
(* and the two processes fail as in ApprovalFlow.  Agent credentials and   *)
(* IP addresses travel in messages of their own and are left out.          *)
(***************************************************************************)
EXTENDS PolicyStore, Sequences

CONSTANTS
  All,                   \* the evaluator's bucket "__all__"
  Calls,                 \* the API groups the operators use
  ServerBuffer,          \* bufferSize of the IPC server
  MaxCalls,              \* bound: calls of the operators
  MaxBreaks, MaxCrashes  \* bounds: socket breaks; crashes of either process

ASSUME AllAssumption == All \notin Name
ASSUME CallsAssumption == Calls \subseteq {"policies", "rules", "move", "approvals", "agents", "sighup"}
ASSUME BoundAssumption ==
  ServerBuffer \in Nat \ {0} /\ MaxCalls \in Nat /\ MaxBreaks \in Nat /\ MaxCrashes \in Nat

VARIABLES
  nodeUp, client, serverBuffer,       \* the server, its #client and its buffer
  up, toProxy,                        \* the socket, and frames to the proxy
  connect,               \* the client goroutine: "down", "dialing", "reading"
  byAgent,               \* the evaluator: rules of each key
  drifted,               \* history: a write since the last map was pushed
  calls, breaks, crashes \* counters of the bounds

serverVars == <<nodeUp, client, serverBuffer>>
linkVars   == <<up, toProxy>>
proxyVars  == <<connect, byAgent>>
bounds     == <<calls, breaks, crashes>>
vars == <<store, serverVars, linkVars, proxyVars, drifted, bounds>>

Keys == Name \cup {All}
Buckets == UNION {[K -> SUBSET Rule] : K \in SUBSET Keys}

(* rules.reload with a map, with a list, or without data *)
Message ==
  [type : {"map"}, map : Buckets] \cup [type : {"list"}, rules : SUBSET Rule]
  \cup {[type |-> "nothing"]}

SyncTypeOK ==
  /\ TypeOK
  /\ nodeUp \in BOOLEAN /\ client \in {"none", "live", "dead"}
  /\ up \in BOOLEAN /\ connect \in {"down", "dialing", "reading"}
  /\ byAgent \in Buckets
  /\ serverBuffer \in Seq(Message) /\ toProxy \in Seq(Message)
  /\ drifted \in BOOLEAN
  /\ calls \in 0 .. MaxCalls /\ breaks \in 0 .. MaxBreaks /\ crashes \in 0 .. MaxCrashes

SyncInit ==
  /\ Init
  /\ nodeUp = TRUE /\ client = "none" /\ serverBuffer = << >>
  /\ up = FALSE /\ toProxy = << >>
  /\ connect = "dialing"
  /\ byAgent = << >>
  /\ drifted = FALSE
  /\ calls = 0 /\ breaks = 0 /\ crashes = 0

-----------------------------------------------------------------------------
(* What the server pushes. *)

(* sendAgentRulesReload: the rules of each agent, keyed by its name. *)
NameOf(K) == {agents[a] : a \in K}
AgentMap == [n \in NameOf(DOMAIN agents) |->
               Resolve(CHOOSE a \in DOMAIN agents : agents[a] = n)]

Enabled == {r \in DOMAIN rules : rules[r].enabled}

MapPush == [type |-> "map", map |-> AgentMap]

(* sendRulesReload of the rules API: every rule; LoadMap skips the others. *)
ListPush == [type |-> "list", rules |-> Enabled]

NothingPush == [type |-> "nothing"]

Newest(s, n) == IF Len(s) > n THEN SubSeq(s, Len(s) - n + 1, Len(s)) ELSE s

ServerSend(msgs) ==
  \/ client = "live" /\ toProxy' = toProxy \o msgs /\ UNCHANGED serverBuffer
  \/ client = "dead" /\ UNCHANGED <<toProxy, serverBuffer>>
  \/ /\ client = "none"
     /\ serverBuffer' = Newest(serverBuffer \o msgs, ServerBuffer)
     /\ UNCHANGED toProxy

(* A handler of the API: a write, then a push of what it has left.  Not    *)
(* every push brings the proxy the map of the tables.                      *)
Handler(group, pushesMap) ==
  /\ nodeUp
  /\ group \in Calls
  /\ calls < MaxCalls
  /\ calls' = calls + 1
  /\ drifted' = ~pushesMap
  /\ UNCHANGED <<nodeUp, client, up, proxyVars, breaks, crashes>>

-----------------------------------------------------------------------------
(* The API. *)

(* slip: the push is made before the write *)
PolicyCallPushesFirst ==
  /\ Handler("policies", TRUE)
  /\ PolicyWrite \/ UNCHANGED store
  /\ ServerSend(<<MapPush>>)

(* Every route of api/policies.js; renaming a policy only pushes. *)
PolicyCall ==
  /\ Handler("policies", TRUE)
  /\ PolicyWrite \/ UNCHANGED store
  /\ ServerSend(<<MapPush'>>)

(* POST, PUT and DELETE of api/rules.js *)
RuleCall ==
  /\ Handler("rules", FALSE)
  /\ RuleWrite
  /\ ServerSend(<<ListPush'>>)

(* POST /api/rules/:id/move *)
MoveCall ==
  /\ Handler("move", TRUE)
  /\ RuleMove
  /\ ServerSend(<<MapPush'>>)

(* POST /api/approvals/:id/resolve with create_rule: the rule has no       *)
(* policy, and the reload that follows has no data.                        *)
ApprovalCall ==
  /\ Handler("approvals", FALSE)
  /\ \E r \in Rule : CreateRule(r, [policy |-> NoPolicy, enabled |-> TRUE])
  /\ ServerSend(<<NothingPush>>)

(* api/agents.js pushes credentials, and no rules. *)
AgentCall ==
  /\ Handler("agents", FALSE)
  /\ AgentWrite
  /\ UNCHANGED <<toProxy, serverBuffer>>

(* SIGHUP pushes the rules of the tables. *)
Sighup ==
  /\ Handler("sighup", TRUE)
  /\ ServerSend(<<MapPush>>)
  /\ UNCHANGED store

-----------------------------------------------------------------------------
(* The connection. *)

(* The proxy dials; the server's callback comes later. *)
Dial ==
  /\ connect = "dialing"
  /\ nodeUp
  /\ connect' = "reading"
  /\ up' = TRUE
  /\ UNCHANGED <<store, drifted, serverVars, toProxy, byAgent, bounds>>

(* slip: only what was buffered is sent to a proxy that connects *)
AcceptWithoutPush ==
  /\ nodeUp
  /\ up
  /\ client # "live"
  /\ client' = "live"
  /\ toProxy' = toProxy \o serverBuffer
  /\ serverBuffer' = << >>
  /\ drifted' = FALSE
  /\ UNCHANGED <<store, nodeUp, up, proxyVars, bounds>>

(* The connection callback flushes the buffer, then onConnect pushes.  *)
Accept ==
  /\ nodeUp
  /\ up
  /\ client # "live"
  /\ client' = "live"
  /\ toProxy' = toProxy \o serverBuffer \o <<MapPush>>
  /\ serverBuffer' = << >>
  /\ drifted' = FALSE
  /\ UNCHANGED <<store, nodeUp, up, proxyVars, bounds>>

ClientGone ==
  /\ client = "dead"
  /\ client' = "none"
  /\ UNCHANGED <<store, drifted, nodeUp, serverBuffer, linkVars, proxyVars, bounds>>

(* Evaluator.LoadMap and Load: the whole rule set is replaced. *)
Load(m) ==
  CASE m.type = "map"     -> m.map
    [] m.type = "list"    -> [k \in {All} |-> m.rules]
    [] m.type = "nothing" -> [k \in {All} |-> {}]

(* The next rules.reload. *)
Read ==
  /\ connect = "reading"
  /\ toProxy # << >>
  /\ toProxy' = Tail(toProxy)
  /\ byAgent' = Load(Head(toProxy))
  /\ UNCHANGED <<store, drifted, serverVars, up, connect, bounds>>

(* readLoop meets the end of the stream. *)
ConnLost ==
  /\ connect = "reading"
  /\ ~up
  /\ toProxy = << >>
  /\ connect' = "dialing"
  /\ UNCHANGED <<store, drifted, serverVars, linkVars, byAgent, bounds>>

Break ==
  /\ up
  /\ client = "live"
  /\ breaks < MaxBreaks
  /\ breaks' = breaks + 1
  /\ up' = FALSE
  /\ client' = "dead"
  /\ \E j \in 0 .. Len(toProxy) : toProxy' = SubSeq(toProxy, 1, j)
  /\ UNCHANGED <<store, drifted, nodeUp, serverBuffer, proxyVars, calls, crashes>>

(* The proxy dies and forgets its rules ... *)
ProxyCrash ==
  /\ connect # "down"
  /\ crashes < MaxCrashes
  /\ crashes' = crashes + 1
  /\ connect' = "down"
  /\ byAgent' = << >>
  /\ up' = FALSE
  /\ client' = IF client = "live" THEN "dead" ELSE client
  /\ toProxy' = << >>
  /\ UNCHANGED <<store, drifted, nodeUp, serverBuffer, calls, breaks>>

(* ... and is started again, by the proxy manager, whose onRestart then    *)
(* pushes to the old #client or into the buffer, or by another supervisor. *)
ProxyStart ==
  /\ connect = "down"
  /\ connect' = "dialing"
  /\ \/ nodeUp /\ ServerSend(<<MapPush>>)
     \/ UNCHANGED <<toProxy, serverBuffer>>
  /\ UNCHANGED <<store, drifted, nodeUp, client, up, byAgent, bounds>>

(* The server dies; its tables stay, and the proxy keeps its rules. *)
ServerCrash ==
  /\ nodeUp
  /\ crashes < MaxCrashes
  /\ crashes' = crashes + 1
  /\ nodeUp' = FALSE
  /\ client' = "none"
  /\ serverBuffer' = << >>
  /\ up' = FALSE
  /\ \E j \in 0 .. Len(toProxy) : toProxy' = SubSeq(toProxy, 1, j)
  /\ UNCHANGED <<store, drifted, proxyVars, calls, breaks>>

ServerStart ==
  /\ ~nodeUp
  /\ nodeUp' = TRUE
  /\ UNCHANGED <<store, drifted, client, serverBuffer, linkVars, proxyVars, bounds>>

-----------------------------------------------------------------------------

Api == PolicyCall \/ RuleCall \/ MoveCall \/ ApprovalCall \/ AgentCall \/ Sighup
Link == Dial \/ Accept \/ ClientGone \/ Read \/ ConnLost
Faults == Break \/ ProxyCrash \/ ProxyStart \/ ServerCrash \/ ServerStart

SyncNext == Api \/ Link \/ Faults

SyncSafety == SyncInit /\ [][SyncNext]_vars

(* Both event loops run and crashed processes come back; operators need    *)
(* not call, and nothing has to fail.                                      *)
SyncSpec ==
  /\ SyncSafety
  /\ WF_vars(Dial) /\ WF_vars(Accept) /\ WF_vars(ClientGone) /\ WF_vars(Read) /\ WF_vars(ConnLost)
  /\ WF_vars(ProxyStart) /\ WF_vars(ServerStart)
-----------------------------------------------------------------------------
(* Evaluator.Match: the agent's own bucket or, if that is empty, the       *)
(* bucket of everybody.                                                    *)
Bucket(k) == IF k \in DOMAIN byAgent THEN byAgent[k] ELSE {}
Applicable(n) == IF Bucket(n) # {} THEN Bucket(n) ELSE Bucket(All)

(* Connected, and every message has been read. *)
Synced == nodeUp /\ up /\ client = "live" /\ connect = "reading" /\ toProxy = << >>

InForce == \A a \in DOMAIN agents : Applicable(agents[a]) = Resolve(a)

(* Once everything sent has been read, the proxy judges each agent by      *)
(* exactly the rules of its policies (index.js onConnect and               *)
(* sendAgentRulesReload, evaluator.go LoadMap), whatever was lost with a   *)
(* socket or a process, and whatever stale push was still buffered; after  *)
(* a write that pushed no map, the next policy call, move, SIGHUP or       *)
(* reconnection makes it so.                                               *)
RulesInForce == Synced /\ ~drifted => InForce

(* The calls end, faults end, and unless the last call pushed no map, the  *)
(* rules in force are those of the tables for good: nothing but the        *)
(* passing of messages is needed.                                          *)
CatchesUp == <>[]~drifted => <>[]InForce

-----------------------------------------------------------------------------
(* What the documents say and the code does not do. *)

(* README.md:185: an agent is judged by rules of its policies only. *)
OnlyAssignedRules ==
  Synced => \A a \in DOMAIN agents : Applicable(agents[a]) \subseteq Resolve(a)
=============================================================================
