------------------------------ MODULE Credentials ------------------------------
(***************************************************************************)
(* The agents table, the calls of the agents API that await bcrypt, and    *)
(* the credentials and IP addresses the proxy judges by.                   *)
(*                                                                         *)
(* Creating an agent and rotating its token hash a new token before they   *)
(* write; a registration of an address compares a token with the hash it   *)
(* has read and writes afterwards.  Other calls run meanwhile, so each of  *)
(* the three is a Start and an End.  What an End writes and what it pushes *)
(* is one action: it awaits only settled promises.  The socket and the two *)
(* processes fail as in RulesSync.                                         *)
(***************************************************************************)
EXTENDS Naturals, Sequences, FiniteSets, SequencesExt

CONSTANTS
  MaxAgents,             \* bound: rows ever created; ids are 1 .. MaxAgents
  Name, Ip, NoIp,        \* names, addresses, SQL's NULL
  Call,                  \* the calls that can be under way at one time
  ServerBuffer,          \* bufferSize of the IPC server
  MaxCalls,              \* bound: calls of operators and containers
  MaxBreaks, MaxCrashes  \* bounds: socket breaks; crashes of either process

ASSUME IpAssumption == NoIp \notin Ip
ASSUME NameAssumption == Name # {}
ASSUME CallAssumption == IsFiniteSet(Call)
ASSUME SizeAssumption == MaxAgents \in Nat \ {0} /\ MaxCalls \in Nat /\ ServerBuffer \in Nat \ {0}

VARIABLES
  rows,                  \* the agents table: id to row
  lastId,                \* AUTOINCREMENT
  issued,                \* tokens are numbered as they are generated
  call,                  \* what each call under way is about to write
  told,                  \* history: tokens the API answered with, per agent
  earned,                \* history: <<agent, address>> of matching comparisons
  nodeUp, client, serverBuffer, \* the server, its #client and its buffer
  up, toProxy,           \* the socket, and frames to the proxy
  connect,               \* the client goroutine: "down", "dialing", "reading"
  creds, ipMap,          \* Handler.agents and Handler.ipMap of the proxy
  calls, breaks, crashes \* counters of the bounds

table == <<rows, lastId, issued, call, told, earned>>
serverVars == <<nodeUp, client, serverBuffer>>
proxyVars == <<connect, creds, ipMap>>
vars == <<table, serverVars, up, toProxy, proxyVars, calls, breaks, crashes>>

Agent == 1 .. MaxAgents
Token == 1 .. MaxCalls + 1
Row == [name : Name, token : Token, enabled : BOOLEAN, ip : Ip \cup {NoIp}]
Tables(K, V) == UNION {[S -> V] : S \in SUBSET K}
Credential == [token : Token, enabled : BOOLEAN]
Idle == [op |-> "idle"]
Pending == [op : {"create"}, name : Name, token : Token]
       \cup [op : {"rotate"}, agent : Agent, token : Token]
       \cup [op : {"register"}, agent : Agent, ip : Ip, match : BOOLEAN]
Message == [type : {"agents"}, map : Tables(Name, Credential)]
       \cup [type : {"ips"}, map : Tables(Ip, Name)]

TypeOK ==
  /\ rows \in Tables(Agent, Row) /\ lastId \in Agent /\ issued \in Token
  /\ call \in [Call -> Pending \cup {Idle}]
  /\ told \in [Agent -> Seq(Token)] /\ earned \in SUBSET (Agent \X Ip)
  /\ nodeUp \in BOOLEAN /\ client \in {"none", "live", "dead"} /\ up \in BOOLEAN
  /\ serverBuffer \in Seq(Message) /\ toProxy \in Seq(Message)
  /\ connect \in {"down", "dialing", "reading"}
  /\ creds \in Tables(Name, Credential) /\ ipMap \in Tables(Ip, Name)
  /\ calls \in 0 .. MaxCalls /\ breaks \in 0 .. MaxBreaks /\ crashes \in 0 .. MaxCrashes
  \* name is UNIQUE
  /\ \A a, b \in DOMAIN rows : rows[a].name = rows[b].name => a = b

(* A server that starts with one agent, whose operator has its token; the  *)
(* names are interchangeable, so it has any of them.                       *)
FirstRow == [name |-> CHOOSE n \in Name : TRUE, token |-> 1, enabled |-> TRUE, ip |-> NoIp]
Init ==
  /\ rows = [a \in {1} |-> FirstRow]
  /\ lastId = 1 /\ issued = 1
  /\ told = [a \in Agent |-> IF a = 1 THEN <<1>> ELSE << >>]
  /\ call = [c \in Call |-> Idle] /\ earned = {}
  /\ nodeUp = TRUE /\ client = "none" /\ serverBuffer = << >>
  /\ up = FALSE /\ toProxy = << >>
  /\ connect = "dialing" /\ creds = << >> /\ ipMap = << >>
  /\ calls = 0 /\ breaks = 0 /\ crashes = 0

-----------------------------------------------------------------------------
(* What the server pushes. *)

(* listForProxy, as Handler.Reload keys it: by name. *)
IdOf(n) == CHOOSE a \in DOMAIN rows : rows[a].name = n
Listing == [n \in {rows[a].name : a \in DOMAIN rows} |->
              [token |-> rows[IdOf(n)].token, enabled |-> rows[IdOf(n)].enabled]]

(* getIPMapping goes through the enabled rows with an address by rowid, so *)
(* the last row of an address gives its name.                              *)
Holders(i) == {a \in DOMAIN rows : rows[a].enabled /\ rows[a].ip = i}
IpMapping == [i \in {j \in Ip : Holders(j) # {}} |->
                rows[CHOOSE a \in Holders(i) : \A b \in Holders(i) : b <= a].name]

AgentsPush == [type |-> "agents", map |-> Listing]
IpsPush == [type |-> "ips", map |-> IpMapping]

Newest(s, n) == IF Len(s) > n THEN SubSeq(s, Len(s) - n + 1, Len(s)) ELSE s

Send(msgs) ==
  /\ UNCHANGED <<nodeUp, client, up, proxyVars, breaks, crashes>>
  /\ \/ client = "live" /\ toProxy' = toProxy \o msgs /\ UNCHANGED serverBuffer
     \/ client = "dead" /\ UNCHANGED <<toProxy, serverBuffer>>
     \/ /\ client = "none"
        /\ serverBuffer' = Newest(serverBuffer \o msgs, ServerBuffer)
        /\ UNCHANGED toProxy

(* sendAgentsReload after the write *)
PushBoth == Send(<<AgentsPush', IpsPush'>>)

Silent == UNCHANGED <<serverVars, up, toProxy, proxyVars, breaks, crashes>>

-----------------------------------------------------------------------------
(* The calls. *)

Begin == nodeUp /\ calls < MaxCalls /\ calls' = calls + 1

Start(c, pending) ==
  /\ Begin
  /\ call[c] = Idle
  /\ call' = [call EXCEPT ![c] = pending]
  /\ Silent

Tell(a, t) == told' = [told EXCEPT ![a] = Append(@, t)]
Return(c) == nodeUp /\ call' = [call EXCEPT ![c] = Idle] /\ UNCHANGED calls

Creating == {c \in Call : call[c].op = "create"}

(* POST /api/agents generates a token and awaits its hash ... *)
CreateStart(c, n) ==
  /\ lastId + Cardinality(Creating) < MaxAgents
  /\ issued' = issued + 1
  /\ Start(c, [op |-> "create", name |-> n, token |-> issued + 1])
  /\ UNCHANGED <<rows, lastId, told, earned>>

(* ... and inserts, unless the name has been taken: then the token is lost *)
(* with the error and nothing is pushed.                                   *)
CreateEnd(c) ==
  /\ call[c].op = "create"
  /\ Return(c)
  /\ UNCHANGED <<issued, earned>>
  /\ LET n == call[c].name  t == call[c].token  taken == \E a \in DOMAIN rows : rows[a].name = n IN
     \/ taken /\ Silent /\ UNCHANGED <<rows, lastId, told>>
     \/ /\ ~taken
        /\ lastId' = lastId + 1
        /\ rows' = [a \in DOMAIN rows \cup {lastId + 1} |->
                      IF a = lastId + 1 THEN [name |-> n, token |-> t, enabled |-> TRUE, ip |-> NoIp]
                      ELSE rows[a]]
        /\ Tell(lastId + 1, t)
        /\ PushBoth

RotateStart(c, a) ==
  /\ a \in DOMAIN rows
  /\ issued' = issued + 1
  /\ Start(c, [op |-> "rotate", agent |-> a, token |-> issued + 1])
  /\ UNCHANGED <<rows, lastId, told, earned>>

(* slip: the hash is written only if no other rotation has come between *)
RotateEndIfUnchanged(c) ==
  /\ call[c].op = "rotate"
  /\ Return(c)
  /\ LET a == call[c].agent IN
     /\ rows' = IF a \in DOMAIN rows /\ rows[a].token + 1 = call[c].token
                THEN [rows EXCEPT ![a].token = call[c].token] ELSE rows
     /\ Tell(a, call[c].token)
  /\ PushBoth
  /\ UNCHANGED <<lastId, issued, earned>>

(* The UPDATE finds no row if the agent was deleted meanwhile; the caller  *)
(* is told a token all the same.                                           *)
RotateEnd(c) ==
  /\ call[c].op = "rotate"
  /\ Return(c)
  /\ LET a == call[c].agent IN
     /\ rows' = IF a \in DOMAIN rows THEN [rows EXCEPT ![a].token = call[c].token] ELSE rows
     /\ Tell(a, call[c].token)
  /\ PushBoth
  /\ UNCHANGED <<lastId, issued, earned>>

(* A container registers: authenticate reads the row of the name, refuses  *)
(* a disabled one, and awaits the comparison with the hash of that row.    *)
RegisterStart(c, a, t, i) ==
  /\ a \in DOMAIN rows
  /\ rows[a].enabled
  /\ t \in 1 .. issued
  /\ Start(c, [op |-> "register", agent |-> a, ip |-> i, match |-> t = rows[a].token])
  /\ earned' = IF t = rows[a].token THEN earned \cup {<<a, i>>} ELSE earned
  /\ UNCHANGED <<rows, lastId, issued, told>>

(* slip: the address is stored whether or not the token matched *)
RegisterEndUnchecked(c) ==
  /\ call[c].op = "register"
  /\ Return(c)
  /\ LET a == call[c].agent IN
     rows' = IF a \in DOMAIN rows THEN [rows EXCEPT ![a].ip = call[c].ip] ELSE rows
  /\ Send(<<IpsPush'>>)
  /\ UNCHANGED <<lastId, issued, told, earned>>

(* registerIp writes by id, whatever the row of that id has become. *)
RegisterEnd(c) ==
  /\ call[c].op = "register"
  /\ Return(c)
  /\ UNCHANGED <<lastId, issued, told, earned>>
  /\ LET a == call[c].agent IN
     \/ ~call[c].match /\ Silent /\ UNCHANGED rows
     \/ /\ call[c].match
        /\ rows' = IF a \in DOMAIN rows THEN [rows EXCEPT ![a].ip = call[c].ip] ELSE rows
        /\ Send(<<IpsPush'>>)

(* PUT writes name and enabled; ip_address is not among its fields. *)
Update(a, n, e) ==
  /\ Begin
  /\ a \in DOMAIN rows
  /\ \A b \in DOMAIN rows \ {a} : rows[b].name # n
  /\ rows' = [rows EXCEPT ![a].name = n, ![a].enabled = e]
  /\ PushBoth
  /\ UNCHANGED <<lastId, issued, call, told, earned>>

(* slip: a deletion tells the proxy the credentials and not the addresses *)
DeleteAgentsOnly(a) ==
  /\ Begin
  /\ rows' = [b \in DOMAIN rows \ {a} |-> rows[b]]
  /\ Send(<<AgentsPush'>>)
  /\ UNCHANGED <<lastId, issued, call, told, earned>>

Delete(a) ==
  /\ Begin
  /\ rows' = [b \in DOMAIN rows \ {a} |-> rows[b]]
  /\ PushBoth
  /\ UNCHANGED <<lastId, issued, call, told, earned>>

(* SIGHUP pushes the credentials and no addresses. *)
Sighup ==
  /\ Begin
  /\ Send(<<AgentsPush>>)
  /\ UNCHANGED table

-----------------------------------------------------------------------------
(* The connection. *)

Dial ==
  /\ connect = "dialing"
  /\ nodeUp
  /\ connect' = "reading"
  /\ up' = TRUE
  /\ UNCHANGED <<table, serverVars, toProxy, creds, ipMap, calls, breaks, crashes>>

(* slip: onConnect pushes before the buffer is flushed *)
AcceptPushesFirst ==
  /\ nodeUp /\ up /\ client # "live"
  /\ client' = "live"
  /\ toProxy' = toProxy \o <<AgentsPush, IpsPush>> \o serverBuffer
  /\ serverBuffer' = << >>
  /\ UNCHANGED <<table, nodeUp, up, proxyVars, calls, breaks, crashes>>

(* slip: onConnect does not push the addresses *)
AcceptAgentsOnly ==
  /\ nodeUp /\ up /\ client # "live"
  /\ client' = "live"
  /\ toProxy' = toProxy \o serverBuffer \o <<AgentsPush>>
  /\ serverBuffer' = << >>
  /\ UNCHANGED <<table, nodeUp, up, proxyVars, calls, breaks, crashes>>

(* The connection callback flushes the buffer, then onConnect pushes. *)
Accept ==
  /\ nodeUp /\ up /\ client # "live"
  /\ client' = "live"
  /\ toProxy' = toProxy \o serverBuffer \o <<AgentsPush, IpsPush>>
  /\ serverBuffer' = << >>
  /\ UNCHANGED <<table, nodeUp, up, proxyVars, calls, breaks, crashes>>

ClientGone ==
  /\ client = "dead"
  /\ client' = "none"
  /\ UNCHANGED <<table, nodeUp, serverBuffer, up, toProxy, proxyVars, calls, breaks, crashes>>

(* Handler.Reload and ReloadIPMap: each replaces the whole of its map. *)
Read ==
  /\ connect = "reading" /\ toProxy # << >>
  /\ toProxy' = Tail(toProxy)
  /\ \/ Head(toProxy).type = "agents" /\ creds' = Head(toProxy).map /\ UNCHANGED ipMap
     \/ Head(toProxy).type = "ips" /\ ipMap' = Head(toProxy).map /\ UNCHANGED creds
  /\ UNCHANGED <<table, serverVars, up, connect, calls, breaks, crashes>>

ConnLost ==
  /\ connect = "reading" /\ ~up /\ toProxy = << >>
  /\ connect' = "dialing"
  /\ UNCHANGED <<table, serverVars, up, toProxy, creds, ipMap, calls, breaks, crashes>>

SomeArrive == \E j \in 0 .. Len(toProxy) : toProxy' = SubSeq(toProxy, 1, j)

Break ==
  /\ up /\ client = "live"
  /\ breaks < MaxBreaks
  /\ breaks' = breaks + 1
  /\ up' = FALSE
  /\ client' = "dead"
  /\ SomeArrive
  /\ UNCHANGED <<table, nodeUp, serverBuffer, proxyVars, calls, crashes>>

(* The proxy dies and forgets everybody. *)
ProxyCrash ==
  /\ connect # "down" /\ crashes < MaxCrashes
  /\ crashes' = crashes + 1
  /\ connect' = "down" /\ creds' = << >> /\ ipMap' = << >>
  /\ up' = FALSE
  /\ client' = IF client = "live" THEN "dead" ELSE client
  /\ toProxy' = << >>
  /\ UNCHANGED <<table, nodeUp, serverBuffer, calls, breaks>>

(* onRestart pushes the credentials and no addresses, to the old #client   *)
(* or into the buffer; another supervisor pushes nothing.                  *)
ProxyStart ==
  /\ connect = "down"
  /\ connect' = "dialing"
  /\ \/ /\ nodeUp
        /\ \/ client = "dead" /\ UNCHANGED serverBuffer
           \/ client = "none" /\ serverBuffer' = Newest(serverBuffer \o <<AgentsPush>>, ServerBuffer)
     \/ UNCHANGED serverBuffer
  /\ UNCHANGED <<table, nodeUp, client, up, toProxy, creds, ipMap, calls, breaks, crashes>>

(* The server dies with the calls under way. *)
ServerCrash ==
  /\ nodeUp /\ crashes < MaxCrashes
  /\ crashes' = crashes + 1
  /\ nodeUp' = FALSE /\ client' = "none" /\ serverBuffer' = << >>
  /\ call' = [c \in Call |-> Idle]
  /\ up' = FALSE
  /\ SomeArrive
  /\ UNCHANGED <<rows, lastId, issued, told, earned, proxyVars, calls, breaks>>

ServerStart ==
  /\ ~nodeUp
  /\ nodeUp' = TRUE
  /\ UNCHANGED <<table, client, serverBuffer, up, toProxy, proxyVars, calls, breaks, crashes>>

-----------------------------------------------------------------------------

Finish(c) == CreateEnd(c) \/ RotateEnd(c) \/ RegisterEnd(c)

Ask ==
  \/ \E c \in Call, n \in Name : CreateStart(c, n)
  \/ \E c \in Call, a \in Agent : RotateStart(c, a)
  \/ \E c \in Call, a \in Agent, t \in Token, i \in Ip : RegisterStart(c, a, t, i)
  \/ \E a \in Agent, n \in Name, e \in BOOLEAN : Update(a, n, e)
  \/ \E a \in Agent : Delete(a)
  \/ Sighup

Link == Dial \/ Accept \/ ClientGone \/ Read \/ ConnLost
Faults == Break \/ ProxyCrash \/ ProxyStart \/ ServerCrash \/ ServerStart

Next == Ask \/ (\E c \in Call : Finish(c)) \/ Link \/ Faults

Safety == Init /\ [][Next]_vars

(* bcrypt ends, both event loops run and crashed processes come back;      *)
(* nobody has to call and nothing has to fail.                             *)
Spec ==
  /\ Safety
  /\ \A c \in Call : WF_vars(Finish(c))
  /\ WF_vars(Dial) /\ WF_vars(Accept) /\ WF_vars(ClientGone) /\ WF_vars(Read) /\ WF_vars(ConnLost)
  /\ WF_vars(ProxyStart) /\ WF_vars(ServerStart)
-----------------------------------------------------------------------------

Synced == nodeUp /\ up /\ client = "live" /\ connect = "reading" /\ toProxy = << >>
InForce == creds = Listing /\ ipMap = IpMapping

(* Once everything sent has been read, the proxy has the credentials and   *)
(* the addresses of the table (api/agents.js sendAgentsReload, index.js    *)
(* onConnect, Handler.Reload and ReloadIPMap): no order of slow calls,     *)
(* renames, deletions, SIGHUPs, lost pushes and restarts leaves it with a  *)
(* deleted, disabled or rotated credential or a dead address.              *)
NothingStaleWhenSynced == Synced => InForce

(* An address stands in the row of an agent only if somebody has shown the *)
(* token that very row had (agents.js authenticate and registerIp): it is  *)
(* not passed on to a new agent of the same name, or by the row of another *)
(* call.                                                                   *)
AddressWasEarned == \A a \in DOMAIN rows : rows[a].ip # NoIp => <<a, rows[a].ip>> \in earned

(* The token in force is the last one the API has handed out for the agent *)
(* (agents.js create and rotateToken): whatever rotations overlap, the     *)
(* caller that was answered last can use what it got.                      *)
LastTokenTold == \A a \in DOMAIN rows : told[a] # << >> /\ rows[a].token = Last(told[a])

(* A token that the proxy's registry has seen replaced does not come back  *)
(* into it, though the pushes that were buffered meanwhile are still to    *)
(* come (ipc/server.js flushes before onConnect).  This is about           *)
(* Handler.agents; what bcrypt said of the token may be cached for a while *)
(* longer, see AuthCache.                                                  *)
Position(a, t) == CHOOSE k \in DOMAIN told[a] : told[a][k] = t
StaysRevoked ==
  \A n \in DOMAIN creds \cap DOMAIN creds', a \in Agent :
    {creds[n].token, creds'[n].token} \subseteq Range(told[a])
       => Position(a, creds[n].token) <= Position(a, creds'[n].token)
RevokedStaysRevoked == [][StaysRevoked]_vars

(* The calls end, the faults end, and from some moment on the proxy has    *)
(* what the table says, for good.                                          *)
CatchesUp == <>[]InForce
=============================================================================
