---------------------------- MODULE ApprovalFlow ----------------------------
(***************************************************************************)
(* The hold-and-ask mode end to end.  A goroutine of the Go proxy per held *)
(* request; the IPC client goroutine, which dials, flushes, re-announces   *)
(* and reads; the Unix socket, which may break; the Node server, which     *)
(* keeps the approval queue in its database; the operators; and the clock. *)
(*                                                                         *)
(* Time is kept as ages: Tick makes every running timer one unit older.    *)
(* Messages that do not carry approvals (logs, rule sets) are left out,    *)
(* except for the rules.reload an approval itself may send.  So is the     *)
(* deletion of an agent, which takes its rows out of approval_queue        *)
(* (agentsDAO.delete): a hold of that agent whose row is gone times out.   *)
(***************************************************************************)
EXTENDS Naturals, Sequences, FiniteSets

CONSTANTS
  Request,          \* requests that reach the hold branch; also their msg_id
  Entry,            \* ids of rows of approval_queue
  NoRow,            \* marks an id no row has yet
  HoldTimeout,      \* holdTimeout of the proxy and of the server's cleanup
  Slack,            \* how late a goroutine may be scheduled past its timer
  ProxyBuffer,      \* bufSize of the IPC client
  ServerBuffer,     \* bufferSize of the IPC server
  MaxBreaks,        \* bound: times the socket breaks
  MaxCrashes        \* bound: crashes of the proxy and of the server together

ASSUME TimeAssumption ==
  /\ HoldTimeout \in Nat \ {0}
  /\ Slack \in 0 .. HoldTimeout

ASSUME BufferAssumption == ProxyBuffer \in Nat \ {0} /\ ServerBuffer \in Nat \ {0}

ASSUME BoundAssumption == MaxBreaks \in Nat /\ MaxCrashes \in Nat

Action == {"approve", "reject"}
StatusOf(a) == IF a = "approve" THEN "approved" ELSE "rejected"   \* statusMap

(* Rows of approval_queue; "expired" is rejected by system:expired. *)
Row == [ref : Request,
        status : {"pending", "approved", "rejected", "expired"},
        age : 0 .. 2 * HoldTimeout + 1]

ASSUME NoRowAssumption == NoRow \notin Row

(* approval.needed; a re-announcement carries the msg_id and no data. *)
Needed == [ref : Request, data : BOOLEAN]

Resolved == [type : {"approval.resolve"}, ref : Request, action : Action]
Reload == [type |-> "rules.reload"]
ToProxy == Resolved \cup {Reload}

NotDelivering == [type |-> "none"]

VARIABLES
  pc,               \* pc[r]: where the goroutine that holds r is
  heldRequests,     \* the requests with a channel in the map
  ch,               \* ch[r]: the decision in r's channel of capacity one
  heldFor,          \* heldFor[r]: how long r's timer has been running
  connect,          \* where the goroutine in Connect is; "down": no process
  first,            \* the process has not connected yet
  announcing,       \* msg ids reconnectFn has still to send
  delivering,       \* the resolve taken from the map and not yet in its channel
  buffer,           \* messages of the client kept for the next connection
  up,               \* the socket carries data
  toServer, toProxy,\* frames on the socket, and read from it by neither side
  nodeUp,           \* the server process runs
  client,           \* #client: no socket, the live one, or one that died
  serverBuffer,     \* messages of the server kept for the next connection
  queue,            \* the approval_queue table
  breaks, crashes   \* counters of the bounds

proxyVars  == <<pc, heldRequests, ch, heldFor>>
clientVars == <<connect, first, announcing, delivering, buffer>>
linkVars   == <<up, toServer, toProxy>>
serverVars == <<nodeUp, client, serverBuffer, queue>>
bounds     == <<breaks, crashes>>
vars == <<proxyVars, clientVars, linkVars, serverVars, bounds>>

Blocked == {"waiting", "timingOut"}           \* inside the select
Held    == {"registered"} \cup Blocked        \* inside holdRequestFn

TypeOK ==
  /\ pc \in [Request -> {"idle", "forwarded", "rejected", "timedOut", "lost"} \cup Held]
  /\ heldRequests \subseteq Request
  /\ ch \in [Request -> Action \cup {"empty"}]
  /\ heldFor \in [Request -> 0 .. HoldTimeout + Slack]
  /\ connect \in {"down", "dialing", "flushed", "announcing", "reading"}
  /\ first \in BOOLEAN
  /\ announcing \subseteq Request
  /\ delivering \in Resolved \cup {NotDelivering}
  /\ buffer \in Seq(Needed)
  /\ up \in BOOLEAN
  /\ toServer \in Seq(Needed)
  /\ toProxy \in Seq(ToProxy)
  /\ nodeUp \in BOOLEAN
  /\ client \in {"none", "live", "dead"}
  /\ serverBuffer \in Seq(ToProxy)
  /\ queue \in [Entry -> Row \cup {NoRow}]
  /\ breaks \in 0 .. MaxBreaks
  /\ crashes \in 0 .. MaxCrashes

Init ==
  /\ pc = [r \in Request |-> "idle"]
  /\ heldRequests = {}
  /\ ch = [r \in Request |-> "empty"]
  /\ heldFor = [r \in Request |-> 0]
  /\ connect = "dialing"
  /\ first = TRUE
  /\ announcing = {}
  /\ delivering = NotDelivering
  /\ buffer = <<>>
  /\ up = FALSE
  /\ toServer = <<>>
  /\ toProxy = <<>>
  /\ nodeUp = TRUE
  /\ client = "none"
  /\ serverBuffer = <<>>
  /\ queue = [e \in Entry |-> NoRow]
  /\ breaks = 0
  /\ crashes = 0

-----------------------------------------------------------------------------
(* Sending.  Both sides write to the socket they believe in, where a dead  *)
(* one swallows the frame, and keep the newest messages while they have    *)
(* none.                                                                   *)

Newest(s, n) == IF Len(s) > n THEN SubSeq(s, Len(s) - n + 1, Len(s)) ELSE s

HasConn == connect \in {"flushed", "announcing", "reading"}   \* c.conn # nil

ClientSend(m) ==
  IF HasConn
  THEN /\ toServer' = IF up THEN Append(toServer, m) ELSE toServer
       /\ UNCHANGED buffer
  ELSE /\ buffer' = Newest(Append(buffer, m), ProxyBuffer)
       /\ UNCHANGED toServer

ServerSend(msgs) ==
  \/ client = "live" /\ toProxy' = toProxy \o msgs /\ UNCHANGED serverBuffer
  \/ client = "dead" /\ UNCHANGED <<toProxy, serverBuffer>>
  \/ /\ client = "none"
     /\ serverBuffer' = Newest(serverBuffer \o msgs, ServerBuffer)
     /\ UNCHANGED toProxy

-----------------------------------------------------------------------------
(* holdRequestFn, one goroutine per request. *)

(* No rule decides r and the default is hold: its channel enters the map. *)
Hold(r) ==
  /\ connect # "down"
  /\ pc[r] = "idle"
  /\ pc' = [pc EXCEPT ![r] = "registered"]
  /\ heldRequests' = heldRequests \cup {r}
  /\ UNCHANGED <<ch, heldFor, clientVars, linkVars, serverVars, bounds>>

(* Send, then the select starts its timer. *)
Ask(r) ==
  /\ pc[r] = "registered"
  /\ pc' = [pc EXCEPT ![r] = "waiting"]
  /\ ClientSend([ref |-> r, data |-> TRUE])
  /\ UNCHANGED <<heldRequests, ch, heldFor, connect, first, announcing, delivering,
                 up, toProxy, serverVars, bounds>>

(* case approved := <-ch; the timer is garbage then *)
TakeDecision(r) ==
  /\ pc[r] = "waiting"
  /\ ch[r] # "empty"
  /\ pc' = [pc EXCEPT ![r] = IF ch[r] = "approve" THEN "forwarded" ELSE "rejected"]
  /\ ch' = [ch EXCEPT ![r] = "empty"]
  /\ heldFor' = [heldFor EXCEPT ![r] = 0]
  /\ UNCHANGED <<heldRequests, clientVars, linkVars, serverVars, bounds>>

(* case <-time.After(holdTimeout), even with a decision in the channel. *)
TimerFires(r) ==
  /\ pc[r] = "waiting"
  /\ heldFor[r] >= HoldTimeout
  /\ pc' = [pc EXCEPT ![r] = "timingOut"]
  /\ UNCHANGED <<heldRequests, ch, heldFor, clientVars, linkVars, serverVars, bounds>>

(* slip: the timer's arm leaves its channel in the map *)
GiveUpKeepsChannel(r) ==
  /\ pc[r] = "timingOut"
  /\ pc' = [pc EXCEPT ![r] = "timedOut"]
  /\ heldFor' = [heldFor EXCEPT ![r] = 0]
  /\ UNCHANGED <<heldRequests, ch, clientVars, linkVars, serverVars, bounds>>

(* slip: the timer's arm returns true *)
GiveUpFailsOpen(r) ==
  /\ pc[r] = "timingOut"
  /\ pc' = [pc EXCEPT ![r] = "forwarded"]
  /\ heldRequests' = heldRequests \ {r}
  /\ heldFor' = [heldFor EXCEPT ![r] = 0]
  /\ UNCHANGED <<ch, clientVars, linkVars, serverVars, bounds>>

(* The timer's arm leaves the map; a decision may have left it before. *)
GiveUp(r) ==
  /\ pc[r] = "timingOut"
  /\ pc' = [pc EXCEPT ![r] = "timedOut"]
  /\ heldRequests' = heldRequests \ {r}
  /\ heldFor' = [heldFor EXCEPT ![r] = 0]
  /\ UNCHANGED <<ch, clientVars, linkVars, serverVars, bounds>>

-----------------------------------------------------------------------------
(* Connect, readLoop and the callbacks: one goroutine. *)

(* slip: the buffer is forgotten and not written *)
DialDropsBuffer ==
  /\ connect = "dialing"
  /\ nodeUp
  /\ up' = TRUE
  /\ buffer' = <<>>
  /\ connect' = IF first THEN "reading" ELSE "flushed"
  /\ first' = FALSE
  /\ UNCHANGED <<proxyVars, announcing, delivering, toServer, toProxy, serverVars, bounds>>

(* Dial succeeds; the buffer is written out and forgotten. *)
Dial ==
  /\ connect = "dialing"
  /\ nodeUp
  /\ up' = TRUE
  /\ toServer' = toServer \o buffer
  /\ buffer' = <<>>
  /\ connect' = IF first THEN "reading" ELSE "flushed"
  /\ first' = FALSE
  /\ UNCHANGED <<proxyVars, announcing, delivering, toProxy, serverVars, bounds>>

(* reconnectFn copies the keys of the map ... *)
StartAnnouncing ==
  /\ connect = "flushed"
  /\ connect' = "announcing"
  /\ announcing' = heldRequests
  /\ UNCHANGED <<proxyVars, first, delivering, buffer, linkVars, serverVars, bounds>>

(* slip: the whole question is sent again *)
AnnounceWithData(r) ==
  /\ connect = "announcing"
  /\ r \in announcing
  /\ announcing' = announcing \ {r}
  /\ ClientSend([ref |-> r, data |-> TRUE])
  /\ UNCHANGED <<proxyVars, connect, first, delivering, up, toProxy, serverVars, bounds>>

(* ... and sends them one by one, in map order, without their data. *)
Announce(r) ==
  /\ connect = "announcing"
  /\ r \in announcing
  /\ announcing' = announcing \ {r}
  /\ ClientSend([ref |-> r, data |-> FALSE])
  /\ UNCHANGED <<proxyVars, connect, first, delivering, up, toProxy, serverVars, bounds>>

StartReading ==
  /\ connect = "announcing"
  /\ announcing = {}
  /\ connect' = "reading"
  /\ UNCHANGED <<proxyVars, first, announcing, delivering, buffer, linkVars, serverVars, bounds>>

(* The next frame: a resolve leaves the map if its msg_id is still there,  *)
(* anything else does not concern the held requests.                       *)
Read ==
  /\ connect = "reading"
  /\ delivering = NotDelivering
  /\ toProxy # <<>>
  /\ toProxy' = Tail(toProxy)
  /\ LET m == Head(toProxy) IN
       IF m.type = "approval.resolve" /\ m.ref \in heldRequests
       THEN /\ heldRequests' = heldRequests \ {m.ref}
            /\ delivering' = m
       ELSE UNCHANGED <<heldRequests, delivering>>
  /\ UNCHANGED <<pc, ch, heldFor, connect, first, announcing, buffer, up, toServer,
                 serverVars, bounds>>

(* slip: a channel without capacity, so the send waits for the select *)
DeliverUnbuffered ==
  /\ delivering # NotDelivering
  /\ pc[delivering.ref] = "waiting"
  /\ ch' = [ch EXCEPT ![delivering.ref] = delivering.action]
  /\ delivering' = NotDelivering
  /\ UNCHANGED <<pc, heldRequests, heldFor, connect, first, announcing, buffer, linkVars,
                 serverVars, bounds>>

(* ch <- decision; it would block on a full channel. *)
Deliver ==
  /\ delivering # NotDelivering
  /\ ch[delivering.ref] = "empty"
  /\ ch' = [ch EXCEPT ![delivering.ref] = delivering.action]
  /\ delivering' = NotDelivering
  /\ UNCHANGED <<pc, heldRequests, heldFor, connect, first, announcing, buffer, linkVars,
                 serverVars, bounds>>

(* readLoop meets the end of the stream: c.conn = nil, and dial again. *)
ConnLost ==
  /\ connect = "reading"
  /\ delivering = NotDelivering
  /\ ~up
  /\ toProxy = <<>>
  /\ connect' = "dialing"
  /\ UNCHANGED <<proxyVars, first, announcing, delivering, buffer, linkVars, serverVars, bounds>>

-----------------------------------------------------------------------------
(* The server. *)

(* The connection callback: the buffer is written out and forgotten.  What *)
(* onConnect pushes then does not concern the held requests.               *)
Accept ==
  /\ nodeUp
  /\ up
  /\ client # "live"
  /\ client' = "live"
  /\ toProxy' = toProxy \o serverBuffer
  /\ serverBuffer' = <<>>
  /\ UNCHANGED <<proxyVars, clientVars, up, toServer, nodeUp, queue, bounds>>

(* 'close' or 'error' of the socket that is still #client *)
ClientGone ==
  /\ client = "dead"
  /\ client' = "none"
  /\ UNCHANGED <<proxyVars, clientVars, linkVars, nodeUp, serverBuffer, queue, bounds>>

HasRow(e) == queue[e] # NoRow

(* onMessage for approval.needed.  Without data the insert into            *)
(* request_log throws before anything is enqueued, and the error is only   *)
(* logged.                                                                 *)
Enqueue ==
  /\ nodeUp
  /\ client = "live" \/ ~up
  /\ toServer # <<>>
  /\ toServer' = Tail(toServer)
  /\ \/ /\ Head(toServer).data
        /\ \E e \in Entry :
             /\ ~HasRow(e)
             /\ queue' = [queue EXCEPT ![e] =
                            [ref |-> Head(toServer).ref, status |-> "pending", age |-> 0]]
     \/ /\ ~Head(toServer).data
        /\ UNCHANGED queue
  /\ UNCHANGED <<proxyVars, clientVars, up, toProxy, nodeUp, client, serverBuffer, bounds>>

IsPending(e) == HasRow(e) /\ queue[e].status = "pending"

(* What the proxy is told: the decision and, after create_rule, to reload. *)
Answer(r, action, create_rule) ==
  <<[type |-> "approval.resolve", ref |-> r, action |-> action]>>
  \o (IF create_rule THEN <<Reload>> ELSE <<>>)

(* slip: the UPDATE does not ask for status='pending' *)
ResolveAnyRow(e, action, create_rule) ==
  /\ nodeUp
  /\ HasRow(e)
  /\ queue' = [queue EXCEPT ![e].status = StatusOf(action)]
  /\ ServerSend(Answer(queue[e].ref, action, create_rule))
  /\ UNCHANGED <<proxyVars, clientVars, up, toServer, nodeUp, client, bounds>>

(* POST /api/approvals/:id/resolve *)
Resolve(e, action, create_rule) ==
  /\ nodeUp
  /\ IsPending(e)
  /\ queue' = [queue EXCEPT ![e].status = StatusOf(action)]
  /\ ServerSend(Answer(queue[e].ref, action, create_rule))
  /\ UNCHANGED <<proxyVars, clientVars, up, toServer, nodeUp, client, bounds>>

StaleAtOnce(e) == IsPending(e) /\ queue[e].age > HoldTimeout        \* slip: not doubled
StaleYoung(e) == IsPending(e) /\ queue[e].age < 2 * HoldTimeout     \* slip: reversed

Stale(e) == IsPending(e) /\ queue[e].age > 2 * HoldTimeout

(* The interval of the server: expireStale(holdTimeout * 2). *)
ExpireStale ==
  /\ nodeUp
  /\ \E e \in Entry : Stale(e)
  /\ queue' = [e \in Entry |-> IF Stale(e) THEN [queue[e] EXCEPT !.status = "expired"]
                                           ELSE queue[e]]
  /\ UNCHANGED <<proxyVars, clientVars, linkVars, nodeUp, client, serverBuffer, bounds>>

-----------------------------------------------------------------------------
(* The environment. *)

(* Time passes, but no blocked goroutine is more than Slack behind. *)
Tick ==
  /\ \A r \in Request : pc[r] \in Blocked => heldFor[r] < HoldTimeout + Slack
  /\ heldFor' = [r \in Request |-> IF pc[r] \in Blocked THEN heldFor[r] + 1 ELSE heldFor[r]]
  /\ queue' = [e \in Entry |->
                 IF IsPending(e) /\ queue[e].age <= 2 * HoldTimeout
                 THEN [queue[e] EXCEPT !.age = @ + 1]
                 ELSE queue[e]]
  /\ UNCHANGED <<pc, heldRequests, ch, clientVars, linkVars, nodeUp, client, serverBuffer, bounds>>

(* The socket fails with both processes alive; each direction loses a suffix. *)
Break ==
  /\ up
  /\ client = "live"
  /\ breaks < MaxBreaks
  /\ breaks' = breaks + 1
  /\ up' = FALSE
  /\ client' = "dead"
  /\ \E i \in 0 .. Len(toServer) : toServer' = SubSeq(toServer, 1, i)
  /\ \E j \in 0 .. Len(toProxy) : toProxy' = SubSeq(toProxy, 1, j)
  /\ UNCHANGED <<proxyVars, clientVars, nodeUp, serverBuffer, queue, crashes>>

(* The proxy dies, and with it every held request and all it kept. *)
ProxyCrash ==
  /\ connect # "down"
  /\ crashes < MaxCrashes
  /\ crashes' = crashes + 1
  /\ pc' = [r \in Request |-> IF pc[r] \in Held THEN "lost" ELSE pc[r]]
  /\ heldRequests' = {}
  /\ ch' = [r \in Request |-> "empty"]
  /\ heldFor' = [r \in Request |-> 0]
  /\ connect' = "down"
  /\ first' = TRUE
  /\ announcing' = {}
  /\ delivering' = NotDelivering
  /\ buffer' = <<>>
  /\ up' = FALSE
  /\ client' = IF client = "live" THEN "dead" ELSE client
  /\ toProxy' = <<>>
  /\ \E i \in 0 .. Len(toServer) : toServer' = SubSeq(toServer, 1, i)
  /\ UNCHANGED <<nodeUp, serverBuffer, queue, breaks>>

(* A supervisor or the proxy manager starts the binary again. *)
ProxyStart ==
  /\ connect = "down"
  /\ connect' = "dialing"
  /\ UNCHANGED <<proxyVars, first, announcing, delivering, buffer, linkVars, serverVars, bounds>>

(* The server dies; its database stays. *)
ServerCrash ==
  /\ nodeUp
  /\ crashes < MaxCrashes
  /\ crashes' = crashes + 1
  /\ nodeUp' = FALSE
  /\ client' = "none"
  /\ serverBuffer' = <<>>
  /\ up' = FALSE
  /\ toServer' = <<>>
  /\ \E j \in 0 .. Len(toProxy) : toProxy' = SubSeq(toProxy, 1, j)
  /\ UNCHANGED <<proxyVars, clientVars, queue, breaks>>

ServerStart ==
  /\ ~nodeUp
  /\ nodeUp' = TRUE
  /\ UNCHANGED <<proxyVars, clientVars, linkVars, client, serverBuffer, queue, bounds>>

-----------------------------------------------------------------------------

Goroutine(r) == Hold(r) \/ Ask(r) \/ TakeDecision(r) \/ TimerFires(r) \/ GiveUp(r)

ClientLoop ==
  \/ Dial
  \/ StartAnnouncing
  \/ \E r \in Request : Announce(r)
  \/ StartReading
  \/ Read
  \/ Deliver
  \/ ConnLost

Server == Accept \/ ClientGone \/ Enqueue \/ ExpireStale

Operator == \E e \in Entry, a \in Action, c \in BOOLEAN : Resolve(e, a, c)

Environment == Tick \/ Break \/ ProxyCrash \/ ProxyStart \/ ServerCrash \/ ServerStart

Next == (\E r \in Request : Goroutine(r)) \/ ClientLoop \/ Server \/ Operator \/ Environment

Safety == Init /\ [][Next]_vars

(* Goroutines and the event loop are scheduled, time passes and crashed    *)
(* processes come back.  Nothing obliges an operator to answer, an agent   *)
(* to ask or the socket to break.                                          *)
Fairness ==
  /\ \A r \in Request : WF_vars(Ask(r)) /\ WF_vars(TakeDecision(r))
                        /\ WF_vars(TimerFires(r)) /\ WF_vars(GiveUp(r))
  /\ WF_vars(ClientLoop)
  /\ WF_vars(Accept) /\ WF_vars(ClientGone) /\ WF_vars(Enqueue) /\ WF_vars(ExpireStale)
  /\ WF_vars(Tick) /\ WF_vars(ProxyStart) /\ WF_vars(ServerStart)

Spec == Safety /\ Fairness
-----------------------------------------------------------------------------
(* What makes the flow correct. *)

Settled(r, status) == \E e \in Entry : HasRow(e) /\ queue[e].ref = r /\ queue[e].status = status

(* The select of a held request (main.go holdRequestFn) ends with a        *)
(* decision only if an operator took that decision on that very request:   *)
(* no loss, crash, reconnection or late timer turns a timeout or another   *)
(* request's approval into a forward.                                      *)
AnswerIsTheOperators ==
  \A r \in Request : /\ pc[r] = "forwarded" => Settled(r, "approved")
                     /\ pc[r] = "rejected" => Settled(r, "rejected")

(* A request is put to the operators once (onMessage, approvalQueueDAO.    *)
(* enqueue), whatever the client re-announces after a reconnection, so no  *)
(* two rows can be decided differently.                                    *)
OneRowPerRequest ==
  \A e, f \in Entry : HasRow(e) /\ HasRow(f) /\ queue[e].ref = queue[f].ref => e = f

(* The cleanup of the server (index.js, expireStale at twice the hold      *)
(* timeout) closes no question whose request the proxy still holds.        *)
LiveHoldNeverExpires ==
  \A e \in Entry : HasRow(e) /\ queue[e].status = "expired" => pc[queue[e].ref] \notin Held

(* The read loop never blocks on the channel of a held request (main.go,   *)
(* ch of capacity one): a blocked reader would stop every later rule set   *)
(* and decision.                                                           *)
ReaderNeverBlocks == delivering # NotDelivering => ENABLED Deliver

(* No channel stays in the map after its goroutine has left holdRequestFn, *)
(* so the map does not grow and nothing is re-announced for nobody.        *)
NoForgottenChannel == \A r \in heldRequests : pc[r] \in Held

(* A row leaves pending once and never changes again: neither a second     *)
(* operator nor the cleanup overrides a decision the proxy may have acted  *)
(* on (resolve and expireStale both ask for status='pending').             *)
DecisionIsFinal == [][\A e \in Entry : HasRow(e) /\ ~IsPending(e) => queue'[e] = queue[e]]_vars

(* Every question is closed in the end, by an operator or by the cleanup,  *)
(* also when the proxy that asked is long dead.                            *)
EveryQuestionCloses == \A e \in Entry : IsPending(e) ~> ~IsPending(e)

(* As long as nothing breaks or crashes and the buffer evicts nothing,     *)
(* every held request is put to the operators, also one asked before the   *)
(* first connection (Send, Dial's flush, onMessage).                       *)
EveryHoldIsAsked ==
  [](breaks = 0 /\ crashes = 0 /\ Cardinality(Request) <= ProxyBuffer) =>
    \A r \in Request : pc[r] = "waiting" ~> \E e \in Entry : HasRow(e) /\ queue[e].ref = r

(* The abstract view: where the agent stands, and the verdict in the queue. *)
AbstractHold ==
  [r \in Request |-> CASE pc[r] = "idle" -> "new"
                      [] pc[r] \in Held -> "held"
                      [] pc[r] = "forwarded" -> "forwarded"
                      [] pc[r] \in {"rejected", "timedOut"} -> "denied"
                      [] OTHER -> "lost"]

AbstractVerdict ==
  [r \in Request |-> CASE Settled(r, "approved") -> "approved"
                      [] Settled(r, "rejected") -> "rejected"
                      [] Settled(r, "expired") -> "expired"
                      [] OTHER -> "none"]

Promise == INSTANCE HeldRequest WITH hold <- AbstractHold, verdict <- AbstractVerdict

(* The flow keeps the promise of HeldRequest: one answer per request, only *)
(* approved requests go out, every held request is answered.               *)
KeepsPromise == Promise!Spec

-----------------------------------------------------------------------------
(* Why the answers are the operators': whatever carries a decision towards *)
(* a held request - a message, the read loop, the channel - stands for a   *)
(* row that has been settled that way.                                     *)

Sent(s) == {s[i] : i \in 1 .. Len(s)}

SettledBy(m) == Settled(m.ref, StatusOf(m.action))

DecisionsAreSettled ==
  /\ AnswerIsTheOperators
  /\ \A r \in Request, a \in Action : ch[r] = a => Settled(r, StatusOf(a))
  /\ \A m \in Resolved : m = delivering => SettledBy(m)
  /\ \A m \in Resolved : m \in Sent(toProxy) \cup Sent(serverBuffer) => SettledBy(m)

(* Why no live hold expires: a row is never older than the hold it asks    *)
(* about, and nobody asks before the hold is in its select.                *)
RowsAreYounger ==
  /\ \A m \in Needed : m \in Sent(buffer) \cup Sent(toServer) /\ m.data
                        => pc[m.ref] \notin {"idle", "registered"}
  /\ \A e \in Entry : HasRow(e) => pc[queue[e].ref] \notin {"idle", "registered"}
  /\ \A e \in Entry : IsPending(e) /\ pc[queue[e].ref] \in Blocked
                        => queue[e].age <= heldFor[queue[e].ref]
  /\ LiveHoldNeverExpires

(* Why nobody is asked twice: a question with its data is in one place     *)
(* only, one of the queues towards the server or the table.                *)
Questions(s) == {s[i].ref : i \in {j \in 1 .. Len(s) : s[j].data}}

Once(s) == \A i, j \in 1 .. Len(s) : s[i].data /\ s[j].data /\ s[i].ref = s[j].ref => i = j

Tabled == {queue[e].ref : e \in {f \in Entry : HasRow(f)}}

AskedOnce ==
  /\ OneRowPerRequest
  /\ Once(buffer) /\ Once(toServer)
  /\ Questions(buffer) \cap Questions(toServer) = {}
  /\ Tabled \cap (Questions(buffer) \cup Questions(toServer)) = {}

(* Why the read loop never blocks: a decision leaves the map once, while   *)
(* the channel is still empty, and nothing else fills the channel.         *)
ChannelIsFree == \A m \in Resolved : m = delivering => ch[m.ref] = "empty"

ChannelsAreFree ==
  /\ NoForgottenChannel
  /\ \A r \in heldRequests : ch[r] = "empty"
  /\ \A m \in Resolved : m = delivering => m.ref \notin heldRequests
  /\ ChannelIsFree
=============================================================================
