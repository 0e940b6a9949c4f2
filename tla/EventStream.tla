------------------------------ MODULE EventStream ------------------------------
(***************************************************************************)
(* The event bus of the server (api/events.js), the streams it writes to,  *)
(* and the two kinds of client it is written for: the GUI (useSSE.js and   *)
(* App.jsx), which never says what it has seen and counts the pending      *)
(* approvals from the events, and a client of the standard protocol, which *)
(* reconnects with Last-Event-ID.                                          *)
(*                                                                         *)
(* The GUI's fetch is restarted whenever App renders: onConnect and        *)
(* onDisconnect are new closures every time, so useSSE's connect is a new  *)
(* function and its effect cleans up and connects again.  What is written  *)
(* to the aborted stream meanwhile is lost.                                *)
(***************************************************************************)
EXTENDS Naturals, Sequences

CONSTANTS
  BufferSize,            \* bufferSize of the bus, 1000 in the program
  Stream,                \* GET /api/events; a number is used again when it is free
  MaxEvents,             \* bound: events
  MaxPending,            \* bound: pending rows of the approval queue
  MaxFaults, MaxLogins   \* bounds: failed connections, asks and servers, and
                         \* answers to getStatus; logins

ASSUME BufferAssumption == BufferSize \in Nat \ {0}
ASSUME StreamAssumption == Stream \subseteq Nat \ {0}
ASSUME StreamBounds == {MaxEvents, MaxPending, MaxFaults, MaxLogins} \subseteq Nat

VARIABLES
  nextId, buffer, clients, \* EventBus
  life,                  \* number of server restarts
  pending,               \* pending rows of the approval queue
  viewer,                \* "gui", "standard", or "none"
  phase,                 \* of each stream, at the client
  wire,                  \* events written to a stream and not read
  cut,                   \* the event: line of Head(wire) has been read, its data: line not
  broken,                \* streams whose connection has failed
  current,               \* abortRef: the last stream asked for, or 0
  timer,                 \* reconnectTimer is set
  seen,                  \* history: <<life, id>> of the events handled
  lastId,                \* the standard client's Last-Event-ID, 0 for none
  gap,                   \* history: the standard client could not be replayed everything
  logins, in,            \* logins so far; somebody is logged in
  connected, count, dirty, \* sseConnected, pendingCount; App has to render
  answer,                \* getApprovals of each login, and whether its getStatus is awaited
  drift,                 \* history: the counter has a reason to be wrong
  emitted, faults        \* counters of the bounds

bus == <<nextId, buffer, clients, life>>
net == <<phase, wire, cut, broken, current, timer>>
app == <<logins, in, connected, count, dirty, answer, drift>>
standard == <<lastId, gap>>
bounds == <<emitted, faults>>
streamVars == <<bus, pending, viewer, net, seen, standard, app, bounds>>

Kind == {"needed", "resolved", "other"}
Event == [life : 0 .. MaxFaults, id : 1 .. MaxEvents, type : Kind]
Gui == viewer = "gui"

BusTypeOK ==
  /\ nextId \in 1 .. MaxEvents + 1 /\ buffer \in Seq(Event) /\ Len(buffer) <= BufferSize
  /\ clients \subseteq Stream /\ life \in 0 .. MaxFaults /\ pending \in 0 .. MaxPending
  /\ faults \in 0 .. MaxFaults /\ emitted \in 0 .. MaxEvents

(* What nobody reads carries nothing. *)
NetTypeOK ==
  /\ phase \in [Stream -> {"none", "asked", "answered", "reading"}]
  /\ wire \in [Stream -> Seq(Event)] /\ cut \in [Stream -> BOOLEAN]
  /\ broken \subseteq Stream /\ current \in Stream \cup {0} /\ timer \in BOOLEAN
  /\ \A s \in Stream : phase[s] \in {"none", "asked"} => wire[s] = << >> /\ ~cut[s]

ClientTypeOK ==
  /\ viewer \in {"gui", "standard", "none"}
  /\ lastId \in 0 .. MaxEvents /\ gap \in BOOLEAN
  /\ logins \in 0 .. MaxLogins /\ in \in BOOLEAN /\ connected \in BOOLEAN
  /\ count \in Nat /\ dirty \in BOOLEAN /\ drift \in BOOLEAN

StreamTypeOK == BusTypeOK /\ NetTypeOK /\ ClientTypeOK

Ask(state, status) == [state |-> state, rows |-> 0, fresh |-> FALSE, status |-> status]
Asking == Ask("asked", TRUE)

(* An answer is fresh until an event or a deletion crosses it. *)
Stale == answer' = [l \in DOMAIN answer |-> [answer[l] EXCEPT !.fresh = FALSE]]

StreamInit ==
  /\ nextId = 1 /\ buffer = << >> /\ clients = {} /\ life = 0
  /\ pending = 0
  /\ viewer \in {"gui", "standard", "none"}
  /\ phase = [s \in Stream |-> "none"] /\ wire = [s \in Stream |-> << >>]
  /\ cut = [s \in Stream |-> FALSE] /\ broken = {} /\ current = 0
  /\ timer = (viewer = "standard")
  /\ seen = << >> /\ lastId = 0 /\ gap = FALSE
  /\ logins = 0 /\ in = FALSE /\ connected = FALSE /\ count = 0 /\ dirty = FALSE
  /\ answer = << >> /\ drift = TRUE /\ emitted = 0 /\ faults = 0

-----------------------------------------------------------------------------
(* The bus. *)

Approval(e) == e.type # "other"
Carries(s) == \E k \in DOMAIN wire[s] : Approval(wire[s][k])
Written == {s \in clients \ broken : phase[s] \in {"answered", "reading"}}

(* emit, for each of the types in their order *)
Emit(types) ==
  LET new == [k \in DOMAIN types |-> [life |-> life, id |-> nextId + k - 1, type |-> types[k]]]
      all == buffer \o new
  IN /\ emitted + Len(types) <= MaxEvents /\ emitted' = emitted + Len(types)
     /\ nextId' = nextId + Len(types)
     /\ buffer' = IF Len(all) > BufferSize THEN SubSeq(all, Len(all) - BufferSize + 1, Len(all)) ELSE all
     /\ wire' = [s \in Stream |-> IF s \in Written THEN wire[s] \o new ELSE wire[s]]
     /\ Stale
     /\ UNCHANGED <<clients, life, viewer, phase, cut, broken, current, timer, seen, standard,
                    logins, in, connected, count, dirty, faults>>

Missed(types) == current \notin Written /\ \E k \in DOMAIN types : types[k] # "other"

(* onMessage, approval.needed: the row is in the queue, then the event *)
Needed ==
  /\ pending < MaxPending
  /\ pending' = pending + 1
  /\ Emit(<<"needed">>)
  /\ drift' = (drift \/ Missed(<<"needed">>))

(* POST /api/approvals/:id/resolve, with or without create_rule *)
Resolve ==
  /\ pending > 0
  /\ pending' = pending - 1
  /\ \E types \in {<<"resolved">>, <<"other", "resolved">>} :
       Emit(types) /\ drift' = (drift \/ Missed(types))

(* The cleanup closes k rows and sends one event for all of them. *)
ExpireStale(k) ==
  /\ k \in 1 .. pending
  /\ pending' = pending - k
  /\ Emit(<<"resolved">>)
  /\ drift' = (drift \/ Missed(<<"resolved">>) \/ k > 1)

(* DELETE /api/agents/:id deletes the agent's k pending rows and tells     *)
(* nobody.                                                                 *)
AgentDeleted(k) ==
  /\ k \in 1 .. pending
  /\ pending' = pending - k
  /\ drift' = TRUE
  /\ Stale
  /\ UNCHANGED <<bus, viewer, net, seen, standard, logins, in, connected, count, dirty, bounds>>

(* request.logged, request.blocked; rules.changed of the other routes *)
Report == Emit(<<"other">>) /\ UNCHANGED <<pending, drift>>

From(K) == IF K = {} THEN << >> ELSE SubSeq(buffer, CHOOSE k \in K : \A l \in K : k <= l, Len(buffer))

(* slip: an event with the id the client names is sent again *)
ToReplayAgain(id) == IF id = 0 THEN << >> ELSE From({k \in DOMAIN buffer : buffer[k].id >= id})

(* addClient: what the header asks for, when there is a header; ids ascend *)
ToReplay(id) == IF id = 0 THEN << >> ELSE From({k \in DOMAIN buffer : buffer[k].id > id})

(* The standard client is not told that the events after its last one have *)
(* left the buffer, or that the numbers have started again.                *)
Unreplayable == lastId # 0 /\ lastId + 1 < (IF buffer = << >> THEN nextId ELSE buffer[1].id)

AddClient(s) ==
  /\ phase[s] = "asked" /\ s \notin broken
  /\ clients' = clients \cup {s}
  /\ phase' = [phase EXCEPT ![s] = "answered"]
  /\ wire' = [wire EXCEPT ![s] = IF Gui THEN << >> ELSE ToReplay(lastId)]
  /\ gap' = (gap \/ (~Gui /\ Unreplayable))
  /\ UNCHANGED <<nextId, buffer, life, pending, viewer, cut, broken, current, timer, seen,
                 lastId, app, bounds>>

(* req.on('close') *)
Closed(s) ==
  /\ s \in clients
  /\ phase[s] = "none" \/ s \in broken
  /\ clients' = clients \ {s}
  /\ UNCHANGED <<nextId, buffer, life, pending, viewer, net, seen, standard, app, bounds>>

-----------------------------------------------------------------------------
(* The client's side of a stream. *)

Free == {s \in Stream \ clients : phase[s] = "none"}
AFree == CHOOSE s \in Free : \A t \in Free : s <= t

(* connect() and run() up to the fetch, from the phases ph and lines w *)
Connect(ph, w) ==
  /\ Free # {}
  /\ phase' = [ph EXCEPT ![AFree] = "asked"]
  /\ wire' = w
  /\ current' = AFree

(* slip: the cleanup does not abort *)
NothingAborted(s) == <<phase, wire, cut, broken>>

(* abortRef.current.abort(): nothing more is read from the stream *)
Aborted(s) ==
  IF s = 0 THEN <<phase, wire, cut, broken>>
  ELSE <<[phase EXCEPT ![s] = "none"], [wire EXCEPT ![s] = << >>], [cut EXCEPT ![s] = FALSE], broken \ {s}>>

(* slip: onDisconnect is called for an AbortError too *)
RerenderTellsAbort ==
  /\ Gui /\ dirty /\ in
  /\ LET a == Aborted(current) IN Connect(a[1], a[2]) /\ cut' = a[3] /\ broken' = a[4]
  /\ dirty' = (phase[current] = "reading" /\ connected)
  /\ connected' = (connected /\ phase[current] # "reading")
  /\ timer' = FALSE
  /\ drift' = (drift \/ Carries(current))
  /\ UNCHANGED <<bus, pending, viewer, seen, standard, logins, in, count, answer, bounds>>

(* The render after a change of App's state: the effect is cleaned up and  *)
(* runs again.                                                             *)
Rerender ==
  /\ Gui /\ dirty /\ in
  /\ LET a == Aborted(current) IN Connect(a[1], a[2]) /\ cut' = a[3] /\ broken' = a[4]
  /\ dirty' = FALSE
  /\ timer' = FALSE
  /\ drift' = (drift \/ (current # 0 /\ Carries(current)))
  /\ UNCHANGED <<bus, pending, viewer, seen, standard, logins, in, connected, count, answer, bounds>>

(* The three seconds are over (the standard client waits as well). *)
TimerFires ==
  /\ timer
  /\ timer' = FALSE
  /\ Connect(phase, wire)
  /\ UNCHANGED <<bus, pending, viewer, cut, broken, seen, standard, app, bounds>>

SetConnected(b) ==
  IF Gui THEN connected' = b /\ dirty' = (dirty \/ connected # b) ELSE UNCHANGED <<connected, dirty>>

(* The fetch resolves: onConnect *)
Opened(s) ==
  /\ phase[s] = "answered"
  /\ phase' = [phase EXCEPT ![s] = "reading"]
  /\ SetConnected(TRUE)
  /\ UNCHANGED <<bus, pending, viewer, wire, cut, broken, current, timer, seen, standard,
                 logins, in, count, answer, drift, bounds>>

Bump(n, e) ==
  CASE e.type = "needed" -> n + 1
    [] e.type = "resolved" -> IF n > 0 THEN n - 1 ELSE 0
    [] OTHER -> n

(* The counter after a number of events. *)
Counts(n, s) == LET f[k \in 0 .. Len(s)] == IF k = 0 THEN n ELSE Bump(f[k - 1], s[k]) IN f
Counted(n, s) == Counts(n, s)[Len(s)]

(* A chunk with j data: lines and, if more, the event: line of the next.   *)
(* The GUI knows the name of an event only until the end of the chunk; the *)
(* standard parser keeps it.                                               *)
ReadChunk(s, j, more) ==
  /\ phase[s] = "reading"
  /\ j <= Len(wire[s]) /\ (more => j < Len(wire[s]))
  /\ j > 0 \/ (more /\ ~cut[s])
  /\ LET read == SubSeq(wire[s], 1, j)
         lost == Gui /\ cut[s] /\ j > 0
         heard == IF lost THEN Tail(read) ELSE read
     IN /\ seen' = seen \o [k \in DOMAIN heard |-> <<heard[k].life, heard[k].id>>]
        /\ count' = IF Gui THEN Counted(count, heard) ELSE count
        /\ dirty' = (dirty \/ count' # count)
        /\ drift' = (drift \/ (lost /\ Approval(Head(read))))
        /\ lastId' = IF ~Gui /\ heard # << >> THEN heard[Len(heard)].id ELSE lastId
  /\ wire' = [wire EXCEPT ![s] = SubSeq(@, j + 1, Len(@))]
  /\ cut' = [cut EXCEPT ![s] = more]
  /\ UNCHANGED <<bus, pending, viewer, phase, broken, current, timer, gap,
                 logins, in, connected, answer, bounds>>

(* The stream has ended or failed, or the answer was not ok: onDisconnect  *)
(* and a timer.                                                            *)
Ended(s) ==
  /\ phase[s] # "none" /\ s \in broken /\ wire[s] = << >>
  /\ phase' = [phase EXCEPT ![s] = "none"]
  /\ cut' = [cut EXCEPT ![s] = FALSE]
  /\ broken' = broken \ {s}
  /\ timer' = TRUE
  /\ SetConnected(FALSE)
  /\ UNCHANGED <<bus, pending, viewer, wire, current, seen, standard,
                 logins, in, count, answer, drift, bounds>>

-----------------------------------------------------------------------------
(* App: login, and what it asks for once. *)

(* onLogin: the effects of EventBridge connect, then App's ask. *)
Login ==
  /\ Gui /\ ~in /\ logins < MaxLogins
  /\ in' = TRUE /\ logins' = logins + 1
  /\ Connect(phase, wire)
  /\ answer' = Append(answer, Asking)
  /\ dirty' = FALSE
  /\ UNCHANGED <<bus, pending, viewer, cut, broken, timer, seen, standard, connected, count, drift, bounds>>

(* handleLogout: EventBridge is unmounted; what was asked is still answered. *)
Logout ==
  /\ Gui /\ in
  /\ in' = FALSE /\ dirty' = FALSE /\ timer' = FALSE
  /\ LET a == Aborted(current) IN phase' = a[1] /\ wire' = a[2] /\ cut' = a[3] /\ broken' = a[4]
  /\ drift' = TRUE
  /\ UNCHANGED <<bus, pending, viewer, current, seen, standard,
                 logins, connected, count, answer, bounds>>

(* GET /api/approvals, listPending *)
ServeApprovals(l) ==
  /\ l \in DOMAIN answer /\ answer[l].state = "asked"
  /\ answer' = [answer EXCEPT ![l] =
                  [state |-> "served", rows |-> pending,
                   fresh |-> current # 0 /\ wire[current] = << >>,
                   status |-> answer[l].status]]
  /\ UNCHANGED <<bus, pending, viewer, net, seen, standard, logins, in, connected, count, dirty,
                 drift, bounds>>

SetCount(n) == count' = n /\ dirty' = (dirty \/ (in /\ count # n))

(* slip: the answer is added to what has been counted *)
ApprovalsArriveAdded(l) ==
  /\ l \in DOMAIN answer /\ answer[l].state = "served"
  /\ answer' = [answer EXCEPT ![l] = Ask("over", answer[l].status)]
  /\ SetCount(count + answer[l].rows)
  /\ drift' = ~(in /\ answer[l].fresh)
  /\ UNCHANGED <<bus, pending, viewer, net, seen, standard, logins, in, connected, bounds>>

(* setPendingCount(a.length).  The counter is right from now on if nothing *)
(* was emitted since the rows were read; Missed sees to the rest.          *)
ApprovalsArrive(l) ==
  /\ l \in DOMAIN answer /\ answer[l].state = "served"
  /\ answer' = [answer EXCEPT ![l] = Ask("over", answer[l].status)]
  /\ SetCount(answer[l].rows)
  /\ drift' = ~(in /\ answer[l].fresh)
  /\ UNCHANGED <<bus, pending, viewer, net, seen, standard, logins, in, connected, bounds>>

(* .catch(() => {}) *)
ApprovalsFail(l) ==
  /\ l \in DOMAIN answer /\ answer[l].state \in {"asked", "served"}
  /\ faults < MaxFaults /\ faults' = faults + 1
  /\ answer' = [answer EXCEPT ![l] = Ask("over", answer[l].status)]
  /\ UNCHANGED <<bus, pending, viewer, net, seen, standard, logins, in, connected, count, dirty, drift, emitted>>

(* getStatus().then: setProxyConnected, setVersion and setCommit change    *)
(* what App shows.  When they do not, it is as if it never came.           *)
StatusArrives(l) ==
  /\ in /\ l \in DOMAIN answer /\ answer[l].status
  /\ faults < MaxFaults /\ faults' = faults + 1
  /\ answer' = [answer EXCEPT ![l].status = FALSE]
  /\ dirty' = TRUE
  /\ UNCHANGED <<bus, pending, viewer, net, seen, standard, logins, in, connected, count, drift, emitted>>

-----------------------------------------------------------------------------
(* Failures. *)

(* A connection fails; some of what was written has arrived. *)
Break(s) ==
  /\ phase[s] # "none" /\ s \notin broken
  /\ faults < MaxFaults /\ faults' = faults + 1
  /\ broken' = broken \cup {s}
  /\ \E j \in 0 .. Len(wire[s]) : wire' = [wire EXCEPT ![s] = SubSeq(@, 1, j)]
  /\ drift' = (drift \/ wire' # wire)
  /\ UNCHANGED <<bus, pending, viewer, phase, cut, current, timer, seen, standard,
                 logins, in, connected, count, dirty, answer, emitted>>

(* The server dies with its bus and starts again; every stream ends. *)
Restart ==
  /\ faults < MaxFaults /\ faults' = faults + 1
  /\ life' = life + 1
  /\ nextId' = 1 /\ buffer' = << >> /\ clients' = {}
  /\ broken' = broken \cup {s \in Stream : phase[s] # "none"}
  /\ drift' = TRUE /\ gap' = TRUE
  /\ Stale
  /\ UNCHANGED <<pending, viewer, phase, wire, cut, current, timer, seen, lastId,
                 logins, in, connected, count, dirty, emitted>>
-----------------------------------------------------------------------------

ServerStep ==
  \/ Resolve \/ (\E k \in 1 .. MaxPending : ExpireStale(k) \/ AgentDeleted(k)) \/ Report
  \/ \E s \in Stream : AddClient(s) \/ Closed(s)

ClientStep ==
  \/ Rerender \/ TimerFires
  \/ \E s \in Stream : Opened(s) \/ Ended(s)
  \/ \E s \in Stream, j \in 0 .. MaxEvents, more \in BOOLEAN : ReadChunk(s, j, more)
  \/ Login \/ Logout
  \/ \E l \in 1 .. MaxLogins : ServeApprovals(l) \/ ApprovalsArrive(l) \/ ApprovalsFail(l) \/ StatusArrives(l)

StreamFault == Restart \/ \E s \in Stream : Break(s)

StreamNext == Needed \/ ServerStep \/ ClientStep \/ StreamFault

(* Sockets, timers and renders get their turn.  Nobody has to log in, no   *)
(* event has to come and nothing has to fail.                              *)
StreamFairness ==
  /\ \A s \in Stream : /\ WF_streamVars(AddClient(s)) /\ WF_streamVars(Closed(s))
                       /\ WF_streamVars(Opened(s)) /\ WF_streamVars(Ended(s))
                       /\ WF_streamVars(\E j \in 1 .. MaxEvents : ReadChunk(s, j, FALSE))
  /\ WF_streamVars(Rerender) /\ WF_streamVars(TimerFires)
  /\ \A l \in 1 .. MaxLogins : WF_streamVars(ServeApprovals(l)) /\ WF_streamVars(ApprovalsArrive(l))

StreamSpec == StreamInit /\ [][StreamNext]_streamVars /\ StreamFairness
-----------------------------------------------------------------------------

(* Whatever streams are open, aborted and opened again, a client handles   *)
(* an event once and never after a later one (useSSE.js aborts the stream  *)
(* it leaves; addClient replays before it registers).                      *)
Later(p, q) == p[1] > q[1] \/ (p[1] = q[1] /\ p[2] > q[2])
HandledInOrder == \A k \in 1 .. Len(seen) - 1 : Later(seen[k + 1], seen[k])

(* A client that names its last event misses nothing after its first one,  *)
(* through any number of broken connections, unless the buffer has dropped *)
(* what it needs or the server has restarted (api/events.js addClient).    *)
NothingSkipped ==
  (~Gui /\ ~gap /\ seen # << >>) =>
    /\ \A k \in DOMAIN seen : seen[k][2] = seen[1][2] + k - 1
    /\ (current \in Written /\ wire[current] = << >>) => lastId = nextId - 1

(* The counter of the layout is the number of pending rows, but for the    *)
(* events still to be read (App.jsx ApprovalTracker).  The reasons it can  *)
(* be wrong are those that set drift: an event lost with a stream, to a    *)
(* cut chunk, or before the stream was open; a cleanup of several rows, or *)
(* the deletion of an agent with pending rows, which sends no event; an    *)
(* answer that crossed an event or a deletion, or did not come.            *)
CountIsAccurate ==
  (Gui /\ in /\ ~drift) => Counted(count, IF current = 0 THEN << >> ELSE wire[current]) = pending

(* The renders that a stream causes do not restart it for ever, and the    *)
(* bus forgets every stream but the last: a GUI that stays logged in ends  *)
(* with one open stream (App.jsx's closures, useSSE.js's effect).          *)
Settled == /\ current \in Stream \ broken /\ phase[current] = "reading"
           /\ clients = {current} /\ connected /\ ~dirty
StreamSettles == Gui => <>[](~in \/ Settled)
=============================================================================
