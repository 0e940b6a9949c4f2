------------------------------- MODULE Transport -------------------------------
(***************************************************************************)
(* The socket between the proxy and the server below the level of          *)
(* messages, and the supervisor that keeps the proxy running.              *)
(*                                                                         *)
(* A frame travels as two halves, for a chunk may end anywhere in a line.  *)
(* The server has one #client and one #partial, whatever the number of its *)
(* sockets: the client leaves a socket open when a line of more than 1 MB  *)
(* ends its scanner, and dials again at once.  Only the direction from the *)
(* proxy to the server is framed here: bufio.Scanner keeps what it has of  *)
(* a line per connection, and messages to the proxy are those of RulesSync *)
(* and Credentials.                                                        *)
(***************************************************************************)
EXTENDS Naturals, Sequences, FiniteSetsExt, SequencesExt

CONSTANTS
  ClientBuffer,          \* bufSize of the IPC client
  MaxFrames,             \* bound: frames the proxy sends
  MaxExits,              \* bound: crashes of the proxy
  MaxLong                \* bound: lines that are too long for the scanner

ASSUME SizeAssumption == ClientBuffer \in Nat \ {0} /\ MaxFrames \in Nat /\ MaxExits \in Nat /\ MaxLong \in Nat

VARIABLES
  spawned, process,      \* processes spawned so far; the last: "none", "runs", "ended" (no exit event yet)
  proc, stopped, timer,  \* ProxyManager: #proc is set, #stopped, a restart is due
  sigterm,               \* the process has been sent SIGTERM
  loop, conn,            \* Client.Connect: "none", "dialing", "reading"; c.conn
  buffer, pending,       \* c.buffer; halves still to be written with c.mu held
  sock,                  \* the sockets: both ends, and the bytes not yet read
  current, partial,      \* #client and #partial of the server
  handled, dead,         \* frames passed to #onMessage; the server has thrown
  sent, exits, longs,    \* counters of the bounds
  lost,                  \* history: frames an exit, an error or a full buffer dropped
  overtaken              \* history: a socket with unread bytes was followed by another

manager == <<proc, stopped, timer>>
os == <<spawned, process, sigterm>>
goClient == <<loop, conn, buffer, pending>>
server == <<current, partial, handled, dead>>
counters == <<sent, exits, longs>>
vars == <<manager, os, goClient, sock, server, counters, lost, overtaken>>

MaxSockets == 1 + MaxExits + MaxLong
Socket == 1 .. MaxSockets
Half == [frame : 1 .. MaxFrames, last : BOOLEAN]
InHalves(s) == [i \in 1 .. 2 * Len(s) |-> [frame |-> s[(i + 1) \div 2], last |-> i % 2 = 0]]
Halves(f) == InHalves(<<f>>)
NoSocket == [client |-> "none", server |-> "none", bytes |-> << >>]
(* The frames that end in a run of halves. *)
FramesIn(s) == {s[i].frame : i \in {j \in DOMAIN s : s[j].last}}

Init ==
  /\ spawned = 0 /\ process = "none" /\ proc = FALSE /\ stopped = FALSE /\ timer = FALSE /\ sigterm = FALSE
  /\ loop = "none" /\ conn = 0 /\ buffer = << >> /\ pending = << >>
  /\ sock = [s \in Socket |-> NoSocket]
  /\ current = 0 /\ partial = << >> /\ handled = << >> /\ dead = FALSE
  /\ sent = 0 /\ exits = 0 /\ longs = 0 /\ lost = {} /\ overtaken = FALSE

-----------------------------------------------------------------------------
(* ProxyManager.                                                           *)

Spawn ==
  /\ spawned' = spawned + 1 /\ process' = "runs" /\ proc' = TRUE /\ sigterm' = FALSE
  /\ loop' = "dialing"

StartProxy ==
  /\ ~dead /\ spawned = 0 /\ ~stopped
  /\ Spawn
  /\ UNCHANGED <<stopped, timer, conn, buffer, pending, sock, server, counters, lost, overtaken>>

(* slip: start(), not #spawn(), sets the exit handler. *)
ExitEventOfFirst ==
  /\ ~dead /\ process = "ended"
  /\ process' = "none" /\ proc' = FALSE /\ timer' = (~stopped /\ spawned = 1)
  /\ UNCHANGED <<stopped, spawned, sigterm, goClient, sock, server, counters, lost, overtaken>>

ExitEvent ==
  /\ ~dead /\ process = "ended"
  /\ process' = "none" /\ proc' = FALSE /\ timer' = ~stopped
  /\ UNCHANGED <<stopped, spawned, sigterm, goClient, sock, server, counters, lost, overtaken>>

(* What a dead process has left in its sockets is there before its exit    *)
(* event, and the event loop reads it within the second that the timer     *)
(* takes.                                                                  *)
Drained == \A s \in Socket : sock[s].client = "closed" => sock[s].server = "gone"

(* slip: the timer does not look at #stopped again. *)
RestartAnyway ==
  /\ ~dead /\ timer /\ Drained
  /\ timer' = FALSE
  /\ Spawn
  /\ UNCHANGED <<stopped, conn, buffer, pending, sock, server, counters, lost, overtaken>>

(* slip: setInterval for setTimeout. *)
RestartAgain ==
  /\ ~dead /\ timer /\ Drained
  /\ UNCHANGED timer
  /\ IF stopped THEN UNCHANGED <<os, proc, loop>> ELSE Spawn
  /\ UNCHANGED <<stopped, conn, buffer, pending, sock, server, counters, lost, overtaken>>

Restart ==
  /\ ~dead /\ timer /\ Drained
  /\ timer' = FALSE
  /\ IF stopped THEN UNCHANGED <<os, proc, loop>> ELSE Spawn
  /\ UNCHANGED <<stopped, conn, buffer, pending, sock, server, counters, lost, overtaken>>

(* close() of startServer: ProxyManager.stop and IPCServer.close, which    *)
(* destroys #client only; connections that were not accepted are refused.  *)
Destroyed(s) == s = current \/ sock[s].server = "backlog"
Close ==
  /\ ~dead /\ ~stopped
  /\ stopped' = TRUE /\ sigterm' = proc /\ proc' = FALSE
  /\ sock' = [s \in Socket |-> IF Destroyed(s) THEN [sock[s] EXCEPT !.server = "gone", !.bytes = << >>] ELSE sock[s]]
  /\ current' = 0
  /\ UNCHANGED <<timer, spawned, process, goClient, partial, handled, dead, counters, lost, overtaken>>

-----------------------------------------------------------------------------
(* The proxy's process and its IPC client.                                 *)

(* The process ends, and the kernel closes its sockets: a frame that was   *)
(* being written stays cut.                                                *)
Leaves ==
  /\ process = "runs" /\ process' = "ended"
  /\ loop' = "none" /\ conn' = 0 /\ buffer' = << >> /\ pending' = << >>
  /\ lost' = lost \cup FramesIn(pending) \cup ToSet(buffer)
  /\ sock' = [s \in Socket |-> IF sock[s].client = "open" THEN [sock[s] EXCEPT !.client = "closed"] ELSE sock[s]]
  /\ UNCHANGED <<manager, spawned, sigterm, server, sent, longs, overtaken>>

Crash == exits < MaxExits /\ Leaves /\ exits' = exits + 1
(* SIGTERM: main stops the proxy, closes the client and returns. *)
Terminate == sigterm /\ Leaves /\ UNCHANGED exits

(* Client.Connect.  While the server does not listen the dial fails and is *)
(* tried again after the back-off.                                         *)
Fresh == {s \in Socket : sock[s] = NoSocket}
Dial ==
  /\ loop = "dialing" /\ ~dead /\ ~stopped /\ Fresh # {}
  /\ LET s == Min(Fresh) IN
       /\ conn' = s
       /\ sock' = [sock EXCEPT ![s] = [client |-> "open", server |-> "backlog", bytes |-> << >>]]
  /\ pending' = InHalves(buffer) /\ buffer' = << >>
  /\ loop' = "reading"
  /\ UNCHANGED <<manager, os, server, counters, lost, overtaken>>

(* Client.Send takes c.mu and writes, or queues without a connection. *)
Send ==
  /\ process = "runs" /\ pending = << >> /\ sent < MaxFrames
  /\ sent' = sent + 1
  /\ IF conn # 0
       THEN pending' = Halves(sent + 1) /\ UNCHANGED <<buffer, lost>>
       ELSE LET b == Append(buffer, sent + 1) IN
            /\ buffer' = IF Len(b) > ClientBuffer THEN Tail(b) ELSE b
            /\ lost' = IF Len(b) > ClientBuffer THEN lost \cup {Head(b)} ELSE lost
            /\ UNCHANGED pending
  /\ UNCHANGED <<manager, os, loop, conn, sock, server, exits, longs, overtaken>>

(* A half reaches the socket, or is refused by one that the server closed. *)
WriteHalf ==
  /\ pending # << >> /\ pending' = Tail(pending)
  /\ IF sock[conn].server = "gone"
       THEN lost' = lost \cup {Head(pending).frame} /\ UNCHANGED sock
       ELSE sock' = [sock EXCEPT ![conn].bytes = Append(@, Head(pending))] /\ UNCHANGED lost
  /\ UNCHANGED <<manager, os, loop, conn, buffer, server, counters, overtaken>>

(* readLoop ends: the server is gone, or a line is over 1 MB long and the  *)
(* socket stays open.  Both need c.mu to clear the connection.             *)
ReadLoopEnds ==
  /\ loop = "reading" /\ pending = << >>
  /\ \/ sock[conn].server = "gone" /\ UNCHANGED longs
     \/ current = conn /\ longs < MaxLong /\ longs' = longs + 1
  /\ conn' = 0 /\ loop' = "dialing"
  /\ UNCHANGED <<manager, os, buffer, pending, sock, server, sent, exits, lost, overtaken>>

(* A socket without references is closed by its finalizer. *)
Collected(s) ==
  /\ process = "runs" /\ s # conn /\ sock[s].client = "open"
  /\ sock' = [sock EXCEPT ![s].client = "closed"]
  /\ UNCHANGED <<manager, os, goClient, server, counters, lost, overtaken>>

-----------------------------------------------------------------------------
(* IPCServer.                                                              *)

(* slip: #partial outlives its socket. *)
AcceptKeepsPartial(s) ==
  /\ ~dead /\ s = Min({t \in Socket : sock[t].server = "backlog"} \cup {MaxSockets + 1})
  /\ sock' = [sock EXCEPT ![s].server = "live"]
  /\ current' = s
  /\ overtaken' = (overtaken \/ \E t \in Socket : sock[t].server = "live" /\ sock[t].bytes # << >>)
  /\ UNCHANGED <<manager, os, goClient, partial, handled, dead, counters, lost>>

Accept(s) ==
  /\ ~dead /\ s = Min({t \in Socket : sock[t].server = "backlog"} \cup {MaxSockets + 1})
  /\ sock' = [sock EXCEPT ![s].server = "live"]
  /\ current' = s /\ partial' = << >>
  /\ overtaken' = (overtaken \/ \E t \in Socket : sock[t].server = "live" /\ sock[t].bytes # << >>)
  /\ UNCHANGED <<manager, os, goClient, handled, dead, counters, lost>>

(* parseFrames: the lines that have ended, and the remainder.  A line that *)
(* is not the two halves of one frame is no JSON, and JSON.parse throws.   *)
EndOfLines(s) == Max({0} \cup {i \in DOMAIN s : s[i].last})
IsJson(lines) ==
  \A i \in DOMAIN lines :
    IF lines[i].last THEN i > 1 /\ lines[i - 1] = Halves(lines[i].frame)[1]
                     ELSE i = 1 \/ lines[i - 1].last
Frames(lines) == [i \in 1 .. Len(lines) \div 2 |-> lines[2 * i].frame]

(* The data handler of a socket: a chunk of any length.  What it throws    *)
(* nobody catches, and the server exits.                                   *)
Read(s) ==
  /\ ~dead /\ sock[s].server = "live"
  /\ \E n \in 1 .. Len(sock[s].bytes) :
       LET str == partial \o SubSeq(sock[s].bytes, 1, n)
           lines == SubSeq(str, 1, EndOfLines(str)) IN
       IF IsJson(lines)
         THEN /\ handled' = handled \o Frames(lines)
              /\ partial' = SubSeq(str, Len(lines) + 1, Len(str))
              /\ sock' = [sock EXCEPT ![s].bytes = SubSeq(@, n + 1, Len(@))]
              /\ UNCHANGED <<current, dead>>
         ELSE /\ dead' = TRUE
              /\ sock' = [t \in Socket |-> IF sock[t] = NoSocket THEN sock[t] ELSE [sock[t] EXCEPT !.server = "gone"]]
              /\ UNCHANGED <<current, partial, handled>>
  /\ UNCHANGED <<manager, os, goClient, counters, lost, overtaken>>

(* slip: any socket that closes clears #client. *)
NoLongerAny(s) == 0

NoLonger(s) == IF current = s THEN 0 ELSE current
(* The close handler, after the last byte; and the error handler: a write  *)
(* to the closed end fails and takes the unread bytes with it.             *)
SocketEnds(s) ==
  /\ ~dead /\ sock[s].server = "live" /\ sock[s].client = "closed"
  /\ sock' = [sock EXCEPT ![s].server = "gone", ![s].bytes = << >>]
  /\ lost' = lost \cup FramesIn(sock[s].bytes)
  /\ current' = NoLonger(s)
  /\ UNCHANGED <<manager, os, goClient, partial, handled, dead, counters, overtaken>>

Next ==
  \/ StartProxy \/ ExitEvent \/ Restart \/ Close
  \/ Crash \/ Terminate \/ Dial \/ Send \/ WriteHalf \/ ReadLoopEnds
  \/ \E s \in Socket : Collected(s) \/ Accept(s) \/ Read(s) \/ SocketEnds(s)

(* Both schedulers run what is ready: the event loop delivers events and   *)
(* timers, the goroutines go on and a process dies of SIGTERM.             *)
Fairness ==
  /\ WF_vars(ExitEvent) /\ WF_vars(Restart) /\ WF_vars(Terminate)
  /\ WF_vars(Dial) /\ WF_vars(WriteHalf)
  /\ WF_vars(loop = "reading" /\ sock[conn].server = "gone" /\ ReadLoopEnds)
  /\ \A s \in Socket : WF_vars(Accept(s)) /\ WF_vars(Read(s)) /\ WF_vars(SocketEnds(s))

Spec == Init /\ [][Next]_vars /\ Fairness

-----------------------------------------------------------------------------
(* Properties.                                                             *)

(* Types of the state. *)
TypeOK ==
  /\ spawned \in 0 .. MaxSockets /\ process \in {"none", "runs", "ended"}
  /\ {proc, stopped, timer, sigterm, dead, overtaken} \subseteq BOOLEAN
  /\ loop \in {"none", "dialing", "reading"} /\ conn \in Socket \cup {0} /\ current \in Socket \cup {0}
  /\ buffer \in Seq(1 .. MaxFrames) /\ handled \in Seq(1 .. MaxFrames) /\ lost \subseteq 1 .. MaxFrames
  /\ pending \in Seq(Half) /\ partial \in Seq(Half)
  /\ \A s \in Socket : sock[s].bytes \in Seq(Half)

(* A proxy is started once and once more for each crash, after it: never a *)
(* second one beside the first, whatever exits, timers and the stop do     *)
(* (ProxyManager's exit handler and its setTimeout).                       *)
OneProxyPerCrash ==
  /\ spawned <= exits + 1
  /\ process # "runs" /\ ~stopped => spawned <= exits

(* Where frames are, in the order in which the server comes by them: those *)
(* it has handled, the bytes of each socket, and what the client still     *)
(* holds.                                                                  *)
Place == 0 .. MaxSockets + 2
Run(k) ==
  CASE k = 0 -> InHalves(handled)
    [] k \in Socket -> sock[k].bytes
    [] k = MaxSockets + 1 -> pending
    [] k = MaxSockets + 2 -> InHalves(buffer)

Ascends(s) == \A i, j \in DOMAIN s : i < j /\ s[i].last /\ s[j].last => s[i].frame < s[j].frame
Before(s, t) == \A f \in FramesIn(s), g \in FramesIn(t) : f < g

(* As long as no socket is overtaken by the next one with bytes still      *)
(* unread, chunks of any length, a frame cut by a crash and a change of    *)
(* sockets never make the server throw on a line pieced together of two    *)
(* frames, frames are handled in the order in which they were sent, and    *)
(* only a crash, a write that failed or a full buffer loses one.           *)
FramesInOrder ==
  ~overtaken /\ ~stopped =>
    /\ ~dead
    /\ \A k \in Place : Ascends(Run(k)) /\ \A l \in Place : k < l => Before(Run(k), Run(l))
    /\ (UNION {FramesIn(Run(k)) : k \in Place}) \cup lost = 1 .. sent

(* The server's messages go to the connection that the client reads: the   *)
(* end of a socket the client has left clears nothing.                     *)
TheLatestIsHeard == conn # 0 /\ sock[conn].server = "live" => current = conn

(* Whatever crashes, a started proxy is connected again unless the server  *)
(* was stopped or has thrown.                                              *)
Connected == conn # 0 /\ current = conn
ProxyComesBack == []<>(spawned > 0 => Connected \/ stopped \/ dead)

(* After close() of startServer no proxy runs for long, and none is        *)
(* started again: not by the timer of a restart that was due, either.  The *)
(* entry of the command line (index.js:255-271) never calls close() and    *)
(* handles no SIGTERM: this is about those who embed the server.           *)
StopIsFinal == stopped ~> [](process # "runs")
=============================================================================
