---------------------------- MODULE TransportProofs ----------------------------
(***************************************************************************)
(* For any number of sockets, of frames and of crashes: the server writes  *)
(* to the connection that the client reads, and the frames keep their      *)
(* order.                                                                  *)
(*                                                                         *)
(* The first is not inductive alone: when a socket is accepted, the one    *)
(* that is #client must not be a later one.  Sockets are dialed in the     *)
(* order of their numbers (DialedInOrder), the client holds the last       *)
(* (ConnIsTheLast), and none is accepted before an earlier one             *)
(* (AcceptedInOrder).                                                      *)
(*                                                                         *)
(* Nor is the second: that the server does not throw on a line must follow *)
(* from what is on its way.  As long as no socket is overtaken and the     *)
(* server runs (Calm), each socket's stream, from the server's part of a   *)
(* line to what the client has still to write, is JSON lines (StreamsFit); *)
(* only one accepted socket has unread bytes (OneUnread), so the frames    *)
(* from the first handled to the last buffered lie in one row (RowInOrder) *)
(* and every step moves some of them between neighbours.                   *)
(***************************************************************************)
EXTENDS Transport, WellFoundedInduction, TLAPS

Used(s) == sock[s] # NoSocket

(* A socket is a record of its two ends and its bytes. *)
SocketOK(s) ==
  /\ sock[s] = [client |-> sock[s].client, server |-> sock[s].server, bytes |-> sock[s].bytes]
  /\ sock[s].client = "none" \/ sock[s].server = "none" => sock[s] = NoSocket
SocketsOK == /\ sock = [s \in Socket |-> sock[s]] /\ \A s \in Socket : SocketOK(s)
             /\ conn \in Socket \cup {0} /\ current \in Socket \cup {0}
             /\ current # 0 => Used(current)

DialedInOrder == \A s, t \in Socket : s < t /\ Used(t) => Used(s)
ConnIsTheLast == conn # 0 => sock[conn].client = "open" /\ \A t \in Socket : conn < t => ~Used(t)
AcceptedInOrder == \A s, t \in Socket : s < t /\ sock[t].server = "live" => sock[s].server # "backlog"

SocketInv == SocketsOK /\ DialedInOrder /\ ConnIsTheLast /\ AcceptedInOrder /\ TheLatestIsHeard

-----------------------------------------------------------------------------
(* The frames.  A frame is two halves; a sequence of halves is whole when  *)
(* it ends with a frame, and cut when no frame ends in it.                 *)
Frame == 1 .. MaxFrames
First(f) == [frame |-> f, last |-> FALSE]
Second(f) == [frame |-> f, last |-> TRUE]
IsWhole(s) == s = << >> \/ s[Len(s)].last
Cut(s) == \A i \in DOMAIN s : ~s[i].last

(* The types, and what the states of the process, the read loop and the    *)
(* connection have to do with each other.                                  *)
BytesOK ==
  /\ buffer \in Seq(Frame) /\ handled \in Seq(Frame) /\ pending \in Seq(Half) /\ partial \in Seq(Half)
  /\ \A s \in Socket : sock[s].bytes \in Seq(Half)
  /\ sent \in 0 .. MaxFrames
ProcessOK ==
  /\ spawned \in Nat
  /\ spawned = 0 => process = "none" /\ ~timer
  /\ timer => process = "none"
  /\ process # "runs" => loop = "none"
  /\ loop # "reading" => conn = 0
  /\ conn = 0 => pending = << >>
  /\ conn # 0 => buffer = << >>
ServerOK == \A s \in Socket : sock[s].server \in {"none", "backlog", "live", "gone"}
Good == SocketInv /\ BytesOK /\ ProcessOK /\ ServerOK

(* The stream of a socket is what of it the server has not handled: its    *)
(* part of a line, if the server accepted no later socket, the bytes       *)
(* unread, and what the client has still to write.                         *)
Accepted(s) == sock[s].server \in {"live", "gone"}
Latest(s) == sock[s].server = "live" /\ \A t \in Socket : s < t => ~Accepted(t)
Stream(s) == (IF Latest(s) THEN partial ELSE << >>) \o (sock[s].bytes \o (IF s = conn THEN pending ELSE << >>))

(* Every stream is JSON lines, the client's ends with a whole one, and     *)
(* what the server has of a line holds no end of one.                      *)
StreamsFit == \A s \in Socket : IsJson(Stream(s))
ClientIsWhole == conn # 0 => IsWhole(Stream(conn))
PartialIsCut == Cut(partial)

(* Bytes are unread on no socket that is gone, nor on one accepted before  *)
(* another: between what is handled and what the client holds, frames are  *)
(* on one accepted socket and then on those that wait.                     *)
GoneIsRead == \A s \in Socket : sock[s].server = "gone" => sock[s].client = "closed" /\ sock[s].bytes = << >>
OneUnread == \A s, t \in Socket : s < t /\ Accepted(t) => sock[s].server # "backlog" /\ sock[s].bytes = << >>

(* The places in a row, and what is at each.                               *)
Laid(h, y, p, b) ==
  [k \in Place |-> IF k = 0 THEN InHalves(h) ELSE IF k \in Socket THEN y[k].bytes
                   ELSE IF k = MaxSockets + 1 THEN p ELSE InHalves(b)]
InOrder(R) == \A k \in Place : Ascends(R[k]) /\ \A l \in Place : k < l => Before(R[k], R[l])
AllOf(R) == UNION {FramesIn(R[k]) : k \in Place}
Row == Laid(handled, sock, pending, buffer)
RowInOrder == InOrder(Row) /\ AllOf(Row) \cup lost = 1 .. sent

Flow == ~dead /\ GoneIsRead /\ OneUnread /\ StreamsFit /\ PartialIsCut /\ ClientIsWhole /\ RowInOrder
Calm == ~overtaken /\ ~stopped
FlowInv == Good /\ (Calm => Flow)

-----------------------------------------------------------------------------
(* The least of some sockets, as Dial and Accept choose it. *)
LEMMA Smallest ==
  ASSUME NEW S \in SUBSET Nat, S # {}
  PROVE  Min(S) \in S /\ \A x \in S : Min(S) <= x
  <1> DEFINE R == OpToRel(<, Nat)
  <1>1. IsWellFoundedOn(R, Nat)
    BY NatLessThanWellFounded
  <1>2. \A x, y \in Nat : <<y, x>> \in R <=> y < x
    BY DEF OpToRel
  <1> HIDE DEF R
  <1>3. \E x \in S : \A y \in S : <<y, x>> \notin R
    BY <1>1, WFMin
  <1>4. \E x \in S : \A y \in S : x <= y
    <2>1. PICK x \in S : \A y \in S : <<y, x>> \notin R
      BY <1>3
    <2>2. \A y \in S : ~(y < x)
      BY <1>2, <2>1, Zenon
    <2>3. x \in Nat /\ \A y \in S : y \in Nat
      OBVIOUS
    <2>4. \A y \in S : x <= y
      BY <2>2, <2>3
    <2> QED
      BY <2>4
  <1> QED
    BY <1>4 DEF Min

(* Sockets are numbers, and 0 is none of them. *)
LEMMA SocketsAreNumbers == MaxSockets \in Nat /\ Socket \subseteq Nat \ {0}
  BY SizeAssumption DEF MaxSockets, Socket

(* A socket never dialed. *)
LEMMA NoSocketFields == NoSocket.client = "none" /\ NoSocket.server = "none"
  BY DEF NoSocket

(* At the start there is no socket. *)
LEMMA InitSocket == Init => SocketInv
  <1> SUFFICES ASSUME Init PROVE SocketInv
    OBVIOUS
  <1>1. conn = 0 /\ current = 0 /\ sock = [s \in Socket |-> NoSocket]
    BY DEF Init
  <1>2. \A s \in Socket : sock[s] = NoSocket /\ SocketOK(s)
    BY <1>1 DEF SocketOK, NoSocket
  <1> QED
    BY <1>1, <1>2, NoSocketFields
    DEF SocketInv, SocketsOK, DialedInOrder, ConnIsTheLast, AcceptedInOrder, TheLatestIsHeard, Used

-----------------------------------------------------------------------------
(* What most steps do: the ends of sockets close, and nothing is dialed or *)
(* accepted.                                                               *)
OnlyEnds ==
  /\ sock' = [s \in Socket |-> sock'[s]] /\ \A s \in Socket : SocketOK(s)'
  /\ \A s \in Socket : /\ Used(s)' <=> Used(s)
                       /\ sock'[s].server \in {"live", "backlog"} => sock'[s].server = sock[s].server
  /\ \/ conn' = conn /\ (conn # 0 => sock'[conn].client = "open")
     \/ conn' = 0
  /\ \/ current' = current
     \/ current' = 0 /\ (conn' # 0 => sock'[conn].server # "live")

(* Ends of sockets that only close keep the invariant. *)
LEMMA EndsKeepInv == SocketInv /\ OnlyEnds => SocketInv'
  <1> SUFFICES ASSUME SocketInv, OnlyEnds PROVE SocketInv'
    OBVIOUS
  <1>1. SocketsOK'
    BY DEF SocketInv, SocketsOK, OnlyEnds, Used
  <1>2. DialedInOrder' /\ ConnIsTheLast'
    BY DEF SocketInv, SocketsOK, OnlyEnds, DialedInOrder, ConnIsTheLast
  <1>3. AcceptedInOrder'
    BY DEF SocketInv, OnlyEnds, AcceptedInOrder
  <1>4. TheLatestIsHeard'
    BY DEF SocketInv, SocketsOK, OnlyEnds, TheLatestIsHeard
  <1> QED
    BY <1>1, <1>2, <1>3, <1>4 DEF SocketInv

(* One end of one socket, or its bytes. *)
LEMMA OneSocketEnds ==
  ASSUME SocketInv, NEW s \in Socket, Used(s), NEW c, NEW v, NEW b, c # "none", v # "none",
         sock' = [sock EXCEPT ![s] = [client |-> c, server |-> v, bytes |-> b]],
         v \in {"live", "backlog"} => v = sock[s].server,
         conn' = conn, s = conn => c = "open",
         current' = current \/ (current' = 0 /\ current = s /\ s # conn)
  PROVE  SocketInv'
  <1> DEFINE r == [client |-> c, server |-> v, bytes |-> b]
  <1>1. r.client = c /\ r.server = v /\ r.bytes = b /\ r # NoSocket
    BY DEF NoSocket
  <1> HIDE DEF r
  <1>2. /\ sock' = [t \in Socket |-> IF t = s THEN r ELSE sock[t]]
        /\ \A t \in Socket : sock'[t] = IF t = s THEN r ELSE sock[t]
    BY DEF r, SocketInv, SocketsOK
  <1>3. \A t \in Socket : SocketOK(t)'
    BY <1>1, <1>2 DEF SocketOK, SocketInv, SocketsOK, r
  <1>4. \A t \in Socket : /\ Used(t)' <=> Used(t)
                          /\ sock'[t].server \in {"live", "backlog"} => sock'[t].server = sock[t].server
    BY <1>1, <1>2 DEF Used
  <1>5. conn # 0 => sock'[conn].client = "open"
    BY <1>1, <1>2 DEF SocketInv, SocketsOK, ConnIsTheLast
  <1>6. current' = current \/ (current' = 0 /\ (conn' # 0 => sock'[conn].server # "live"))
    BY <1>2 DEF SocketInv, SocketsOK, TheLatestIsHeard
  <1> QED
    BY <1>2, <1>3, <1>4, <1>5, <1>6, EndsKeepInv DEF OnlyEnds

(* So does a step that leaves the sockets alone. *)
LEMMA SameSockets ==
  ASSUME SocketInv, sock' = sock, current' = current, conn' = conn \/ conn' = 0
  PROVE  SocketInv'
  BY DEF SocketInv, SocketsOK, SocketOK, DialedInOrder, ConnIsTheLast, AcceptedInOrder, TheLatestIsHeard, Used

(* One end of any of some sockets closes. *)
LEMMA LeavesKeepsInv == SocketInv /\ Leaves => SocketInv'
  <1> SUFFICES ASSUME SocketInv, Leaves PROVE SocketInv'
    OBVIOUS
  <1>1. /\ sock' = [s \in Socket |-> IF sock[s].client = "open" THEN [sock[s] EXCEPT !.client = "closed"] ELSE sock[s]]
        /\ conn' = 0 /\ current' = current
    BY DEF Leaves, server
  <1>2. ASSUME NEW s \in Socket, sock[s].client = "open"
        PROVE  /\ SocketOK(s)' /\ (Used(s)' <=> Used(s)) /\ sock'[s].server = sock[s].server
    <2>1. sock'[s] = [client |-> "closed", server |-> sock[s].server, bytes |-> sock[s].bytes]
      BY <1>1, <1>2 DEF SocketInv, SocketsOK, SocketOK
    <2>2. sock[s].server # "none" /\ Used(s)
      BY <1>2, NoSocketFields DEF SocketInv, SocketsOK, SocketOK, Used
    <2> QED
      BY <2>1, <2>2 DEF SocketOK, Used, NoSocket
  <1>3. ASSUME NEW s \in Socket, sock[s].client # "open"
        PROVE  /\ SocketOK(s)' /\ (Used(s)' <=> Used(s)) /\ sock'[s].server = sock[s].server
    <2>1. sock'[s] = sock[s]
      BY <1>1, <1>3
    <2> QED
      BY <2>1 DEF SocketInv, SocketsOK, SocketOK, Used
  <1>4. sock' = [s \in Socket |-> sock'[s]]
    BY <1>1
  <1> QED
    BY <1>1, <1>2, <1>3, <1>4, EndsKeepInv DEF OnlyEnds

(* The server's end of some sockets is gone. *)
LEMMA ServerEndsGo ==
  ASSUME SocketInv, NEW G \in SUBSET Socket, \A s \in G : Used(s),
         \A s \in G : \E b : sock'[s] = [client |-> sock[s].client, server |-> "gone", bytes |-> b],
         \A s \in Socket \ G : sock'[s] = sock[s], sock' = [s \in Socket |-> sock'[s]],
         conn' = conn, current' = current \/ (current' = 0 /\ current \in G \cup {0})
  PROVE  SocketInv'
  <1>1. ASSUME NEW s \in G
        PROVE  SocketOK(s)' /\ Used(s)' /\ Used(s) /\ sock'[s].server = "gone" /\ sock'[s].client = sock[s].client
    <2>1. PICK b : sock'[s] = [client |-> sock[s].client, server |-> "gone", bytes |-> b]
      OBVIOUS
    <2>2. sock[s].client # "none"
      BY DEF SocketInv, SocketsOK, SocketOK, Used
    <2> QED
      BY <2>1, <2>2 DEF SocketOK, Used, NoSocket
  <1>2. \A s \in Socket \ G : SocketOK(s)' /\ (Used(s)' <=> Used(s)) /\ sock'[s] = sock[s]
    BY DEF SocketInv, SocketsOK, SocketOK, Used
  <1>3. conn # 0 => sock'[conn].client = "open"
    BY <1>1, <1>2 DEF SocketInv, SocketsOK, ConnIsTheLast
  <1>4. current' = 0 /\ current' # current => (conn' # 0 => sock'[conn].server # "live")
    BY <1>1, <1>2 DEF SocketInv, SocketsOK, TheLatestIsHeard
  <1> QED
    BY <1>1, <1>2, <1>3, <1>4, EndsKeepInv DEF OnlyEnds

(* close() ends the accepted sockets and those that wait. *)
LEMMA CloseKeepsInv == SocketInv /\ Close => SocketInv'
  <1> SUFFICES ASSUME SocketInv, Close PROVE SocketInv'
    OBVIOUS
  <1> DEFINE G == {s \in Socket : Destroyed(s)}
  <1>1. /\ sock' = [s \in Socket |-> IF Destroyed(s) THEN [sock[s] EXCEPT !.server = "gone", !.bytes = << >>] ELSE sock[s]]
        /\ current' = 0 /\ conn' = conn
    BY DEF Close, goClient
  <1>2. ASSUME NEW s \in Socket, Destroyed(s) PROVE Used(s)
    <2>1. CASE s = current
      <3>1. current # 0
        BY <2>1, SocketsAreNumbers
      <3> QED
        BY <2>1, <3>1 DEF SocketInv, SocketsOK
    <2>2. CASE sock[s].server = "backlog"
      BY <2>2, NoSocketFields DEF Used
    <2> QED
      BY <1>2, <2>1, <2>2 DEF Destroyed
  <1>3. \A s \in G : \E b : sock'[s] = [client |-> sock[s].client, server |-> "gone", bytes |-> b]
    <2> SUFFICES ASSUME NEW s \in G PROVE sock'[s] = [client |-> sock[s].client, server |-> "gone", bytes |-> << >>]
      OBVIOUS
    <2>1. sock'[s] = [sock[s] EXCEPT !.server = "gone", !.bytes = << >>]
      BY <1>1
    <2>2. sock[s] = [client |-> sock[s].client, server |-> sock[s].server, bytes |-> sock[s].bytes]
      BY DEF SocketInv, SocketsOK, SocketOK
    <2> QED
      BY <2>1, <2>2
  <1>4. \A s \in Socket \ G : sock'[s] = sock[s]
    BY <1>1
  <1>5. sock' = [s \in Socket |-> sock'[s]] /\ current \in G \cup {0}
    BY <1>1 DEF SocketInv, SocketsOK, Destroyed
  <1> QED
    BY <1>1, <1>2, <1>3, <1>4, <1>5, ServerEndsGo

-----------------------------------------------------------------------------
(* The new socket is the last of all, and nobody has accepted it. *)
LEMMA DialKeepsInv == SocketInv /\ Dial => SocketInv'
  <1> SUFFICES ASSUME SocketInv, Dial PROVE SocketInv'
    OBVIOUS
  <1> DEFINE r == [client |-> "open", server |-> "backlog", bytes |-> << >>]
  <1>1. PICK s : s = Min(Fresh)
    OBVIOUS
  <1>2. /\ s \in Socket /\ ~Used(s) /\ \A t \in Socket : ~Used(t) => s <= t
    <2>1. Fresh # {} /\ Fresh \subseteq Socket /\ Fresh \in SUBSET Nat
      BY SocketsAreNumbers DEF Dial, Fresh
    <2>2. s \in Fresh /\ \A t \in Fresh : s <= t
      BY <1>1, <2>1, Smallest
    <2> QED
      BY <2>1, <2>2 DEF Fresh, Used
  <1>3. conn' = s /\ current' = current /\ sock' = [sock EXCEPT ![s] = r]
    BY <1>1 DEF Dial, server
  <1>4. r.client = "open" /\ r.server = "backlog" /\ r # NoSocket
    BY DEF NoSocket
  <1>5. /\ \A t \in Socket : sock'[t] = IF t = s THEN r ELSE sock[t]
        /\ sock' = [t \in Socket |-> sock'[t]]
    BY <1>3 DEF SocketInv, SocketsOK
  <1>6. \A t \in Socket : SocketOK(t)' /\ (Used(t)' <=> t = s \/ Used(t))
    BY <1>4, <1>5 DEF SocketInv, SocketsOK, SocketOK, Used
  <1> HIDE DEF r
  <1>7. SocketsOK'
    BY <1>2, <1>3, <1>5, <1>6 DEF SocketInv, SocketsOK
  <1>8. \A t \in Socket : s < t => ~Used(t)
    BY <1>2 DEF SocketInv, DialedInOrder
  <1>9. DialedInOrder'
    BY <1>2, <1>6, <1>8, SocketsAreNumbers DEF SocketInv, DialedInOrder
  <1>10. ConnIsTheLast'
    BY <1>2, <1>3, <1>4, <1>5, <1>6, <1>8, SocketsAreNumbers DEF ConnIsTheLast
  <1>11. AcceptedInOrder'
    <2>1. \A t \in Socket : s < t => sock[t].server # "live"
      BY <1>8, NoSocketFields DEF Used
    <2> QED
      BY <1>2, <1>4, <1>5, <2>1, SocketsAreNumbers DEF SocketInv, AcceptedInOrder
  <1>12. TheLatestIsHeard'
    BY <1>2, <1>3, <1>4, <1>5 DEF TheLatestIsHeard
  <1> QED
    BY <1>7, <1>9, <1>10, <1>11, <1>12 DEF SocketInv

(* The first of those that wait is accepted; the client's is the last.     *)
LEMMA AcceptKeepsInv ==
  ASSUME SocketInv, NEW s \in Socket, Accept(s)
  PROVE  SocketInv'
  <1>1. sock[s].server = "backlog" /\ \A t \in Socket : sock[t].server = "backlog" => s <= t
    <2> DEFINE B == {t \in Socket : sock[t].server = "backlog"}
    <2>1. B \cup {MaxSockets + 1} \in SUBSET Nat /\ B \cup {MaxSockets + 1} # {} /\ MaxSockets + 1 \notin Socket
      BY SocketsAreNumbers DEF Socket
    <2>2. s = Min(B \cup {MaxSockets + 1})
      BY DEF Accept
    <2> HIDE DEF B
    <2>3. s \in B \cup {MaxSockets + 1} /\ \A t \in B \cup {MaxSockets + 1} : s <= t
      BY <2>1, <2>2, Smallest
    <2> QED
      BY <2>1, <2>3 DEF B
  <1>2. sock' = [sock EXCEPT ![s].server = "live"] /\ current' = s /\ conn' = conn
    BY DEF Accept, goClient
  <1> DEFINE r == [client |-> sock[s].client, server |-> "live", bytes |-> sock[s].bytes]
  <1>3. sock[s] = [client |-> sock[s].client, server |-> sock[s].server, bytes |-> sock[s].bytes]
        /\ sock[s].client # "none" /\ Used(s)
    BY <1>1, NoSocketFields DEF SocketInv, SocketsOK, SocketOK, Used
  <1>4. /\ \A t \in Socket : sock'[t] = IF t = s THEN r ELSE sock[t]
        /\ sock' = [t \in Socket |-> sock'[t]]
    BY <1>2, <1>3 DEF SocketInv, SocketsOK
  <1>5. r.client = sock[s].client /\ r.server = "live" /\ r # NoSocket
    BY DEF NoSocket
  <1>6. \A t \in Socket : SocketOK(t)' /\ (Used(t)' <=> Used(t))
    BY <1>3, <1>4, <1>5 DEF SocketInv, SocketsOK, SocketOK, Used
  <1> HIDE DEF r
  <1>7. SocketsOK'
    BY <1>2, <1>3, <1>4, <1>6 DEF SocketInv, SocketsOK
  <1>8. DialedInOrder' /\ ConnIsTheLast'
    BY <1>2, <1>4, <1>5, <1>6 DEF SocketInv, SocketsOK, DialedInOrder, ConnIsTheLast
  <1>9. AcceptedInOrder'
    BY <1>1, <1>4, <1>5, SocketsAreNumbers DEF SocketInv, AcceptedInOrder
  <1>10. TheLatestIsHeard'
    <2> SUFFICES ASSUME conn # 0, conn # s, sock[conn].server = "live" PROVE FALSE
      BY <1>2, <1>4 DEF TheLatestIsHeard, SocketInv, SocketsOK
    <2>1. conn \in Socket /\ s <= conn
      BY <1>3, SocketsAreNumbers DEF SocketInv, SocketsOK, ConnIsTheLast
    <2> QED
      BY <1>1, <2>1, SocketsAreNumbers DEF SocketInv, AcceptedInOrder
  <1> QED
    BY <1>7, <1>8, <1>9, <1>10 DEF SocketInv

-----------------------------------------------------------------------------
(* The other steps of a socket. *)
LEMMA WriteHalfKeepsInv == SocketInv /\ WriteHalf => SocketInv'
  <1> SUFFICES ASSUME SocketInv, WriteHalf PROVE SocketInv'
    OBVIOUS
  <1>1. conn' = conn /\ current' = current
        /\ (sock' = sock \/ sock' = [sock EXCEPT ![conn].bytes = Append(@, Head(pending))])
    BY DEF WriteHalf, server
  <1>2. CASE sock' = sock
    BY <1>1, <1>2, SameSockets
  <1>3. CASE conn = 0 /\ sock' = [sock EXCEPT ![conn].bytes = Append(@, Head(pending))]
    <2>1. sock' = sock
      BY <1>3, SocketsAreNumbers DEF SocketInv, SocketsOK
    <2> QED
      BY <1>1, <2>1, SameSockets
  <1>4. CASE conn # 0 /\ sock' = [sock EXCEPT ![conn].bytes = Append(@, Head(pending))]
    <2>0. PICK s : s = conn
      OBVIOUS
    <2>1. PICK c, v, b : /\ c = sock[s].client /\ v = sock[s].server
                         /\ b = Append(sock[s].bytes, Head(pending)) /\ s \in Socket /\ s = conn
      BY <1>4, <2>0 DEF SocketInv, SocketsOK
    <2>2. c = "open" /\ Used(s) /\ v # "none"
      BY <1>4, <2>1, NoSocketFields DEF SocketInv, SocketsOK, SocketOK, ConnIsTheLast, Used
    <2>3. sock' = [sock EXCEPT ![s] = [client |-> c, server |-> v, bytes |-> b]]
      <3>1. sock[s] = [client |-> sock[s].client, server |-> sock[s].server, bytes |-> sock[s].bytes]
        BY <2>1 DEF SocketInv, SocketsOK, SocketOK
      <3>2. sock' = [sock EXCEPT ![s] = [sock[s] EXCEPT !.bytes = b]]
        BY <1>4, <2>1
      <3>3. sock'[s] = [sock[s] EXCEPT !.bytes = b]
        BY <2>1, <3>2 DEF SocketInv, SocketsOK
      <3>4. sock'[s] = [client |-> sock[s].client, server |-> sock[s].server, bytes |-> b]
        BY <3>1, <3>3
      <3>5. sock' = [sock EXCEPT ![s] = sock'[s]]
        BY <2>1, <3>2 DEF SocketInv, SocketsOK
      <3> QED
        BY <2>1, <3>4, <3>5
    <2> QED
      BY <1>1, <2>1, <2>2, <2>3, OneSocketEnds
  <1> QED
    BY <1>1, <1>2, <1>3, <1>4

(* A socket the client has dropped is closed by the collector. *)
LEMMA CollectedKeepsInv ==
  ASSUME SocketInv, NEW s \in Socket, Collected(s)
  PROVE  SocketInv'
  <1>1. sock' = [sock EXCEPT ![s].client = "closed"] /\ s # conn /\ sock[s].client = "open"
        /\ conn' = conn /\ current' = current
    BY DEF Collected, goClient, server
  <1>2. PICK v, b : v = sock[s].server /\ b = sock[s].bytes
    OBVIOUS
  <1>3. Used(s) /\ v # "none"
    BY <1>1, <1>2, NoSocketFields DEF SocketInv, SocketsOK, SocketOK, Used
  <1>4. sock' = [sock EXCEPT ![s] = [client |-> "closed", server |-> v, bytes |-> b]]
    <2>1. sock[s] = [client |-> sock[s].client, server |-> sock[s].server, bytes |-> sock[s].bytes]
      BY DEF SocketInv, SocketsOK, SocketOK
    <2>2. sock' = [sock EXCEPT ![s] = [sock[s] EXCEPT !.client = "closed"]]
      BY <1>1
    <2>3. sock'[s] = [sock[s] EXCEPT !.client = "closed"]
      BY <2>2 DEF SocketInv, SocketsOK
    <2>4. sock'[s] = [client |-> "closed", server |-> sock[s].server, bytes |-> sock[s].bytes]
      BY <2>1, <2>3
    <2>5. sock' = [sock EXCEPT ![s] = sock'[s]]
      BY <2>2 DEF SocketInv, SocketsOK
    <2> QED
      BY <1>2, <2>4, <2>5
  <1> QED
    BY <1>1, <1>2, <1>3, <1>4, OneSocketEnds

(* A chunk is read, or the server throws on a line of it. *)
LEMMA ReadKeepsInv ==
  ASSUME SocketInv, NEW s \in Socket, Read(s)
  PROVE  SocketInv'
  <1>1. sock[s].server = "live" /\ conn' = conn /\ current' = current
        /\ \/ \E n : sock' = [sock EXCEPT ![s].bytes = SubSeq(@, n + 1, Len(@))]
           \/ sock' = [t \in Socket |-> IF sock[t] = NoSocket THEN sock[t] ELSE [sock[t] EXCEPT !.server = "gone"]]
    BY DEF Read, goClient
  <1>2. ASSUME NEW n, sock' = [sock EXCEPT ![s].bytes = SubSeq(@, n + 1, Len(@))] PROVE SocketInv'
    <2>1. PICK c, v, b : c = sock[s].client /\ v = sock[s].server /\ b = SubSeq(sock[s].bytes, n + 1, Len(sock[s].bytes))
      OBVIOUS
    <2>2. Used(s) /\ c # "none" /\ v # "none" /\ (s = conn => c = "open")
      BY <1>1, <2>1, NoSocketFields, SocketsAreNumbers DEF SocketInv, SocketsOK, SocketOK, ConnIsTheLast, Used
    <2>3. sock' = [sock EXCEPT ![s] = [client |-> c, server |-> v, bytes |-> b]]
      <3>1. sock[s] = [client |-> sock[s].client, server |-> sock[s].server, bytes |-> sock[s].bytes]
        BY DEF SocketInv, SocketsOK, SocketOK
      <3>2. sock' = [sock EXCEPT ![s] = [sock[s] EXCEPT !.bytes = b]]
        BY <1>2, <2>1
      <3>3. sock'[s] = [sock[s] EXCEPT !.bytes = b]
        BY <3>2 DEF SocketInv, SocketsOK
      <3>4. sock'[s] = [client |-> sock[s].client, server |-> sock[s].server, bytes |-> b]
        BY <3>1, <3>3
      <3>5. sock' = [sock EXCEPT ![s] = sock'[s]]
        BY <3>2 DEF SocketInv, SocketsOK
      <3> QED
        BY <2>1, <3>4, <3>5
    <2> QED
      BY <1>1, <2>1, <2>2, <2>3, OneSocketEnds
  <1>3. CASE sock' = [t \in Socket |-> IF sock[t] = NoSocket THEN sock[t] ELSE [sock[t] EXCEPT !.server = "gone"]]
    <2> DEFINE G == {t \in Socket : Used(t)}
    <2>1. \A t \in G : \E b : sock'[t] = [client |-> sock[t].client, server |-> "gone", bytes |-> b]
      <3> SUFFICES ASSUME NEW t \in G PROVE sock'[t] = [client |-> sock[t].client, server |-> "gone", bytes |-> sock[t].bytes]
        OBVIOUS
      <3>1. sock'[t] = [sock[t] EXCEPT !.server = "gone"]
        BY <1>3 DEF Used
      <3>2. sock[t] = [client |-> sock[t].client, server |-> sock[t].server, bytes |-> sock[t].bytes]
        BY DEF SocketInv, SocketsOK, SocketOK
      <3> QED
        BY <3>1, <3>2
    <2>2. \A t \in Socket \ G : sock'[t] = sock[t]
      BY <1>3 DEF Used
    <2>3. sock' = [t \in Socket |-> sock'[t]]
      BY <1>3
    <2> QED
      BY <1>1, <2>1, <2>2, <2>3, ServerEndsGo
  <1> QED
    BY <1>1, <1>2, <1>3

(* The server sees the end of a socket the client has left. *)
LEMMA SocketEndsKeepsInv ==
  ASSUME SocketInv, NEW s \in Socket, SocketEnds(s)
  PROVE  SocketInv'
  <1>1. sock' = [sock EXCEPT ![s].server = "gone", ![s].bytes = << >>] /\ sock[s].client = "closed"
        /\ conn' = conn /\ (current' = current \/ (current' = 0 /\ current = s))
    BY DEF SocketEnds, NoLonger, goClient
  <1>2. s # conn /\ Used(s)
    BY <1>1, NoSocketFields, SocketsAreNumbers DEF SocketInv, ConnIsTheLast, Used
  <1>3. PICK c, v, b : c = "closed" /\ v = "gone" /\ b = << >>
    OBVIOUS
  <1>4. sock' = [sock EXCEPT ![s] = [client |-> c, server |-> v, bytes |-> b]]
    <2>1. sock[s] = [client |-> sock[s].client, server |-> sock[s].server, bytes |-> sock[s].bytes]
      BY DEF SocketInv, SocketsOK, SocketOK
    <2>2. sock' = [sock EXCEPT ![s] = [sock[s] EXCEPT !.server = "gone", !.bytes = << >>]]
      BY <1>1
    <2>3. sock'[s] = [sock[s] EXCEPT !.server = "gone", !.bytes = << >>]
      BY <2>2 DEF SocketInv, SocketsOK
    <2>4. sock'[s] = [client |-> sock[s].client, server |-> "gone", bytes |-> << >>]
      BY <2>1, <2>3
    <2>5. sock' = [sock EXCEPT ![s] = sock'[s]]
      BY <2>2 DEF SocketInv, SocketsOK
    <2> QED
      BY <1>1, <1>3, <2>4, <2>5
  <1>5. /\ c # "none" /\ v # "none" /\ (v \in {"live", "backlog"} => v = sock[s].server)
        /\ (s = conn => c = "open") /\ conn' = conn
        /\ (current' = current \/ (current' = 0 /\ current = s /\ s # conn))
    BY <1>1, <1>2, <1>3
  <1> QED
    BY <1>2, <1>4, <1>5, OneSocketEnds

(* Every step keeps the invariant of the sockets. *)
LEMMA StepKeepsInv == SocketInv /\ [Next]_vars => SocketInv'
  <1> SUFFICES ASSUME SocketInv, [Next]_vars PROVE SocketInv'
    OBVIOUS
  <1>1. CASE StartProxy \/ ExitEvent \/ Restart \/ Send \/ ReadLoopEnds
    <2>1. sock' = sock /\ current' = current /\ (conn' = conn \/ conn' = 0)
      BY <1>1 DEF StartProxy, ExitEvent, Restart, Send, ReadLoopEnds, goClient, server
    <2> QED
      BY <2>1, SameSockets
  <1>2. CASE Close
    BY <1>2, CloseKeepsInv
  <1>3. CASE Crash \/ Terminate
    BY <1>3, LeavesKeepsInv DEF Crash, Terminate
  <1>4. CASE Dial
    BY <1>4, DialKeepsInv
  <1>5. CASE WriteHalf
    BY <1>5, WriteHalfKeepsInv
  <1>6. CASE \E s \in Socket : Collected(s) \/ Accept(s) \/ Read(s) \/ SocketEnds(s)
    BY <1>6, CollectedKeepsInv, AcceptKeepsInv, ReadKeepsInv, SocketEndsKeepsInv
  <1>7. CASE UNCHANGED vars
    BY <1>7, SameSockets DEF vars, goClient, server
  <1> QED
    BY <1>1, <1>2, <1>3, <1>4, <1>5, <1>6, <1>7 DEF Next

(* The server's messages go to the connection that the client reads,       *)
(* however many sockets it has left open (ipc/server.js, the connection    *)
(* callback and the close handler; client.go Connect and readLoop).        *)
THEOREM TheServerWritesToTheLatest == Spec => []TheLatestIsHeard
  <1>1. SocketInv => TheLatestIsHeard
    BY DEF SocketInv
  <1> QED
    BY <1>1, InitSocket, StepKeepsInv, PTL DEF Spec

-----------------------------------------------------------------------------
(* Sequences. *)
(* One sequence after another. *)
LEMMA ConcatType ==
  ASSUME NEW S, NEW s \in Seq(S), NEW t \in Seq(S)
  PROVE  /\ s \o t \in Seq(S)
         /\ Len(s \o t) = Len(s) + Len(t)
         /\ \A k \in 1 .. Len(s) + Len(t) : (s \o t)[k] = IF k <= Len(s) THEN s[k] ELSE t[k - Len(s)]
  OBVIOUS

(* Where the elements of two sequences are when one follows the other. *)
LEMMA ConcatParts ==
  ASSUME NEW S, NEW a \in Seq(S), NEW b \in Seq(S)
  PROVE  /\ \A k \in 1 .. Len(a) : k \in 1 .. Len(a \o b) /\ (a \o b)[k] = a[k]
         /\ \A k \in 1 .. Len(b) : Len(a) + k \in 1 .. Len(a \o b) /\ (a \o b)[Len(a) + k] = b[k]
         /\ \A i \in 1 .. Len(a \o b) : i > Len(a) => \E k \in 1 .. Len(b) : i = Len(a) + k
<1>. DEFINE c == a \o b
<1>1. PICK m \in Nat, n \in Nat : m = Len(a) /\ n = Len(b)
  OBVIOUS
<1>2. /\ Len(c) = m + n
      /\ \A k \in 1 .. m + n : c[k] = IF k <= m THEN a[k] ELSE b[k - m]
  BY <1>1, ConcatType
<1>. HIDE DEF c
<1>3. \A k \in 1 .. m : k \in 1 .. m + n /\ k <= m
  OBVIOUS
<1>4. \A k \in 1 .. n : m + k \in 1 .. m + n /\ ~(m + k <= m) /\ (m + k) - m = k
  OBVIOUS
<1>5. ASSUME NEW i \in 1 .. m + n, i > m PROVE i - m \in 1 .. n /\ i = m + (i - m)
  BY <1>5
<1>6. \A k \in 1 .. m : k \in 1 .. Len(c) /\ c[k] = a[k]
  BY <1>2, <1>3
<1>7. \A k \in 1 .. n : m + k \in 1 .. Len(c) /\ c[m + k] = b[k]
  BY <1>2, <1>4
<1>8. \A i \in 1 .. Len(c) : i > m => \E k \in 1 .. n : i = m + k
  BY <1>2, <1>5
<1>. QED  BY <1>1, <1>6, <1>7, <1>8 DEF c

(* Sequences with the same elements are the same. *)
LEMMA SameSeq ==
  ASSUME NEW S, NEW a \in Seq(S), NEW b \in Seq(S), Len(a) = Len(b), \A k \in 1 .. Len(a) : a[k] = b[k]
  PROVE  a = b
  OBVIOUS

(* Concatenation is associative. *)
LEMMA ConcatTwice == \A a, b, c \in Seq(Half) : a \o (b \o c) = (a \o b) \o c
<1>1. ASSUME NEW a \in Seq(Half), NEW b \in Seq(Half), NEW c \in Seq(Half)
      PROVE  a \o (b \o c) = (a \o b) \o c
  OBVIOUS
<1>. QED  BY <1>1, Zenon

(* A sequence is its first elements and the rest. *)
LEMMA Split ==
  ASSUME NEW S, NEW a \in Seq(S), NEW n \in 0 .. Len(a)
  PROVE  /\ SubSeq(a, 1, n) \in Seq(S) /\ SubSeq(a, n + 1, Len(a)) \in Seq(S)
         /\ Len(SubSeq(a, 1, n)) = n /\ Len(SubSeq(a, n + 1, Len(a))) = Len(a) - n
         /\ \A k \in 1 .. n : SubSeq(a, 1, n)[k] = a[k]
         /\ \A k \in 1 .. Len(a) - n : SubSeq(a, n + 1, Len(a))[k] = a[n + k]
         /\ a = SubSeq(a, 1, n) \o SubSeq(a, n + 1, Len(a))
<1>1. PICK m \in Nat : m = Len(a)
  OBVIOUS
<1>. DEFINE x == SubSeq(a, 1, n)
            y == SubSeq(a, n + 1, Len(a))
<1>2. x \in Seq(S) /\ Len(x) = n /\ \A k \in 1 .. n : x[k] = a[k]
  OBVIOUS
<1>3. y \in Seq(S) /\ Len(y) = m - n /\ \A k \in 1 .. m - n : y[k] = a[n + k]
  BY <1>1
<1>. HIDE DEF x, y
<1>4. Len(x \o y) = m /\ x \o y \in Seq(S)
  <2>1. Len(x \o y) = Len(x) + Len(y) /\ x \o y \in Seq(S)
    BY <1>2, <1>3, ConcatType
  <2>2. n + (m - n) = m
    BY <1>1
  <2>. QED  BY <1>2, <1>3, <2>1, <2>2, Zenon
<1>5. \A k \in 1 .. m : (x \o y)[k] = a[k]
  <2>1. ASSUME NEW k \in 1 .. m PROVE (x \o y)[k] = a[k]
    <3>1. (x \o y)[k] = IF k <= n THEN x[k] ELSE y[k - n]
      <4>1. k \in 1 .. Len(x) + Len(y)
        BY <1>1, <1>2, <1>3
      <4>. QED  BY <1>2, <1>3, <4>1, ConcatType
    <3>2. CASE k <= n
      BY <1>2, <3>1, <3>2
    <3>3. CASE ~(k <= n)
      <4>1. k - n \in 1 .. m - n /\ n + (k - n) = k
        BY <1>1, <3>3
      <4>. QED  BY <1>3, <3>1, <3>3, <4>1
    <3>. QED  BY <3>2, <3>3
  <2>. QED  BY <2>1
<1>6. a = x \o y
  BY <1>1, <1>4, <1>5, SameSeq
<1>. QED  BY <1>1, <1>2, <1>3, <1>6 DEF x, y

-----------------------------------------------------------------------------
(* Halves and the frames that end in them. *)
LEMMA HalfFields == \A h \in Half : h = [frame |-> h.frame, last |-> h.last] /\ h.frame \in Frame /\ h.last \in BOOLEAN
  BY DEF Half, Frame

(* What a sequence of frames is in halves. *)
LEMMA InHalvesIs ==
  ASSUME NEW b \in Seq(Frame)
  PROVE  /\ InHalves(b) \in Seq(Half)
         /\ Len(InHalves(b)) = 2 * Len(b)
         /\ \A k \in 1 .. Len(b) :
              /\ 2 * k \in 1 .. 2 * Len(b) /\ 2 * k - 1 \in 1 .. 2 * Len(b)
              /\ InHalves(b)[2 * k] = Second(b[k])
              /\ InHalves(b)[2 * k - 1] = First(b[k])
         /\ \A i \in 1 .. 2 * Len(b) : \E k \in 1 .. Len(b) : i = 2 * k \/ i = 2 * k - 1
<1>1. PICK n \in Nat : n = Len(b)
  OBVIOUS
<1>. DEFINE h == InHalves(b)
<1>2. \A i \in 1 .. 2 * n : (i + 1) \div 2 \in 1 .. n
  OBVIOUS
<1>3. \A i \in 1 .. 2 * n : \E k \in 1 .. n : i = 2 * k \/ i = 2 * k - 1
  <2>1. \A i \in 1 .. 2 * n : i = 2 * ((i + 1) \div 2) \/ i = 2 * ((i + 1) \div 2) - 1
    OBVIOUS
  <2>. QED  BY <1>2, <2>1
<1>4. \A k \in 1 .. n : /\ 2 * k \in 1 .. 2 * n /\ 2 * k - 1 \in 1 .. 2 * n
                        /\ (2 * k + 1) \div 2 = k /\ ((2 * k - 1) + 1) \div 2 = k
                        /\ (2 * k) % 2 = 0 /\ (2 * k - 1) % 2 # 0
  OBVIOUS
<1>5. h = [i \in 1 .. 2 * n |-> [frame |-> b[(i + 1) \div 2], last |-> i % 2 = 0]]
  BY <1>1 DEF InHalves
<1>6. \A i \in 1 .. 2 * n : h[i] \in Half
  <2>1. \A i \in 1 .. 2 * n : b[(i + 1) \div 2] \in Frame
    BY <1>1, <1>2
  <2>. QED  BY <1>5, <2>1 DEF Half, Frame
<1>7. 2 * n \in Nat
  OBVIOUS
<1>8. h \in Seq(Half) /\ Len(h) = 2 * n
  BY <1>5, <1>6, <1>7
<1>. HIDE DEF h
<1>9. \A k \in 1 .. n : h[2 * k] = Second(b[k]) /\ h[2 * k - 1] = First(b[k])
  <2>1. ASSUME NEW k \in 1 .. n PROVE h[2 * k] = Second(b[k]) /\ h[2 * k - 1] = First(b[k])
    BY <1>4, <1>5 DEF First, Second
  <2>. QED  BY <2>1
<1>. QED  BY <1>1, <1>3, <1>4, <1>8, <1>9 DEF h

(* The halves of one frame. *)
LEMMA HalvesAre ==
  ASSUME NEW f \in Frame
  PROVE  /\ Halves(f) \in Seq(Half) /\ Len(Halves(f)) = 2
         /\ Halves(f)[1] = First(f) /\ Halves(f)[2] = Second(f)
<1>1. <<f>> \in Seq(Frame) /\ Len(<<f>>) = 1 /\ <<f>>[1] = f
  OBVIOUS
<1>2. 1 \in 1 .. Len(<<f>>) /\ 2 * 1 = 2 /\ 2 * 1 - 1 = 1
  BY <1>1
<1>3. InHalves(<<f>>) \in Seq(Half) /\ Len(InHalves(<<f>>)) = 2 * 1
  BY <1>1, InHalvesIs
<1>4. InHalves(<<f>>)[2 * 1] = Second(f) /\ InHalves(<<f>>)[2 * 1 - 1] = First(f)
  BY <1>1, <1>2, InHalvesIs
<1>. QED  BY <1>2, <1>3, <1>4 DEF Halves

(* What is asked of the i-th half. *)
Fits(s, i) ==
  IF s[i].last THEN i > 1 /\ s[i - 1] = First(s[i].frame) ELSE i = 1 \/ s[i - 1].last

(* JSON lines, half by half. *)
LEMMA JsonIs ==
  ASSUME NEW s \in Seq(Half)
  PROVE  IsJson(s) <=> \A i \in 1 .. Len(s) : Fits(s, i)
<1>1. DOMAIN s = 1 .. Len(s)
  OBVIOUS
<1>2. \A i \in 1 .. Len(s) : s[i] \in Half
  OBVIOUS
<1>3. \A i \in 1 .. Len(s) : Halves(s[i].frame)[1] = First(s[i].frame)
  BY <1>2, HalfFields, HalvesAre
<1>. QED  BY <1>1, <1>3 DEF IsJson, Fits

(* What is not empty has a last one. *)
LEMMA LastOne ==
  ASSUME NEW S, NEW s \in Seq(S), s # << >>
  PROVE  Len(s) \in Nat \ {0} /\ Len(s) \in 1 .. Len(s)
  OBVIOUS

(* Whole sequences, one after the other. *)
LEMMA WholeParts ==
  ASSUME NEW a \in Seq(Half), NEW b \in Seq(Half)
  PROVE  /\ IsWhole(a \o b) => IsWhole(b)
         /\ IsWhole(a) /\ IsWhole(b) => IsWhole(a \o b)
<1>1. CASE b = << >>
  <2>1. a \o b = a
    BY <1>1
  <2>. QED  BY <1>1, <2>1 DEF IsWhole
<1>2. CASE b # << >>
  <2>1. Len(b) \in 1 .. Len(b)
    BY <1>2, LastOne
  <2>2. Len(a \o b) = Len(a) + Len(b)
    BY ConcatType
  <2>3. (a \o b)[Len(a) + Len(b)] = b[Len(b)]
    BY <2>1, ConcatParts
  <2>4. a \o b # << >>
    BY <2>1, <2>2
  <2>. QED  BY <1>2, <2>2, <2>3, <2>4 DEF IsWhole
<1>. QED  BY <1>1, <1>2

(* What precedes JSON lines and what follows a whole part of them is JSON  *)
(* lines, and whole ones can be continued.                                 *)
LEMMA JsonParts ==
  ASSUME NEW a \in Seq(Half), NEW b \in Seq(Half)
  PROVE  /\ IsJson(a \o b) => IsJson(a)
         /\ IsJson(a \o b) /\ IsWhole(a) => IsJson(b)
         /\ IsJson(a) /\ IsWhole(a) /\ IsJson(b) => IsJson(a \o b)
<1>. DEFINE c == a \o b
<1>1. PICK m \in Nat, n \in Nat : m = Len(a) /\ n = Len(b)
  OBVIOUS
<1>2. c \in Seq(Half) /\ Len(c) = m + n
  BY <1>1, ConcatType
<1>3. \A k \in 1 .. m : k \in 1 .. m + n /\ c[k] = a[k]
  BY <1>1, <1>2, ConcatParts
<1>4. \A k \in 1 .. n : m + k \in 1 .. m + n /\ c[m + k] = b[k]
  BY <1>1, <1>2, ConcatParts
<1>5. \A i \in 1 .. m + n : i > m => \E k \in 1 .. n : i = m + k
  BY <1>1, <1>2, ConcatParts
<1>. HIDE DEF c
<1>6. \A k \in 1 .. m : Fits(c, k) <=> Fits(a, k)
  <2>1. ASSUME NEW k \in 1 .. m PROVE Fits(c, k) <=> Fits(a, k)
    <3>1. CASE k = 1
      BY <1>3, <3>1 DEF Fits
    <3>2. CASE k # 1
      <4>1. k - 1 \in 1 .. m
        BY <3>2
      <4>. QED  BY <1>3, <4>1 DEF Fits
    <3>. QED  BY <3>1, <3>2
  <2>. QED  BY <2>1
<1>7. IsWhole(a) => \A k \in 1 .. n : Fits(c, m + k) <=> Fits(b, k)
  <2>1. ASSUME IsWhole(a), NEW k \in 1 .. n, k # 1 PROVE Fits(c, m + k) <=> Fits(b, k)
    <3>1. k - 1 \in 1 .. n /\ m + (k - 1) = (m + k) - 1 /\ m + k > 1 /\ k > 1 /\ m + k # 1
      BY <2>1
    <3>2. c[m + k] = b[k] /\ c[(m + k) - 1] = b[k - 1]
      BY <1>4, <3>1
    <3>. QED  BY <2>1, <3>1, <3>2 DEF Fits
  <2>2. ASSUME IsWhole(a), NEW k \in 1 .. n, k = 1 PROVE Fits(c, m + k) <=> Fits(b, k)
    <3>1. c[m + k] = b[k]
      BY <1>4
    <3>2. CASE m = 0
      BY <2>2, <3>1, <3>2 DEF Fits
    <3>3. CASE m # 0
      <4>1. a # << >> /\ m \in 1 .. m /\ (m + k) - 1 = m /\ m + k # 1 /\ ~(k > 1)
        BY <1>1, <2>2, <3>3
      <4>2. a[m].last /\ a[m] \in Half
        BY <1>1, <2>2, <4>1 DEF IsWhole
      <4>3. c[(m + k) - 1].last
        BY <1>3, <4>1, <4>2
      <4>4. \A f : First(f).last = FALSE
        BY DEF First
      <4>5. c[(m + k) - 1] # First(c[m + k].frame)
        BY <4>3, <4>4
      <4>. QED  BY <2>2, <3>1, <4>1, <4>3, <4>5 DEF Fits
    <3>. QED  BY <3>2, <3>3
  <2>. QED  BY <2>1, <2>2
<1>8. IsJson(c) => IsJson(a)
  BY <1>1, <1>2, <1>3, <1>6, JsonIs
<1>9. IsJson(c) /\ IsWhole(a) => IsJson(b)
  BY <1>1, <1>2, <1>4, <1>7, JsonIs
<1>10. ASSUME IsJson(a), IsWhole(a), IsJson(b) PROVE IsJson(c)
  <2>1. ASSUME NEW i \in 1 .. m + n PROVE Fits(c, i)
    <3>1. CASE i <= m
      <4>1. i \in 1 .. m
        BY <3>1
      <4>. QED  BY <1>1, <1>6, <1>10, <4>1, JsonIs
    <3>2. CASE i > m
      <4>1. PICK k \in 1 .. n : i = m + k
        BY <1>5, <3>2
      <4>. QED  BY <1>1, <1>7, <1>10, <4>1, JsonIs
    <3>. QED  BY <3>1, <3>2
  <2>. QED  BY <1>2, <2>1, JsonIs
<1>. QED  BY <1>8, <1>9, <1>10 DEF c

(* Frames in halves are whole JSON lines. *)
LEMMA InHalvesFit ==
  ASSUME NEW b \in Seq(Frame)
  PROVE  IsJson(InHalves(b)) /\ IsWhole(InHalves(b))
<1>. DEFINE h == InHalves(b)
<1>1. PICK n \in Nat : n = Len(b)
  OBVIOUS
<1>2. h \in Seq(Half) /\ Len(h) = 2 * n
  BY <1>1, InHalvesIs
<1>3. \A k \in 1 .. n : h[2 * k] = Second(b[k]) /\ h[2 * k - 1] = First(b[k])
  BY <1>1, InHalvesIs
<1>4. \A i \in 1 .. 2 * n : \E k \in 1 .. n : i = 2 * k \/ i = 2 * k - 1
  BY <1>1, InHalvesIs
<1>. HIDE DEF h
<1>5. \A f : First(f).last = FALSE /\ Second(f).last = TRUE /\ Second(f).frame = f
  BY DEF First, Second
<1>6. ASSUME NEW i \in 1 .. 2 * n PROVE Fits(h, i)
  <2>1. PICK k \in 1 .. n : i = 2 * k \/ i = 2 * k - 1
    BY <1>4
  <2>2. CASE i = 2 * k
    <3>1. i - 1 = 2 * k - 1 /\ i > 1
      BY <2>2
    <3>2. h[i].last /\ h[i].frame = b[k] /\ h[i - 1] = First(b[k])
      BY <1>3, <1>5, <2>2, <3>1
    <3>. QED  BY <3>1, <3>2 DEF Fits
  <2>3. CASE i = 2 * k - 1
    <3>1. ~h[i].last
      BY <1>3, <1>5, <2>3
    <3>2. CASE k = 1
      BY <2>3, <3>1, <3>2 DEF Fits
    <3>3. CASE k # 1
      <4>1. k - 1 \in 1 .. n /\ i - 1 = 2 * (k - 1)
        BY <2>3, <3>3
      <4>2. h[i - 1].last
        BY <1>3, <1>5, <4>1
      <4>. QED  BY <3>1, <4>2 DEF Fits
    <3>. QED  BY <3>2, <3>3
  <2>. QED  BY <2>1, <2>2, <2>3
<1>7. IsJson(h)
  BY <1>2, <1>6, JsonIs
<1>8. ASSUME h # << >> PROVE h[Len(h)].last
  <2>1. n \in 1 .. n
    BY <1>2, <1>8
  <2>. QED  BY <1>2, <1>3, <1>5, <2>1
<1>. QED  BY <1>7, <1>8 DEF IsWhole, h

(* In JSON lines, first and second halves take turns. *)
LEMMA Parity ==
  ASSUME NEW s \in Seq(Half), IsJson(s)
  PROVE  \A i \in 1 .. Len(s) : s[i].last <=> i % 2 = 0
<1>1. PICK n \in Nat : n = Len(s)
  OBVIOUS
<1>. DEFINE T == {i \in 1 .. n : ~(s[i].last <=> i % 2 = 0)}
<1>2. SUFFICES ASSUME T # {} PROVE FALSE
  BY <1>1
<1>3. PICK i \in T : \A m \in T : i <= m
  <2>1. T \in SUBSET Nat
    OBVIOUS
  <2>. HIDE DEF T
  <2>. QED  BY <1>2, <2>1, Smallest
<1>4. i \in 1 .. n /\ ~(s[i].last <=> i % 2 = 0)
  OBVIOUS
<1>5. Fits(s, i)
  BY <1>1, <1>4, JsonIs
<1>6. CASE i = 1
  <2>1. ~(i % 2 = 0) /\ ~(i > 1)
    BY <1>6
  <2>. QED  BY <1>4, <1>5, <2>1 DEF Fits
<1>7. CASE i # 1
  <2>1. i - 1 \in 1 .. n /\ ~(i <= i - 1) /\ (i % 2 = 0 <=> ~((i - 1) % 2 = 0))
    BY <1>4, <1>7
  <2>2. s[i - 1].last <=> (i - 1) % 2 = 0
    BY <1>3, <2>1
  <2>3. ~(s[i].last <=> ~s[i - 1].last)
    BY <1>4, <2>1, <2>2
  <2>4. s[i - 1].last \in BOOLEAN /\ s[i].last \in BOOLEAN
    BY <1>1, <1>4, <2>1, HalfFields
  <2>5. \A f : First(f).last = FALSE
    BY DEF First
  <2>6. CASE s[i].last
    BY <1>5, <2>3, <2>5, <2>6, Zenon DEF Fits
  <2>7. CASE ~s[i].last
    BY <1>5, <1>7, <2>3, <2>7, Zenon DEF Fits
  <2>. QED  BY <2>6, <2>7
<1>. QED  BY <1>6, <1>7

(* The frames of whole JSON lines, in halves again. *)
LEMMA InHalvesOfFrames ==
  ASSUME NEW s \in Seq(Half), IsJson(s), IsWhole(s)
  PROVE  Frames(s) \in Seq(Frame) /\ InHalves(Frames(s)) = s
<1>1. PICK n \in Nat : n = Len(s)
  OBVIOUS
<1>2. \A i \in 1 .. n : s[i].last <=> i % 2 = 0
  BY <1>1, Parity
<1>3. n % 2 = 0
  <2>1. CASE s = << >>
    <3>1. n = 0
      BY <1>1, <2>1
    <3>. QED  BY <3>1
  <2>2. CASE s # << >>
    <3>1. n \in 1 .. n /\ s[n].last
      BY <1>1, <2>2, LastOne DEF IsWhole
    <3>. QED  BY <1>2, <3>1
  <2>. QED  BY <2>1, <2>2
<1>4. PICK m \in Nat : m = n \div 2 /\ n = 2 * m
  BY <1>3
<1>. DEFINE b == Frames(s)
<1>5. b = [i \in 1 .. m |-> s[2 * i].frame]
  BY <1>1, <1>4 DEF Frames
<1>6. \A i \in 1 .. m : 2 * i \in 1 .. n /\ 2 * i - 1 \in 1 .. n /\ (2 * i) % 2 = 0 /\ 2 * i > 1
  BY <1>4
<1>7. \A i \in 1 .. m : s[2 * i] \in Half /\ s[2 * i].frame \in Frame
  BY <1>1, <1>6, HalfFields
<1>8. b \in Seq(Frame) /\ Len(b) = m /\ \A i \in 1 .. m : b[i] = s[2 * i].frame
  BY <1>5, <1>7
<1>. HIDE DEF b
<1>9. InHalves(b) \in Seq(Half) /\ Len(InHalves(b)) = Len(s)
  BY <1>1, <1>4, <1>8, InHalvesIs
<1>10. ASSUME NEW i \in 1 .. n PROVE InHalves(b)[i] = s[i]
  <2>1. PICK k \in 1 .. m : i = 2 * k \/ i = 2 * k - 1
    BY <1>4, <1>8, InHalvesIs
  <2>2. /\ InHalves(b)[2 * k] = Second(s[2 * k].frame)
        /\ InHalves(b)[2 * k - 1] = First(s[2 * k].frame)
    <3>1. b \in Seq(Frame) /\ k \in 1 .. Len(b) /\ b[k] = s[2 * k].frame
      BY <1>8
    <3>2. InHalves(b)[2 * k] = Second(b[k]) /\ InHalves(b)[2 * k - 1] = First(b[k])
      BY <3>1, InHalvesIs
    <3>. QED  BY <3>1, <3>2, Zenon
  <2>3. s[2 * k].last
    BY <1>2, <1>6
  <2>4. s[2 * k] = Second(s[2 * k].frame)
    BY <1>7, <2>3, HalfFields DEF Second
  <2>5. s[2 * k - 1] = First(s[2 * k].frame)
    BY <1>1, <1>6, <2>3, JsonIs DEF Fits
  <2>. QED  BY <2>1, <2>2, <2>4, <2>5
<1>11. InHalves(b) = s
  BY <1>1, <1>9, <1>10, SameSeq
<1>. QED  BY <1>8, <1>11 DEF b

(* The halves of frames that follow others. *)
LEMMA InHalvesConcat ==
  ASSUME NEW a \in Seq(Frame), NEW b \in Seq(Frame)
  PROVE  InHalves(a \o b) = InHalves(a) \o InHalves(b)
<1>1. PICK m \in Nat, n \in Nat : m = Len(a) /\ n = Len(b)
  OBVIOUS
<1>. DEFINE c == a \o b
            x == InHalves(a)
            y == InHalves(b)
            z == InHalves(c)
<1>2. c \in Seq(Frame) /\ Len(c) = m + n
  BY <1>1, ConcatType
<1>3. \A k \in 1 .. m : k \in 1 .. m + n /\ c[k] = a[k]
  BY <1>1, <1>2, ConcatParts
<1>4. \A k \in 1 .. n : m + k \in 1 .. m + n /\ c[m + k] = b[k]
  BY <1>1, <1>2, ConcatParts
<1>5. \A i \in 1 .. m + n : i > m => \E k \in 1 .. n : i = m + k
  BY <1>1, <1>2, ConcatParts
<1>6. /\ x \in Seq(Half) /\ Len(x) = 2 * m
      /\ \A k \in 1 .. m : /\ 2 * k \in 1 .. 2 * m /\ 2 * k - 1 \in 1 .. 2 * m
                           /\ x[2 * k] = Second(a[k]) /\ x[2 * k - 1] = First(a[k])
  BY <1>1, InHalvesIs
<1>7. /\ y \in Seq(Half) /\ Len(y) = 2 * n
      /\ \A k \in 1 .. n : /\ 2 * k \in 1 .. 2 * n /\ 2 * k - 1 \in 1 .. 2 * n
                           /\ y[2 * k] = Second(b[k]) /\ y[2 * k - 1] = First(b[k])
  BY <1>1, InHalvesIs
<1>. HIDE DEF c
<1>8. /\ z \in Seq(Half) /\ Len(z) = 2 * (m + n)
      /\ \A k \in 1 .. m + n : z[2 * k] = Second(c[k]) /\ z[2 * k - 1] = First(c[k])
      /\ \A i \in 1 .. 2 * (m + n) : \E k \in 1 .. m + n : i = 2 * k \/ i = 2 * k - 1
  <2>1. c \in Seq(Frame)
    BY <1>2
  <2>2. /\ z \in Seq(Half) /\ Len(z) = 2 * Len(c)
        /\ \A k \in 1 .. Len(c) : z[2 * k] = Second(c[k]) /\ z[2 * k - 1] = First(c[k])
        /\ \A i \in 1 .. 2 * Len(c) : \E k \in 1 .. Len(c) : i = 2 * k \/ i = 2 * k - 1
    BY <2>1, InHalvesIs
  <2>3. Len(c) = m + n
    BY <1>2
  <2>. HIDE DEF z
  <2>. QED  BY <2>2, <2>3, Zenon
<1>. HIDE DEF x, y, z
<1>9. /\ x \o y \in Seq(Half) /\ Len(x \o y) = Len(z)
      /\ \A k \in 1 .. 2 * m : (x \o y)[k] = x[k]
      /\ \A k \in 1 .. 2 * n : (x \o y)[2 * m + k] = y[k]
  <2>1. x \o y \in Seq(Half) /\ Len(x \o y) = Len(x) + Len(y)
    BY <1>6, <1>7, ConcatType
  <2>2. 2 * m + 2 * n = 2 * (m + n)
    OBVIOUS
  <2>3. /\ \A k \in 1 .. Len(x) : (x \o y)[k] = x[k]
        /\ \A k \in 1 .. Len(y) : (x \o y)[Len(x) + k] = y[k]
    <3>1. x \in Seq(Half) /\ y \in Seq(Half)
      BY <1>6, <1>7
    <3>. QED  BY <3>1, ConcatParts
  <2>. QED  BY <1>6, <1>7, <1>8, <2>1, <2>2, <2>3, Zenon
<1>10. ASSUME NEW i \in 1 .. 2 * (m + n) PROVE z[i] = (x \o y)[i]
  <2>1. PICK k \in 1 .. m + n : i = 2 * k \/ i = 2 * k - 1
    BY <1>8
  <2>2. z[2 * k] = Second(c[k]) /\ z[2 * k - 1] = First(c[k])
    BY <1>8
  <2>3. CASE k <= m
    <3>1. k \in 1 .. m
      BY <2>3
    <3>2. c[k] = a[k]
      BY <1>3, <3>1
    <3>3. (x \o y)[2 * k] = Second(a[k]) /\ (x \o y)[2 * k - 1] = First(a[k])
      BY <1>6, <1>9, <3>1
    <3>. QED  BY <2>1, <2>2, <3>2, <3>3
  <2>4. CASE k > m
    <3>1. PICK j \in 1 .. n : k = m + j
      BY <1>5, <2>4
    <3>2. c[k] = b[j]
      BY <1>4, <3>1
    <3>3. 2 * k = 2 * m + 2 * j /\ 2 * k - 1 = 2 * m + (2 * j - 1)
      BY <3>1
    <3>4. 2 * j \in 1 .. 2 * n /\ 2 * j - 1 \in 1 .. 2 * n
      BY <1>7
    <3>5. (x \o y)[2 * m + 2 * j] = Second(b[j]) /\ (x \o y)[2 * m + (2 * j - 1)] = First(b[j])
      BY <1>7, <1>9, <3>4
    <3>. QED  BY <2>1, <2>2, <3>2, <3>3, <3>5
  <2>5. k <= m \/ k > m
    OBVIOUS
  <2>. QED  BY <2>3, <2>4, <2>5
<1>11. z = x \o y
  BY <1>8, <1>9, <1>10, SameSeq
<1>. QED  BY <1>11 DEF c, x, y, z

-----------------------------------------------------------------------------
(* The frames that end in a run, and their order. *)
LEMMA FramesInIs ==
  ASSUME NEW s \in Seq(Half)
  PROVE  /\ FramesIn(s) \subseteq Frame
         /\ \A f : f \in FramesIn(s) <=> \E i \in 1 .. Len(s) : s[i].last /\ s[i].frame = f
<1>1. DOMAIN s = 1 .. Len(s)
  OBVIOUS
<1>2. \A i \in 1 .. Len(s) : s[i].frame \in Frame
  BY HalfFields
<1>. QED  BY <1>1, <1>2 DEF FramesIn

(* The order of frames, position by position. *)
LEMMA AscendsIs ==
  ASSUME NEW s \in Seq(Half)
  PROVE  Ascends(s) <=>
           \A i, j \in 1 .. Len(s) : i < j /\ s[i].last /\ s[j].last => s[i].frame < s[j].frame
<1>1. DOMAIN s = 1 .. Len(s)
  OBVIOUS
<1>. QED  BY <1>1 DEF Ascends

(* The empty sequence is whole JSON lines, and in order. *)
LEMMA Nothing == /\ << >> \in Seq(Half) /\ FramesIn(<< >>) = {} /\ Ascends(<< >>)
                 /\ IsJson(<< >>) /\ IsWhole(<< >>)
<1>1. DOMAIN << >> = {}
  OBVIOUS
<1>2. << >> \in Seq(Half)
  OBVIOUS
<1>. QED  BY <1>1, <1>2 DEF FramesIn, Ascends, IsJson, IsWhole

(* The frames of two sequences, one after the other. *)
LEMMA FramesParts ==
  ASSUME NEW a \in Seq(Half), NEW b \in Seq(Half)
  PROVE  FramesIn(a \o b) = FramesIn(a) \cup FramesIn(b)
<1>. DEFINE c == a \o b
<1>1. c \in Seq(Half)
  BY ConcatType
<1>2. \A k \in 1 .. Len(a) : k \in 1 .. Len(c) /\ c[k] = a[k]
  BY ConcatParts
<1>3. \A k \in 1 .. Len(b) : Len(a) + k \in 1 .. Len(c) /\ c[Len(a) + k] = b[k]
  BY ConcatParts
<1>4. \A i \in 1 .. Len(c) : i > Len(a) => \E k \in 1 .. Len(b) : i = Len(a) + k
  BY ConcatParts
<1>5. \A i \in 1 .. Len(c) : ~(i > Len(a)) => i \in 1 .. Len(a)
  OBVIOUS
<1>. HIDE DEF c
<1>6. ASSUME NEW f \in FramesIn(c) PROVE f \in FramesIn(a) \cup FramesIn(b)
  <2>1. PICK i \in 1 .. Len(c) : c[i].last /\ c[i].frame = f
    BY <1>1, FramesInIs
  <2>2. CASE i > Len(a)
    <3>1. PICK k \in 1 .. Len(b) : i = Len(a) + k
      BY <1>4, <2>2
    <3>2. b[k].last /\ b[k].frame = f
      BY <1>3, <2>1, <3>1
    <3>. QED  BY <3>2, FramesInIs
  <2>3. CASE ~(i > Len(a))
    <3>1. i \in 1 .. Len(a)
      BY <1>5, <2>3
    <3>2. a[i].last /\ a[i].frame = f
      BY <1>2, <2>1, <3>1
    <3>. QED  BY <3>1, <3>2, FramesInIs
  <2>. QED  BY <2>2, <2>3
<1>7. ASSUME NEW f \in FramesIn(a) PROVE f \in FramesIn(c)
  <2>1. PICK i \in 1 .. Len(a) : a[i].last /\ a[i].frame = f
    BY FramesInIs
  <2>2. i \in 1 .. Len(c) /\ c[i].last /\ c[i].frame = f
    BY <1>2, <2>1
  <2>. QED  BY <1>1, <2>2, FramesInIs
<1>8. ASSUME NEW f \in FramesIn(b) PROVE f \in FramesIn(c)
  <2>1. PICK i \in 1 .. Len(b) : b[i].last /\ b[i].frame = f
    BY FramesInIs
  <2>2. Len(a) + i \in 1 .. Len(c) /\ c[Len(a) + i].last /\ c[Len(a) + i].frame = f
    BY <1>3, <2>1
  <2>. QED  BY <1>1, <2>2, FramesInIs
<1>9. FramesIn(c) = FramesIn(a) \cup FramesIn(b)
  BY <1>6, <1>7, <1>8
<1>. QED  BY <1>9 DEF c

(* Two sequences are in order together if each is and the first is before  *)
(* the second.                                                             *)
LEMMA AscendsParts ==
  ASSUME NEW a \in Seq(Half), NEW b \in Seq(Half)
  PROVE  Ascends(a \o b) <=> Ascends(a) /\ Ascends(b) /\ Before(a, b)
<1>. DEFINE c == a \o b
<1>0. PICK m \in Nat, n \in Nat : m = Len(a) /\ n = Len(b)
  OBVIOUS
<1>1. c \in Seq(Half) /\ Len(c) = m + n
  BY <1>0, ConcatType
<1>2. \A k \in 1 .. m : k \in 1 .. m + n /\ c[k] = a[k]
  BY <1>0, <1>1, ConcatParts
<1>3. \A k \in 1 .. n : m + k \in 1 .. m + n /\ c[m + k] = b[k]
  BY <1>0, <1>1, ConcatParts
<1>4. \A i \in 1 .. m + n : i > m => \E k \in 1 .. n : i = m + k
  BY <1>0, <1>1, ConcatParts
<1>5. \A i \in 1 .. m + n : ~(i > m) => i \in 1 .. m
  OBVIOUS
<1>. HIDE DEF c
<1>6. Ascends(c) <=> \A i, j \in 1 .. m + n : i < j /\ c[i].last /\ c[j].last => c[i].frame < c[j].frame
  BY <1>1, AscendsIs
<1>7. Ascends(a) <=> \A i, j \in 1 .. m : i < j /\ a[i].last /\ a[j].last => a[i].frame < a[j].frame
  BY <1>0, AscendsIs
<1>8. Ascends(b) <=> \A i, j \in 1 .. n : i < j /\ b[i].last /\ b[j].last => b[i].frame < b[j].frame
  BY <1>0, AscendsIs
<1>9. Before(a, b) <=> \A i \in 1 .. m, j \in 1 .. n : a[i].last /\ b[j].last => a[i].frame < b[j].frame
  <2>1. \A f : f \in FramesIn(a) <=> \E i \in 1 .. m : a[i].last /\ a[i].frame = f
    BY <1>0, FramesInIs
  <2>2. \A f : f \in FramesIn(b) <=> \E i \in 1 .. n : b[i].last /\ b[i].frame = f
    BY <1>0, FramesInIs
  <2>3. Before(a, b) <=> \A f \in FramesIn(a), g \in FramesIn(b) : f < g
    BY DEF Before
  <2>4. ASSUME Before(a, b), NEW i \in 1 .. m, NEW j \in 1 .. n, a[i].last, b[j].last
        PROVE  a[i].frame < b[j].frame
    <3>1. a[i].frame \in FramesIn(a) /\ b[j].frame \in FramesIn(b)
      BY <2>1, <2>2, <2>4
    <3>. QED  BY <2>3, <2>4, <3>1
  <2>5. ASSUME \A i \in 1 .. m, j \in 1 .. n : a[i].last /\ b[j].last => a[i].frame < b[j].frame,
               NEW f \in FramesIn(a), NEW g \in FramesIn(b)
        PROVE  f < g
    <3>1. PICK i \in 1 .. m : a[i].last /\ a[i].frame = f
      BY <2>1
    <3>2. PICK j \in 1 .. n : b[j].last /\ b[j].frame = g
      BY <2>2
    <3>. QED  BY <2>5, <3>1, <3>2
  <2>. QED  BY <2>3, <2>4, <2>5
<1>10. \A i \in 1 .. m, j \in 1 .. n : i < m + j
  OBVIOUS
<1>11. \A i, j \in 1 .. n : i < j <=> m + i < m + j
  OBVIOUS
<1>12. ASSUME Ascends(c) PROVE Ascends(a) /\ Ascends(b) /\ Before(a, b)
  <2>1. Ascends(a)
    BY <1>2, <1>6, <1>7, <1>12
  <2>2. Ascends(b)
    <3>1. ASSUME NEW i \in 1 .. n, NEW j \in 1 .. n, i < j, b[i].last, b[j].last PROVE b[i].frame < b[j].frame
      <4>1. c[m + i].frame < c[m + j].frame
        BY <1>3, <1>6, <1>11, <1>12, <3>1
      <4>. QED  BY <1>3, <4>1
    <3>. QED  BY <1>8, <3>1
  <2>3. Before(a, b)
    <3>1. ASSUME NEW i \in 1 .. m, NEW j \in 1 .. n, a[i].last, b[j].last PROVE a[i].frame < b[j].frame
      <4>1. c[i].frame < c[m + j].frame
        BY <1>2, <1>3, <1>6, <1>10, <1>12, <3>1
      <4>. QED  BY <1>2, <1>3, <4>1
    <3>. QED  BY <1>9, <3>1
  <2>. QED  BY <2>1, <2>2, <2>3
<1>13. ASSUME Ascends(a), Ascends(b), Before(a, b) PROVE Ascends(c)
  <2>1. ASSUME NEW i \in 1 .. m + n, NEW j \in 1 .. m + n, i < j, c[i].last, c[j].last
        PROVE  c[i].frame < c[j].frame
    <3>1. CASE ~(j > m)
      <4>1. i \in 1 .. m /\ j \in 1 .. m
        BY <2>1, <3>1
      <4>. QED  BY <1>2, <1>7, <1>13, <2>1, <4>1
    <3>2. CASE j > m /\ ~(i > m)
      <4>1. PICK l \in 1 .. n : j = m + l
        BY <1>4, <3>2
      <4>2. i \in 1 .. m
        BY <1>5, <3>2
      <4>. QED  BY <1>2, <1>3, <1>9, <1>13, <2>1, <4>1, <4>2
    <3>3. CASE i > m
      <4>0. j > m
        BY <2>1, <3>3
      <4>1. PICK k \in 1 .. n : i = m + k
        BY <1>4, <3>3
      <4>2. PICK l \in 1 .. n : j = m + l
        BY <1>4, <4>0
      <4>3. k < l
        BY <1>11, <2>1, <4>1, <4>2
      <4>4. b[k].last /\ b[l].last /\ c[i] = b[k] /\ c[j] = b[l]
        BY <1>3, <2>1, <4>1, <4>2
      <4>5. b[k].frame < b[l].frame
        BY <1>8, <1>13, <4>3, <4>4
      <4>. QED  BY <4>4, <4>5
    <3>. QED  BY <3>1, <3>2, <3>3
  <2>. QED  BY <1>6, <2>1
<1>. QED  BY <1>12, <1>13 DEF c

(* The frames of a sequence of them, one half after the other. *)
LEMMA FramesOfHalves ==
  ASSUME NEW b \in Seq(Frame)
  PROVE  FramesIn(InHalves(b)) = ToSet(b)
<1>. DEFINE h == InHalves(b)
<1>1. PICK n \in Nat : n = Len(b)
  OBVIOUS
<1>2. h \in Seq(Half) /\ Len(h) = 2 * n
  BY <1>1, InHalvesIs
<1>3. \A k \in 1 .. n : 2 * k \in 1 .. 2 * n /\ h[2 * k] = Second(b[k]) /\ h[2 * k - 1] = First(b[k])
  BY <1>1, InHalvesIs
<1>4. \A i \in 1 .. 2 * n : \E k \in 1 .. n : i = 2 * k \/ i = 2 * k - 1
  BY <1>1, InHalvesIs
<1>. HIDE DEF h
<1>5. \A f : First(f).last = FALSE /\ Second(f).last = TRUE /\ Second(f).frame = f
  BY DEF First, Second
<1>6. \A f : f \in ToSet(b) <=> \E k \in 1 .. n : b[k] = f
  <2>1. DOMAIN b = 1 .. n
    BY <1>1
  <2>. QED  BY <2>1 DEF ToSet
<1>7. ASSUME NEW f \in FramesIn(h) PROVE f \in ToSet(b)
  <2>1. PICK i \in 1 .. 2 * n : h[i].last /\ h[i].frame = f
    BY <1>2, FramesInIs
  <2>2. PICK k \in 1 .. n : i = 2 * k \/ i = 2 * k - 1
    BY <1>4
  <2>3. b[k] = f
    BY <1>3, <1>5, <2>1, <2>2, Zenon
  <2>. QED  BY <1>6, <2>3
<1>8. ASSUME NEW f \in ToSet(b) PROVE f \in FramesIn(h)
  <2>1. PICK k \in 1 .. n : b[k] = f
    BY <1>6
  <2>2. 2 * k \in 1 .. 2 * n /\ h[2 * k].last /\ h[2 * k].frame = f
    BY <1>3, <1>5, <2>1
  <2>. QED  BY <1>2, <2>2, FramesInIs
<1>9. FramesIn(h) = ToSet(b)
  BY <1>7, <1>8
<1>. QED  BY <1>9 DEF h

(* One frame is whole JSON lines, and in order. *)
LEMMA HalvesInOrder ==
  ASSUME NEW f \in Frame
  PROVE  FramesIn(Halves(f)) = {f} /\ Ascends(Halves(f)) /\ IsJson(Halves(f)) /\ IsWhole(Halves(f))
<1>1. <<f>> \in Seq(Frame) /\ ToSet(<<f>>) = {f}
  BY DEF ToSet
<1>2. Halves(f) = InHalves(<<f>>)
  BY DEF Halves
<1>3. /\ Halves(f) \in Seq(Half) /\ Len(Halves(f)) = 2
      /\ Halves(f)[1] = First(f) /\ First(f).last = FALSE
  BY HalvesAre DEF First
<1>4. \A i, j \in 1 .. 2 : i < j => i = 1
  OBVIOUS
<1>5. Ascends(Halves(f))
  BY <1>3, <1>4, AscendsIs
<1>. QED  BY <1>1, <1>2, <1>5, FramesOfHalves, InHalvesFit

-----------------------------------------------------------------------------
(* What a chunk leaves. *)
LEMMA EndOfLinesIs ==
  ASSUME NEW s \in Seq(Half)
  PROVE  /\ EndOfLines(s) \in 0 .. Len(s)
         /\ EndOfLines(s) = 0 \/ s[EndOfLines(s)].last
         /\ \A i \in 1 .. Len(s) : s[i].last => i <= EndOfLines(s)
<1>1. PICK n \in Nat : n = Len(s)
  OBVIOUS
<1>. DEFINE E == {0} \cup {i \in DOMAIN s : s[i].last}
            D == {k \in 0 .. n : n - k \in E}
<1>2. DOMAIN s = 1 .. n
  BY <1>1
<1>3. 0 \in E /\ \A i \in E : i \in 0 .. n /\ (i = 0 \/ s[i].last)
  BY <1>2
<1>4. \A i \in 1 .. n : s[i].last => i \in E
  BY <1>2
<1>5. EndOfLines(s) = Max(E)
  BY DEF EndOfLines
<1>. HIDE DEF E
<1>6. PICK k \in D : \A j \in D : k <= j
  <2>1. D \in SUBSET Nat
    OBVIOUS
  <2>2. n \in D
    <3>1. n - n = 0 /\ n \in 0 .. n
      OBVIOUS
    <3>. QED  BY <1>3, <3>1
  <2>. HIDE DEF D
  <2>. QED  BY <2>1, <2>2, Smallest
<1>7. ASSUME NEW i \in E PROVE i <= n - k
  <2>1. i \in 0 .. n
    BY <1>3
  <2>2. n - i \in 0 .. n /\ n - (n - i) = i
    BY <2>1
  <2>3. n - i \in D
    BY <2>2
  <2>4. k <= n - i /\ k \in 0 .. n
    BY <1>6, <2>3
  <2>. QED  BY <2>1, <2>4
<1>8. n - k \in E
  OBVIOUS
<1>9. \E x \in E : \A y \in E : y <= x
  BY <1>7, <1>8
<1>10. Max(E) \in E /\ \A y \in E : y <= Max(E)
  BY <1>9 DEF Max
<1>. QED  BY <1>1, <1>3, <1>4, <1>5, <1>10

(* The lines that have ended are whole, and what follows them is theirs    *)
(* no more: partial \o bytes is the same before and after.                *)
LEMMA ReadSplits ==
  ASSUME NEW p \in Seq(Half), NEW b \in Seq(Half), NEW n \in 1 .. Len(b)
  PROVE  LET str == p \o SubSeq(b, 1, n)
             lines == SubSeq(str, 1, EndOfLines(str))
             p2 == SubSeq(str, Len(lines) + 1, Len(str))
             b2 == SubSeq(b, n + 1, Len(b))
         IN  /\ lines \in Seq(Half) /\ p2 \in Seq(Half) /\ b2 \in Seq(Half)
             /\ p \o b = lines \o (p2 \o b2)
             /\ IsWhole(lines)
             /\ \A i \in DOMAIN p2 : ~p2[i].last
<1>. DEFINE b1 == SubSeq(b, 1, n)
            b2 == SubSeq(b, n + 1, Len(b))
            str == p \o b1
            e == EndOfLines(str)
            lines == SubSeq(str, 1, e)
            p2 == SubSeq(str, Len(lines) + 1, Len(str))
<1>1. b1 \in Seq(Half) /\ b2 \in Seq(Half) /\ b = b1 \o b2
  <2>1. n \in 0 .. Len(b)
    OBVIOUS
  <2>. QED  BY <2>1, Split
<1>. HIDE DEF b1, b2
<1>2. str \in Seq(Half)
  BY <1>1, ConcatType
<1>3. str = p \o b1
  OBVIOUS
<1>. HIDE DEF str
<1>4. PICK l \in Nat : l = Len(str)
  BY <1>2
<1>5. /\ e \in 0 .. l /\ (e = 0 \/ str[e].last)
      /\ \A i \in 1 .. l : str[i].last => i <= e
  BY <1>2, <1>4, EndOfLinesIs
<1>. HIDE DEF e
<1>6. /\ lines \in Seq(Half) /\ p2 \in Seq(Half) /\ Len(lines) = e /\ Len(p2) = l - e
      /\ \A k \in 1 .. e : lines[k] = str[k]
      /\ \A k \in 1 .. l - e : p2[k] = str[e + k]
      /\ str = lines \o p2
  <2>1. /\ SubSeq(str, 1, e) \in Seq(Half) /\ SubSeq(str, e + 1, Len(str)) \in Seq(Half)
        /\ Len(SubSeq(str, 1, e)) = e /\ Len(SubSeq(str, e + 1, Len(str))) = Len(str) - e
        /\ \A k \in 1 .. e : SubSeq(str, 1, e)[k] = str[k]
        /\ \A k \in 1 .. Len(str) - e : SubSeq(str, e + 1, Len(str))[k] = str[e + k]
        /\ str = SubSeq(str, 1, e) \o SubSeq(str, e + 1, Len(str))
    <3>1. e \in 0 .. Len(str)
      BY <1>4, <1>5
    <3>. QED  BY <1>2, <3>1, Split
  <2>2. lines = SubSeq(str, 1, e) /\ p2 = SubSeq(str, e + 1, Len(str))
    BY <2>1
  <2>. HIDE DEF lines, p2
  <2>. QED  BY <1>4, <2>1, <2>2, Zenon
<1>. HIDE DEF lines, p2
<1>7. p \o b = lines \o (p2 \o b2)
  <2>1. p \o (b1 \o b2) = (p \o b1) \o b2
    BY <1>1, ConcatTwice
  <2>2. lines \o (p2 \o b2) = (lines \o p2) \o b2
    <3>1. lines \in Seq(Half) /\ p2 \in Seq(Half) /\ b2 \in Seq(Half)
      BY <1>1, <1>6
    <3>. QED  BY <3>1, ConcatTwice, Zenon
  <2>. QED  BY <1>1, <1>3, <1>6, <2>1, <2>2, Zenon
<1>8. IsWhole(lines)
  <2>1. CASE e = 0
    BY <1>6, <2>1 DEF IsWhole
  <2>2. CASE e # 0
    <3>1. e \in 1 .. e
      BY <1>5, <2>2
    <3>. QED  BY <1>5, <1>6, <2>2, <3>1 DEF IsWhole
  <2>. QED  BY <2>1, <2>2
<1>9. ASSUME NEW i \in DOMAIN p2 PROVE ~p2[i].last
  <2>1. i \in 1 .. l - e
    BY <1>6
  <2>2. e + i \in 1 .. l /\ ~(e + i <= e)
    BY <1>5, <2>1
  <2>. QED  BY <1>5, <1>6, <2>1, <2>2
<1>10. /\ lines \in Seq(Half) /\ p2 \in Seq(Half) /\ b2 \in Seq(Half)
       /\ p \o b = lines \o (p2 \o b2) /\ IsWhole(lines) /\ \A i \in DOMAIN p2 : ~p2[i].last
  BY <1>1, <1>6, <1>7, <1>8, <1>9
<1>. QED  BY <1>10 DEF b1, b2, str, e, lines, p2

(* The head of what waits, and the rest. *)
LEMMA HeadAndTail ==
  ASSUME NEW S, NEW s \in Seq(S), s # << >>
  PROVE  Head(s) \in S /\ <<Head(s)>> \in Seq(S) /\ Tail(s) \in Seq(S) /\ s = <<Head(s)>> \o Tail(s)
  OBVIOUS

(* A sequence with one element more. *)
LEMMA AppendIs ==
  ASSUME NEW S, NEW s \in Seq(S), NEW e \in S
  PROVE  Append(s, e) = s \o <<e>> /\ Append(s, e) \in Seq(S) /\ <<e>> \in Seq(S) /\ Append(s, e) # << >>
  OBVIOUS

(* Nothing before a sequence, or after it. *)
LEMMA Nought ==
  ASSUME NEW S, NEW s \in Seq(S)
  PROVE  << >> \in Seq(S) /\ << >> \o s = s /\ s \o << >> = s
  OBVIOUS

-----------------------------------------------------------------------------
(* Rows of places. *)
LEMMA Places ==
  /\ MaxSockets \in Nat /\ 0 \in Place /\ MaxSockets + 1 \in Place /\ MaxSockets + 2 \in Place
  /\ Socket \subseteq Place /\ Place \subseteq Nat
  /\ \A k \in Place : k = 0 \/ k \in Socket \/ k = MaxSockets + 1 \/ k = MaxSockets + 2
  /\ 0 \notin Socket /\ MaxSockets + 1 \notin Socket /\ MaxSockets + 2 \notin Socket
  /\ \A s \in Socket : 0 < s /\ s < MaxSockets + 1 /\ s < MaxSockets + 2
<1>1. MaxSockets \in Nat
  BY SizeAssumption DEF MaxSockets
<1>. QED  BY <1>1 DEF Place, Socket

(* What is at each place of a row. *)
LEMMA LaidIs ==
  ASSUME NEW h, NEW y, NEW p, NEW b
  PROVE  /\ Laid(h, y, p, b)[0] = InHalves(h)
         /\ \A s \in Socket : Laid(h, y, p, b)[s] = y[s].bytes
         /\ Laid(h, y, p, b)[MaxSockets + 1] = p
         /\ Laid(h, y, p, b)[MaxSockets + 2] = InHalves(b)
<1>1. MaxSockets + 1 # 0 /\ MaxSockets + 2 # 0 /\ MaxSockets + 2 # MaxSockets + 1
  BY Places
<1>. QED  BY <1>1, Places DEF Laid

(* A row is made of halves. *)
LEMMA LaidType ==
  ASSUME NEW h \in Seq(Frame), NEW y, \A s \in Socket : y[s].bytes \in Seq(Half), NEW p \in Seq(Half),
         NEW b \in Seq(Frame)
  PROVE  Laid(h, y, p, b) \in [Place -> Seq(Half)]
<1>1. InHalves(h) \in Seq(Half) /\ InHalves(b) \in Seq(Half)
  BY InHalvesIs
<1>. QED  BY <1>1 DEF Laid

(* The frames of a row are those of its places. *)
LEMMA AllIs ==
  ASSUME NEW R
  PROVE  \A f : f \in AllOf(R) <=> \E k \in Place : f \in FramesIn(R[k])
  BY DEF AllOf

IsRow(R) == R \in [Place -> Seq(Half)]
Emptied(R, Q, L, M) ==
  /\ L \subseteq M /\ M \subseteq L \cup AllOf(R)
  /\ \A k \in Place : Q[k] = R[k] \/ (Q[k] = << >> /\ FramesIn(R[k]) \subseteq M)

(* Some places are emptied, and what was there is lost. *)
LEMMA FewerFrames ==
  ASSUME NEW R, NEW Q, IsRow(R), IsRow(Q), InOrder(R), NEW L, NEW M, Emptied(R, Q, L, M)
  PROVE  InOrder(Q) /\ AllOf(Q) \cup M = AllOf(R) \cup L
<1>. USE DEF IsRow, Emptied
<1>1. \A k \in Place : Ascends(Q[k]) /\ FramesIn(Q[k]) \subseteq FramesIn(R[k])
  BY Nothing DEF InOrder
<1>2. \A k, l \in Place : k < l => Before(Q[k], Q[l])
  BY <1>1 DEF InOrder, Before
<1>3. \A f : f \in AllOf(Q) => f \in AllOf(R)
  BY <1>1, AllIs
<1>4. ASSUME NEW f \in AllOf(R) PROVE f \in AllOf(Q) \cup M
  <2>1. PICK k \in Place : f \in FramesIn(R[k])
    BY AllIs
  <2>2. CASE Q[k] = R[k]
    <3>1. f \in AllOf(Q)
      BY <2>1, <2>2, AllIs
    <3>. QED  BY <3>1
  <2>. QED  BY <2>1, <2>2
<1>5. AllOf(Q) \cup M = AllOf(R) \cup L
  BY <1>3, <1>4
<1>. QED  BY <1>1, <1>2, <1>5 DEF InOrder

Both(x, y) == FramesIn(x) \cup FramesIn(y)
NoneBetween(R, a, b) == \A c \in Place : a < c /\ c < b => R[c] = << >>
SameElsewhere(R, Q, a, b) == \A c \in Place : c # a /\ c # b => Q[c] = R[c]

(* Frames move between two places with nothing between them. *)
LEMMA MovesOn ==
  ASSUME NEW R \in [Place -> Seq(Half)], NEW Q \in [Place -> Seq(Half)], InOrder(R),
         NEW a \in Place, NEW b \in Place, a < b, NoneBetween(R, a, b), SameElsewhere(R, Q, a, b),
         Both(Q[a], Q[b]) = Both(R[a], R[b]),
         Ascends(Q[a]), Ascends(Q[b]), Before(Q[a], Q[b])
  PROVE  InOrder(Q) /\ AllOf(Q) = AllOf(R)
<1>. USE DEF Both, NoneBetween, SameElsewhere
<1>0. Ascends(Q[a]) /\ Ascends(Q[b]) /\ Before(Q[a], Q[b])
  OBVIOUS
<1>1. \A k \in Place : Ascends(Q[k])
  BY <1>0 DEF InOrder
<1>2. \A k \in Place : k \in Nat
  BY Places
<1>3. \A k, l \in Place : k < l => \A f \in FramesIn(R[k]), g \in FramesIn(R[l]) : f < g
  BY DEF InOrder, Before
<1>4. \A k \in Place : a < k /\ k < b => FramesIn(R[k]) = {}
  BY Nothing
<1>5. ASSUME NEW k \in Place, NEW l \in Place, k < l, NEW f \in FramesIn(Q[k]), NEW g \in FramesIn(Q[l])
      PROVE  f < g
  <2>1. CASE k \notin {a, b} /\ l \notin {a, b}
    BY <1>3, <1>5, <2>1
  <2>2. CASE k \in {a, b} /\ l \notin {a, b}
    <3>1. f \in FramesIn(R[a]) \/ f \in FramesIn(R[b])
      BY <1>5, <2>2
    <3>2. Q[l] = R[l]
      BY <2>2
    <3>3. a < l /\ ~(l < b) /\ b < l
      <4>1. a < l
        BY <1>2, <1>5, <2>2
      <4>2. ~(l < b)
        BY <1>4, <1>5, <3>2, <4>1
      <4>. QED  BY <1>2, <2>2, <4>1, <4>2
    <3>. QED  BY <1>3, <1>5, <3>1, <3>2, <3>3
  <2>3. CASE k \notin {a, b} /\ l \in {a, b}
    <3>1. g \in FramesIn(R[a]) \/ g \in FramesIn(R[b])
      BY <1>5, <2>3
    <3>2. Q[k] = R[k]
      BY <2>3
    <3>3. k < b /\ ~(a < k) /\ k < a
      <4>1. k < b
        BY <1>2, <1>5, <2>3
      <4>2. ~(a < k)
        BY <1>4, <1>5, <3>2, <4>1
      <4>. QED  BY <1>2, <2>3, <4>1, <4>2
    <3>. QED  BY <1>3, <1>5, <3>1, <3>2, <3>3
  <2>4. CASE k \in {a, b} /\ l \in {a, b}
    <3>1. k = a /\ l = b
      BY <1>2, <1>5, <2>4
    <3>. QED  BY <1>0, <1>5, <3>1 DEF Before
  <2>. QED  BY <2>1, <2>2, <2>3, <2>4
<1>6. InOrder(Q)
  BY <1>1, <1>5 DEF InOrder, Before
<1>7. ASSUME NEW f PROVE f \in AllOf(Q) <=> f \in AllOf(R)
  <2>1. (\E k \in Place : k # a /\ k # b /\ f \in FramesIn(Q[k]))
        <=> (\E k \in Place : k # a /\ k # b /\ f \in FramesIn(R[k]))
    OBVIOUS
  <2>2. f \in FramesIn(Q[a]) \/ f \in FramesIn(Q[b]) <=> f \in FramesIn(R[a]) \/ f \in FramesIn(R[b])
    OBVIOUS
  <2>3. \A k \in Place : k = a \/ k = b \/ (k # a /\ k # b)
    OBVIOUS
  <2>4. f \in AllOf(Q) <=> f \in FramesIn(Q[a]) \/ f \in FramesIn(Q[b])
                           \/ \E k \in Place : k # a /\ k # b /\ f \in FramesIn(Q[k])
    BY AllIs
  <2>5. f \in AllOf(R) <=> f \in FramesIn(R[a]) \/ f \in FramesIn(R[b])
                           \/ \E k \in Place : k # a /\ k # b /\ f \in FramesIn(R[k])
    BY AllIs
  <2>. QED  BY <2>1, <2>2, <2>4, <2>5
<1>. QED  BY <1>6, <1>7

Grows(R, Q, L, M, n) == AllOf(Q) \cup M = AllOf(R) \cup L \cup {n}
AllBelow(R, n) == \A f \in AllOf(R) : f < n
SameBut(R, Q, p) == \A c \in Place : c # p => Q[c] = R[c]
EndsAt(Q, p) == \A c \in Place : p < c => Q[c] = << >>
Gains(R, Q, p, n, L, M) ==
  /\ Ascends(Q[p]) /\ L \subseteq M /\ FramesIn(Q[p]) \subseteq FramesIn(R[p]) \cup {n}
  /\ FramesIn(Q[p]) \cup M = FramesIn(R[p]) \cup L \cup {n}

(* A frame that is new comes last. *)
LEMMA OneMore ==
  ASSUME NEW R, NEW Q, IsRow(R), IsRow(Q), InOrder(R),
         NEW p \in Place, NEW n, NEW L, NEW M, AllBelow(R, n),
         SameBut(R, Q, p), EndsAt(Q, p), Gains(R, Q, p, n, L, M)
  PROVE  InOrder(Q) /\ Grows(R, Q, L, M, n)
<1>. USE DEF IsRow, Grows, AllBelow, SameBut, EndsAt, Gains
<1>1. \A k \in Place : Ascends(Q[k])
  BY DEF InOrder
<1>2. \A k \in Place : k \in Nat
  BY Places
<1>3. \A k, l \in Place : k < l => \A f \in FramesIn(R[k]), g \in FramesIn(R[l]) : f < g
  BY DEF InOrder, Before
<1>4. \A k \in Place : p < k => FramesIn(Q[k]) = {}
  BY Nothing
<1>5. ASSUME NEW k \in Place, NEW l \in Place, k < l, NEW f \in FramesIn(Q[k]), NEW g \in FramesIn(Q[l])
      PROVE  f < g
  <2>1. ~(p < l)
    BY <1>4, <1>5
  <2>2. k # p
    BY <1>2, <1>5, <2>1
  <2>3. f \in FramesIn(R[k]) /\ f \in AllOf(R)
    BY <1>5, <2>2, AllIs
  <2>4. g \in FramesIn(R[l]) \/ g = n
    <3>1. CASE l = p
      BY <1>5, <3>1
    <3>2. CASE l # p
      BY <1>5, <3>2
    <3>. QED  BY <3>1, <3>2
  <2>. QED  BY <1>3, <1>5, <2>3, <2>4
<1>6. InOrder(Q)
  BY <1>1, <1>5 DEF InOrder, Before
<1>7. ASSUME NEW f PROVE f \in AllOf(Q) \cup M <=> f \in AllOf(R) \cup L \cup {n}
  <2>1. (\E k \in Place : k # p /\ f \in FramesIn(Q[k])) <=> (\E k \in Place : k # p /\ f \in FramesIn(R[k]))
    OBVIOUS
  <2>2. f \in FramesIn(Q[p]) \/ f \in M <=> f \in FramesIn(R[p]) \/ f \in L \/ f = n
    OBVIOUS
  <2>4. f \in AllOf(Q) <=> f \in FramesIn(Q[p]) \/ \E k \in Place : k # p /\ f \in FramesIn(Q[k])
    BY AllIs
  <2>5. f \in AllOf(R) <=> f \in FramesIn(R[p]) \/ \E k \in Place : k # p /\ f \in FramesIn(R[k])
    BY AllIs
  <2>6. f \in AllOf(Q) \cup M <=> f \in AllOf(Q) \/ f \in M
    OBVIOUS
  <2>7. f \in AllOf(R) \cup L \cup {n} <=> f \in AllOf(R) \/ f \in L \/ f = n
    OBVIOUS
  <2>. QED  BY <2>1, <2>2, <2>4, <2>5, <2>6, <2>7, Zenon
<1>. QED  BY <1>6, <1>7

-----------------------------------------------------------------------------
(* The types and the control. *)
LEMMA InitProcess == Init => ProcessOK
  BY DEF Init, ProcessOK

(* Every step keeps process, read loop and connection in step: a reader    *)
(* exists only in a running process, only a reader has a connection, and   *)
(* bytes pend only for a connection.                                       *)
LEMMA ProcessStep == SocketInv /\ ProcessOK /\ [Next]_vars => ProcessOK'
<1>. SUFFICES ASSUME SocketInv, ProcessOK, [Next]_vars PROVE ProcessOK'
  OBVIOUS
<1>1. CASE StartProxy
  BY <1>1 DEF StartProxy, Spawn, ProcessOK
<1>2. CASE ExitEvent
  BY <1>2 DEF ExitEvent, ProcessOK, goClient
<1>3. CASE Restart
  BY <1>3 DEF Restart, Spawn, ProcessOK, os
<1>4. CASE Close
  BY <1>4 DEF Close, ProcessOK, goClient
<1>5. CASE Crash \/ Terminate
  BY <1>5 DEF Crash, Terminate, Leaves, ProcessOK, manager
<1>6. CASE Dial
  <2>1. Fresh # {} /\ Fresh \in SUBSET Nat /\ Fresh \subseteq Socket /\ conn' = Min(Fresh)
    BY <1>6, SocketsAreNumbers DEF Dial, Fresh
  <2>2. conn' \in Socket
    BY <2>1, Smallest
  <2>3. conn' # 0
    BY <2>2, SocketsAreNumbers
  <2>. QED  BY <1>6, <2>3 DEF Dial, ProcessOK, manager, os
<1>7. CASE Send
  BY <1>7 DEF Send, ProcessOK, manager, os
<1>8. CASE WriteHalf
  BY <1>8 DEF WriteHalf, ProcessOK, manager, os
<1>9. CASE ReadLoopEnds
  <2>1. process = "runs" /\ spawned # 0 /\ ~timer
    BY <1>9 DEF ReadLoopEnds, ProcessOK
  <2>. QED  BY <1>9, <2>1 DEF ReadLoopEnds, ProcessOK, manager, os
<1>10. CASE \E s \in Socket : Collected(s) \/ Accept(s) \/ Read(s) \/ SocketEnds(s)
  BY <1>10 DEF Collected, Accept, Read, SocketEnds, ProcessOK, manager, os, goClient
<1>11. CASE UNCHANGED vars
  BY <1>11 DEF vars, ProcessOK, manager, os, goClient
<1>. QED  BY <1>1, <1>2, <1>3, <1>4, <1>5, <1>6, <1>7, <1>8, <1>9, <1>10, <1>11 DEF Next

-----------------------------------------------------------------------------
(* What each step does to the sockets. *)
Same(t) == /\ sock'[t].client = sock[t].client /\ sock'[t].server = sock[t].server
           /\ sock'[t].bytes = sock[t].bytes

(* The socket dialed is new, and the last. *)
LEMMA DialIs ==
  ASSUME SocketInv, Dial
  PROVE  /\ conn' \in Socket /\ ~Used(conn') /\ \A t \in Socket : conn' < t => ~Used(t)
         /\ \A t \in Socket : t # conn' => Same(t)
         /\ sock'[conn'].client = "open" /\ sock'[conn'].server = "backlog" /\ sock'[conn'].bytes = << >>
<1>. DEFINE r == [client |-> "open", server |-> "backlog", bytes |-> << >>]
<1>1. PICK s : s = Min(Fresh)
  OBVIOUS
<1>2. s \in Socket /\ ~Used(s)
  <2>1. Fresh # {} /\ Fresh \subseteq Socket /\ Fresh \in SUBSET Nat
    BY SocketsAreNumbers DEF Dial, Fresh
  <2>2. s \in Fresh
    BY <1>1, <2>1, Smallest
  <2>. QED  BY <2>1, <2>2 DEF Fresh, Used
<1>3. conn' = s /\ sock' = [sock EXCEPT ![s] = r]
  BY <1>1 DEF Dial
<1>4. \A t \in Socket : sock'[t] = IF t = s THEN r ELSE sock[t]
  BY <1>3 DEF SocketInv, SocketsOK
<1>. QED  BY <1>2, <1>3, <1>4 DEF Same, SocketInv, DialedInOrder

(* The sockets of a process that ends close. *)
LEMMA LeavesIs ==
  ASSUME SocketInv, Leaves
  PROVE  \A t \in Socket : /\ sock'[t].server = sock[t].server /\ sock'[t].bytes = sock[t].bytes
                           /\ sock'[t].client = IF sock[t].client = "open" THEN "closed" ELSE sock[t].client
<1>. SUFFICES ASSUME NEW t \in Socket
              PROVE  /\ sock'[t].server = sock[t].server /\ sock'[t].bytes = sock[t].bytes
                     /\ sock'[t].client = IF sock[t].client = "open" THEN "closed" ELSE sock[t].client
  OBVIOUS
<1>1. sock'[t] = IF sock[t].client = "open" THEN [sock[t] EXCEPT !.client = "closed"] ELSE sock[t]
  BY DEF Leaves
<1>2. sock[t] = [client |-> sock[t].client, server |-> sock[t].server, bytes |-> sock[t].bytes]
  BY DEF SocketInv, SocketsOK, SocketOK
<1>. QED  BY <1>1, <1>2

(* A half is written. *)
LEMMA WriteIs ==
  ASSUME SocketInv, WriteHalf, conn \in Socket, sock[conn].server # "gone"
  PROVE  /\ \A t \in Socket : t # conn => Same(t)
         /\ sock'[conn].client = sock[conn].client /\ sock'[conn].server = sock[conn].server
         /\ sock'[conn].bytes = Append(sock[conn].bytes, Head(pending))
<1>1. PICK b : b = Append(sock[conn].bytes, Head(pending))
  OBVIOUS
<1>2. sock' = [sock EXCEPT ![conn] = [sock[conn] EXCEPT !.bytes = b]]
  BY <1>1 DEF WriteHalf
<1>3. sock[conn] = [client |-> sock[conn].client, server |-> sock[conn].server, bytes |-> sock[conn].bytes]
  BY DEF SocketInv, SocketsOK, SocketOK
<1>4. \A t \in Socket : sock'[t] = IF t = conn THEN [sock[conn] EXCEPT !.bytes = b] ELSE sock[t]
  BY <1>2 DEF SocketInv, SocketsOK
<1>. QED  BY <1>1, <1>3, <1>4 DEF Same

(* A socket is collected. *)
LEMMA CollectedIs ==
  ASSUME SocketInv, NEW s \in Socket, Collected(s)
  PROVE  \A t \in Socket : /\ sock'[t].server = sock[t].server /\ sock'[t].bytes = sock[t].bytes
                           /\ sock'[t].client = IF t = s THEN "closed" ELSE sock[t].client
<1>1. sock[s] = [client |-> sock[s].client, server |-> sock[s].server, bytes |-> sock[s].bytes]
  BY DEF SocketInv, SocketsOK, SocketOK
<1>2. \A t \in Socket : sock'[t] = IF t = s THEN [sock[s] EXCEPT !.client = "closed"] ELSE sock[t]
  BY DEF SocketInv, SocketsOK, Collected
<1>. QED  BY <1>1, <1>2

(* The first socket that waits is accepted. *)
LEMMA AcceptIs ==
  ASSUME SocketInv, NEW s \in Socket, Accept(s)
  PROVE  /\ sock[s].server = "backlog" /\ \A t \in Socket : sock[t].server = "backlog" => s <= t
         /\ \A t \in Socket : /\ sock'[t].client = sock[t].client /\ sock'[t].bytes = sock[t].bytes
                              /\ sock'[t].server = IF t = s THEN "live" ELSE sock[t].server
<1>1. sock[s].server = "backlog" /\ \A t \in Socket : sock[t].server = "backlog" => s <= t
  <2>. DEFINE B == {t \in Socket : sock[t].server = "backlog"}
  <2>1. B \cup {MaxSockets + 1} \in SUBSET Nat /\ B \cup {MaxSockets + 1} # {} /\ MaxSockets + 1 \notin Socket
    BY SocketsAreNumbers DEF Socket
  <2>2. s = Min(B \cup {MaxSockets + 1})
    BY DEF Accept
  <2>. HIDE DEF B
  <2>3. s \in B \cup {MaxSockets + 1} /\ \A t \in B \cup {MaxSockets + 1} : s <= t
    BY <2>1, <2>2, Smallest
  <2>. QED  BY <2>1, <2>3 DEF B
<1>2. sock[s] = [client |-> sock[s].client, server |-> sock[s].server, bytes |-> sock[s].bytes]
  BY DEF SocketInv, SocketsOK, SocketOK
<1>3. \A t \in Socket : sock'[t] = IF t = s THEN [sock[s] EXCEPT !.server = "live"] ELSE sock[t]
  BY DEF SocketInv, SocketsOK, Accept
<1>4. \A t \in Socket : /\ sock'[t].client = sock[t].client /\ sock'[t].bytes = sock[t].bytes
                        /\ sock'[t].server = IF t = s THEN "live" ELSE sock[t].server
  BY <1>2, <1>3
<1>. QED  BY <1>1, <1>4

(* A chunk whose lines are JSON. *)
LEMMA ReadIs ==
  ASSUME SocketInv, NEW s \in Socket, NEW b,
         sock' = [sock EXCEPT ![s].bytes = b]
  PROVE  /\ \A t \in Socket : t # s => Same(t)
         /\ sock'[s].client = sock[s].client /\ sock'[s].server = sock[s].server /\ sock'[s].bytes = b
<1>1. sock[s] = [client |-> sock[s].client, server |-> sock[s].server, bytes |-> sock[s].bytes]
  BY DEF SocketInv, SocketsOK, SocketOK
<1>2. \A t \in Socket : sock'[t] = IF t = s THEN [sock[s] EXCEPT !.bytes = b] ELSE sock[t]
  BY DEF SocketInv, SocketsOK
<1>. QED  BY <1>1, <1>2 DEF Same

(* A socket ends. *)
LEMMA EndsIs ==
  ASSUME SocketInv, NEW s \in Socket, SocketEnds(s)
  PROVE  /\ s # conn /\ \A t \in Socket : t # s => Same(t)
         /\ sock'[s].client = "closed" /\ sock'[s].server = "gone" /\ sock'[s].bytes = << >>
<1>1. sock' = [sock EXCEPT ![s].server = "gone", ![s].bytes = << >>] /\ sock[s].client = "closed"
  BY DEF SocketEnds
<1>2. s # conn
  BY <1>1, SocketsAreNumbers DEF SocketInv, ConnIsTheLast
<1>3. sock[s] = [client |-> sock[s].client, server |-> sock[s].server, bytes |-> sock[s].bytes]
  BY DEF SocketInv, SocketsOK, SocketOK
<1>4. \A t \in Socket : sock'[t] = IF t = s THEN [sock[s] EXCEPT !.server = "gone", !.bytes = << >>] ELSE sock[t]
  BY <1>1 DEF SocketInv, SocketsOK
<1>5. sock'[s] = [client |-> "closed", server |-> "gone", bytes |-> << >>]
  BY <1>1, <1>3, <1>4
<1>6. sock'[s].client = "closed" /\ sock'[s].server = "gone" /\ sock'[s].bytes = << >>
  BY <1>5
<1>7. \A t \in Socket : t # s => Same(t)
  BY <1>4 DEF Same
<1>. QED  BY <1>2, <1>6, <1>7

(* The frames of halves. *)
LEMMA FramesType == ASSUME NEW s \in Seq(Half) PROVE Frames(s) \in Seq(Frame)
<1>1. PICK n \in Nat : n = Len(s)
  OBVIOUS
<1>2. PICK m \in Nat : m = n \div 2 /\ \A i \in 1 .. m : 2 * i \in 1 .. n
  OBVIOUS
<1>3. \A i \in 1 .. m : s[2 * i].frame \in Frame
  BY <1>1, <1>2, HalfFields
<1>4. Frames(s) = [i \in 1 .. m |-> s[2 * i].frame]
  BY <1>1, <1>2 DEF Frames
<1>. QED  BY <1>3, <1>4

(* At the start nothing is sent. *)
LEMMA InitBytes == Init => BytesOK
<1>. SUFFICES ASSUME Init PROVE BytesOK
  OBVIOUS
<1>1. << >> \in Seq(Frame) /\ << >> \in Seq(Half)
  OBVIOUS
<1>2. \A s \in Socket : sock[s].bytes = << >>
  BY DEF Init, NoSocket
<1>3. buffer = << >> /\ handled = << >> /\ pending = << >> /\ partial = << >> /\ sent = 0
  BY DEF Init
<1>4. 0 \in 0 .. MaxFrames
  BY SizeAssumption
<1>. QED  BY <1>1, <1>2, <1>3, <1>4 DEF BytesOK

(* Every step keeps the types. *)
LEMMA BytesStep == SocketInv /\ BytesOK /\ ProcessOK /\ [Next]_vars => BytesOK'
<1>. SUFFICES ASSUME SocketInv, BytesOK, ProcessOK, [Next]_vars PROVE BytesOK'
  OBVIOUS
<1>0. << >> \in Seq(Frame) /\ << >> \in Seq(Half)
  OBVIOUS
<1>1. CASE StartProxy
  BY <1>1 DEF StartProxy, BytesOK, server, counters
<1>2. CASE ExitEvent
  BY <1>2 DEF ExitEvent, BytesOK, goClient, server, counters
<1>3. CASE Restart
  BY <1>3 DEF Restart, BytesOK, server, counters
<1>4. CASE Close
  <2>1. \A s \in Socket : sock'[s].bytes \in Seq(Half)
    <3>1. ASSUME NEW s \in Socket PROVE sock'[s].bytes \in Seq(Half)
      <4>1. sock[s] = [client |-> sock[s].client, server |-> sock[s].server, bytes |-> sock[s].bytes]
        BY DEF SocketInv, SocketsOK, SocketOK
      <4>2. sock'[s] = IF Destroyed(s) THEN [sock[s] EXCEPT !.server = "gone", !.bytes = << >>] ELSE sock[s]
        BY <1>4 DEF Close
      <4>3. sock'[s].bytes = << >> \/ sock'[s] = sock[s]
        BY <4>1, <4>2
      <4>. QED  BY <1>0, <4>3 DEF BytesOK
    <3>. QED  BY <3>1
  <2>. QED  BY <1>4, <2>1 DEF Close, BytesOK, goClient, counters
<1>5. CASE Crash \/ Terminate
  <2>1. Leaves
    BY <1>5 DEF Crash, Terminate
  <2>. QED  BY <1>0, <2>1, LeavesIs DEF Leaves, BytesOK, server
<1>6. CASE Dial
  <2>1. \A t \in Socket : sock'[t].bytes \in Seq(Half)
    BY <1>0, <1>6, DialIs DEF Same, BytesOK
  <2>2. InHalves(buffer) \in Seq(Half)
    BY InHalvesIs DEF BytesOK
  <2>. QED  BY <1>0, <1>6, <2>1, <2>2 DEF Dial, BytesOK, server, counters
<1>7. CASE Send
  <2>0. sent + 1 \in Frame /\ sent' \in 0 .. MaxFrames /\ sock' = sock /\ partial' = partial /\ handled' = handled
    BY <1>7, SizeAssumption DEF Send, BytesOK, Frame, server
  <2>1. CASE conn # 0
    <3>1. pending' \in Seq(Half) /\ buffer' = buffer
      BY <1>7, <2>0, <2>1, HalvesAre DEF Send
    <3>. QED  BY <2>0, <3>1 DEF BytesOK
  <2>2. CASE conn = 0
    <3>1. PICK b : b = Append(buffer, sent + 1)
      OBVIOUS
    <3>2. b \in Seq(Frame) /\ b # << >>
      BY <2>0, <3>1, AppendIs DEF BytesOK
    <3>3. Tail(b) \in Seq(Frame)
      BY <3>2, HeadAndTail
    <3>4. buffer' \in Seq(Frame) /\ pending' = pending
      BY <1>7, <2>2, <3>1, <3>2, <3>3 DEF Send
    <3>. QED  BY <2>0, <3>4 DEF BytesOK
  <2>. QED  BY <2>1, <2>2
<1>8. CASE WriteHalf
  <2>0. pending # << >> /\ pending' = Tail(pending) /\ conn # 0 /\ conn \in Socket
    BY <1>8 DEF WriteHalf, ProcessOK, SocketInv, SocketsOK
  <2>1. pending' \in Seq(Half) /\ Head(pending) \in Half
    BY <2>0, HeadAndTail DEF BytesOK
  <2>2. \A s \in Socket : sock'[s].bytes \in Seq(Half)
    <3>1. CASE sock[conn].server = "gone"
      BY <1>8, <3>1 DEF WriteHalf, BytesOK
    <3>2. CASE sock[conn].server # "gone"
      <4>1. Append(sock[conn].bytes, Head(pending)) \in Seq(Half)
        BY <2>0, <2>1, AppendIs DEF BytesOK
      <4>. QED  BY <1>8, <2>0, <3>2, <4>1, WriteIs DEF Same, BytesOK
    <3>. QED  BY <3>1, <3>2
  <2>. QED  BY <1>8, <2>1, <2>2 DEF WriteHalf, BytesOK, server, counters
<1>9. CASE ReadLoopEnds
  BY <1>9 DEF ReadLoopEnds, BytesOK, server
<1>10. ASSUME NEW s \in Socket, Collected(s) PROVE BytesOK'
  BY <1>10, CollectedIs DEF Collected, BytesOK, server, counters, goClient
<1>11. ASSUME NEW s \in Socket, Accept(s) PROVE BytesOK'
  BY <1>0, <1>11, AcceptIs DEF Accept, BytesOK, counters, goClient
<1>12. ASSUME NEW s \in Socket, Read(s) PROVE BytesOK'
  <2>1. PICK n \in 1 .. Len(sock[s].bytes) :
       LET str == partial \o SubSeq(sock[s].bytes, 1, n)
           lines == SubSeq(str, 1, EndOfLines(str)) IN
       IF IsJson(lines)
         THEN /\ handled' = handled \o Frames(lines)
              /\ partial' = SubSeq(str, Len(lines) + 1, Len(str))
              /\ sock' = [sock EXCEPT ![s].bytes = SubSeq(@, n + 1, Len(@))]
              /\ UNCHANGED <<current, dead>>
         ELSE /\ dead' = TRUE
              /\ sock' = [t \in Socket |-> IF sock[t] = NoSocket THEN sock[t] ELSE [sock[t] EXCEPT !.server = "gone"]]
              /\ UNCHANGED <<current, partial, handled>>
    BY <1>12 DEF Read
  <2>. DEFINE str == partial \o SubSeq(sock[s].bytes, 1, n)
              lines == SubSeq(str, 1, EndOfLines(str))
              p2 == SubSeq(str, Len(lines) + 1, Len(str))
              b2 == SubSeq(sock[s].bytes, n + 1, Len(sock[s].bytes))
  <2>2. lines \in Seq(Half) /\ p2 \in Seq(Half) /\ b2 \in Seq(Half)
    BY ReadSplits DEF BytesOK
  <2>3. buffer' = buffer /\ pending' = pending /\ sent' = sent
    BY <1>12 DEF Read, goClient, counters
  <2>4. CASE IsJson(lines)
    <3>1. handled' = handled \o Frames(lines) /\ partial' = p2 /\ sock' = [sock EXCEPT ![s].bytes = b2]
      BY <2>1, <2>4
    <3>. HIDE DEF lines, p2, b2
    <3>2. handled' \in Seq(Frame)
      BY <2>2, <3>1, FramesType, ConcatType DEF BytesOK
    <3>3. \A t \in Socket : sock'[t].bytes \in Seq(Half)
      BY <2>2, <3>1, ReadIs DEF Same, BytesOK
    <3>. QED  BY <2>2, <2>3, <3>1, <3>2, <3>3 DEF BytesOK
  <2>5. CASE ~IsJson(lines)
    <3>1. /\ sock' = [t \in Socket |-> IF sock[t] = NoSocket THEN sock[t] ELSE [sock[t] EXCEPT !.server = "gone"]]
          /\ partial' = partial /\ handled' = handled
      BY <2>1, <2>5
    <3>2. ASSUME NEW t \in Socket PROVE sock'[t].bytes \in Seq(Half)
      <4>1. sock[t] = [client |-> sock[t].client, server |-> sock[t].server, bytes |-> sock[t].bytes]
        BY DEF SocketInv, SocketsOK, SocketOK
      <4>2. sock'[t] = sock[t] \/ sock'[t] = [sock[t] EXCEPT !.server = "gone"]
        BY <3>1
      <4>3. sock'[t].bytes = sock[t].bytes
        BY <4>1, <4>2
      <4>. QED  BY <4>3 DEF BytesOK
    <3>. QED  BY <2>3, <3>1, <3>2 DEF BytesOK
  <2>. QED  BY <2>4, <2>5
<1>13. ASSUME NEW s \in Socket, SocketEnds(s) PROVE BytesOK'
  <2>1. \A t \in Socket : sock'[t].bytes \in Seq(Half)
    BY <1>0, <1>13, EndsIs DEF Same, BytesOK
  <2>. QED  BY <1>13, <2>1 DEF SocketEnds, BytesOK, counters, goClient
<1>14. CASE UNCHANGED vars
  BY <1>14 DEF vars, BytesOK, goClient, server, counters
<1>. QED  BY <1>1, <1>2, <1>3, <1>4, <1>5, <1>6, <1>7, <1>8, <1>9, <1>10, <1>11, <1>12, <1>13, <1>14 DEF Next

(* At the start the server has no socket. *)
LEMMA InitServer == Init => ServerOK
  BY DEF Init, ServerOK, NoSocket

(* Every step keeps the server's ends in their states. *)
LEMMA ServerStep == SocketInv /\ ProcessOK /\ ServerOK /\ [Next]_vars => ServerOK'
<1>. SUFFICES ASSUME SocketInv, ProcessOK, ServerOK, [Next]_vars PROVE ServerOK'
  OBVIOUS
<1>1. CASE StartProxy \/ ExitEvent \/ Restart \/ Send \/ ReadLoopEnds \/ UNCHANGED vars
  BY <1>1 DEF StartProxy, ExitEvent, Restart, Send, ReadLoopEnds, vars, ServerOK
<1>2. CASE Close
  <2>1. ASSUME NEW s \in Socket PROVE sock'[s].server = "gone" \/ sock'[s] = sock[s]
    <3>1. sock[s] = [client |-> sock[s].client, server |-> sock[s].server, bytes |-> sock[s].bytes]
      BY DEF SocketInv, SocketsOK, SocketOK
    <3>2. sock'[s] = IF Destroyed(s) THEN [sock[s] EXCEPT !.server = "gone", !.bytes = << >>] ELSE sock[s]
      BY <1>2 DEF Close
    <3>. QED  BY <3>1, <3>2
  <2>. QED  BY <2>1 DEF ServerOK
<1>3. CASE Crash \/ Terminate
  BY <1>3, LeavesIs DEF Crash, Terminate, ServerOK
<1>4. CASE Dial
  BY <1>4, DialIs DEF Same, ServerOK
<1>5. CASE WriteHalf
  <2>1. conn \in Socket
    BY <1>5 DEF WriteHalf, ProcessOK, SocketInv, SocketsOK
  <2>2. CASE sock[conn].server = "gone"
    BY <1>5, <2>2 DEF WriteHalf, ServerOK
  <2>3. CASE sock[conn].server # "gone"
    BY <1>5, <2>1, <2>3, WriteIs DEF Same, ServerOK
  <2>. QED  BY <2>2, <2>3
<1>6. ASSUME NEW s \in Socket, Collected(s) PROVE ServerOK'
  BY <1>6, CollectedIs DEF ServerOK
<1>7. ASSUME NEW s \in Socket, Accept(s) PROVE ServerOK'
  BY <1>7, AcceptIs DEF ServerOK
<1>8. ASSUME NEW s \in Socket, Read(s) PROVE ServerOK'
  <2>1. CASE \E b : sock' = [sock EXCEPT ![s].bytes = b]
    BY <2>1, ReadIs DEF Same, ServerOK
  <2>2. CASE sock' = [t \in Socket |-> IF sock[t] = NoSocket THEN sock[t] ELSE [sock[t] EXCEPT !.server = "gone"]]
    <3>1. ASSUME NEW t \in Socket PROVE sock'[t].server = "gone" \/ sock'[t] = sock[t]
      <4>1. sock[t] = [client |-> sock[t].client, server |-> sock[t].server, bytes |-> sock[t].bytes]
        BY DEF SocketInv, SocketsOK, SocketOK
      <4>2. sock'[t] = sock[t] \/ sock'[t] = [sock[t] EXCEPT !.server = "gone"]
        BY <2>2
      <4>. QED  BY <4>1, <4>2
    <3>. QED  BY <3>1 DEF ServerOK
  <2>. QED  BY <1>8, <2>1, <2>2 DEF Read
<1>9. ASSUME NEW s \in Socket, SocketEnds(s) PROVE ServerOK'
  BY <1>9, EndsIs DEF Same, ServerOK
<1>. QED  BY <1>1, <1>2, <1>3, <1>4, <1>5, <1>6, <1>7, <1>8, <1>9 DEF Next

-----------------------------------------------------------------------------
(* Constant facts. *)
LEMMA NoHalves == InHalves(<< >>) = << >>
<1>1. << >> \in Seq(Frame) /\ Len(<< >>) = 0
  OBVIOUS
<1>2. InHalves(<< >>) \in Seq(Half) /\ Len(InHalves(<< >>)) = 2 * 0
  BY <1>1, InHalvesIs
<1>. QED  BY <1>2

(* No frame ends in what is cut. *)
LEMMA NoFrames ==
  ASSUME NEW p \in Seq(Half), Cut(p)
  PROVE  FramesIn(p) = {} /\ Ascends(p)
  BY DEF FramesIn, Ascends, Cut

(* Halves after halves are halves. *)
LEMMA ConcatHalves == \A a, b \in Seq(Half) : a \o b \in Seq(Half)
  BY ConcatType

Moves(p, B, l, q, b) == p \o B = l \o (q \o b)
(* What is handled (H) takes the lines l from the unread bytes B; of what  *)
(* precedes them (p, then p2) no frame ends.                               *)
LEMMA ReadMoves ==
  ASSUME NEW H \in Seq(Half), NEW p \in Seq(Half), NEW B \in Seq(Half),
         NEW l \in Seq(Half), NEW p2 \in Seq(Half), NEW b2 \in Seq(Half),
         Cut(p), Cut(p2), Moves(p, B, l, p2, b2), Ascends(H), Ascends(B), Before(H, B)
  PROVE  /\ Both(H \o l, b2) = Both(H, B)
         /\ Ascends(H \o l) /\ Ascends(b2) /\ Before(H \o l, b2)
<1>1. FramesIn(p) = {} /\ Ascends(p) /\ FramesIn(p2) = {}
  BY NoFrames
<1>2. Ascends(p \o B) /\ FramesIn(p \o B) = FramesIn(B)
  <2>1. Before(p, B)
    BY <1>1 DEF Before
  <2>2. Ascends(p \o B)
    BY <1>1, <2>1, AscendsParts, Zenon
  <2>3. FramesIn(p \o B) = {} \cup FramesIn(B)
    BY <1>1, FramesParts, Zenon
  <2>. QED  BY <2>2, <2>3
<1>3. PICK q : q = p2 \o b2
  OBVIOUS
<1>4. q \in Seq(Half) /\ FramesIn(q) = FramesIn(b2) /\ (Ascends(q) => Ascends(b2))
  <2>1. p2 \o b2 \in Seq(Half)
    BY ConcatHalves, Zenon
  <2>2. FramesIn(p2 \o b2) = {} \cup FramesIn(b2)
    BY <1>1, FramesParts, Zenon
  <2>3. Ascends(p2 \o b2) => Ascends(b2)
    BY AscendsParts, Zenon
  <2>4. FramesIn(q) = {} \cup FramesIn(b2)
    BY <1>3, <2>2, Zenon
  <2>5. q \in Seq(Half) /\ (Ascends(q) => Ascends(b2))
    BY <1>3, <2>1, <2>3, Zenon
  <2>. QED  BY <2>4, <2>5
<1>5. Ascends(l \o q) /\ FramesIn(l \o q) = FramesIn(B)
  BY <1>2, <1>3 DEF Moves
<1>6. Ascends(l) /\ Ascends(b2) /\ Before(l, q) /\ FramesIn(B) = FramesIn(l) \cup FramesIn(b2)
  BY <1>4, <1>5, AscendsParts, FramesParts
<1>7. Before(l, b2) /\ Before(H, l) /\ Before(H, b2)
  BY <1>4, <1>6 DEF Before
<1>8. H \o l \in Seq(Half) /\ FramesIn(H \o l) = FramesIn(H) \cup FramesIn(l)
  BY ConcatType, FramesParts
<1>9. Ascends(H \o l)
  BY <1>6, <1>7, AscendsParts
<1>10. Before(H \o l, b2)
  BY <1>7, <1>8 DEF Before
<1>. QED  BY <1>6, <1>8, <1>9, <1>10 DEF Both

(* Once the lines l are handled, what is left of the stream is still JSON  *)
(* lines, and as whole as it was.                                          *)
LEMMA ReadStreams ==
  ASSUME NEW p \in Seq(Half), NEW B \in Seq(Half), NEW X \in Seq(Half),
         NEW l \in Seq(Half), NEW p2 \in Seq(Half), NEW b2 \in Seq(Half),
         p \o B = l \o (p2 \o b2), IsWhole(l), IsJson(p \o (B \o X))
  PROVE  /\ IsJson(l) /\ IsJson(p2 \o (b2 \o X))
         /\ IsWhole(p \o (B \o X)) => IsWhole(p2 \o (b2 \o X))
<1>1. PICK q, r, z : q = p2 \o b2 /\ r = b2 \o X /\ z = p2 \o r
  OBVIOUS
<1>2. q \in Seq(Half) /\ r \in Seq(Half)
  BY <1>1, ConcatType
<1>3. z \in Seq(Half)
  BY <1>1, <1>2, ConcatType
<1>4. p \o (B \o X) = (p \o B) \o X
  BY ConcatTwice, ZenonT(40)
<1>5. (l \o q) \o X = l \o (q \o X)
  <2>1. \A u, v, w \in Seq(Half) : u \o (v \o w) = (u \o v) \o w
    BY ConcatTwice
  <2>. QED  BY <1>2, <2>1, ZenonT(40)
<1>6. q \o X = z
  <2>1. p2 \o (b2 \o X) = (p2 \o b2) \o X
    BY ConcatTwice, Zenon
  <2>. QED  BY <1>1, <2>1, Zenon
<1>7. p \o (B \o X) = l \o z
  BY <1>1, <1>4, <1>5, <1>6, Zenon
<1>8. IsJson(l \o z)
  BY <1>7, Zenon
<1>9. IsJson(l) /\ IsJson(z)
  BY <1>3, <1>8, JsonParts
<1>10. IsWhole(l \o z) => IsWhole(z)
  BY <1>3, WholeParts
<1>. QED  BY <1>1, <1>7, <1>9, <1>10, Zenon

-----------------------------------------------------------------------------
(* The parts of a stream. *)
LEMMA StreamType ==
  ASSUME BytesOK, NEW s \in Socket
  PROVE  /\ (IF Latest(s) THEN partial ELSE << >>) \in Seq(Half)
         /\ sock[s].bytes \in Seq(Half) /\ (IF s = conn THEN pending ELSE << >>) \in Seq(Half)
         /\ Stream(s) \in Seq(Half)
<1>. DEFINE P == IF Latest(s) THEN partial ELSE << >>
            X == IF s = conn THEN pending ELSE << >>
<1>1. P \in Seq(Half) /\ sock[s].bytes \in Seq(Half) /\ X \in Seq(Half)
  BY Nothing DEF BytesOK
<1>2. Stream(s) = P \o (sock[s].bytes \o X)
  BY DEF Stream
<1>. HIDE DEF P, X
<1>3. sock[s].bytes \o X \in Seq(Half)
  BY <1>1, ConcatType
<1>4. Stream(s) \in Seq(Half)
  BY <1>1, <1>2, <1>3, ConcatType
<1>. QED  BY <1>1, <1>4 DEF P, X

(* A socket not dialed yet. *)
LEMMA UnusedIs ==
  ASSUME NEW s \in Socket, ~Used(s)
  PROVE  sock[s].server = "none" /\ sock[s].bytes = << >> /\ sock[s].client = "none" /\ ~Accepted(s)
  BY DEF Used, NoSocket, Accepted

(* Nothing in the row changes. *)
LEMMA SameRow ==
  ASSUME handled' = handled, pending' = pending, buffer' = buffer,
         \A t \in Socket : sock'[t].bytes = sock[t].bytes
  PROVE  Row' = Row
  BY DEF Row, Laid

-----------------------------------------------------------------------------
(* Nothing moves. *)
LEMMA NothingMoves ==
  ASSUME Good, Flow,
         \A t \in Socket : /\ sock'[t].server = sock[t].server /\ sock'[t].bytes = sock[t].bytes
                           /\ sock'[t].client = sock[t].client \/ sock'[t].client = "closed",
         handled' = handled, partial' = partial, pending' = pending, buffer' = buffer,
         conn' = conn \/ (conn' = 0 /\ pending = << >>),
         lost' = lost, sent' = sent, dead' = dead
  PROVE  Flow'
<1>1. \A t \in Socket : Accepted(t)' <=> Accepted(t)
  BY DEF Accepted
<1>2. \A t \in Socket : Latest(t)' <=> Latest(t)
  BY <1>1 DEF Latest
<1>3. ASSUME NEW t \in Socket PROVE Stream(t)' = Stream(t)
  <2>1. (IF t = conn' THEN pending' ELSE << >>) = IF t = conn THEN pending ELSE << >>
    BY Places
  <2>2. (IF Latest(t)' THEN partial' ELSE << >>) = IF Latest(t) THEN partial ELSE << >>
    BY <1>2
  <2>. QED  BY <2>1, <2>2 DEF Stream
<1>4. GoneIsRead' /\ OneUnread' /\ PartialIsCut'
  BY <1>1 DEF Flow, GoneIsRead, OneUnread, PartialIsCut
<1>5. StreamsFit'
  BY <1>3 DEF Flow, StreamsFit
<1>6. ClientIsWhole'
  BY <1>3 DEF Flow, ClientIsWhole, Good, SocketInv, SocketsOK
<1>7. RowInOrder'
  BY SameRow DEF Flow, RowInOrder
<1>. QED  BY <1>4, <1>5, <1>6, <1>7 DEF Flow

(* The process leaves: what it has not written is lost. *)
LEMMA LeavesFlow ==
  ASSUME Good, Good', Flow, Leaves
  PROVE  Flow'
<1>0. /\ handled' = handled /\ partial' = partial /\ dead' = dead /\ sent' = sent
      /\ conn' = 0 /\ pending' = << >> /\ buffer' = << >>
      /\ lost' = lost \cup FramesIn(pending) \cup ToSet(buffer)
  BY DEF Leaves, server
<1>1. \A t \in Socket : /\ sock'[t].server = sock[t].server /\ sock'[t].bytes = sock[t].bytes
                        /\ sock'[t].client = IF sock[t].client = "open" THEN "closed" ELSE sock[t].client
  BY LeavesIs DEF Good
<1>2. \A t \in Socket : Accepted(t)' <=> Accepted(t)
  BY <1>1 DEF Accepted
<1>3. \A t \in Socket : Latest(t)' <=> Latest(t)
  BY <1>1, <1>2 DEF Latest
<1>4. ASSUME NEW t \in Socket PROVE IsJson(Stream(t)')
  <2>1. PICK P, B, X : /\ P = IF Latest(t) THEN partial ELSE << >>
                       /\ B = sock[t].bytes /\ X = IF t = conn THEN pending ELSE << >>
    OBVIOUS
  <2>2. P \in Seq(Half) /\ B \in Seq(Half) /\ X \in Seq(Half)
    BY <2>1, StreamType DEF Good
  <2>3. Stream(t) = P \o (B \o X)
    BY <2>1 DEF Stream
  <2>4. Stream(t)' = P \o (B \o << >>)
    <3>1. (IF t = conn' THEN pending' ELSE << >>) = << >>
      BY <1>0
    <3>2. (IF Latest(t)' THEN partial' ELSE << >>) = P
      BY <1>0, <1>3, <2>1
    <3>. QED  BY <1>1, <2>1, <3>1, <3>2, Zenon DEF Stream
  <2>5. Stream(t)' = P \o B /\ P \o B \in Seq(Half)
    <3>1. B \o << >> = B /\ P \o B \in Seq(Half)
      BY <2>2, Nought, ConcatType
    <3>. QED  BY <2>4, <3>1, Zenon
  <2>6. Stream(t) = (P \o B) \o X
    <3>1. P \o (B \o X) = (P \o B) \o X
      BY <2>2, ConcatTwice, Zenon
    <3>. QED  BY <2>3, <3>1, Zenon
  <2>7. IsJson((P \o B) \o X)
    BY <2>6 DEF Flow, StreamsFit
  <2>8. IsJson(P \o B)
    BY <2>2, <2>5, <2>7, JsonParts
  <2>. QED  BY <2>5, <2>8
<1>5. GoneIsRead' /\ OneUnread' /\ PartialIsCut' /\ ClientIsWhole'
  BY <1>0, <1>1, <1>2 DEF Flow, GoneIsRead, OneUnread, PartialIsCut, ClientIsWhole
<1>6. StreamsFit'
  BY <1>4 DEF StreamsFit
<1>7. RowInOrder'
  <2>. DEFINE R == Row
              Q == Row'
  <2>1. R \in [Place -> Seq(Half)] /\ Q \in [Place -> Seq(Half)]
    BY LaidType DEF Good, Row, BytesOK
  <2>2. /\ R[0] = InHalves(handled) /\ R[MaxSockets + 1] = pending /\ R[MaxSockets + 2] = InHalves(buffer)
        /\ \A t \in Socket : R[t] = sock[t].bytes
    BY LaidIs DEF Row
  <2>3. /\ Q[0] = InHalves(handled) /\ Q[MaxSockets + 1] = << >> /\ Q[MaxSockets + 2] = << >>
        /\ \A t \in Socket : Q[t] = sock[t].bytes
    BY <1>0, <1>1, LaidIs, NoHalves DEF Row
  <2>4. FramesIn(R[MaxSockets + 1]) \subseteq lost' /\ FramesIn(R[MaxSockets + 2]) \subseteq lost'
    <3>1. FramesIn(InHalves(buffer)) = ToSet(buffer)
      BY FramesOfHalves DEF Good, BytesOK
    <3>. QED  BY <1>0, <2>2, <3>1
  <2>5. lost \subseteq lost' /\ lost' \subseteq lost \cup AllOf(R)
    <3>1. FramesIn(R[MaxSockets + 1]) \subseteq AllOf(R) /\ FramesIn(R[MaxSockets + 2]) \subseteq AllOf(R)
      BY AllIs, Places
    <3>2. FramesIn(InHalves(buffer)) = ToSet(buffer)
      BY FramesOfHalves DEF Good, BytesOK
    <3>. QED  BY <1>0, <2>2, <3>1, <3>2
  <2>6. InOrder(R) /\ AllOf(R) \cup lost = 1 .. sent
    BY DEF Flow, RowInOrder
  <2>. HIDE DEF R, Q
  <2>7. \A k \in Place : Q[k] = R[k] \/ (Q[k] = << >> /\ FramesIn(R[k]) \subseteq lost')
    BY <2>2, <2>3, <2>4, Places
  <2>8. InOrder(Q) /\ AllOf(Q) \cup lost' = AllOf(R) \cup lost
    <3>1. PICK L, M : L = lost /\ M = lost'
      OBVIOUS
    <3>2. L \subseteq M /\ M \subseteq L \cup AllOf(R) /\ InOrder(R)
      BY <2>5, <2>6, <3>1
    <3>3. Emptied(R, Q, L, M)
      BY <2>7, <3>1, <3>2 DEF Emptied
    <3>4. InOrder(Q) /\ AllOf(Q) \cup M = AllOf(R) \cup L
      <4>1. IsRow(R) /\ IsRow(Q) /\ InOrder(R)
        BY <2>1, <3>2 DEF IsRow
      <4>. QED  BY <3>3, <4>1, FewerFrames
    <3>. QED  BY <3>1, <3>4
  <2>9. InOrder(Q) /\ AllOf(Q) \cup lost' = 1 .. sent'
    BY <1>0, <2>6, <2>8, Zenon
  <2>. QED  BY <2>9 DEF RowInOrder, Q
<1>. QED  BY <1>0, <1>5, <1>6, <1>7 DEF Flow

(* What was queued is next to be written. *)
LEMMA DialFlow ==
  ASSUME Good, Good', Flow, Dial
  PROVE  Flow'
<1>0. /\ handled' = handled /\ partial' = partial /\ dead' = dead /\ sent' = sent /\ lost' = lost
      /\ pending' = InHalves(buffer) /\ buffer' = << >> /\ conn = 0 /\ pending = << >>
  BY DEF Dial, server, counters, Good, ProcessOK
<1>1. PICK c \in Socket : /\ conn' = c /\ ~Used(c) /\ \A t \in Socket : c < t => ~Used(t)
                          /\ \A t \in Socket : t # c => Same(t)
                          /\ sock'[c].client = "open" /\ sock'[c].server = "backlog" /\ sock'[c].bytes = << >>
  BY DialIs DEF Good
<1>2. /\ sock[c].server = "none" /\ sock[c].bytes = << >> /\ sock[c].client = "none" /\ ~Accepted(c)
      /\ ~Accepted(c)'
  BY <1>1, UnusedIs DEF Accepted
<1>3. \A t \in Socket : Accepted(t)' <=> Accepted(t)
  BY <1>1, <1>2 DEF Accepted, Same
<1>4. \A t \in Socket : sock'[t].bytes = sock[t].bytes
  BY <1>1, <1>2 DEF Same
<1>5. \A t \in Socket : Latest(t)' <=> Latest(t)
  BY <1>1, <1>2, <1>3 DEF Latest, Same
<1>6. c # 0 /\ 0 \notin Socket
  BY SocketsAreNumbers
<1>7. ASSUME NEW t \in Socket, t # c PROVE Stream(t)' = Stream(t)
  <2>1. (IF t = conn' THEN pending' ELSE << >>) = IF t = conn THEN pending ELSE << >>
    BY <1>0, <1>1, <1>7
  <2>2. (IF Latest(t)' THEN partial' ELSE << >>) = IF Latest(t) THEN partial ELSE << >>
    BY <1>0, <1>5
  <2>3. sock'[t].bytes = sock[t].bytes
    BY <1>4
  <2>. QED  BY <2>1, <2>2, <2>3, Zenon DEF Stream
<1>8. Stream(c)' = InHalves(buffer) /\ IsJson(InHalves(buffer)) /\ IsWhole(InHalves(buffer))
  <2>1. InHalves(buffer) \in Seq(Half) /\ IsJson(InHalves(buffer)) /\ IsWhole(InHalves(buffer))
    BY InHalvesIs, InHalvesFit DEF Good, BytesOK
  <2>2. (IF c = conn' THEN pending' ELSE << >>) = InHalves(buffer)
    BY <1>0, <1>1
  <2>3. (IF Latest(c)' THEN partial' ELSE << >>) = << >>
    BY <1>1 DEF Latest
  <2>4. Stream(c)' = << >> \o (<< >> \o InHalves(buffer))
    BY <1>1, <2>2, <2>3, Zenon DEF Stream
  <2>5. << >> \o InHalves(buffer) = InHalves(buffer)
    BY <2>1, Nought
  <2>. QED  BY <2>1, <2>4, <2>5, Zenon
<1>9. StreamsFit'
  <2>1. ASSUME NEW t \in Socket PROVE IsJson(Stream(t)')
    <3>1. CASE t = c
      BY <1>8, <3>1
    <3>2. CASE t # c
      <4>1. Stream(t)' = Stream(t)
        BY <1>7, <3>2
      <4>. QED  BY <4>1 DEF Flow, StreamsFit
    <3>. QED  BY <3>1, <3>2
  <2>. QED  BY <2>1 DEF StreamsFit
<1>10. ClientIsWhole'
  <2>1. Stream(conn)' = Stream(c)'
    BY <1>1, Zenon DEF Stream, Latest
  <2>. QED  BY <1>8, <2>1 DEF ClientIsWhole
<1>11. GoneIsRead' /\ PartialIsCut'
  BY <1>0, <1>1 DEF Flow, GoneIsRead, PartialIsCut, Same
<1>12. OneUnread'
  <2>1. ASSUME NEW s \in Socket, NEW t \in Socket, s < t, Accepted(t)'
        PROVE  sock'[s].server # "backlog" /\ sock'[s].bytes = << >>
    <3>1. Accepted(t) /\ Used(t)
      BY <1>3, <2>1, UnusedIs
    <3>2. Used(s)
      BY <2>1, <3>1 DEF Good, SocketInv, DialedInOrder
    <3>3. s # c
      BY <1>1, <3>2
    <3>4. Same(s)
      BY <1>1, <3>3
    <3>. QED  BY <2>1, <3>1, <3>4 DEF Flow, OneUnread, Same
  <2>. QED  BY <2>1 DEF OneUnread
<1>13. RowInOrder'
  <2>. DEFINE R == Row
              Q == Row'
              a == MaxSockets + 1
              b == MaxSockets + 2
  <2>1. R \in [Place -> Seq(Half)] /\ Q \in [Place -> Seq(Half)]
    BY LaidType DEF Good, Row, BytesOK
  <2>2. /\ R[0] = InHalves(handled) /\ R[a] = << >> /\ R[b] = InHalves(buffer)
        /\ \A t \in Socket : R[t] = sock[t].bytes
    BY <1>0, LaidIs DEF Row
  <2>3. /\ Q[0] = InHalves(handled) /\ Q[a] = InHalves(buffer) /\ Q[b] = << >>
        /\ \A t \in Socket : Q[t] = sock[t].bytes
    BY <1>0, <1>4, LaidIs, NoHalves DEF Row
  <2>4. InOrder(R) /\ AllOf(R) \cup lost = 1 .. sent
    BY DEF Flow, RowInOrder
  <2>5. a \in Place /\ b \in Place /\ a < b /\ NoneBetween(R, a, b)
    <3>1. MaxSockets \in Nat /\ a \in Place /\ b \in Place /\ a < b
      BY Places
    <3>2. \A k \in Place : k \in Nat /\ ~(a < k /\ k < b)
      BY <3>1, Places
    <3>. HIDE DEF a, b
    <3>. QED  BY <3>1, <3>2 DEF NoneBetween
  <2>6. \A k \in Place : k = 0 \/ k \in Socket \/ k = a \/ k = b
    BY Places
  <2>. HIDE DEF R, Q, a, b
  <2>7. SameElsewhere(R, Q, a, b)
    BY <2>2, <2>3, <2>6 DEF SameElsewhere
  <2>8. Both(Q[a], Q[b]) = Both(R[a], R[b])
    BY <2>2, <2>3 DEF Both
  <2>9. Ascends(Q[a]) /\ Ascends(Q[b]) /\ Before(Q[a], Q[b])
    <3>1. Ascends(InHalves(buffer))
      BY <2>2, <2>4, <2>5 DEF InOrder
    <3>2. Before(InHalves(buffer), << >>)
      BY Nothing DEF Before
    <3>. QED  BY <2>3, <3>1, <3>2, Nothing, Zenon
  <2>10. InOrder(Q) /\ AllOf(Q) = AllOf(R)
    BY <2>1, <2>4, <2>5, <2>7, <2>8, <2>9, MovesOn
  <2>11. InOrder(Q) /\ AllOf(Q) \cup lost' = 1 .. sent'
    BY <1>0, <2>4, <2>10, Zenon
  <2>. QED  BY <2>11 DEF RowInOrder, Q
<1>. QED  BY <1>0, <1>9, <1>10, <1>11, <1>12, <1>13 DEF Flow

(* A half goes from the client to the socket. *)
LEMMA WriteFlow ==
  ASSUME Good, Good', Flow, WriteHalf
  PROVE  Flow'
<1>0. /\ pending # << >> /\ pending' = Tail(pending) /\ conn' = conn /\ buffer' = buffer
      /\ handled' = handled /\ partial' = partial /\ dead' = dead /\ sent' = sent
      /\ conn # 0 /\ conn \in Socket
  BY DEF WriteHalf, server, counters, Good, ProcessOK, SocketInv, SocketsOK
<1>1. PICK c \in Socket : c = conn
  BY <1>0
<1>2. sock[c].client = "open" /\ \A t \in Socket : c < t => ~Used(t)
  BY <1>0, <1>1 DEF Good, SocketInv, ConnIsTheLast
<1>3. sock[c].server # "gone"
  BY <1>2 DEF Flow, GoneIsRead
<1>4. lost' = lost
  BY <1>1, <1>3 DEF WriteHalf
<1>5. PICK h, B, T : h = Head(pending) /\ B = sock[c].bytes /\ T = Tail(pending)
  OBVIOUS
<1>6. /\ \A t \in Socket : t # c => Same(t)
      /\ sock'[c].client = "open" /\ sock'[c].server = sock[c].server /\ sock'[c].bytes = Append(B, h)
  BY <1>0, <1>1, <1>2, <1>3, <1>5, WriteIs DEF Good
<1>7. B \in Seq(Half) /\ h \in Half /\ T \in Seq(Half) /\ pending = <<h>> \o T /\ <<h>> \in Seq(Half)
  BY <1>0, <1>5, HeadAndTail DEF Good, BytesOK
<1>8. sock'[c].bytes = B \o <<h>>
  BY <1>6, <1>7, AppendIs
<1>9. (B \o <<h>>) \o T = B \o pending
  <2>1. <<h>> \in Seq(Half) /\ B \in Seq(Half) /\ T \in Seq(Half) /\ pending = <<h>> \o T
    BY <1>7
  <2>2. B \o (<<h>> \o T) = (B \o <<h>>) \o T
    BY <2>1, ConcatTwice, Zenon
  <2>. QED  BY <2>1, <2>2, Zenon
<1>10. \A t \in Socket : Accepted(t)' <=> Accepted(t)
  BY <1>6 DEF Accepted, Same
<1>11. \A t \in Socket : Latest(t)' <=> Latest(t)
  BY <1>6, <1>10 DEF Latest, Same
<1>12. ASSUME NEW t \in Socket PROVE Stream(t)' = Stream(t)
  <2>1. (IF Latest(t)' THEN partial' ELSE << >>) = IF Latest(t) THEN partial ELSE << >>
    BY <1>0, <1>11
  <2>2. sock'[t].bytes \o (IF t = conn' THEN pending' ELSE << >>)
          = sock[t].bytes \o (IF t = conn THEN pending ELSE << >>)
    <3>1. CASE t = c
      BY <1>0, <1>1, <1>5, <1>8, <1>9, <3>1, Zenon
    <3>2. CASE t # c
      BY <1>0, <1>1, <1>6, <3>2 DEF Same
    <3>. QED  BY <3>1, <3>2
  <2>. QED  BY <2>1, <2>2, Zenon DEF Stream
<1>13. StreamsFit' /\ ClientIsWhole'
  BY <1>0, <1>12 DEF Flow, StreamsFit, ClientIsWhole
<1>14. GoneIsRead' /\ PartialIsCut'
  BY <1>0, <1>3, <1>6 DEF Flow, GoneIsRead, PartialIsCut, Same
<1>15. OneUnread'
  <2>1. ASSUME NEW s \in Socket, NEW t \in Socket, s < t, Accepted(t)'
        PROVE  sock'[s].server # "backlog" /\ sock'[s].bytes = << >>
    <3>1. Accepted(t) /\ Used(t)
      BY <1>10, <2>1, UnusedIs
    <3>2. s # c
      BY <1>2, <2>1, <3>1
    <3>3. Same(s)
      BY <1>6, <3>2
    <3>. QED  BY <2>1, <3>1, <3>3 DEF Flow, OneUnread, Same
  <2>. QED  BY <2>1 DEF OneUnread
<1>16. RowInOrder'
  <2>. DEFINE R == Row
              Q == Row'
              b == MaxSockets + 1
              e == MaxSockets + 2
  <2>1. R \in [Place -> Seq(Half)] /\ Q \in [Place -> Seq(Half)]
    BY LaidType DEF Good, Row, BytesOK
  <2>2. /\ R[0] = InHalves(handled) /\ R[b] = pending /\ R[e] = InHalves(buffer)
        /\ \A t \in Socket : R[t] = sock[t].bytes
    BY LaidIs DEF Row
  <2>3. /\ Q[0] = InHalves(handled) /\ Q[b] = T /\ Q[e] = InHalves(buffer) /\ Q[c] = B \o <<h>>
        /\ \A t \in Socket : t # c => Q[t] = sock[t].bytes
    <3>1. /\ Q[0] = InHalves(handled') /\ Q[b] = pending' /\ Q[e] = InHalves(buffer')
          /\ \A t \in Socket : Q[t] = sock'[t].bytes
      BY LaidIs DEF Row
    <3>. HIDE DEF Q, b, e
    <3>2. \A t \in Socket : t # c => sock'[t].bytes = sock[t].bytes
      BY <1>6 DEF Same
    <3>. QED  BY <1>0, <1>5, <1>8, <3>1, <3>2, Zenon
  <2>4. InOrder(R) /\ AllOf(R) \cup lost = 1 .. sent
    BY DEF Flow, RowInOrder
  <2>5. c \in Place /\ b \in Place /\ c < b
    BY Places
  <2>6. \A k \in Place : k = 0 \/ k \in Socket \/ k = b \/ k = e
    BY Places
  <2>7. \A k \in Place : c < k /\ k < b => k \in Socket
    BY Places DEF Place, Socket
  <2>8. NoneBetween(R, c, b)
    BY <1>2, <2>2, <2>7, UnusedIs DEF NoneBetween
  <2>. HIDE DEF R, Q, b, e
  <2>9. SameElsewhere(R, Q, c, b)
    BY <2>2, <2>3, <2>6 DEF SameElsewhere
  <2>10. Q[c] \o Q[b] = R[c] \o R[b]
    BY <1>5, <1>9, <2>2, <2>3, Zenon
  <2>11. R[c] \in Seq(Half) /\ R[b] \in Seq(Half) /\ Q[c] \in Seq(Half) /\ Q[b] \in Seq(Half)
    BY <2>1, <2>5
  <2>12. Both(Q[c], Q[b]) = Both(R[c], R[b])
    <3>1. FramesIn(Q[c] \o Q[b]) = FramesIn(Q[c]) \cup FramesIn(Q[b])
      BY <2>11, FramesParts, Zenon
    <3>2. FramesIn(R[c] \o R[b]) = FramesIn(R[c]) \cup FramesIn(R[b])
      BY <2>11, FramesParts, Zenon
    <3>. QED  BY <2>10, <3>1, <3>2, Zenon DEF Both
  <2>13. Ascends(Q[c]) /\ Ascends(Q[b]) /\ Before(Q[c], Q[b])
    <3>1. Ascends(R[c]) /\ Ascends(R[b]) /\ Before(R[c], R[b])
      BY <2>4, <2>5 DEF InOrder
    <3>2. Ascends(R[c] \o R[b])
      BY <2>11, <3>1, AscendsParts, Zenon
    <3>3. Ascends(Q[c] \o Q[b])
      BY <2>10, <3>2, Zenon
    <3>. QED  BY <2>11, <3>3, AscendsParts, Zenon
  <2>14. InOrder(Q) /\ AllOf(Q) = AllOf(R)
    BY <2>1, <2>4, <2>5, <2>8, <2>9, <2>12, <2>13, MovesOn
  <2>15. InOrder(Q) /\ AllOf(Q) \cup lost' = 1 .. sent'
    BY <1>0, <1>4, <2>4, <2>14, Zenon
  <2>. QED  BY <2>15 DEF RowInOrder, Q
<1>. QED  BY <1>0, <1>13, <1>14, <1>15, <1>16 DEF Flow

(* A frame is sent: to the connection, or into the buffer, whose first     *)
(* frame is lost when it is full.                                          *)
LEMMA SendFlow ==
  ASSUME Good, Good', Flow, Send
  PROVE  Flow'
<1>. DEFINE n == sent + 1
            R == Row
            Q == Row'
            a == MaxSockets + 1
            b == MaxSockets + 2
<1>0. /\ handled' = handled /\ partial' = partial /\ dead' = dead /\ sent' = n /\ sock' = sock /\ conn' = conn
      /\ pending = << >> /\ n \in Frame
  BY SizeAssumption DEF Send, server, Good, BytesOK, Frame
<1>1. IsRow(R) /\ IsRow(Q)
  BY LaidType DEF Good, Row, BytesOK, IsRow
<1>2. /\ R[0] = InHalves(handled) /\ R[a] = << >> /\ R[b] = InHalves(buffer)
      /\ \A t \in Socket : R[t] = sock[t].bytes
  BY <1>0, LaidIs DEF Row
<1>3. /\ Q[0] = InHalves(handled) /\ Q[a] = pending' /\ Q[b] = InHalves(buffer')
      /\ \A t \in Socket : Q[t] = sock[t].bytes
  BY <1>0, LaidIs DEF Row
<1>4. InOrder(R) /\ AllOf(R) \cup lost = 1 .. sent
  BY DEF Flow, RowInOrder
<1>5. \A f \in AllOf(R) : f < n
  BY <1>4 DEF Good, BytesOK
<1>6. /\ a \in Place /\ b \in Place /\ a < b /\ a # b /\ \A k \in Place : a < k => k = b
      /\ \A k \in Place : ~(b < k)
      /\ \A k \in Place : k = 0 \/ k \in Socket \/ k = a \/ k = b
  BY Places DEF Place
<1>7. 1 .. sent' = 1 .. sent \cup {n}
  BY <1>0 DEF Good, BytesOK
<1>8. /\ Halves(n) \in Seq(Half) /\ FramesIn(Halves(n)) = {n} /\ Ascends(Halves(n))
      /\ IsJson(Halves(n)) /\ IsWhole(Halves(n))
  BY <1>0, HalvesAre, HalvesInOrder
<1>. HIDE DEF n, R, Q, a, b
<1>9. GoneIsRead' /\ OneUnread' /\ PartialIsCut'
  BY <1>0 DEF Flow, GoneIsRead, OneUnread, PartialIsCut, Accepted
<1>10. \A t \in Socket : Latest(t)' <=> Latest(t)
  BY <1>0 DEF Latest, Accepted
<1>11. CASE conn # 0
  <2>1. pending' = Halves(n) /\ buffer' = buffer /\ lost' = lost /\ buffer = << >> /\ conn \in Socket
    BY <1>11 DEF Send, Good, ProcessOK, SocketInv, SocketsOK, n
  <2>2. ASSUME NEW t \in Socket, t # conn PROVE Stream(t)' = Stream(t)
    <3>1. (IF t = conn' THEN pending' ELSE << >>) = IF t = conn THEN pending ELSE << >>
      BY <1>0, <2>2
    <3>2. (IF Latest(t)' THEN partial' ELSE << >>) = IF Latest(t) THEN partial ELSE << >>
      BY <1>0, <1>10
    <3>. QED  BY <1>0, <3>1, <3>2, Zenon DEF Stream
  <2>3. Stream(conn)' = Stream(conn) \o Halves(n)
    <3>1. PICK P, B : P = (IF Latest(conn) THEN partial ELSE << >>) /\ B = sock[conn].bytes
      OBVIOUS
    <3>2. P \in Seq(Half) /\ B \in Seq(Half)
      BY <2>1, <3>1, StreamType DEF Good
    <3>3. Stream(conn) = P \o (B \o << >>)
      BY <1>0, <3>1 DEF Stream
    <3>4. B \o << >> = B
      BY <3>2, Nought
    <3>5. Stream(conn)' = P \o (B \o Halves(n))
      <4>1. (IF Latest(conn)' THEN partial' ELSE << >>) = P
        BY <1>0, <1>10, <2>1, <3>1
      <4>. QED  BY <1>0, <2>1, <3>1, <4>1, Zenon DEF Stream
    <3>6. P \o (B \o Halves(n)) = (P \o B) \o Halves(n)
      BY <1>8, <3>2, ConcatTwice, Zenon
    <3>. QED  BY <3>3, <3>4, <3>5, <3>6, Zenon
  <2>4. Stream(conn) \in Seq(Half) /\ IsJson(Stream(conn)) /\ IsWhole(Stream(conn))
    BY <1>11, <2>1, StreamType DEF Good, Flow, StreamsFit, ClientIsWhole
  <2>5. IsJson(Stream(conn) \o Halves(n)) /\ IsWhole(Stream(conn) \o Halves(n))
    BY <1>8, <2>4, JsonParts, WholeParts, Zenon
  <2>6. StreamsFit'
    <3>1. ASSUME NEW t \in Socket PROVE IsJson(Stream(t)')
      <4>1. CASE t = conn
        BY <1>0, <2>3, <2>5, <4>1
      <4>2. CASE t # conn
        <5>1. Stream(t)' = Stream(t)
          BY <2>2, <4>2
        <5>. QED  BY <5>1 DEF Flow, StreamsFit
      <4>. QED  BY <4>1, <4>2
    <3>. QED  BY <3>1 DEF StreamsFit
  <2>7. ClientIsWhole'
    <3>1. Stream(conn)' = Stream(conn) \o Halves(n)
      BY <2>3
    <3>. QED  BY <2>5, <3>1 DEF ClientIsWhole
  <2>8. RowInOrder'
    <3>1. SameBut(R, Q, a)
      BY <1>2, <1>3, <1>6, <2>1 DEF SameBut
    <3>2. EndsAt(Q, a)
      BY <1>3, <1>6, <2>1, NoHalves DEF EndsAt
    <3>3. Q[a] = Halves(n) /\ FramesIn(Q[a]) = {n} /\ FramesIn(R[a]) = {}
      BY <1>2, <1>3, <1>8, <2>1, Nothing
    <3>4. Ascends(Q[a])
      BY <1>8, <3>3
    <3>5. PICK L : L = lost
      OBVIOUS
    <3>6. Gains(R, Q, a, n, L, L)
      BY <3>3, <3>4 DEF Gains
    <3>7. InOrder(Q) /\ Grows(R, Q, L, L, n)
      <4>1. InOrder(R) /\ AllBelow(R, n) /\ a \in Place
        BY <1>4, <1>5, <1>6 DEF AllBelow
      <4>. QED  BY <1>1, <3>1, <3>2, <3>6, <4>1, OneMore
    <3>8. AllOf(Q) \cup lost' = 1 .. sent'
      BY <1>4, <1>7, <2>1, <3>5, <3>7 DEF Grows
    <3>. QED  BY <3>7, <3>8 DEF RowInOrder, Q
  <2>. QED  BY <1>0, <1>9, <2>6, <2>7, <2>8 DEF Flow
<1>12. CASE conn = 0
  <2>1. PICK c : c = Append(buffer, n)
    OBVIOUS
  <2>2. /\ pending' = pending
        /\ buffer' = (IF Len(c) > ClientBuffer THEN Tail(c) ELSE c)
        /\ lost' = IF Len(c) > ClientBuffer THEN lost \cup {Head(c)} ELSE lost
    BY <1>12, <2>1 DEF Send, n
  <2>3. 0 \notin Socket
    BY SocketsAreNumbers
  <2>4. ASSUME NEW t \in Socket PROVE Stream(t)' = Stream(t)
    <3>1. (IF t = conn' THEN pending' ELSE << >>) = IF t = conn THEN pending ELSE << >>
      BY <1>0, <2>2
    <3>2. (IF Latest(t)' THEN partial' ELSE << >>) = IF Latest(t) THEN partial ELSE << >>
      BY <1>0, <1>10
    <3>. QED  BY <1>0, <3>1, <3>2, Zenon DEF Stream
  <2>5. StreamsFit' /\ ClientIsWhole'
    BY <1>0, <1>12, <2>4 DEF Flow, StreamsFit, ClientIsWhole
  <2>6. /\ buffer \in Seq(Frame) /\ c \in Seq(Frame) /\ c # << >> /\ c = buffer \o <<n>> /\ <<n>> \in Seq(Frame)
    BY <1>0, <2>1, AppendIs DEF Good, BytesOK
  <2>7. InHalves(c) = InHalves(buffer) \o Halves(n) /\ InHalves(buffer) \in Seq(Half)
    <3>1. InHalves(buffer \o <<n>>) = InHalves(buffer) \o InHalves(<<n>>)
      BY <2>6, InHalvesConcat
    <3>2. InHalves(buffer) \in Seq(Half)
      BY <2>6, InHalvesIs
    <3>. QED  BY <2>6, <3>1, <3>2, Zenon DEF Halves
  <2>8. FramesIn(InHalves(c)) = FramesIn(R[b]) \cup {n} /\ Ascends(InHalves(c))
    <3>1. Ascends(R[b]) /\ \A f \in FramesIn(R[b]) : f < n
      BY <1>4, <1>5, <1>6, AllIs DEF InOrder
    <3>2. Before(R[b], Halves(n))
      BY <1>8, <3>1 DEF Before
    <3>3. Ascends(R[b] \o Halves(n)) /\ R[b] \in Seq(Half)
      BY <1>2, <1>8, <2>7, <3>1, <3>2, AscendsParts
    <3>4. FramesIn(R[b] \o Halves(n)) = FramesIn(R[b]) \cup FramesIn(Halves(n))
      BY <1>8, <3>3, FramesParts
    <3>5. InHalves(c) = R[b] \o Halves(n)
      BY <1>2, <2>7
    <3>. QED  BY <1>8, <3>3, <3>4, <3>5, Zenon
  <2>9. PICK L, M : L = lost /\ M = lost'
    OBVIOUS
  <2>10. Gains(R, Q, b, n, L, M)
    <3>1. CASE Len(c) > ClientBuffer
      <4>1. PICK h, T : h = Head(c) /\ T = Tail(c)
        OBVIOUS
      <4>2. h \in Frame /\ <<h>> \in Seq(Frame) /\ T \in Seq(Frame) /\ c = <<h>> \o T
        BY <2>6, <4>1, HeadAndTail
      <4>3. InHalves(<<h>> \o T) = InHalves(<<h>>) \o InHalves(T)
        BY <4>2, InHalvesConcat
      <4>4. InHalves(c) = Halves(h) \o InHalves(T)
        BY <4>2, <4>3, Zenon DEF Halves
      <4>5. Halves(h) \in Seq(Half) /\ FramesIn(Halves(h)) = {h} /\ InHalves(T) \in Seq(Half)
        BY <4>2, HalvesAre, HalvesInOrder, InHalvesIs
      <4>6. FramesIn(InHalves(c)) = FramesIn(Halves(h)) \cup FramesIn(InHalves(T))
        BY <4>4, <4>5, FramesParts, Zenon
      <4>7. Ascends(InHalves(T))
        BY <2>8, <4>4, <4>5, AscendsParts, Zenon
      <4>8. Q[b] = InHalves(T) /\ M = L \cup {h}
        BY <1>3, <2>2, <2>9, <3>1, <4>1
      <4>. QED  BY <2>8, <4>5, <4>6, <4>7, <4>8 DEF Gains
    <3>2. CASE ~(Len(c) > ClientBuffer)
      <4>1. Q[b] = InHalves(c) /\ M = L
        BY <1>3, <2>2, <2>9, <3>2
      <4>. QED  BY <2>8, <4>1 DEF Gains
    <3>. QED  BY <3>1, <3>2
  <2>11. SameBut(R, Q, b)
    BY <1>0, <1>2, <1>3, <1>6, <2>2 DEF SameBut
  <2>12. EndsAt(Q, b)
    BY <1>6 DEF EndsAt
  <2>13. InOrder(Q) /\ Grows(R, Q, L, M, n)
    <3>1. InOrder(R) /\ AllBelow(R, n) /\ b \in Place
      BY <1>4, <1>5, <1>6 DEF AllBelow
    <3>. QED  BY <1>1, <2>10, <2>11, <2>12, <3>1, OneMore
  <2>14. AllOf(Q) \cup lost' = 1 .. sent'
    BY <1>4, <1>7, <2>9, <2>13 DEF Grows
  <2>15. RowInOrder'
    BY <2>13, <2>14 DEF RowInOrder, Q
  <2>. QED  BY <1>0, <1>9, <2>5, <2>15 DEF Flow
<1>. QED  BY <1>11, <1>12

(* What the server has of a line goes with the socket it came from, and    *)
(* that has been read to its end.                                          *)
LEMMA AcceptFlow ==
  ASSUME Good, Good', Flow, NEW s \in Socket, Accept(s), Calm'
  PROVE  Flow'
<1>0. /\ handled' = handled /\ partial' = << >> /\ dead' = dead /\ sent' = sent /\ lost' = lost
      /\ conn' = conn /\ pending' = pending /\ buffer' = buffer
  BY DEF Accept, goClient, counters
<1>1. /\ sock[s].server = "backlog" /\ \A t \in Socket : sock[t].server = "backlog" => s <= t
      /\ \A t \in Socket : /\ sock'[t].client = sock[t].client /\ sock'[t].bytes = sock[t].bytes
                           /\ sock'[t].server = IF t = s THEN "live" ELSE sock[t].server
  BY AcceptIs DEF Good
<1>2. \A t \in Socket : sock[t].server = "live" => sock[t].bytes = << >>
  BY DEF Accept, Calm
<1>3. Used(s)
  BY <1>1, UnusedIs
<1>4. \A t \in Socket : t < s => sock[t].bytes = << >> /\ sock[t].server # "backlog" /\ Used(t)
  <2>1. ASSUME NEW t \in Socket, t < s PROVE sock[t].bytes = << >> /\ sock[t].server # "backlog" /\ Used(t)
    <3>1. Used(t)
      BY <1>3, <2>1 DEF Good, SocketInv, DialedInOrder
    <3>2. sock[t].server # "backlog"
      BY <1>1, <2>1, SocketsAreNumbers
    <3>3. sock'[t].server # "backlog" /\ sock'[t].bytes = sock[t].bytes
      BY <1>1, <2>1, <3>2
    <3>4. sock[t].bytes = << >>
      <4>1. CASE sock[t].server = "live"
        BY <1>2, <4>1
      <4>2. CASE sock[t].server = "gone"
        BY <4>2 DEF Flow, GoneIsRead
      <4>3. CASE sock[t].server \notin {"live", "gone"}
        <5>1. sock[t].server = "none"
          BY <3>2, <4>3 DEF Good, ServerOK
        <5>2. sock[t] = NoSocket
          BY <5>1 DEF Good, SocketInv, SocketsOK, SocketOK
        <5>. QED  BY <3>1, <5>2 DEF Used
      <4>. QED  BY <4>1, <4>2, <4>3
    <3>. QED  BY <3>1, <3>2, <3>4
  <2>. QED  BY <2>1
<1>5. \A t \in Socket : s < t => ~Accepted(t)
  BY <1>1 DEF Flow, OneUnread
<1>6. \A t \in Socket : Accepted(t)' <=> Accepted(t) \/ t = s
  BY <1>1 DEF Accepted
<1>7. conn # 0 => conn \in Socket /\ ~(conn < s)
  BY <1>3 DEF Good, SocketInv, SocketsOK, ConnIsTheLast
<1>8. ASSUME NEW t \in Socket PROVE Stream(t)' = Stream(t) \/ (t # conn /\ Stream(t)' = << >>)
  <2>0. PICK B, X : B = sock[t].bytes /\ X = IF t = conn THEN pending ELSE << >>
    OBVIOUS
  <2>1. (IF Latest(t)' THEN partial' ELSE << >>) = << >>
    BY <1>0
  <2>2. Stream(t)' = << >> \o (B \o X)
    <3>1. sock'[t].bytes = B /\ X = IF t = conn' THEN pending' ELSE << >>
      BY <1>0, <1>1, <2>0
    <3>. QED  BY <2>1, <3>1, Zenon DEF Stream
  <2>3. CASE t < s
    <3>1. B = << >> /\ X = << >> /\ t # conn
      BY <1>4, <1>7, <2>0, <2>3, SocketsAreNumbers
    <3>2. << >> \o (<< >> \o << >>) = << >>
      OBVIOUS
    <3>. QED  BY <2>2, <3>1, <3>2, Zenon
  <2>4. CASE ~(t < s)
    <3>1. ~Latest(t)
      <4>1. CASE t = s
        BY <1>1, <4>1 DEF Latest
      <4>2. CASE t # s
        <5>1. s < t
          BY <2>4, <4>2, SocketsAreNumbers
        <5>. QED  BY <1>5, <5>1 DEF Latest, Accepted
      <4>. QED  BY <4>1, <4>2
    <3>2. Stream(t) = << >> \o (B \o X)
      BY <2>0, <3>1 DEF Stream
    <3>. QED  BY <2>2, <3>2, Zenon
  <2>. QED  BY <2>3, <2>4
<1>9. StreamsFit'
  <2>1. ASSUME NEW t \in Socket PROVE IsJson(Stream(t)')
    <3>1. IsJson(Stream(t))
      BY DEF Flow, StreamsFit
    <3>. QED  BY <1>8, <3>1, Nothing, Zenon
  <2>. QED  BY <2>1 DEF StreamsFit
<1>10. ClientIsWhole'
  <2>1. ASSUME conn # 0 PROVE IsWhole(Stream(conn)')
    <3>1. PICK c \in Socket : c = conn
      BY <1>7, <2>1
    <3>2. Stream(c)' = Stream(c) /\ IsWhole(Stream(c))
      BY <1>8, <2>1, <3>1 DEF Flow, ClientIsWhole
    <3>. QED  BY <1>0, <3>1, <3>2
  <2>. QED  BY <1>0, <2>1 DEF ClientIsWhole
<1>11. GoneIsRead' /\ PartialIsCut'
  BY <1>0, <1>1 DEF Flow, GoneIsRead, PartialIsCut, Cut
<1>12. OneUnread'
  <2>1. ASSUME NEW u \in Socket, NEW t \in Socket, u < t, Accepted(t)'
        PROVE  sock'[u].server # "backlog" /\ sock'[u].bytes = << >>
    <3>1. CASE t = s
      <4>1. u # s
        BY <2>1, <3>1, SocketsAreNumbers
      <4>. QED  BY <1>1, <1>4, <2>1, <3>1, <4>1
    <3>2. CASE t # s
      <4>1. Accepted(t)
        BY <1>6, <2>1, <3>2
      <4>2. sock[u].server # "backlog" /\ sock[u].bytes = << >>
        BY <2>1, <4>1 DEF Flow, OneUnread
      <4>. QED  BY <1>1, <4>2
    <3>. QED  BY <3>1, <3>2
  <2>. QED  BY <2>1 DEF OneUnread
<1>13. RowInOrder'
  BY <1>0, <1>1, SameRow DEF Flow, RowInOrder
<1>. QED  BY <1>0, <1>9, <1>10, <1>11, <1>12, <1>13 DEF Flow

(* The only socket with unread bytes among those accepted is the latest:   *)
(* what it brings fits what the server has of a line.                      *)
LEMMA ReadFlow ==
  ASSUME Good, Good', Flow, NEW s \in Socket, Read(s)
  PROVE  Flow'
<1>0. /\ sent' = sent /\ lost' = lost /\ conn' = conn /\ pending' = pending /\ buffer' = buffer
      /\ sock[s].server = "live"
  BY DEF Read, goClient, counters
<1>1. PICK n \in 1 .. Len(sock[s].bytes) :
     LET str == partial \o SubSeq(sock[s].bytes, 1, n)
         lines == SubSeq(str, 1, EndOfLines(str)) IN
     IF IsJson(lines)
       THEN /\ handled' = handled \o Frames(lines)
            /\ partial' = SubSeq(str, Len(lines) + 1, Len(str))
            /\ sock' = [sock EXCEPT ![s].bytes = SubSeq(@, n + 1, Len(@))]
            /\ UNCHANGED <<current, dead>>
       ELSE /\ dead' = TRUE
            /\ sock' = [t \in Socket |-> IF sock[t] = NoSocket THEN sock[t] ELSE [sock[t] EXCEPT !.server = "gone"]]
            /\ UNCHANGED <<current, partial, handled>>
  BY DEF Read
<1>2. PICK p, B, X, H : /\ p = partial /\ B = sock[s].bytes /\ H = InHalves(handled)
                        /\ X = IF s = conn THEN pending ELSE << >>
  OBVIOUS
<1>3. p \in Seq(Half) /\ B \in Seq(Half) /\ X \in Seq(Half) /\ H \in Seq(Half) /\ handled \in Seq(Frame)
  BY <1>2, StreamType, InHalvesIs DEF Good, BytesOK
<1>4. sock[s].bytes # << >>
  <2>1. CASE sock[s].bytes = << >>
    <3>1. Len(sock[s].bytes) = 0
      BY <2>1
    <3>2. 1 .. 0 = {}
      OBVIOUS
    <3>. QED  BY <1>1, <3>1, <3>2
  <2>. QED  BY <2>1
<1>5. \A t \in Socket : s < t => ~Accepted(t)
  BY <1>4 DEF Flow, OneUnread
<1>6. Latest(s)
  BY <1>0, <1>5 DEF Latest
<1>7. Stream(s) = p \o (B \o X)
  BY <1>2, <1>6, Zenon DEF Stream
<1>. DEFINE str == partial \o SubSeq(sock[s].bytes, 1, n)
            lines == SubSeq(str, 1, EndOfLines(str))
            p2 == SubSeq(str, Len(lines) + 1, Len(str))
            b2 == SubSeq(sock[s].bytes, n + 1, Len(sock[s].bytes))
<1>8. PICK l, q, b : l = lines /\ q = p2 /\ b = b2
  OBVIOUS
<1>9. /\ lines \in Seq(Half) /\ p2 \in Seq(Half) /\ b2 \in Seq(Half)
      /\ partial \o sock[s].bytes = lines \o (p2 \o b2)
      /\ IsWhole(lines) /\ Cut(p2)
  <2>1. partial \in Seq(Half) /\ sock[s].bytes \in Seq(Half)
    BY <1>2, <1>3
  <2>. QED  BY <2>1, ReadSplits DEF Cut
<1>10. IF IsJson(lines)
         THEN /\ handled' = handled \o Frames(lines) /\ partial' = p2
              /\ sock' = [sock EXCEPT ![s].bytes = b2] /\ dead' = dead
         ELSE dead' = TRUE
  BY <1>1
<1>. HIDE DEF str, lines, p2, b2
<1>11. /\ l \in Seq(Half) /\ q \in Seq(Half) /\ b \in Seq(Half) /\ p \o B = l \o (q \o b)
       /\ IsWhole(l) /\ Cut(q)
  BY <1>2, <1>8, <1>9, Zenon
<1>12. IsJson(p \o (B \o X))
  BY <1>7 DEF Flow, StreamsFit
<1>13. /\ IsJson(l) /\ IsJson(q \o (b \o X))
       /\ IsWhole(p \o (B \o X)) => IsWhole(q \o (b \o X))
  <2>. HIDE <1>2, <1>8
  <2>. QED  BY <1>3, <1>11, <1>12, ReadStreams
<1>14. /\ handled' = handled \o Frames(l) /\ partial' = q /\ sock' = [sock EXCEPT ![s].bytes = b] /\ dead' = dead
  BY <1>8, <1>10, <1>13, Zenon
<1>15. /\ \A t \in Socket : t # s => Same(t)
       /\ sock'[s].client = sock[s].client /\ sock'[s].server = sock[s].server /\ sock'[s].bytes = b
  BY <1>14, ReadIs DEF Good
<1>16. \A t \in Socket : Accepted(t)' <=> Accepted(t)
  BY <1>15 DEF Accepted, Same
<1>17. \A t \in Socket : Latest(t)' <=> Latest(t)
  BY <1>15, <1>16 DEF Latest, Same
<1>18. \A t \in Socket : t # s => ~Latest(t)
  <2>1. ASSUME NEW t \in Socket, t # s, Latest(t) PROVE FALSE
    <3>1. s < t \/ t < s
      BY <2>1, SocketsAreNumbers
    <3>2. Accepted(t) /\ Accepted(s)
      BY <1>0, <2>1 DEF Latest, Accepted
    <3>. QED  BY <1>5, <2>1, <3>1, <3>2 DEF Latest
  <2>. QED  BY <2>1
<1>19. ASSUME NEW t \in Socket, t # s PROVE Stream(t)' = Stream(t)
  <2>1. (IF Latest(t)' THEN partial' ELSE << >>) = << >> /\ (IF Latest(t) THEN partial ELSE << >>) = << >>
    BY <1>17, <1>18, <1>19
  <2>2. (IF t = conn' THEN pending' ELSE << >>) = IF t = conn THEN pending ELSE << >>
    BY <1>0
  <2>3. sock'[t].bytes = sock[t].bytes
    BY <1>15, <1>19 DEF Same
  <2>. QED  BY <2>1, <2>2, <2>3, Zenon DEF Stream
<1>20. Stream(s)' = q \o (b \o X)
  <2>1. (IF Latest(s)' THEN partial' ELSE << >>) = q
    BY <1>6, <1>14, <1>17
  <2>2. X = IF s = conn' THEN pending' ELSE << >>
    BY <1>0, <1>2
  <2>. QED  BY <1>15, <2>1, <2>2, Zenon DEF Stream
<1>21. StreamsFit'
  <2>1. ASSUME NEW t \in Socket PROVE IsJson(Stream(t)')
    <3>1. CASE t = s
      BY <1>13, <1>20, <3>1
    <3>2. CASE t # s
      <4>1. Stream(t)' = Stream(t)
        BY <1>19, <3>2
      <4>. QED  BY <4>1 DEF Flow, StreamsFit
    <3>. QED  BY <3>1, <3>2
  <2>. QED  BY <2>1 DEF StreamsFit
<1>22. ClientIsWhole'
  <2>1. ASSUME conn # 0 PROVE IsWhole(Stream(conn)')
    <3>1. PICK c \in Socket : c = conn
      BY <2>1 DEF Good, SocketInv, SocketsOK
    <3>2. IsWhole(Stream(c))
      BY <2>1, <3>1 DEF Flow, ClientIsWhole
    <3>3. CASE c = s
      <4>1. IsWhole(p \o (B \o X))
        BY <1>7, <3>2, <3>3
      <4>. QED  BY <1>0, <1>13, <1>20, <3>1, <3>3, <4>1
    <3>4. CASE c # s
      BY <1>0, <1>19, <3>1, <3>2, <3>4
    <3>. QED  BY <3>3, <3>4
  <2>. QED  BY <1>0, <2>1 DEF ClientIsWhole
<1>23. GoneIsRead' /\ PartialIsCut'
  BY <1>0, <1>11, <1>14, <1>15 DEF Flow, GoneIsRead, PartialIsCut, Same
<1>24. OneUnread'
  <2>1. ASSUME NEW u \in Socket, NEW t \in Socket, u < t, Accepted(t)'
        PROVE  sock'[u].server # "backlog" /\ sock'[u].bytes = << >>
    <3>1. Accepted(t)
      BY <1>16, <2>1
    <3>2. u # s
      BY <1>5, <2>1, <3>1
    <3>3. Same(u)
      BY <1>15, <3>2
    <3>. QED  BY <2>1, <3>1, <3>3 DEF Flow, OneUnread, Same
  <2>. QED  BY <2>1 DEF OneUnread
<1>25. RowInOrder'
  <2>. DEFINE R == Row
              Q == Row'
              a == MaxSockets + 1
              e == MaxSockets + 2
  <2>1. R \in [Place -> Seq(Half)] /\ Q \in [Place -> Seq(Half)]
    BY LaidType DEF Good, Row, BytesOK
  <2>2. /\ R[0] = H /\ R[a] = pending /\ R[e] = InHalves(buffer)
        /\ \A t \in Socket : R[t] = sock[t].bytes
    BY <1>2, LaidIs DEF Row
  <2>3. /\ Q[0] = H \o l /\ Q[a] = pending /\ Q[e] = InHalves(buffer) /\ Q[s] = b
        /\ \A t \in Socket : t # s => Q[t] = sock[t].bytes
    <3>1. /\ Q[0] = InHalves(handled') /\ Q[a] = pending' /\ Q[e] = InHalves(buffer')
          /\ \A t \in Socket : Q[t] = sock'[t].bytes
      BY LaidIs DEF Row
    <3>. HIDE DEF Q, a, e
    <3>2. Frames(l) \in Seq(Frame) /\ InHalves(Frames(l)) = l
      BY <1>11, <1>13, InHalvesOfFrames
    <3>3. InHalves(handled \o Frames(l)) = InHalves(handled) \o InHalves(Frames(l))
      BY <1>3, <3>2, InHalvesConcat
    <3>4. InHalves(handled') = H \o l
      BY <1>2, <1>14, <3>2, <3>3, Zenon
    <3>5. \A t \in Socket : t # s => sock'[t].bytes = sock[t].bytes
      BY <1>15 DEF Same
    <3>. QED  BY <1>0, <1>15, <3>1, <3>4, <3>5, Zenon
  <2>4. InOrder(R) /\ AllOf(R) \cup lost = 1 .. sent
    BY DEF Flow, RowInOrder
  <2>5. 0 \in Place /\ s \in Place /\ 0 < s
    BY Places
  <2>6. \A k \in Place : k = 0 \/ k \in Socket \/ k = a \/ k = e
    BY Places
  <2>7. \A k \in Place : 0 < k /\ k < s => k \in Socket
    BY Places DEF Place, Socket
  <2>8. NoneBetween(R, 0, s)
    <3>1. Accepted(s)
      BY <1>0 DEF Accepted
    <3>. QED  BY <2>2, <2>7, <3>1 DEF NoneBetween, Flow, OneUnread
  <2>. HIDE DEF R, Q, a, e
  <2>9. SameElsewhere(R, Q, 0, s)
    BY <2>2, <2>3, <2>6 DEF SameElsewhere
  <2>10. Ascends(H) /\ Ascends(B) /\ Before(H, B)
    <3>1. R[0] = H /\ R[s] = B
      BY <1>2, <2>2
    <3>. QED  BY <2>4, <2>5, <3>1 DEF InOrder
  <2>11. Cut(p) /\ Cut(q) /\ Moves(p, B, l, q, b)
    BY <1>2, <1>11, Zenon DEF Flow, PartialIsCut, Cut, Moves
  <2>12. l \in Seq(Half) /\ q \in Seq(Half) /\ b \in Seq(Half)
    BY <1>11
  <2>13. p \in Seq(Half) /\ B \in Seq(Half) /\ H \in Seq(Half)
    BY <1>3
  <2>14. /\ Both(H \o l, b) = Both(H, B)
         /\ Ascends(H \o l) /\ Ascends(b) /\ Before(H \o l, b)
    BY <2>10, <2>11, <2>12, <2>13, ReadMoves
  <2>15. Both(Q[0], Q[s]) = Both(R[0], R[s])
    <3>1. R[s] = B
      BY <1>2, <2>2
    <3>. QED  BY <2>2, <2>3, <2>14, <3>1, Zenon
  <2>16. Ascends(Q[0]) /\ Ascends(Q[s]) /\ Before(Q[0], Q[s])
    BY <2>3, <2>14, Zenon
  <2>17. InOrder(Q) /\ AllOf(Q) = AllOf(R)
    BY <2>1, <2>4, <2>5, <2>8, <2>9, <2>15, <2>16, MovesOn
  <2>18. InOrder(Q) /\ AllOf(Q) \cup lost' = 1 .. sent'
    BY <1>0, <2>4, <2>17, Zenon
  <2>. QED  BY <2>18 DEF RowInOrder, Q
<1>. QED  BY <1>14, <1>21, <1>22, <1>23, <1>24, <1>25 DEF Flow

(* The end of a socket takes its unread bytes with it. *)
LEMMA EndsFlow ==
  ASSUME Good, Good', Flow, NEW s \in Socket, SocketEnds(s)
  PROVE  Flow'
<1>0. /\ handled' = handled /\ partial' = partial /\ dead' = dead /\ sent' = sent
      /\ lost' = lost \cup FramesIn(sock[s].bytes) /\ conn' = conn /\ pending' = pending /\ buffer' = buffer
      /\ sock[s].server = "live"
  BY DEF SocketEnds, goClient, counters
<1>1. /\ s # conn /\ \A t \in Socket : t # s => Same(t)
      /\ sock'[s].client = "closed" /\ sock'[s].server = "gone" /\ sock'[s].bytes = << >>
  BY EndsIs DEF Good
<1>2. \A t \in Socket : Accepted(t)' <=> Accepted(t)
  BY <1>0, <1>1 DEF Accepted, Same
<1>3. \A t \in Socket : t # s => (Latest(t)' <=> Latest(t))
  BY <1>1, <1>2 DEF Latest, Same
<1>4. ASSUME NEW t \in Socket, t # s PROVE Stream(t)' = Stream(t)
  <2>1. (IF Latest(t)' THEN partial' ELSE << >>) = IF Latest(t) THEN partial ELSE << >>
    BY <1>0, <1>3, <1>4
  <2>2. (IF t = conn' THEN pending' ELSE << >>) = IF t = conn THEN pending ELSE << >>
    BY <1>0
  <2>3. sock'[t].bytes = sock[t].bytes
    BY <1>1, <1>4 DEF Same
  <2>. QED  BY <2>1, <2>2, <2>3, Zenon DEF Stream
<1>5. Stream(s)' = << >>
  <2>1. (IF Latest(s)' THEN partial' ELSE << >>) = << >>
    BY <1>1 DEF Latest
  <2>2. (IF s = conn' THEN pending' ELSE << >>) = << >>
    BY <1>0, <1>1
  <2>3. << >> \o (<< >> \o << >>) = << >>
    OBVIOUS
  <2>. QED  BY <1>1, <2>1, <2>2, <2>3, Zenon DEF Stream
<1>6. StreamsFit'
  <2>1. ASSUME NEW t \in Socket PROVE IsJson(Stream(t)')
    <3>1. CASE t = s
      BY <1>5, <3>1, Nothing
    <3>2. CASE t # s
      <4>1. Stream(t)' = Stream(t)
        BY <1>4, <3>2
      <4>. QED  BY <4>1 DEF Flow, StreamsFit
    <3>. QED  BY <3>1, <3>2
  <2>. QED  BY <2>1 DEF StreamsFit
<1>7. ClientIsWhole'
  <2>1. ASSUME conn # 0 PROVE IsWhole(Stream(conn)')
    <3>1. PICK c \in Socket : c = conn
      BY <2>1 DEF Good, SocketInv, SocketsOK
    <3>2. Stream(c)' = Stream(c)
      BY <1>1, <1>4, <3>1
    <3>. QED  BY <1>0, <2>1, <3>1, <3>2 DEF Flow, ClientIsWhole
  <2>. QED  BY <1>0, <2>1 DEF ClientIsWhole
<1>8. GoneIsRead' /\ OneUnread' /\ PartialIsCut'
  BY <1>0, <1>1, <1>2 DEF Flow, GoneIsRead, OneUnread, PartialIsCut, Same
<1>9. RowInOrder'
  <2>. DEFINE R == Row
              Q == Row'
              a == MaxSockets + 1
              e == MaxSockets + 2
  <2>1. R \in [Place -> Seq(Half)] /\ Q \in [Place -> Seq(Half)]
    BY LaidType DEF Good, Row, BytesOK
  <2>2. /\ R[0] = InHalves(handled) /\ R[a] = pending /\ R[e] = InHalves(buffer)
        /\ \A t \in Socket : R[t] = sock[t].bytes
    BY LaidIs DEF Row
  <2>3. /\ Q[0] = InHalves(handled) /\ Q[a] = pending /\ Q[e] = InHalves(buffer) /\ Q[s] = << >>
        /\ \A t \in Socket : t # s => Q[t] = sock[t].bytes
    <3>1. /\ Q[0] = InHalves(handled') /\ Q[a] = pending' /\ Q[e] = InHalves(buffer')
          /\ \A t \in Socket : Q[t] = sock'[t].bytes
      BY LaidIs DEF Row
    <3>. HIDE DEF Q, a, e
    <3>. QED  BY <1>0, <1>1, <3>1 DEF Same
  <2>4. InOrder(R) /\ AllOf(R) \cup lost = 1 .. sent
    BY DEF Flow, RowInOrder
  <2>5. s \in Place /\ \A k \in Place : k = 0 \/ k \in Socket \/ k = a \/ k = e
    BY Places
  <2>. HIDE DEF R, Q, a, e
  <2>6. PICK L, M : L = lost /\ M = lost'
    OBVIOUS
  <2>7. L \subseteq M /\ M \subseteq L \cup AllOf(R) /\ FramesIn(R[s]) \subseteq M
    <3>1. FramesIn(R[s]) \subseteq AllOf(R)
      BY <2>5, AllIs
    <3>. QED  BY <1>0, <2>2, <2>6, <3>1
  <2>8. \A k \in Place : Q[k] = R[k] \/ (Q[k] = << >> /\ FramesIn(R[k]) \subseteq M)
    BY <2>2, <2>3, <2>5, <2>7
  <2>9. InOrder(Q) /\ AllOf(Q) \cup M = AllOf(R) \cup L
    <3>1. IsRow(R) /\ IsRow(Q) /\ InOrder(R)
      BY <2>1, <2>4 DEF IsRow
    <3>2. Emptied(R, Q, L, M)
      BY <2>7, <2>8 DEF Emptied
    <3>. QED  BY <3>1, <3>2, FewerFrames
  <2>10. InOrder(Q) /\ AllOf(Q) \cup lost' = 1 .. sent'
    BY <1>0, <2>4, <2>6, <2>9, Zenon
  <2>. QED  BY <2>10 DEF RowInOrder, Q
<1>. QED  BY <1>0, <1>6, <1>7, <1>8, <1>9 DEF Flow

-----------------------------------------------------------------------------
(* At the start no frame is anywhere. *)
LEMMA InitFlow == Init => FlowInv
<1>. SUFFICES ASSUME Init PROVE FlowInv
  OBVIOUS
<1>1. Good
  BY InitSocket, InitBytes, InitProcess, InitServer DEF Good
<1>2. /\ \A s \in Socket : sock[s].server = "none" /\ sock[s].bytes = << >>
      /\ conn = 0 /\ partial = << >> /\ pending = << >> /\ buffer = << >> /\ handled = << >>
      /\ sent = 0 /\ lost = {} /\ ~dead
  BY DEF Init, NoSocket
<1>3. \A s \in Socket : Stream(s) = << >>
  <2>1. ASSUME NEW s \in Socket PROVE Stream(s) = << >>
    <3>1. Stream(s) = << >> \o (<< >> \o << >>)
      BY <1>2 DEF Stream
    <3>2. << >> \o (<< >> \o << >>) = << >>
      OBVIOUS
    <3>. QED  BY <3>1, <3>2, Zenon
  <2>. QED  BY <2>1
<1>4. GoneIsRead /\ OneUnread /\ PartialIsCut /\ ClientIsWhole
  BY <1>2 DEF GoneIsRead, OneUnread, PartialIsCut, Cut, ClientIsWhole, Accepted
<1>5. StreamsFit
  BY <1>3, Nothing DEF StreamsFit
<1>6. RowInOrder
  <2>1. \A k \in Place : Row[k] = << >>
    BY <1>2, LaidIs, NoHalves, Places DEF Row
  <2>2. \A k \in Place : FramesIn(Row[k]) = {} /\ Ascends(Row[k])
    BY <2>1, Nothing
  <2>3. InOrder(Row)
    BY <2>2 DEF InOrder, Before
  <2>4. AllOf(Row) = {}
    BY <2>2 DEF AllOf
  <2>5. 1 .. 0 = {}
    OBVIOUS
  <2>. QED  BY <1>2, <2>3, <2>4, <2>5 DEF RowInOrder
<1>. QED  BY <1>1, <1>2, <1>4, <1>5, <1>6 DEF FlowInv, Flow

(* Once a socket has been overtaken, or the server stopped, it stays so.   *)
LEMMA CalmBefore == [Next]_vars /\ Calm' => Calm
<1>. SUFFICES ASSUME [Next]_vars, Calm' PROVE Calm
  OBVIOUS
<1>1. ~overtaken' /\ ~stopped'
  BY DEF Calm
<1>2. overtaken => overtaken'
  BY DEF Next, vars, StartProxy, ExitEvent, Restart, Close, Crash, Terminate, Leaves, Dial, Send, WriteHalf,
         ReadLoopEnds, Collected, Accept, Read, SocketEnds
<1>3. stopped => stopped'
  BY DEF Next, vars, manager, StartProxy, ExitEvent, Restart, Close, Crash, Terminate, Leaves, Dial, Send, WriteHalf,
         ReadLoopEnds, Collected, Accept, Read, SocketEnds
<1>. QED  BY <1>1, <1>2, <1>3 DEF Calm

(* Every step keeps the order of the frames. *)
LEMMA FlowStep == FlowInv /\ [Next]_vars => FlowInv'
<1>. SUFFICES ASSUME FlowInv, [Next]_vars PROVE FlowInv'
  OBVIOUS
<1>1. Good /\ Good'
  BY StepKeepsInv, BytesStep, ProcessStep, ServerStep DEF FlowInv, Good
<1>2. SUFFICES ASSUME Calm' PROVE Flow'
  BY <1>1 DEF FlowInv
<1>3. Calm /\ Flow
  <2>1. Calm
    BY <1>2, CalmBefore, Zenon
  <2>. QED  BY <2>1 DEF FlowInv
<1>4. CASE StartProxy \/ ExitEvent \/ Restart \/ UNCHANGED vars
  <2>1. /\ sock' = sock /\ handled' = handled /\ partial' = partial /\ pending' = pending /\ buffer' = buffer
        /\ conn' = conn /\ lost' = lost /\ sent' = sent /\ dead' = dead
    BY <1>4 DEF StartProxy, ExitEvent, Restart, vars, goClient, server, counters
  <2>. QED  BY <1>1, <1>3, <2>1, NothingMoves
<1>5. CASE Close
  BY <1>2, <1>5 DEF Close, Calm
<1>6. CASE Crash \/ Terminate
  BY <1>1, <1>3, <1>6, LeavesFlow DEF Crash, Terminate
<1>7. CASE Dial
  BY <1>1, <1>3, <1>7, DialFlow
<1>8. CASE Send
  BY <1>1, <1>3, <1>8, SendFlow
<1>9. CASE WriteHalf
  BY <1>1, <1>3, <1>9, WriteFlow
<1>10. CASE ReadLoopEnds
  <2>1. /\ sock' = sock /\ handled' = handled /\ partial' = partial /\ pending' = pending /\ buffer' = buffer
        /\ conn' = 0 /\ pending = << >> /\ lost' = lost /\ sent' = sent /\ dead' = dead
    BY <1>10 DEF ReadLoopEnds, server
  <2>. QED  BY <1>1, <1>3, <2>1, NothingMoves
<1>11. ASSUME NEW s \in Socket, Collected(s) PROVE Flow'
  <2>1. /\ handled' = handled /\ partial' = partial /\ pending' = pending /\ buffer' = buffer
        /\ conn' = conn /\ lost' = lost /\ sent' = sent /\ dead' = dead
    BY <1>11 DEF Collected, goClient, server, counters
  <2>2. \A t \in Socket : /\ sock'[t].server = sock[t].server /\ sock'[t].bytes = sock[t].bytes
                          /\ sock'[t].client = sock[t].client \/ sock'[t].client = "closed"
    BY <1>1, <1>11, CollectedIs DEF Good
  <2>. QED  BY <1>1, <1>3, <2>1, <2>2, NothingMoves
<1>12. ASSUME NEW s \in Socket, Accept(s) PROVE Flow'
  BY <1>1, <1>2, <1>3, <1>12, AcceptFlow
<1>13. ASSUME NEW s \in Socket, Read(s) PROVE Flow'
  BY <1>1, <1>3, <1>13, ReadFlow
<1>14. ASSUME NEW s \in Socket, SocketEnds(s) PROVE Flow'
  BY <1>1, <1>3, <1>14, EndsFlow
<1>. QED  BY <1>4, <1>5, <1>6, <1>7, <1>8, <1>9, <1>10, <1>11, <1>12, <1>13, <1>14 DEF Next

(* The row holds the runs of the property, place by place. *)
LEMMA FlowIsOrder == FlowInv => FramesInOrder
<1>. SUFFICES ASSUME FlowInv, ~overtaken, ~stopped PROVE ~dead /\ RowInOrder /\ FramesInOrder
  BY DEF FramesInOrder
<1>1. ~dead /\ RowInOrder
  BY DEF FlowInv, Calm, Flow
<1>2. \A k \in Place : Run(k) = Row[k]
  <2>1. ASSUME NEW k \in Place PROVE Run(k) = Row[k]
    <3>1. /\ Row[0] = InHalves(handled) /\ Row[MaxSockets + 1] = pending /\ Row[MaxSockets + 2] = InHalves(buffer)
          /\ \A s \in Socket : Row[s] = sock[s].bytes
      BY LaidIs DEF Row
    <3>2. MaxSockets + 1 # 0 /\ MaxSockets + 2 # 0 /\ MaxSockets + 2 # MaxSockets + 1
      BY Places
    <3>3. CASE k = 0
      BY <3>1, <3>2, <3>3, Places DEF Run
    <3>4. CASE k \in Socket
      BY <3>1, <3>2, <3>4, Places DEF Run
    <3>5. CASE k = MaxSockets + 1
      BY <3>1, <3>2, <3>5, Places DEF Run
    <3>6. CASE k = MaxSockets + 2
      BY <3>1, <3>2, <3>6, Places DEF Run
    <3>. QED  BY <3>3, <3>4, <3>5, <3>6, Places
  <2>. QED  BY <2>1
<1>3. \A k \in Place : Ascends(Run(k)) /\ \A l \in Place : k < l => Before(Run(k), Run(l))
  BY <1>1, <1>2 DEF RowInOrder, InOrder
<1>4. UNION {FramesIn(Run(k)) : k \in Place} = AllOf(Row)
  BY <1>2 DEF AllOf
<1>5. (UNION {FramesIn(Run(k)) : k \in Place}) \cup lost = 1 .. sent
  BY <1>1, <1>4 DEF RowInOrder
<1>. QED  BY <1>1, <1>3, <1>5 DEF FramesInOrder

(* While no socket is overtaken and the server runs, the server never      *)
(* throws on a line pieced together of two frames (ipc/server.js,          *)
(* JSON.parse on the lines of a chunk), handles frames in the order they   *)
(* were sent, and loses one only where the client does (client.go Send's   *)
(* full buffer, a crash): for any number of sockets, frames and crashes    *)
(* and every way to cut the chunks (protocol.go WriteMessage; server.js,   *)
(* the data handler).                                                      *)
THEOREM FramesKeepTheirOrder == Spec => []FramesInOrder
<1>. QED  BY InitFlow, FlowStep, FlowIsOrder, PTL DEF Spec

-----------------------------------------------------------------------------
(* The flags, and how many processes there can be: one more than have      *)
(* crashed, since none is started once one is told to end.                 *)
FlagsOK ==
  /\ process \in {"none", "runs", "ended"} /\ loop \in {"none", "dialing", "reading"}
  /\ proc \in BOOLEAN /\ stopped \in BOOLEAN /\ timer \in BOOLEAN /\ sigterm \in BOOLEAN
  /\ dead \in BOOLEAN /\ overtaken \in BOOLEAN
CountsOK ==
  /\ exits \in 0 .. MaxExits
  /\ sigterm => stopped
  /\ OneProxyPerCrash
LostOK == lost \subseteq Frame
TypeInv == Good /\ FlagsOK /\ CountsOK /\ LostOK

(* At the start the state has its types. *)
LEMMA InitTypes == Init => TypeInv
<1>. SUFFICES ASSUME Init PROVE TypeInv
  OBVIOUS
<1>1. Good
  BY InitSocket, InitBytes, InitProcess, InitServer DEF Good
<1>2. FlagsOK /\ LostOK
  BY DEF Init, FlagsOK, LostOK
<1>3. CountsOK
  BY SizeAssumption DEF Init, CountsOK, OneProxyPerCrash
<1>. QED  BY <1>1, <1>2, <1>3 DEF TypeInv

(* The flags stay flags. *)
LEMMA FlagsStep == FlagsOK /\ [Next]_vars => FlagsOK'
<1>. SUFFICES ASSUME FlagsOK, [Next]_vars PROVE FlagsOK'
  OBVIOUS
<1>. USE DEF FlagsOK
<1>1. CASE StartProxy \/ ExitEvent \/ Restart
  BY <1>1 DEF StartProxy, ExitEvent, Restart, Spawn, goClient, server, os
<1>2. CASE Close
  BY <1>2 DEF Close, goClient
<1>3. CASE Crash \/ Terminate
  BY <1>3 DEF Crash, Terminate, Leaves, manager, server
<1>4. CASE Dial \/ Send \/ WriteHalf \/ ReadLoopEnds
  BY <1>4 DEF Dial, Send, WriteHalf, ReadLoopEnds, manager, os, server
<1>5. ASSUME NEW s \in Socket, Collected(s) \/ Accept(s) \/ SocketEnds(s) PROVE FlagsOK'
  BY <1>5 DEF Collected, Accept, SocketEnds, manager, os, goClient, server
<1>6. ASSUME NEW s \in Socket, Read(s) PROVE FlagsOK'
  <2>1. dead' = dead \/ dead' = TRUE
    BY <1>6 DEF Read
  <2>. QED  BY <1>6, <2>1 DEF Read, manager, os, goClient
<1>7. CASE UNCHANGED vars
  BY <1>7 DEF vars, manager, os, goClient, server
<1>. QED  BY <1>1, <1>2, <1>3, <1>4, <1>5, <1>6, <1>7 DEF Next

(* Only a crash makes room for one more process. *)
LEMMA CountsStep == FlagsOK /\ ProcessOK /\ CountsOK /\ [Next]_vars => CountsOK'
<1>. SUFFICES ASSUME FlagsOK, ProcessOK, CountsOK, [Next]_vars PROVE CountsOK'
  OBVIOUS
<1>0. MaxExits \in Nat /\ exits \in Nat /\ spawned \in Nat
  BY SizeAssumption DEF CountsOK, OneProxyPerCrash, ProcessOK
<1>1. CASE StartProxy
  BY <1>0, <1>1 DEF StartProxy, Spawn, CountsOK, OneProxyPerCrash, counters
<1>2. CASE ExitEvent
  BY <1>2 DEF ExitEvent, CountsOK, OneProxyPerCrash, counters
<1>3. CASE Restart
  <2>1. CASE stopped
    BY <1>3, <2>1 DEF Restart, CountsOK, OneProxyPerCrash, counters, os
  <2>2. CASE ~stopped
    <3>1. spawned <= exits
      BY <1>3, <2>2 DEF Restart, CountsOK, OneProxyPerCrash, ProcessOK
    <3>. QED  BY <1>0, <1>3, <2>2, <3>1 DEF Restart, Spawn, CountsOK, OneProxyPerCrash, counters
  <2>. QED  BY <2>1, <2>2
<1>4. CASE Close
  BY <1>4 DEF Close, CountsOK, OneProxyPerCrash, counters
<1>5. CASE Crash
  BY <1>0, <1>5 DEF Crash, Leaves, CountsOK, OneProxyPerCrash, manager
<1>6. CASE Terminate
  BY <1>6 DEF Terminate, Leaves, CountsOK, OneProxyPerCrash, manager
<1>7. CASE Dial \/ Send \/ WriteHalf \/ ReadLoopEnds
  BY <1>7 DEF Dial, Send, WriteHalf, ReadLoopEnds, CountsOK, OneProxyPerCrash, manager, os, counters
<1>8. CASE \E s \in Socket : Collected(s) \/ Accept(s) \/ Read(s) \/ SocketEnds(s)
  BY <1>8 DEF Collected, Accept, Read, SocketEnds, CountsOK, OneProxyPerCrash, manager, os, counters
<1>9. CASE UNCHANGED vars
  BY <1>9 DEF vars, CountsOK, OneProxyPerCrash, manager, os, counters
<1>. QED  BY <1>1, <1>2, <1>3, <1>4, <1>5, <1>6, <1>7, <1>8, <1>9 DEF Next

(* What is lost are frames. *)
LEMMA LostStep == SocketInv /\ BytesOK /\ LostOK /\ [Next]_vars => LostOK'
<1>. SUFFICES ASSUME SocketInv, BytesOK, LostOK, [Next]_vars PROVE LostOK'
  OBVIOUS
<1>. USE DEF LostOK
<1>1. CASE StartProxy \/ ExitEvent \/ Restart \/ Close \/ Dial \/ ReadLoopEnds
  BY <1>1 DEF StartProxy, ExitEvent, Restart, Close, Dial, ReadLoopEnds, counters
<1>2. CASE Crash \/ Terminate
  <2>1. FramesIn(pending) \subseteq Frame
    BY FramesInIs DEF BytesOK
  <2>2. ToSet(buffer) \subseteq Frame
    BY DEF ToSet, BytesOK
  <2>3. lost' = lost \cup FramesIn(pending) \cup ToSet(buffer)
    BY <1>2 DEF Crash, Terminate, Leaves
  <2>. QED  BY <2>1, <2>2, <2>3
<1>3. CASE Send
  <2>1. CASE conn # 0
    BY <1>3, <2>1 DEF Send
  <2>2. CASE conn = 0
    <3>1. PICK b : b = Append(buffer, sent + 1)
      OBVIOUS
    <3>2. sent + 1 \in Frame
      BY <1>3, SizeAssumption DEF Send, BytesOK, Frame
    <3>3. b \in Seq(Frame) /\ b # << >>
      BY <3>1, <3>2, AppendIs DEF BytesOK
    <3>4. Head(b) \in Frame
      BY <3>3, HeadAndTail
    <3>. QED  BY <1>3, <2>2, <3>1, <3>4 DEF Send
  <2>. QED  BY <2>1, <2>2
<1>4. CASE WriteHalf
  <2>1. Head(pending) \in Half
    BY <1>4, HeadAndTail DEF WriteHalf, BytesOK
  <2>2. Head(pending).frame \in Frame
    BY <2>1, HalfFields
  <2>. QED  BY <1>4, <2>2 DEF WriteHalf
<1>5. ASSUME NEW s \in Socket, Collected(s) \/ Accept(s) \/ Read(s) PROVE LostOK'
  BY <1>5 DEF Collected, Accept, Read, counters
<1>6. ASSUME NEW s \in Socket, SocketEnds(s) PROVE LostOK'
  <2>1. FramesIn(sock[s].bytes) \subseteq Frame
    BY FramesInIs DEF BytesOK
  <2>. QED  BY <1>6, <2>1 DEF SocketEnds
<1>7. CASE UNCHANGED vars
  BY <1>7 DEF vars
<1>. QED  BY <1>1, <1>2, <1>3, <1>4, <1>5, <1>6, <1>7 DEF Next

(* Every step keeps the types. *)
LEMMA TypesStep == TypeInv /\ [Next]_vars => TypeInv'
<1>. SUFFICES ASSUME TypeInv, [Next]_vars PROVE TypeInv'
  OBVIOUS
<1>1. Good'
  BY StepKeepsInv, BytesStep, ProcessStep, ServerStep DEF TypeInv, Good
<1>2. FlagsOK' /\ CountsOK' /\ LostOK'
  BY FlagsStep, CountsStep, LostStep DEF TypeInv, Good
<1>. QED  BY <1>1, <1>2 DEF TypeInv

(* The state has its types (the fields of ProxyManager, of Client and of   *)
(* IPCServer), for any number of frames, crashes and lines too long.       *)
THEOREM TypesHold == Spec => []TypeOK
<1>1. TypeInv => TypeOK
  <2>. SUFFICES ASSUME TypeInv PROVE TypeOK
    OBVIOUS
  <2>1. spawned \in 0 .. MaxSockets
    <3>1. spawned \in Nat /\ exits \in Nat /\ exits <= MaxExits /\ spawned <= exits + 1
      BY SizeAssumption DEF TypeInv, Good, ProcessOK, CountsOK, OneProxyPerCrash
    <3>2. MaxExits \in Nat /\ MaxLong \in Nat
      BY SizeAssumption
    <3>. QED  BY <3>1, <3>2 DEF MaxSockets
  <2>2. {proc, stopped, timer, sigterm, dead, overtaken} \subseteq BOOLEAN
    BY DEF TypeInv, FlagsOK
  <2>3. process \in {"none", "runs", "ended"} /\ loop \in {"none", "dialing", "reading"} /\ lost \subseteq 1 .. MaxFrames
    BY DEF TypeInv, FlagsOK, LostOK, Frame
  <2>4. conn \in Socket \cup {0} /\ current \in Socket \cup {0}
    BY DEF TypeInv, Good, SocketInv, SocketsOK
  <2>5. /\ buffer \in Seq(1 .. MaxFrames) /\ handled \in Seq(1 .. MaxFrames)
        /\ pending \in Seq(Half) /\ partial \in Seq(Half)
        /\ \A s \in Socket : sock[s].bytes \in Seq(Half)
    BY DEF TypeInv, Good, BytesOK, Frame
  <2>. QED  BY <2>1, <2>2, <2>3, <2>4, <2>5 DEF TypeOK
<1>. QED  BY <1>1, InitTypes, TypesStep, PTL DEF Spec

(* Never a second proxy beside the first: one is started, and one more     *)
(* after each crash, in whatever order exits, their events, the restart    *)
(* timer and stop come (ProxyManager #spawn, its exit handler and stop).   *)
THEOREM NoSecondProxy == Spec => []OneProxyPerCrash
<1>1. TypeInv => OneProxyPerCrash
  BY DEF TypeInv, CountsOK
<1>. QED  BY <1>1, InitTypes, TypesStep, PTL DEF Spec
=============================================================================
