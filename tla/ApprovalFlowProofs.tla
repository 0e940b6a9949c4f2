------------------------- MODULE ApprovalFlowProofs -------------------------
(***************************************************************************)
(* Proofs about ApprovalFlow, for every set of requests, every timeout and *)
(* every buffer size.                                                      *)
(***************************************************************************)
EXTENDS ApprovalFlow, SequenceTheorems, TLAPS

-----------------------------------------------------------------------------
(* The messages of a sequence, and what the sequence operators do to them. *)

(* Appending one frame adds that frame to what is in flight. *)
LEMMA SentAppend ==
  ASSUME NEW S, NEW s \in Seq(S), NEW m \in S
  PROVE  Append(s, m) \in Seq(S) /\ Sent(Append(s, m)) = Sent(s) \cup {m}
<1>1. /\ Append(s, m) \in Seq(S)
      /\ Len(Append(s, m)) = Len(s) + 1
      /\ \A i \in 1 .. Len(s) : Append(s, m)[i] = s[i]
      /\ Append(s, m)[Len(s) + 1] = m
  BY AppendProperties
<1>2. Len(s) \in Nat
  OBVIOUS
<1>. QED  BY <1>1, <1>2 DEF Sent

(* Writing out a batch adds its messages. *)
LEMMA SentConcat ==
  ASSUME NEW S, NEW s \in Seq(S), NEW t \in Seq(S)
  PROVE  s \o t \in Seq(S) /\ Sent(s \o t) \subseteq Sent(s) \cup Sent(t)
<1>1. /\ s \o t \in Seq(S)
      /\ Len(s \o t) = Len(s) + Len(t)
      /\ \A i \in 1 .. Len(s) + Len(t) :
           (s \o t)[i] = IF i <= Len(s) THEN s[i] ELSE t[i - Len(s)]
  BY ConcatProperties
<1>2. Len(s) \in Nat /\ Len(t) \in Nat
  OBVIOUS
<1>. QED  BY <1>1, <1>2 DEF Sent

(* A reader takes a message that was in flight and leaves the others. *)
LEMMA SentTail ==
  ASSUME NEW S, NEW s \in Seq(S), s # <<>>
  PROVE  /\ Head(s) \in S /\ Head(s) \in Sent(s)
         /\ Tail(s) \in Seq(S) /\ Sent(Tail(s)) \subseteq Sent(s)
<1>1. /\ Tail(s) \in Seq(S)
      /\ Len(Tail(s)) = Len(s) - 1
      /\ \A i \in 1 .. Len(Tail(s)) : Tail(s)[i] = s[i + 1]
      /\ Head(s) \in S
  BY HeadTailProperties
<1>2. Len(s) \in Nat \ {0} /\ Head(s) = s[1]
  BY EmptySeq
<1>. QED  BY <1>1, <1>2 DEF Sent

(* What survives of a sequence was in it: a broken socket's prefix, a full *)
(* buffer's newest messages.                                               *)
LEMMA SentSubSeq ==
  ASSUME NEW S, NEW s \in Seq(S), NEW i \in 1 .. Len(s) + 1, NEW j \in 0 .. Len(s)
  PROVE  SubSeq(s, i, j) \in Seq(S) /\ Sent(SubSeq(s, i, j)) \subseteq Sent(s)
<1>1. \A k \in i .. j : s[k] \in S /\ k \in 1 .. Len(s)
  BY ElementOfSeq
<1>2. /\ SubSeq(s, i, j) \in Seq(S)
      /\ Len(SubSeq(s, i, j)) = IF i <= j THEN j - i + 1 ELSE 0
      /\ \A k \in 1 .. j - i + 1 : SubSeq(s, i, j)[k] = s[i + k - 1]
  BY <1>1, SubSeqProperties, Z3
<1>. QED  BY <1>2 DEF Sent

(* A message that finds the queue full drops the oldest of those unsent and joins the rest. *)
LEMMA SentNewest ==
  ASSUME NEW S, NEW s \in Seq(S), NEW n \in Nat
  PROVE  Newest(s, n) \in Seq(S) /\ Sent(Newest(s, n)) \subseteq Sent(s)
<1>1. CASE Len(s) > n
  <2>1. Len(s) - n + 1 \in 1 .. Len(s) + 1 /\ Len(s) \in 0 .. Len(s)
    BY <1>1
  <2>. QED  BY <1>1, <2>1, SentSubSeq DEF Newest
<1>2. CASE ~(Len(s) > n)
  BY <1>2 DEF Newest
<1>. QED  BY <1>1, <1>2

-----------------------------------------------------------------------------
(* Type correctness. *)

(* A frame of the proxy's, sent or buffered, leaves both queues of frames. *)
LEMMA ClientSendType ==
  ASSUME TypeOK, NEW m \in Needed, ClientSend(m)
  PROVE  /\ buffer' \in Seq(Needed) /\ toServer' \in Seq(Needed)
         /\ Sent(buffer') \cup Sent(toServer') \subseteq Sent(buffer) \cup Sent(toServer) \cup {m}
<1>1. buffer \in Seq(Needed) /\ toServer \in Seq(Needed) /\ ProxyBuffer \in Nat
  BY BufferAssumption DEF TypeOK
<1>2. /\ Append(toServer, m) \in Seq(Needed)
      /\ Sent(Append(toServer, m)) = Sent(toServer) \cup {m}
      /\ Append(buffer, m) \in Seq(Needed)
      /\ Sent(Append(buffer, m)) = Sent(buffer) \cup {m}
  BY <1>1, SentAppend
<1>3. /\ Newest(Append(buffer, m), ProxyBuffer) \in Seq(Needed)
      /\ Sent(Newest(Append(buffer, m), ProxyBuffer)) \subseteq Sent(Append(buffer, m))
  BY <1>1, <1>2, SentNewest
<1>. QED  BY <1>1, <1>2, <1>3 DEF ClientSend

(* The same for the messages of the server. *)
LEMMA ServerSendType ==
  ASSUME TypeOK, NEW msgs \in Seq(ToProxy), ServerSend(msgs)
  PROVE  /\ serverBuffer' \in Seq(ToProxy) /\ toProxy' \in Seq(ToProxy)
         /\ Sent(serverBuffer') \cup Sent(toProxy')
              \subseteq Sent(serverBuffer) \cup Sent(toProxy) \cup Sent(msgs)
<1>1. /\ serverBuffer \in Seq(ToProxy) /\ toProxy \in Seq(ToProxy) /\ ServerBuffer \in Nat
      /\ client \in {"none", "live", "dead"}
  BY BufferAssumption DEF TypeOK
<1>2. /\ toProxy \o msgs \in Seq(ToProxy)
      /\ Sent(toProxy \o msgs) \subseteq Sent(toProxy) \cup Sent(msgs)
      /\ serverBuffer \o msgs \in Seq(ToProxy)
      /\ Sent(serverBuffer \o msgs) \subseteq Sent(serverBuffer) \cup Sent(msgs)
  BY <1>1, SentConcat
<1>3. /\ Newest(serverBuffer \o msgs, ServerBuffer) \in Seq(ToProxy)
      /\ Sent(Newest(serverBuffer \o msgs, ServerBuffer)) \subseteq Sent(serverBuffer \o msgs)
  BY <1>1, <1>2, SentNewest
<1>. QED  BY <1>1, <1>2, <1>3 DEF ServerSend

(* The messages a resolution sends: the decision, and perhaps a reload. *)
LEMMA AnswerType ==
  ASSUME NEW r \in Request, NEW a \in Action, NEW c \in BOOLEAN
  PROVE  /\ Answer(r, a, c) \in Seq(ToProxy)
         /\ \A m \in Sent(Answer(r, a, c)) : m \in Resolved => m.ref = r /\ m.action = a
<1>. DEFINE d == [type |-> "approval.resolve", ref |-> r, action |-> a]
            tail == IF c THEN <<Reload>> ELSE <<>>
            msgs == Answer(r, a, c)
<1>1. d \in ToProxy /\ Reload \in ToProxy
  BY DEF ToProxy, Resolved
<1>2. msgs = <<d>> \o tail
  BY DEF Answer
<1>. HIDE DEF d, msgs
<1>3. <<d>> \in Seq(ToProxy) /\ tail \in Seq(ToProxy)
  BY <1>1
<1>4. Sent(<<d>>) = {d} /\ Sent(tail) \subseteq {Reload}
  BY DEF Sent
<1>. HIDE DEF tail
<1>5. /\ <<d>> \o tail \in Seq(ToProxy)
      /\ Sent(<<d>> \o tail) \subseteq Sent(<<d>>) \cup Sent(tail)
  BY <1>3, SentConcat
<1>6. Reload \notin Resolved
  BY DEF Reload, Resolved
<1>7. \A m \in Sent(msgs) : m = d \/ m = Reload
  BY <1>2, <1>4, <1>5
<1>. QED  BY <1>2, <1>5, <1>6, <1>7 DEF d, msgs

(* Empty queues are queues of anything. *)
LEMMA Empty == <<>> \in Seq(Needed) /\ <<>> \in Seq(ToProxy)
  BY EmptySeq

(* A row keeps its type when it is decided or grows older. *)
LEMMA RowTypes ==
  ASSUME TypeOK, NEW e \in Entry, HasRow(e)
  PROVE  /\ queue[e] \in Row
         /\ \A st \in {"pending", "approved", "rejected", "expired"} :
              [queue[e] EXCEPT !.status = st] \in Row
         /\ queue[e].age <= 2 * HoldTimeout => [queue[e] EXCEPT !.age = @ + 1] \in Row
<1>1. queue[e] \in Row
  BY DEF TypeOK, HasRow
<1>. QED  BY <1>1, TimeAssumption DEF Row

(* Every step of the flow keeps every variable in its type. *)
LEMMA TypeStep == TypeOK /\ [Next]_vars => TypeOK'
<1>. SUFFICES ASSUME TypeOK, [Next]_vars PROVE TypeOK'
  OBVIOUS
<1>. USE DEF proxyVars, clientVars, linkVars, serverVars, bounds
<1>1. CASE \E r \in Request : Goroutine(r)
  <2>. PICK r \in Request : Goroutine(r)
    BY <1>1
  <2>1. CASE Hold(r)
    BY <2>1 DEF Hold, TypeOK, Held, Blocked
  <2>2. CASE Ask(r)
    <3>1. [ref |-> r, data |-> TRUE] \in Needed
      BY DEF Needed
    <3>2. buffer' \in Seq(Needed) /\ toServer' \in Seq(Needed)
      BY <2>2, <3>1, ClientSendType DEF Ask
    <3>. QED  BY <2>2, <3>2 DEF Ask, TypeOK, Held, Blocked
  <2>3. CASE TakeDecision(r)
    BY <2>3, TimeAssumption DEF TakeDecision, TypeOK, Held, Blocked
  <2>4. CASE TimerFires(r)
    BY <2>4 DEF TimerFires, TypeOK, Held, Blocked
  <2>5. CASE GiveUp(r)
    BY <2>5, TimeAssumption DEF GiveUp, TypeOK, Held, Blocked
  <2>. QED  BY <2>1, <2>2, <2>3, <2>4, <2>5 DEF Goroutine
<1>2. CASE ClientLoop
  <2>1. CASE Dial
    <3>1. toServer \o buffer \in Seq(Needed)
      BY SentConcat DEF TypeOK
    <3>. QED  BY <2>1, <3>1, Empty DEF Dial, TypeOK, Held, Blocked
  <2>2. CASE StartAnnouncing
    BY <2>2 DEF StartAnnouncing, TypeOK, Held, Blocked
  <2>3. ASSUME NEW r \in Request, Announce(r) PROVE TypeOK'
    <3>1. [ref |-> r, data |-> FALSE] \in Needed
      BY DEF Needed
    <3>2. buffer' \in Seq(Needed) /\ toServer' \in Seq(Needed)
      BY <2>3, <3>1, ClientSendType DEF Announce
    <3>. QED  BY <2>3, <3>2 DEF Announce, TypeOK, Held, Blocked
  <2>4. CASE StartReading
    BY <2>4 DEF StartReading, TypeOK, Held, Blocked
  <2>5. CASE Read
    <3>1. toProxy # <<>> /\ toProxy \in Seq(ToProxy)
      BY <2>5 DEF Read, TypeOK
    <3>2. Head(toProxy) \in ToProxy /\ Tail(toProxy) \in Seq(ToProxy)
      BY <3>1, SentTail
    <3>3. Head(toProxy).type = "approval.resolve" => Head(toProxy) \in Resolved
      BY <3>2 DEF ToProxy, Reload
    <3>4. delivering' \in Resolved \cup {NotDelivering}
      BY <2>5, <3>3 DEF Read, TypeOK
    <3>5. heldRequests' \subseteq Request
      BY <2>5 DEF Read, TypeOK
    <3>. QED  BY <2>5, <3>2, <3>4, <3>5 DEF Read, TypeOK, Held, Blocked
  <2>6. CASE Deliver
    <3>1. delivering \in Resolved
      BY <2>6 DEF Deliver, TypeOK
    <3>2. delivering.action \in Action
      BY <3>1 DEF Resolved
    <3>. QED  BY <2>6, <3>2 DEF Deliver, TypeOK, Held, Blocked
  <2>7. CASE ConnLost
    BY <2>7 DEF ConnLost, TypeOK, Held, Blocked
  <2>. QED  BY <1>2, <2>1, <2>2, <2>3, <2>4, <2>5, <2>6, <2>7 DEF ClientLoop
<1>3. CASE Server
  <2>1. CASE Accept
    <3>1. toProxy \o serverBuffer \in Seq(ToProxy)
      BY SentConcat DEF TypeOK
    <3>. QED  BY <2>1, <3>1, Empty DEF Accept, TypeOK, Held, Blocked
  <2>2. CASE ClientGone
    BY <2>2 DEF ClientGone, TypeOK, Held, Blocked
  <2>3. CASE Enqueue
    <3>1. toServer # <<>> /\ toServer \in Seq(Needed)
      BY <2>3 DEF Enqueue, TypeOK
    <3>2. Head(toServer) \in Needed /\ Tail(toServer) \in Seq(Needed)
      BY <3>1, SentTail
    <3>3. [ref |-> Head(toServer).ref, status |-> "pending", age |-> 0] \in Row
      BY <3>2, TimeAssumption DEF Needed, Row
    <3>4. queue' \in [Entry -> Row \cup {NoRow}]
      BY <2>3, <3>3 DEF Enqueue, TypeOK
    <3>. QED  BY <2>3, <3>2, <3>4 DEF Enqueue, TypeOK, Held, Blocked
  <2>4. CASE ExpireStale
    <3>1. \A e \in Entry : Stale(e) => [queue[e] EXCEPT !.status = "expired"] \in Row
      BY RowTypes DEF Stale, IsPending
    <3>2. queue' \in [Entry -> Row \cup {NoRow}]
      BY <2>4, <3>1 DEF ExpireStale, TypeOK
    <3>. QED  BY <2>4, <3>2 DEF ExpireStale, TypeOK, Held, Blocked
  <2>. QED  BY <1>3, <2>1, <2>2, <2>3, <2>4 DEF Server
<1>4. CASE Operator
  <2>1. PICK e \in Entry, a \in Action, c \in BOOLEAN : Resolve(e, a, c)
    BY <1>4 DEF Operator
  <2>2. HasRow(e) /\ queue[e] \in Row
    BY <2>1, RowTypes DEF Resolve, IsPending
  <2>3. [queue[e] EXCEPT !.status = StatusOf(a)] \in Row
    BY <2>2, RowTypes DEF StatusOf
  <2>4. queue' \in [Entry -> Row \cup {NoRow}]
    BY <2>1, <2>3 DEF Resolve, TypeOK
  <2>5. queue[e].ref \in Request
    BY <2>2 DEF Row
  <2>6. serverBuffer' \in Seq(ToProxy) /\ toProxy' \in Seq(ToProxy)
    BY <2>1, <2>5, AnswerType, ServerSendType DEF Resolve
  <2>. QED  BY <2>1, <2>4, <2>6 DEF Resolve, TypeOK, Held, Blocked
<1>5. CASE Environment
  <2>1. CASE Tick
    <3>1. \A e \in Entry : IsPending(e) /\ queue[e].age <= 2 * HoldTimeout
                           => [queue[e] EXCEPT !.age = @ + 1] \in Row
      BY RowTypes DEF IsPending
    <3>2. queue' \in [Entry -> Row \cup {NoRow}]
      BY <2>1, <3>1 DEF Tick, TypeOK
    <3>3. heldFor' \in [Request -> 0 .. HoldTimeout + Slack]
      BY <2>1, TimeAssumption DEF Tick, TypeOK
    <3>. QED  BY <2>1, <3>2, <3>3 DEF Tick, TypeOK, Held, Blocked
  <2>2. CASE Break
    <3>1. toServer' \in Seq(Needed) /\ toProxy' \in Seq(ToProxy)
      BY <2>2, SentSubSeq DEF Break, TypeOK
    <3>2. breaks' \in 0 .. MaxBreaks
      BY <2>2, BoundAssumption DEF Break, TypeOK
    <3>. QED  BY <2>2, <3>1, <3>2 DEF Break, TypeOK, Held, Blocked
  <2>3. CASE ProxyCrash
    <3>1. toServer' \in Seq(Needed)
      BY <2>3, SentSubSeq DEF ProxyCrash, TypeOK
    <3>2. crashes' \in 0 .. MaxCrashes /\ 0 \in 0 .. HoldTimeout + Slack
      BY <2>3, BoundAssumption, TimeAssumption DEF ProxyCrash, TypeOK
    <3>. QED  BY <2>3, <3>1, <3>2, Empty DEF ProxyCrash, TypeOK, Held, Blocked
  <2>4. CASE ProxyStart
    BY <2>4 DEF ProxyStart, TypeOK, Held, Blocked
  <2>5. CASE ServerCrash
    <3>1. toProxy' \in Seq(ToProxy)
      BY <2>5, SentSubSeq DEF ServerCrash, TypeOK
    <3>2. crashes' \in 0 .. MaxCrashes
      BY <2>5, BoundAssumption DEF ServerCrash, TypeOK
    <3>. QED  BY <2>5, <3>1, <3>2, Empty DEF ServerCrash, TypeOK, Held, Blocked
  <2>6. CASE ServerStart
    BY <2>6 DEF ServerStart, TypeOK, Held, Blocked
  <2>. QED  BY <1>5, <2>1, <2>2, <2>3, <2>4, <2>5, <2>6 DEF Environment
<1>6. CASE UNCHANGED vars
  BY <1>6 DEF vars, TypeOK, Held, Blocked
<1>. QED  BY <1>1, <1>2, <1>3, <1>4, <1>5, <1>6 DEF Next

(* The flow starts in its types. *)
LEMMA TypeInit == Init => TypeOK
<1>1. 0 \in 0 .. MaxBreaks /\ 0 \in 0 .. MaxCrashes /\ 0 \in 0 .. HoldTimeout + Slack
  BY TimeAssumption, BoundAssumption
<1>. QED  BY <1>1, Empty DEF Init, TypeOK

(* Type correctness of the whole flow: in particular no timer runs past    *)
(* its slack and no bound is passed.                                       *)
THEOREM TypeCorrect == Safety => []TypeOK
  BY TypeInit, TypeStep, PTL DEF Safety

-----------------------------------------------------------------------------
(* Decisions. *)

(* A row that is not pending any more is never written again. *)
LEMMA RowsAreFinal ==
  ASSUME TypeOK, [Next]_vars, NEW e \in Entry, HasRow(e), ~IsPending(e)
  PROVE  queue'[e] = queue[e]
<1>. USE DEF proxyVars, clientVars, linkVars, serverVars, bounds
<1>1. queue \in [Entry -> Row \cup {NoRow}]
  BY DEF TypeOK
<1>2. CASE \E r \in Request : Goroutine(r)
  BY <1>2 DEF Goroutine, Hold, Ask, TakeDecision, TimerFires, GiveUp
<1>3. CASE ClientLoop
  BY <1>3 DEF ClientLoop, Dial, StartAnnouncing, Announce, StartReading, Read, Deliver, ConnLost
<1>4. CASE Server
  <2>1. CASE Enqueue
    BY <1>1, <2>1 DEF Enqueue
  <2>2. CASE ExpireStale
    BY <1>1, <2>2 DEF ExpireStale, Stale
  <2>. QED  BY <1>4, <2>1, <2>2 DEF Server, Accept, ClientGone
<1>5. CASE Operator
  BY <1>1, <1>5 DEF Operator, Resolve
<1>6. CASE Environment
  <2>1. CASE Tick
    BY <1>1, <2>1 DEF Tick
  <2>. QED  BY <1>6, <2>1 DEF Environment, Break, ProxyCrash, ProxyStart, ServerCrash, ServerStart
<1>7. CASE UNCHANGED vars
  BY <1>7 DEF vars
<1>. QED  BY <1>2, <1>3, <1>4, <1>5, <1>6, <1>7 DEF Next

(* So what the queue has said about a request it says for ever. *)
LEMMA SettledForEver ==
  ASSUME TypeOK, [Next]_vars, NEW r \in Request, NEW st, st # "pending", Settled(r, st)
  PROVE  Settled(r, st)'
<1>1. PICK e \in Entry : HasRow(e) /\ queue[e].ref = r /\ queue[e].status = st
  BY DEF Settled
<1>2. queue'[e] = queue[e]
  BY <1>1, RowsAreFinal DEF IsPending
<1>. QED  BY <1>1, <1>2 DEF Settled, HasRow

(* No row leaves its decision: neither operators nor the cleanup override  *)
(* one another.                                                            *)
THEOREM DecisionsAreFinal == Safety => DecisionIsFinal
<1>1. TypeOK /\ [Next]_vars
      => [\A e \in Entry : HasRow(e) /\ ~IsPending(e) => queue'[e] = queue[e]]_vars
  BY RowsAreFinal
<1>. QED  BY <1>1, TypeCorrect, PTL DEF Safety, DecisionIsFinal

(* Every step keeps decisions tied to settled rows. *)
LEMMA DecisionStep == TypeOK /\ DecisionsAreSettled /\ [Next]_vars => DecisionsAreSettled'
<1>. SUFFICES ASSUME TypeOK, DecisionsAreSettled, [Next]_vars PROVE DecisionsAreSettled'
  OBVIOUS
<1>. USE DEF proxyVars, clientVars, linkVars, serverVars, bounds
<1>1. \A r \in Request, a \in Action : Settled(r, StatusOf(a)) => Settled(r, StatusOf(a))'
  BY SettledForEver DEF StatusOf
<1>2. \A m \in Resolved : SettledBy(m) => SettledBy(m)'
  BY <1>1 DEF SettledBy, Resolved
<1>3. \A r \in Request : /\ Settled(r, "approved") => Settled(r, "approved")'
                         /\ Settled(r, "rejected") => Settled(r, "rejected")'
  BY SettledForEver
<1>4. /\ pc \in [Request -> {"idle", "forwarded", "rejected", "timedOut", "lost"} \cup Held]
      /\ ch \in [Request -> Action \cup {"empty"}]
  BY DEF TypeOK
<1>. DEFINE Carried  == Sent(toProxy) \cup Sent(serverBuffer)
            SameAnswers == \A r \in Request : pc'[r] \in {"forwarded", "rejected"} => pc'[r] = pc[r]
            SameChannels == \A r \in Request : ch'[r] \in Action => ch'[r] = ch[r]
            SameDelivery == delivering' \in Resolved => delivering' = delivering
<1>5. ASSUME SameAnswers PROVE AnswerIsTheOperators'
  BY <1>3, <1>5 DEF DecisionsAreSettled, AnswerIsTheOperators
<1>6. ASSUME SameChannels
      PROVE  \A r \in Request, a \in Action : ch'[r] = a => Settled(r, StatusOf(a))'
  BY <1>1, <1>6 DEF DecisionsAreSettled
<1>7. ASSUME SameDelivery PROVE \A m \in Resolved : m = delivering' => SettledBy(m)'
  BY <1>2, <1>7 DEF DecisionsAreSettled
<1>8. ASSUME Carried' \subseteq Carried PROVE \A m \in Resolved : m \in Carried' => SettledBy(m)'
  BY <1>2, <1>8 DEF DecisionsAreSettled
<1>. DEFINE Rest == SameAnswers /\ SameChannels /\ SameDelivery /\ Carried' \subseteq Carried
<1>9. ASSUME Rest PROVE DecisionsAreSettled'
  BY <1>5, <1>6, <1>7, <1>8, <1>9 DEF DecisionsAreSettled
<1>10. NotDelivering \notin Resolved /\ "empty" \notin Action
  BY DEF NotDelivering, Resolved, Action
<1>11. CASE \E r \in Request : Goroutine(r)
  <2>. PICK r \in Request : Goroutine(r)
    BY <1>11
  <2>1. CASE TakeDecision(r)
    <3>1. ch[r] \in Action /\ Settled(r, StatusOf(ch[r]))
      BY <1>4, <2>1 DEF TakeDecision, DecisionsAreSettled
    <3>2. AnswerIsTheOperators'
      <4>1. pc'[r] = "forwarded" => ch[r] = "approve"
        BY <1>4, <2>1 DEF TakeDecision
      <4>2. pc'[r] = "rejected" => ch[r] = "reject"
        BY <1>4, <2>1, <3>1 DEF TakeDecision, Action
      <4>3. \A q \in Request \ {r} : pc'[q] = pc[q]
        BY <1>4, <2>1 DEF TakeDecision
      <4>4. pc'[r] = "forwarded" => Settled(r, "approved")'
        BY <1>1, <3>1, <4>1 DEF StatusOf, DecisionsAreSettled, Action
      <4>5. pc'[r] = "rejected" => Settled(r, "rejected")'
        BY <1>1, <3>1, <4>2 DEF StatusOf, DecisionsAreSettled, Action
      <4>. QED  BY <1>3, <4>3, <4>4, <4>5 DEF AnswerIsTheOperators, DecisionsAreSettled
    <3>3. SameChannels
      BY <1>4, <1>10, <2>1 DEF TakeDecision
    <3>4. SameDelivery /\ Carried' = Carried
      BY <2>1 DEF TakeDecision
    <3>. QED  BY <1>6, <1>7, <1>8, <3>2, <3>3, <3>4 DEF DecisionsAreSettled
  <2>2. CASE Hold(r) \/ Ask(r) \/ TimerFires(r) \/ GiveUp(r)
    BY <1>4, <1>9, <2>2 DEF Hold, Ask, TimerFires, GiveUp
  <2>. QED  BY <2>1, <2>2 DEF Goroutine
<1>12. CASE ClientLoop
  <2>1. CASE Read
    <3>1. toProxy # <<>> /\ toProxy \in Seq(ToProxy)
      BY <2>1 DEF Read, TypeOK
    <3>2. /\ Head(toProxy) \in ToProxy /\ Head(toProxy) \in Sent(toProxy)
          /\ Sent(Tail(toProxy)) \subseteq Sent(toProxy)
      BY <3>1, SentTail
    <3>3. Carried' \subseteq Carried
      BY <2>1, <3>2 DEF Read
    <3>4. delivering' # delivering => delivering' = Head(toProxy)
      BY <2>1 DEF Read
    <3>5. \A m \in Resolved : m = delivering' => SettledBy(m)
      BY <3>2, <3>4 DEF DecisionsAreSettled
    <3>6. SameAnswers /\ SameChannels
      BY <2>1 DEF Read
    <3>. QED  BY <1>2, <1>5, <1>6, <1>8, <3>3, <3>5, <3>6 DEF DecisionsAreSettled
  <2>2. CASE Deliver
    <3>1. delivering \in Resolved /\ SettledBy(delivering)
      BY <2>2 DEF Deliver, TypeOK, DecisionsAreSettled
    <3>2. /\ delivering.ref \in Request /\ delivering.action \in Action
          /\ Settled(delivering.ref, StatusOf(delivering.action))
      BY <3>1 DEF SettledBy, Resolved
    <3>3. \A r \in Request : r # delivering.ref => ch'[r] = ch[r]
      BY <1>4, <2>2 DEF Deliver
    <3>4. ch'[delivering.ref] = delivering.action
      BY <1>4, <2>2, <3>2 DEF Deliver
    <3>5. \A r \in Request, a \in Action : ch'[r] = a => Settled(r, StatusOf(a))
      BY <3>2, <3>3, <3>4 DEF DecisionsAreSettled
    <3>6. \A r \in Request, a \in Action : ch'[r] = a => Settled(r, StatusOf(a))'
      BY <1>1, <3>5
    <3>7. SameAnswers /\ SameDelivery /\ Carried' = Carried
      BY <1>10, <2>2 DEF Deliver
    <3>. QED  BY <1>5, <1>7, <1>8, <3>6, <3>7 DEF DecisionsAreSettled
  <2>3. CASE Dial \/ StartAnnouncing \/ (\E r \in Request : Announce(r)) \/ StartReading \/ ConnLost
    BY <1>9, <2>3 DEF Dial, StartAnnouncing, Announce, StartReading, ConnLost
  <2>. QED  BY <1>12, <2>1, <2>2, <2>3 DEF ClientLoop
<1>13. CASE Server
  <2>1. CASE Accept
    <3>1. Sent(toProxy \o serverBuffer) \subseteq Sent(toProxy) \cup Sent(serverBuffer)
      BY SentConcat DEF TypeOK
    <3>2. Sent(<<>>) = {}
      BY DEF Sent
    <3>3. Carried' \subseteq Carried
      BY <2>1, <3>1, <3>2 DEF Accept
    <3>. QED  BY <1>9, <2>1, <3>3 DEF Accept
  <2>2. CASE ClientGone \/ Enqueue \/ ExpireStale
    BY <1>9, <2>2 DEF ClientGone, Enqueue, ExpireStale
  <2>. QED  BY <1>13, <2>1, <2>2 DEF Server
<1>14. CASE Operator
  <2>1. PICK e \in Entry, a \in Action, c \in BOOLEAN : Resolve(e, a, c)
    BY <1>14 DEF Operator
  <2>2. queue[e] \in Row /\ HasRow(e)
    BY <2>1, RowTypes DEF Resolve, IsPending
  <2>3. PICK r \in Request : r = queue[e].ref
    BY <2>2 DEF Row
  <2>. DEFINE msgs == Answer(r, a, c)
  <2>4. ServerSend(msgs)
    BY <2>1, <2>3 DEF Resolve
  <2>5. msgs \in Seq(ToProxy) /\ \A m \in Sent(msgs) : m \in Resolved => m.ref = r /\ m.action = a
    BY AnswerType
  <2>. HIDE DEF msgs
  <2>6. Carried' \subseteq Carried \cup Sent(msgs)
    BY <2>4, <2>5, ServerSendType
  <2>7. Settled(r, StatusOf(a))'
    <3>1. queue' = [queue EXCEPT ![e] = [queue[e] EXCEPT !.status = StatusOf(a)]]
      BY <2>1 DEF Resolve
    <3>2. queue'[e] = [queue[e] EXCEPT !.status = StatusOf(a)]
      BY <3>1 DEF TypeOK
    <3>3. queue'[e] \in Row
      BY <2>2, <3>2, RowTypes DEF StatusOf
    <3>4. queue'[e].ref = r /\ queue'[e].status = StatusOf(a)
      BY <2>2, <2>3, <3>2 DEF Row
    <3>. QED  BY <3>3, <3>4, NoRowAssumption DEF Settled, HasRow
  <2>8. \A m \in Resolved : m \in Sent(msgs) => SettledBy(m)'
    BY <2>5, <2>7 DEF SettledBy
  <2>9. \A m \in Resolved : m \in Carried' => SettledBy(m)'
    BY <1>2, <2>6, <2>8 DEF DecisionsAreSettled
  <2>10. SameAnswers /\ SameChannels /\ SameDelivery
    BY <2>1 DEF Resolve
  <2>. QED  BY <1>5, <1>6, <1>7, <2>9, <2>10 DEF DecisionsAreSettled
<1>15. CASE Environment
  <2>1. CASE Break
    <3>1. Carried' \subseteq Carried
      BY <2>1, SentSubSeq DEF Break, TypeOK
    <3>. QED  BY <1>9, <2>1, <3>1 DEF Break
  <2>2. CASE ServerCrash
    <3>1. Sent(<<>>) = {}
      BY DEF Sent
    <3>2. Carried' \subseteq Carried
      BY <2>2, <3>1, SentSubSeq DEF ServerCrash, TypeOK
    <3>. QED  BY <1>9, <2>2, <3>2 DEF ServerCrash
  <2>3. CASE ProxyCrash
    <3>1. Sent(<<>>) = {}
      BY DEF Sent
    <3>2. Carried' \subseteq Carried
      BY <2>3, <3>1 DEF ProxyCrash
    <3>3. SameAnswers /\ SameChannels /\ SameDelivery
      BY <1>4, <1>10, <2>3 DEF ProxyCrash
    <3>. QED  BY <1>9, <3>2, <3>3
  <2>4. CASE Tick \/ ProxyStart \/ ServerStart
    BY <1>9, <2>4 DEF Tick, ProxyStart, ServerStart
  <2>. QED  BY <1>15, <2>1, <2>2, <2>3, <2>4 DEF Environment
<1>16. CASE UNCHANGED vars
  BY <1>9, <1>16 DEF vars
<1>. QED  BY <1>11, <1>12, <1>13, <1>14, <1>15, <1>16 DEF Next

(* At the start nothing carries a decision. *)
LEMMA DecisionInit == Init => DecisionsAreSettled
  BY DEF Init, DecisionsAreSettled, AnswerIsTheOperators, Sent, NotDelivering, Resolved, Action

(* Whatever is lost, delayed, repeated or restarted: the proxy forwards a  *)
(* held request only if an operator approved that request, and it rejects  *)
(* one only if an operator rejected it.                                    *)
THEOREM AnswersAreTheOperators == Safety => []AnswerIsTheOperators
<1>1. DecisionsAreSettled => AnswerIsTheOperators
  BY DEF DecisionsAreSettled
<1>. QED  BY <1>1, DecisionInit, DecisionStep, TypeCorrect, PTL DEF Safety

-----------------------------------------------------------------------------
(* Time. *)

(* Every step keeps rows younger than the holds they ask about.            *)
LEMMA YoungerStep == TypeOK /\ RowsAreYounger /\ [Next]_vars => RowsAreYounger'
<1>. SUFFICES ASSUME TypeOK, RowsAreYounger, [Next]_vars PROVE RowsAreYounger'
  OBVIOUS
<1>. USE DEF proxyVars, clientVars, linkVars, serverVars, bounds
<1>. DEFINE Asked == Sent(buffer) \cup Sent(toServer)
            Early == {"idle", "registered"}
            Younger(e) == pc[queue[e].ref] \in Blocked => queue[e].age <= heldFor[queue[e].ref]
            RowOK(e) == HasRow(e) => /\ pc[queue[e].ref] \notin Early
                                     /\ queue[e].status = "pending" => Younger(e)
                                     /\ queue[e].status = "expired" => pc[queue[e].ref] \notin Held
            FramesOK == \A m \in Needed : m \in Asked /\ m.data => pc[m.ref] \notin Early
            RowsOK == \A e \in Entry : RowOK(e)
<1>1. FramesOK /\ RowsOK
  BY DEF RowsAreYounger, LiveHoldNeverExpires, IsPending
<1>2. ASSUME FramesOK', RowsOK' PROVE RowsAreYounger'
  BY <1>2 DEF RowsAreYounger, LiveHoldNeverExpires, IsPending
<1>3. /\ pc \in [Request -> {"idle", "forwarded", "rejected", "timedOut", "lost"} \cup Held]
      /\ heldFor \in [Request -> 0 .. HoldTimeout + Slack]
      /\ queue \in [Entry -> Row \cup {NoRow}]
  BY DEF TypeOK
<1>4. \A e \in Entry : HasRow(e) => /\ queue[e] \in Row
                                    /\ queue[e].ref \in Request
                                    /\ queue[e].age \in 0 .. 2 * HoldTimeout + 1
  BY <1>3 DEF HasRow, Row
<1>5. \A m \in Needed : m.ref \in Request
  BY DEF Needed
<1>. DEFINE Onwards == \A r \in Request : pc[r] \notin Early => pc'[r] \notin Early
            NoNewHolds == \A r \in Request : pc'[r] \in Held => pc[r] \in Held \/ pc[r] = "idle"
            SameBlocked == \A r \in Request :
              pc'[r] \in Blocked => pc[r] = "registered" \/ (pc[r] \in Blocked /\ heldFor'[r] = heldFor[r])
<1>6. ASSUME Onwards, Asked' \subseteq Asked PROVE FramesOK'
  BY <1>1, <1>5, <1>6
<1>7. ASSUME Onwards, NoNewHolds, SameBlocked, queue' = queue PROVE RowsOK'
  <2>. SUFFICES ASSUME NEW e \in Entry, HasRow(e)' PROVE RowOK(e)'
    OBVIOUS
  <2>1. HasRow(e) /\ RowOK(e) /\ queue'[e] = queue[e]
    BY <1>1, <1>7 DEF HasRow
  <2>. QED  BY <1>4, <1>7, <2>1
<1>. HIDE DEF RowOK, FramesOK, RowsOK
<1>8. CASE \E r \in Request : Goroutine(r)
  <2>. PICK r \in Request : Goroutine(r)
    BY <1>8
  <2>1. CASE Ask(r)
    <3>1. [ref |-> r, data |-> TRUE] \in Needed
      BY DEF Needed
    <3>2. Asked' \subseteq Asked \cup {[ref |-> r, data |-> TRUE]}
      BY <2>1, <3>1, ClientSendType DEF Ask
    <3>3. Onwards /\ NoNewHolds /\ SameBlocked /\ pc'[r] \notin Early /\ queue' = queue
      BY <1>3, <2>1 DEF Ask, Held, Blocked
    <3>4. FramesOK'
      BY <1>1, <1>5, <3>2, <3>3 DEF FramesOK
    <3>. QED  BY <1>2, <1>7, <3>3, <3>4
  <2>2. CASE Hold(r)
    <3>1. Onwards /\ NoNewHolds /\ SameBlocked /\ queue' = queue /\ Asked' = Asked
      BY <1>3, <2>2 DEF Hold, Held, Blocked
    <3>. QED  BY <1>2, <1>6, <1>7, <3>1
  <2>3. CASE TakeDecision(r) \/ TimerFires(r) \/ GiveUp(r)
    <3>1. Onwards /\ NoNewHolds /\ SameBlocked /\ queue' = queue /\ Asked' = Asked
      BY <1>3, <2>3 DEF TakeDecision, TimerFires, GiveUp, Held, Blocked
    <3>. QED  BY <1>2, <1>6, <1>7, <3>1
  <2>. QED  BY <2>1, <2>2, <2>3 DEF Goroutine
<1>9. CASE ClientLoop
  <2>1. Onwards /\ NoNewHolds /\ SameBlocked /\ queue' = queue
    BY <1>9 DEF ClientLoop, Dial, StartAnnouncing, Announce, StartReading, Read, Deliver, ConnLost
  <2>2. CASE Dial
    <3>1. Sent(<<>>) = {}
      BY DEF Sent
    <3>2. Sent(toServer \o buffer) \subseteq Asked
      BY SentConcat DEF TypeOK
    <3>3. Asked' \subseteq Asked
      BY <2>2, <3>1, <3>2 DEF Dial
    <3>. QED  BY <1>2, <1>6, <1>7, <2>1, <3>3
  <2>3. ASSUME NEW r \in Request, Announce(r) PROVE RowsAreYounger'
    <3>1. [ref |-> r, data |-> FALSE] \in Needed
      BY DEF Needed
    <3>2. Asked' \subseteq Asked \cup {[ref |-> r, data |-> FALSE]}
      BY <2>3, <3>1, ClientSendType DEF Announce
    <3>3. FramesOK'
      BY <1>1, <1>5, <2>1, <3>2 DEF FramesOK
    <3>. QED  BY <1>2, <1>7, <2>1, <3>3
  <2>4. CASE StartAnnouncing \/ StartReading \/ Read \/ Deliver \/ ConnLost
    <3>1. Asked' = Asked
      BY <2>4 DEF StartAnnouncing, StartReading, Read, Deliver, ConnLost
    <3>. QED  BY <1>2, <1>6, <1>7, <2>1, <3>1
  <2>. QED  BY <1>9, <2>2, <2>3, <2>4 DEF ClientLoop
<1>10. CASE Server
  <2>1. Onwards /\ NoNewHolds /\ SameBlocked /\ pc' = pc /\ heldFor' = heldFor
    BY <1>10 DEF Server, Accept, ClientGone, Enqueue, ExpireStale
  <2>2. CASE Enqueue
    <3>1. toServer # <<>> /\ toServer \in Seq(Needed)
      BY <2>2 DEF Enqueue, TypeOK
    <3>2. /\ Head(toServer) \in Needed /\ Head(toServer) \in Sent(toServer)
          /\ Sent(Tail(toServer)) \subseteq Sent(toServer)
      BY <3>1, SentTail
    <3>3. FramesOK'
      BY <1>6, <2>1, <2>2, <3>2 DEF Enqueue
    <3>4. CASE queue' = queue
      BY <1>2, <1>7, <2>1, <3>3, <3>4
    <3>5. CASE queue' # queue
      <4>. DEFINE m == Head(toServer)
                  row == [ref |-> m.ref, status |-> "pending", age |-> 0]
      <4>1. m.data /\ \E e \in Entry : queue' = [queue EXCEPT ![e] = row]
        BY <2>2, <3>5 DEF Enqueue
      <4>2. PICK e \in Entry : queue' = [queue EXCEPT ![e] = row]
        BY <4>1
      <4>3. m.ref \in Request /\ pc[m.ref] \notin Early
        BY <1>1, <1>5, <3>2, <4>1 DEF FramesOK
      <4>4. heldFor[m.ref] >= 0
        BY <1>3, <4>3, TimeAssumption
      <4>5. queue'[e] = row /\ \A f \in Entry \ {e} : queue'[f] = queue[f]
        BY <1>3, <4>2
      <4>. HIDE DEF m
      <4>6. RowOK(e)'
        BY <2>1, <4>3, <4>4, <4>5 DEF RowOK
      <4>7. \A f \in Entry \ {e} : RowOK(f)'
        BY <1>1, <2>1, <4>5 DEF RowOK, RowsOK, HasRow
      <4>. QED  BY <1>2, <3>3, <4>6, <4>7 DEF RowsOK
    <3>. QED  BY <3>4, <3>5
  <2>3. CASE ExpireStale
    <3>1. FramesOK'
      BY <1>6, <2>1, <2>3 DEF ExpireStale
    <3>2. ASSUME NEW e \in Entry, Stale(e) PROVE RowOK(e)'
      <4>1. HasRow(e) /\ queue[e].status = "pending" /\ queue[e].age > 2 * HoldTimeout
        BY <3>2 DEF Stale, IsPending
      <4>2. RowOK(e) /\ queue[e].ref \in Request
        BY <1>1, <1>4, <4>1 DEF RowsOK
      <4>3. pc[queue[e].ref] \notin Blocked
        BY <1>3, <4>1, <4>2, <1>4, TimeAssumption DEF RowOK
      <4>4. pc[queue[e].ref] \notin Held
        BY <4>1, <4>2, <4>3 DEF RowOK, Held
      <4>5. queue'[e].ref = queue[e].ref /\ queue'[e].status = "expired"
        BY <1>4, <2>3, <3>2, <4>1 DEF ExpireStale, Row
      <4>. QED  BY <2>1, <4>1, <4>2, <4>4, <4>5 DEF RowOK
    <3>3. ASSUME NEW e \in Entry, ~Stale(e) PROVE RowOK(e)'
      <4>1. queue'[e] = queue[e]
        BY <2>3, <3>3 DEF ExpireStale
      <4>. QED  BY <1>1, <2>1, <4>1 DEF RowOK, RowsOK, HasRow
    <3>. QED  BY <1>2, <3>1, <3>2, <3>3 DEF RowsOK
  <2>4. CASE Accept \/ ClientGone
    <3>1. queue' = queue /\ Asked' = Asked
      BY <2>4 DEF Accept, ClientGone
    <3>. QED  BY <1>2, <1>6, <1>7, <2>1, <3>1
  <2>. QED  BY <1>10, <2>2, <2>3, <2>4 DEF Server
<1>11. CASE Operator
  <2>1. PICK e \in Entry, a \in Action, c \in BOOLEAN : Resolve(e, a, c)
    BY <1>11 DEF Operator
  <2>2. Onwards /\ pc' = pc /\ heldFor' = heldFor /\ Asked' = Asked
    BY <2>1 DEF Resolve
  <2>3. HasRow(e) /\ RowOK(e) /\ queue[e] \in Row
    BY <1>1, <1>4, <2>1 DEF Resolve, IsPending, RowsOK
  <2>4. queue' = [queue EXCEPT ![e] = [queue[e] EXCEPT !.status = StatusOf(a)]]
    BY <2>1 DEF Resolve
  <2>5. queue'[e] = [queue[e] EXCEPT !.status = StatusOf(a)]
    BY <1>3, <2>4
  <2>6. queue'[e].ref = queue[e].ref /\ queue'[e].status \notin {"pending", "expired"}
    BY <2>3, <2>5 DEF StatusOf, Row
  <2>7. RowOK(e)'
    BY <2>2, <2>3, <2>6 DEF RowOK
  <2>8. \A f \in Entry \ {e} : RowOK(f)'
    BY <1>1, <1>3, <2>2, <2>4 DEF RowOK, RowsOK, HasRow
  <2>9. FramesOK'
    BY <1>6, <2>2
  <2>. QED  BY <1>2, <2>7, <2>8, <2>9 DEF RowsOK
<1>12. CASE Environment
  <2>1. CASE Tick
    <3>1. pc' = pc /\ Asked' = Asked /\ Onwards
      BY <2>1 DEF Tick
    <3>2. ASSUME NEW e \in Entry, HasRow(e)' PROVE RowOK(e)'
      <4>1. HasRow(e)
        BY <2>1, <3>2 DEF Tick, HasRow, IsPending
      <4>2. queue[e] \in Row /\ queue[e].ref \in Request /\ RowOK(e)
        BY <1>1, <1>4, <4>1 DEF RowsOK
      <4>3. /\ queue'[e].ref = queue[e].ref /\ queue'[e].status = queue[e].status
            /\ queue'[e].age <= queue[e].age + 1
        BY <2>1, <4>2, TimeAssumption DEF Tick, Row
      <4>4. pc[queue[e].ref] \in Blocked => heldFor'[queue[e].ref] = heldFor[queue[e].ref] + 1
        BY <2>1, <4>2 DEF Tick
      <4>5. queue'[e].age \in Int /\ queue[e].age \in Int /\ heldFor[queue[e].ref] \in Int
        BY <1>3, <2>1, <4>2, TimeAssumption DEF Tick, Row
      <4>. QED  BY <3>1, <4>1, <4>2, <4>3, <4>4, <4>5 DEF RowOK
    <3>3. RowsOK'
      BY <3>2 DEF RowsOK, RowOK
    <3>. QED  BY <1>2, <1>6, <3>1, <3>3
  <2>2. CASE Break
    <3>1. Onwards /\ NoNewHolds /\ SameBlocked /\ queue' = queue
      BY <2>2 DEF Break
    <3>2. Asked' \subseteq Asked
      BY <2>2, SentSubSeq DEF Break, TypeOK
    <3>. QED  BY <1>2, <1>6, <1>7, <3>1, <3>2
  <2>3. CASE ProxyCrash
    <3>1. Onwards /\ NoNewHolds /\ SameBlocked /\ queue' = queue
      BY <1>3, <2>3 DEF ProxyCrash, Held, Blocked
    <3>2. Sent(<<>>) = {}
      BY DEF Sent
    <3>3. Asked' \subseteq Asked
      BY <2>3, <3>2, SentSubSeq DEF ProxyCrash, TypeOK
    <3>. QED  BY <1>2, <1>6, <1>7, <3>1, <3>3
  <2>4. CASE ServerCrash
    <3>1. Onwards /\ NoNewHolds /\ SameBlocked /\ queue' = queue
      BY <2>4 DEF ServerCrash
    <3>2. Sent(<<>>) = {}
      BY DEF Sent
    <3>3. Asked' \subseteq Asked
      BY <2>4, <3>2 DEF ServerCrash
    <3>. QED  BY <1>2, <1>6, <1>7, <3>1, <3>3
  <2>5. CASE ProxyStart \/ ServerStart
    <3>1. Onwards /\ NoNewHolds /\ SameBlocked /\ queue' = queue /\ Asked' = Asked
      BY <2>5 DEF ProxyStart, ServerStart
    <3>. QED  BY <1>2, <1>6, <1>7, <3>1
  <2>. QED  BY <1>12, <2>1, <2>2, <2>3, <2>4, <2>5 DEF Environment
<1>13. CASE UNCHANGED vars
  <2>1. Onwards /\ NoNewHolds /\ SameBlocked /\ queue' = queue /\ Asked' = Asked
    BY <1>13 DEF vars
  <2>. QED  BY <1>2, <1>6, <1>7, <2>1
<1>. QED  BY <1>8, <1>9, <1>10, <1>11, <1>12, <1>13 DEF Next

(* At the start there are neither frames nor rows. *)
LEMMA YoungerInit == Init => RowsAreYounger
  BY DEF Init, RowsAreYounger, LiveHoldNeverExpires, Sent, HasRow, IsPending

(* For every hold timeout, and every scheduling delay up to a further hold *)
(* timeout, the cleanup at twice the timeout never closes the question of  *)
(* a request the proxy still holds.                                        *)
THEOREM LiveHoldsNeverExpire == Safety => []LiveHoldNeverExpires
<1>1. RowsAreYounger => LiveHoldNeverExpires
  BY DEF RowsAreYounger
<1>. QED  BY <1>1, YoungerInit, YoungerStep, TypeCorrect, PTL DEF Safety

-----------------------------------------------------------------------------
(* Channels. *)

(* Nothing decides a request before it is asked about. *)
LEMMA IdleIsUndecided ==
  ASSUME TypeOK, DecisionsAreSettled, RowsAreYounger, NEW r \in Request, pc[r] = "idle"
  PROVE  ch[r] = "empty" /\ \A m \in Resolved : m = delivering => m.ref # r
<1>1. \A st : ~Settled(r, st)
  BY DEF Settled, RowsAreYounger
<1>2. ch[r] \in Action \cup {"empty"}
  BY DEF TypeOK
<1>. QED  BY <1>1, <1>2 DEF DecisionsAreSettled, SettledBy

(* Every step keeps an empty channel for every decision still to come. *)
LEMMA ChannelStep ==
  TypeOK /\ DecisionsAreSettled /\ RowsAreYounger /\ ChannelsAreFree /\ [Next]_vars => ChannelsAreFree'
<1>. SUFFICES ASSUME TypeOK, DecisionsAreSettled, RowsAreYounger, ChannelsAreFree, [Next]_vars
              PROVE  ChannelsAreFree'
  OBVIOUS
<1>. USE DEF proxyVars, clientVars, linkVars, serverVars, bounds
<1>1. /\ pc \in [Request -> {"idle", "forwarded", "rejected", "timedOut", "lost"} \cup Held]
      /\ ch \in [Request -> Action \cup {"empty"}]
      /\ heldRequests \subseteq Request
  BY DEF TypeOK
<1>2. \A m \in Resolved : m.ref \in Request
  BY DEF Resolved
<1>. DEFINE Alive == \A r \in Request : pc[r] \in Held => pc'[r] \in Held
<1>3. ASSUME Alive, heldRequests' \subseteq heldRequests, ch' = ch, delivering' = delivering
      PROVE  ChannelsAreFree'
  BY <1>1, <1>3 DEF ChannelsAreFree, NoForgottenChannel, ChannelIsFree
<1>4. CASE \E r \in Request : Goroutine(r)
  <2>. PICK r \in Request : Goroutine(r)
    BY <1>4
  <2>1. CASE Hold(r)
    <3>1. ch[r] = "empty" /\ \A m \in Resolved : m = delivering => m.ref # r
      BY <2>1, IdleIsUndecided DEF Hold
    <3>. QED  BY <1>1, <2>1, <3>1
              DEF Hold, Held, Blocked, ChannelsAreFree, NoForgottenChannel, ChannelIsFree
  <2>2. CASE TakeDecision(r)
    <3>1. \A q \in Request : q # r => pc'[q] = pc[q] /\ ch'[q] = ch[q]
      BY <1>1, <2>2 DEF TakeDecision
    <3>2. r \notin heldRequests /\ \A m \in Resolved : m = delivering => m.ref # r
      BY <2>2 DEF TakeDecision, ChannelsAreFree, ChannelIsFree
    <3>3. heldRequests' = heldRequests /\ delivering' = delivering
      BY <2>2 DEF TakeDecision
    <3>. QED  BY <1>1, <1>2, <3>1, <3>2, <3>3 DEF ChannelsAreFree, NoForgottenChannel, ChannelIsFree
  <2>3. CASE GiveUp(r)
    <3>1. \A q \in Request : q # r => pc'[q] = pc[q]
      BY <1>1, <2>3 DEF GiveUp
    <3>. QED  BY <1>1, <2>3, <3>1 DEF GiveUp, ChannelsAreFree, NoForgottenChannel, ChannelIsFree
  <2>4. CASE Ask(r) \/ TimerFires(r)
    BY <1>1, <1>3, <2>4 DEF Ask, TimerFires, Held, Blocked
  <2>. QED  BY <2>1, <2>2, <2>3, <2>4 DEF Goroutine
<1>5. CASE ClientLoop
  <2>1. CASE Read
    <3>1. pc' = pc /\ ch' = ch /\ heldRequests' \subseteq heldRequests
      BY <2>1 DEF Read
    <3>2. CASE delivering' = delivering
      BY <1>3, <3>1, <3>2
    <3>3. CASE delivering' # delivering
      <4>1. /\ delivering'.ref \in heldRequests
            /\ heldRequests' = heldRequests \ {delivering'.ref}
        BY <2>1, <3>3 DEF Read
      <4>. QED  BY <3>1, <4>1 DEF ChannelsAreFree, NoForgottenChannel, ChannelIsFree
    <3>. QED  BY <3>2, <3>3
  <2>2. CASE Deliver
    <3>1. /\ delivering \in Resolved /\ delivering.ref \notin heldRequests
          /\ delivering' = NotDelivering /\ NotDelivering \notin Resolved
      BY <2>2 DEF Deliver, TypeOK, ChannelsAreFree, NotDelivering, Resolved
    <3>2. pc' = pc /\ heldRequests' = heldRequests
      BY <2>2 DEF Deliver
    <3>3. \A r \in heldRequests : ch'[r] = ch[r]
      BY <1>1, <2>2, <3>1 DEF Deliver
    <3>. QED  BY <3>1, <3>2, <3>3 DEF ChannelsAreFree, NoForgottenChannel, ChannelIsFree
  <2>3. CASE Dial \/ StartAnnouncing \/ (\E r \in Request : Announce(r)) \/ StartReading \/ ConnLost
    BY <1>3, <2>3 DEF Dial, StartAnnouncing, Announce, StartReading, ConnLost
  <2>. QED  BY <1>5, <2>1, <2>2, <2>3 DEF ClientLoop
<1>6. CASE Server \/ Operator
  BY <1>3, <1>6 DEF Server, Accept, ClientGone, Enqueue, ExpireStale, Operator, Resolve
<1>7. CASE Environment
  <2>1. CASE ProxyCrash
    <3>1. NotDelivering \notin Resolved
      BY DEF NotDelivering, Resolved
    <3>. QED  BY <2>1, <3>1 DEF ProxyCrash, ChannelsAreFree, NoForgottenChannel, ChannelIsFree
  <2>2. CASE Tick \/ Break \/ ProxyStart \/ ServerCrash \/ ServerStart
    BY <1>3, <2>2 DEF Tick, Break, ProxyStart, ServerCrash, ServerStart
  <2>. QED  BY <1>7, <2>1, <2>2 DEF Environment
<1>8. CASE UNCHANGED vars
  BY <1>3, <1>8 DEF vars
<1>. QED  BY <1>4, <1>5, <1>6, <1>7, <1>8 DEF Next

(* No goroutine waits when the proxy starts. *)
LEMMA ChannelInit == Init => ChannelsAreFree
  BY DEF Init, ChannelsAreFree, NoForgottenChannel, ChannelIsFree, NotDelivering, Resolved

(* The map of held requests names only goroutines that still wait: nothing *)
(* leaks, and nothing is re-announced for a request that has its answer.   *)
THEOREM NoChannelIsForgotten == Safety => []NoForgottenChannel
<1>1. ChannelsAreFree => NoForgottenChannel
  BY DEF ChannelsAreFree
<1>. QED  BY <1>1, ChannelInit, ChannelStep, DecisionInit, DecisionStep,
             YoungerInit, YoungerStep, TypeCorrect, PTL DEF Safety

(* The decision the read loop is about to send always finds room in its    *)
(* channel of capacity one, so the loop does not block on a held request.  *)
THEOREM ReaderFindsRoom == Safety => []ChannelIsFree
<1>1. ChannelsAreFree => ChannelIsFree
  BY DEF ChannelsAreFree
<1>. QED  BY <1>1, ChannelInit, ChannelStep, DecisionInit, DecisionStep,
             YoungerInit, YoungerStep, TypeCorrect, PTL DEF Safety

-----------------------------------------------------------------------------
(* Questions. *)

(* A question that is nowhere in a queue may join it. *)
LEMMA OnceAppend ==
  ASSUME NEW s \in Seq(Needed), NEW m \in Needed, Once(s), m.data => m.ref \notin Questions(s)
  PROVE  /\ Once(Append(s, m))
         /\ Questions(Append(s, m)) \subseteq Questions(s) \cup {m.ref}
         /\ ~m.data => Questions(Append(s, m)) \subseteq Questions(s)
<1>1. /\ Len(Append(s, m)) = Len(s) + 1
      /\ \A i \in 1 .. Len(s) : Append(s, m)[i] = s[i]
      /\ Append(s, m)[Len(s) + 1] = m
  BY AppendProperties
<1>2. Len(s) \in Nat
  OBVIOUS
<1>. QED  BY <1>1, <1>2 DEF Once, Questions

(* Two queues without a common question may be joined. *)
LEMMA OnceConcat ==
  ASSUME NEW s \in Seq(Needed), NEW t \in Seq(Needed), Once(s), Once(t),
         Questions(s) \cap Questions(t) = {}
  PROVE  Once(s \o t) /\ Questions(s \o t) \subseteq Questions(s) \cup Questions(t)
<1>1. /\ Len(s \o t) = Len(s) + Len(t)
      /\ \A i \in 1 .. Len(s) + Len(t) :
           (s \o t)[i] = IF i <= Len(s) THEN s[i] ELSE t[i - Len(s)]
  BY ConcatProperties
<1>2. Len(s) \in Nat /\ Len(t) \in Nat
  OBVIOUS
<1>3. \A i \in 1 .. Len(s) : s[i].data => s[i].ref \in Questions(s)
  BY DEF Questions
<1>4. \A i \in 1 .. Len(t) : t[i].data => t[i].ref \in Questions(t)
  BY DEF Questions
<1>5. ASSUME NEW i \in 1 .. Len(s \o t), NEW j \in 1 .. Len(s \o t),
             (s \o t)[i].data, (s \o t)[j].data, (s \o t)[i].ref = (s \o t)[j].ref
      PROVE  i = j
  <2>1. CASE i <= Len(s) /\ j <= Len(s)
    BY <1>1, <1>2, <1>5, <2>1 DEF Once
  <2>2. CASE i > Len(s) /\ j > Len(s)
    <3>1. i - Len(s) \in 1 .. Len(t) /\ j - Len(s) \in 1 .. Len(t)
      BY <1>1, <1>2, <2>2
    <3>2. (s \o t)[i] = t[i - Len(s)] /\ (s \o t)[j] = t[j - Len(s)]
      BY <1>1, <1>2, <2>2
    <3>3. i - Len(s) = j - Len(s)
      BY <1>5, <3>1, <3>2 DEF Once
    <3>. QED  BY <1>2, <3>3
  <2>3. CASE i <= Len(s) /\ j > Len(s)
    BY <1>1, <1>2, <1>3, <1>4, <1>5, <2>3
  <2>4. CASE i > Len(s) /\ j <= Len(s)
    BY <1>1, <1>2, <1>3, <1>4, <1>5, <2>4
  <2>. QED  BY <1>1, <1>2, <2>1, <2>2, <2>3, <2>4
<1>6. Questions(s \o t) \subseteq Questions(s) \cup Questions(t)
  <2>1. SUFFICES ASSUME NEW i \in 1 .. Len(s \o t), (s \o t)[i].data
                 PROVE  (s \o t)[i].ref \in Questions(s) \cup Questions(t)
    BY DEF Questions
  <2>2. CASE i <= Len(s)
    BY <1>1, <1>2, <1>3, <2>1, <2>2
  <2>3. CASE i > Len(s)
    <3>1. i - Len(s) \in 1 .. Len(t) /\ (s \o t)[i] = t[i - Len(s)]
      BY <1>1, <1>2, <2>3
    <3>. QED  BY <1>4, <2>1, <3>1
  <2>. QED  BY <1>1, <1>2, <2>2, <2>3
<1>. QED  BY <1>5, <1>6 DEF Once

(* A part of a queue has each question at most once, as the queue has. *)
LEMMA OnceSubSeq ==
  ASSUME NEW s \in Seq(Needed), NEW i \in 1 .. Len(s) + 1, NEW j \in 0 .. Len(s), Once(s)
  PROVE  Once(SubSeq(s, i, j)) /\ Questions(SubSeq(s, i, j)) \subseteq Questions(s)
<1>1. \A k \in i .. j : s[k] \in Needed /\ k \in 1 .. Len(s)
  BY ElementOfSeq
<1>2. /\ Len(SubSeq(s, i, j)) = IF i <= j THEN j - i + 1 ELSE 0
      /\ \A k \in 1 .. j - i + 1 : SubSeq(s, i, j)[k] = s[i + k - 1]
  BY <1>1, SubSeqProperties, Z3
<1>3. \A k \in 1 .. Len(SubSeq(s, i, j)) :
        i + k - 1 \in 1 .. Len(s) /\ SubSeq(s, i, j)[k] = s[i + k - 1]
  BY <1>2
<1>. HIDE DEF Needed
<1>. QED  BY <1>2, <1>3 DEF Once, Questions

(* The first of a queue is asked nowhere in the rest. *)
LEMMA OnceTail ==
  ASSUME NEW s \in Seq(Needed), s # <<>>, Once(s)
  PROVE  /\ Once(Tail(s)) /\ Questions(Tail(s)) \subseteq Questions(s)
         /\ Head(s).data => Head(s).ref \in Questions(s) /\ Head(s).ref \notin Questions(Tail(s))
<1>1. /\ Len(Tail(s)) = Len(s) - 1
      /\ \A i \in 1 .. Len(Tail(s)) : Tail(s)[i] = s[i + 1]
      /\ Head(s) = s[1] /\ Len(s) \in Nat \ {0}
  BY HeadTailProperties, EmptySeq
<1>. QED  BY <1>1 DEF Once, Questions

(* So is what a full buffer keeps. *)
LEMMA OnceNewest ==
  ASSUME NEW s \in Seq(Needed), NEW n \in Nat, Once(s)
  PROVE  Once(Newest(s, n)) /\ Questions(Newest(s, n)) \subseteq Questions(s)
<1>1. CASE Len(s) > n
  <2>1. Len(s) - n + 1 \in 1 .. Len(s) + 1 /\ Len(s) \in 0 .. Len(s)
    BY <1>1
  <2>. QED  BY <1>1, <2>1, OnceSubSeq DEF Newest
<1>2. CASE ~(Len(s) > n)
  BY <1>2 DEF Newest
<1>. QED  BY <1>1, <1>2

(* A send keeps the questions apart if it repeats none. *)
LEMMA ClientSendOnce ==
  ASSUME TypeOK, AskedOnce, NEW m \in Needed, ClientSend(m),
         m.data => m.ref \notin Questions(buffer) \cup Questions(toServer) \cup Tabled
  PROVE  /\ Once(buffer') /\ Once(toServer')
         /\ Questions(buffer') \cap Questions(toServer') = {}
         /\ Tabled \cap (Questions(buffer') \cup Questions(toServer')) = {}
<1>1. buffer \in Seq(Needed) /\ toServer \in Seq(Needed) /\ ProxyBuffer \in Nat
  BY BufferAssumption DEF TypeOK
<1>2. /\ Once(buffer) /\ Once(toServer)
      /\ Questions(buffer) \cap Questions(toServer) = {}
      /\ Tabled \cap (Questions(buffer) \cup Questions(toServer)) = {}
  BY DEF AskedOnce
<1>3. m.data \in BOOLEAN
  BY DEF Needed
<1>4. CASE HasConn
  <2>1. /\ Once(Append(toServer, m))
        /\ Questions(Append(toServer, m)) \subseteq Questions(toServer) \cup {m.ref}
        /\ ~m.data => Questions(Append(toServer, m)) \subseteq Questions(toServer)
    BY <1>1, <1>2, OnceAppend
  <2>2. buffer' = buffer /\ (toServer' = Append(toServer, m) \/ toServer' = toServer)
    BY <1>4 DEF ClientSend
  <2>. QED  BY <1>2, <1>3, <2>1, <2>2
<1>5. CASE ~HasConn
  <2>1. /\ Once(Append(buffer, m)) /\ Append(buffer, m) \in Seq(Needed)
        /\ Questions(Append(buffer, m)) \subseteq Questions(buffer) \cup {m.ref}
        /\ ~m.data => Questions(Append(buffer, m)) \subseteq Questions(buffer)
    BY <1>1, <1>2, OnceAppend
  <2>2. /\ Once(Newest(Append(buffer, m), ProxyBuffer))
        /\ Questions(Newest(Append(buffer, m), ProxyBuffer)) \subseteq Questions(Append(buffer, m))
    BY <1>1, <2>1, OnceNewest
  <2>3. toServer' = toServer /\ buffer' = Newest(Append(buffer, m), ProxyBuffer)
    BY <1>5 DEF ClientSend
  <2>. QED  BY <1>2, <1>3, <2>1, <2>2, <2>3
<1>. QED  BY <1>4, <1>5

(* Every step keeps each question in one place. *)
LEMMA AskedStep == TypeOK /\ RowsAreYounger /\ AskedOnce /\ [Next]_vars => AskedOnce'
<1>. SUFFICES ASSUME TypeOK, RowsAreYounger, AskedOnce, [Next]_vars PROVE AskedOnce'
  OBVIOUS
<1>. USE DEF proxyVars, clientVars, linkVars, serverVars, bounds
<1>1. /\ buffer \in Seq(Needed) /\ toServer \in Seq(Needed)
      /\ queue \in [Entry -> Row \cup {NoRow}]
  BY DEF TypeOK
<1>2. /\ OneRowPerRequest /\ Once(buffer) /\ Once(toServer)
      /\ Questions(buffer) \cap Questions(toServer) = {}
      /\ Tabled \cap (Questions(buffer) \cup Questions(toServer)) = {}
  BY DEF AskedOnce
<1>. DEFINE SameRows == \A e \in Entry : /\ HasRow(e)' <=> HasRow(e)
                                         /\ HasRow(e) => queue'[e].ref = queue[e].ref
            Fewer == /\ Once(buffer') /\ Questions(buffer') \subseteq Questions(buffer)
                     /\ Once(toServer') /\ Questions(toServer') \subseteq Questions(toServer)
<1>3. ASSUME SameRows PROVE OneRowPerRequest' /\ Tabled' = Tabled
  BY <1>2, <1>3 DEF OneRowPerRequest, Tabled
<1>4. ASSUME SameRows, Fewer PROVE AskedOnce'
  BY <1>2, <1>3, <1>4 DEF AskedOnce
<1>5. Once(<<>>) /\ Questions(<<>>) = {}
  BY DEF Once, Questions
<1>6. ASSUME queue' = queue PROVE SameRows
  BY <1>6 DEF HasRow
<1>7. CASE \E r \in Request : Ask(r)
  <2>1. PICK r \in Request : Ask(r)
    BY <1>7
  <2>2. [ref |-> r, data |-> TRUE] \in Needed
    BY DEF Needed
  <2>3. r \notin Tabled
    BY <2>1 DEF Ask, RowsAreYounger, Tabled
  <2>4. ASSUME NEW s \in Seq(Needed), Sent(s) \subseteq Sent(buffer) \cup Sent(toServer)
        PROVE  r \notin Questions(s)
    <3>1. SUFFICES ASSUME NEW i \in 1 .. Len(s), s[i].data, s[i].ref = r PROVE FALSE
      BY DEF Questions
    <3>2. s[i] \in Needed /\ s[i] \in Sent(s)
      BY DEF Sent
    <3>. QED  BY <2>1, <2>4, <3>1, <3>2 DEF Ask, RowsAreYounger
  <2>5. r \notin Questions(buffer) \cup Questions(toServer)
    BY <1>1, <2>4
  <2>6. queue' = queue /\ ClientSend([ref |-> r, data |-> TRUE])
    BY <2>1 DEF Ask
  <2>7. PICK m \in Needed : m = [ref |-> r, data |-> TRUE]
    BY <2>2
  <2>8. ClientSend(m) /\ m.ref \notin Questions(buffer) \cup Questions(toServer) \cup Tabled
    BY <2>3, <2>5, <2>6, <2>7
  <2>. QED  BY <1>3, <1>6, <2>6, <2>8, ClientSendOnce DEF AskedOnce
<1>8. CASE \E r \in Request : Hold(r) \/ TakeDecision(r) \/ TimerFires(r) \/ GiveUp(r)
  <2>1. queue' = queue /\ buffer' = buffer /\ toServer' = toServer
    BY <1>8 DEF Hold, TakeDecision, TimerFires, GiveUp
  <2>. QED  BY <1>2, <1>4, <1>6, <2>1
<1>9. CASE ClientLoop
  <2>1. CASE Dial
    <3>1. /\ Once(toServer \o buffer)
          /\ Questions(toServer \o buffer) \subseteq Questions(toServer) \cup Questions(buffer)
      BY <1>1, <1>2, OnceConcat
    <3>2. queue' = queue /\ buffer' = <<>> /\ toServer' = toServer \o buffer
      BY <2>1 DEF Dial
    <3>. QED  BY <1>2, <1>3, <1>5, <1>6, <3>1, <3>2 DEF AskedOnce
  <2>2. CASE \E r \in Request : Announce(r)
    <3>1. PICK r \in Request : Announce(r)
      BY <2>2
    <3>2. PICK m \in Needed : m = [ref |-> r, data |-> FALSE]
      BY DEF Needed
    <3>3. queue' = queue /\ ClientSend(m) /\ ~m.data
      BY <3>1, <3>2 DEF Announce
    <3>. QED  BY <1>3, <1>6, <3>3, ClientSendOnce DEF AskedOnce
  <2>3. CASE StartAnnouncing \/ StartReading \/ Read \/ Deliver \/ ConnLost
    <3>1. queue' = queue /\ buffer' = buffer /\ toServer' = toServer
      BY <2>3 DEF StartAnnouncing, StartReading, Read, Deliver, ConnLost
    <3>. QED  BY <1>2, <1>4, <1>6, <3>1
  <2>. QED  BY <1>9, <2>1, <2>2, <2>3 DEF ClientLoop
<1>10. CASE Enqueue
  <2>1. toServer # <<>> /\ toServer' = Tail(toServer) /\ buffer' = buffer
    BY <1>10 DEF Enqueue
  <2>2. /\ Once(Tail(toServer)) /\ Questions(Tail(toServer)) \subseteq Questions(toServer)
        /\ Head(toServer).data => /\ Head(toServer).ref \in Questions(toServer)
                                  /\ Head(toServer).ref \notin Questions(Tail(toServer))
    BY <1>1, <1>2, <2>1, OnceTail
  <2>3. CASE queue' = queue
    BY <1>2, <1>4, <1>6, <2>1, <2>2, <2>3
  <2>4. CASE queue' # queue
    <3>. DEFINE r == Head(toServer).ref
    <3>1. Head(toServer).data /\ \E e \in Entry :
            ~HasRow(e) /\ queue' = [queue EXCEPT ![e] = [ref |-> r, status |-> "pending", age |-> 0]]
      BY <1>10, <2>4 DEF Enqueue
    <3>2. PICK e \in Entry :
            ~HasRow(e) /\ queue' = [queue EXCEPT ![e] = [ref |-> r, status |-> "pending", age |-> 0]]
      BY <3>1
    <3>3. Head(toServer) \in Needed
      BY <1>1, <2>1, SentTail
    <3>4. r \in Questions(toServer) /\ r \notin Questions(Tail(toServer)) /\ r \in Request
      BY <2>2, <3>1, <3>3 DEF Needed
    <3>5. \A f \in Entry \ {e} : queue'[f] = queue[f]
      BY <1>1, <3>2
    <3>6. HasRow(e)' /\ queue'[e].ref = r
      <4>1. queue'[e] = [ref |-> r, status |-> "pending", age |-> 0]
        BY <1>1, <3>2
      <4>2. queue'[e] \in Row
        BY <3>4, <4>1, TimeAssumption DEF Row
      <4>. QED  BY <4>1, <4>2, NoRowAssumption DEF HasRow
    <3>. HIDE DEF r
    <3>7. Tabled' \subseteq Tabled \cup {r}
      BY <3>5, <3>6 DEF Tabled, HasRow
    <3>8. r \notin Tabled /\ r \notin Questions(buffer)
      BY <1>2, <3>4
    <3>9. OneRowPerRequest'
      BY <1>2, <3>5, <3>6, <3>8 DEF OneRowPerRequest, Tabled, HasRow
    <3>. QED  BY <1>2, <2>1, <2>2, <3>4, <3>7, <3>8, <3>9 DEF AskedOnce
  <2>. QED  BY <2>3, <2>4
<1>11. CASE Accept \/ ClientGone
  <2>1. queue' = queue /\ buffer' = buffer /\ toServer' = toServer
    BY <1>11 DEF Accept, ClientGone
  <2>. QED  BY <1>2, <1>4, <1>6, <2>1
<1>12. CASE ExpireStale \/ Operator \/ Tick
  <2>1. /\ buffer' = buffer /\ toServer' = toServer
    BY <1>12 DEF ExpireStale, Operator, Resolve, Tick
  <2>2. ASSUME NEW e \in Entry PROVE (HasRow(e)' <=> HasRow(e)) /\ (HasRow(e) => queue'[e].ref = queue[e].ref)
    <3>1. CASE ~IsPending(e)
      <4>1. queue'[e] = queue[e]
        BY <1>1, <1>12, <3>1 DEF ExpireStale, Stale, Operator, Resolve, Tick
      <4>. QED  BY <4>1 DEF HasRow
    <3>2. CASE IsPending(e)
      <4>1. HasRow(e) /\ queue[e] \in Row
        BY <3>2, RowTypes DEF IsPending
      <4>2. queue'[e].ref = queue[e].ref
        BY <1>1, <1>12, <4>1 DEF ExpireStale, Operator, Resolve, Tick, Row
      <4>3. /\ \A st \in {"pending", "approved", "rejected", "expired"} :
                 [queue[e] EXCEPT !.status = st] \in Row
            /\ queue[e].age <= 2 * HoldTimeout => [queue[e] EXCEPT !.age = @ + 1] \in Row
        BY <4>1, RowTypes
      <4>4. queue'[e] \in Row
        <5>1. CASE ExpireStale
          BY <4>1, <4>3, <5>1 DEF ExpireStale
        <5>2. CASE Operator
          BY <1>1, <4>1, <4>3, <5>2 DEF Operator, Resolve, StatusOf
        <5>3. CASE Tick
          BY <4>1, <4>3, <5>3 DEF Tick
        <5>. QED  BY <1>12, <5>1, <5>2, <5>3
      <4>. QED  BY <4>1, <4>2, <4>4, NoRowAssumption DEF HasRow
    <3>. QED  BY <3>1, <3>2
  <2>. QED  BY <1>2, <1>4, <2>1, <2>2
<1>13. CASE Environment /\ ~Tick
  <2>1. queue' = queue
    BY <1>13 DEF Environment, Break, ProxyCrash, ProxyStart, ServerCrash, ServerStart
  <2>2. buffer' = buffer \/ buffer' = <<>>
    BY <1>13 DEF Environment, Break, ProxyCrash, ProxyStart, ServerCrash, ServerStart
  <2>3. toServer' = toServer \/ toServer' = <<>> \/ \E i \in 0 .. Len(toServer) : toServer' = SubSeq(toServer, 1, i)
    BY <1>13 DEF Environment, Break, ProxyCrash, ProxyStart, ServerCrash, ServerStart
  <2>4. ASSUME NEW i \in 0 .. Len(toServer)
        PROVE  /\ Once(SubSeq(toServer, 1, i))
               /\ Questions(SubSeq(toServer, 1, i)) \subseteq Questions(toServer)
    <3>1. 1 \in 1 .. Len(toServer) + 1
      BY <1>1
    <3>. QED  BY <1>1, <1>2, <3>1, OnceSubSeq
  <2>5. Once(toServer') /\ Questions(toServer') \subseteq Questions(toServer)
    BY <1>2, <1>5, <2>3, <2>4
  <2>. QED  BY <1>2, <1>4, <1>5, <1>6, <2>1, <2>2, <2>5
<1>14. CASE UNCHANGED vars
  <2>1. queue' = queue /\ buffer' = buffer /\ toServer' = toServer
    BY <1>14 DEF vars
  <2>. QED  BY <1>2, <1>4, <1>6, <2>1
<1>. QED  BY <1>7, <1>8, <1>9, <1>10, <1>11, <1>12, <1>13, <1>14 DEF Next, Goroutine, Server

(* At the start nobody has been asked. *)
LEMMA AskedInit == Init => AskedOnce
  BY DEF Init, AskedOnce, OneRowPerRequest, Once, Questions, Tabled, HasRow

(* However often the client reconnects and re-announces, and whatever is   *)
(* lost, no request gets two rows, so no two decisions on it can differ.   *)
THEOREM NobodyIsAskedTwice == Safety => []OneRowPerRequest
<1>1. AskedOnce => OneRowPerRequest
  BY DEF AskedOnce
<1>. QED  BY <1>1, AskedInit, AskedStep, YoungerInit, YoungerStep, TypeCorrect, PTL DEF Safety

-----------------------------------------------------------------------------
(* The promise of HeldRequest. *)

(* With one row each, the verdict on a request is the status of its row. *)
LEMMA VerdictOfRow ==
  ASSUME OneRowPerRequest, NEW e \in Entry, HasRow(e), queue[e] \in Row
  PROVE  AbstractVerdict[queue[e].ref] =
           IF queue[e].status = "pending" THEN "none" ELSE queue[e].status
<1>1. queue[e].ref \in Request /\ queue[e].status \in {"pending", "approved", "rejected", "expired"}
  BY DEF Row
<1>2. \A st : Settled(queue[e].ref, st) <=> queue[e].status = st
  BY DEF Settled, OneRowPerRequest
<1>. QED  BY <1>1, <1>2 DEF AbstractVerdict

(* A request without a row has no verdict. *)
LEMMA NoVerdict ==
  ASSUME NEW r \in Request, r \notin Tabled
  PROVE  AbstractVerdict[r] = "none"
<1>1. \A st : ~Settled(r, st)
  BY DEF Settled, Tabled
<1>. QED  BY <1>1 DEF AbstractVerdict

(* Rows that keep their requests and statuses keep the verdicts. *)
LEMMA SameVerdicts ==
  ASSUME \A r \in Request, st \in {"approved", "rejected", "expired"} :
           Settled(r, st)' <=> Settled(r, st)
  PROVE  AbstractVerdict' = AbstractVerdict
  BY DEF AbstractVerdict

(* A step that leaves the table alone is one of them. *)
LEMMA SameTable == ASSUME queue' = queue PROVE AbstractVerdict' = AbstractVerdict
  BY SameVerdicts DEF Settled, HasRow

(* What a step of one goroutine is to the agent. *)
LEMMA SameHolds ==
  ASSUME TypeOK, \A r \in Request : pc'[r] = pc[r] \/ (pc[r] \in Held /\ pc'[r] \in Held)
  PROVE  AbstractHold' = AbstractHold
<1>1. pc \in [Request -> {"idle", "forwarded", "rejected", "timedOut", "lost"} \cup Held]
  BY DEF TypeOK
<1>2. ASSUME NEW r \in Request PROVE AbstractHold'[r] = AbstractHold[r]
  <2>1. pc[r] \in {"idle", "forwarded", "rejected", "timedOut", "lost"} \cup Held
    BY <1>1
  <2>2. CASE pc[r] \in Held
    BY <2>2 DEF AbstractHold, Held, Blocked
  <2>3. CASE pc[r] \notin Held
    BY <2>1, <2>3 DEF AbstractHold, Held, Blocked
  <2>. QED  BY <2>2, <2>3
<1>3. /\ AbstractHold' = [r \in Request |-> AbstractHold'[r]]
      /\ AbstractHold = [r \in Request |-> AbstractHold[r]]
  BY DEF AbstractHold
<1>. QED  BY <1>2, <1>3

(* And a step that moves it out of, or into, holdRequestFn. *)
LEMMA OneHold ==
  ASSUME pc \in [Request -> {"idle", "forwarded", "rejected", "timedOut", "lost"} \cup Held],
         NEW r \in Request, NEW to, pc' = [pc EXCEPT ![r] = to],
         to \in {"forwarded", "rejected", "timedOut", "lost"} \cup Held
  PROVE  AbstractHold' = [AbstractHold EXCEPT ![r] =
           CASE to \in Held -> "held"
             [] to = "forwarded" -> "forwarded"
             [] to \in {"rejected", "timedOut"} -> "denied"
             [] to = "lost" -> "lost"]
  BY DEF AbstractHold, Held, Blocked

(* At the start every request is new. *)
LEMMA PromiseInit == Init => Promise!Init
<1>. SUFFICES ASSUME Init PROVE Promise!Init
  OBVIOUS
<1>1. \A r \in Request : \A st : ~Settled(r, st)
  BY DEF Init, Settled, HasRow
<1>2. AbstractVerdict = [r \in Request |-> "none"]
  BY <1>1 DEF AbstractVerdict
<1>3. AbstractHold = [r \in Request |-> "new"]
  <2>1. \A r \in Request : pc[r] = "idle"
    BY DEF Init
  <2>2. \A r \in Request : AbstractHold[r] = "new"
    BY <2>1 DEF AbstractHold, Held, Blocked
  <2>3. AbstractHold = [r \in Request |-> AbstractHold[r]]
    BY DEF AbstractHold
  <2>. QED  BY <2>2, <2>3
<1>. QED  BY <1>2, <1>3 DEF Promise!Init

(* Every step of the flow is a step of the promise, or nothing to it. *)
LEMMA PromiseStep ==
  ASSUME TypeOK, DecisionsAreSettled, RowsAreYounger, AskedOnce, [Next]_vars
  PROVE  [Promise!Next]_(Promise!vars)
<1>. USE DEF proxyVars, clientVars, linkVars, serverVars, bounds
<1>. DEFINE Step == [Promise!Next]_(Promise!vars)
<1>1. /\ pc \in [Request -> {"idle", "forwarded", "rejected", "timedOut", "lost"} \cup Held]
      /\ ch \in [Request -> Action \cup {"empty"}]
      /\ queue \in [Entry -> Row \cup {NoRow}]
      /\ OneRowPerRequest
  BY DEF TypeOK, AskedOnce
<1>2. ASSUME AbstractHold' = AbstractHold, AbstractVerdict' = AbstractVerdict PROVE Step
  BY <1>2 DEF Promise!vars
<1>3. TypeOK' /\ RowsAreYounger' /\ AskedOnce'
  BY TypeStep, YoungerStep, AskedStep
<1>. SUFFICES Step
  OBVIOUS
<1>. HIDE DEF Step
<1>4. CASE \E r \in Request : Goroutine(r)
  <2>. PICK r \in Request : Goroutine(r)
    BY <1>4
  <2>1. queue' = queue /\ AbstractVerdict' = AbstractVerdict
    BY SameTable DEF Goroutine, Hold, Ask, TakeDecision, TimerFires, GiveUp
  <2>2. CASE Hold(r)
    <3>1. AbstractHold[r] = "new" /\ AbstractHold' = [AbstractHold EXCEPT ![r] = "held"]
      BY <1>1, <2>2, OneHold DEF Hold, Held, Blocked, AbstractHold
    <3>2. Promise!Hold(r)
      BY <2>1, <3>1 DEF Promise!Hold, Promise!Moves
    <3>. QED  BY <3>2 DEF Step, Promise!Next
  <2>3. CASE Ask(r) \/ TimerFires(r)
    <3>1. AbstractHold' = AbstractHold
      BY <1>1, <2>3, SameHolds DEF Ask, TimerFires, Held, Blocked
    <3>. QED  BY <1>2, <2>1, <3>1
  <2>4. CASE TakeDecision(r)
    <3>1. AbstractHold[r] = "held" /\ ch[r] \in Action
      BY <1>1, <2>4 DEF TakeDecision, AbstractHold, Held, Blocked
    <3>2. Settled(r, StatusOf(ch[r]))
      BY <3>1 DEF DecisionsAreSettled
    <3>3. CASE ch[r] = "approve"
      <4>1. AbstractHold' = [AbstractHold EXCEPT ![r] = "forwarded"]
        BY <1>1, <2>4, <3>3, OneHold DEF TakeDecision, Held, Blocked
      <4>2. AbstractVerdict[r] = "approved"
        <5>1. PICK e \in Entry : HasRow(e) /\ queue[e].ref = r /\ queue[e].status = "approved"
          BY <3>2, <3>3 DEF Settled, StatusOf
        <5>. QED  BY <1>1, <5>1, VerdictOfRow DEF HasRow
      <4>3. Promise!Forward(r)
        BY <2>1, <3>1, <4>1, <4>2 DEF Promise!Forward, Promise!Moves
      <4>. QED  BY <4>3 DEF Step, Promise!Next
    <3>4. CASE ch[r] # "approve"
      <4>1. AbstractHold' = [AbstractHold EXCEPT ![r] = "denied"]
        BY <1>1, <2>4, <3>4, OneHold DEF TakeDecision, Held, Blocked
      <4>2. Promise!Deny(r)
        BY <2>1, <3>1, <4>1 DEF Promise!Deny, Promise!Moves
      <4>. QED  BY <4>2 DEF Step, Promise!Next
    <3>. QED  BY <3>3, <3>4
  <2>5. CASE GiveUp(r)
    <3>1. AbstractHold[r] = "held" /\ AbstractHold' = [AbstractHold EXCEPT ![r] = "denied"]
      BY <1>1, <2>5, OneHold DEF GiveUp, AbstractHold, Held, Blocked
    <3>2. Promise!Deny(r)
      BY <2>1, <3>1 DEF Promise!Deny, Promise!Moves
    <3>. QED  BY <3>2 DEF Step, Promise!Next
  <2>. QED  BY <2>2, <2>3, <2>4, <2>5 DEF Goroutine
<1>5. CASE ClientLoop \/ Accept \/ ClientGone
  <2>1. pc' = pc /\ queue' = queue
    BY <1>5 DEF ClientLoop, Dial, StartAnnouncing, Announce, StartReading, Read, Deliver,
                ConnLost, Accept, ClientGone
  <2>. QED  BY <1>2, <2>1, SameTable, SameHolds
<1>6. CASE Enqueue
  <2>1. pc' = pc
    BY <1>6 DEF Enqueue
  <2>2. CASE queue' = queue
    BY <1>2, <2>1, <2>2, SameTable, SameHolds
  <2>3. CASE queue' # queue
    <3>1. PICK e \in Entry : /\ ~HasRow(e)
                             /\ queue' = [queue EXCEPT ![e] =
                                  [ref |-> Head(toServer).ref, status |-> "pending", age |-> 0]]
      BY <1>6, <2>3 DEF Enqueue
    <3>2. queue'[e].status = "pending" /\ \A f \in Entry \ {e} : queue'[f] = queue[f]
      BY <1>1, <3>1
    <3>3. \A r \in Request, st \in {"approved", "rejected", "expired"} :
            Settled(r, st)' <=> Settled(r, st)
      BY <3>1, <3>2 DEF Settled, HasRow
    <3>. QED  BY <1>2, <2>1, <3>3, SameVerdicts, SameHolds
  <2>. QED  BY <2>2, <2>3
<1>7. CASE ExpireStale
  <2>1. pc' = pc /\ AbstractHold' = AbstractHold
    BY <1>7, SameHolds DEF ExpireStale
  <2>. DEFINE S == {queue[e].ref : e \in {f \in Entry : Stale(f)}}
  <2>2. ASSUME NEW e \in Entry, Stale(e)
        PROVE  /\ HasRow(e) /\ queue[e] \in Row /\ queue[e].status = "pending"
               /\ HasRow(e)' /\ queue'[e] \in Row
               /\ queue'[e].status = "expired" /\ queue'[e].ref = queue[e].ref
    <3>1. HasRow(e) /\ queue[e] \in Row /\ queue[e].status = "pending"
      BY <2>2, RowTypes DEF Stale, IsPending
    <3>2. queue'[e] = [queue[e] EXCEPT !.status = "expired"]
      BY <1>7, <2>2 DEF ExpireStale
    <3>3. [queue[e] EXCEPT !.status = "expired"] \in Row
      BY <3>1, RowTypes
    <3>4. queue'[e].status = "expired" /\ queue'[e].ref = queue[e].ref
      BY <3>1, <3>2 DEF Row
    <3>. QED  BY <3>1, <3>2, <3>3, <3>4, NoRowAssumption DEF HasRow
  <2>3. \A r \in S : r \in Request /\ AbstractVerdict[r] = "none"
    BY <1>1, <2>2, VerdictOfRow DEF Row
  <2>4. \A r \in S : AbstractHold[r] \notin {"new", "held"}
    <3>1. ASSUME NEW e \in Entry, Stale(e)
          PROVE  /\ queue[e].ref \in Request
                 /\ pc[queue[e].ref] \in {"forwarded", "rejected", "timedOut", "lost"}
      <4>1. queue[e].ref \in Request
        BY <2>2, <3>1 DEF Row
      <4>2. pc'[queue'[e].ref] \notin Held
        BY <1>3, <2>2, <3>1 DEF RowsAreYounger, LiveHoldNeverExpires
      <4>3. pc[queue[e].ref] # "idle"
        BY <2>2, <3>1 DEF RowsAreYounger
      <4>. QED  BY <1>1, <2>1, <2>2, <3>1, <4>1, <4>2, <4>3
    <3>. QED  BY <3>1 DEF AbstractHold, Held, Blocked
  <2>5. ASSUME NEW r \in Request
        PROVE  AbstractVerdict'[r] = IF r \in S THEN "expired" ELSE AbstractVerdict[r]
    <3>1. CASE r \in S
      <4>1. PICK e \in Entry : Stale(e) /\ queue[e].ref = r
        BY <3>1
      <4>2. HasRow(e)' /\ queue'[e].ref = r /\ queue'[e].status = "expired" /\ OneRowPerRequest'
        BY <1>3, <2>2, <4>1 DEF AskedOnce
      <4>3. \A st : Settled(r, st)' <=> st = "expired"
        BY <4>2 DEF Settled, OneRowPerRequest
      <4>. QED  BY <3>1, <4>3 DEF AbstractVerdict
    <3>2. CASE r \notin S
      <4>1. \A e \in Entry : Stale(e) => queue[e].ref # r
        BY <3>2
      <4>2. \A e \in Entry : ~Stale(e) => queue'[e] = queue[e]
        BY <1>7 DEF ExpireStale
      <4>3. \A st : Settled(r, st)' <=> Settled(r, st)
        <5>1. ASSUME NEW e \in Entry
              PROVE  (HasRow(e)' /\ queue'[e].ref = r) <=> (HasRow(e) /\ queue[e].ref = r)
          BY <2>2, <4>1, <4>2 DEF HasRow
        <5>2. ASSUME NEW e \in Entry, HasRow(e), queue[e].ref = r PROVE queue'[e] = queue[e]
          BY <4>1, <4>2, <5>2
        <5>. QED  BY <5>1, <5>2 DEF Settled
      <4>. QED  BY <3>2, <4>3 DEF AbstractVerdict
    <3>. QED  BY <3>1, <3>2
  <2>6. AbstractVerdict' = [r \in Request |-> IF r \in S THEN "expired" ELSE AbstractVerdict[r]]
    <3>1. AbstractVerdict' = [r \in Request |-> AbstractVerdict'[r]]
      BY DEF AbstractVerdict
    <3>. QED  BY <2>5, <3>1
  <2>7. S \in SUBSET Request /\ Promise!Expire(S)
    BY <2>1, <2>3, <2>4, <2>6 DEF Promise!Expire
  <2>. HIDE DEF S
  <2>. QED  BY <2>7 DEF Step, Promise!Next
<1>8. CASE Operator
  <2>1. PICK e \in Entry, a \in Action, c \in BOOLEAN : Resolve(e, a, c)
    BY <1>8 DEF Operator
  <2>. DEFINE r == queue[e].ref
              v == StatusOf(a)
  <2>2. HasRow(e) /\ queue[e] \in Row /\ queue[e].status = "pending" /\ pc' = pc
    BY <2>1, RowTypes DEF Resolve, IsPending
  <2>3. v \in {"approved", "rejected"} /\ r \in Request
    BY <2>2 DEF StatusOf, Row
  <2>4. queue' = [queue EXCEPT ![e] = [queue[e] EXCEPT !.status = v]]
    BY <2>1 DEF Resolve
  <2>5. queue'[e] = [queue[e] EXCEPT !.status = v] /\ \A f \in Entry \ {e} : queue'[f] = queue[f]
    BY <1>1, <2>4
  <2>6. HasRow(e)' /\ queue'[e].ref = r /\ queue'[e].status = v
    <3>1. [queue[e] EXCEPT !.status = v] \in Row
      BY <2>2, <2>3, RowTypes
    <3>2. [queue[e] EXCEPT !.status = v].ref = r /\ [queue[e] EXCEPT !.status = v].status = v
      BY <2>2 DEF Row
    <3>. QED  BY <2>5, <3>1, <3>2, NoRowAssumption DEF HasRow
  <2>7. AbstractVerdict[r] = "none"
    BY <1>1, <2>2, VerdictOfRow
  <2>8. AbstractHold[r] # "new" /\ AbstractHold' = AbstractHold
    <3>1. pc[r] # "idle"
      BY <2>2 DEF RowsAreYounger
    <3>. QED  BY <2>2, <2>3, <3>1, <1>1, SameHolds DEF AbstractHold, Held, Blocked
  <2>. HIDE DEF v, r
  <2>9. ASSUME NEW q \in Request
        PROVE  AbstractVerdict'[q] = IF q = r THEN v ELSE AbstractVerdict[q]
    <3>1. CASE q = r
      <4>1. \A st : Settled(q, st)' <=> st = v
        BY <1>3, <2>6, <3>1 DEF Settled, AskedOnce, OneRowPerRequest
      <4>. QED  BY <2>3, <3>1, <4>1 DEF AbstractVerdict
    <3>2. CASE q # r
      <4>1. \A st : Settled(q, st)' <=> Settled(q, st)
        BY <2>5, <2>6, <3>2 DEF Settled, HasRow, r
      <4>. QED  BY <3>2, <4>1 DEF AbstractVerdict
    <3>. QED  BY <3>1, <3>2
  <2>10. AbstractVerdict' = [AbstractVerdict EXCEPT ![r] = v]
    <3>1. /\ AbstractVerdict' = [q \in Request |-> AbstractVerdict'[q]]
          /\ AbstractVerdict = [q \in Request |-> AbstractVerdict[q]]
      BY DEF AbstractVerdict
    <3>. QED  BY <2>9, <3>1
  <2>11. Promise!Decide(r, v)
    BY <2>7, <2>8, <2>10 DEF Promise!Decide
  <2>. QED  BY <2>3, <2>11 DEF Step, Promise!Next
<1>9. CASE Environment
  <2>1. CASE Tick
    <3>1. ASSUME NEW e \in Entry
          PROVE  /\ HasRow(e)' <=> HasRow(e)
                 /\ HasRow(e) => queue'[e].ref = queue[e].ref /\ queue'[e].status = queue[e].status
      <4>1. CASE IsPending(e) /\ queue[e].age <= 2 * HoldTimeout
        <5>1. HasRow(e) /\ queue[e] \in Row /\ [queue[e] EXCEPT !.age = @ + 1] \in Row
          BY <4>1, RowTypes DEF IsPending
        <5>2. queue'[e] = [queue[e] EXCEPT !.age = @ + 1]
          BY <2>1, <4>1 DEF Tick
        <5>. QED  BY <5>1, <5>2, NoRowAssumption DEF HasRow, Row
      <4>2. CASE ~(IsPending(e) /\ queue[e].age <= 2 * HoldTimeout)
        <5>1. queue'[e] = queue[e]
          BY <2>1, <4>2 DEF Tick
        <5>. QED  BY <5>1 DEF HasRow
      <4>. QED  BY <4>1, <4>2
    <3>2. \A r \in Request, st \in {"approved", "rejected", "expired"} :
            Settled(r, st)' <=> Settled(r, st)
      BY <3>1 DEF Settled
    <3>3. pc' = pc
      BY <2>1 DEF Tick
    <3>. QED  BY <1>2, <3>2, <3>3, SameVerdicts, SameHolds
  <2>2. CASE ProxyCrash
    <3>1. queue' = queue /\ pc' = [r \in Request |-> IF pc[r] \in Held THEN "lost" ELSE pc[r]]
      BY <2>2 DEF ProxyCrash
    <3>2. AbstractHold' = [r \in Request |-> IF AbstractHold[r] = "held" THEN "lost" ELSE AbstractHold[r]]
      BY <1>1, <3>1 DEF AbstractHold, Held, Blocked
    <3>3. Promise!LoseAll
      BY <3>1, <3>2, SameTable DEF Promise!LoseAll
    <3>. QED  BY <3>3 DEF Step, Promise!Next
  <2>3. CASE Break \/ ProxyStart \/ ServerCrash \/ ServerStart
    <3>1. pc' = pc /\ queue' = queue
      BY <2>3 DEF Break, ProxyStart, ServerCrash, ServerStart
    <3>. QED  BY <1>2, <3>1, SameTable, SameHolds
  <2>. QED  BY <1>9, <2>1, <2>2, <2>3 DEF Environment
<1>10. CASE UNCHANGED vars
  BY <1>2, <1>10, SameTable, SameHolds DEF vars
<1>. QED  BY <1>4, <1>5, <1>6, <1>7, <1>8, <1>9, <1>10 DEF Next, Server

(* The two processes, their queues, faults and clocks together do what     *)
(* HeldRequest promises and nothing else.                                  *)
THEOREM FlowImplementsPromise == Safety => Promise!Safety
<1>1. TypeOK /\ DecisionsAreSettled /\ RowsAreYounger /\ AskedOnce /\ [Next]_vars
      => [Promise!Next]_(Promise!vars)
  BY PromiseStep
<1>. QED  BY <1>1, PromiseInit, AskedInit, AskedStep, DecisionInit, DecisionStep,
             YoungerInit, YoungerStep, TypeCorrect, PTL DEF Safety, Promise!Safety

=============================================================================
