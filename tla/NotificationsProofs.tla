-------------------------- MODULE NotificationsProofs --------------------------
(***************************************************************************)
(* What the streams and the webhooks promise, for any buffer, streams,     *)
(* hooks and bounds: a client handles events in order and each once, one   *)
(* that sends Last-Event-ID skips none, the counter of the layout is right *)
(* while nothing is lost to it, and a delivery uses up its retries.        *)
(*                                                                         *)
(* None of the four is inductive.  StreamInv adds what they rest on: the   *)
(* buffer ends with the last numbers, a client has one stream, and events  *)
(* are in order from the ones handled over those on their way to the next  *)
(* one to come (Ascends), without a hole when there is no gap (GoesOn).    *)
(* The counter is a recursive function of a sequence; what it computes is  *)
(* proved with the least number for which it would be wrong (LeastOne).    *)
(***************************************************************************)
EXTENDS Notifications, WellFoundedInduction, TLAPS

Stamp(e) == <<e.life, e.id>>
Present == <<life, nextId>>

Answer == [state : {"asked", "served", "over"}, rows : Nat, fresh : BOOLEAN, status : BOOLEAN]

BusTypes == BusTypeOK /\ nextId <= emitted + 1 /\ life <= faults
ClientTypes ==
  /\ ClientTypeOK
  /\ seen \in Seq(Nat \X (Nat \ {0}))
  /\ answer \in Seq(Answer)

Types == BusTypes /\ NetTypeOK /\ ClientTypes

(* A client has at most one stream, the last it asked for, and none while it waits. *)
OneStream ==
  /\ \A s \in Stream : phase[s] # "none" => s = current
  /\ timer \/ (Gui /\ ~in) => \A s \in Stream : phase[s] = "none"
  /\ Gui /\ ~in => ~timer

(* The ids of the buffer are the last ones, without a hole. *)
Recent(b, n, l) ==
  /\ Len(b) < n
  /\ \A k \in 1 .. Len(b) : b[k].life = l /\ b[k].id = n - Len(b) + k - 1
BufferIsRecent == Recent(buffer, nextId, life)

Stamps(s) == [k \in DOMAIN s |-> Stamp(s[k])]

(* Each after the ones before it, and all of them before p. *)
Ordered(a, p) == \A k \in 1 .. Len(a) : Later(p, a[k]) /\ \A j \in 1 .. k - 1 : Later(a[k], a[j])
Behind(a, b) == \A i \in 1 .. Len(a), j \in 1 .. Len(b) : Later(b[j], a[i])

(* What was handled, what is on its way and what comes next, in this order. *)
Ascends ==
  /\ Ordered(seen, Present)
  /\ \A s \in Stream : Ordered(Stamps(wire[s]), Present) /\ Behind(seen, Stamps(wire[s]))

Remembers ==
  ~Gui => IF seen = << >> THEN lastId = 0 ELSE lastId = seen[Len(seen)][2]

(* The numbers of a go on after m. *)
Runs(a, m) == \A k \in 1 .. Len(a) : a[k][2] = m + k

(* The numbers of z and then of w, and after them, for a stream that is b, the next one. *)
GoesTo(z, w, n, b) ==
  \E m \in Nat :
    /\ Runs(z, m) /\ Runs(w, m + Len(z))
    /\ b /\ Len(z) + Len(w) > 0 => n = m + Len(z) + Len(w) + 1

(* Without a gap no number is missing from what was handled, what is on *)
(* its way and what comes next.                                         *)
GoesOn ==
  ~Gui /\ ~gap =>
    /\ life = 0
    /\ \E m \in Nat : Runs(seen, m)
    /\ \A s \in Stream : GoesTo(seen, Stamps(wire[s]), nextId, s \in Written)

OnWire == IF current = 0 THEN << >> ELSE wire[current]

(* An answer that may still set the counter right has the rows of now. *)
AnswersFit ==
  \A l \in 1 .. Len(answer) :
    answer[l].state = "served" /\ answer[l].fresh => answer[l].rows = pending /\ OnWire = << >>

Counter ==
  Gui => /\ ~in => drift
         /\ AnswersFit
         /\ CountIsAccurate

Order == Types /\ OneStream /\ BufferIsRecent /\ Ascends /\ Remembers
StreamInv == Order /\ GoesOn /\ Counter

-----------------------------------------------------------------------------
(* Numbers and sequences. *)

(* The bounds are numbers. *)
LEMMA Bounds == MaxEvents \in Nat /\ MaxPending \in Nat /\ MaxFaults \in Nat /\ MaxLogins \in Nat
  BY StreamBounds

(* A set of numbers that has one has a least one. *)
LEMMA LeastOne == \A T \in SUBSET Nat : T # {} => \E n \in T : \A m \in T : n <= m
<1>. SUFFICES ASSUME NEW T \in SUBSET Nat, T # {} PROVE \E n \in T : \A m \in T : n <= m
  OBVIOUS
<1>. DEFINE R == {ss \in Nat \X Nat : ss[1] < ss[2]}
<1>1. IsWellFoundedOn(R, Nat)
  BY NatLessThanWellFounded DEF OpToRel
<1>2. PICK n \in T : \A m \in T : <<m, n>> \notin R
  <2>. HIDE DEF R
  <2>. QED  BY <1>1, WFMin
<1>3. ASSUME NEW m \in T PROVE n <= m
  <2>1. m \in Nat /\ n \in Nat
    OBVIOUS
  <2>2. <<m, n>> \in Nat \X Nat /\ <<m, n>>[1] = m /\ <<m, n>>[2] = n
    BY <2>1
  <2>. QED  BY <1>2, <2>1, <2>2
<1>. QED  BY <1>3

(* A stream that is asked for is a free one. *)
LEMMA FreeStream == Free # {} => AFree \in Free
<1>1. Free \in SUBSET Nat
  BY StreamAssumption DEF Free
<1>. QED  BY <1>1, LeastOne DEF AFree

(* The first j of a sequence. *)
LEMMA PrefixType ==
  ASSUME NEW S, NEW s \in Seq(S), NEW j \in 0 .. Len(s)
  PROVE  /\ SubSeq(s, 1, j) \in Seq(S)
         /\ Len(SubSeq(s, 1, j)) = j
         /\ \A k \in 1 .. j : SubSeq(s, 1, j)[k] = s[k]
  OBVIOUS

(* What follows the first j of a sequence. *)
LEMMA SuffixType ==
  ASSUME NEW S, NEW s \in Seq(S), NEW j \in 0 .. Len(s)
  PROVE  /\ SubSeq(s, j + 1, Len(s)) \in Seq(S)
         /\ Len(SubSeq(s, j + 1, Len(s))) = Len(s) - j
         /\ \A k \in 1 .. Len(s) - j : SubSeq(s, j + 1, Len(s))[k] = s[j + k]
  OBVIOUS

(* One sequence after another. *)
LEMMA ConcatType ==
  ASSUME NEW S, NEW s \in Seq(S), NEW t \in Seq(S)
  PROVE  /\ s \o t \in Seq(S)
         /\ Len(s \o t) = Len(s) + Len(t)
         /\ \A k \in 1 .. Len(s) + Len(t) : (s \o t)[k] = IF k <= Len(s) THEN s[k] ELSE t[k - Len(s)]
  OBVIOUS

-----------------------------------------------------------------------------
(* What an event does to the bus. *)

NewEvents(types) == [k \in DOMAIN types |-> [life |-> life, id |-> nextId + k - 1, type |-> types[k]]]
Emission == {<<"needed">>, <<"resolved">>, <<"other">>, <<"other", "resolved">>}

(* The events of an emission have the numbers from nextId on. *)
LEMMA NewEventsType ==
  ASSUME Types, NEW types \in Emission, emitted + Len(types) <= MaxEvents
  PROVE  /\ types \in Seq(Kind) /\ Len(types) \in {1, 2}
         /\ NewEvents(types) \in Seq(Event) /\ Len(NewEvents(types)) = Len(types)
         /\ \A k \in 1 .. Len(NewEvents(types)) :
              /\ NewEvents(types)[k].life = life /\ NewEvents(types)[k].id = nextId + k - 1
              /\ NewEvents(types)[k].type = types[k]
<1>1. types \in Seq(Kind) /\ Len(types) \in {1, 2} /\ DOMAIN types = 1 .. Len(types)
  <2>1. \A a, b \in Kind : /\ <<a>> \in Seq(Kind) /\ Len(<<a>>) = 1
                           /\ <<a, b>> \in Seq(Kind) /\ Len(<<a, b>>) = 2
    OBVIOUS
  <2>2. types \in Seq(Kind) /\ Len(types) \in {1, 2}
    BY <2>1 DEF Emission, Kind
  <2>. QED  BY <2>2
<1>2. nextId \in Nat \ {0} /\ emitted \in Nat /\ MaxEvents \in Nat /\ life \in 0 .. MaxFaults /\ nextId <= emitted + 1
  BY Bounds DEF Types, BusTypes, BusTypeOK, NetTypeOK, ClientTypes, ClientTypeOK
<1>3. ASSUME NEW k \in 1 .. Len(types)
      PROVE  [life |-> life, id |-> nextId + k - 1, type |-> types[k]] \in Event
  <2>1. nextId + k - 1 \in 1 .. MaxEvents
    BY <1>1, <1>2
  <2>2. types[k] \in Kind
    BY <1>1
  <2>. QED  BY <1>2, <2>1, <2>2 DEF Event
<1>4. NewEvents(types) \in [1 .. Len(types) -> Event]
  BY <1>1, <1>3 DEF NewEvents
<1>5. NewEvents(types) \in Seq(Event)
  BY <1>1, <1>4
<1>6. Len(NewEvents(types)) = Len(types)
  BY <1>1, <1>4
<1>7. ASSUME NEW k \in 1 .. Len(NewEvents(types))
      PROVE  /\ NewEvents(types)[k].life = life /\ NewEvents(types)[k].id = nextId + k - 1
             /\ NewEvents(types)[k].type = types[k]
  <2>1. NewEvents(types)[k] = [life |-> life, id |-> nextId + k - 1, type |-> types[k]]
    BY <1>1, <1>6 DEF NewEvents
  <2>. QED  BY <2>1
<1>. QED  BY <1>1, <1>5, <1>6, <1>7

(* What emit changes, in the terms of the lemmas below. *)
LEMMA EmitShape ==
  ASSUME Types, NEW types \in Emission, Emit(types)
  PROVE  LET new == NewEvents(types)
             all == buffer \o new
         IN /\ emitted' = emitted + Len(types) /\ emitted' <= MaxEvents
            /\ nextId' = nextId + Len(types) /\ life' = life
            /\ buffer' = IF Len(all) > BufferSize THEN SubSeq(all, Len(all) - BufferSize + 1, Len(all)) ELSE all
            /\ \A s \in Stream : wire'[s] = IF s \in Written THEN wire[s] \o new ELSE wire[s]
            /\ wire' \in [Stream -> Seq(Event)]
<1>1. /\ NewEvents(types) \in Seq(Event) /\ emitted + Len(types) <= MaxEvents
  BY NewEventsType DEF Emit
<1>2. wire' = [s \in Stream |-> IF s \in Written THEN wire[s] \o NewEvents(types) ELSE wire[s]]
  BY DEF Emit, NewEvents
<1>3. wire \in [Stream -> Seq(Event)]
  BY DEF Types, BusTypes, BusTypeOK, NetTypeOK, ClientTypes, ClientTypeOK
<1>4. wire' \in [Stream -> Seq(Event)]
  BY <1>1, <1>2, <1>3
<1>5. buffer' = LET all == buffer \o NewEvents(types)
                IN IF Len(all) > BufferSize THEN SubSeq(all, Len(all) - BufferSize + 1, Len(all)) ELSE all
  BY DEF Emit, NewEvents
<1>6. /\ emitted' = emitted + Len(types) /\ emitted' <= MaxEvents
      /\ nextId' = nextId + Len(types) /\ life' = life
  BY DEF Emit
<1>. QED  BY <1>2, <1>4, <1>5, <1>6

(* Events with the next numbers keep a buffer without holes. *)
LEMMA RecentGrows ==
  ASSUME NEW n \in Nat, NEW l, NEW b \in Seq(Event), NEW t \in Seq(Event), Recent(b, n, l),
         \A k \in 1 .. Len(t) : t[k].life = l /\ t[k].id = n + k - 1
  PROVE  b \o t \in Seq(Event) /\ Recent(b \o t, n + Len(t), l)
<1>. DEFINE a == b \o t
<1>1. /\ a \in Seq(Event) /\ Len(a) = Len(b) + Len(t) /\ Len(b) \in Nat /\ Len(t) \in Nat
      /\ \A k \in 1 .. Len(b) + Len(t) : a[k] = IF k <= Len(b) THEN b[k] ELSE t[k - Len(b)]
  BY ConcatType
<1>. HIDE DEF a
<1>2. ASSUME NEW k \in 1 .. Len(a)
      PROVE  a[k].life = l /\ a[k].id = (n + Len(t)) - Len(a) + k - 1
  <2>1. k \in Nat /\ k \in 1 .. Len(b) + Len(t)
    BY <1>1
  <2>2. CASE k <= Len(b)
    <3>1. k \in 1 .. Len(b) /\ a[k] = b[k]
      BY <1>1, <2>1, <2>2
    <3>. QED  BY <1>1, <2>1, <3>1 DEF Recent
  <2>3. CASE k > Len(b)
    <3>1. k - Len(b) \in 1 .. Len(t) /\ a[k] = t[k - Len(b)]
      BY <1>1, <2>1, <2>3
    <3>. QED  BY <1>1, <2>1, <3>1
  <2>. QED  BY <1>1, <2>1, <2>2, <2>3
<1>3. Len(a) < n + Len(t)
  BY <1>1 DEF Recent
<1>4. Recent(a, n + Len(t), l)
  BY <1>2, <1>3 DEF Recent
<1>. QED  BY <1>1, <1>4 DEF a

(* So does forgetting the oldest. *)
LEMMA RecentSuffix ==
  ASSUME NEW n \in Nat, NEW l, NEW b \in Seq(Event), Recent(b, n, l), NEW j \in 0 .. Len(b)
  PROVE  Recent(SubSeq(b, j + 1, Len(b)), n, l)
<1>. DEFINE a == SubSeq(b, j + 1, Len(b))
<1>1. /\ Len(a) = Len(b) - j /\ Len(b) \in Nat /\ j \in Nat
      /\ \A k \in 1 .. Len(b) - j : a[k] = b[j + k]
  BY SuffixType
<1>. HIDE DEF a
<1>2. ASSUME NEW k \in 1 .. Len(a)
      PROVE  a[k].life = l /\ a[k].id = n - Len(a) + k - 1
  <2>1. j + k \in 1 .. Len(b) /\ k \in Nat /\ a[k] = b[j + k]
    BY <1>1
  <2>2. b[j + k].life = l /\ b[j + k].id = n - Len(b) + (j + k) - 1
    BY <2>1 DEF Recent
  <2>. QED  BY <1>1, <2>1, <2>2
<1>3. Len(a) < n
  BY <1>1 DEF Recent
<1>4. Recent(a, n, l)
  BY <1>2, <1>3 DEF Recent
<1>. QED  BY <1>4 DEF a

(* The buffer keeps the newest events. *)
LEMMA EmitBuffer ==
  ASSUME Types, BufferIsRecent, NEW types \in Emission, Emit(types)
  PROVE  BufferIsRecent' /\ buffer' \in Seq(Event) /\ Len(buffer') <= BufferSize
<1>. DEFINE new == NewEvents(types)
            all == buffer \o new
<1>1. /\ new \in Seq(Event) /\ Len(new) = Len(types)
      /\ \A k \in 1 .. Len(new) : new[k].life = life /\ new[k].id = nextId + k - 1
  <2>1. emitted + Len(types) <= MaxEvents
    BY DEF Emit
  <2>. QED  BY <2>1, NewEventsType
<1>2. buffer \in Seq(Event) /\ nextId \in Nat /\ BufferSize \in Nat \ {0}
  BY BufferAssumption DEF Types, BusTypes, BusTypeOK, NetTypeOK, ClientTypes, ClientTypeOK
<1>3. /\ nextId' = nextId + Len(new) /\ life' = life
      /\ buffer' = IF Len(all) > BufferSize THEN SubSeq(all, Len(all) - BufferSize + 1, Len(all)) ELSE all
  BY <1>1, EmitShape
<1>. HIDE DEF new
<1>4. all \in Seq(Event) /\ Recent(all, nextId', life')
  BY <1>1, <1>2, <1>3, RecentGrows DEF BufferIsRecent
<1>. HIDE DEF all
<1>5. CASE ~(Len(all) > BufferSize)
  BY <1>2, <1>3, <1>4, <1>5 DEF BufferIsRecent
<1>6. CASE Len(all) > BufferSize
  <2>1. PICK j \in Nat : j = Len(all) - BufferSize
    BY <1>2, <1>4, <1>6
  <2>2. j \in 0 .. Len(all) /\ Len(all) - j = BufferSize /\ buffer' = SubSeq(all, j + 1, Len(all))
    BY <1>2, <1>3, <1>4, <1>6, <2>1
  <2>3. nextId' \in Nat
    BY <1>1, <1>2, <1>3
  <2>. QED  BY <1>2, <1>4, <2>2, <2>3, SuffixType, RecentSuffix DEF BufferIsRecent
<1>. QED  BY <1>5, <1>6

-----------------------------------------------------------------------------
(* The steps of the streams. *)

(* The steps of the server that emit, and the types they emit. *)
LEMMA ServerEmits ==
  ASSUME Needed \/ Resolve \/ (\E k \in 1 .. MaxPending : ExpireStale(k)) \/ Report
  PROVE  \E types \in Emission : Emit(types)
  BY DEF Needed, Resolve, ExpireStale, Report, Emission

(* A step of the composition is a step of the streams or leaves them alone. *)
LEMMA StepsAre ==
  ASSUME [Next]_vars
  PROVE  \/ Needed \/ Resolve \/ (\E k \in 1 .. MaxPending : ExpireStale(k)) \/ Report
         \/ \E s \in Stream : AddClient(s) \/ Closed(s) \/ Opened(s) \/ Ended(s) \/ Break(s)
         \/ Rerender \/ TimerFires \/ Login \/ Logout \/ Restart
         \/ \E s \in Stream, j \in 0 .. MaxEvents, more \in BOOLEAN : ReadChunk(s, j, more)
         \/ \E l \in 1 .. MaxLogins : ServeApprovals(l) \/ ApprovalsArrive(l) \/ ApprovalsFail(l) \/ StatusArrives(l)
         \/ \E k \in 1 .. MaxPending : AgentDeleted(k)
         \/ UNCHANGED streamVars
  BY DEF Next, vars, ApprovalNeeded, Sighup, ServerRestart, Deliver, ServerStep, ClientStep

(* The first state is of the types. *)
LEMMA StreamTypesInit == StreamInit => Types
<1>. SUFFICES ASSUME StreamInit PROVE Types
  OBVIOUS
<1>. USE Bounds, BufferAssumption DEF StreamInit
<1>1. BusTypes
  BY DEF BusTypes, BusTypeOK
<1>2. NetTypeOK
  BY DEF NetTypeOK
<1>3. ClientTypeOK
  <2>1. lastId \in 0 .. MaxEvents /\ logins \in 0 .. MaxLogins /\ count \in Nat
    OBVIOUS
  <2>. QED  BY <2>1 DEF ClientTypeOK
<1>4. \A S : << >> \in Seq(S)
  OBVIOUS
<1>5. ClientTypes
  BY <1>3, <1>4 DEF ClientTypes
<1>. QED  BY <1>1, <1>2, <1>5 DEF Types

BusStays == UNCHANGED <<bus, pending, emitted, faults>>
NetStays == UNCHANGED net
ClientStays == UNCHANGED <<viewer, standard, seen, app>>

(* Steps that leave a part alone keep its types. *)
LEMMA TypesStay ==
  /\ BusTypes /\ BusStays => BusTypes'
  /\ NetTypeOK /\ NetStays => NetTypeOK'
  /\ ClientTypes /\ ClientStays => ClientTypes'
<1>1. BusTypes /\ BusStays => BusTypes'
  BY DEF BusStays, BusTypes, BusTypeOK, bus
<1>2. NetTypeOK /\ NetStays => NetTypeOK'
  BY DEF NetStays, NetTypeOK, net
<1>3. ClientTypes /\ ClientStays => ClientTypes'
  BY DEF ClientStays, ClientTypes, ClientTypeOK, standard, app
<1>. QED  BY <1>1, <1>2, <1>3

(* Answers that have been crossed are answers. *)
LEMMA StaleAnswers ==
  ASSUME ClientTypes, Stale
  PROVE  /\ answer' \in Seq(Answer) /\ Len(answer') = Len(answer)
         /\ \A l \in 1 .. Len(answer) : ~answer'[l].fresh
<1>1. answer \in Seq(Answer) /\ answer \in [1 .. Len(answer) -> Answer] /\ Len(answer) \in Nat
  BY DEF ClientTypes
<1>2. ASSUME NEW l \in 1 .. Len(answer)
      PROVE  [answer[l] EXCEPT !.fresh = FALSE] \in Answer /\ ~[answer[l] EXCEPT !.fresh = FALSE].fresh
  <2>1. answer[l] \in Answer
    BY <1>1
  <2>. QED  BY <2>1 DEF Answer
<1>3. answer' = [l \in 1 .. Len(answer) |-> [answer[l] EXCEPT !.fresh = FALSE]]
  BY <1>1 DEF Stale
<1>4. answer' \in [1 .. Len(answer) -> Answer]
  BY <1>2, <1>3
<1>5. answer' \in Seq(Answer) /\ Len(answer') = Len(answer)
  BY <1>1, <1>4
<1>6. ASSUME NEW l \in 1 .. Len(answer) PROVE ~answer'[l].fresh
  <2>1. answer'[l] = [answer[l] EXCEPT !.fresh = FALSE]
    BY <1>3
  <2>. QED  BY <1>2, <2>1
<1>. QED  BY <1>5, <1>6

(* An emission keeps the types. *)
LEMMA EmitTypes ==
  ASSUME Types, OneStream, BufferIsRecent, NEW types \in Emission, Emit(types),
         pending' \in 0 .. MaxPending, drift' \in BOOLEAN
  PROVE  Types'
<1>. USE Bounds
<1>1. BusTypes'
  <2>1. nextId' = nextId + Len(types) /\ emitted' = emitted + Len(types) /\ emitted' <= MaxEvents /\ life' = life
    BY EmitShape
  <2>2. Len(types) \in Nat /\ buffer' \in Seq(Event) /\ Len(buffer') <= BufferSize
    <3>1. emitted + Len(types) <= MaxEvents
      BY DEF Emit
    <3>. QED  BY <3>1, EmitBuffer, NewEventsType
  <2>3. UNCHANGED <<clients, faults>>
    BY DEF Emit
  <2>4. nextId \in Nat \ {0} /\ emitted \in Nat /\ nextId <= emitted + 1
    BY DEF Types, BusTypes, BusTypeOK
  <2>. QED  BY <2>1, <2>2, <2>3, <2>4 DEF Types, BusTypes, BusTypeOK
<1>2. NetTypeOK'
  <2>1. /\ wire' \in [Stream -> Seq(Event)]
        /\ \A s \in Stream : s \notin Written => wire'[s] = wire[s]
    BY EmitShape
  <2>. QED  BY <2>1 DEF Emit, Types, NetTypeOK, Written
<1>3. ClientTypes'
  <2>1. answer' \in Seq(Answer)
    BY StaleAnswers DEF Emit, Types
  <2>. QED  BY <2>1 DEF Emit, Types, ClientTypes, ClientTypeOK, standard
<1>. QED  BY <1>1, <1>2, <1>3 DEF Types

(* So does asking for a stream. *)
LEMMA ConnectTypes ==
  ASSUME NetTypeOK, NEW ph \in [Stream -> {"none", "asked", "answered", "reading"}], NEW w \in [Stream -> Seq(Event)],
         \A s \in Stream : (ph[s] \in {"none", "asked"} => w[s] = << >> /\ ~cut'[s])
                          /\ (phase[s] = "none" => ph[s] = "none"),
         Connect(ph, w), cut' \in [Stream -> BOOLEAN], broken' \subseteq Stream, timer' \in BOOLEAN
  PROVE  NetTypeOK' /\ current' \in Free
<1>1. AFree \in Stream /\ AFree \in Free /\ ph[AFree] = "none"
  BY FreeStream DEF Connect, Free
<1>. QED  BY <1>1 DEF Connect, NetTypeOK

(* An aborted stream is closed and carries nothing; the others stay. *)
LEMMA AbortedTypes ==
  ASSUME NetTypeOK
  PROVE  LET a == Aborted(current)
         IN /\ a[1] \in [Stream -> {"none", "asked", "answered", "reading"}] /\ a[2] \in [Stream -> Seq(Event)]
            /\ a[3] \in [Stream -> BOOLEAN] /\ a[4] \subseteq Stream
            /\ \A s \in Stream : /\ a[1][s] \in {"none", "asked"} => a[2][s] = << >> /\ ~a[3][s]
                                 /\ phase[s] = "none" => a[1][s] = "none"
                                 /\ s # current => a[1][s] = phase[s] /\ a[2][s] = wire[s]
                                 /\ s = current => a[1][s] = "none" /\ a[2][s] = << >>
<1>1. CASE current = 0
  <2>1. Aborted(current) = <<phase, wire, cut, broken>>
    BY <1>1 DEF Aborted
  <2>2. current \notin Stream
    BY <1>1, StreamAssumption
  <2>. QED  BY <2>1, <2>2 DEF NetTypeOK
<1>2. CASE current # 0
  <2>1. current \in Stream
    BY <1>2 DEF NetTypeOK
  <2>. QED  BY <1>2, <2>1 DEF Aborted, NetTypeOK
<1>. QED  BY <1>1, <1>2

(* The replay is the rest of the buffer from some place on. *)
LEMMA ReplayIsSuffix ==
  ASSUME buffer \in Seq(Event), NEW id
  PROVE  \/ ToReplay(id) = << >> /\ (id # 0 => \A k \in 1 .. Len(buffer) : ~(buffer[k].id > id))
         \/ \E j \in 0 .. Len(buffer) - 1 :
              /\ ToReplay(id) = SubSeq(buffer, j + 1, Len(buffer))
              /\ id # 0 /\ buffer[j + 1].id > id
              /\ \A k \in 1 .. j : ~(buffer[k].id > id)
<1>. DEFINE K == {k \in DOMAIN buffer : buffer[k].id > id}
<1>1. CASE id = 0 \/ K = {}
  BY <1>1 DEF ToReplay, From
<1>2. CASE id # 0 /\ K # {}
  <2>1. K \in SUBSET Nat
    OBVIOUS
  <2>2. PICK m \in K : m = (CHOOSE k \in K : \A l \in K : k <= l) /\ \A l \in K : m <= l
    <3>. HIDE DEF K
    <3>. QED  BY <1>2, <2>1, LeastOne
  <2>3. ToReplay(id) = SubSeq(buffer, m, Len(buffer))
    BY <1>2, <2>2 DEF ToReplay, From
  <2>4. m \in 1 .. Len(buffer) /\ buffer[m].id > id
    OBVIOUS
  <2>5. PICK j \in 0 .. Len(buffer) - 1 : m = j + 1
    BY <2>4
  <2>6. \A k \in 1 .. j : k \notin K /\ k \in DOMAIN buffer
    BY <2>2, <2>4, <2>5
  <2>. QED  BY <1>2, <2>3, <2>4, <2>5, <2>6
<1>. QED  BY <1>1, <1>2

(* What is sent again are events. *)
LEMMA ReplayTypes == BusTypes => ToReplay(lastId) \in Seq(Event)
<1>. SUFFICES ASSUME BusTypes PROVE ToReplay(lastId) \in Seq(Event)
  OBVIOUS
<1>1. buffer \in Seq(Event)
  BY DEF BusTypes, BusTypeOK
<1>2. \A j \in 0 .. Len(buffer) - 1 : SubSeq(buffer, j + 1, Len(buffer)) \in Seq(Event)
  BY <1>1, SuffixType
<1>3. << >> \in Seq(Event)
  OBVIOUS
<1>. QED  BY <1>1, <1>2, <1>3, ReplayIsSuffix

(* An answer that changes leaves the others alone. *)
LEMMA AnswerTypes ==
  ASSUME ClientTypes, NEW l \in DOMAIN answer, NEW a \in Answer, answer' = [answer EXCEPT ![l] = a]
  PROVE  /\ answer' \in Seq(Answer) /\ Len(answer') = Len(answer)
         /\ \A k \in 1 .. Len(answer) : answer'[k] = IF k = l THEN a ELSE answer[k]
  BY DEF ClientTypes

-----------------------------------------------------------------------------
(* The counter after a number of events. *)

Counting(n, s, m, f) ==
  /\ f \in [0 .. m -> Nat]
  /\ f[0] = n
  /\ \A k \in 1 .. m : f[k] = Bump(f[k - 1], s[k])

(* The counter stays a number. *)
LEMMA BumpType == \A n \in Nat : \A e : Bump(n, e) \in Nat
  BY DEF Bump

(* There is a way to count any number of events. *)
LEMMA CountingExists ==
  ASSUME NEW n \in Nat, NEW s \in Seq(Event), NEW m \in 0 .. Len(s)
  PROVE  \E f : Counting(n, s, m, f)
<1>. DEFINE T == {i \in Nat : ~ \E f : Counting(n, s, i, f)}
<1>1. SUFFICES ASSUME T # {} PROVE FALSE
  <2>1. m \in Nat
    OBVIOUS
  <2>. QED  BY <2>1
<1>2. T \in SUBSET Nat
  OBVIOUS
<1>3. PICK i \in T : \A k \in T : i <= k
  <2>. HIDE DEF T
  <2>. QED  BY <1>1, <1>2, LeastOne
<1>4. i # 0
  <2>1. Counting(n, s, 0, [k \in 0 .. 0 |-> n])
    BY DEF Counting
  <2>. QED  BY <2>1
<1>5. i - 1 \in Nat /\ i \in Nat
  BY <1>4
<1>6. i - 1 \notin T
  BY <1>3, <1>5
<1>7. PICK f : Counting(n, s, i - 1, f)
  BY <1>5, <1>6
<1>. DEFINE g == [k \in 0 .. i |-> IF k = i THEN Bump(f[i - 1], s[i]) ELSE f[k]]
<1>8. Counting(n, s, i, g)
  <2>1. f \in [0 .. i - 1 -> Nat]
    BY <1>7 DEF Counting
  <2>2. \A k \in 0 .. i : k # i => k \in 0 .. i - 1
    BY <1>5
  <2>3. i - 1 \in 0 .. i - 1
    BY <1>5
  <2>4. g \in [0 .. i -> Nat]
    BY <2>1, <2>2, <2>3, BumpType
  <2>5. g[0] = n
    BY <1>4, <1>5, <1>7 DEF Counting
  <2>6. ASSUME NEW k \in 1 .. i PROVE g[k] = Bump(g[k - 1], s[k])
    <3>1. k - 1 \in 0 .. i /\ k - 1 # i /\ k \in 0 .. i
      BY <1>5
    <3>2. k # i => k \in 1 .. i - 1
      BY <1>5
    <3>. QED  BY <1>7, <3>1, <3>2 DEF Counting
  <2>. QED  BY <2>4, <2>5, <2>6 DEF Counting
<1>. QED  BY <1>8

(* There is no other. *)
LEMMA CountingIsUnique ==
  ASSUME NEW n \in Nat, NEW s, NEW m \in Nat, NEW f, NEW g, Counting(n, s, m, f), Counting(n, s, m, g)
  PROVE  \A k \in 0 .. m : f[k] = g[k]
<1>. DEFINE T == {i \in 0 .. m : f[i] # g[i]}
<1>1. SUFFICES ASSUME T # {} PROVE FALSE
  OBVIOUS
<1>2. T \in SUBSET Nat
  OBVIOUS
<1>3. PICK i \in T : \A k \in T : i <= k
  <2>. HIDE DEF T
  <2>. QED  BY <1>1, <1>2, LeastOne
<1>4. i # 0
  BY DEF Counting
<1>5. i \in 1 .. m /\ i - 1 \in 0 .. m /\ i - 1 < i
  BY <1>4
<1>6. i - 1 \notin T
  BY <1>3, <1>5
<1>7. f[i - 1] = g[i - 1]
  BY <1>5, <1>6
<1>8. f[i] = g[i]
  BY <1>5, <1>7 DEF Counting
<1>. QED  BY <1>8

(* The recursive function is the one that counts. *)
LEMMA CountedIs ==
  ASSUME NEW n \in Nat, NEW s \in Seq(Event)
  PROVE  Counting(n, s, Len(s), Counts(n, s))
<1>. DEFINE F(f) == f = [k \in 0 .. Len(s) |-> IF k = 0 THEN n ELSE Bump(f[k - 1], s[k])]
<1>1. Counts(n, s) = CHOOSE f : F(f)
  BY DEF Counts
<1>2. Len(s) \in Nat /\ Len(s) \in 0 .. Len(s)
  OBVIOUS
<1>3. PICK g : Counting(n, s, Len(s), g)
  BY <1>2, CountingExists
<1>4. F(g)
  <2>1. g \in [0 .. Len(s) -> Nat] /\ \A k \in 0 .. Len(s) : k # 0 => k \in 1 .. Len(s)
    BY <1>3 DEF Counting
  <2>. QED  BY <1>3, <2>1 DEF Counting
<1>5. F(Counts(n, s))
  BY <1>1, <1>4
<1>. DEFINE c == Counts(n, s)
<1>. HIDE DEF c
<1>6. c = [k \in 0 .. Len(s) |-> IF k = 0 THEN n ELSE Bump(c[k - 1], s[k])]
  BY <1>5 DEF c
<1>7. c[0] = n /\ \A k \in 1 .. Len(s) : c[k] = Bump(c[k - 1], s[k])
  BY <1>2, <1>6
<1>8. \A k \in 0 .. Len(s) : c[k] \in Nat
  <2>. DEFINE T == {i \in 0 .. Len(s) : c[i] \notin Nat}
  <2>1. SUFFICES ASSUME T # {} PROVE FALSE
    OBVIOUS
  <2>2. T \in SUBSET Nat
    OBVIOUS
  <2>3. PICK i \in T : \A k \in T : i <= k
    <3>. HIDE DEF T
    <3>. QED  BY <2>1, <2>2, LeastOne
  <2>4. i # 0
    BY <1>7
  <2>5. i \in 1 .. Len(s) /\ i - 1 \in 0 .. Len(s) /\ i - 1 < i
    BY <2>4
  <2>6. c[i - 1] \in Nat
    BY <2>3, <2>5
  <2>. QED  BY <1>7, <2>5, <2>6, BumpType
<1>. QED  BY <1>6, <1>7, <1>8 DEF Counting, c

(* Whatever counts the events one after the other gets the same number. *)
LEMMA CountedAs ==
  ASSUME NEW n \in Nat, NEW s \in Seq(Event), NEW f, Counting(n, s, Len(s), f)
  PROVE  Counted(n, s) = f[Len(s)] /\ Counted(n, s) \in Nat
<1>1. Len(s) \in Nat /\ Len(s) \in 0 .. Len(s)
  OBVIOUS
<1>2. Counting(n, s, Len(s), Counts(n, s))
  BY CountedIs
<1>3. f[Len(s)] = Counts(n, s)[Len(s)]
  BY <1>1, <1>2, CountingIsUnique
<1>. QED  BY <1>1, <1>2, <1>3 DEF Counted, Counting

(* A count is a number. *)
LEMMA CountedType == \A n \in Nat, s \in Seq(Event) : Counted(n, s) \in Nat
  BY CountedIs, CountedAs

(* No events, no change. *)
LEMMA CountedNothing == \A n \in Nat : Counted(n, << >>) = n
<1>. SUFFICES ASSUME NEW n \in Nat PROVE Counted(n, << >>) = n
  OBVIOUS
<1>1. << >> \in Seq(Event) /\ Len(<< >>) = 0
  OBVIOUS
<1>. QED  BY <1>1, CountedIs DEF Counted, Counting

(* Counting on where a part has been counted. *)
LEMMA CountedParts ==
  ASSUME NEW n \in Nat, NEW s \in Seq(Event), NEW t \in Seq(Event)
  PROVE  Counted(n, s \o t) = Counted(Counted(n, s), t)
<1>. DEFINE c == s \o t
            f == Counts(n, c)
            m == Counted(n, s)
            g == [k \in 0 .. Len(t) |-> f[Len(s) + k]]
<1>1. /\ c \in Seq(Event) /\ Len(c) = Len(s) + Len(t) /\ Len(s) \in Nat /\ Len(t) \in Nat
      /\ \A k \in 1 .. Len(s) + Len(t) : c[k] = IF k <= Len(s) THEN s[k] ELSE t[k - Len(s)]
  BY ConcatType
<1>. HIDE DEF c
<1>2. Counting(n, c, Len(c), f)
  BY <1>1, CountedIs
<1>. HIDE DEF f
<1>3. Counting(n, s, Len(s), [k \in 0 .. Len(s) |-> f[k]])
  <2>1. \A k \in 0 .. Len(s) : k \in 0 .. Len(c)
    BY <1>1
  <2>2. \A k \in 1 .. Len(s) : k \in 1 .. Len(c) /\ c[k] = s[k] /\ k - 1 \in 0 .. Len(s) /\ k \in 0 .. Len(s)
    BY <1>1
  <2>3. 0 \in 0 .. Len(s)
    BY <1>1
  <2>. QED  BY <1>2, <2>1, <2>2, <2>3 DEF Counting
<1>4. m = f[Len(s)] /\ m \in Nat
  <2>1. m = [k \in 0 .. Len(s) |-> f[k]][Len(s)] /\ m \in Nat
    BY <1>3, CountedAs
  <2>. QED  BY <1>1, <2>1
<1>. HIDE DEF m
<1>5. Counting(m, t, Len(t), g)
  <2>1. \A k \in 0 .. Len(t) : Len(s) + k \in 0 .. Len(c)
    BY <1>1
  <2>2. g \in [0 .. Len(t) -> Nat] /\ g[0] = m
    BY <1>1, <1>2, <1>4, <2>1 DEF Counting
  <2>3. ASSUME NEW k \in 1 .. Len(t) PROVE g[k] = Bump(g[k - 1], t[k])
    <3>1. /\ Len(s) + k \in 1 .. Len(c) /\ c[Len(s) + k] = t[k]
          /\ k \in 0 .. Len(t) /\ k - 1 \in 0 .. Len(t) /\ (Len(s) + k) - 1 = Len(s) + (k - 1)
      <4>1. PICK i \in 1 .. Len(s) + Len(t) : i = Len(s) + k
        BY <1>1
      <4>2. ~(i <= Len(s)) /\ i - Len(s) = k /\ c[i] = IF i <= Len(s) THEN s[i] ELSE t[i - Len(s)]
        BY <1>1, <4>1
      <4>. QED  BY <1>1, <4>1, <4>2
    <3>2. f[Len(s) + k] = Bump(f[(Len(s) + k) - 1], c[Len(s) + k])
      BY <1>2, <3>1 DEF Counting
    <3>. QED  BY <3>1, <3>2
  <2>. QED  BY <2>2, <2>3 DEF Counting
<1>6. Counted(m, t) = f[Len(s) + Len(t)]
  <2>1. Counted(m, t) = g[Len(t)]
    BY <1>4, <1>5, CountedAs
  <2>. QED  BY <1>1, <2>1
<1>7. Counted(n, c) = f[Len(c)]
  BY <1>1, <1>2, CountedAs
<1>. QED  BY <1>1, <1>6, <1>7 DEF c, m

(* One event, and two. *)
LEMMA CountedShort ==
  ASSUME NEW n \in Nat, NEW s \in Seq(Event)
  PROVE  /\ Len(s) = 1 => Counted(n, s) = Bump(n, s[1])
         /\ Len(s) = 2 => Counted(n, s) = Bump(Bump(n, s[1]), s[2])
<1>. DEFINE c == Counts(n, s)
<1>1. Counting(n, s, Len(s), c)
  BY CountedIs
<1>2. Counted(n, s) = c[Len(s)]
  BY DEF Counted
<1>. HIDE DEF c
<1>3. c[0] = n /\ \A k \in 1 .. Len(s) : c[k] = Bump(c[k - 1], s[k])
  BY <1>1 DEF Counting
<1>4. ASSUME Len(s) = 1 \/ Len(s) = 2 PROVE c[1] = Bump(n, s[1])
  <2>1. 1 \in 1 .. Len(s) /\ 1 - 1 = 0
    BY <1>4
  <2>2. c[1] = Bump(c[1 - 1], s[1])
    BY <1>3, <2>1
  <2>. QED  BY <1>3, <2>1, <2>2
<1>5. ASSUME Len(s) = 2 PROVE c[2] = Bump(c[1], s[2])
  <2>1. 2 \in 1 .. Len(s) /\ 2 - 1 = 1
    BY <1>5
  <2>2. c[2] = Bump(c[2 - 1], s[2])
    BY <1>3, <2>1
  <2>. QED  BY <2>1, <2>2
<1>. QED  BY <1>2, <1>4, <1>5

(* Events that are not counted. *)
LEMMA CountedOthers ==
  ASSUME NEW n \in Nat, NEW s \in Seq(Event), \A k \in 1 .. Len(s) : ~Approval(s[k])
  PROVE  Counted(n, s) = n
<1>1. Len(s) \in Nat
  OBVIOUS
<1>2. \A k \in 1 .. Len(s) : s[k].type = "other"
  BY DEF Approval
<1>3. Counting(n, s, Len(s), [k \in 0 .. Len(s) |-> n])
  <2>1. \A k \in 1 .. Len(s) : k \in 0 .. Len(s) /\ k - 1 \in 0 .. Len(s) /\ Bump(n, s[k]) = n
    BY <1>1, <1>2 DEF Bump
  <2>. QED  BY <1>1, <2>1 DEF Counting
<1>4. Counted(n, s) = [k \in 0 .. Len(s) |-> n][Len(s)]
  BY <1>3, CountedAs
<1>. QED  BY <1>1, <1>4

(* What a chunk with j data: lines leaves on the wire and hands to the client. *)
Told(s, j) == SubSeq(wire[s], 1, j)
Loses(s, j) == Gui /\ cut[s] /\ j > 0
Heard(s, j) == IF Loses(s, j) THEN Tail(Told(s, j)) ELSE Told(s, j)

(* A chunk hands over a part of the wire, from its first or its second event on. *)
LEMMA HeardIs ==
  ASSUME Types, NEW s \in Stream, NEW j \in 0 .. Len(wire[s])
  PROVE  /\ Heard(s, j) \in Seq(Event)
         /\ Len(Heard(s, j)) = IF Loses(s, j) THEN j - 1 ELSE j
         /\ \A k \in 1 .. Len(Heard(s, j)) : Heard(s, j)[k] = wire[s][IF Loses(s, j) THEN k + 1 ELSE k]
<1>1. wire[s] \in Seq(Event)
  BY DEF Types, NetTypeOK
<1>2. /\ Told(s, j) \in Seq(Event) /\ Len(Told(s, j)) = j
      /\ \A k \in 1 .. j : Told(s, j)[k] = wire[s][k]
  BY <1>1, PrefixType DEF Told
<1>3. CASE Loses(s, j)
  <2>1. Told(s, j) # << >> /\ j \in Nat \ {0}
    BY <1>2, <1>3 DEF Loses
  <2>2. /\ Tail(Told(s, j)) \in Seq(Event) /\ Len(Tail(Told(s, j))) = j - 1
        /\ \A k \in 1 .. j - 1 : Tail(Told(s, j))[k] = Told(s, j)[k + 1]
    BY <1>2, <2>1
  <2>3. Heard(s, j) = Tail(Told(s, j))
    BY <1>3 DEF Heard
  <2>4. \A k \in 1 .. j - 1 : k + 1 \in 1 .. j
    BY <2>1
  <2>. QED  BY <1>2, <1>3, <2>1, <2>2, <2>3, <2>4
<1>4. CASE ~Loses(s, j)
  BY <1>2, <1>4 DEF Heard
<1>. QED  BY <1>3, <1>4

(* What a chunk changes, in the terms of the lemmas below. *)
LEMMA ReadShape ==
  ASSUME Types, NEW s \in Stream, NEW j \in 0 .. MaxEvents, NEW more \in BOOLEAN, ReadChunk(s, j, more)
  PROVE  LET heard == Heard(s, j)
         IN /\ phase[s] = "reading" /\ j \in 0 .. Len(wire[s])
            /\ seen' = seen \o [k \in DOMAIN heard |-> Stamp(heard[k])]
            /\ count' = IF Gui THEN Counted(count, heard) ELSE count
            /\ drift' = (drift \/ (Loses(s, j) /\ Approval(Head(Told(s, j)))))
            /\ lastId' = IF ~Gui /\ heard # << >> THEN heard[Len(heard)].id ELSE lastId
            /\ wire' = [wire EXCEPT ![s] = SubSeq(wire[s], j + 1, Len(wire[s]))]
            /\ cut' = [cut EXCEPT ![s] = more]
            /\ UNCHANGED <<bus, pending, viewer, phase, broken, current, timer, gap,
                           logins, in, connected, answer, bounds>>
<1>1. wire[s] \in Seq(Event)
  BY DEF Types, NetTypeOK
<1>2. phase[s] = "reading" /\ j <= Len(wire[s])
  BY DEF ReadChunk
<1>. QED  BY <1>1, <1>2 DEF ReadChunk, Heard, Told, Loses, Stamp

(* A chunk keeps the types. *)
LEMMA ReadTypes ==
  ASSUME Types, NEW s \in Stream, NEW j \in 0 .. MaxEvents, NEW more \in BOOLEAN, ReadChunk(s, j, more)
  PROVE  Types'
<1>. DEFINE heard == Heard(s, j)
            stamps == [k \in DOMAIN heard |-> Stamp(heard[k])]
<1>1. BusTypes /\ NetTypeOK /\ ClientTypes
  BY DEF Types
<1>2. j \in 0 .. Len(wire[s]) /\ phase[s] = "reading"
  BY ReadShape
<1>3. heard \in Seq(Event)
  BY <1>2, HeardIs
<1>. HIDE DEF heard
<1>4. NetTypeOK'
  <2>1. SubSeq(wire[s], j + 1, Len(wire[s])) \in Seq(Event)
    BY <1>1, <1>2, SuffixType DEF NetTypeOK
  <2>2. /\ wire' = [wire EXCEPT ![s] = SubSeq(wire[s], j + 1, Len(wire[s]))] /\ cut' = [cut EXCEPT ![s] = more]
        /\ UNCHANGED <<phase, broken, current, timer>>
    <3>1. wire' = [wire EXCEPT ![s] = SubSeq(wire[s], j + 1, Len(wire[s]))]
      BY ReadShape
    <3>2. cut' = [cut EXCEPT ![s] = more] /\ UNCHANGED <<phase, broken, current, timer>>
      BY DEF ReadChunk
    <3>. QED  BY <3>1, <3>2
  <2>. QED  BY <1>1, <1>2, <2>1, <2>2 DEF NetTypeOK
<1>5. seen' \in Seq(Nat \X (Nat \ {0}))
  <2>1. \A k \in DOMAIN heard : Stamp(heard[k]) \in Nat \X (Nat \ {0})
    <3>1. ASSUME NEW e \in Event PROVE Stamp(e) \in Nat \X (Nat \ {0})
      <4>1. e.life \in Nat /\ e.id \in Nat \ {0}
        BY Bounds DEF Event
      <4>. QED  BY <4>1 DEF Stamp
    <3>2. \A k \in DOMAIN heard : heard[k] \in Event
      BY <1>3
    <3>. QED  BY <3>1, <3>2
  <2>2. stamps \in Seq(Nat \X (Nat \ {0}))
    BY <1>3, <2>1
  <2>3. seen' = seen \o stamps
    BY ReadShape DEF heard
  <2>. QED  BY <1>1, <2>2, <2>3 DEF ClientTypes
<1>6. count' \in Nat
  <2>1. count' = IF Gui THEN Counted(count, heard) ELSE count
    BY ReadShape DEF heard
  <2>. QED  BY <1>1, <1>3, <2>1, CountedType DEF ClientTypes, ClientTypeOK
<1>7. lastId' \in 0 .. MaxEvents
  <2>1. lastId' = IF ~Gui /\ heard # << >> THEN heard[Len(heard)].id ELSE lastId
    BY ReadShape DEF heard
  <2>2. heard # << >> => heard[Len(heard)] \in Event
    BY <1>3
  <2>. QED  BY <1>1, <2>1, <2>2, Bounds DEF Event, ClientTypes, ClientTypeOK
<1>8. dirty' \in BOOLEAN /\ drift' \in BOOLEAN
  <2>1. dirty' = (dirty \/ count' # count)
    BY DEF ReadChunk
  <2>2. drift' = (drift \/ (Loses(s, j) /\ Approval(Head(Told(s, j)))))
    BY ReadShape
  <2>. QED  BY <2>1, <2>2, Zenon
<1>9. ClientTypes'
  <2>1. UNCHANGED <<viewer, gap, logins, in, connected, answer>>
    BY ReadShape
  <2>. QED  BY <1>1, <1>5, <1>6, <1>7, <1>8, <2>1 DEF ClientTypes, ClientTypeOK
<1>10. BusStays
  BY ReadShape DEF BusStays, bounds
<1>. QED  BY <1>1, <1>4, <1>9, <1>10, TypesStay DEF Types

(* Every step keeps the types. *)
LEMMA TypesStep == Types /\ OneStream /\ BufferIsRecent /\ [Next]_vars => Types'
<1>. SUFFICES ASSUME Types, OneStream, BufferIsRecent, [Next]_vars PROVE Types'
  OBVIOUS
<1>. USE Bounds
<1>1. Types => /\ pending \in Nat /\ drift \in BOOLEAN /\ wire \in [Stream -> Seq(Event)]
               /\ BusTypes /\ NetTypeOK /\ ClientTypes
  BY DEF Types, BusTypes, BusTypeOK, NetTypeOK, ClientTypes, ClientTypeOK
<1>2. CASE Needed
  <2>1. pending' \in 0 .. MaxPending /\ drift' \in BOOLEAN
    BY <1>1, <1>2 DEF Needed, Missed
  <2>. QED  BY <1>2, <2>1, EmitTypes DEF Needed, Emission
<1>3. CASE Resolve
  <2>1. pending' \in 0 .. MaxPending /\ drift' \in BOOLEAN
    BY <1>1, <1>3 DEF Resolve, Missed, Types, BusTypes, BusTypeOK
  <2>. QED  BY <1>3, <2>1, EmitTypes DEF Resolve, Emission
<1>4. ASSUME NEW k \in 1 .. MaxPending, ExpireStale(k) PROVE Types'
  <2>1. pending' \in 0 .. MaxPending /\ drift' \in BOOLEAN
    BY <1>1, <1>4 DEF ExpireStale, Missed, Types, BusTypes, BusTypeOK
  <2>. QED  BY <1>4, <2>1, EmitTypes DEF ExpireStale, Emission
<1>5. CASE Report
  <2>1. pending' \in 0 .. MaxPending /\ drift' \in BOOLEAN
    BY <1>1, <1>5 DEF Report, Types, BusTypes, BusTypeOK
  <2>. QED  BY <1>5, <2>1, EmitTypes DEF Report, Emission
<1>6. ASSUME NEW s \in Stream, AddClient(s) PROVE Types'
  <2>1. BusTypes'
    BY <1>1, <1>6 DEF AddClient, BusTypes, BusTypeOK, bounds
  <2>2. ToReplay(lastId) \in Seq(Event)
    BY <1>1, ReplayTypes
  <2>3. NetTypeOK'
    BY <1>1, <1>6, <2>2 DEF AddClient, NetTypeOK
  <2>4. ClientTypes'
    BY <1>1, <1>6 DEF AddClient, ClientTypes, ClientTypeOK, app, Unreplayable
  <2>. QED  BY <2>1, <2>3, <2>4 DEF Types
<1>7. ASSUME NEW s \in Stream, Closed(s) PROVE Types'
  <2>1. BusTypes'
    BY <1>1, <1>7 DEF Closed, BusTypes, BusTypeOK, bounds
  <2>. QED  BY <1>1, <1>7, <2>1, TypesStay DEF Closed, Types, NetStays, ClientStays
<1>8. ASSUME NEW s \in Stream, Opened(s) PROVE Types'
  <2>1. NetTypeOK'
    BY <1>1, <1>8 DEF Opened, NetTypeOK
  <2>2. ClientTypes'
    BY <1>1, <1>8 DEF Opened, SetConnected, ClientTypes, ClientTypeOK, standard
  <2>. QED  BY <1>1, <1>8, <2>1, <2>2, TypesStay DEF Opened, Types, BusStays, bounds
<1>9. ASSUME NEW s \in Stream, Ended(s) PROVE Types'
  <2>1. NetTypeOK'
    BY <1>1, <1>9 DEF Ended, NetTypeOK
  <2>2. ClientTypes'
    BY <1>1, <1>9 DEF Ended, SetConnected, ClientTypes, ClientTypeOK, standard
  <2>. QED  BY <1>1, <1>9, <2>1, <2>2, TypesStay DEF Ended, Types, BusStays, bounds
<1>10. ASSUME NEW s \in Stream, Break(s) PROVE Types'
  <2>1. BusTypes'
    BY <1>1, <1>10 DEF Break, BusTypes, BusTypeOK, bus
  <2>2. NetTypeOK'
    <3>1. PICK j \in 0 .. Len(wire[s]) : wire' = [wire EXCEPT ![s] = SubSeq(@, 1, j)]
      BY <1>10 DEF Break
    <3>2. SubSeq(wire[s], 1, j) \in Seq(Event) /\ (wire[s] = << >> => SubSeq(wire[s], 1, j) = << >>)
      BY <1>1, <3>1, PrefixType
    <3>. QED  BY <1>1, <1>10, <3>1, <3>2 DEF Break, NetTypeOK
  <2>3. ClientTypes'
    BY <1>1, <1>10 DEF Break, ClientTypes, ClientTypeOK, standard
  <2>. QED  BY <2>1, <2>2, <2>3 DEF Types
<1>11. CASE Rerender
  <2>. DEFINE a == Aborted(current)
  <2>1. NetTypeOK'
    <3>1. Connect(a[1], a[2]) /\ cut' = a[3] /\ broken' = a[4] /\ timer' = FALSE
      BY <1>11 DEF Rerender
    <3>. HIDE DEF a
    <3>2. /\ a[1] \in [Stream -> {"none", "asked", "answered", "reading"}] /\ a[2] \in [Stream -> Seq(Event)]
          /\ a[3] \in [Stream -> BOOLEAN] /\ a[4] \subseteq Stream
          /\ \A s \in Stream : /\ a[1][s] \in {"none", "asked"} => a[2][s] = << >> /\ ~a[3][s]
                               /\ phase[s] = "none" => a[1][s] = "none"
      BY <1>1, AbortedTypes DEF a
    <3>. QED  BY <1>1, <3>1, <3>2, ConnectTypes
  <2>2. ClientTypes'
    BY <1>1, <1>11 DEF Rerender, ClientTypes, ClientTypeOK, standard, Carries
  <2>. QED  BY <1>1, <1>11, <2>1, <2>2, TypesStay DEF Rerender, Types, BusStays, bounds
<1>12. CASE TimerFires
  <2>1. NetTypeOK'
    BY <1>1, <1>12, ConnectTypes DEF TimerFires, NetTypeOK
  <2>. QED  BY <1>1, <1>12, <2>1, TypesStay DEF TimerFires, Types, BusStays, ClientStays, bounds
<1>13. CASE Login
  <2>1. NetTypeOK'
    BY <1>1, <1>13, ConnectTypes DEF Login, NetTypeOK
  <2>2. ClientTypes'
    <3>1. answer' \in Seq(Answer)
      BY <1>1, <1>13 DEF Login, ClientTypes, Asking, Ask, Answer
    <3>2. logins' \in 0 .. MaxLogins
      BY <1>1, <1>13 DEF Login, ClientTypes, ClientTypeOK
    <3>3. in' \in BOOLEAN /\ dirty' \in BOOLEAN
      BY <1>13 DEF Login
    <3>. QED  BY <1>1, <1>13, <3>1, <3>2, <3>3 DEF Login, ClientTypes, ClientTypeOK, standard
  <2>. QED  BY <1>1, <1>13, <2>1, <2>2, TypesStay DEF Login, Types, BusStays, bounds
<1>14. CASE Logout
  <2>1. NetTypeOK'
    <3>1. LET a == Aborted(current) IN phase' = a[1] /\ wire' = a[2] /\ cut' = a[3] /\ broken' = a[4]
      BY <1>14 DEF Logout
    <3>2. UNCHANGED current /\ timer' = FALSE
      BY <1>14 DEF Logout
    <3>. QED  BY <1>1, <3>1, <3>2, AbortedTypes DEF NetTypeOK
  <2>2. ClientTypes'
    BY <1>1, <1>14 DEF Logout, ClientTypes, ClientTypeOK, standard
  <2>. QED  BY <1>1, <1>14, <2>1, <2>2, TypesStay DEF Logout, Types, BusStays, bounds
<1>15. CASE Restart
  <2>1. BusTypes'
    <3>1. << >> \in Seq(Event) /\ Len(<< >>) = 0
      OBVIOUS
    <3>2. nextId' \in 1 .. MaxEvents + 1 /\ nextId' <= emitted' + 1
      BY <1>1, <1>15 DEF Restart, BusTypes, BusTypeOK
    <3>3. life' \in 0 .. MaxFaults /\ faults' \in 0 .. MaxFaults /\ life' <= faults'
      BY <1>1, <1>15 DEF Restart, BusTypes, BusTypeOK
    <3>. QED  BY <1>1, <1>15, <3>1, <3>2, <3>3, BufferAssumption DEF Restart, BusTypes, BusTypeOK
  <2>2. NetTypeOK'
    BY <1>1, <1>15 DEF Restart, NetTypeOK
  <2>3. ClientTypes'
    <3>1. answer' \in Seq(Answer)
      BY <1>1, <1>15, StaleAnswers DEF Restart
    <3>. QED  BY <1>1, <1>15, <3>1 DEF Restart, ClientTypes, ClientTypeOK
  <2>. QED  BY <2>1, <2>2, <2>3 DEF Types
<1>16. ASSUME NEW s \in Stream, NEW j \in 0 .. MaxEvents, NEW more \in BOOLEAN, ReadChunk(s, j, more) PROVE Types'
  BY <1>16, ReadTypes
<1>17. ASSUME NEW l \in 1 .. MaxLogins, ServeApprovals(l) PROVE Types'
  <2>1. answer' \in Seq(Answer)
    <3>. DEFINE a == [state |-> "served", rows |-> pending, fresh |-> current # 0 /\ wire[current] = << >>,
                      status |-> answer[l].status]
    <3>1. l \in DOMAIN answer /\ answer[l] \in Answer
      BY <1>1, <1>17 DEF ServeApprovals, ClientTypes
    <3>2. answer' = [answer EXCEPT ![l] = a]
      BY <1>17 DEF ServeApprovals
    <3>3. a \in Answer
      BY <1>1, <3>1 DEF Answer
    <3>. QED  BY <1>1, <3>1, <3>2, <3>3, AnswerTypes
  <2>2. ClientTypes'
    BY <1>1, <1>17, <2>1 DEF ServeApprovals, ClientTypes, ClientTypeOK, standard
  <2>. QED  BY <1>1, <1>17, <2>2, TypesStay DEF ServeApprovals, Types, BusStays, NetStays, bounds
<1>18. ASSUME NEW l \in 1 .. MaxLogins, ApprovalsArrive(l) \/ ApprovalsFail(l) PROVE Types'
  <2>. DEFINE a == Ask("over", answer[l].status)
  <2>1. l \in DOMAIN answer /\ answer[l] \in Answer /\ answer' = [answer EXCEPT ![l] = a]
    BY <1>1, <1>18 DEF ApprovalsArrive, ApprovalsFail, ClientTypes
  <2>2. a \in Answer
    BY <2>1 DEF Answer, Ask
  <2>3. answer' \in Seq(Answer) /\ answer[l].rows \in Nat
    BY <1>1, <2>1, <2>2, AnswerTypes DEF Answer
  <2>4. CASE ApprovalsArrive(l)
    <3>1. count' \in Nat
      BY <2>3, <2>4 DEF ApprovalsArrive, SetCount
    <3>2. dirty' \in BOOLEAN /\ drift' \in BOOLEAN
      <4>1. /\ dirty' = (dirty \/ (in /\ count # answer[l].rows))
            /\ drift' = ~(in /\ answer[l].fresh)
        BY <2>4 DEF ApprovalsArrive, SetCount
      <4>. QED  BY <4>1, Zenon
    <3>3. ClientTypes'
      BY <1>1, <2>3, <2>4, <3>1, <3>2 DEF ApprovalsArrive, ClientTypes, ClientTypeOK, standard
    <3>. QED  BY <1>1, <2>4, <3>3, TypesStay DEF ApprovalsArrive, Types, BusStays, NetStays, bounds
  <2>5. CASE ApprovalsFail(l)
    <3>1. faults' \in 0 .. MaxFaults /\ faults <= faults' /\ UNCHANGED <<bus, pending, emitted>>
      BY <1>1, <2>5 DEF ApprovalsFail, BusTypes, BusTypeOK
    <3>2. BusTypes'
      BY <1>1, <3>1 DEF BusTypes, BusTypeOK, bus
    <3>3. ClientTypes'
      BY <1>1, <2>3, <2>5 DEF ApprovalsFail, ClientTypes, ClientTypeOK, standard
    <3>. QED  BY <1>1, <2>5, <3>2, <3>3, TypesStay DEF ApprovalsFail, Types, NetStays
  <2>. QED  BY <1>18, <2>4, <2>5
<1>19. CASE UNCHANGED streamVars
  BY <1>1, <1>19, TypesStay DEF streamVars, Types, BusStays, NetStays, ClientStays, bounds
<1>20. ASSUME NEW l \in 1 .. MaxLogins, StatusArrives(l) PROVE Types'
  <2>. DEFINE a == [answer[l] EXCEPT !.status = FALSE]
  <2>1. l \in DOMAIN answer /\ answer[l] \in Answer /\ answer' = [answer EXCEPT ![l] = a]
    BY <1>1, <1>20 DEF StatusArrives, ClientTypes
  <2>2. a \in Answer
    BY <2>1 DEF Answer
  <2>3. answer' \in Seq(Answer)
    BY <1>1, <2>1, <2>2, AnswerTypes
  <2>4. faults' \in 0 .. MaxFaults /\ faults <= faults' /\ UNCHANGED <<bus, pending, emitted>>
    BY <1>1, <1>20 DEF StatusArrives, BusTypes, BusTypeOK
  <2>5. BusTypes'
    BY <1>1, <2>4 DEF BusTypes, BusTypeOK, bus
  <2>6. ClientTypes'
    BY <1>1, <1>20, <2>3 DEF StatusArrives, ClientTypes, ClientTypeOK, standard
  <2>. QED  BY <1>1, <1>20, <2>5, <2>6, TypesStay DEF StatusArrives, Types, NetStays
<1>21. ASSUME NEW k \in 1 .. MaxPending, AgentDeleted(k) PROVE Types'
  <2>1. BusTypes'
    BY <1>1, <1>21 DEF AgentDeleted, BusTypes, BusTypeOK, bus, bounds
  <2>2. answer' \in Seq(Answer)
    BY <1>1, <1>21, StaleAnswers DEF AgentDeleted
  <2>3. ClientTypes'
    BY <1>1, <1>21, <2>2 DEF AgentDeleted, ClientTypes, ClientTypeOK, standard
  <2>. QED  BY <1>1, <1>21, <2>1, <2>3, TypesStay DEF AgentDeleted, Types, NetStays
<1>. QED  BY StepsAre, <1>2, <1>3, <1>4, <1>5, <1>6, <1>7, <1>8, <1>9, <1>10, <1>11, <1>12, <1>13, <1>14, <1>15,
             <1>16, <1>17, <1>18, <1>19, <1>20, <1>21

-----------------------------------------------------------------------------
(* One stream at a time. *)

(* A stream asked for when there is none is the only one. *)
LEMMA ConnectAlone ==
  ASSUME Types, NEW ph, NEW w, \A s \in Stream : ph[s] = "none",
         ph \in [Stream -> {"none", "asked", "answered", "reading"}],
         Connect(ph, w), timer' = FALSE, Gui' => in'
  PROVE  OneStream'
<1>1. AFree \in Stream
  BY FreeStream DEF Connect, Free
<1>. QED  BY <1>1 DEF Connect, OneStream

(* No step gives a client a second stream. *)
LEMMA OneStreamStep == Types /\ OneStream /\ [Next]_vars => OneStream'
<1>. SUFFICES ASSUME Types, OneStream, [Next]_vars PROVE OneStream'
  OBVIOUS
<1>1. /\ phase \in [Stream -> {"none", "asked", "answered", "reading"}] /\ wire \in [Stream -> Seq(Event)]
      /\ timer \in BOOLEAN /\ in \in BOOLEAN /\ NetTypeOK
  BY DEF Types, NetTypeOK, ClientTypes, ClientTypeOK
<1>2. ASSUME UNCHANGED <<phase, current, timer, viewer, in>> PROVE OneStream'
  BY <1>2 DEF OneStream, Gui
<1>3. ASSUME Needed \/ Resolve \/ (\E k \in 1 .. MaxPending : ExpireStale(k)) \/ Report PROVE OneStream'
  <2>1. UNCHANGED <<phase, current, timer, viewer, in>>
    BY <1>3, ServerEmits DEF Emit
  <2>. QED  BY <1>2, <2>1
<1>4. ASSUME NEW s \in Stream, AddClient(s) PROVE OneStream'
  BY <1>1, <1>4 DEF AddClient, OneStream, Gui, app
<1>5. ASSUME NEW s \in Stream, Closed(s) PROVE OneStream'
  BY <1>2, <1>5 DEF Closed, net, app
<1>6. ASSUME NEW s \in Stream, Opened(s) PROVE OneStream'
  BY <1>1, <1>6 DEF Opened, OneStream, Gui
<1>7. ASSUME NEW s \in Stream, Ended(s) PROVE OneStream'
  BY <1>1, <1>7 DEF Ended, OneStream, Gui
<1>8. ASSUME NEW s \in Stream, Break(s) PROVE OneStream'
  BY <1>2, <1>8 DEF Break
<1>9. CASE Rerender
  <2>. DEFINE a == Aborted(current)
  <2>1. Connect(a[1], a[2]) /\ timer' = FALSE /\ in' /\ UNCHANGED viewer
    BY <1>9 DEF Rerender
  <2>. HIDE DEF a
  <2>2. a[1] \in [Stream -> {"none", "asked", "answered", "reading"}] /\ \A s \in Stream : a[1][s] = "none"
    BY <1>1, AbortedTypes DEF a, OneStream
  <2>. QED  BY <2>1, <2>2, ConnectAlone
<1>10. CASE TimerFires
  BY <1>1, <1>10, ConnectAlone DEF TimerFires, OneStream, app, Gui
<1>11. CASE Login
  BY <1>1, <1>11, ConnectAlone DEF Login, OneStream, Gui
<1>12. CASE Logout
  <2>. DEFINE a == Aborted(current)
  <2>1. phase' = a[1] /\ timer' = FALSE /\ UNCHANGED <<viewer, current>>
    BY <1>12 DEF Logout
  <2>. HIDE DEF a
  <2>2. \A s \in Stream : a[1][s] = "none"
    BY <1>1, AbortedTypes DEF a, OneStream
  <2>. QED  BY <2>1, <2>2 DEF OneStream
<1>13. CASE Restart
  BY <1>2, <1>13 DEF Restart
<1>14. ASSUME NEW s \in Stream, NEW j \in 0 .. MaxEvents, NEW more \in BOOLEAN, ReadChunk(s, j, more) PROVE OneStream'
  BY <1>2, <1>14, ReadShape
<1>15. ASSUME NEW l \in 1 .. MaxLogins, ServeApprovals(l) \/ ApprovalsArrive(l) \/ ApprovalsFail(l) \/ StatusArrives(l)
      PROVE  OneStream'
  BY <1>2, <1>15 DEF ServeApprovals, ApprovalsArrive, ApprovalsFail, StatusArrives, net
<1>16. CASE UNCHANGED streamVars
  BY <1>2, <1>16 DEF streamVars, net, app
<1>17. ASSUME NEW k \in 1 .. MaxPending, AgentDeleted(k) PROVE OneStream'
  BY <1>2, <1>17 DEF AgentDeleted, net
<1>. QED  BY StepsAre, <1>3, <1>4, <1>5, <1>6, <1>7, <1>8, <1>9, <1>10, <1>11, <1>12, <1>13, <1>14, <1>15, <1>16, <1>17

(* The buffer changes with an event and with the server. *)
LEMMA BufferStep == Types /\ BufferIsRecent /\ [Next]_vars => BufferIsRecent'
<1>. SUFFICES ASSUME Types, BufferIsRecent, [Next]_vars PROVE BufferIsRecent'
  OBVIOUS
<1>1. ASSUME Needed \/ Resolve \/ (\E k \in 1 .. MaxPending : ExpireStale(k)) \/ Report PROVE BufferIsRecent'
  BY <1>1, ServerEmits, EmitBuffer
<1>2. CASE Restart
  <2>1. buffer' = << >> /\ nextId' = 1
    BY <1>2 DEF Restart
  <2>2. Len(<< >>) = 0 /\ 1 .. 0 = {}
    OBVIOUS
  <2>. QED  BY <2>1, <2>2 DEF BufferIsRecent, Recent
<1>3. ASSUME UNCHANGED <<buffer, nextId, life>> PROVE BufferIsRecent'
  BY <1>3 DEF BufferIsRecent
<1>4. ASSUME NEW s \in Stream, AddClient(s) \/ Closed(s) \/ Opened(s) \/ Ended(s) \/ Break(s) PROVE BufferIsRecent'
  BY <1>3, <1>4 DEF AddClient, Closed, Opened, Ended, Break, bus
<1>5. CASE Rerender \/ TimerFires \/ Login \/ Logout
  BY <1>3, <1>5 DEF Rerender, TimerFires, Login, Logout, bus
<1>6. ASSUME NEW s \in Stream, NEW j \in 0 .. MaxEvents, NEW more \in BOOLEAN, ReadChunk(s, j, more)
      PROVE  BufferIsRecent'
  BY <1>3, <1>6, ReadShape DEF bus
<1>7. ASSUME NEW l \in 1 .. MaxLogins, ServeApprovals(l) \/ ApprovalsArrive(l) \/ ApprovalsFail(l) \/ StatusArrives(l)
      PROVE  BufferIsRecent'
  BY <1>3, <1>7 DEF ServeApprovals, ApprovalsArrive, ApprovalsFail, StatusArrives, bus
<1>8. CASE UNCHANGED streamVars
  BY <1>3, <1>8 DEF streamVars, bus
<1>9. ASSUME NEW k \in 1 .. MaxPending, AgentDeleted(k) PROVE BufferIsRecent'
  BY <1>3, <1>9 DEF AgentDeleted, bus
<1>. QED  BY StepsAre, <1>1, <1>2, <1>4, <1>5, <1>6, <1>7, <1>8, <1>9

-----------------------------------------------------------------------------
(* The order of events. *)

(* Stamps are ordered. *)
LEMMA LaterOrder ==
  ASSUME NEW p \in Nat \X Nat, NEW q \in Nat \X Nat, NEW r \in Nat \X Nat
  PROVE  /\ Later(p, q) /\ Later(q, r) => Later(p, r)
         /\ ~Later(p, p)
  BY DEF Later

(* Where the elements of two sequences are when one follows the other. *)
LEMMA ConcatParts ==
  ASSUME NEW S, NEW a \in Seq(S), NEW b \in Seq(S)
  PROVE  /\ \A k \in 1 .. Len(a) : k \in 1 .. Len(a \o b) /\ (a \o b)[k] = a[k]
         /\ \A k \in 1 .. Len(b) : Len(a) + k \in 1 .. Len(a \o b) /\ (a \o b)[Len(a) + k] = b[k]
         /\ \A i \in 1 .. Len(a \o b) : i > Len(a) => \E k \in 1 .. Len(b) : i = Len(a) + k
<1>. DEFINE c == a \o b
<1>1. PICK m \in Nat, n \in Nat : m = Len(a) /\ n = Len(b)
  OBVIOUS
<1>2. /\ Len(c) = m + n
      /\ \A k \in 1 .. m + n : c[k] = IF k <= m THEN a[k] ELSE b[k - m]
  BY <1>1, ConcatType
<1>. HIDE DEF c
<1>3. \A k \in 1 .. m : k \in 1 .. m + n /\ k <= m
  OBVIOUS
<1>4. \A k \in 1 .. n : m + k \in 1 .. m + n /\ ~(m + k <= m) /\ (m + k) - m = k
  OBVIOUS
<1>5. ASSUME NEW i \in 1 .. m + n, i > m PROVE i - m \in 1 .. n /\ i = m + (i - m)
  BY <1>5
<1>6. \A k \in 1 .. m : k \in 1 .. Len(c) /\ c[k] = a[k]
  BY <1>2, <1>3
<1>7. \A k \in 1 .. n : m + k \in 1 .. Len(c) /\ c[m + k] = b[k]
  BY <1>2, <1>4
<1>8. \A i \in 1 .. Len(c) : i > m => \E k \in 1 .. n : i = m + k
  BY <1>2, <1>5
<1>. QED  BY <1>1, <1>6, <1>7, <1>8 DEF c

(* Two sequences are in order when each is and the second comes after the first. *)
LEMMA OrderedParts ==
  ASSUME NEW a \in Seq(Nat \X Nat), NEW b \in Seq(Nat \X Nat), NEW p
  PROVE  Ordered(a \o b, p) <=> Ordered(a, p) /\ Ordered(b, p) /\ Behind(a, b)
<1>. DEFINE c == a \o b
<1>1. /\ Len(c) = Len(a) + Len(b) /\ Len(a) \in Nat /\ Len(b) \in Nat
      /\ \A k \in 1 .. Len(a) + Len(b) : c[k] = IF k <= Len(a) THEN a[k] ELSE b[k - Len(a)]
  BY ConcatType
<1>. HIDE DEF c
<1>2. \A k \in 1 .. Len(a) : k \in 1 .. Len(c) /\ c[k] = a[k]
  BY ConcatParts DEF c
<1>3. \A k \in 1 .. Len(b) : Len(a) + k \in 1 .. Len(c) /\ c[Len(a) + k] = b[k]
  BY ConcatParts DEF c
<1>4. \A i \in 1 .. Len(c) : i > Len(a) => \E k \in 1 .. Len(b) : i = Len(a) + k
  BY ConcatParts DEF c
<1>5. ASSUME Ordered(c, p) PROVE Ordered(a, p) /\ Ordered(b, p) /\ Behind(a, b)
  <2>1. Ordered(a, p)
    <3>1. \A k \in 1 .. Len(a) : \A j \in 1 .. k - 1 : j \in 1 .. Len(a)
      BY <1>1
    <3>. QED  BY <1>2, <1>5, <3>1 DEF Ordered
  <2>2. Ordered(b, p)
    <3>1. ASSUME NEW k \in 1 .. Len(b), NEW j \in 1 .. k - 1
          PROVE  j \in 1 .. Len(b) /\ Len(a) + j \in 1 .. (Len(a) + k) - 1
      BY <1>1
    <3>. QED  BY <1>3, <1>5, <3>1 DEF Ordered
  <2>3. Behind(a, b)
    <3>1. ASSUME NEW i \in 1 .. Len(a), NEW j \in 1 .. Len(b) PROVE i \in 1 .. (Len(a) + j) - 1
      BY <1>1
    <3>. QED  BY <1>2, <1>3, <1>5, <3>1 DEF Ordered, Behind
  <2>. QED  BY <2>1, <2>2, <2>3
<1>6. ASSUME Ordered(a, p), Ordered(b, p), Behind(a, b) PROVE Ordered(c, p)
  <2>. SUFFICES ASSUME NEW k \in 1 .. Len(c)
                PROVE  Later(p, c[k]) /\ \A j \in 1 .. k - 1 : Later(c[k], c[j])
    BY DEF Ordered
  <2>1. CASE k <= Len(a)
    <3>1. k \in 1 .. Len(a) /\ \A j \in 1 .. k - 1 : j \in 1 .. Len(a)
      BY <1>1, <2>1
    <3>. QED  BY <1>2, <1>6, <3>1 DEF Ordered
  <2>2. CASE k > Len(a)
    <3>1. PICK i \in 1 .. Len(b) : k = Len(a) + i
      BY <1>4, <2>2
    <3>2. c[k] = b[i]
      BY <1>3, <3>1
    <3>3. ASSUME NEW j \in 1 .. k - 1, j > Len(a) PROVE Later(c[k], c[j])
      <4>1. j \in 1 .. Len(c)
        BY <1>1
      <4>2. PICK h \in 1 .. Len(b) : j = Len(a) + h
        BY <1>4, <3>3, <4>1
      <4>3. h \in 1 .. i - 1
        BY <1>1, <3>1, <4>2
      <4>4. c[j] = b[h]
        BY <1>3, <4>2
      <4>. QED  BY <1>6, <3>2, <4>3, <4>4 DEF Ordered
    <3>4. ASSUME NEW j \in 1 .. k - 1, j <= Len(a) PROVE Later(c[k], c[j])
      <4>1. j \in 1 .. Len(a)
        BY <1>1, <3>4
      <4>. QED  BY <1>2, <1>6, <3>2, <4>1 DEF Behind
    <3>5. \A j \in 1 .. k - 1 : j > Len(a) \/ j <= Len(a)
      BY <1>1
    <3>. QED  BY <1>6, <3>2, <3>3, <3>4, <3>5 DEF Ordered
  <2>. QED  BY <1>1, <2>1, <2>2
<1>. QED  BY <1>5, <1>6 DEF c

(* What comes after both parts comes after the whole, and the other way round. *)
LEMMA BehindParts ==
  ASSUME NEW a \in Seq(Nat \X Nat), NEW b \in Seq(Nat \X Nat), NEW c \in Seq(Nat \X Nat)
  PROVE  /\ Behind(a \o b, c) <=> Behind(a, c) /\ Behind(b, c)
         /\ Behind(c, a \o b) <=> Behind(c, a) /\ Behind(c, b)
<1>. DEFINE d == a \o b
<1>1. /\ Len(d) = Len(a) + Len(b) /\ Len(a) \in Nat /\ Len(b) \in Nat
      /\ \A k \in 1 .. Len(a) + Len(b) : d[k] = IF k <= Len(a) THEN a[k] ELSE b[k - Len(a)]
  BY ConcatType
<1>. HIDE DEF d
<1>2. \A k \in 1 .. Len(a) : k \in 1 .. Len(d) /\ d[k] = a[k]
  BY ConcatParts DEF d
<1>3. \A k \in 1 .. Len(b) : \E i \in 1 .. Len(d) : d[i] = b[k]
  <2>1. \A k \in 1 .. Len(b) : Len(a) + k \in 1 .. Len(d) /\ d[Len(a) + k] = b[k]
    BY ConcatParts DEF d
  <2>. QED  BY <2>1
<1>4. \A i \in 1 .. Len(d) : (\E k \in 1 .. Len(a) : d[i] = a[k]) \/ (\E k \in 1 .. Len(b) : d[i] = b[k])
  <2>1. ASSUME NEW i \in 1 .. Len(d)
        PROVE  (\E k \in 1 .. Len(a) : d[i] = a[k]) \/ (\E k \in 1 .. Len(b) : d[i] = b[k])
    <3>1. CASE i <= Len(a)
      <4>1. i \in 1 .. Len(a)
        BY <1>1, <3>1
      <4>. QED  BY <1>2, <4>1
    <3>2. CASE i > Len(a)
      <4>1. PICK k \in 1 .. Len(b) : i = Len(a) + k
        BY <3>2, ConcatParts DEF d
      <4>2. d[i] = b[k]
        BY <4>1, ConcatParts DEF d
      <4>. QED  BY <4>2
    <3>. QED  BY <1>1, <3>1, <3>2
  <2>. QED  BY <2>1
<1>5. Behind(d, c) <=> Behind(a, c) /\ Behind(b, c)
  BY <1>2, <1>3, <1>4, Zenon DEF Behind
<1>6. Behind(c, d) <=> Behind(c, a) /\ Behind(c, b)
  BY <1>2, <1>3, <1>4, Zenon DEF Behind
<1>. QED  BY <1>5, <1>6 DEF d

(* The stamps of a sequence of events. *)
LEMMA StampsType ==
  ASSUME NEW s \in Seq(Event)
  PROVE  /\ Stamps(s) \in Seq(Nat \X (Nat \ {0})) /\ Stamps(s) \in Seq(Nat \X Nat)
         /\ Len(Stamps(s)) = Len(s)
         /\ \A k \in 1 .. Len(s) : Stamps(s)[k] = Stamp(s[k])
<1>1. ASSUME NEW k \in DOMAIN s PROVE Stamp(s[k]) \in Nat \X (Nat \ {0}) /\ Stamp(s[k]) \in Nat \X Nat
  <2>1. s[k] \in Event
    OBVIOUS
  <2>2. s[k].life \in Nat /\ s[k].id \in Nat \ {0}
    BY <2>1, Bounds DEF Event
  <2>. QED  BY <2>2 DEF Stamp
<1>2. DOMAIN s = 1 .. Len(s) /\ Len(s) \in Nat
  OBVIOUS
<1>3. Stamps(s) \in [1 .. Len(s) -> Nat \X (Nat \ {0})] /\ Stamps(s) \in [1 .. Len(s) -> Nat \X Nat]
  BY <1>1, <1>2 DEF Stamps
<1>4. \A k \in 1 .. Len(s) : Stamps(s)[k] = Stamp(s[k])
  BY <1>2 DEF Stamps
<1>. DEFINE a == Stamps(s)
            m == Len(s)
<1>5. m \in Nat /\ a \in [1 .. m -> Nat \X (Nat \ {0})] /\ a \in [1 .. m -> Nat \X Nat]
  BY <1>2, <1>3
<1>6. a \in Seq(Nat \X (Nat \ {0})) /\ a \in Seq(Nat \X Nat) /\ Len(a) = m
  <2>. HIDE DEF a, m
  <2>. QED  BY <1>5
<1>. QED  BY <1>4, <1>6

(* Sequences with the same elements are the same. *)
LEMMA SameSeq ==
  ASSUME NEW S, NEW s \in Seq(S), NEW t \in Seq(S), Len(s) = Len(t), \A k \in 1 .. Len(t) : s[k] = t[k]
  PROVE  s = t
  OBVIOUS

(* The stamps of two sequences of events, one after the other. *)
LEMMA StampsConcat ==
  ASSUME NEW s \in Seq(Event), NEW t \in Seq(Event)
  PROVE  Stamps(s \o t) = Stamps(s) \o Stamps(t)
<1>. DEFINE c == s \o t
            a == Stamps(s)
            b == Stamps(t)
<1>1. /\ c \in Seq(Event) /\ Len(c) = Len(s) + Len(t) /\ Len(s) \in Nat /\ Len(t) \in Nat
      /\ \A k \in 1 .. Len(s) + Len(t) : c[k] = IF k <= Len(s) THEN s[k] ELSE t[k - Len(s)]
  BY ConcatType
<1>2. /\ a \in Seq(Nat \X Nat) /\ Len(a) = Len(s) /\ \A k \in 1 .. Len(s) : a[k] = Stamp(s[k])
      /\ b \in Seq(Nat \X Nat) /\ Len(b) = Len(t) /\ \A k \in 1 .. Len(t) : b[k] = Stamp(t[k])
  BY StampsType
<1>. HIDE DEF c, a, b
<1>3. /\ a \o b \in Seq(Nat \X Nat) /\ Len(a \o b) = Len(s) + Len(t)
      /\ \A k \in 1 .. Len(s) + Len(t) : (a \o b)[k] = IF k <= Len(s) THEN a[k] ELSE b[k - Len(s)]
  <2>1. /\ a \o b \in Seq(Nat \X Nat) /\ Len(a \o b) = Len(a) + Len(b)
        /\ \A k \in 1 .. Len(a) + Len(b) : (a \o b)[k] = IF k <= Len(a) THEN a[k] ELSE b[k - Len(a)]
    <3>1. a \in Seq(Nat \X Nat) /\ b \in Seq(Nat \X Nat)
      BY <1>2
    <3>. QED  BY <3>1, ConcatType
  <2>. QED  BY <1>2, <2>1, Zenon
<1>4. /\ Stamps(c) \in Seq(Nat \X Nat) /\ Len(Stamps(c)) = Len(c)
      /\ \A k \in 1 .. Len(c) : Stamps(c)[k] = Stamp(c[k])
  BY <1>1, StampsType
<1>5. ASSUME NEW k \in 1 .. Len(s) + Len(t) PROVE Stamps(c)[k] = (a \o b)[k]
  <2>1. Stamps(c)[k] = Stamp(c[k])
    BY <1>1, <1>4
  <2>2. c[k] = (IF k <= Len(s) THEN s[k] ELSE t[k - Len(s)])
        /\ (a \o b)[k] = (IF k <= Len(s) THEN a[k] ELSE b[k - Len(s)])
    BY <1>1, <1>3
  <2>3. (k <= Len(s) /\ k \in 1 .. Len(s)) \/ (~(k <= Len(s)) /\ k - Len(s) \in 1 .. Len(t))
    BY <1>1
  <2>. QED  BY <1>2, <2>1, <2>2, <2>3, Zenon
<1>6. Stamps(c) = a \o b
  <2>1. Stamps(c) \in Seq(Nat \X Nat) /\ a \o b \in Seq(Nat \X Nat) /\ Len(Stamps(c)) = Len(a \o b)
    BY <1>1, <1>3, <1>4
  <2>2. \A k \in 1 .. Len(a \o b) : Stamps(c)[k] = (a \o b)[k]
    BY <1>3, <1>5
  <2>. QED  BY <2>1, <2>2, SameSeq
<1>. QED  BY <1>6 DEF a, b, c

(* Nothing is in order, and after everything. *)
LEMMA EmptyOrder == \A p, a : Ordered(Stamps(<< >>), p) /\ Behind(a, Stamps(<< >>))
<1>1. << >> \in Seq(Event) /\ Len(<< >>) = 0
  OBVIOUS
<1>2. Len(Stamps(<< >>)) = 0
  BY <1>1, StampsType
<1>3. 1 .. 0 = {}
  OBVIOUS
<1>. QED  BY <1>2, <1>3 DEF Ordered, Behind

(* A sequence is what was read of it and the rest. *)
LEMMA Split ==
  ASSUME NEW s \in Seq(Event), NEW j \in 0 .. Len(s)
  PROVE  s = SubSeq(s, 1, j) \o SubSeq(s, j + 1, Len(s))
<1>. DEFINE a == SubSeq(s, 1, j)
            b == SubSeq(s, j + 1, Len(s))
<1>1. a \in Seq(Event) /\ Len(a) = j /\ \A k \in 1 .. j : a[k] = s[k]
  BY PrefixType
<1>2. b \in Seq(Event) /\ Len(b) = Len(s) - j /\ \A k \in 1 .. Len(s) - j : b[k] = s[j + k]
  BY SuffixType
<1>3. Len(s) \in Nat /\ j \in Nat /\ j <= Len(s)
  OBVIOUS
<1>. HIDE DEF a, b
<1>4. a \o b \in Seq(Event) /\ Len(a \o b) = Len(s)
  <2>1. a \o b \in Seq(Event) /\ Len(a \o b) = Len(a) + Len(b)
    BY <1>1, <1>2, ConcatType
  <2>. QED  BY <1>1, <1>2, <1>3, <2>1
<1>5. ASSUME NEW k \in 1 .. Len(s) PROVE (a \o b)[k] = s[k]
  <2>1. (a \o b)[k] = IF k <= Len(a) THEN a[k] ELSE b[k - Len(a)]
    <3>1. k \in 1 .. Len(a) + Len(b)
      BY <1>1, <1>2, <1>3
    <3>. QED  BY <1>1, <1>2, <3>1, ConcatType
  <2>2. CASE k <= j
    BY <1>1, <1>3, <2>1, <2>2
  <2>3. CASE k > j
    <3>1. k - j \in 1 .. Len(s) - j /\ ~(k <= j) /\ j + (k - j) = k
      BY <1>3, <2>3
    <3>2. b[k - j] = s[k]
      BY <1>2, <3>1
    <3>3. (a \o b)[k] = b[k - j]
      BY <1>1, <2>1, <3>1, Zenon
    <3>. QED  BY <3>2, <3>3
  <2>4. k <= j \/ k > j
    <3>1. k \in Nat
      BY <1>3
    <3>. QED  BY <1>3, <3>1
  <2>. QED  BY <2>2, <2>3, <2>4, Zenon
<1>6. s \in Seq(Event) /\ Len(s) = Len(a \o b) /\ \A k \in 1 .. Len(a \o b) : s[k] = (a \o b)[k]
  BY <1>4, <1>5
<1>. QED  BY <1>4, <1>6, SameSeq DEF a, b

(* Events numbered from n on. *)
LEMMA NumberedOrder ==
  ASSUME NEW l \in Nat, NEW n \in Nat, NEW t \in Seq(Event),
         \A k \in 1 .. Len(t) : t[k].life = l /\ t[k].id = n + k - 1
  PROVE  /\ Ordered(Stamps(t), <<l, n + Len(t)>>)
         /\ \A p \in Nat \X Nat : Later(<<l, n>>, p) =>
              Later(<<l, n + Len(t)>>, p) /\ \A k \in 1 .. Len(t) : Later(Stamps(t)[k], p)
<1>1. Len(t) \in Nat /\ Len(Stamps(t)) = Len(t)
  BY StampsType
<1>2. \A k \in 1 .. Len(t) : Stamps(t)[k] = <<l, n + k - 1>>
  BY StampsType DEF Stamp
<1>3. ASSUME NEW x \in Nat, NEW y \in Nat, x < y PROVE Later(<<l, y>>, <<l, x>>)
  BY <1>3 DEF Later
<1>4. Ordered(Stamps(t), <<l, n + Len(t)>>)
  <2>1. ASSUME NEW k \in 1 .. Len(t)
        PROVE  /\ n + k - 1 \in Nat /\ n + k - 1 < n + Len(t)
               /\ \A j \in 1 .. k - 1 : j \in 1 .. Len(t) /\ n + j - 1 \in Nat /\ n + j - 1 < n + k - 1
    BY <1>1
  <2>2. n + Len(t) \in Nat
    BY <1>1
  <2>. QED  BY <1>1, <1>2, <1>3, <2>1, <2>2 DEF Ordered
<1>5. ASSUME NEW p \in Nat \X Nat, Later(<<l, n>>, p), NEW m \in Nat, n <= m PROVE Later(<<l, m>>, p)
  BY <1>5 DEF Later
<1>6. n + Len(t) \in Nat /\ n <= n + Len(t) /\ \A k \in 1 .. Len(t) : n + k - 1 \in Nat /\ n <= n + k - 1
  BY <1>1
<1>. QED  BY <1>2, <1>4, <1>5, <1>6

(* What was before p is before whatever comes after p. *)
LEMMA OrderedLonger ==
  ASSUME NEW a \in Seq(Nat \X Nat), NEW p \in Nat \X Nat, NEW q \in Nat \X Nat, Ordered(a, p), Later(q, p) \/ q = p
  PROVE  Ordered(a, q)
<1>1. \A k \in 1 .. Len(a) : a[k] \in Nat \X Nat
  OBVIOUS
<1>. QED  BY <1>1, LaterOrder DEF Ordered

(* The types the order of events rests on. *)
LEMMA OrderTypes ==
  ASSUME Types
  PROVE  /\ Present \in Nat \X Nat /\ Present = <<life, nextId>> /\ life \in Nat /\ nextId \in Nat
         /\ seen \in Seq(Nat \X (Nat \ {0})) /\ seen \in Seq(Nat \X Nat)
         /\ wire \in [Stream -> Seq(Event)]
<1>1. Present \in Nat \X Nat /\ Present = <<life, nextId>> /\ life \in Nat /\ nextId \in Nat
  BY Bounds DEF Types, BusTypes, BusTypeOK, Present
<1>2. seen \in Seq(Nat \X (Nat \ {0}))
  BY DEF Types, ClientTypes
<1>3. wire \in [Stream -> Seq(Event)]
  BY DEF Types, NetTypeOK
<1>. QED  BY <1>1, <1>2, <1>3

(* Nothing new is written or handled. *)
Shrinks ==
  \A s \in Stream : \/ wire'[s] = wire[s] \/ wire'[s] = << >>
                    \/ \E j \in 0 .. Len(wire[s]) : wire'[s] = SubSeq(wire[s], 1, j)
TimePasses == Present' = Present \/ Later(Present', Present)

(* A step that writes and handles nothing keeps the order. *)
LEMMA AscendsStays ==
  ASSUME Types, Present' \in Nat \X Nat, Ascends, UNCHANGED seen, Shrinks, TimePasses
  PROVE  Ascends'
<1>1. Present \in Nat \X Nat /\ seen \in Seq(Nat \X Nat) /\ wire \in [Stream -> Seq(Event)]
  BY OrderTypes
<1>2. Ordered(seen, Present')
  BY <1>1, OrderedLonger DEF Ascends, TimePasses
<1>3. ASSUME NEW s \in Stream
      PROVE  Ordered(Stamps(wire'[s]), Present') /\ Behind(seen, Stamps(wire'[s]))
  <2>1. wire[s] \in Seq(Event) /\ Stamps(wire[s]) \in Seq(Nat \X Nat)
    BY <1>1, StampsType
  <2>2. Ordered(Stamps(wire[s]), Present') /\ Behind(seen, Stamps(wire[s]))
    BY <1>1, <2>1, OrderedLonger DEF Ascends, TimePasses
  <2>3. CASE wire'[s] = wire[s]
    BY <2>2, <2>3
  <2>4. ASSUME NEW j \in 0 .. Len(wire[s]), wire'[s] = SubSeq(wire[s], 1, j)
        PROVE  Ordered(Stamps(wire'[s]), Present') /\ Behind(seen, Stamps(wire'[s]))
    <3>. DEFINE a == SubSeq(wire[s], 1, j)
                b == SubSeq(wire[s], j + 1, Len(wire[s]))
    <3>1. wire[s] = a \o b /\ a \in Seq(Event) /\ b \in Seq(Event)
      BY <2>1, Split, PrefixType, SuffixType
    <3>. HIDE DEF a, b
    <3>2. Stamps(wire[s]) = Stamps(a) \o Stamps(b) /\ Stamps(a) \in Seq(Nat \X Nat) /\ Stamps(b) \in Seq(Nat \X Nat)
      BY <3>1, StampsConcat, StampsType
    <3>3. Ordered(Stamps(a), Present') /\ Behind(seen, Stamps(a))
      BY <1>1, <2>2, <3>2, OrderedParts, BehindParts
    <3>. QED  BY <2>4, <3>3 DEF a
  <2>5. CASE wire'[s] = << >>
    BY <2>5, EmptyOrder
  <2>. QED  BY <2>3, <2>4, <2>5 DEF Shrinks
<1>. QED  BY <1>2, <1>3 DEF Ascends

(* New events come last. *)
LEMMA AscendsEmit ==
  ASSUME Types, Ascends, NEW types \in Emission, Emit(types)
  PROVE  Ascends'
<1>. DEFINE new == NewEvents(types)
<1>1. /\ \A s \in Stream : wire'[s] = IF s \in Written THEN wire[s] \o new ELSE wire[s]
      /\ nextId' = nextId + Len(types) /\ life' = life
  BY EmitShape
<1>2. UNCHANGED seen /\ emitted + Len(types) <= MaxEvents
  BY DEF Emit
<1>3. /\ new \in Seq(Event) /\ Len(new) = Len(types)
      /\ \A k \in 1 .. Len(new) : new[k].life = life /\ new[k].id = nextId + k - 1
  BY <1>2, NewEventsType
<1>. HIDE DEF new
<1>4. /\ Present \in Nat \X Nat /\ Present = <<life, nextId>> /\ life \in Nat /\ nextId \in Nat
      /\ seen \in Seq(Nat \X Nat) /\ wire \in [Stream -> Seq(Event)]
  BY OrderTypes
<1>5. /\ Ordered(Stamps(new), Present')
      /\ \A p \in Nat \X Nat : Later(Present, p) =>
           Later(Present', p) /\ \A k \in 1 .. Len(new) : Later(Stamps(new)[k], p)
  <2>1. Present' = <<life, nextId + Len(new)>>
    BY <1>1, <1>3 DEF Present
  <2>. QED  BY <1>3, <1>4, <2>1, NumberedOrder
<1>6. Stamps(new) \in Seq(Nat \X Nat) /\ Len(Stamps(new)) = Len(new)
  BY <1>3, StampsType
<1>7. ASSUME NEW a \in Seq(Nat \X Nat), Ordered(a, Present) PROVE Ordered(a, Present') /\ Behind(a, Stamps(new))
  <2>1. \A k \in 1 .. Len(a) : a[k] \in Nat \X Nat
    OBVIOUS
  <2>. QED  BY <1>5, <1>6, <1>7, <2>1 DEF Ordered, Behind
<1>8. Ordered(seen, Present') /\ Behind(seen, Stamps(new))
  BY <1>4, <1>7 DEF Ascends
<1>9. ASSUME NEW s \in Stream
      PROVE  Ordered(Stamps(wire'[s]), Present') /\ Behind(seen, Stamps(wire'[s]))
  <2>1. wire[s] \in Seq(Event) /\ Stamps(wire[s]) \in Seq(Nat \X Nat)
    BY <1>4, StampsType
  <2>2. Ordered(Stamps(wire[s]), Present') /\ Behind(Stamps(wire[s]), Stamps(new)) /\ Behind(seen, Stamps(wire[s]))
    BY <1>7, <2>1 DEF Ascends
  <2>3. CASE s \notin Written
    BY <1>1, <2>2, <2>3
  <2>4. CASE s \in Written
    <3>1. Stamps(wire'[s]) = Stamps(wire[s]) \o Stamps(new)
      BY <1>1, <1>3, <2>1, <2>4, StampsConcat
    <3>. QED  BY <1>4, <1>5, <1>6, <1>8, <2>1, <2>2, <3>1, OrderedParts, BehindParts
  <2>. QED  BY <2>3, <2>4
<1>. QED  BY <1>2, <1>8, <1>9 DEF Ascends

(* A sequence is its first element and the rest. *)
LEMMA HeadAndTail ==
  ASSUME NEW t \in Seq(Event), t # << >>
  PROVE  Head(t) \in Event /\ <<Head(t)>> \in Seq(Event) /\ Tail(t) \in Seq(Event) /\ t = <<Head(t)>> \o Tail(t)
<1>. DEFINE a == <<Head(t)>>
            b == Tail(t)
<1>1. PICK n \in Nat \ {0} : Len(t) = n
  OBVIOUS
<1>2. /\ Head(t) = t[1] /\ t[1] \in Event /\ a \in Seq(Event) /\ Len(a) = 1 /\ a[1] = t[1]
      /\ b \in Seq(Event) /\ Len(b) = n - 1 /\ \A k \in 1 .. n - 1 : b[k] = t[k + 1]
  BY <1>1
<1>. HIDE DEF a, b
<1>3. /\ a \o b \in Seq(Event) /\ Len(a \o b) = n
      /\ \A k \in 1 .. n : (a \o b)[k] = IF k <= 1 THEN a[k] ELSE b[k - 1]
  <2>1. /\ a \o b \in Seq(Event) /\ Len(a \o b) = Len(a) + Len(b)
        /\ \A k \in 1 .. Len(a) + Len(b) : (a \o b)[k] = IF k <= Len(a) THEN a[k] ELSE b[k - Len(a)]
    BY <1>2, ConcatType
  <2>2. 1 + (n - 1) = n
    OBVIOUS
  <2>3. Len(a) + Len(b) = n
    BY <1>2, <2>2
  <2>. QED  BY <1>2, <2>1, <2>3, Zenon
<1>4. ASSUME NEW k \in 1 .. n PROVE t[k] = (a \o b)[k]
  <2>1. CASE k = 1
    BY <1>2, <1>3, <2>1
  <2>2. CASE k # 1
    <3>1. k - 1 \in 1 .. n - 1 /\ ~(k <= 1) /\ (k - 1) + 1 = k
      BY <2>2
    <3>. QED  BY <1>2, <1>3, <3>1
  <2>. QED  BY <2>1, <2>2
<1>5. t = a \o b
  BY <1>1, <1>3, <1>4, SameSeq
<1>. QED  BY <1>2, <1>5 DEF a, b

(* What a client that reconnects is sent again follows what it has handled. *)
LEMMA ReplayOrder ==
  ASSUME Types, BufferIsRecent, Ascends, Remembers, ~Gui
  PROVE  Ordered(Stamps(ToReplay(lastId)), Present) /\ Behind(seen, Stamps(ToReplay(lastId)))
<1>. DEFINE r == ToReplay(lastId)
<1>1. /\ Present = <<life, nextId>> /\ life \in Nat /\ nextId \in Nat /\ seen \in Seq(Nat \X Nat)
      /\ buffer \in Seq(Event) /\ lastId \in Nat
  BY OrderTypes, Bounds DEF Types, BusTypes, BusTypeOK, ClientTypes, ClientTypeOK
<1>2. CASE r = << >>
  BY <1>2, EmptyOrder
<1>3. CASE r # << >>
  <2>1. PICK j \in 0 .. Len(buffer) - 1 : /\ r = SubSeq(buffer, j + 1, Len(buffer))
                                          /\ lastId # 0 /\ buffer[j + 1].id > lastId
    BY <1>1, <1>3, ReplayIsSuffix
  <2>2. j \in 0 .. Len(buffer) /\ Len(buffer) - j \in Nat \ {0}
    BY <1>1
  <2>3. /\ r \in Seq(Event) /\ Len(r) = Len(buffer) - j /\ r[1] = buffer[j + 1]
        /\ Recent(r, nextId, life)
    <3>1. 1 \in 1 .. Len(buffer) - j
      BY <2>2
    <3>. QED  BY <1>1, <2>1, <2>2, <3>1, SuffixType, RecentSuffix DEF BufferIsRecent
  <2>. HIDE DEF r
  <2>4. PICK n \in Nat : n = nextId - Len(r) /\ n + Len(r) = nextId
    <3>1. Len(r) < nextId /\ Len(r) \in Nat
      BY <2>2, <2>3 DEF Recent
    <3>2. nextId - Len(r) \in Nat /\ (nextId - Len(r)) + Len(r) = nextId
      BY <1>1, <3>1
    <3>. QED  BY <3>2
  <2>5. \A k \in 1 .. Len(r) : r[k].life = life /\ r[k].id = n + k - 1
    BY <2>3, <2>4 DEF Recent
  <2>6. /\ Ordered(Stamps(r), Present)
        /\ \A p \in Nat \X Nat : Later(<<life, n>>, p) => \A k \in 1 .. Len(r) : Later(Stamps(r)[k], p)
    <3>1. life \in Nat /\ n \in Nat /\ r \in Seq(Event) /\ Present = <<life, n + Len(r)>>
      BY <1>1, <2>3, <2>4
    <3>2. /\ Ordered(Stamps(r), <<life, n + Len(r)>>)
          /\ \A p \in Nat \X Nat : Later(<<life, n>>, p) => \A k \in 1 .. Len(r) : Later(Stamps(r)[k], p)
      BY <2>5, <3>1, NumberedOrder
    <3>. QED  BY <3>1, <3>2, Zenon
  <2>7. n > lastId
    <3>1. 1 \in 1 .. Len(r)
      BY <2>2, <2>3
    <3>2. n + 1 - 1 = n
      OBVIOUS
    <3>. QED  BY <2>1, <2>3, <2>5, <3>1, <3>2
  <2>. DEFINE m == Len(seen)
  <2>8. m \in 1 .. Len(seen) /\ m \in Nat /\ seen[m] \in Nat \X Nat /\ lastId = seen[m][2]
    <3>1. seen # << >> /\ lastId = seen[m][2]
      BY <2>1 DEF Remembers
    <3>. QED  BY <1>1, <3>1
  <2>9. Later(<<life, n>>, seen[m])
    <3>1. Later(<<life, nextId>>, seen[m])
      BY <1>1, <2>8 DEF Ascends, Ordered
    <3>. QED  BY <1>1, <2>4, <2>7, <2>8, <3>1 DEF Later
  <2>10. ASSUME NEW i \in 1 .. Len(seen) PROVE Later(<<life, n>>, seen[i])
    <3>1. CASE i = m
      BY <2>9, <3>1
    <3>2. CASE i # m
      <4>1. i \in 1 .. m - 1 /\ seen[i] \in Nat \X Nat
        <5>1. i \in 1 .. m - 1
          BY <2>8, <3>2
        <5>2. seen[i] \in Nat \X Nat
          BY <1>1
        <5>. QED  BY <5>1, <5>2
      <4>2. Later(seen[m], seen[i])
        BY <2>8, <4>1 DEF Ascends, Ordered
      <4>3. <<life, n>> \in Nat \X Nat
        BY <1>1
      <4>. QED  BY <2>8, <2>9, <4>1, <4>2, <4>3, LaterOrder
    <3>. QED  BY <3>1, <3>2
  <2>11. Behind(seen, Stamps(r))
    <3>1. \A i \in 1 .. Len(seen) : seen[i] \in Nat \X Nat
      BY <1>1
    <3>2. Len(Stamps(r)) = Len(r)
      BY <2>3, StampsType
    <3>. QED  BY <2>6, <2>10, <3>1, <3>2 DEF Behind
  <2>. QED  BY <2>6, <2>11 DEF r
<1>. QED  BY <1>2, <1>3

(* What is read was next. *)
LEMMA AscendsRead ==
  ASSUME Types, OneStream, Ascends,
         NEW s \in Stream, NEW j \in 0 .. MaxEvents, NEW more \in BOOLEAN, ReadChunk(s, j, more)
  PROVE  Ascends'
<1>. DEFINE told == Told(s, j)
            rest == SubSeq(wire[s], j + 1, Len(wire[s]))
            heard == Heard(s, j)
<1>1. seen \in Seq(Nat \X Nat) /\ wire \in [Stream -> Seq(Event)]
  BY OrderTypes
<1>2. /\ phase[s] = "reading" /\ j \in 0 .. Len(wire[s])
      /\ seen' = seen \o Stamps(heard)
      /\ wire' = [wire EXCEPT ![s] = rest]
      /\ Present' = Present
  BY ReadShape DEF Stamps, bus, Present
<1>3. wire[s] = told \o rest /\ told \in Seq(Event) /\ rest \in Seq(Event)
  BY <1>1, <1>2, Split, PrefixType, SuffixType DEF Told
<1>. HIDE DEF told, rest
<1>4. /\ Stamps(wire[s]) = Stamps(told) \o Stamps(rest)
      /\ Stamps(told) \in Seq(Nat \X Nat) /\ Stamps(rest) \in Seq(Nat \X Nat)
  BY <1>3, StampsConcat, StampsType
<1>5. /\ Ordered(Stamps(told), Present) /\ Ordered(Stamps(rest), Present) /\ Behind(Stamps(told), Stamps(rest))
      /\ Behind(seen, Stamps(told)) /\ Behind(seen, Stamps(rest))
  <2>1. Ordered(Stamps(wire[s]), Present) /\ Behind(seen, Stamps(wire[s]))
    BY DEF Ascends
  <2>. QED  BY <1>1, <1>4, <2>1, OrderedParts, BehindParts
<1>6. /\ Stamps(heard) \in Seq(Nat \X Nat) /\ Ordered(Stamps(heard), Present)
      /\ Behind(Stamps(heard), Stamps(rest)) /\ Behind(seen, Stamps(heard))
  <2>1. CASE ~Loses(s, j)
    <3>1. heard = told
      BY <2>1 DEF Heard, told
    <3>. QED  BY <1>4, <1>5, <3>1
  <2>2. CASE Loses(s, j)
    <3>1. heard = Tail(told) /\ told # << >>
      <4>1. Len(told) = j /\ j > 0
        BY <1>1, <1>2, <2>2, PrefixType DEF told, Told, Loses
      <4>. QED  BY <1>3, <2>2, <4>1 DEF Heard, told
    <3>2. <<Head(told)>> \in Seq(Event) /\ Tail(told) \in Seq(Event) /\ told = <<Head(told)>> \o Tail(told)
      BY <1>3, <3>1, HeadAndTail
    <3>. DEFINE h == Stamps(<<Head(told)>>)
                b == Stamps(Tail(told))
    <3>3. h \in Seq(Nat \X Nat) /\ b \in Seq(Nat \X Nat) /\ Stamps(told) = h \o b
      BY <3>2, StampsConcat, StampsType
    <3>. HIDE DEF h, b
    <3>4. Ordered(b, Present) /\ Behind(b, Stamps(rest)) /\ Behind(seen, b)
      BY <1>1, <1>4, <1>5, <3>3, OrderedParts, BehindParts
    <3>. QED  BY <3>1, <3>3, <3>4 DEF b
  <2>. QED  BY <2>1, <2>2
<1>. HIDE DEF heard
<1>7. Ordered(seen', Present') /\ Behind(seen', Stamps(rest))
  <2>1. Ordered(seen, Present)
    BY DEF Ascends
  <2>. QED  BY <1>1, <1>2, <1>4, <1>5, <1>6, <2>1, OrderedParts, BehindParts
<1>8. ASSUME NEW u \in Stream
      PROVE  Ordered(Stamps(wire'[u]), Present') /\ Behind(seen', Stamps(wire'[u]))
  <2>1. CASE u = s
    <3>1. wire'[u] = rest
      BY <1>1, <1>2, <2>1
    <3>. QED  BY <1>2, <1>5, <1>7, <3>1
  <2>2. CASE u # s
    <3>1. phase[u] = "none"
      BY <1>2, <2>2 DEF OneStream
    <3>2. wire'[u] = << >>
      BY <1>1, <1>2, <2>2, <3>1 DEF Types, NetTypeOK
    <3>. QED  BY <3>2, EmptyOrder
  <2>. QED  BY <2>1, <2>2
<1>. QED  BY <1>7, <1>8 DEF Ascends

(* Every step keeps the order. *)
LEMMA AscendsStep == Order /\ [Next]_vars => Ascends'
<1>. SUFFICES ASSUME Types, OneStream, BufferIsRecent, Ascends, Remembers, [Next]_vars PROVE Ascends'
  BY DEF Order
<1>1. wire \in [Stream -> Seq(Event)] /\ Present \in Nat \X Nat /\ life \in Nat /\ NetTypeOK
  BY OrderTypes DEF Types
<1>2. ASSUME UNCHANGED <<seen, life, nextId>>, Shrinks PROVE Ascends'
  BY <1>1, <1>2, AscendsStays DEF Present, TimePasses
<1>3. ASSUME UNCHANGED wire PROVE Shrinks
  BY <1>3 DEF Shrinks
<1>4. ASSUME Needed \/ Resolve \/ (\E k \in 1 .. MaxPending : ExpireStale(k)) \/ Report PROVE Ascends'
  BY <1>4, ServerEmits, AscendsEmit
<1>5. ASSUME NEW s \in Stream, AddClient(s) PROVE Ascends'
  <2>1. /\ wire' = [wire EXCEPT ![s] = IF Gui THEN << >> ELSE ToReplay(lastId)]
        /\ UNCHANGED <<seen, life, nextId>>
    BY <1>5 DEF AddClient
  <2>2. Ordered(Stamps(wire'[s]), Present) /\ Behind(seen, Stamps(wire'[s]))
    BY <1>1, <2>1, ReplayOrder, EmptyOrder
  <2>3. \A u \in Stream : u # s => wire'[u] = wire[u]
    BY <1>1, <2>1
  <2>4. Present' = Present
    BY <2>1 DEF Present
  <2>. QED  BY <2>1, <2>2, <2>3, <2>4 DEF Ascends
<1>6. ASSUME NEW s \in Stream, Closed(s) \/ Opened(s) \/ Ended(s) PROVE Ascends'
  <2>1. UNCHANGED <<seen, life, nextId, wire>>
    BY <1>6 DEF Closed, Opened, Ended, bus, net
  <2>. QED  BY <1>2, <1>3, <2>1
<1>7. ASSUME NEW s \in Stream, Break(s) PROVE Ascends'
  <2>1. UNCHANGED <<seen, life, nextId>>
    BY <1>7 DEF Break, bus
  <2>2. Shrinks
    BY <1>1, <1>7 DEF Break, Shrinks
  <2>. QED  BY <1>2, <2>1, <2>2
<1>8. CASE Rerender
  <2>. DEFINE a == Aborted(current)
  <2>1. Connect(a[1], a[2]) /\ UNCHANGED <<seen, life, nextId>>
    BY <1>8 DEF Rerender, bus
  <2>. HIDE DEF a
  <2>2. wire' = a[2]
    BY <2>1 DEF Connect
  <2>3. \A s \in Stream : a[2][s] = wire[s] \/ a[2][s] = << >>
    BY <1>1, AbortedTypes DEF a
  <2>. QED  BY <1>2, <2>1, <2>2, <2>3 DEF Shrinks
<1>9. CASE Logout
  <2>. DEFINE a == Aborted(current)
  <2>1. wire' = a[2] /\ UNCHANGED <<seen, life, nextId>>
    BY <1>9 DEF Logout, bus
  <2>. HIDE DEF a
  <2>2. \A s \in Stream : a[2][s] = wire[s] \/ a[2][s] = << >>
    BY <1>1, AbortedTypes DEF a
  <2>. QED  BY <1>2, <2>1, <2>2 DEF Shrinks
<1>10. CASE TimerFires \/ Login
  <2>1. UNCHANGED <<seen, life, nextId, wire>>
    BY <1>10 DEF TimerFires, Login, Connect, bus
  <2>. QED  BY <1>2, <1>3, <2>1
<1>11. CASE Restart
  <2>1. life' = life + 1 /\ nextId' = 1 /\ UNCHANGED <<seen, wire>>
    BY <1>11 DEF Restart
  <2>2. Present' \in Nat \X Nat /\ TimePasses
    BY <1>1, <2>1 DEF Present, TimePasses, Later
  <2>. QED  BY <1>3, <2>1, <2>2, AscendsStays
<1>12. ASSUME NEW s \in Stream, NEW j \in 0 .. MaxEvents, NEW more \in BOOLEAN, ReadChunk(s, j, more) PROVE Ascends'
  BY <1>12, AscendsRead
<1>13. ASSUME NEW l \in 1 .. MaxLogins, ServeApprovals(l) \/ ApprovalsArrive(l) \/ ApprovalsFail(l) \/ StatusArrives(l)
      PROVE  Ascends'
  <2>1. UNCHANGED <<seen, life, nextId, wire>>
    BY <1>13 DEF ServeApprovals, ApprovalsArrive, ApprovalsFail, StatusArrives, bus, net
  <2>. QED  BY <1>2, <1>3, <2>1
<1>14. CASE UNCHANGED streamVars
  <2>1. UNCHANGED <<seen, life, nextId, wire>>
    BY <1>14 DEF streamVars, bus, net
  <2>. QED  BY <1>2, <1>3, <2>1
<1>15. ASSUME NEW k \in 1 .. MaxPending, AgentDeleted(k) PROVE Ascends'
  <2>1. UNCHANGED <<seen, life, nextId, wire>>
    BY <1>15 DEF AgentDeleted, bus, net
  <2>. QED  BY <1>2, <1>3, <2>1
<1>. QED  BY StepsAre, <1>4, <1>5, <1>6, <1>7, <1>8, <1>9, <1>10, <1>11, <1>12, <1>13, <1>14, <1>15

(* Last-Event-ID is the number of the last event handled. *)
LEMMA RemembersStep == Types /\ Remembers /\ [Next]_vars => Remembers'
<1>. SUFFICES ASSUME Types, Remembers, [Next]_vars PROVE Remembers'
  OBVIOUS
<1>1. ASSUME UNCHANGED <<viewer, seen, lastId>> PROVE Remembers'
  BY <1>1 DEF Remembers, Gui
<1>2. ASSUME Needed \/ Resolve \/ (\E k \in 1 .. MaxPending : ExpireStale(k)) \/ Report PROVE Remembers'
  BY <1>1, <1>2, ServerEmits DEF Emit, standard
<1>3. ASSUME NEW s \in Stream, AddClient(s) \/ Closed(s) \/ Opened(s) \/ Ended(s) \/ Break(s) PROVE Remembers'
  BY <1>1, <1>3 DEF AddClient, Closed, Opened, Ended, Break, standard
<1>4. CASE Rerender \/ TimerFires \/ Login \/ Logout \/ Restart
  BY <1>1, <1>4 DEF Rerender, TimerFires, Login, Logout, Restart, standard
<1>5. ASSUME NEW s \in Stream, NEW j \in 0 .. MaxEvents, NEW more \in BOOLEAN, ReadChunk(s, j, more) PROVE Remembers'
  <2>. DEFINE heard == Heard(s, j)
              b == Stamps(heard)
  <2>1. /\ seen' = seen \o b /\ viewer' = viewer
        /\ lastId' = IF ~Gui /\ heard # << >> THEN heard[Len(heard)].id ELSE lastId
    BY <1>5, ReadShape DEF Stamps
  <2>2. heard \in Seq(Event) /\ seen \in Seq(Nat \X Nat)
    BY <1>5, ReadShape, HeardIs, OrderTypes
  <2>3. b \in Seq(Nat \X Nat) /\ Len(b) = Len(heard) /\ \A k \in 1 .. Len(heard) : b[k] = Stamp(heard[k])
    BY <2>2, StampsType
  <2>. HIDE DEF heard, b
  <2>4. CASE heard = << >>
    <3>1. seen' = seen
      <4>1. Len(b) = 0
        BY <2>3, <2>4
      <4>2. b = << >>
        BY <2>3, <4>1
      <4>. QED  BY <2>1, <2>2, <4>2
    <3>. QED  BY <1>1, <2>1, <2>4, <3>1
  <2>5. CASE heard # << >>
    <3>1. PICK n \in Nat \ {0} : n = Len(heard)
      BY <2>2, <2>5
    <3>2. Len(seen') = Len(seen) + n /\ Len(seen) \in Nat /\ seen' \in Seq(Nat \X Nat)
      <4>1. Len(seen \o b) = Len(seen) + Len(b) /\ seen \o b \in Seq(Nat \X Nat)
        BY <2>2, <2>3, ConcatType, Zenon
      <4>2. Len(seen) \in Nat
        BY <2>2
      <4>. QED  BY <2>1, <2>3, <3>1, <4>1, <4>2, Zenon
    <3>3. seen'[Len(seen) + n] = b[n]
      <4>1. \A k \in 1 .. Len(b) : (seen \o b)[Len(seen) + k] = b[k]
        BY <2>2, <2>3, ConcatParts, SMTT(30)
      <4>2. n \in 1 .. Len(b)
        BY <2>3, <3>1
      <4>. QED  BY <2>1, <4>1, <4>2, Zenon
    <3>4. seen'[Len(seen')] = Stamp(heard[Len(heard)])
      BY <2>3, <3>1, <3>2, <3>3
    <3>5. seen' # << >>
      BY <3>2
    <3>6. seen'[Len(seen')][2] = heard[Len(heard)].id
      BY <3>4 DEF Stamp
    <3>. QED  BY <2>1, <2>5, <3>5, <3>6 DEF Remembers, Gui
  <2>. QED  BY <2>4, <2>5
<1>6. ASSUME NEW l \in 1 .. MaxLogins, ServeApprovals(l) \/ ApprovalsArrive(l) \/ ApprovalsFail(l) \/ StatusArrives(l)
      PROVE  Remembers'
  BY <1>1, <1>6 DEF ServeApprovals, ApprovalsArrive, ApprovalsFail, StatusArrives, standard
<1>7. CASE UNCHANGED streamVars
  BY <1>1, <1>7 DEF streamVars, standard
<1>8. ASSUME NEW k \in 1 .. MaxPending, AgentDeleted(k) PROVE Remembers'
  BY <1>1, <1>8 DEF AgentDeleted, standard
<1>. QED  BY StepsAre, <1>2, <1>3, <1>4, <1>5, <1>6, <1>7, <1>8

-----------------------------------------------------------------------------
(* Without a gap nothing is skipped. *)

(* Two sequences run on when each does and the second starts where the first ends. *)
LEMMA RunsParts ==
  ASSUME NEW a \in Seq(Nat \X Nat), NEW b \in Seq(Nat \X Nat), NEW m \in Nat
  PROVE  Runs(a \o b, m) <=> Runs(a, m) /\ Runs(b, m + Len(a))
<1>. DEFINE c == a \o b
<1>1. PICK x \in Nat, y \in Nat : x = Len(a) /\ y = Len(b)
  OBVIOUS
<1>2. \A k \in 1 .. x : k \in 1 .. Len(c) /\ c[k] = a[k]
  BY <1>1, ConcatParts
<1>3. \A k \in 1 .. y : x + k \in 1 .. Len(c) /\ c[x + k] = b[k]
  <2>1. \A k \in 1 .. Len(b) : Len(a) + k \in 1 .. Len(a \o b) /\ (a \o b)[Len(a) + k] = b[k]
    BY ConcatParts, SMTT(30)
  <2>. QED  BY <1>1, <2>1, Zenon
<1>4. Len(c) = x + y
  BY <1>1, ConcatType
<1>5. \A i \in 1 .. Len(c) : i > x => \E k \in 1 .. y : i = x + k
  BY <1>1, ConcatParts
<1>. HIDE DEF c
<1>6. \A k \in 1 .. y : m + (x + k) = (m + x) + k
  OBVIOUS
<1>7. Runs(c, m) => Runs(a, m) /\ Runs(b, m + x)
  BY <1>1, <1>2, <1>3, <1>6 DEF Runs
<1>8. ASSUME Runs(a, m), Runs(b, m + x), NEW i \in 1 .. Len(c) PROVE c[i][2] = m + i
  <2>1. CASE i <= x
    <3>1. i \in 1 .. x
      BY <1>4, <2>1
    <3>. QED  BY <1>1, <1>2, <1>8, <3>1 DEF Runs
  <2>2. CASE i > x
    <3>1. PICK k \in 1 .. y : i = x + k
      BY <1>5, <2>2
    <3>. QED  BY <1>1, <1>3, <1>6, <1>8, <3>1 DEF Runs
  <2>. QED  BY <1>4, <2>1, <2>2
<1>. QED  BY <1>1, <1>7, <1>8 DEF c, Runs

(* Nothing runs on from everywhere. *)
LEMMA RunsNothing == \A a, m : Len(a) = 0 => Runs(a, m)
  BY DEF Runs

(* A stream that is written to gets the next numbers. *)
LEMMA GoesToEmit ==
  ASSUME NEW z \in Seq(Nat \X Nat), NEW w \in Seq(Nat \X Nat), NEW u \in Seq(Nat \X Nat), NEW n \in Nat \ {0},
         GoesTo(z, w, n, TRUE), \A k \in 1 .. Len(u) : u[k][2] = n + k - 1
  PROVE  GoesTo(z, w \o u, n + Len(u), TRUE)
<1>1. PICK x \in Nat, y \in Nat, v \in Nat : x = Len(z) /\ y = Len(w) /\ v = Len(u)
  OBVIOUS
<1>2. w \o u \in Seq(Nat \X Nat) /\ Len(w \o u) = y + v
  BY <1>1, ConcatType
<1>3. PICK m \in Nat : Runs(z, m) /\ Runs(w, m + x) /\ (x + y > 0 => n = m + x + y + 1)
  BY <1>1 DEF GoesTo
<1>4. ASSUME NEW i \in Nat, i + 1 = n PROVE Runs(u, i)
  <2>1. ASSUME NEW k \in 1 .. v PROVE n + k - 1 = i + k
    BY <1>4
  <2>. QED  BY <1>1, <2>1 DEF Runs
<1>5. PICK i \in Nat : i + 1 = n /\ (x + y > 0 => i = m + x + y)
  <2>1. n - 1 \in Nat /\ (n - 1) + 1 = n /\ (x + y > 0 => n - 1 = m + x + y)
    BY <1>3
  <2>. QED  BY <2>1
<1>6. PICK h \in Nat : Runs(z, h) /\ Runs(w, h + x) /\ (h + x) + y = i
  <2>1. CASE x + y > 0
    <3>1. (m + x) + y = i
      BY <1>5, <2>1
    <3>. QED  BY <1>3, <3>1
  <2>2. CASE ~(x + y > 0)
    <3>1. x = 0 /\ y = 0 /\ (i + x) + y = i
      BY <2>2
    <3>2. Runs(z, i) /\ Runs(w, i + x)
      BY <1>1, <3>1, RunsNothing
    <3>. QED  BY <3>1, <3>2
  <2>. QED  BY <2>1, <2>2
<1>7. Runs(u, (h + x) + y)
  BY <1>4, <1>5, <1>6
<1>8. h + x \in Nat
  OBVIOUS
<1>9. Runs(w \o u, h + x)
  BY <1>1, <1>6, <1>7, <1>8, RunsParts
<1>10. n + v = h + x + (y + v) + 1
  BY <1>5, <1>6, SMTT(30)
<1>. QED  BY <1>1, <1>2, <1>6, <1>9, <1>10 DEF GoesTo

(* What is left of a stream that is not written to any more. *)
LEMMA GoesToPrefix ==
  ASSUME NEW z \in Seq(Nat \X Nat), NEW v \in Seq(Nat \X Nat), NEW w \in Seq(Nat \X Nat),
         NEW n, NEW b, GoesTo(z, v \o w, n, b)
  PROVE  \A i : GoesTo(z, v, i, FALSE)
<1>1. PICK m \in Nat : Runs(z, m) /\ Runs(v \o w, m + Len(z))
  BY DEF GoesTo
<1>2. m + Len(z) \in Nat
  OBVIOUS
<1>3. Runs(v, m + Len(z))
  BY <1>1, <1>2, RunsParts
<1>. QED  BY <1>1, <1>3 DEF GoesTo

(* A stream that is gone. *)
LEMMA GoesToNothing ==
  ASSUME NEW z, NEW m \in Nat, Runs(z, m)
  PROVE  \A i : GoesTo(z, Stamps(<< >>), i, FALSE)
<1>1. Len(Stamps(<< >>)) = 0
  <2>1. << >> \in Seq(Event) /\ Len(<< >>) = 0
    OBVIOUS
  <2>. QED  BY <2>1, StampsType
<1>. QED  BY <1>1, RunsNothing DEF GoesTo

(* Events that move from the wire to the client. *)
LEMMA GoesToRead ==
  ASSUME NEW z \in Seq(Nat \X Nat), NEW v \in Seq(Nat \X Nat), NEW w \in Seq(Nat \X Nat),
         NEW n, NEW b \in BOOLEAN, GoesTo(z, v \o w, n, b)
  PROVE  GoesTo(z \o v, w, n, b) /\ \E m \in Nat : Runs(z \o v, m)
<1>1. PICK x \in Nat, y \in Nat, u \in Nat : x = Len(z) /\ y = Len(v) /\ u = Len(w)
  OBVIOUS
<1>2. Len(v \o w) = y + u /\ Len(z \o v) = x + y
  BY <1>1, ConcatType
<1>3. PICK m \in Nat : Runs(z, m) /\ Runs(v \o w, m + x) /\ (b /\ x + (y + u) > 0 => n = m + x + (y + u) + 1)
  BY <1>1, <1>2 DEF GoesTo
<1>4. Runs(v, m + x) /\ Runs(w, (m + x) + y)
  BY <1>1, <1>3, RunsParts
<1>5. Runs(z \o v, m)
  BY <1>1, <1>3, <1>4, RunsParts
<1>6. (m + x) + y = m + (x + y) /\ x + (y + u) = (x + y) + u /\ m + x + (y + u) + 1 = m + (x + y) + u + 1
  OBVIOUS
<1>7. Runs(w, m + (x + y)) /\ (b /\ (x + y) + u > 0 => n = m + (x + y) + u + 1)
  BY <1>3, <1>4, <1>6
<1>. QED  BY <1>1, <1>2, <1>5, <1>7 DEF GoesTo

(* A step that emits, replays and reads nothing skips nothing. *)
LEMMA GoesOnStays ==
  ASSUME Types, GoesOn, UNCHANGED <<viewer, gap, life, seen, nextId>>, Shrinks,
         \A s \in Written' : s \in Written /\ wire'[s] = wire[s]
  PROVE  GoesOn'
<1>. SUFFICES ASSUME ~Gui', ~gap' PROVE /\ life' = 0
                                       /\ \E m \in Nat : Runs(seen', m)
                                       /\ \A s \in Stream : GoesTo(seen', Stamps(wire'[s]), nextId', (s \in Written)')
  BY DEF GoesOn
<1>1. /\ life = 0 /\ \A s \in Stream : GoesTo(seen, Stamps(wire[s]), nextId, s \in Written)
  BY DEF GoesOn, Gui
<1>2. PICK m \in Nat : Runs(seen, m)
  BY DEF GoesOn, Gui
<1>3. seen \in Seq(Nat \X Nat) /\ wire \in [Stream -> Seq(Event)]
  BY OrderTypes
<1>4. ASSUME NEW s \in Stream, s \notin Written' PROVE GoesTo(seen, Stamps(wire'[s]), nextId, FALSE)
  <2>1. CASE wire'[s] = wire[s]
    <3>1. GoesTo(seen, Stamps(wire[s]), nextId, s \in Written)
      BY <1>1
    <3>. QED  BY <2>1, <3>1 DEF GoesTo
  <2>2. CASE wire'[s] = << >>
    BY <1>2, <2>2, GoesToNothing
  <2>3. ASSUME NEW j \in 0 .. Len(wire[s]), wire'[s] = SubSeq(wire[s], 1, j)
        PROVE  GoesTo(seen, Stamps(wire'[s]), nextId, FALSE)
    <3>. DEFINE a == SubSeq(wire[s], 1, j)
                b == SubSeq(wire[s], j + 1, Len(wire[s]))
    <3>1. wire[s] \in Seq(Event)
      BY <1>3
    <3>2. wire[s] = a \o b /\ a \in Seq(Event) /\ b \in Seq(Event)
      BY <3>1, Split, PrefixType, SuffixType
    <3>. HIDE DEF a, b
    <3>3. Stamps(wire[s]) = Stamps(a) \o Stamps(b) /\ Stamps(a) \in Seq(Nat \X Nat) /\ Stamps(b) \in Seq(Nat \X Nat)
      BY <3>2, StampsConcat, StampsType
    <3>4. GoesTo(seen, Stamps(a) \o Stamps(b), nextId, s \in Written)
      BY <1>1, <3>3
    <3>5. GoesTo(seen, Stamps(a), nextId, FALSE)
      BY <1>3, <3>3, <3>4, GoesToPrefix
    <3>. QED  BY <2>3, <3>5 DEF a
  <2>. QED  BY <2>1, <2>2, <2>3 DEF Shrinks
<1>5. ASSUME NEW s \in Stream, s \in Written' PROVE GoesTo(seen, Stamps(wire'[s]), nextId, TRUE)
  BY <1>1, <1>5
<1>6. ASSUME NEW s \in Stream PROVE GoesTo(seen', Stamps(wire'[s]), nextId', (s \in Written)')
  <2>1. seen' = seen /\ nextId' = nextId
    OBVIOUS
  <2>2. CASE s \in Written'
    BY <1>5, <2>1, <2>2 DEF GoesTo
  <2>3. CASE s \notin Written'
    BY <1>4, <2>1, <2>3 DEF GoesTo
  <2>. QED  BY <2>2, <2>3
<1>. QED  BY <1>1, <1>2, <1>6

(* An emission skips nothing. *)
LEMMA GoesOnEmit ==
  ASSUME Types, GoesOn, NEW types \in Emission, Emit(types)
  PROVE  GoesOn'
<1>. DEFINE new == NewEvents(types)
<1>1. /\ \A s \in Stream : wire'[s] = IF s \in Written THEN wire[s] \o new ELSE wire[s]
      /\ nextId' = nextId + Len(types) /\ life' = life
  BY EmitShape
<1>2. UNCHANGED <<viewer, gap, seen>> /\ Written' = Written /\ emitted + Len(types) <= MaxEvents
  BY DEF Emit, standard, Written
<1>3. /\ new \in Seq(Event) /\ Len(new) = Len(types)
      /\ \A k \in 1 .. Len(new) : new[k].id = nextId + k - 1
  BY <1>2, NewEventsType
<1>. HIDE DEF new
<1>4. nextId \in Nat \ {0} /\ seen \in Seq(Nat \X Nat) /\ wire \in [Stream -> Seq(Event)]
  BY OrderTypes, Bounds DEF Types, BusTypes, BusTypeOK
<1>5. /\ Stamps(new) \in Seq(Nat \X Nat) /\ Len(Stamps(new)) = Len(new)
      /\ \A k \in 1 .. Len(Stamps(new)) : Stamps(new)[k][2] = nextId + k - 1
  <2>1. /\ Stamps(new) \in Seq(Nat \X Nat) /\ Len(Stamps(new)) = Len(new)
        /\ \A k \in 1 .. Len(new) : Stamps(new)[k] = Stamp(new[k])
    BY <1>3, StampsType
  <2>2. \A k \in 1 .. Len(new) : Stamps(new)[k][2] = new[k].id
    BY <2>1 DEF Stamp
  <2>. QED  BY <1>3, <2>1, <2>2
<1>6. SUFFICES ASSUME ~Gui, ~gap PROVE /\ life = 0
                                       /\ \E m \in Nat : Runs(seen, m)
                                       /\ \A s \in Stream : GoesTo(seen, Stamps(wire'[s]), nextId', s \in Written)
  BY <1>1, <1>2 DEF GoesOn, Gui
<1>7. /\ life = 0 /\ \E m \in Nat : Runs(seen, m)
      /\ \A s \in Stream : GoesTo(seen, Stamps(wire[s]), nextId, s \in Written)
  BY <1>6 DEF GoesOn
<1>8. ASSUME NEW s \in Stream PROVE GoesTo(seen, Stamps(wire'[s]), nextId', s \in Written)
  <2>1. /\ GoesTo(seen, Stamps(wire[s]), nextId, s \in Written)
        /\ wire[s] \in Seq(Event) /\ Stamps(wire[s]) \in Seq(Nat \X Nat)
    BY <1>4, <1>7, StampsType
  <2>2. CASE s \notin Written
    BY <1>1, <2>1, <2>2 DEF GoesTo
  <2>3. CASE s \in Written
    <3>1. Stamps(wire'[s]) = Stamps(wire[s]) \o Stamps(new) /\ nextId' = nextId + Len(Stamps(new))
      BY <1>1, <1>3, <1>5, <2>1, <2>3, StampsConcat
    <3>2. GoesTo(seen, Stamps(wire[s]), nextId, TRUE)
      BY <2>1, <2>3
    <3>3. GoesTo(seen, Stamps(wire'[s]), nextId', TRUE)
      BY <1>4, <1>5, <2>1, <3>1, <3>2, GoesToEmit
    <3>. QED  BY <2>3, <3>3
  <2>. QED  BY <2>2, <2>3
<1>. QED  BY <1>7, <1>8

(* A client that names what it has heard last is sent what comes after it. *)
LEMMA GoesOnReplay ==
  ASSUME Types, BufferIsRecent, Ascends, Remembers, GoesOn, NEW s \in Stream, AddClient(s)
  PROVE  GoesOn'
<1>. DEFINE r == ToReplay(lastId)
<1>1. /\ wire' = [wire EXCEPT ![s] = IF Gui THEN << >> ELSE r]
      /\ gap' = (gap \/ (~Gui /\ Unreplayable)) /\ UNCHANGED <<viewer, seen, life, nextId>>
      /\ clients' = clients \cup {s} /\ phase' = [phase EXCEPT ![s] = "answered"] /\ UNCHANGED broken
  BY DEF AddClient
<1>2. SUFFICES ASSUME ~Gui, ~gap, ~Unreplayable
               PROVE  /\ life = 0
                      /\ \E m \in Nat : Runs(seen, m)
                      /\ \A u \in Stream : GoesTo(seen, Stamps(wire'[u]), nextId, (u \in Written)')
  BY <1>1 DEF GoesOn, Gui
<1>3. /\ life = 0 /\ \A u \in Stream : GoesTo(seen, Stamps(wire[u]), nextId, u \in Written)
  BY <1>2 DEF GoesOn
<1>4. PICK m \in Nat : Runs(seen, m)
  BY <1>2 DEF GoesOn
<1>5. /\ seen \in Seq(Nat \X Nat) /\ wire \in [Stream -> Seq(Event)] /\ buffer \in Seq(Event)
      /\ nextId \in Nat \ {0} /\ lastId \in Nat /\ Present = <<life, nextId>>
      /\ phase \in [Stream -> {"none", "asked", "answered", "reading"}]
  BY OrderTypes, Bounds DEF Types, BusTypes, BusTypeOK, ClientTypes, ClientTypeOK, NetTypeOK
<1>6. PICK x \in Nat : x = Len(seen)
  BY <1>5
<1>7. CASE lastId = 0
  <2>1. seen = << >>
    <3>1. CASE seen # << >>
      <4>1. x \in 1 .. Len(seen) /\ m + x # 0
        BY <1>5, <1>6, <3>1
      <4>2. lastId = seen[x][2] /\ seen[x][2] = m + x
        BY <1>2, <1>4, <1>6, <3>1, <4>1 DEF Remembers, Runs
      <4>. QED  BY <1>7, <4>1, <4>2
    <3>. QED  BY <3>1
  <2>2. r = << >>
    BY <1>7 DEF ToReplay
  <2>3. Len(seen) = 0 /\ Len(Stamps(<< >>)) = 0
    <3>1. << >> \in Seq(Event) /\ Len(<< >>) = 0
      OBVIOUS
    <3>. QED  BY <2>1, <3>1, StampsType
  <2>4. \A b : GoesTo(seen, Stamps(<< >>), nextId, b)
    BY <2>3, RunsNothing DEF GoesTo
  <2>5. ASSUME NEW u \in Stream PROVE GoesTo(seen, Stamps(wire'[u]), nextId, (u \in Written)')
    <3>1. CASE u = s
      BY <1>1, <1>5, <2>2, <2>4, <3>1
    <3>2. CASE u # s
      <4>1. wire'[u] = wire[u] /\ ((u \in Written)' <=> u \in Written)
        BY <1>1, <1>5, <3>2 DEF Written
      <4>. QED  BY <1>3, <4>1 DEF GoesTo
    <3>. QED  BY <3>1, <3>2
  <2>. QED  BY <1>3, <1>4, <2>5
<1>8. CASE lastId # 0
  <2>0. lastId \in Nat /\ nextId \in Nat
    BY <1>5
  <2>1. /\ x # 0 /\ lastId = m + x /\ lastId < nextId
    <3>1. seen # << >>
      BY <1>2, <1>8 DEF Remembers
    <3>2. x \in 1 .. Len(seen) /\ seen[x] \in Nat \X Nat
      BY <1>5, <1>6, <3>1
    <3>3. lastId = seen[x][2] /\ seen[x][2] = m + x
      BY <1>2, <1>4, <1>6, <3>1, <3>2 DEF Remembers, Runs
    <3>4. Later(<<0, nextId>>, seen[x])
      BY <1>3, <1>5, <3>2 DEF Ascends, Ordered
    <3>5. lastId < nextId
      BY <1>5, <3>2, <3>3, <3>4 DEF Later
    <3>. QED  BY <1>6, <3>2, <3>3, <3>5
  <2>2. PICK y \in Nat : y = Len(buffer) /\ y < nextId
    BY <1>5 DEF BufferIsRecent, Recent
  <2>3. nextId <= lastId + 1 + y
    <3>1. lastId + 1 >= (IF buffer = << >> THEN nextId ELSE buffer[1].id)
      <4>1. CASE buffer = << >>
        BY <1>2, <1>5, <1>8, <4>1 DEF Unreplayable
      <4>2. CASE buffer # << >>
        <5>1. buffer[1].id \in Nat
          <6>1. buffer[1] \in Event
            BY <1>5, <4>2
          <6>. QED  BY <6>1 DEF Event
        <5>. QED  BY <1>2, <1>5, <1>8, <4>2, <5>1 DEF Unreplayable
      <4>. QED  BY <4>1, <4>2
    <3>2. CASE buffer = << >>
      BY <1>5, <2>2, <3>1, <3>2
    <3>3. CASE buffer # << >>
      <4>1. 1 \in 1 .. y
        BY <1>5, <2>2, <3>3
      <4>2. buffer[1].id = nextId - y + 1 - 1
        BY <2>2, <4>1 DEF BufferIsRecent, Recent
      <4>. QED  BY <1>5, <2>2, <3>1, <3>3, <4>2
    <3>. QED  BY <3>2, <3>3
  <2>4. \A k \in 1 .. y : buffer[k].id = nextId - y + k - 1
    BY <2>2 DEF BufferIsRecent, Recent
  <2>5. r \in Seq(Event) /\ nextId = lastId + Len(r) + 1 /\ \A k \in 1 .. Len(r) : r[k].id = lastId + k
    <3>1. CASE r = << >>
      <4>1. \A k \in 1 .. y : ~(buffer[k].id > lastId)
        <5>1. \/ \A k \in 1 .. Len(buffer) : ~(buffer[k].id > lastId)
              \/ \E j \in 0 .. Len(buffer) - 1 : r = SubSeq(buffer, j + 1, Len(buffer))
          BY <1>5, <1>8, ReplayIsSuffix
        <5>2. ASSUME NEW j \in 0 .. Len(buffer) - 1 PROVE r # SubSeq(buffer, j + 1, Len(buffer))
          <6>1. j \in 0 .. Len(buffer) /\ Len(buffer) - j > 0
            BY <2>2
          <6>2. Len(SubSeq(buffer, j + 1, Len(buffer))) > 0
            BY <1>5, <6>1, SuffixType
          <6>3. Len(r) = 0
            <7>1. Len(<< >>) = 0
              OBVIOUS
            <7>. QED  BY <3>1, <7>1
          <6>. HIDE DEF r
          <6>. DEFINE q == SubSeq(buffer, j + 1, Len(buffer))
          <6>4. Len(q) > 0
            BY <6>2
          <6>. HIDE DEF q
          <6>5. r # q
            BY <6>3, <6>4
          <6>. QED  BY <6>5 DEF q
        <5>. QED  BY <2>2, <5>1, <5>2
      <4>2. nextId = lastId + 1
        <5>1. CASE y = 0
          BY <1>5, <2>1, <2>3, <5>1
        <5>2. CASE y # 0
          <6>1. y \in 1 .. y
            BY <5>2
          <6>2. buffer[y].id = nextId - y + y - 1 /\ ~(buffer[y].id > lastId)
            BY <2>4, <4>1, <6>1
          <6>. QED  BY <2>0, <2>1, <2>2, <6>2
        <5>. QED  BY <5>1, <5>2
      <4>3. << >> \in Seq(Event) /\ Len(<< >>) = 0
        OBVIOUS
      <4>. QED  BY <1>5, <3>1, <4>2, <4>3
    <3>2. CASE r # << >>
      <4>1. PICK j \in 0 .. Len(buffer) - 1 : /\ r = SubSeq(buffer, j + 1, Len(buffer))
                                              /\ buffer[j + 1].id > lastId
                                              /\ \A k \in 1 .. j : ~(buffer[k].id > lastId)
        BY <1>5, <3>2, ReplayIsSuffix
      <4>2. j \in Nat /\ j < y /\ j + 1 \in 1 .. y /\ j \in 0 .. Len(buffer)
        BY <2>2
      <4>3. /\ r \in Seq(Event) /\ Len(r) = y - j
            /\ \A k \in 1 .. y - j : r[k] = buffer[j + k]
        <5>1. buffer \in Seq(Event) /\ j \in 0 .. Len(buffer)
          BY <1>5, <4>2
        <5>. DEFINE q == SubSeq(buffer, j + 1, Len(buffer))
        <5>2. /\ q \in Seq(Event) /\ Len(q) = Len(buffer) - j
              /\ \A k \in 1 .. Len(buffer) - j : q[k] = buffer[j + k]
          BY <5>1, SuffixType
        <5>. HIDE DEF q
        <5>3. r = q /\ Len(buffer) = y
          BY <2>2, <4>1 DEF q
        <5>. HIDE DEF r
        <5>. QED  BY <5>2, <5>3
      <4>. HIDE DEF r
      <4>4. nextId - y + j > lastId
        <5>1. buffer[j + 1].id = nextId - y + (j + 1) - 1
          BY <2>4, <4>2
        <5>. QED  BY <1>5, <2>2, <4>1, <4>2, <5>1
      <4>5. nextId - y + j <= lastId + 1
        <5>1. CASE j = 0
          BY <1>5, <2>2, <2>3, <5>1
        <5>2. CASE j # 0
          <6>1. j \in 1 .. j /\ j \in 1 .. y
            BY <4>2, <5>2
          <6>2. buffer[j].id = nextId - y + j - 1 /\ ~(buffer[j].id > lastId)
            BY <2>4, <4>1, <6>1
          <6>. QED  BY <1>5, <2>2, <4>2, <6>2
        <5>. QED  BY <5>1, <5>2
      <4>6. nextId - y + j = lastId + 1
        BY <2>0, <2>2, <4>2, <4>4, <4>5
      <4>7. ASSUME NEW k \in 1 .. y - j PROVE r[k].id = lastId + k
        <5>1. j + k \in 1 .. y /\ r[k] = buffer[j + k]
          BY <2>2, <4>2, <4>3
        <5>2. buffer[j + k].id = nextId - y + (j + k) - 1
          BY <2>4, <5>1
        <5>3. nextId - y + (j + k) - 1 = lastId + k
          <6>1. k \in Nat
            BY <2>2, <4>2
          <6>. QED  BY <2>0, <2>2, <4>2, <4>6, <6>1
        <5>. QED  BY <5>1, <5>2, <5>3
      <4>8. nextId = lastId + (y - j) + 1
        BY <1>5, <2>2, <4>2, <4>6
      <4>. QED  BY <4>3, <4>7, <4>8
    <3>. QED  BY <3>1, <3>2
  <2>. HIDE DEF r
  <2>6. Len(Stamps(r)) = Len(r) /\ Runs(Stamps(r), m + x)
    <3>1. Len(Stamps(r)) = Len(r) /\ \A k \in 1 .. Len(r) : Stamps(r)[k] = Stamp(r[k])
      BY <2>5, StampsType
    <3>. QED  BY <2>1, <2>5, <3>1 DEF Runs, Stamp
  <2>7. \A b : GoesTo(seen, Stamps(r), nextId, b)
    <3>1. nextId = m + x + Len(Stamps(r)) + 1
      BY <2>1, <2>5, <2>6
    <3>. QED  BY <1>4, <1>6, <2>6, <3>1 DEF GoesTo
  <2>8. ASSUME NEW u \in Stream PROVE GoesTo(seen, Stamps(wire'[u]), nextId, (u \in Written)')
    <3>1. CASE u = s
      <4>1. wire'[u] = r
        BY <1>1, <1>2, <1>5, <3>1
      <4>. QED  BY <2>7, <4>1
    <3>2. CASE u # s
      <4>1. wire'[u] = wire[u] /\ ((u \in Written)' <=> u \in Written)
        BY <1>1, <1>5, <3>2 DEF Written
      <4>. QED  BY <1>3, <4>1 DEF GoesTo
    <3>. QED  BY <3>1, <3>2
  <2>. QED  BY <1>3, <1>4, <2>8
<1>. QED  BY <1>7, <1>8

(* A chunk skips nothing: only the GUI loses events to a cut. *)
LEMMA GoesOnRead ==
  ASSUME Types, OneStream, GoesOn,
         NEW s \in Stream, NEW j \in 0 .. MaxEvents, NEW more \in BOOLEAN, ReadChunk(s, j, more)
  PROVE  GoesOn'
<1>. DEFINE told == Told(s, j)
            rest == SubSeq(wire[s], j + 1, Len(wire[s]))
            heard == Heard(s, j)
<1>1. seen \in Seq(Nat \X Nat) /\ wire \in [Stream -> Seq(Event)]
  BY OrderTypes
<1>2. /\ phase[s] = "reading" /\ j \in 0 .. Len(wire[s])
      /\ seen' = seen \o Stamps(heard)
      /\ wire' = [wire EXCEPT ![s] = rest]
      /\ UNCHANGED <<viewer, gap, life, nextId>> /\ Written' = Written
  BY ReadShape DEF Stamps, bus, Written
<1>3. wire[s] = told \o rest /\ told \in Seq(Event) /\ rest \in Seq(Event)
  BY <1>1, <1>2, Split, PrefixType, SuffixType DEF Told
<1>4. ~Gui => heard = told
  BY DEF Heard, Loses
<1>. HIDE DEF told, rest, heard
<1>5. SUFFICES ASSUME ~Gui, ~gap PROVE /\ life = 0
                                       /\ \E m \in Nat : Runs(seen', m)
                                       /\ \A u \in Stream : GoesTo(seen', Stamps(wire'[u]), nextId, u \in Written)
  BY <1>2 DEF GoesOn, Gui
<1>6. /\ life = 0 /\ \A u \in Stream : GoesTo(seen, Stamps(wire[u]), nextId, u \in Written)
  BY <1>5 DEF GoesOn
<1>7. /\ Stamps(wire[s]) = Stamps(told) \o Stamps(rest)
      /\ Stamps(told) \in Seq(Nat \X Nat) /\ Stamps(rest) \in Seq(Nat \X Nat)
  BY <1>3, StampsConcat, StampsType
<1>8. GoesTo(seen', Stamps(rest), nextId, s \in Written) /\ \E m \in Nat : Runs(seen', m)
  <2>1. GoesTo(seen, Stamps(told) \o Stamps(rest), nextId, s \in Written)
    BY <1>6, <1>7
  <2>2. seen' = seen \o Stamps(told)
    BY <1>2, <1>4, <1>5
  <2>3. (s \in Written) \in BOOLEAN
    OBVIOUS
  <2>. QED  BY <1>1, <1>7, <2>1, <2>2, <2>3, GoesToRead
<1>9. ASSUME NEW u \in Stream PROVE GoesTo(seen', Stamps(wire'[u]), nextId, u \in Written)
  <2>1. CASE u = s
    <3>1. wire'[u] = rest
      BY <1>1, <1>2, <2>1
    <3>. QED  BY <1>8, <2>1, <3>1
  <2>2. CASE u # s
    <3>1. phase[u] = "none" /\ u \notin Written
      BY <1>2, <2>2 DEF OneStream, Written
    <3>2. wire'[u] = << >>
      BY <1>1, <1>2, <2>2, <3>1 DEF Types, NetTypeOK
    <3>3. GoesTo(seen', Stamps(<< >>), nextId, FALSE)
      BY <1>8, GoesToNothing
    <3>4. GoesTo(seen', Stamps(<< >>), nextId, u \in Written)
      BY <3>1, <3>3 DEF GoesTo
    <3>. QED  BY <3>2, <3>4
  <2>. QED  BY <2>1, <2>2
<1>. QED  BY <1>6, <1>8, <1>9

(* No step skips an event without a gap. *)
LEMMA GoesOnStep == Order /\ GoesOn /\ [Next]_vars => GoesOn'
<1>. SUFFICES ASSUME Types, OneStream, BufferIsRecent, Ascends, Remembers, GoesOn, [Next]_vars PROVE GoesOn'
  BY DEF Order
<1>1. /\ wire \in [Stream -> Seq(Event)] /\ NetTypeOK
      /\ phase \in [Stream -> {"none", "asked", "answered", "reading"}]
  BY OrderTypes DEF Types, NetTypeOK
<1>2. ASSUME UNCHANGED <<viewer, gap, life, seen, nextId, wire>>, Written' \subseteq Written PROVE GoesOn'
  <2>1. Shrinks
    BY <1>2 DEF Shrinks
  <2>. QED  BY <1>2, <2>1, GoesOnStays
<1>3. ASSUME Needed \/ Resolve \/ (\E k \in 1 .. MaxPending : ExpireStale(k)) \/ Report PROVE GoesOn'
  BY <1>3, ServerEmits, GoesOnEmit
<1>4. ASSUME NEW s \in Stream, AddClient(s) PROVE GoesOn'
  BY <1>4, GoesOnReplay
<1>5. ASSUME NEW s \in Stream, Closed(s) \/ Opened(s) \/ Ended(s) PROVE GoesOn'
  <2>1. UNCHANGED <<viewer, gap, life, seen, nextId, wire>>
    BY <1>5 DEF Closed, Opened, Ended, bus, net, standard
  <2>2. Written' \subseteq Written
    <3>1. CASE Closed(s)
      BY <3>1 DEF Closed, Written, net
    <3>2. CASE Opened(s)
      BY <1>1, <3>2 DEF Opened, Written, bus
    <3>3. CASE Ended(s)
      <4>1. clients \subseteq Stream
        BY DEF Types, BusTypes, BusTypeOK
      <4>2. \A u \in Written' : u # s
        BY <1>1, <3>3 DEF Ended, Written
      <4>. QED  BY <1>1, <3>3, <4>1, <4>2 DEF Ended, Written, bus
    <3>. QED  BY <1>5, <3>1, <3>2, <3>3
  <2>. QED  BY <1>2, <2>1, <2>2
<1>6. ASSUME NEW s \in Stream, Break(s) PROVE GoesOn'
  <2>1. UNCHANGED <<viewer, gap, life, seen, nextId>>
    BY <1>6 DEF Break, bus, standard
  <2>2. Shrinks
    BY <1>1, <1>6 DEF Break, Shrinks
  <2>3. \A u \in Written' : u \in Written /\ wire'[u] = wire[u]
    BY <1>1, <1>6 DEF Break, Written, bus, Types, BusTypes, BusTypeOK
  <2>. QED  BY <2>1, <2>2, <2>3, GoesOnStays
<1>7. ASSUME \/ Rerender \/ Logout PROVE GoesOn'
  <2>. DEFINE a == Aborted(current)
  <2>1. /\ wire' = a[2] /\ broken' = a[4] /\ UNCHANGED <<viewer, gap, life, seen, nextId, clients>>
        /\ phase' = a[1] \/ (Free # {} /\ phase' = [a[1] EXCEPT ![AFree] = "asked"])
    BY <1>7 DEF Rerender, Logout, Connect, bus, standard
  <2>2. /\ a[1] \in [Stream -> {"none", "asked", "answered", "reading"}] /\ a[2] \in [Stream -> Seq(Event)]
        /\ \A s \in Stream : a[2][s] = wire[s] \/ a[2][s] = << >>
        /\ \A s \in Stream : a[1][s] = "none"
    BY <1>1, AbortedTypes DEF OneStream
  <2>. HIDE DEF a
  <2>3. Shrinks
    BY <2>1, <2>2 DEF Shrinks
  <2>4. Written' = {}
    <3>1. \A s \in Stream : phase'[s] \in {"none", "asked"}
      BY <2>1, <2>2
    <3>2. clients' \subseteq Stream
      BY <2>1 DEF Types, BusTypes, BusTypeOK
    <3>. QED  BY <3>1, <3>2 DEF Written
  <2>. QED  BY <2>1, <2>3, <2>4, GoesOnStays
<1>8. CASE TimerFires \/ Login
  <2>1. /\ UNCHANGED <<viewer, gap, life, seen, nextId, wire, clients, broken>>
        /\ phase' = [phase EXCEPT ![AFree] = "asked"]
    BY <1>8 DEF TimerFires, Login, Connect, bus, standard
  <2>2. Written' \subseteq Written
    <3>1. clients \subseteq Stream
      BY DEF Types, BusTypes, BusTypeOK
    <3>. QED  BY <1>1, <2>1, <3>1 DEF Written
  <2>. QED  BY <1>2, <2>1, <2>2
<1>9. CASE Restart
  BY <1>9 DEF Restart, GoesOn
<1>10. ASSUME NEW s \in Stream, NEW j \in 0 .. MaxEvents, NEW more \in BOOLEAN, ReadChunk(s, j, more) PROVE GoesOn'
  BY <1>10, GoesOnRead
<1>11. ASSUME NEW l \in 1 .. MaxLogins, ServeApprovals(l) \/ ApprovalsArrive(l) \/ ApprovalsFail(l) \/ StatusArrives(l)
      PROVE  GoesOn'
  <2>1. UNCHANGED <<viewer, gap, life, seen, nextId, wire, clients, broken, phase>>
    BY <1>11 DEF ServeApprovals, ApprovalsArrive, ApprovalsFail, StatusArrives, bus, net, standard
  <2>. QED  BY <1>2, <2>1 DEF Written
<1>12. CASE UNCHANGED streamVars
  <2>1. UNCHANGED <<viewer, gap, life, seen, nextId, wire, clients, broken, phase>>
    BY <1>12 DEF streamVars, bus, net, standard
  <2>. QED  BY <1>2, <2>1 DEF Written
<1>13. ASSUME NEW k \in 1 .. MaxPending, AgentDeleted(k) PROVE GoesOn'
  <2>1. UNCHANGED <<viewer, gap, life, seen, nextId, wire, clients, broken, phase>>
    BY <1>13 DEF AgentDeleted, bus, net, standard
  <2>. QED  BY <1>2, <2>1 DEF Written
<1>. QED  BY StepsAre, <1>3, <1>4, <1>5, <1>6, <1>7, <1>8, <1>9, <1>10, <1>11, <1>12, <1>13

-----------------------------------------------------------------------------
(* The counter of the layout. *)

(* What the events of one emission add to the counter. *)
LEMMA EmissionCounts ==
  ASSUME Types, NEW types \in Emission, emitted + Len(types) <= MaxEvents, NEW n \in Nat
  PROVE  /\ types = <<"needed">> => Counted(n, NewEvents(types)) = n + 1
         /\ n > 0 /\ types \in {<<"resolved">>, <<"other", "resolved">>} => Counted(n, NewEvents(types)) = n - 1
         /\ (\A k \in DOMAIN types : types[k] = "other") => Counted(n, NewEvents(types)) = n
<1>. DEFINE new == NewEvents(types)
<1>1. /\ types \in Seq(Kind) /\ new \in Seq(Event) /\ Len(new) = Len(types)
      /\ \A k \in 1 .. Len(new) : new[k].type = types[k]
  BY NewEventsType
<1>. HIDE DEF new
<1>2. CASE types = <<"needed">>
  <2>1. Len(types) = 1 /\ types[1] = "needed" /\ 1 \in 1 .. 1 /\ DOMAIN types = 1 .. 1
    BY <1>2
  <2>2. Counted(n, new) = Bump(n, new[1]) /\ new[1].type = "needed"
    BY <1>1, <2>1, CountedShort
  <2>3. types # <<"resolved">> /\ types # <<"other", "resolved">> /\ types[1] # "other"
    BY <1>2, <2>1
  <2>. QED  BY <2>1, <2>2, <2>3 DEF Bump, new
<1>3. CASE types = <<"resolved">>
  <2>1. Len(types) = 1 /\ types[1] = "resolved" /\ 1 \in 1 .. 1 /\ DOMAIN types = 1 .. 1
    BY <1>3
  <2>2. Counted(n, new) = Bump(n, new[1]) /\ new[1].type = "resolved"
    BY <1>1, <2>1, CountedShort
  <2>3. types # <<"needed">> /\ types[1] # "other"
    BY <1>3, <2>1
  <2>. QED  BY <2>1, <2>2, <2>3 DEF Bump, new
<1>4. CASE types = <<"other", "resolved">>
  <2>1. /\ Len(types) = 2 /\ types[1] = "other" /\ types[2] = "resolved"
        /\ 1 \in 1 .. 2 /\ 2 \in 1 .. 2 /\ DOMAIN types = 1 .. 2
    BY <1>4
  <2>2. Counted(n, new) = Bump(Bump(n, new[1]), new[2]) /\ new[1].type = "other" /\ new[2].type = "resolved"
    BY <1>1, <2>1, CountedShort
  <2>3. Counted(n, new) = IF n > 0 THEN n - 1 ELSE 0
    BY <2>2 DEF Bump
  <2>4. types # <<"needed">> /\ types[2] # "other"
    <3>1. Len(<<"needed">>) = 1
      OBVIOUS
    <3>. QED  BY <2>1, <3>1
  <2>. QED  BY <2>1, <2>3, <2>4 DEF new
<1>5. CASE types = <<"other">>
  <2>1. Len(types) = 1 /\ types[1] = "other" /\ 1 \in 1 .. 1 /\ DOMAIN types = 1 .. 1
    BY <1>5
  <2>2. Counted(n, new) = Bump(n, new[1]) /\ new[1].type = "other"
    BY <1>1, <2>1, CountedShort
  <2>3. types # <<"needed">> /\ types # <<"resolved">> /\ types # <<"other", "resolved">>
    <3>1. Len(<<"other", "resolved">>) = 2 /\ <<"needed">>[1] = "needed" /\ <<"resolved">>[1] = "resolved"
      OBVIOUS
    <3>. QED  BY <2>1, <3>1
  <2>. QED  BY <2>1, <2>2, <2>3 DEF Bump, new
<1>. QED  BY <1>2, <1>3, <1>4, <1>5 DEF Emission

(* The answers are a sequence of answers. *)
LEMMA AnswerHas ==
  ASSUME Types, NEW l \in 1 .. Len(answer)
  PROVE  answer[l] \in Answer
<1>1. answer \in Seq(Answer)
  BY DEF Types, ClientTypes
<1>. QED  BY <1>1

(* Answers still fit when nothing they speak of changes. *)
LEMMA AnswersStay ==
  ASSUME AnswersFit, UNCHANGED <<answer, pending>>, OnWire = << >> => OnWire' = << >>
  PROVE  AnswersFit'
  BY DEF AnswersFit

(* What crosses every answer leaves none that could set the counter right. *)
LEMMA StaleFit ==
  ASSUME Types, Stale
  PROVE  AnswersFit'
<1>1. Len(answer') = Len(answer) /\ \A l \in 1 .. Len(answer) : ~answer'[l].fresh
  BY StaleAnswers DEF Types
<1>. QED  BY <1>1 DEF AnswersFit

(* The counter is right when nothing it speaks of changes. *)
LEMMA CounterStays ==
  ASSUME Counter, UNCHANGED <<viewer, in, count, answer, pending>>, drift => drift',
         OnWire = << >> => OnWire' = << >>, ~drift' => OnWire' = OnWire
  PROVE  Counter'
<1>. SUFFICES ASSUME Gui' PROVE (~in' => drift') /\ AnswersFit' /\ CountIsAccurate'
  BY DEF Counter
<1>1. Gui /\ (~in => drift) /\ AnswersFit /\ CountIsAccurate
  BY DEF Counter, Gui
<1>2. AnswersFit'
  BY <1>1, AnswersStay
<1>3. CountIsAccurate'
  <2>. SUFFICES ASSUME in', ~drift' PROVE Counted(count', OnWire') = pending'
    BY DEF CountIsAccurate, OnWire
  <2>1. Counted(count, OnWire) = pending
    BY <1>1 DEF CountIsAccurate, OnWire
  <2>. QED  BY <2>1
<1>. QED  BY <1>1, <1>2, <1>3

(* What the counter is computed from. *)
LEMMA OnWireType == Types => OnWire \in Seq(Event) /\ count \in Nat /\ pending \in Nat
<1>. SUFFICES ASSUME Types PROVE OnWire \in Seq(Event) /\ count \in Nat /\ pending \in Nat
  OBVIOUS
<1>1. count \in Nat /\ pending \in Nat /\ current \in Stream \cup {0} /\ wire \in [Stream -> Seq(Event)]
  BY Bounds DEF Types, BusTypes, BusTypeOK, NetTypeOK, ClientTypes, ClientTypeOK
<1>2. << >> \in Seq(Event)
  OBVIOUS
<1>. QED  BY <1>1, <1>2 DEF OnWire

(* An emission changes the pending rows and what is on the wire alike. *)
LEMMA CounterEmit ==
  ASSUME Types, Counter, NEW types \in Emission, Emit(types),
         (drift \/ Missed(types)) => drift',
         ~drift' => pending' = Counted(pending, NewEvents(types))
  PROVE  Counter'
<1>. DEFINE new == NewEvents(types)
<1>1. /\ \A s \in Stream : wire'[s] = IF s \in Written THEN wire[s] \o new ELSE wire[s]
      /\ nextId' = nextId + Len(types) /\ life' = life
  BY EmitShape
<1>2. UNCHANGED <<viewer, in, current, count>> /\ Stale /\ emitted + Len(types) <= MaxEvents
  BY DEF Emit
<1>3. new \in Seq(Event) /\ Len(types) \in {1, 2}
  BY <1>2, NewEventsType
<1>4. \A n \in Nat : (\A k \in DOMAIN types : types[k] = "other") => Counted(n, new) = n
  BY <1>2, EmissionCounts
<1>. HIDE DEF new
<1>. SUFFICES ASSUME Gui' PROVE (~in' => drift') /\ AnswersFit' /\ CountIsAccurate'
  BY DEF Counter
<1>5. Gui /\ (~in => drift) /\ AnswersFit /\ CountIsAccurate
  BY <1>2 DEF Counter, Gui
<1>6. AnswersFit'
  BY <1>2, StaleFit
<1>7. CountIsAccurate'
  <2>. SUFFICES ASSUME in', ~drift' PROVE Counted(count', OnWire') = pending'
    BY DEF CountIsAccurate, OnWire
  <2>1. Counted(count, OnWire) = pending /\ pending' = Counted(pending, new) /\ ~Missed(types)
    BY <1>2, <1>5 DEF CountIsAccurate, OnWire, new
  <2>2. CASE current \in Written
    <3>1. current \in Stream /\ current # 0
      BY <2>2, StreamAssumption DEF Written, Types, BusTypes, BusTypeOK
    <3>2. OnWire' = OnWire \o new
      BY <1>1, <1>2, <2>2, <3>1 DEF OnWire
    <3>. QED  BY <1>2, <1>3, <2>1, <3>2, OnWireType, CountedParts
  <2>3. CASE current \notin Written
    <3>1. OnWire' = OnWire
      BY <1>1, <1>2, <2>3 DEF OnWire, Types, NetTypeOK
    <3>2. \A k \in DOMAIN types : types[k] = "other"
      BY <2>1, <2>3 DEF Missed
    <3>3. Counted(pending, new) = pending
      BY <1>4, <3>2, OnWireType
    <3>. QED  BY <1>2, <2>1, <3>1, <3>3
  <2>. QED  BY <2>2, <2>3
<1>. QED  BY <1>2, <1>5, <1>6, <1>7

(* A chunk moves events from the wire to the counter. *)
LEMMA CounterRead ==
  ASSUME Types, OneStream, Counter,
         NEW s \in Stream, NEW j \in 0 .. MaxEvents, NEW more \in BOOLEAN, ReadChunk(s, j, more)
  PROVE  Counter'
<1>. DEFINE told == Told(s, j)
            rest == SubSeq(wire[s], j + 1, Len(wire[s]))
            heard == Heard(s, j)
<1>1. /\ phase[s] = "reading" /\ j \in 0 .. Len(wire[s])
      /\ count' = IF Gui THEN Counted(count, heard) ELSE count
      /\ drift' = (drift \/ (Loses(s, j) /\ Approval(Head(told))))
      /\ wire' = [wire EXCEPT ![s] = rest]
      /\ UNCHANGED <<viewer, in, answer, current, pending, life, nextId>>
  BY ReadShape DEF bus
<1>2. s = current /\ s # 0 /\ wire[s] \in Seq(Event) /\ wire \in [Stream -> Seq(Event)] /\ OnWire = wire[s]
  BY <1>1, StreamAssumption DEF OneStream, OnWire, Types, NetTypeOK
<1>3. /\ wire[s] = told \o rest /\ told \in Seq(Event) /\ rest \in Seq(Event)
      /\ Len(told) = j /\ Len(rest) = Len(wire[s]) - j
  <2>1. wire[s] = told \o rest
    BY <1>1, <1>2, Split DEF Told
  <2>2. told \in Seq(Event) /\ Len(told) = j
    BY <1>1, <1>2, PrefixType DEF Told
  <2>3. rest \in Seq(Event) /\ Len(rest) = Len(wire[s]) - j
    BY <1>1, <1>2, SuffixType
  <2>. QED  BY <2>1, <2>2, <2>3
<1>4. heard = IF Loses(s, j) THEN Tail(told) ELSE told
  BY DEF Heard
<1>. HIDE DEF told, rest, heard
<1>5. OnWire' = rest
  BY <1>1, <1>2 DEF OnWire
<1>. SUFFICES ASSUME Gui' PROVE (~in' => drift') /\ AnswersFit' /\ CountIsAccurate'
  BY DEF Counter
<1>6. Gui /\ (~in => drift) /\ AnswersFit /\ CountIsAccurate
  BY <1>1 DEF Counter, Gui
<1>7. AnswersFit'
  <2>1. ASSUME OnWire = << >> PROVE OnWire' = << >>
    <3>1. Len(wire[s]) = 0
      <4>1. Len(<< >>) = 0
        OBVIOUS
      <4>. QED  BY <1>2, <2>1, <4>1
    <3>2. Len(rest) = 0
      <4>1. j = 0
        BY <1>1, <3>1
      <4>. QED  BY <1>3, <3>1, <4>1
    <3>. QED  BY <1>3, <1>5, <3>2
  <2>. QED  BY <1>1, <1>6, <2>1, AnswersStay
<1>8. CountIsAccurate'
  <2>. SUFFICES ASSUME in', ~drift' PROVE Counted(count', OnWire') = pending'
    BY DEF CountIsAccurate, OnWire
  <2>1. Counted(count, OnWire) = pending /\ ~(Loses(s, j) /\ Approval(Head(told)))
    BY <1>1, <1>6 DEF CountIsAccurate, OnWire
  <2>2. Counted(count, told) = Counted(count, heard)
    <3>1. CASE ~Loses(s, j)
      BY <1>4, <3>1
    <3>2. CASE Loses(s, j)
      <4>1. told # << >>
        <5>1. j > 0 /\ Len(<< >>) = 0
          BY <3>2 DEF Loses
        <5>. QED  BY <1>3, <5>1
      <4>2. /\ Head(told) \in Event /\ <<Head(told)>> \in Seq(Event) /\ Tail(told) \in Seq(Event)
            /\ told = <<Head(told)>> \o Tail(told)
        BY <1>3, <4>1, HeadAndTail
      <4>. DEFINE h == Head(told)
      <4>3. h.type = "other"
        BY <2>1, <3>2 DEF Approval
      <4>4. Counted(count, <<h>>) = count
        <5>1. <<h>> \in Seq(Event) /\ \A k \in 1 .. Len(<<h>>) : <<h>>[k] = h
          BY <4>2
        <5>2. \A k \in 1 .. Len(<<h>>) : ~Approval(<<h>>[k])
          BY <4>3, <5>1 DEF Approval
        <5>. QED  BY <5>1, <5>2, OnWireType, CountedOthers
      <4>5. Counted(count, told) = Counted(Counted(count, <<h>>), Tail(told))
        <5>. DEFINE b == <<h>>
                    c == Tail(told)
        <5>1. b \in Seq(Event) /\ c \in Seq(Event) /\ told = b \o c /\ count \in Nat
          BY <4>2, OnWireType
        <5>. HIDE DEF b, c
        <5>2. Counted(count, told) = Counted(Counted(count, b), c)
          BY <5>1, CountedParts
        <5>. QED  BY <5>2 DEF b, c
      <4>. QED  BY <1>4, <3>2, <4>4, <4>5
    <3>. QED  BY <3>1, <3>2
  <2>3. Counted(count, told \o rest) = Counted(Counted(count, told), rest)
    BY <1>3, OnWireType, CountedParts
  <2>. QED  BY <1>1, <1>2, <1>3, <1>5, <1>6, <2>1, <2>2, <2>3
<1>. QED  BY <1>1, <1>6, <1>7, <1>8

(* Every step keeps the counter right or sets drift. *)
LEMMA CounterStep == Order /\ Counter /\ [Next]_vars => Counter'
<1>. SUFFICES ASSUME Types, OneStream, Counter, [Next]_vars PROVE Counter'
  BY DEF Order
<1>1. /\ wire \in [Stream -> Seq(Event)] /\ NetTypeOK /\ current \in Stream \cup {0}
      /\ phase \in [Stream -> {"none", "asked", "answered", "reading"}] /\ 0 \notin Stream
      /\ drift \in BOOLEAN /\ in \in BOOLEAN /\ pending \in Nat /\ count \in Nat
  BY OrderTypes, OnWireType, StreamAssumption DEF Types, NetTypeOK, ClientTypes, ClientTypeOK
<1>2. ASSUME UNCHANGED <<viewer, in, count, answer, pending, life, nextId, drift, OnWire>> PROVE Counter'
  BY <1>2, CounterStays
<1>3. CASE Needed
  <2>. DEFINE types == <<"needed">>
  <2>1. /\ pending' = pending + 1 /\ Emit(types) /\ drift' = (drift \/ Missed(types)) /\ types \in Emission
    BY <1>3 DEF Needed, Emission
  <2>2. Counted(pending, NewEvents(types)) = pending + 1
    BY <1>1, <2>1, EmissionCounts DEF Emit
  <2>. QED  BY <2>1, <2>2, CounterEmit
<1>4. CASE Resolve
  <2>1. pending > 0 /\ pending' = pending - 1
    BY <1>4 DEF Resolve
  <2>2. PICK types \in {<<"resolved">>, <<"other", "resolved">>} : Emit(types) /\ drift' = (drift \/ Missed(types))
    BY <1>4 DEF Resolve
  <2>3. types \in Emission
    BY DEF Emission
  <2>4. Counted(pending, NewEvents(types)) = pending - 1
    BY <1>1, <2>1, <2>2, <2>3, EmissionCounts DEF Emit
  <2>. QED  BY <2>1, <2>2, <2>3, <2>4, CounterEmit
<1>5. ASSUME NEW k \in 1 .. MaxPending, ExpireStale(k) PROVE Counter'
  <2>. DEFINE types == <<"resolved">>
  <2>1. /\ k \in 1 .. pending /\ pending' = pending - k /\ Emit(types)
        /\ drift' = (drift \/ Missed(types) \/ k > 1) /\ types \in Emission
    BY <1>5 DEF ExpireStale, Emission
  <2>2. pending > 0
    BY <1>1, <2>1
  <2>3. Counted(pending, NewEvents(types)) = pending - 1
    BY <1>1, <2>1, <2>2, EmissionCounts DEF Emit
  <2>4. ~drift' => k = 1
    <3>1. ~drift' => ~(k > 1)
      BY <2>1
    <3>2. k \in Nat \ {0}
      BY <1>1, <2>1
    <3>. QED  BY <3>1, <3>2
  <2>. QED  BY <2>1, <2>3, <2>4, CounterEmit
<1>6. CASE Report
  <2>. DEFINE types == <<"other">>
  <2>1. Emit(types) /\ UNCHANGED <<pending, drift>> /\ types \in Emission
    BY <1>6 DEF Report, Emission
  <2>2. \A k \in DOMAIN types : types[k] = "other"
    OBVIOUS
  <2>3. Counted(pending, NewEvents(types)) = pending
    BY <1>1, <2>1, <2>2, EmissionCounts DEF Emit
  <2>4. ~Missed(types)
    BY <2>2 DEF Missed
  <2>. QED  BY <2>1, <2>3, <2>4, CounterEmit
<1>7. ASSUME NEW s \in Stream, AddClient(s) PROVE Counter'
  <2>1. /\ UNCHANGED <<viewer, in, count, answer, pending, life, nextId, drift, current>>
        /\ wire' = [wire EXCEPT ![s] = IF Gui THEN << >> ELSE ToReplay(lastId)] /\ phase[s] = "asked"
    BY <1>7 DEF AddClient, app
  <2>2. CASE Gui
    <3>1. wire[s] = << >>
      BY <2>1 DEF Types, NetTypeOK
    <3>2. OnWire' = OnWire
      BY <1>1, <2>1, <2>2, <3>1 DEF OnWire
    <3>. QED  BY <1>2, <2>1, <3>2
  <2>3. CASE ~Gui
    BY <2>1, <2>3 DEF Counter, Gui
  <2>. QED  BY <2>2, <2>3
<1>8. ASSUME NEW s \in Stream, Closed(s) \/ Opened(s) \/ Ended(s) PROVE Counter'
  <2>1. UNCHANGED <<viewer, in, count, answer, pending, life, nextId, drift, current, wire>>
    BY <1>8 DEF Closed, Opened, Ended, bus, net, app
  <2>. QED  BY <1>2, <2>1 DEF OnWire
<1>9. ASSUME NEW s \in Stream, Break(s) PROVE Counter'
  <2>1. /\ UNCHANGED <<viewer, in, count, answer, pending, life, nextId, current>> /\ drift' = (drift \/ wire' # wire)
    BY <1>9 DEF Break, bus
  <2>2. PICK j \in 0 .. Len(wire[s]) : wire' = [wire EXCEPT ![s] = SubSeq(wire[s], 1, j)]
    BY <1>9 DEF Break
  <2>3. ASSUME OnWire = << >> PROVE OnWire' = << >>
    <3>1. CASE current # s
      BY <1>1, <2>1, <2>2, <2>3, <3>1 DEF OnWire
    <3>2. CASE current = s
      <4>1. OnWire = wire[s] /\ OnWire' = SubSeq(wire[s], 1, j)
        BY <1>1, <2>1, <2>2, <3>2 DEF OnWire
      <4>2. Len(wire[s]) = 0 /\ j = 0
        BY <2>3, <4>1
      <4>. QED  BY <2>3, <4>1, <4>2
    <3>. QED  BY <3>1, <3>2
  <2>4. ~drift' => OnWire' = OnWire
    BY <2>1 DEF OnWire
  <2>. QED  BY <2>1, <2>3, <2>4, CounterStays
<1>10. ASSUME Rerender \/ TimerFires \/ Login PROVE OnWire' = << >>
  <2>1. Free # {} /\ current' = AFree /\ (wire' = wire \/ wire' = Aborted(current)[2])
    BY <1>10 DEF Rerender, TimerFires, Login, Connect
  <2>2. AFree \in Stream /\ phase[AFree] = "none"
    BY <2>1, FreeStream DEF Free
  <2>3. wire[AFree] = << >> /\ (Aborted(current)[2][AFree] = wire[AFree] \/ Aborted(current)[2][AFree] = << >>)
    BY <1>1, <2>2, AbortedTypes DEF NetTypeOK
  <2>. QED  BY <2>1, <2>2, <2>3 DEF OnWire
<1>11. CASE Rerender
  <2>1. /\ UNCHANGED <<viewer, in, count, answer, pending, life, nextId>>
        /\ drift' = (drift \/ (current # 0 /\ Carries(current)))
    BY <1>11 DEF Rerender, bus
  <2>2. OnWire' = << >>
    BY <1>10, <1>11
  <2>. SUFFICES ASSUME Gui' PROVE (~in' => drift') /\ AnswersFit' /\ CountIsAccurate'
    BY DEF Counter
  <2>3. Gui /\ (~in => drift) /\ AnswersFit /\ CountIsAccurate
    BY <2>1 DEF Counter, Gui
  <2>4. AnswersFit'
    BY <2>1, <2>2, <2>3, AnswersStay
  <2>5. CountIsAccurate'
    <3>. SUFFICES ASSUME in', ~drift' PROVE Counted(count', OnWire') = pending'
      BY DEF CountIsAccurate, OnWire
    <3>1. Counted(count, OnWire) = pending /\ ~(current # 0 /\ Carries(current))
      BY <2>1, <2>3 DEF CountIsAccurate, OnWire
    <3>2. \A k \in 1 .. Len(OnWire) : ~Approval(OnWire[k])
      <4>1. CASE current = 0
        <5>1. Len(<< >>) = 0 /\ 1 .. 0 = {}
          OBVIOUS
        <5>. QED  BY <4>1, <5>1 DEF OnWire
      <4>2. CASE current # 0
        <5>1. OnWire = wire[current] /\ DOMAIN wire[current] = 1 .. Len(wire[current])
          BY <1>1, <4>2 DEF OnWire
        <5>. QED  BY <3>1, <4>2, <5>1 DEF Carries
      <4>. QED  BY <4>1, <4>2
    <3>3. Counted(count, OnWire) = count
      BY <3>2, OnWireType, CountedOthers
    <3>4. Counted(count, << >>) = count
      BY <1>1, CountedNothing
    <3>. QED  BY <2>1, <2>2, <3>1, <3>3, <3>4
  <2>. QED  BY <2>1, <2>3, <2>4, <2>5
<1>12. CASE TimerFires
  <2>1. UNCHANGED <<viewer, in, count, answer, pending, life, nextId, drift>> /\ timer
    BY <1>12 DEF TimerFires, bus, app
  <2>2. \A s \in Stream : wire[s] = << >>
    BY <1>1, <2>1 DEF OneStream, NetTypeOK
  <2>3. OnWire = << >>
    BY <1>1, <2>2 DEF OnWire
  <2>. QED  BY <1>2, <1>10, <1>12, <2>1, <2>3
<1>13. CASE Login
  <2>1. /\ UNCHANGED <<viewer, count, pending, life, nextId, drift>> /\ ~in /\ in' = TRUE
        /\ answer' = Append(answer, Asking)
    BY <1>13 DEF Login, bus
  <2>2. OnWire' = << >>
    BY <1>10, <1>13
  <2>. SUFFICES ASSUME Gui' PROVE (~in' => drift') /\ AnswersFit' /\ CountIsAccurate'
    BY DEF Counter
  <2>3. Gui /\ drift /\ AnswersFit
    BY <2>1 DEF Counter, Gui
  <2>4. AnswersFit'
    <3>1. /\ Len(answer') = Len(answer) + 1 /\ Len(answer) \in Nat
          /\ \A l \in 1 .. Len(answer) + 1 : answer'[l] = IF l <= Len(answer) THEN answer[l] ELSE Asking
      <4>1. answer \in Seq(Answer)
        BY DEF Types, ClientTypes
      <4>. HIDE DEF Answer
      <4>. QED  BY <2>1, <4>1
    <3>2. ASSUME NEW l \in 1 .. Len(answer'), answer'[l].state = "served"
          PROVE  l \in 1 .. Len(answer) /\ answer'[l] = answer[l]
      <4>1. l <= Len(answer)
        <5>1. Asking.state = "asked"
          BY DEF Asking, Ask
        <5>. QED  BY <3>1, <3>2, <5>1
      <4>. QED  BY <3>1, <4>1
    <3>. QED  BY <2>1, <2>2, <2>3, <3>2 DEF AnswersFit
  <2>. QED  BY <2>1, <2>3, <2>4 DEF CountIsAccurate
<1>14. CASE Logout
  <2>1. /\ UNCHANGED <<viewer, count, answer, pending, life, nextId, current>> /\ drift' = TRUE
        /\ wire' = Aborted(current)[2]
    BY <1>14 DEF Logout, bus
  <2>2. OnWire' = << >>
    BY <1>1, <2>1, AbortedTypes DEF OnWire
  <2>3. Gui' => AnswersFit'
    BY <2>1, <2>2, AnswersStay DEF Counter, Gui
  <2>. QED  BY <2>1, <2>3 DEF Counter, CountIsAccurate
<1>15. CASE Restart
  <2>1. drift' = TRUE /\ Stale /\ UNCHANGED viewer
    BY <1>15 DEF Restart
  <2>. QED  BY <2>1, StaleFit DEF Counter, CountIsAccurate
<1>16. ASSUME NEW s \in Stream, NEW j \in 0 .. MaxEvents, NEW more \in BOOLEAN, ReadChunk(s, j, more) PROVE Counter'
  BY <1>16, CounterRead
<1>17. ASSUME NEW l \in 1 .. MaxLogins, ServeApprovals(l) PROVE Counter'
  <2>. DEFINE a == [state |-> "served", rows |-> pending, fresh |-> current # 0 /\ wire[current] = << >>,
                    status |-> answer[l].status]
  <2>1. /\ UNCHANGED <<viewer, in, count, pending, drift, current, wire>>
        /\ l \in DOMAIN answer /\ answer' = [answer EXCEPT ![l] = a]
    BY <1>17 DEF ServeApprovals, net
  <2>. SUFFICES ASSUME Gui' PROVE (~in' => drift') /\ AnswersFit' /\ CountIsAccurate'
    BY DEF Counter
  <2>2. Gui /\ (~in => drift) /\ AnswersFit /\ CountIsAccurate
    BY <2>1 DEF Counter, Gui
  <2>3. a.rows = pending /\ (a.fresh => OnWire = << >>)
    BY DEF OnWire
  <2>4. a \in Answer
    <3>1. l \in 1 .. Len(answer)
      BY <2>1 DEF Types, ClientTypes
    <3>2. answer[l] \in Answer
      BY <3>1, AnswerHas
    <3>. QED  BY <1>1, <3>2 DEF Answer
  <2>. HIDE DEF a
  <2>5. Len(answer') = Len(answer) /\ \A k \in 1 .. Len(answer) : answer'[k] = IF k = l THEN a ELSE answer[k]
    BY <2>1, <2>4, AnswerTypes DEF Types
  <2>6. AnswersFit'
    <3>1. ASSUME NEW k \in 1 .. Len(answer), answer'[k].state = "served", answer'[k].fresh
          PROVE  answer'[k].rows = pending /\ OnWire = << >>
      <4>1. CASE k = l
        BY <2>3, <2>5, <3>1, <4>1
      <4>2. CASE k # l
        BY <2>2, <2>5, <3>1, <4>2 DEF AnswersFit
      <4>. QED  BY <4>1, <4>2
    <3>2. OnWire' = OnWire
      BY <2>1 DEF OnWire
    <3>. QED  BY <2>1, <2>5, <3>1, <3>2 DEF AnswersFit
  <2>. QED  BY <2>1, <2>2, <2>6 DEF CountIsAccurate
<1>18. ASSUME NEW l \in 1 .. MaxLogins, ApprovalsArrive(l) \/ ApprovalsFail(l) PROVE Counter'
  <2>. DEFINE a == Ask("over", answer[l].status)
  <2>1. /\ UNCHANGED <<viewer, in, pending, life, nextId, current, wire>>
        /\ l \in DOMAIN answer /\ answer' = [answer EXCEPT ![l] = a]
    BY <1>18 DEF ApprovalsArrive, ApprovalsFail, bus, net
  <2>2. l \in 1 .. Len(answer) /\ answer[l] \in Answer /\ a \in Answer /\ a.state = "over"
    <3>1. answer \in Seq(Answer)
      BY DEF Types, ClientTypes
    <3>2. l \in 1 .. Len(answer) /\ answer[l] \in Answer
      BY <2>1, <3>1
    <3>. QED  BY <3>2 DEF Answer, Ask
  <2>. HIDE DEF a
  <2>3. Len(answer') = Len(answer) /\ \A k \in 1 .. Len(answer) : answer'[k] = IF k = l THEN a ELSE answer[k]
    BY <2>1, <2>2, AnswerTypes DEF Types
  <2>. SUFFICES ASSUME Gui' PROVE (~in' => drift') /\ AnswersFit' /\ CountIsAccurate'
    BY DEF Counter
  <2>4. Gui /\ (~in => drift) /\ AnswersFit /\ CountIsAccurate
    BY <2>1 DEF Counter, Gui
  <2>5. AnswersFit'
    <3>1. OnWire' = OnWire
      BY <2>1 DEF OnWire
    <3>2. \A k \in 1 .. Len(answer) : answer'[k].state = "served" => answer'[k] = answer[k]
      BY <2>2, <2>3
    <3>. QED  BY <2>1, <2>3, <2>4, <3>1, <3>2 DEF AnswersFit
  <2>6. CASE ApprovalsFail(l)
    <3>1. UNCHANGED <<count, drift>>
      BY <2>6 DEF ApprovalsFail
    <3>. QED  BY <2>1, <2>4, <2>5, <3>1 DEF CountIsAccurate
  <2>7. CASE ApprovalsArrive(l)
    <3>1. /\ count' = answer[l].rows /\ drift' = ~(in /\ answer[l].fresh)
          /\ answer[l].state = "served"
      BY <2>7 DEF ApprovalsArrive, SetCount
    <3>2. ASSUME ~drift' PROVE Counted(count', OnWire') = pending'
      <4>1. answer[l].fresh
        BY <3>1, <3>2
      <4>2. answer[l].rows = pending /\ OnWire = << >>
        BY <2>2, <2>4, <3>1, <4>1 DEF AnswersFit
      <4>3. OnWire' = << >>
        BY <2>1, <4>2 DEF OnWire
      <4>4. Counted(pending, << >>) = pending
        BY <1>1, CountedNothing
      <4>. QED  BY <2>1, <3>1, <4>2, <4>3, <4>4
    <3>3. CountIsAccurate'
      BY <3>2 DEF CountIsAccurate, OnWire
    <3>4. ~in' => drift'
      BY <2>1, <3>1
    <3>. QED  BY <2>5, <3>3, <3>4
  <2>. QED  BY <1>18, <2>6, <2>7
<1>19. CASE UNCHANGED streamVars
  <2>1. UNCHANGED <<viewer, in, count, answer, pending, life, nextId, drift, current, wire>>
    BY <1>19 DEF streamVars, bus, net, app
  <2>. QED  BY <1>2, <2>1 DEF OnWire
<1>20. ASSUME NEW l \in 1 .. MaxLogins, StatusArrives(l) PROVE Counter'
  <2>. DEFINE a == [answer[l] EXCEPT !.status = FALSE]
  <2>1. /\ UNCHANGED <<viewer, in, count, pending, drift, current, wire>>
        /\ l \in DOMAIN answer /\ answer' = [answer EXCEPT ![l] = a]
    BY <1>20 DEF StatusArrives, net
  <2>2. l \in 1 .. Len(answer)
    BY <2>1 DEF Types, ClientTypes
  <2>3. /\ a \in Answer
        /\ a.state = answer[l].state /\ a.fresh = answer[l].fresh /\ a.rows = answer[l].rows
    BY <2>2, AnswerHas DEF Answer
  <2>. HIDE DEF a
  <2>4. Len(answer') = Len(answer) /\ \A k \in 1 .. Len(answer) : answer'[k] = IF k = l THEN a ELSE answer[k]
    BY <2>1, <2>3, AnswerTypes DEF Types
  <2>5. OnWire' = OnWire
    BY <2>1 DEF OnWire
  <2>6. AnswersFit => AnswersFit'
    BY <2>1, <2>3, <2>4, <2>5 DEF AnswersFit
  <2>7. CountIsAccurate => CountIsAccurate'
    BY <2>1 DEF CountIsAccurate, Gui
  <2>. QED  BY <2>1, <2>6, <2>7 DEF Counter, Gui
<1>21. ASSUME NEW k \in 1 .. MaxPending, AgentDeleted(k) PROVE Counter'
  <2>1. drift' = TRUE /\ Stale
    BY <1>21 DEF AgentDeleted
  <2>. QED  BY <2>1, StaleFit DEF Counter, CountIsAccurate
<1>. QED  BY StepsAre, <1>3, <1>4, <1>5, <1>6, <1>7, <1>8, <1>9, <1>11, <1>12, <1>13, <1>14, <1>15,
             <1>16, <1>17, <1>18, <1>19, <1>20, <1>21

-----------------------------------------------------------------------------
(* The theorems about streams. *)

(* Before anything happens everything is empty. *)
LEMMA StreamInvInit == StreamInit => StreamInv
<1>. SUFFICES ASSUME StreamInit PROVE StreamInv
  OBVIOUS
<1>1. Types
  BY StreamTypesInit
<1>2. Len(<< >>) = 0 /\ << >> \in Seq(Event)
  OBVIOUS
<1>3. seen = << >> /\ buffer = << >> /\ answer = << >> /\ clients = {} /\ current = 0 /\ drift /\ lastId = 0 /\ life = 0
  BY DEF StreamInit
<1>4. \A s \in Stream : wire[s] = << >> /\ phase[s] = "none"
  BY DEF StreamInit
<1>5. OneStream
  BY <1>4 DEF StreamInit, OneStream, Gui
<1>6. BufferIsRecent
  BY <1>2 DEF StreamInit, BufferIsRecent, Recent
<1>7. Ascends
  <2>1. Ordered(seen, Present)
    BY <1>2, <1>3 DEF Ordered
  <2>. QED  BY <1>4, <2>1, EmptyOrder DEF Ascends
<1>8. Remembers
  BY <1>3 DEF Remembers
<1>9. GoesOn
  <2>1. Runs(seen, 0)
    BY <1>2, <1>3, RunsNothing
  <2>2. \A s \in Stream : GoesTo(seen, Stamps(wire[s]), nextId, FALSE)
    BY <1>4, <2>1, GoesToNothing
  <2>3. Written = {}
    BY <1>3 DEF Written
  <2>. QED  BY <1>3, <2>1, <2>2, <2>3 DEF GoesOn, GoesTo
<1>10. Counter
  BY <1>2, <1>3 DEF Counter, AnswersFit, CountIsAccurate
<1>. QED  BY <1>1, <1>5, <1>6, <1>7, <1>8, <1>9, <1>10 DEF StreamInv, Order

(* Every step of the composition keeps the invariant. *)
LEMMA StreamInvStep == StreamInv /\ [Next]_vars => StreamInv'
<1>. SUFFICES ASSUME StreamInv, [Next]_vars PROVE StreamInv'
  OBVIOUS
<1>1. Order /\ GoesOn /\ Counter /\ Types /\ OneStream /\ BufferIsRecent /\ Ascends /\ Remembers
  BY DEF StreamInv, Order
<1>2. Types' /\ OneStream' /\ BufferIsRecent'
  BY <1>1, TypesStep, OneStreamStep, BufferStep
<1>3. Ascends' /\ Remembers'
  BY <1>1, AscendsStep, RemembersStep
<1>4. GoesOn' /\ Counter'
  BY <1>1, GoesOnStep, CounterStep
<1>. QED  BY <1>2, <1>3, <1>4 DEF StreamInv, Order

(* The invariant holds in every state. *)
LEMMA StreamsAreSound == Spec => []StreamInv
<1>1. Init => StreamInit
  BY DEF Init
<1>. QED  BY <1>1, StreamInvInit, StreamInvStep, PTL DEF Spec

(* Whatever streams are opened, aborted, broken and replayed, and whatever *)
(* servers come and go, a client handles no event twice and none after a   *)
(* later one (useSSE.js aborts the stream it leaves, addClient replays     *)
(* before it registers).                                                   *)
THEOREM EventsComeInOrder == Spec => []HandledInOrder
<1>1. StreamInv => HandledInOrder
  <2>. SUFFICES ASSUME StreamInv, NEW k \in 1 .. Len(seen) - 1 PROVE Later(seen[k + 1], seen[k])
    BY DEF HandledInOrder
  <2>1. Types /\ Ordered(seen, Present)
    BY DEF StreamInv, Order, Ascends
  <2>2. Len(seen) \in Nat
    <3>1. seen \in Seq(Nat \X Nat)
      BY <2>1, OrderTypes
    <3>. QED  BY <3>1
  <2>3. k + 1 \in 1 .. Len(seen) /\ k \in 1 .. (k + 1) - 1
    BY <2>2
  <2>. QED  BY <2>1, <2>3 DEF Ordered
<1>. QED  BY <1>1, StreamsAreSound, PTL

(* A client that sends Last-Event-ID has handled consecutive numbers, and  *)
(* with nothing on its way it has the last one, after any number of broken *)
(* connections that the buffer can make up for (api/events.js addClient).  *)
THEOREM ReplayIsComplete == Spec => []NothingSkipped
<1>1. StreamInv => NothingSkipped
  <2>. SUFFICES ASSUME StreamInv, ~Gui, ~gap, seen # << >>
                PROVE  /\ \A k \in DOMAIN seen : seen[k][2] = seen[1][2] + k - 1
                       /\ (current \in Written /\ wire[current] = << >>) => lastId = nextId - 1
    BY DEF NothingSkipped
  <2>1. /\ Types /\ Remembers /\ \E m \in Nat : Runs(seen, m)
        /\ \A s \in Stream : GoesTo(seen, Stamps(wire[s]), nextId, s \in Written)
    BY DEF StreamInv, Order, GoesOn
  <2>2. seen \in Seq(Nat \X Nat) /\ nextId \in Nat
    BY <2>1, OrderTypes
  <2>3. PICK x \in Nat \ {0} : x = Len(seen) /\ DOMAIN seen = 1 .. x
    BY <2>2
  <2>4. 1 \in 1 .. x /\ x \in 1 .. x
    OBVIOUS
  <2>5. ASSUME NEW k \in DOMAIN seen PROVE seen[k][2] = seen[1][2] + k - 1
    <3>1. PICK m \in Nat : Runs(seen, m)
      BY <2>1
    <3>2. seen[k][2] = m + k /\ seen[1][2] = m + 1 /\ k \in Nat
      BY <2>3, <2>4, <3>1 DEF Runs
    <3>. QED  BY <3>2
  <2>6. ASSUME current \in Written, wire[current] = << >> PROVE lastId = nextId - 1
    <3>1. current \in Stream
      BY <2>1, <2>6 DEF Written, Types, BusTypes, BusTypeOK
    <3>2. GoesTo(seen, Stamps(<< >>), nextId, TRUE)
      BY <2>1, <2>6, <3>1
    <3>3. Len(Stamps(<< >>)) = 0
      <4>1. << >> \in Seq(Event) /\ Len(<< >>) = 0
        OBVIOUS
      <4>. QED  BY <4>1, StampsType
    <3>4. PICK m \in Nat : Runs(seen, m) /\ nextId = m + x + 0 + 1
      <4>1. x + 0 > 0
        OBVIOUS
      <4>. QED  BY <2>3, <3>2, <3>3, <4>1 DEF GoesTo
    <3>5. lastId = m + x
      BY <2>1, <2>3, <2>4, <3>4 DEF Remembers, Runs
    <3>. QED  BY <3>4, <3>5
  <2>. QED  BY <2>5, <2>6
<1>. QED  BY <1>1, StreamsAreSound, PTL

(* While nothing is lost to it, the counter of the layout and the events   *)
(* it has still to read make up the pending rows (App.jsx ApprovalTracker  *)
(* and setPendingCount).                                                   *)
THEOREM CounterIsRight == Spec => []CountIsAccurate
<1>1. StreamInv => CountIsAccurate
  BY DEF StreamInv, Counter, CountIsAccurate
<1>. QED  BY <1>1, StreamsAreSound, PTL

-----------------------------------------------------------------------------
(* Webhooks. *)

(* RetriesSpent does not say how many tries a delivery that waits has left. *)
TriesFit ==
  \A d \in Delivery :
    /\ job[d].phase = "none" => Len(job[d].tries) = 0
    /\ job[d].phase = "backoff" => Len(job[d].tries) <= RetriesOf(d)
    /\ job[d].phase \in {"asking", "done", "lost"} => Len(job[d].tries) <= RetriesOf(d) + 1
    /\ job[d].phase = "dropped" => Len(job[d].tries) = RetriesOf(d) + 1
    /\ job[d].phase = "asking" => Len(job[d].tries) > 0

Jobs == job \in [Delivery -> Job]
JobsFit == Jobs /\ TriesFit

(* The retries of a delivery are a number. *)
LEMMA RetriesAreNumbers == \A d \in Delivery : RetriesOf(d) \in Nat
  BY RetriesAssumption DEF Delivery, RetriesOf

(* Before anything is dispatched no delivery has been tried. *)
LEMMA InitJobs == HooksInit => JobsFit
  <1> USE RetriesAreNumbers
  <1>1. None \in Job /\ Len(None.tries) = 0 /\ None.phase = "none"
    BY DEF None, Job
  <1> QED
    BY <1>1 DEF HooksInit, JobsFit, Jobs, TriesFit

(* What one delivery does: the others stay, and its own record fits. *)
LEMMA OneJob ==
  ASSUME JobsFit, NEW d \in Delivery, NEW j \in Job,
         job' = [job EXCEPT ![d] = j],
         j.phase = "none" => Len(j.tries) = 0,
         j.phase = "backoff" => Len(j.tries) <= RetriesOf(d),
         j.phase \in {"asking", "done", "lost"} => Len(j.tries) <= RetriesOf(d) + 1,
         j.phase = "dropped" => Len(j.tries) = RetriesOf(d) + 1,
         j.phase = "asking" => Len(j.tries) > 0
  PROVE JobsFit'
  <1>1. Jobs'
    BY DEF JobsFit, Jobs
  <1>2. \A e \in Delivery : job'[e] = IF e = d THEN j ELSE job[e]
    BY DEF JobsFit, Jobs
  <1>3. TriesFit'
    BY <1>2 DEF JobsFit, TriesFit, RetriesOf
  <1> QED
    BY <1>1, <1>3 DEF JobsFit

(* A dispatch starts deliveries with one try. *)
LEMMA DispatchFits == JobsFit /\ Dispatch => JobsFit'
  <1> SUFFICES ASSUME JobsFit, Dispatch PROVE JobsFit'
    OBVIOUS
  <1> USE RetriesAreNumbers
  <1>1. New \in Job /\ Len(New.tries) = 1 /\ New.phase = "asking"
    BY DEF New, Job
  <1>2. \A d \in Delivery : job'[d] = New \/ job'[d] = job[d]
    BY DEF Dispatch
  <1>3. Jobs'
    BY <1>1 DEF Dispatch, JobsFit, Jobs
  <1>4. TriesFit'
    <2> SUFFICES ASSUME NEW d \in Delivery
                 PROVE /\ job'[d].phase = "none" => Len(job'[d].tries) = 0
                       /\ job'[d].phase = "backoff" => Len(job'[d].tries) <= RetriesOf(d)
                       /\ job'[d].phase \in {"asking", "done", "lost"} => Len(job'[d].tries) <= RetriesOf(d) + 1
                       /\ job'[d].phase = "dropped" => Len(job'[d].tries) = RetriesOf(d) + 1
                       /\ job'[d].phase = "asking" => Len(job'[d].tries) > 0
      BY DEF TriesFit, RetriesOf
    <2>0. RetriesOf(d) \in Nat
      OBVIOUS
    <2> HIDE RetriesAreNumbers
    <2>1. CASE job'[d] = New
      <3>1. Len(job'[d].tries) = 1 /\ job'[d].phase = "asking"
        BY <1>1, <2>1
      <3> QED
        BY <2>0, <3>1
    <2>2. CASE job'[d] = job[d]
      BY <2>2 DEF JobsFit, TriesFit
    <2> QED
      BY <1>2, <2>1, <2>2
  <1> QED
    BY <1>3, <1>4 DEF JobsFit

(* A receiver that gets a request changes no number of tries. *)
LEMMA HearFits == ASSUME NEW d \in Delivery, NEW k, JobsFit, Hear(d, k) PROVE JobsFit'
  <1> DEFINE j == [phase |-> job[d].phase, tries |-> [job[d].tries EXCEPT ![k] = "heard"]]
  <1>1. job[d] \in Job
    BY DEF JobsFit, Jobs
  <1>2. j \in Job /\ Len(j.tries) = Len(job[d].tries) /\ j.phase = job[d].phase
    BY <1>1 DEF Job, Hear
  <1>3. job' = [job EXCEPT ![d] = j]
    BY DEF Hear
  <1> HIDE DEF j
  <1> QED
    BY <1>2, <1>3, OneJob DEF JobsFit, TriesFit

(* An answer ends a try, and the phase it leads to fits the tries. *)
LEMMA OutcomeFits == ASSUME NEW d \in Delivery, JobsFit, Ok(d) \/ Failed(d) \/ Again(d) PROVE JobsFit'
  <1>1. job[d] \in Job /\ Len(job[d].tries) \in Nat
    BY DEF JobsFit, Jobs, Job
  <1>2. RetriesOf(d) \in Nat
    BY RetriesAreNumbers
  <1>3. CASE Ok(d)
    <2> DEFINE j == [phase |-> "done", tries |-> job[d].tries]
    <2>1. j \in Job /\ job' = [job EXCEPT ![d] = j]
      BY <1>1, <1>3 DEF Ok, To, Job
    <2>2. j.phase = "done" /\ Len(j.tries) <= RetriesOf(d) + 1
      BY <1>3 DEF Ok, JobsFit, TriesFit
    <2> HIDE DEF j
    <2> QED
      BY <2>1, <2>2, OneJob
  <1>4. CASE Failed(d)
    <2> DEFINE p == IF Len(job[d].tries) <= RetriesOf(d) THEN "backoff" ELSE "dropped"
    <2> DEFINE j == [phase |-> p, tries |-> job[d].tries]
    <2>1. j \in Job /\ job' = [job EXCEPT ![d] = j]
      BY <1>1, <1>4 DEF Failed, To, Job
    <2>2. Len(job[d].tries) <= RetriesOf(d) + 1
      BY <1>4 DEF Failed, JobsFit, TriesFit
    <2>3. \/ j.phase = "backoff" /\ Len(j.tries) <= RetriesOf(d)
          \/ j.phase = "dropped" /\ Len(j.tries) = RetriesOf(d) + 1
      BY <1>1, <1>2, <2>2
    <2> HIDE DEF j
    <2> QED
      BY <2>1, <2>3, OneJob
  <1>5. CASE Again(d)
    <2> DEFINE j == [phase |-> "asking", tries |-> Append(job[d].tries, "flying")]
    <2>1. j \in Job /\ job' = [job EXCEPT ![d] = j]
      BY <1>1, <1>5 DEF Again, Job
    <2>2. Len(job[d].tries) <= RetriesOf(d)
      BY <1>5 DEF Again, JobsFit, TriesFit
    <2>3. Len(j.tries) = Len(job[d].tries) + 1
      BY <1>1 DEF Job
    <2>4. j.phase = "asking" /\ Len(j.tries) <= RetriesOf(d) + 1 /\ Len(j.tries) > 0
      BY <1>1, <1>2, <2>2, <2>3
    <2> HIDE DEF j
    <2> QED
      BY <2>1, <2>4, OneJob
  <1> QED
    BY <1>3, <1>4, <1>5

(* A server that dies loses deliveries and starts none. *)
LEMMA DieFits == JobsFit /\ Die => JobsFit'
  <1> SUFFICES ASSUME JobsFit, Die PROVE JobsFit'
    OBVIOUS
  <1>1. ASSUME NEW d \in Delivery
        PROVE /\ job'[d] = IF Active(d) THEN [phase |-> "lost", tries |-> job[d].tries] ELSE job[d]
              /\ job[d] \in Job /\ job'[d] \in Job /\ Len(job[d].tries) \in Nat /\ RetriesOf(d) \in Nat
    BY RetriesAreNumbers DEF Die, JobsFit, Jobs, Job
  <1>2. Jobs'
    BY <1>1 DEF Die, Jobs
  <1>3. ASSUME NEW d \in Delivery, Active(d)
        PROVE job'[d].phase = "lost" /\ Len(job'[d].tries) <= RetriesOf(d) + 1
    <2>0. Len(job[d].tries) \in Nat /\ RetriesOf(d) \in Nat
      BY <1>1
    <2>1. job[d].phase \in {"asking", "backoff"} /\ Len(job[d].tries) <= RetriesOf(d) + 1
      BY <2>0, <1>3 DEF Active, JobsFit, TriesFit
    <2>2. job'[d] = [phase |-> "lost", tries |-> job[d].tries]
      BY <1>1, <1>3
    <2> QED
      BY <2>1, <2>2
  <1>4. TriesFit'
    BY <1>1, <1>3 DEF JobsFit, TriesFit, RetriesOf
  <1> QED
    BY <1>2, <1>4 DEF JobsFit

(* Every step keeps the tries within the retries. *)
LEMMA StepFits == JobsFit /\ [HooksNext]_hookVars => JobsFit'
  <1> SUFFICES ASSUME JobsFit, [HooksNext]_hookVars PROVE JobsFit'
    OBVIOUS
  <1>1. CASE Dispatch
    BY <1>1, DispatchFits
  <1>2. CASE HookStep
    BY <1>2, HearFits, OutcomeFits DEF HookStep
  <1>3. CASE Reload
    BY <1>3 DEF Reload, JobsFit, Jobs, TriesFit, RetriesOf
  <1>4. CASE Die
    BY <1>4, DieFits
  <1>5. CASE UNCHANGED hookVars
    BY <1>5 DEF hookVars, JobsFit, Jobs, TriesFit, RetriesOf
  <1> QED
    BY <1>1, <1>2, <1>3, <1>4, <1>5 DEF HooksNext

(* What the run checks follows from what each phase allows. *)
LEMMA FitIsSpent == JobsFit => RetriesSpent
  <1> SUFFICES ASSUME JobsFit, NEW d \in Delivery
               PROVE /\ Len(job[d].tries) <= RetriesOf(d) + 1
                     /\ job[d].phase = "dropped" => Len(job[d].tries) = RetriesOf(d) + 1
    BY DEF RetriesSpent
  <1>1. job[d] \in Job /\ Len(job[d].tries) \in Nat /\ RetriesOf(d) \in Nat
    BY RetriesAreNumbers DEF JobsFit, Jobs, Job
  <1>2. job[d].phase \in {"none", "asking", "backoff", "done", "dropped", "lost"}
    BY <1>1 DEF Job
  <1> QED
    BY <1>1, <1>2 DEF JobsFit, TriesFit

(* Whatever hooks, retries, failures, reloads and restarts there are, a    *)
(* delivery is given up only after retries + 1 tries and has no more       *)
(* (dispatcher.js #deliver).                                               *)
THEOREM EveryRetryIsSpent == HooksSpec => []RetriesSpent
  <1>1. HooksInit /\ [][HooksNext]_hookVars => []JobsFit
    BY InitJobs, StepFits, PTL
  <1> QED
    BY <1>1, FitIsSpent, PTL DEF HooksSpec

(* The same of the server, where an approval and its event are one step.   *)
THEOREM SpentBesideStreams == Spec => []RetriesSpent
<1>1. Init => HooksInit
  BY DEF Init
<1>2. [Next]_vars => [HooksNext]_hookVars
  BY DEF Next, vars, ApprovalNeeded, Sighup, ServerRestart, Deliver, HooksNext
<1>3. Init /\ [][Next]_vars => []JobsFit
  BY <1>1, <1>2, InitJobs, StepFits, PTL
<1>. QED  BY <1>3, FitIsSpent, PTL DEF Spec
=============================================================================
