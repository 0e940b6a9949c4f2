------------------------------- MODULE LogProofs -------------------------------
(***************************************************************************)
(* The two logs.  For records of any size, any number of hours and any     *)
(* crashes, a reference of the body log stays readable as long as no write *)
(* has ended short in its hour.  For any requests, rules, agents and       *)
(* changes of them, the request log is true, its tables agree, and what    *)
(* the proxy has answered is in it or on the way to it.                    *)
(*                                                                         *)
(* The two specifications share no variable: the body log's is WriterSpec  *)
(* (which ProxyProcess runs, see AuthCacheProofs), the request log's is    *)
(* Safety.                                                                 *)
(***************************************************************************)
EXTENDS LogWriter, RequestLog, SequenceTheorems, FiniteSetTheorems, TLAPS

-----------------------------------------------------------------------------
(* The body log.                                                           *)

(* What the argument needs of the types; the bounds of pos and of offsets  *)
(* play no part in it.                                                     *)
Types ==
  /\ hour \in Hour
  /\ file \in [Hour -> Seq(Byte)]
  /\ cur \in Nat /\ pos \in Nat
  /\ refs \subseteq [record : Record, hour : Hour, offset : Nat]
  /\ nextRecord \in Nat \ {0}
  /\ state = "open" => cur \in Hour

Inv == Types /\ RefsSurvive /\ WriterIsAtTheEnd

(* A file and what is appended to it. *)
LEMMA Appended ==
  ASSUME NEW S, NEW s \in Seq(S), NEW t \in Seq(S)
  PROVE  /\ s \o t \in Seq(S)
         /\ Len(s \o t) = Len(s) + Len(t)
         /\ \A i \in 1 .. Len(s) : (s \o t)[i] = s[i]
         /\ \A i \in 1 .. Len(t) : (s \o t)[Len(s) + i] = t[i]
  BY ConcatProperties

(* The framed bytes of a record. *)
LEMMA Framed ==
  ASSUME NEW r \in Record, NEW n \in 0 .. Size
  PROVE  /\ Bytes(r, n) \in Seq(Byte)
         /\ Len(Bytes(r, n)) = n
         /\ \A i \in 1 .. n : Bytes(r, n)[i] = [record |-> r, at |-> i - 1]
<1>1. \A i \in 1 .. n : [record |-> r, at |-> i - 1] \in Byte
  BY SizeAssumption DEF Byte
<1>2. Bytes(r, n) \in [1 .. n -> Byte]
  BY <1>1 DEF Bytes
<1>3. n \in Nat
  BY SizeAssumption
<1>. QED BY <1>2, <1>3, LenProperties DEF Bytes

(* Appending to the current file leaves every readable reference readable. *)
LEMMA AppendKeeps ==
  ASSUME Types, nextRecord \in Record, NEW n \in 0 .. Size, AppendBytes(n)
  PROVE  /\ file' \in [Hour -> Seq(Byte)]
         /\ Len(file'[hour]) = Len(file[hour]) + n
         /\ \A h \in Hour \ {hour} : file'[h] = file[h]
         /\ \A i \in 1 .. n : file'[hour][Len(file[hour]) + i] = [record |-> nextRecord, at |-> i - 1]
         /\ \A ref \in refs : Readable(ref) => Readable(ref)'
<1> DEFINE f == file[hour]  b == Bytes(nextRecord, n)
<1>1. f \in Seq(Byte) /\ b \in Seq(Byte) /\ Len(b) = n /\ Len(f) \in Nat
  BY Framed, LenProperties DEF Types
<1>2. file' = [file EXCEPT ![hour] = f \o b]
  BY DEF AppendBytes
<1>3. \A i \in 1 .. n : b[i] = [record |-> nextRecord, at |-> i - 1]
  BY Framed
<1> HIDE DEF b
<1>4. /\ f \o b \in Seq(Byte)
      /\ Len(f \o b) = Len(f) + n
      /\ \A i \in 1 .. Len(f) : (f \o b)[i] = f[i]
      /\ \A i \in 1 .. n : (f \o b)[Len(f) + i] = b[i]
  <2>1. \A s, t \in Seq(Byte) :
          /\ s \o t \in Seq(Byte)
          /\ Len(s \o t) = Len(s) + Len(t)
          /\ \A i \in 1 .. Len(s) : (s \o t)[i] = s[i]
          /\ \A i \in 1 .. Len(t) : (s \o t)[Len(s) + i] = t[i]
    BY Appended
  <2> HIDE DEF f
  <2>. QED BY <1>1, <2>1
<1>5. file' \in [Hour -> Seq(Byte)] /\ file'[hour] = f \o b /\ \A h \in Hour \ {hour} : file'[h] = file[h]
  BY <1>2, <1>4 DEF Types
<1>6. ASSUME NEW ref \in refs, Readable(ref) PROVE Readable(ref)'
  <2>1. ref.hour \in Hour /\ ref.offset \in Nat
    BY DEF Types
  <2>2. CASE ref.hour # hour
    BY <1>5, <1>6, <2>1, <2>2 DEF Readable
  <2>3. CASE ref.hour = hour
    <3>1. ref.offset + Size <= Len(f) /\ \A i \in 1 .. Size : f[ref.offset + i] = [record |-> ref.record, at |-> i - 1]
      BY <1>6, <2>3 DEF Readable
    <3>2. \A i \in 1 .. Size : ref.offset + i \in 1 .. Len(f)
      BY <3>1, <2>1, <1>1, SizeAssumption
    <3>3. ref.offset + Size <= Len(f \o b)
      BY <3>1, <2>1, <1>1, <1>4, SizeAssumption
    <3>4. \A i \in 1 .. Size : (f \o b)[ref.offset + i] = [record |-> ref.record, at |-> i - 1]
      BY <3>1, <3>2, <1>4
    <3> HIDE DEF f
    <3>. QED BY <1>5, <2>3, <3>3, <3>4 DEF Readable
  <2>. QED BY <2>2, <2>3
<1>7. \A i \in 1 .. n : file'[hour][Len(f) + i] = [record |-> nextRecord, at |-> i - 1]
  BY <1>3, <1>4, <1>5
<1>. QED BY <1>4, <1>5, <1>6, <1>7

(* A fresh log has no references. *)
LEMMA StartsEmpty == WriterInit => Inv
<1> SUFFICES ASSUME WriterInit PROVE Inv
  OBVIOUS
<1>1. << >> \in Seq(Byte)
  BY EmptySeq
<1>2. Types
  BY <1>1, WriterBounds DEF WriterInit, Types, Hour
<1>. QED BY <1>2 DEF WriterInit, Inv, RefsSurvive, WriterIsAtTheEnd

(* The writer's position is the end of the file it will append to. *)
LEMMA StartIsTheEnd ==
  ASSUME Inv, Usable, hour \notin spoiled
  PROVE  Start = Len(file[hour])
BY DEF Inv, Types, WriterIsAtTheEnd, Usable, Rotates, Start

LEMMA StartIsNatural ==
  ASSUME Inv
  PROVE  Start \in Nat
BY LenProperties DEF Inv, Types, Start

(* Every step keeps Inv. *)
LEMMA InvStep == Inv /\ [WriterNext]_writerVars => Inv'
<1> SUFFICES ASSUME Inv, [WriterNext]_writerVars PROVE Inv'
  OBVIOUS
<1> USE SizeAssumption, WriterBounds
<1>1. CASE Write
  <2>1. nextRecord \in Record /\ Size \in 0 .. Size
    BY <1>1 DEF Write, Inv, Types, Record
  <2>2. AppendBytes(Size)
    BY <1>1 DEF Write
  <2> PICK new : new = [record |-> nextRecord, hour |-> hour, offset |-> Start]
    OBVIOUS
  <2>3. Start \in Nat /\ Len(file[hour]) \in Nat
    BY StartIsNatural, LenProperties DEF Inv, Types
  <2>4. refs' = refs \cup {new} /\ new \in [record : Record, hour : Hour, offset : Nat]
    BY <1>1, <2>1, <2>3 DEF Write, Inv, Types
  <2>5. Types'
    <3>1. file' \in [Hour -> Seq(Byte)]
      BY <2>1, <2>2, AppendKeeps DEF Inv
    <3>2. hour' \in Hour /\ cur' \in Nat /\ pos' \in Nat /\ nextRecord' \in Nat \ {0} /\ cur' \in Hour
      BY <1>1, <2>3 DEF Write, Inv, Types, Hour
    <3>3. refs' \subseteq [record : Record, hour : Hour, offset : Nat]
      BY <2>4 DEF Inv, Types
    <3>. QED BY <3>1, <3>2, <3>3 DEF Types
  <2>6. hour \notin spoiled => Start = Len(file[hour])
    BY <1>1, StartIsTheEnd DEF Write
  <2>7. hour \notin spoiled => Readable(new)'
    <3> SUFFICES ASSUME hour \notin spoiled PROVE Readable(new)'
      OBVIOUS
    <3>1. new.record = nextRecord /\ new.hour = hour /\ new.offset = Len(file[hour])
      BY <2>6
    <3>2. /\ Len(file'[hour]) = Len(file[hour]) + Size
          /\ \A i \in 1 .. Size : file'[hour][Len(file[hour]) + i] = [record |-> nextRecord, at |-> i - 1]
      BY <2>1, <2>2, AppendKeeps DEF Inv
    <3>. QED BY <2>3, <3>1, <3>2 DEF Readable
  <2>8. RefsSurvive'
    BY <1>1, <2>1, <2>2, <2>4, <2>7, AppendKeeps DEF Inv, RefsSurvive, Write
  <2>9. WriterIsAtTheEnd'
    BY <1>1, <2>1, <2>2, <2>6, AppendKeeps DEF Inv, WriterIsAtTheEnd, Write
  <2>. QED BY <2>5, <2>8, <2>9 DEF Inv
<1>2. ASSUME NEW n \in 0 .. Size - 1, WriteEndsShort(n) PROVE Inv'
  <2>1. nextRecord \in Record /\ n \in 0 .. Size /\ AppendBytes(n)
    BY <1>2 DEF WriteEndsShort, Inv, Types, Record
  <2>2. Types'
    <3>1. file' \in [Hour -> Seq(Byte)]
      BY <2>1, AppendKeeps DEF Inv
    <3>2. hour' \in Hour /\ cur' \in Nat /\ pos' \in Nat /\ nextRecord' \in Nat \ {0} /\ cur' \in Hour
      BY <1>2, StartIsNatural DEF WriteEndsShort, Inv, Types, Hour
    <3>. QED BY <1>2, <3>1, <3>2 DEF WriteEndsShort, Inv, Types
  <2>3. RefsSurvive'
    BY <1>2, <2>1, AppendKeeps DEF Inv, RefsSurvive, WriteEndsShort
  <2>4. hour \notin spoiled => Start = Len(file[hour])
    BY <1>2, StartIsTheEnd DEF WriteEndsShort
  <2>5. WriterIsAtTheEnd'
    <3>1. Len(file[hour]) \in Nat /\ hour \in Hour
      BY LenProperties DEF Inv, Types
    <3>. QED BY <1>2, <2>1, <2>4, <3>1, AppendKeeps DEF Inv, WriterIsAtTheEnd, WriteEndsShort
  <2>. QED BY <2>2, <2>3, <2>5 DEF Inv
<1>3. ASSUME NEW n \in 0 .. Size, CrashInWrite(n) PROVE Inv'
  <2>1. nextRecord \in Record /\ AppendBytes(n)
    BY <1>3 DEF CrashInWrite, Inv, Types, Record
  <2>2. Types'
    BY <1>3, <2>1, AppendKeeps DEF CrashInWrite, NewWriter, Inv, Types
  <2>3. RefsSurvive'
    BY <1>3, <2>1, AppendKeeps DEF Inv, RefsSurvive, CrashInWrite
  <2>. QED BY <1>3, <2>2, <2>3 DEF Inv, WriterIsAtTheEnd, CrashInWrite, NewWriter
<1>4. CASE OpenFails
  BY <1>4 DEF OpenFails, Inv, Types, RefsSurvive, WriterIsAtTheEnd, Readable
<1>5. CASE WriteToClosed
  BY <1>5 DEF WriteToClosed, handle, Inv, Types, RefsSurvive, WriterIsAtTheEnd, Readable
<1>6. CASE Close
  BY <1>6 DEF Close, Inv, Types, RefsSurvive, WriterIsAtTheEnd, Readable
<1>7. CASE Restart
  BY <1>7 DEF Restart, NewWriter, Inv, Types, RefsSurvive, WriterIsAtTheEnd, Readable
<1>8. CASE HourPasses
  BY <1>8 DEF HourPasses, handle, Hour, Inv, Types, RefsSurvive, WriterIsAtTheEnd, Readable
<1>9. CASE UNCHANGED writerVars
  BY <1>9 DEF writerVars, handle, Inv, Types, RefsSurvive, WriterIsAtTheEnd, Readable
<1>. QED BY <1>1, <1>2, <1>3, <1>4, <1>5, <1>6, <1>7, <1>8, <1>9 DEF WriterNext, WriterStep, WriterDies

(* writer.go Write, crypto/index.js decryptRecord: references outlive      *)
(* crashes, restarts, rotations and failed opens.                          *)
THEOREM ReferencesSurvive == WriterSpec => []RefsSurvive
<1>1. Inv => RefsSurvive
  BY DEF Inv
<1>. QED BY StartsEmpty, InvStep, <1>1, PTL DEF WriterSpec

-----------------------------------------------------------------------------
(* The request log.  Its invariants speak of the rows and are not          *)
(* inductive: a row is true because the report was, and a report is true   *)
(* because of where its request's goroutine stood.                         *)

NoRows(r) == \A i \in DOMAIN log : log[i].request # r
NoFinalRows(r) == \A i \in DOMAIN log : log[i].request = r => log[i].decision = "held"

(* Every rule the proxy has heard of has been created. *)
RulesExist ==
  /\ \A x \in loaded : ruleRow[x] # "new"
  /\ \A k \in 1 .. Len(toProxy) : "rules" \in DOMAIN toProxy[k] =>
       \A x \in toProxy[k].rules : ruleRow[x] # "new"
  /\ \A r \in Request : /\ request[r].rule # None => ruleRow[request[r].rule] # "new"
                        /\ request[r].at = "held" => request[r].rule = None

(* A report tells what its request came to, and none of its rows is there: *)
(* only a hold is told twice, when it begins and when it is refused.       *)
ReportIsTrue(m) ==
  /\ m.agent = request[m.request].agent
  /\ m.rule \in {request[m.request].rule, None}
  /\ request[m.request].rule # None => NoRows(m.request) /\ m.request \notin wiped
  /\ IF m.type = "approval.needed"
       THEN /\ request[m.request].at # "new" /\ request[m.request].rule = None
            /\ NoRows(m.request) /\ m.request \notin wiped
       ELSE request[m.request].at = DecisionOf(m.type) /\ NoFinalRows(m.request)

TrueReport == {m \in Report : ReportIsTrue(m)}

Reports ==
  /\ \A k \in 1 .. Len(toServer) : toServer[k] \in TrueReport
  /\ \A j, k \in 1 .. Len(toServer) : j < k /\ toServer[j].request = toServer[k].request =>
       toServer[j].type = "approval.needed" /\ toServer[k].type # "approval.needed"

RowIsTrue(row) ==
  /\ row.agent = request[row.request].agent
  /\ row.rule \in {request[row.request].rule, None}
  /\ IF row.decision = "held"
       THEN request[row.request].at # "new" /\ request[row.request].rule = None
       ELSE request[row.request].at = row.decision
  /\ row.rule # None => ruleRow[row.rule] = "live"

TrueRow == {row \in Row : RowIsTrue(row)}

RowsAreTrue ==
  /\ \A i \in DOMAIN log : log[i] \in TrueRow
  /\ \A i, j \in DOMAIN log : i < j /\ log[i].request = log[j].request =>
       log[i].decision = "held" /\ log[j].decision \in Final

WipedAreTold ==
  \A r \in wiped : request[r].at # "new" /\ (request[r].rule # None => request[r].at \in Final)

QueueHasRows == \A r \in Request : queue[r] # "none" =>
  \E i \in DOMAIN log : log[i].request = r /\ log[i].decision = "held"

(* The requests the hits of a rule count: those whose row names it, and    *)
(* those that may have before their agent was deleted.                     *)
Named(x) == {r \in Request : \E i \in DOMAIN log : log[i].request = r /\ log[i].rule = x}
WipedOf(x) == {r \in wiped : request[r].rule = x}

HitsAreRows ==
  /\ IsFiniteSet(wiped)
  /\ \A x \in Rule :
       /\ IsFiniteSet(Named(x))
       /\ ruleRow[x] # "gone" => /\ hits[x] >= Cardinality(Named(x))
                                 /\ hits[x] <= Cardinality(Named(x) \cup WipedOf(x))

LogInv ==
  /\ TypeOK /\ RulesExist /\ Reports /\ RowsAreTrue /\ WipedAreTold
  /\ QueueHasRows /\ HitsAreRows /\ NothingGoesUnlogged

(* A queue and what is put at its end or taken from its front. *)
LEMMA QueueFacts ==
  ASSUME NEW S, NEW q \in Seq(S)
  PROVE  /\ Len(q) \in Nat /\ \A k \in 1 .. Len(q) : q[k] \in S
         /\ \A e \in S : /\ Append(q, e) \in Seq(S)
                         /\ Len(Append(q, e)) = Len(q) + 1
                         /\ \A k \in 1 .. Len(q) : Append(q, e)[k] = q[k]
                         /\ Append(q, e)[Len(q) + 1] = e
         /\ q # << >> => /\ Len(q) > 0 /\ Head(q) = q[1] /\ Head(q) \in S
                         /\ Tail(q) \in Seq(S)
                         /\ Len(Tail(q)) = Len(q) - 1
                         /\ \A k \in 1 .. Len(Tail(q)) : Tail(q)[k] = q[k + 1]
  <1>1. Len(q) \in Nat /\ \A k \in 1 .. Len(q) : q[k] \in S
    BY LenProperties
  <1>2. \A e \in S : /\ Append(q, e) \in Seq(S)
                     /\ Len(Append(q, e)) = Len(q) + 1
                     /\ \A k \in 1 .. Len(q) : Append(q, e)[k] = q[k]
                     /\ Append(q, e)[Len(q) + 1] = e
    BY AppendProperties
  <1>3. q # << >> => /\ Len(q) > 0 /\ Head(q) = q[1] /\ Head(q) \in S
                     /\ Tail(q) \in Seq(S)
                     /\ Len(Tail(q)) = Len(q) - 1
                     /\ \A k \in 1 .. Len(Tail(q)) : Tail(q)[k] = q[k + 1]
    BY HeadTailProperties, EmptySeq
  <1> QED
    BY <1>1, <1>2, <1>3

LEMMA DecisionIs ==
  /\ DecisionOf("request.logged") = "allowed"
  /\ DecisionOf("request.blocked") = "denied"
  /\ DecisionOf("approval.needed") = "held"
  BY DEF DecisionOf

-----------------------------------------------------------------------------
(* What the proxy's steps have in common: a request comes to something,    *)
(* and says so or goes on.                                                 *)

Goes(r, at, a, x) ==
  /\ r \in Request /\ a \in Sender /\ x \in RuleRef /\ at \in {"upstream", "held", "failed"} \cup Final
  /\ request' = [request EXCEPT ![r] = [at |-> at, agent |-> a, rule |-> x]]
  /\ \/ request[r].at = "new" /\ x \in loaded \cup {None} /\ (at = "held" => x = None)
     \/ request[r].at \in {"upstream", "held"} /\ at # "held"
        /\ a = request[r].agent /\ x = request[r].rule

Says(r, at, a, x) ==
  \/ toServer' = toServer /\ at \in {"upstream", "failed"}
  \/ \E m \in Report :
       /\ toServer' = Append(toServer, m)
       /\ m.request = r /\ m.agent = a /\ m.rule \in {x, None}
       /\ IF m.type = "approval.needed" THEN at = "held"
                                        ELSE m.type \in {"request.logged", "request.blocked"} /\ at = DecisionOf(m.type)

QueueStays == queue' = queue \/ \E r \in Request : queue[r] = "pending" /\ queue' = [queue EXCEPT ![r] = "resolved"]
TablesStay == UNCHANGED <<ruleRow, agentRow, toProxy, loaded, registered, log, nextId, hits, counts, wiped, changes>>

RequestStep(r, at, a, x) ==
  Goes(r, at, a, x) /\ Says(r, at, a, x) /\ QueueStays /\ TablesStay /\ UNCHANGED <<tunnels, defaultBehavior>>
OtherStep ==
  /\ UNCHANGED <<request, toServer, defaultBehavior>> /\ QueueStays /\ TablesStay
  /\ tunnels' \in SUBSET Agent

LEMMA SendIs ==
  ASSUME NEW r \in Request, NEW a \in Sender, NEW x \in RuleRef,
         NEW type \in {"request.logged", "request.blocked", "approval.needed"}, Send(type, r, a, x)
  PROVE  \E m \in Report : /\ toServer' = Append(toServer, m)
                           /\ m.type = type /\ m.request = r /\ m.agent = a /\ m.rule = x
  <1> DEFINE m == [type |-> type, request |-> r, agent |-> a, rule |-> x]
  <1>1. m \in Report /\ toServer' = Append(toServer, m)
    BY DEF Send, Report
  <1> QED
    BY <1>1

LEMMA EvaluateIs ==
  ASSUME TypeOK, NEW r \in Request, NEW a \in Sender, NEW mode \in {"proxy", "transparent"},
         \/ DeniedByDefault(r, a, mode) \/ HeldByDefault(r, a, mode)
         \/ \E x \in Rule : AllowedByRule(r, a, mode, x) \/ DeniedByRule(r, a, x) \/ TransparentDeny(r, a, x)
  PROVE  \E at, x : RequestStep(r, at, a, x)
  <1>1. None \in RuleRef /\ Rule \subseteq RuleRef
    BY DEF RuleRef
  <1>2. ASSUME DeniedByDefault(r, a, mode) PROVE RequestStep(r, "denied", a, None)
    <2>1. Send("request.blocked", r, a, None)
      BY <1>2 DEF DeniedByDefault
    <2>2. Says(r, "denied", a, None)
      BY <1>1, <2>1, SendIs, DecisionIs DEF Says
    <2> QED
      BY <1>1, <1>2, <2>2 DEF DeniedByDefault, Arrives, Becomes, RequestStep, Goes, Final, QueueStays, TablesStay,
                              adminVars, mirrorVars, tableVars
  <1>3. ASSUME HeldByDefault(r, a, mode) PROVE RequestStep(r, "held", a, None)
    <2>1. Send("approval.needed", r, a, None)
      BY <1>3 DEF HeldByDefault
    <2>2. Says(r, "held", a, None)
      BY <1>1, <2>1, SendIs DEF Says
    <2> QED
      BY <1>1, <1>3, <2>2 DEF HeldByDefault, Arrives, Becomes, RequestStep, Goes, Final, QueueStays, TablesStay,
                              adminVars, mirrorVars, tableVars
  <1>4. ASSUME NEW x \in Rule, AllowedByRule(r, a, mode, x) PROVE RequestStep(r, "upstream", a, x)
    BY <1>1, <1>4 DEF AllowedByRule, Arrives, Becomes, RequestStep, Goes, Says, Final, QueueStays, TablesStay,
                      adminVars, mirrorVars, tableVars
  <1>5. ASSUME NEW x \in Rule, DeniedByRule(r, a, x) PROVE RequestStep(r, "denied", a, x)
    <2>1. Send("request.blocked", r, a, x)
      BY <1>5 DEF DeniedByRule
    <2>2. Says(r, "denied", a, x)
      BY <1>1, <2>1, SendIs, DecisionIs DEF Says
    <2> QED
      BY <1>1, <1>5, <2>2 DEF DeniedByRule, Arrives, Becomes, RequestStep, Goes, Final, QueueStays, TablesStay,
                              adminVars, mirrorVars, tableVars
  <1>6. ASSUME NEW x \in Rule, TransparentDeny(r, a, x) PROVE RequestStep(r, "denied", a, x)
    <2>1. Send("request.blocked", r, a, None)
      BY <1>6 DEF TransparentDeny
    <2>2. Says(r, "denied", a, x)
      BY <1>1, <2>1, SendIs, DecisionIs DEF Says
    <2> QED
      BY <1>1, <1>6, <2>2 DEF TransparentDeny, Arrives, Becomes, RequestStep, Goes, Final, QueueStays, TablesStay,
                              adminVars, mirrorVars, tableVars
  <1> QED
    BY <1>2, <1>3, <1>4, <1>5, <1>6

(* The end of a hold, and of a round trip. *)
LEMMA EndsAre ==
  ASSUME TypeOK, RulesExist, NEW r \in Request,
         \/ HoldTimesOut(r) \/ Upstream(r)
         \/ request[r].at = "held" /\ \E approve \in BOOLEAN : Resolve(r, approve)
  PROVE  \E at : RequestStep(r, at, request[r].agent, request[r].rule)
  <1> DEFINE a == request[r].agent  x == request[r].rule
  <1>1. a \in Sender /\ x \in RuleRef /\ (request[r].at = "held" => x = None) /\ None \in RuleRef
    BY DEF TypeOK, RulesExist, RuleRef
  <1>2. ASSUME request[r].at = "held", HoldDenied(r) PROVE Goes(r, "denied", a, x) /\ Says(r, "denied", a, x)
    <2>1. Send("request.blocked", r, a, None)
      BY <1>2 DEF HoldDenied
    <2>2. Says(r, "denied", a, x)
      BY <1>1, <2>1, SendIs, DecisionIs DEF Says
    <2> QED
      BY <1>1, <1>2, <2>2 DEF HoldDenied, Becomes, Goes, Final
  <1>3. ASSUME request[r].at = "held", HoldApproved(r) PROVE Goes(r, "upstream", a, x) /\ Says(r, "upstream", a, x)
    BY <1>1, <1>3 DEF HoldApproved, Becomes, Goes, Says
  <1>4. CASE HoldTimesOut(r)
    BY <1>2, <1>4 DEF HoldTimesOut, RequestStep, QueueStays, TablesStay, adminVars, mirrorVars, tableVars
  <1>5. CASE UpstreamAnswers(r)
    <2>1. Send("request.logged", r, a, x)
      BY <1>5 DEF UpstreamAnswers
    <2>2. Says(r, "allowed", a, x)
      BY <1>1, <2>1, SendIs, DecisionIs DEF Says
    <2>3. Goes(r, "allowed", a, x)
      BY <1>1, <1>5 DEF UpstreamAnswers, Becomes, Goes, Final
    <2> QED
      BY <1>5, <2>2, <2>3 DEF UpstreamAnswers, RequestStep, QueueStays, TablesStay, adminVars, mirrorVars, tableVars
  <1>6. CASE UpstreamFails(r)
    <2>1. Goes(r, "failed", a, x) /\ Says(r, "failed", a, x)
      BY <1>1, <1>6 DEF UpstreamFails, Becomes, Goes, Says
    <2> QED
      BY <1>6, <2>1 DEF UpstreamFails, RequestStep, QueueStays, TablesStay, adminVars, mirrorVars, tableVars
  <1>7. ASSUME request[r].at = "held", NEW approve \in BOOLEAN, Resolve(r, approve)
        PROVE  \E at : RequestStep(r, at, a, x)
    <2>1. QueueStays /\ TablesStay /\ UNCHANGED <<tunnels, defaultBehavior>>
      BY <1>7 DEF Resolve, QueueStays, TablesStay, adminVars, mirrorVars
    <2>2. HoldApproved(r) \/ HoldDenied(r)
      BY <1>7 DEF Resolve
    <2> QED
      BY <1>2, <1>3, <1>7, <2>1, <2>2 DEF RequestStep
  <1> QED
    BY <1>4, <1>5, <1>6, <1>7 DEF Upstream

LEMMA StepsAre ==
  ASSUME TypeOK, RulesExist, [Next]_vars
  PROVE  \/ \E r, at, a, x : RequestStep(r, at, a, x)
         \/ OtherStep \/ Reload \/ OnMessage \/ Admin
  <1>1. CASE Evaluate
    BY <1>1, EvaluateIs DEF Evaluate
  <1>2. ASSUME NEW a \in Agent, OpenTunnel(a) \/ CloseTunnel(a) PROVE OtherStep
    BY <1>2 DEF OpenTunnel, CloseTunnel, OtherStep, QueueStays, TablesStay, adminVars, tableVars, TypeOK
  <1>3. ASSUME NEW r \in Request, NEW approve \in BOOLEAN, Resolve(r, approve), request[r].at # "held" PROVE OtherStep
    BY <1>3 DEF Resolve, OtherStep, QueueStays, TablesStay, adminVars, mirrorVars, TypeOK
  <1>4. CASE UNCHANGED vars
    BY <1>4 DEF vars, OtherStep, QueueStays, TablesStay, adminVars, mirrorVars, tableVars, TypeOK
  <1> QED
    BY <1>1, <1>2, <1>3, <1>4, EndsAre DEF Next

-----------------------------------------------------------------------------
(* Types. *)

Msg == [rules : SUBSET Rule] \cup [agents : SUBSET Agent]

LEMMA TypesInit == Init => TypeOK
  <1> SUFFICES ASSUME Init PROVE TypeOK
    OBVIOUS
  <1>1. toProxy \in Seq(Msg) /\ toServer \in Seq(Report)
    BY EmptySeq DEF Init
  <1>2. nextId \in Nat /\ DOMAIN log \subseteq 0 .. nextId - 1 /\ log \in [DOMAIN log -> Row]
    BY DEF Init
  <1> QED
    BY <1>1, <1>2, DefaultAssumption, BoundAssumption DEF Init, TypeOK, Msg, Live, Sender, RuleRef

(* Types once the tables of the server are known to be typed. *)
LEMMA InsertTypes ==
  ASSUME TypeOK, NEW row \in Row, Insert(row)
  PROVE  /\ nextId' \in Nat /\ DOMAIN log' \subseteq 0 .. nextId' - 1
         /\ log' \in [DOMAIN log' -> Row]
         /\ DOMAIN log' = DOMAIN log \cup {nextId} /\ nextId \notin DOMAIN log
         /\ log'[nextId] = row /\ \A i \in DOMAIN log : log'[i] = log[i] /\ i < nextId
  BY DEF Insert, TypeOK

LEMMA TypesStep == TypeOK /\ RulesExist /\ [Next]_vars => TypeOK'
  <1> SUFFICES ASSUME TypeOK, RulesExist, [Next]_vars PROVE TypeOK'
    OBVIOUS
  <1>0. /\ toProxy \in Seq(Msg) /\ toServer \in Seq(Report)
        /\ nextId \in Nat /\ DOMAIN log \subseteq 0 .. nextId - 1 /\ log \in [DOMAIN log -> Row]
    BY DEF TypeOK, Msg
  <1>1. QueueStays => queue' \in [Request -> {"none", "pending", "resolved"}]
    BY DEF QueueStays, TypeOK
  <1>2. ASSUME NEW r, NEW at, NEW a, NEW x, RequestStep(r, at, a, x) PROVE TypeOK'
    <2>1. toServer' \in Seq(Report)
      BY <1>0, <1>2, QueueFacts DEF RequestStep, Says
    <2>2. request' \in [Request -> [at : {"new", "upstream", "held", "failed"} \cup Final,
                                    agent : Sender, rule : RuleRef]]
      BY <1>2 DEF RequestStep, Goes, TypeOK
    <2> QED
      BY <1>1, <1>2, <2>1, <2>2 DEF RequestStep, TablesStay, TypeOK
  <1>3. CASE OtherStep
    BY <1>1, <1>3 DEF OtherStep, TablesStay, TypeOK
  <1>4. CASE Reload
    <2> DEFINE m == Head(toProxy)
    <2>1. m \in Msg /\ toProxy' \in Seq(Msg)
      BY <1>0, <1>4, QueueFacts DEF Reload
    <2>2. loaded' \subseteq Rule /\ registered' \subseteq Agent
      BY <1>4, <2>1 DEF Reload, TypeOK, Msg
    <2> QED
      BY <1>4, <2>1, <2>2 DEF Reload, TypeOK, Msg, adminVars, tableVars
  <1>5. CASE OnMessage
    <2> DEFINE m == Head(toServer)
    <2>1. m \in Report /\ toServer' \in Seq(Report)
      BY <1>0, <1>5, QueueFacts DEF OnMessage
    <2>2. [request |-> m.request, decision |-> DecisionOf(m.type), agent |-> m.agent, rule |-> m.rule] \in Row
      BY <2>1, DecisionIs DEF Report, Row, Final
    <2>3. /\ nextId' \in Nat /\ DOMAIN log' \subseteq 0 .. nextId' - 1
          /\ log' \in [DOMAIN log' -> Row]
      BY <1>0, <1>5, <2>2, InsertTypes DEF OnMessage
    <2>4. /\ queue' \in [Request -> {"none", "pending", "resolved"}]
          /\ hits' \in [Rule -> Nat] /\ counts' \in [Agent -> Nat]
      <3>1. CASE UNCHANGED <<queue, hits, counts>>
        BY <3>1 DEF TypeOK
      <3>2. CASE ~UNCHANGED <<queue, hits, counts>>
        <4>1. /\ queue' = IF m.type = "approval.needed" THEN [queue EXCEPT ![m.request] = "pending"] ELSE queue
              /\ hits' = [x \in Rule |-> IF x = m.rule THEN hits[x] + 1 ELSE hits[x]]
              /\ counts' = [a \in Agent |-> IF a = m.agent /\ a \in agentRow THEN counts[a] + 1 ELSE counts[a]]
          BY <1>5, <3>2 DEF OnMessage
        <4>2. m.request \in Request
          BY <2>1 DEF Report
        <4> HIDE DEF m
        <4>3. queue' \in [Request -> {"none", "pending", "resolved"}]
          BY <4>1, <4>2 DEF TypeOK
        <4>4. hits' \in [Rule -> Nat]
          BY <4>1 DEF TypeOK
        <4>5. counts' \in [Agent -> Nat]
          BY <4>1 DEF TypeOK
        <4> QED
          BY <4>3, <4>4, <4>5
      <3> QED
        BY <3>1, <3>2
    <2> QED
      BY <1>5, <2>1, <2>3, <2>4 DEF OnMessage, TypeOK, adminVars, mirrorVars
  <1>6. ASSUME NEW x \in Rule, CreateRule(x) PROVE TypeOK'
    <2>1. [rules |-> Live(ruleRow')] \in Msg
      BY DEF Msg, Live
    <2>2. toProxy' \in Seq(Msg)
      BY <1>0, <1>6, <2>1, QueueFacts DEF CreateRule
    <2>3. ruleRow' \in [Rule -> {"new", "live", "gone"}] /\ changes' \in 0 .. MaxChanges
      BY <1>6, BoundAssumption DEF CreateRule, Change, TypeOK
    <2> QED
      BY <1>6, <2>2, <2>3 DEF CreateRule, TypeOK, Msg, tableVars
  <1>7. ASSUME NEW x \in Rule, DeleteRule(x) PROVE TypeOK'
    <2>1. [rules |-> Live(ruleRow')] \in Msg
      BY DEF Msg, Live
    <2>2. toProxy' \in Seq(Msg)
      BY <1>0, <1>7, <2>1, QueueFacts DEF DeleteRule
    <2>3. log' \in [DOMAIN log' -> Row] /\ DOMAIN log' = DOMAIN log
      <3>1. \A row \in Row : [row EXCEPT !.rule = None] \in Row
        BY DEF Row, RuleRef
      <3> QED
        BY <1>0, <1>7, <3>1 DEF DeleteRule
    <2>4. ruleRow' \in [Rule -> {"new", "live", "gone"}] /\ changes' \in 0 .. MaxChanges
      BY <1>7, BoundAssumption DEF DeleteRule, Change, TypeOK
    <2> QED
      BY <1>7, <2>2, <2>3, <2>4 DEF DeleteRule, TypeOK, Msg
  <1>8. ASSUME NEW a \in Agent, CreateAgent(a) PROVE TypeOK'
    <2>1. [agents |-> agentRow'] \in Msg
      BY <1>8 DEF CreateAgent, Msg, TypeOK
    <2>2. toProxy' \in Seq(Msg)
      BY <1>0, <1>8, <2>1, QueueFacts DEF CreateAgent
    <2>3. agentRow' \subseteq Agent /\ counts' \in [Agent -> Nat] /\ changes' \in 0 .. MaxChanges
      BY <1>8, BoundAssumption DEF CreateAgent, Change, TypeOK
    <2> QED
      BY <1>8, <2>2, <2>3 DEF CreateAgent, TypeOK, Msg
  <1>9. ASSUME NEW a \in Agent, DeleteAgent(a) PROVE TypeOK'
    <2>1. [agents |-> agentRow'] \in Msg
      BY <1>9 DEF DeleteAgent, Msg, TypeOK
    <2>2. toProxy' \in Seq(Msg)
      BY <1>0, <1>9, <2>1, QueueFacts DEF DeleteAgent
    <2>3. log' \in [DOMAIN log' -> Row] /\ DOMAIN log' \subseteq DOMAIN log
      BY <1>0, <1>9 DEF DeleteAgent, Restrict
    <2>4. wiped' \subseteq Request /\ queue' \in [Request -> {"none", "pending", "resolved"}]
      BY <1>0, <1>9 DEF DeleteAgent, TypeOK, Row
    <2>5. agentRow' \subseteq Agent /\ changes' \in 0 .. MaxChanges
      BY <1>9, BoundAssumption DEF DeleteAgent, Change, TypeOK
    <2> QED
      BY <1>9, <2>2, <2>3, <2>4, <2>5 DEF DeleteAgent, TypeOK, Msg
  <1> QED
    BY <1>2, <1>3, <1>4, <1>5, <1>6, <1>7, <1>8, <1>9, StepsAre DEF Admin

-----------------------------------------------------------------------------
(* A step of the proxy: what is on its way and in the tables stays true.   *)

LEMMA LogTyped ==
  ASSUME TypeOK
  PROVE  /\ \A i \in DOMAIN log : log[i] \in Row /\ log[i].request \in Request /\ i \in Nat /\ i < nextId
         /\ toServer \in Seq(Report) /\ Len(toServer) \in Nat
         /\ \A k \in 1 .. Len(toServer) : toServer[k] \in Report /\ toServer[k].request \in Request
         /\ DOMAIN toServer = 1 .. Len(toServer)
         /\ wiped \subseteq Request
  <1>1. \A i \in DOMAIN log : log[i] \in Row /\ i \in Nat /\ i < nextId
    BY DEF TypeOK
  <1>2. toServer \in Seq(Report) /\ Len(toServer) \in Nat /\ DOMAIN toServer = 1 .. Len(toServer)
        /\ \A k \in 1 .. Len(toServer) : toServer[k] \in Report
    BY LenProperties, ElementOfSeq DEF TypeOK
  <1> QED
    BY <1>1, <1>2 DEF Row, Report, TypeOK

(* What was said of a request that is still to come to something. *)
LEMMA StillOpen ==
  ASSUME LogInv, NEW r \in Request, request[r].at \in {"new", "upstream", "held"}
  PROVE  /\ NoFinalRows(r)
         /\ \A k \in 1 .. Len(toServer) : toServer[k].request = r =>
              toServer[k].type = "approval.needed" /\ request[r].at # "new" /\ request[r].rule = None
         /\ request[r].at = "new" \/ request[r].rule # None => NoRows(r) /\ r \notin wiped
  <1>1. NoFinalRows(r)
    <2> SUFFICES ASSUME NEW i \in DOMAIN log, log[i].request = r, log[i].decision # "held" PROVE FALSE
      BY DEF NoFinalRows
    <2>1. log[i].decision \in Final /\ RowIsTrue(log[i])
      BY LogTyped DEF LogInv, RowsAreTrue, TrueRow, Row
    <2> QED
      BY <2>1 DEF RowIsTrue, Final
  <1>2. ASSUME NEW k \in 1 .. Len(toServer), toServer[k].request = r
        PROVE  toServer[k].type = "approval.needed" /\ request[r].at # "new" /\ request[r].rule = None
    <2>1. ReportIsTrue(toServer[k]) /\ toServer[k].type \in {"request.logged", "request.blocked", "approval.needed"}
      BY LogTyped DEF LogInv, Reports, TrueReport, Report
    <2> QED
      BY <1>2, <2>1, DecisionIs DEF ReportIsTrue
  <1>3. ASSUME request[r].at = "new" \/ request[r].rule # None PROVE NoRows(r) /\ r \notin wiped
    <2>1. NoRows(r)
      BY <1>1, <1>3 DEF LogInv, RowsAreTrue, TrueRow, RowIsTrue, NoFinalRows, NoRows
    <2>2. r \notin wiped
      BY <1>3 DEF LogInv, WipedAreTold, Final
    <2> QED
      BY <2>1, <2>2
  <1> QED
    BY <1>1, <1>2, <1>3

LEMMA RequestStepKeeps ==
  ASSUME LogInv, TypeOK', NEW r, NEW at, NEW a, NEW x, RequestStep(r, at, a, x)
  PROVE  LogInv'
  <1>1. /\ r \in Request /\ request'[r] = [at |-> at, agent |-> a, rule |-> x]
        /\ \A q \in Request : q # r => request'[q] = request[q]
        /\ request[r].at \in {"new", "upstream", "held"} /\ at \in {"upstream", "held", "failed"} \cup Final
        /\ \/ request[r].at = "new" /\ x \in loaded \cup {None} /\ (at = "held" => x = None)
           \/ request[r].at \in {"upstream", "held"} /\ at # "held" /\ a = request[r].agent /\ x = request[r].rule
    BY DEF RequestStep, Goes, LogInv, TypeOK
  <1>2. /\ UNCHANGED <<ruleRow, loaded, toProxy, log, hits, wiped>>
        /\ \A q : NoRows(q)' = NoRows(q) /\ NoFinalRows(q)' = NoFinalRows(q)
    BY DEF RequestStep, TablesStay, NoRows, NoFinalRows
  <1>3. /\ NoFinalRows(r)
        /\ \A k \in 1 .. Len(toServer) : toServer[k].request = r =>
             toServer[k].type = "approval.needed" /\ request[r].at # "new" /\ request[r].rule = None
        /\ request[r].at = "new" \/ request[r].rule # None => NoRows(r) /\ r \notin wiped
    BY <1>1, StillOpen
  <1>4. RulesExist'
    BY <1>1, <1>2 DEF LogInv, RulesExist
  <1>5. Reports'
    <2>1. ASSUME NEW m \in TrueReport,
                 m.request = r => m.type = "approval.needed" /\ request[r].at # "new" /\ request[r].rule = None
          PROVE  m \in TrueReport'
      <3>1. m \in Report /\ ReportIsTrue(m) /\ m.request \in Request
        BY DEF TrueReport, Report
      <3>2. CASE m.request # r
        BY <1>1, <1>2, <3>1, <3>2 DEF ReportIsTrue, TrueReport
      <3>3. CASE m.request = r
        <4>1. a = request[r].agent /\ x = request[r].rule /\ at # "new"
          BY <1>1, <2>1, <3>3 DEF Final
        <4>2. request'[r].agent = a /\ request'[r].rule = x /\ request'[r].at = at
          BY <1>1
        <4> QED
          BY <1>2, <2>1, <3>1, <3>3, <4>1, <4>2 DEF ReportIsTrue, TrueReport
      <3> QED
        BY <3>2, <3>3
    <2>2. ASSUME NEW m \in Report, toServer' = Append(toServer, m), m.request = r, m.agent = a, m.rule \in {x, None},
                 IF m.type = "approval.needed" THEN at = "held"
                 ELSE m.type \in {"request.logged", "request.blocked"} /\ at = DecisionOf(m.type)
          PROVE  m \in TrueReport'
      <3>1. request'[r].agent = a /\ request'[r].rule = x /\ request'[r].at = at
        BY <1>1
      <3>2. x # None => NoRows(r) /\ r \notin wiped
        BY <1>1, <1>3
      <3>3. m.type = "approval.needed" => at = "held" /\ x = None /\ NoRows(r) /\ r \notin wiped
        BY <1>1, <1>3, <2>2
      <3> QED
        BY <1>2, <1>3, <2>2, <3>1, <3>2, <3>3 DEF ReportIsTrue, TrueReport, DecisionOf
    <2>3. \A j, k \in 1 .. Len(toServer) : j < k /\ toServer[j].request = toServer[k].request =>
            toServer[j].type = "approval.needed" /\ toServer[k].type # "approval.needed"
      BY DEF LogInv, Reports
    <2>6. \A k \in 1 .. Len(toServer) : toServer[k] \in TrueReport'
      BY <1>3, <2>1 DEF LogInv, Reports
    <2>4. CASE toServer' = toServer
      BY <2>3, <2>4, <2>6 DEF Reports
    <2>5. ASSUME NEW m \in Report, toServer' = Append(toServer, m), m.request = r, m.agent = a, m.rule \in {x, None},
                 IF m.type = "approval.needed" THEN at = "held"
                 ELSE m.type \in {"request.logged", "request.blocked"} /\ at = DecisionOf(m.type)
          PROVE  Reports'
      <3>1. /\ Len(toServer') = Len(toServer) + 1 /\ Len(toServer) \in Nat
            /\ \A k \in 1 .. Len(toServer) : toServer'[k] = toServer[k]
            /\ toServer'[Len(toServer) + 1] = m
        BY <2>5, LogTyped, QueueFacts DEF LogInv
      <3>2. m \in TrueReport'
        BY <2>2, <2>5
      <3>3. m.type = "approval.needed" => request[r].at = "new"
        BY <1>1, <2>5
      <3>4. \A k \in 1 .. Len(toServer') : toServer'[k] \in TrueReport'
        BY <2>6, <3>1, <3>2
      <3>5. \A k \in 1 .. Len(toServer) : toServer[k].request = m.request =>
              toServer[k].type = "approval.needed" /\ m.type # "approval.needed"
        BY <1>3, <2>5, <3>3
      <3> QED
        BY <2>3, <3>1, <3>4, <3>5 DEF Reports
    <2> QED
      BY <2>4, <2>5 DEF RequestStep, Says
  <1>6. RowsAreTrue'
    <2>1. ASSUME NEW i \in DOMAIN log PROVE log[i] \in TrueRow'
      <3>1. log[i] \in Row /\ RowIsTrue(log[i]) /\ log[i].request \in Request
        BY LogTyped DEF LogInv, RowsAreTrue, TrueRow
      <3>2. CASE log[i].request # r
        BY <1>1, <1>2, <3>1, <3>2 DEF RowIsTrue, TrueRow
      <3>3. CASE log[i].request = r
        <4>1. log[i].decision = "held" /\ request[r].at # "new" /\ request[r].rule = None
          BY <1>3, <3>1, <3>3 DEF RowIsTrue, NoRows, NoFinalRows
        <4>2. a = request[r].agent /\ x = request[r].rule /\ at # "new"
          BY <1>1, <4>1 DEF Final
        <4>3. request'[r].agent = a /\ request'[r].rule = x /\ request'[r].at = at
          BY <1>1
        <4> QED
          BY <1>2, <3>1, <3>3, <4>1, <4>2, <4>3 DEF RowIsTrue, TrueRow
      <3> QED
        BY <3>2, <3>3
    <2> QED
      BY <1>2, <2>1 DEF LogInv, RowsAreTrue
  <1>7. WipedAreTold'
    <2>1. \A q \in wiped : q \in Request /\ request[q].at # "new" /\ (request[q].rule # None => request[q].at \in Final)
      BY LogTyped DEF LogInv, WipedAreTold
    <2>2. r \in wiped => request'[r].at # "new" /\ request'[r].rule = None
      BY <1>1, <1>3, <2>1 DEF Final
    <2> QED
      BY <1>1, <1>2, <2>1, <2>2 DEF WipedAreTold
  <1>8. QueueHasRows'
    BY <1>2 DEF RequestStep, QueueStays, LogInv, QueueHasRows, TypeOK
  <1>9. HitsAreRows'
    <2>1. \A y \in Rule : Named(y)' = Named(y)
      BY <1>2 DEF Named
    <2>2. \A y \in Rule : WipedOf(y)' = WipedOf(y)
      BY <1>1, <1>2, <1>3, LogTyped DEF WipedOf, LogInv
    <2> QED
      BY <1>2, <2>1, <2>2 DEF LogInv, HitsAreRows
  <1>10. NothingGoesUnlogged'
    <2>1. \A q : FinalRows(q)' = FinalRows(q)
      BY <1>2 DEF FinalRows, Rows
    <2>2. ASSUME NEW q \in Request, Reported(q) PROVE Reported(q)'
      <3>1. PICK k \in 1 .. Len(toServer) : toServer[k].request = q /\ toServer[k].type # "approval.needed"
        BY <2>2, LogTyped DEF Reported, LogInv
      <3>2. k \in DOMAIN toServer' /\ toServer'[k] = toServer[k]
        BY <3>1, LogTyped, QueueFacts, LenProperties DEF RequestStep, Says, LogInv
      <3> QED
        BY <3>1, <3>2 DEF Reported
    <2>3. at \in Final => Reported(r)'
      <3> SUFFICES ASSUME at \in Final PROVE Reported(r)'
        OBVIOUS
      <3>1. PICK m \in Report : /\ toServer' = Append(toServer, m) /\ m.request = r
                               /\ m.type # "approval.needed"
        BY DEF RequestStep, Says, Final
      <3>2. Len(toServer) + 1 \in DOMAIN toServer' /\ toServer'[Len(toServer) + 1] = m
        BY <3>1, LogTyped, QueueFacts, LenProperties DEF LogInv
      <3> QED
        BY <3>1, <3>2 DEF Reported
    <2>4. \A q \in Request : q # r /\ Excused(q) => Excused(q)'
      BY <1>1, <1>2 DEF Excused
    <2> QED
      BY <1>1, <2>1, <2>2, <2>3, <2>4 DEF LogInv, NothingGoesUnlogged
  <1> QED
    BY <1>4, <1>5, <1>6, <1>7, <1>8, <1>9, <1>10 DEF LogInv

-----------------------------------------------------------------------------
(* A tunnel opened or closed, an approval resolved after its hold has      *)
(* ended, a reload taken up: the log and what is on its way stay.          *)

LEMMA SameLog ==
  ASSUME LogInv, UNCHANGED <<ruleRow, request, log, wiped, hits>>
  PROVE  /\ TrueReport' = TrueReport
         /\ RowsAreTrue' /\ WipedAreTold' /\ HitsAreRows'
         /\ queue' = queue => QueueHasRows'
         /\ toServer' = toServer => Reports' /\ NothingGoesUnlogged'
  <1>1. TrueReport' = TrueReport /\ TrueRow' = TrueRow
    BY DEF TrueReport, ReportIsTrue, TrueRow, RowIsTrue, NoRows, NoFinalRows
  <1>2. RowsAreTrue' /\ WipedAreTold'
    BY <1>1 DEF LogInv, RowsAreTrue, WipedAreTold
  <1>3. HitsAreRows'
    BY DEF LogInv, HitsAreRows, Named, WipedOf
  <1>4. queue' = queue => QueueHasRows'
    BY DEF LogInv, QueueHasRows
  <1>5. toServer' = toServer => Reports'
    BY <1>1 DEF LogInv, Reports
  <1>6. toServer' = toServer => NothingGoesUnlogged'
    BY DEF LogInv, NothingGoesUnlogged, FinalRows, Rows, Reported, Excused
  <1> QED
    BY <1>1, <1>2, <1>3, <1>4, <1>5, <1>6

LEMMA OtherStepKeeps ==
  ASSUME LogInv, TypeOK', OtherStep
  PROVE  LogInv'
  <1>1. UNCHANGED <<ruleRow, request, log, wiped, hits, toServer, loaded, toProxy>> /\ QueueStays
    BY DEF OtherStep, TablesStay
  <1>2. RulesExist'
    BY <1>1 DEF LogInv, RulesExist
  <1>3. QueueHasRows'
    BY <1>1 DEF QueueStays, LogInv, QueueHasRows, TypeOK
  <1> QED
    BY <1>1, <1>2, <1>3, SameLog DEF LogInv

LEMMA ReloadKeeps ==
  ASSUME LogInv, TypeOK', Reload
  PROVE  LogInv'
  <1>1. UNCHANGED <<ruleRow, request, log, wiped, hits, toServer, queue>>
    BY DEF Reload, adminVars, tableVars
  <1>2. RulesExist'
    <2>1. /\ Len(toProxy) > 0 /\ Len(toProxy) \in Nat /\ Head(toProxy) = toProxy[1]
          /\ Len(toProxy') = Len(toProxy) - 1
          /\ \A k \in 1 .. Len(toProxy') : toProxy'[k] = toProxy[k + 1]
      BY QueueFacts DEF Reload, LogInv, TypeOK
    <2>2. \A k \in 1 .. Len(toProxy') : "rules" \in DOMAIN toProxy'[k] =>
            \A x \in toProxy'[k].rules : ruleRow[x] # "new"
      BY <2>1 DEF LogInv, RulesExist
    <2>3. \A x \in loaded' : ruleRow[x] # "new"
      BY <2>1 DEF Reload, LogInv, RulesExist
    <2> QED
      BY <1>1, <2>2, <2>3 DEF LogInv, RulesExist
  <1> QED
    BY <1>1, <1>2, SameLog DEF LogInv

-----------------------------------------------------------------------------
(* A report is read.                                                       *)

(* The first report, and those behind it. *)
LEMMA FirstReport ==
  ASSUME LogInv, toServer # << >>, toServer' = Tail(toServer)
  PROVE  /\ Head(toServer) \in TrueReport /\ Head(toServer) \in Report
         /\ Len(toServer') \in Nat /\ DOMAIN toServer' = 1 .. Len(toServer')
         /\ \A k \in 1 .. Len(toServer') :
              /\ toServer'[k] \in TrueReport
              /\ toServer'[k].request = Head(toServer).request =>
                   Head(toServer).type = "approval.needed" /\ toServer'[k].type # "approval.needed"
         /\ \A j, k \in 1 .. Len(toServer') : j < k /\ toServer'[j].request = toServer'[k].request =>
              toServer'[j].type = "approval.needed" /\ toServer'[k].type # "approval.needed"
         /\ \A q : Reported(q) => Reported(q)' \/ (Head(toServer).request = q /\ Head(toServer).type # "approval.needed")
  <1>1. /\ Len(toServer) \in Nat /\ Len(toServer) > 0 /\ Head(toServer) = toServer[1]
        /\ toServer' \in Seq(Report) /\ Len(toServer') = Len(toServer) - 1
        /\ \A k \in 1 .. Len(toServer') : toServer'[k] = toServer[k + 1]
    BY LogTyped, QueueFacts DEF LogInv
  <1>2. DOMAIN toServer = 1 .. Len(toServer) /\ DOMAIN toServer' = 1 .. Len(toServer')
    BY <1>1, LogTyped, LenProperties DEF LogInv
  <1>3. /\ \A k \in 1 .. Len(toServer) : toServer[k] \in TrueReport
        /\ \A j, k \in 1 .. Len(toServer) : j < k /\ toServer[j].request = toServer[k].request =>
             toServer[j].type = "approval.needed" /\ toServer[k].type # "approval.needed"
    BY DEF LogInv, Reports
  <1>4. Head(toServer) \in TrueReport /\ Head(toServer) \in Report
    BY <1>1, <1>3 DEF TrueReport
  <1>5. \A k \in 1 .. Len(toServer') :
              /\ toServer'[k] \in TrueReport
              /\ toServer'[k].request = Head(toServer).request =>
                   Head(toServer).type = "approval.needed" /\ toServer'[k].type # "approval.needed"
    BY <1>1, <1>3
  <1>6. \A j, k \in 1 .. Len(toServer') : j < k /\ toServer'[j].request = toServer'[k].request =>
              toServer'[j].type = "approval.needed" /\ toServer'[k].type # "approval.needed"
    BY <1>1, <1>3
  <1>7. ASSUME NEW q, Reported(q), ~Reported(q)'
        PROVE  Head(toServer).request = q /\ Head(toServer).type # "approval.needed"
    <2>1. PICK k \in 1 .. Len(toServer) : toServer[k].request = q /\ toServer[k].type # "approval.needed"
      BY <1>2, <1>7 DEF Reported
    <2>2. k = 1
      <3> SUFFICES ASSUME k > 1 PROVE FALSE
        BY <1>1
      <3>1. k - 1 \in DOMAIN toServer' /\ toServer'[k - 1] = toServer[k]
        BY <1>1, <1>2
      <3> QED
        BY <1>7, <2>1, <3>1 DEF Reported
    <2> QED
      BY <1>1, <2>1, <2>2
  <1> QED
    BY <1>1, <1>2, <1>4, <1>5, <1>6, <1>7

LEMMA RefusedKeeps ==
  ASSUME LogInv, TypeOK', OnMessage,
         Head(toServer).rule # None, ruleRow[Head(toServer).rule] # "live"
  PROVE  LogInv'
  <1>1. UNCHANGED <<ruleRow, request, log, wiped, hits, queue, loaded, toProxy>> /\ toServer # << >> /\ toServer' = Tail(toServer)
    BY DEF OnMessage, adminVars, mirrorVars
  <1>2. RulesExist'
    BY <1>1 DEF LogInv, RulesExist
  <1>3. Reports'
    BY <1>1, FirstReport, SameLog DEF Reports
  <1>4. NothingGoesUnlogged'
    <2> DEFINE m == Head(toServer)
    <2>1. m.request \in Request /\ m.rule \in Rule /\ m.rule = request[m.request].rule
      BY <1>1, FirstReport DEF TrueReport, ReportIsTrue, Report, RuleRef
    <2>2. ruleRow[m.rule] = "gone"
      BY <2>1 DEF LogInv, TypeOK, RulesExist
    <2>3. PICK r \in Request : r = m.request
      BY <2>1
    <2>4. Excused(r)'
      BY <1>1, <2>1, <2>2, <2>3 DEF Excused
    <2>5. \A q : FinalRows(q)' = FinalRows(q)
      BY <1>1 DEF FinalRows, Rows
    <2>6. \A q : Excused(q) => Excused(q)'
      BY <1>1 DEF Excused
    <2>7. \A q : Reported(q) => Reported(q)' \/ q = r
      BY <1>1, <2>3, FirstReport
    <2> QED
      BY <1>1, <2>4, <2>5, <2>6, <2>7 DEF LogInv, NothingGoesUnlogged
  <1> QED
    BY <1>1, <1>2, <1>3, <1>4, SameLog DEF LogInv

(* The row of a report, at a new id behind all the others. *)
LEMMA StoredKeeps ==
  ASSUME LogInv, TypeOK', OnMessage, NEW m, m = Head(toServer),
         m.rule = None \/ ruleRow[m.rule] = "live"
  PROVE  LogInv'
  <1> DEFINE row == [request |-> m.request, decision |-> DecisionOf(m.type), agent |-> m.agent, rule |-> m.rule]
  <1>1. /\ UNCHANGED <<ruleRow, request, wiped, loaded, toProxy>>
        /\ toServer # << >> /\ toServer' = Tail(toServer)
        /\ Insert(row)
        /\ queue' = IF m.type = "approval.needed" THEN [queue EXCEPT ![m.request] = "pending"] ELSE queue
        /\ hits' = [x \in Rule |-> IF x = m.rule THEN hits[x] + 1 ELSE hits[x]]
    BY DEF OnMessage, adminVars, mirrorVars
  <1>2. m \in Report /\ m \in TrueReport /\ m.request \in Request /\ ReportIsTrue(m)
        /\ m.type \in {"request.logged", "request.blocked", "approval.needed"}
    BY <1>1, FirstReport DEF TrueReport, Report
  <1>3. PICK r \in Request : r = m.request
    BY <1>2
  <1>4. /\ row \in Row /\ row.request = r /\ row.agent = m.agent /\ row.rule = m.rule
        /\ IF m.type = "approval.needed" THEN row.decision = "held"
                                         ELSE row.decision = DecisionOf(m.type) /\ row.decision \in Final
    BY <1>2, <1>3, DecisionIs DEF Report, Row, Final
  <1>5. PICK new \in Row : new = row
    BY <1>4
  <1> HIDE DEF row
  <1>6. /\ DOMAIN log' = DOMAIN log \cup {nextId} /\ nextId \notin DOMAIN log /\ log'[nextId] = new
        /\ \A i \in DOMAIN log : log'[i] = log[i] /\ i < nextId
    BY <1>1, <1>5, InsertTypes DEF LogInv
  <1>7. /\ \A q : q # r => NoRows(q)' = NoRows(q) /\ NoFinalRows(q)' = NoFinalRows(q)
        /\ new.decision = "held" /\ NoFinalRows(r) => NoFinalRows(r)'
    <2>1. ASSUME NEW q, q # r PROVE NoRows(q)' = NoRows(q)
      BY <1>4, <1>5, <1>6, <2>1 DEF NoRows
    <2>2. ASSUME NEW q, q # r PROVE NoFinalRows(q)' = NoFinalRows(q)
      BY <1>4, <1>5, <1>6, <2>2 DEF NoFinalRows
    <2>3. new.decision = "held" /\ NoFinalRows(r) => NoFinalRows(r)'
      BY <1>4, <1>5, <1>6 DEF NoFinalRows
    <2> QED
      BY <2>1, <2>2, <2>3
  <1>8. RulesExist'
    BY <1>1 DEF LogInv, RulesExist
  <1>9. Reports'
    <2>1. ASSUME NEW n \in TrueReport, n.request = r => m.type = "approval.needed" /\ n.type # "approval.needed"
          PROVE  n \in TrueReport'
      <3>1. n \in Report /\ ReportIsTrue(n) /\ n.request \in Request
        BY DEF TrueReport, Report
      <3>2. CASE n.request # r
        BY <1>1, <1>7, <3>1, <3>2 DEF ReportIsTrue, TrueReport
      <3>3. CASE n.request = r
        <4>1. new.decision = "held" /\ request[r].rule = None
          BY <1>2, <1>3, <1>4, <1>5, <2>1, <3>3 DEF ReportIsTrue
        <4> QED
          BY <1>1, <1>7, <2>1, <3>1, <3>3, <4>1 DEF ReportIsTrue, TrueReport
      <3> QED
        BY <3>2, <3>3
    <2>2. \A k \in 1 .. Len(toServer') : toServer'[k] \in TrueReport'
      BY <1>1, <1>3, <2>1, FirstReport
    <2> QED
      BY <1>1, <2>2, FirstReport DEF Reports
  <1>10. RowsAreTrue'
    <2>1. new \in TrueRow'
      <3>1. RowIsTrue(new)'
        BY <1>1, <1>2, <1>3, <1>4, <1>5, DecisionIs DEF ReportIsTrue, RowIsTrue, Final
      <3> QED
        BY <3>1 DEF TrueRow
    <2>2. TrueRow' = TrueRow
      BY <1>1 DEF TrueRow, RowIsTrue
    <2>3. \A i \in DOMAIN log' : log'[i] \in TrueRow'
      BY <1>6, <2>1, <2>2 DEF LogInv, RowsAreTrue
    <2>4. ASSUME NEW i \in DOMAIN log, log[i].request = r
          PROVE  log[i].decision = "held" /\ new.decision \in Final
      BY <1>2, <1>3, <1>4, <1>5, <2>4 DEF ReportIsTrue, NoRows, NoFinalRows
    <2>5. \A i, j \in DOMAIN log' : i < j /\ log'[i].request = log'[j].request =>
            log'[i].decision = "held" /\ log'[j].decision \in Final
      <3> SUFFICES ASSUME NEW i \in DOMAIN log', NEW j \in DOMAIN log', i < j, log'[i].request = log'[j].request
                   PROVE  log'[i].decision = "held" /\ log'[j].decision \in Final
        OBVIOUS
      <3>1. i \in DOMAIN log
        <4>1. nextId \in Nat /\ \A k \in DOMAIN log : k \in Nat /\ k < nextId
          BY LogTyped DEF LogInv, TypeOK
        <4>2. i \in DOMAIN log \cup {nextId} /\ j \in DOMAIN log \cup {nextId}
          BY <1>6
        <4> QED
          BY <4>1, <4>2
      <3>2. CASE j \in DOMAIN log
        BY <1>6, <3>1, <3>2 DEF LogInv, RowsAreTrue
      <3>3. CASE j = nextId
        BY <1>4, <1>5, <1>6, <2>4, <3>1, <3>3
      <3> QED
        BY <1>6, <3>2, <3>3
    <2> QED
      BY <2>3, <2>5 DEF RowsAreTrue
  <1>11. WipedAreTold'
    BY <1>1 DEF LogInv, WipedAreTold
  <1>12. QueueHasRows'
    <2> SUFFICES ASSUME NEW q \in Request, queue'[q] # "none"
                 PROVE  \E i \in DOMAIN log' : log'[i].request = q /\ log'[i].decision = "held"
      BY DEF QueueHasRows
    <2>1. CASE q = r /\ m.type = "approval.needed"
      BY <1>4, <1>5, <1>6, <2>1
    <2>2. CASE ~(q = r /\ m.type = "approval.needed")
      <3>1. queue[q] # "none"
        BY <1>1, <1>3, <2>2 DEF LogInv, TypeOK
      <3>2. PICK i \in DOMAIN log : log[i].request = q /\ log[i].decision = "held"
        BY <3>1 DEF LogInv, QueueHasRows
      <3> QED
        BY <1>6, <3>2
    <2> QED
      BY <2>1, <2>2
  <1>13. HitsAreRows'
    <2> SUFFICES ASSUME NEW x \in Rule
                 PROVE  /\ IsFiniteSet(Named(x)')
                        /\ ruleRow[x] # "gone" => /\ hits'[x] >= Cardinality(Named(x)')
                                                  /\ hits'[x] <= Cardinality(Named(x)' \cup WipedOf(x)')
      BY <1>1 DEF LogInv, HitsAreRows
    <2>1. /\ IsFiniteSet(Named(x)) /\ IsFiniteSet(wiped) /\ hits[x] \in Nat
          /\ ruleRow[x] # "gone" => /\ hits[x] >= Cardinality(Named(x))
                                    /\ hits[x] <= Cardinality(Named(x) \cup WipedOf(x))
      BY DEF LogInv, HitsAreRows, TypeOK
    <2>2. WipedOf(x)' = WipedOf(x) /\ WipedOf(x) \in SUBSET wiped
      BY <1>1 DEF WipedOf
    <2>3. CASE x # m.rule
      <3>1. Named(x)' = Named(x)
        BY <1>4, <1>5, <1>6, <2>3 DEF Named
      <3> QED
        BY <1>1, <2>1, <2>2, <2>3, <3>1
    <2>4. CASE x = m.rule
      <3>1. NoRows(r) /\ r \notin wiped
        BY <1>2, <1>3, <2>4, RuleAssumption DEF ReportIsTrue
      <3>2. Named(x)' = Named(x) \cup {r} /\ r \notin Named(x) /\ r \notin WipedOf(x)
        BY <1>4, <1>5, <1>6, <2>4, <3>1 DEF Named, WipedOf, NoRows
      <3>3. IsFiniteSet(Named(x) \cup WipedOf(x))
        BY <2>1, <2>2, FS_Subset, FS_Union
      <3>4. /\ IsFiniteSet(Named(x) \cup {r}) /\ Cardinality(Named(x) \cup {r}) = Cardinality(Named(x)) + 1
            /\ Cardinality((Named(x) \cup WipedOf(x)) \cup {r}) = Cardinality(Named(x) \cup WipedOf(x)) + 1
            /\ Cardinality(Named(x)) \in Nat /\ Cardinality(Named(x) \cup WipedOf(x)) \in Nat
        BY <2>1, <3>2, <3>3, FS_AddElement, FS_CardinalityType
      <3>5. (Named(x) \cup {r}) \cup WipedOf(x) = (Named(x) \cup WipedOf(x)) \cup {r}
        OBVIOUS
      <3>6. hits'[x] = hits[x] + 1
        BY <1>1, <2>4
      <3>7. /\ Cardinality(Named(x)') = Cardinality(Named(x)) + 1
            /\ Cardinality(Named(x)' \cup WipedOf(x)') = Cardinality(Named(x) \cup WipedOf(x)) + 1
        BY <2>2, <3>2, <3>4, <3>5
      <3>8. IsFiniteSet(Named(x)')
        BY <3>2, <3>4
      <3> QED
        BY <2>1, <3>4, <3>6, <3>7, <3>8
    <2> QED
      BY <2>3, <2>4
  <1>14. NothingGoesUnlogged'
    <2>1. ASSUME NEW q \in Request, FinalRows(q) # {} PROVE FinalRows(q)' # {}
      BY <1>6, <2>1 DEF FinalRows, Rows
    <2>2. m.type # "approval.needed" => FinalRows(r)' # {}
      BY <1>4, <1>5, <1>6 DEF FinalRows, Rows
    <2>3. \A q : Reported(q) => Reported(q)' \/ (q = r /\ m.type # "approval.needed")
      BY <1>1, <1>3, FirstReport
    <2>4. \A q : Excused(q)' = Excused(q)
      BY <1>1 DEF Excused
    <2> QED
      BY <1>1, <2>1, <2>2, <2>3, <2>4 DEF LogInv, NothingGoesUnlogged
  <1> QED
    BY <1>8, <1>9, <1>10, <1>11, <1>12, <1>13, <1>14 DEF LogInv

-----------------------------------------------------------------------------
(* The operator's changes.                                                 *)

LEMMA PushKeepsRules ==
  ASSUME LogInv, NEW m \in Msg, toProxy' = Append(toProxy, m), UNCHANGED <<loaded, request>>,
         \A x \in Rule : ruleRow[x] # "new" => ruleRow'[x] # "new",
         "rules" \in DOMAIN m => \A x \in m.rules : x \in Rule /\ ruleRow'[x] # "new"
  PROVE  RulesExist'
  <1>1. /\ Len(toProxy) \in Nat /\ Len(toProxy') = Len(toProxy) + 1
        /\ \A k \in 1 .. Len(toProxy) : toProxy'[k] = toProxy[k] /\ toProxy[k] \in Msg
        /\ toProxy'[Len(toProxy) + 1] = m
    BY QueueFacts DEF LogInv, TypeOK, Msg
  <1>2. ASSUME NEW k \in 1 .. Len(toProxy), "rules" \in DOMAIN toProxy[k], NEW x \in toProxy[k].rules
        PROVE  ruleRow'[x] # "new"
    <2>1. ruleRow[x] # "new"
      BY <1>2 DEF LogInv, RulesExist
    <2>2. x \in Rule
      BY <1>1, <1>2 DEF Msg
    <2> QED
      BY <2>1, <2>2
  <1>3. \A k \in 1 .. Len(toProxy') : "rules" \in DOMAIN toProxy'[k] =>
          \A x \in toProxy'[k].rules : ruleRow'[x] # "new"
    BY <1>1, <1>2
  <1>4. \A x \in loaded' : ruleRow'[x] # "new"
    BY DEF LogInv, TypeOK, RulesExist
  <1>5. \A r \in Request : /\ request'[r].rule # None => ruleRow'[request'[r].rule] # "new"
                           /\ request'[r].at = "held" => request'[r].rule = None
    <2> SUFFICES ASSUME NEW r \in Request
                 PROVE  /\ request[r].rule # None => ruleRow'[request[r].rule] # "new"
                        /\ request[r].at = "held" => request[r].rule = None
      OBVIOUS
    <2>1. request[r].rule \in Rule \cup {None}
      BY DEF LogInv, TypeOK, RuleRef
    <2> QED
      BY <2>1 DEF LogInv, RulesExist
  <1> QED
    BY <1>3, <1>4, <1>5 DEF RulesExist

LEMMA CreateRuleKeeps ==
  ASSUME LogInv, TypeOK', NEW x \in Rule, CreateRule(x)
  PROVE  LogInv'
  <1>1. /\ UNCHANGED <<request, log, wiped, hits, toServer, queue, loaded>>
        /\ toProxy' = Append(toProxy, [rules |-> Live(ruleRow')])
        /\ ruleRow[x] = "new" /\ ruleRow'[x] = "live" /\ \A y \in Rule : y # x => ruleRow'[y] = ruleRow[y]
    BY DEF CreateRule, tableVars, LogInv, TypeOK
  <1>2. RulesExist'
    BY <1>1, PushKeepsRules DEF Live, Msg
  <1>3. Reports'
    <2>1. TrueReport' = TrueReport
      BY <1>1 DEF TrueReport, ReportIsTrue, NoRows, NoFinalRows
    <2> QED
      BY <1>1, <2>1 DEF LogInv, Reports
  <1>4. RowsAreTrue'
    <2>1. \A row \in TrueRow : row \in TrueRow'
      BY <1>1 DEF TrueRow, RowIsTrue, Row, RuleRef
    <2> QED
      BY <1>1, <2>1 DEF LogInv, RowsAreTrue
  <1>5. WipedAreTold' /\ QueueHasRows'
    BY <1>1 DEF LogInv, WipedAreTold, QueueHasRows
  <1>6. HitsAreRows'
    <2>1. \A y \in Rule : Named(y)' = Named(y) /\ WipedOf(y)' = WipedOf(y)
      BY <1>1 DEF Named, WipedOf
    <2> QED
      BY <1>1, <2>1 DEF LogInv, HitsAreRows
  <1>7. NothingGoesUnlogged'
    <2>1. \A q \in Request : Excused(q) => Excused(q)'
      BY <1>1 DEF Excused, LogInv, TypeOK, RuleRef
    <2>2. \A q : FinalRows(q)' = FinalRows(q) /\ Reported(q)' = Reported(q)
      BY <1>1 DEF FinalRows, Rows, Reported
    <2> QED
      BY <1>1, <2>1, <2>2 DEF LogInv, NothingGoesUnlogged
  <1> QED
    BY <1>2, <1>3, <1>4, <1>5, <1>6, <1>7 DEF LogInv

(* ON DELETE SET NULL takes the rule out of the rows; they stay true.      *)
LEMMA DeleteRuleKeeps ==
  ASSUME LogInv, TypeOK', NEW x \in Rule, DeleteRule(x)
  PROVE  LogInv'
  <1>1. /\ UNCHANGED <<request, wiped, hits, toServer, queue, loaded>>
        /\ toProxy' = Append(toProxy, [rules |-> Live(ruleRow')])
        /\ ruleRow'[x] = "gone" /\ \A y \in Rule : y # x => ruleRow'[y] = ruleRow[y]
    BY DEF DeleteRule, LogInv, TypeOK
  <1>2. /\ DOMAIN log' = DOMAIN log
        /\ \A i \in DOMAIN log : /\ log'[i] \in Row /\ log'[i].request = log[i].request
                                 /\ log'[i].decision = log[i].decision /\ log'[i].agent = log[i].agent
                                 /\ log'[i].rule = IF log[i].rule = x THEN None ELSE log[i].rule
    <2>1. \A row \in Row : LET cut == [row EXCEPT !.rule = None] IN
            /\ cut \in Row /\ cut.request = row.request /\ cut.decision = row.decision
            /\ cut.agent = row.agent /\ cut.rule = None
      BY DEF Row, RuleRef
    <2> QED
      BY <2>1, LogTyped DEF DeleteRule, LogInv
  <1>3. \A q : NoRows(q)' = NoRows(q) /\ NoFinalRows(q)' = NoFinalRows(q) /\ FinalRows(q)' = FinalRows(q)
    <2>1. ASSUME NEW q PROVE NoRows(q)' = NoRows(q)
      BY <1>2 DEF NoRows
    <2>2. ASSUME NEW q PROVE NoFinalRows(q)' = NoFinalRows(q)
      BY <1>2 DEF NoFinalRows
    <2>3. ASSUME NEW q PROVE FinalRows(q)' = FinalRows(q)
      BY <1>2 DEF FinalRows, Rows
    <2> QED
      BY <2>1, <2>2, <2>3
  <1>4. RulesExist'
    BY <1>1, PushKeepsRules DEF Live, Msg
  <1>5. Reports'
    <2>1. TrueReport' = TrueReport
      BY <1>1, <1>3 DEF TrueReport, ReportIsTrue
    <2> QED
      BY <1>1, <2>1 DEF LogInv, Reports
  <1>6. RowsAreTrue'
    <2>1. ASSUME NEW i \in DOMAIN log PROVE log'[i] \in TrueRow'
      <3>1. log[i] \in Row /\ RowIsTrue(log[i]) /\ log[i].rule \in Rule \cup {None}
        BY DEF LogInv, RowsAreTrue, TrueRow, Row, RuleRef
      <3> QED
        BY <1>1, <1>2, <3>1 DEF RowIsTrue, TrueRow
    <2> QED
      BY <1>2, <2>1 DEF LogInv, RowsAreTrue
  <1>7. WipedAreTold' /\ QueueHasRows'
    BY <1>1, <1>2 DEF LogInv, WipedAreTold, QueueHasRows
  <1>8. HitsAreRows'
    <2>1. ASSUME NEW y \in Rule PROVE Named(y)' \in SUBSET Named(y) /\ (y # x => Named(y)' = Named(y)) /\ WipedOf(y)' = WipedOf(y)
      BY <1>1, <1>2, RuleAssumption DEF Named, WipedOf
    <2>2. ASSUME NEW y \in Rule PROVE IsFiniteSet(Named(y)')
      BY <2>1, FS_Subset DEF LogInv, HitsAreRows
    <2> QED
      BY <1>1, <2>1, <2>2 DEF LogInv, HitsAreRows
  <1>9. NothingGoesUnlogged'
    <2>1. \A q \in Request : Excused(q) => Excused(q)'
      BY <1>1 DEF Excused, LogInv, TypeOK, RuleRef
    <2>2. \A q : Reported(q)' = Reported(q)
      BY <1>1 DEF Reported
    <2> QED
      BY <1>1, <1>3, <2>1, <2>2 DEF LogInv, NothingGoesUnlogged
  <1> QED
    BY <1>4, <1>5, <1>6, <1>7, <1>8, <1>9 DEF LogInv

LEMMA CreateAgentKeeps ==
  ASSUME LogInv, TypeOK', NEW a \in Agent, CreateAgent(a)
  PROVE  LogInv'
  <1>1. /\ UNCHANGED <<ruleRow, request, log, wiped, hits, toServer, queue, loaded>>
        /\ toProxy' = Append(toProxy, [agents |-> agentRow']) /\ [agents |-> agentRow'] \in Msg
    BY DEF CreateAgent, TypeOK, Msg
  <1>2. RulesExist'
    BY <1>1, PushKeepsRules
  <1> QED
    BY <1>1, <1>2, SameLog DEF LogInv

(* The requests of some of the rows are finitely many. *)
LEMMA FewRequests ==
  ASSUME TypeOK, NEW S \in SUBSET DOMAIN log
  PROVE  IsFiniteSet({log[i].request : i \in S})
  <1> DEFINE T == {log[i].request : i \in S}  f == [i \in S |-> log[i].request]
  <1>1. IsFiniteSet(0 .. nextId - 1) /\ S \in SUBSET (0 .. nextId - 1)
    <2>1. nextId - 1 \in Int /\ 0 \in Int /\ S \in SUBSET (0 .. nextId - 1)
      BY DEF TypeOK
    <2> QED
      BY <2>1, FS_Interval
  <1>2. IsFiniteSet(S)
    BY <1>1, FS_Subset
  <1>3. f \in Surjection(S, T)
    BY DEF Surjection
  <1> HIDE DEF f, T
  <1>4. IsFiniteSet(T)
    BY <1>2, <1>3, FS_Surjection
  <1> QED
    BY <1>4 DEF T

(* The rows of an agent go, and with them the approvals of its requests.   *)
LEMMA DeleteAgentKeeps ==
  ASSUME LogInv, TypeOK', NEW a \in Agent, DeleteAgent(a)
  PROVE  LogInv'
  <1> DEFINE taken == {log[i].request : i \in {j \in DOMAIN log : log[j].agent = a}}
  <1>1. /\ UNCHANGED <<ruleRow, request, hits, toServer, loaded>>
        /\ toProxy' = Append(toProxy, [agents |-> agentRow']) /\ [agents |-> agentRow'] \in Msg
        /\ queue' = [r \in Request |-> IF r \in taken THEN "none" ELSE queue[r]]
        /\ wiped' = wiped \cup taken
    BY DEF DeleteAgent, TypeOK, Msg
  <1>2. /\ DOMAIN log' = {i \in DOMAIN log : log[i].agent # a}
        /\ \A i \in DOMAIN log' : i \in DOMAIN log /\ log'[i] = log[i]
    BY DEF DeleteAgent, Restrict
  <1>3. /\ \A q : /\ NoRows(q) => NoRows(q)' /\ q \notin taken
                  /\ NoFinalRows(q) => NoFinalRows(q)'
        /\ \A i \in DOMAIN log : i \in DOMAIN log' \/ log[i].request \in taken
    BY <1>2 DEF NoRows, NoFinalRows
  <1>4. IsFiniteSet(taken)
    BY FewRequests DEF LogInv
  <1>5. \A q \in taken : q \in Request /\ \E i \in DOMAIN log : log[i].request = q /\ log[i].agent = a
    BY LogTyped DEF LogInv
  <1> HIDE DEF taken
  <1>6. RulesExist'
    BY <1>1, PushKeepsRules
  <1>7. Reports'
    <2>1. \A m \in TrueReport : m \in TrueReport'
      BY <1>1, <1>3 DEF TrueReport, ReportIsTrue
    <2> QED
      BY <1>1, <2>1 DEF LogInv, Reports
  <1>8. RowsAreTrue'
    <2>1. TrueRow' = TrueRow
      BY <1>1 DEF TrueRow, RowIsTrue
    <2> QED
      BY <1>2, <2>1 DEF LogInv, RowsAreTrue
  <1>9. WipedAreTold'
    <2>1. ASSUME NEW q \in taken
          PROVE  request[q].at # "new" /\ (request[q].rule # None => request[q].at \in Final)
      <3>1. PICK i \in DOMAIN log : log[i].request = q
        BY <1>5
      <3>2. RowIsTrue(log[i]) /\ log[i].decision \in Final \cup {"held"}
        BY <3>1 DEF LogInv, RowsAreTrue, TrueRow, Row
      <3> QED
        BY <3>1, <3>2 DEF RowIsTrue, Final
    <2> QED
      BY <1>1, <2>1 DEF LogInv, WipedAreTold
  <1>10. QueueHasRows'
    BY <1>1, <1>2, <1>3 DEF LogInv, QueueHasRows
  <1>11. HitsAreRows'
    <2>1. IsFiniteSet(wiped) /\ IsFiniteSet(wiped')
      BY <1>1, <1>4, FS_Union DEF LogInv, HitsAreRows
    <2>2. ASSUME NEW x \in Rule
          PROVE  /\ IsFiniteSet(Named(x)')
                 /\ ruleRow[x] # "gone" => /\ hits[x] >= Cardinality(Named(x)')
                                           /\ hits[x] <= Cardinality(Named(x)' \cup WipedOf(x)')
      <3>1. Named(x)' \in SUBSET Named(x)
        BY <1>2 DEF Named
      <3>2. WipedOf(x)' \in SUBSET wiped'
        BY DEF WipedOf
      <3>3. (Named(x) \cup WipedOf(x)) \in SUBSET (Named(x)' \cup WipedOf(x)')
        <4>1. ASSUME NEW q \in Named(x), q \notin Named(x)' PROVE q \in WipedOf(x)'
          <5>1. PICK i \in DOMAIN log : log[i].request = q /\ log[i].rule = x
            BY DEF Named
          <5>2. q \in taken
            BY <1>2, <1>3, <4>1, <5>1 DEF Named
          <5>3. request[q].rule = x
            BY <5>1, RuleAssumption DEF LogInv, RowsAreTrue, TrueRow, RowIsTrue
          <5> QED
            BY <1>1, <5>2, <5>3 DEF WipedOf
        <4>2. WipedOf(x) \subseteq WipedOf(x)'
          BY <1>1 DEF WipedOf
        <4> QED
          BY <4>1, <4>2
      <3>4. IsFiniteSet(Named(x)) /\ hits[x] \in Nat
        BY DEF LogInv, HitsAreRows, TypeOK
      <3>5. /\ IsFiniteSet(Named(x)') /\ Cardinality(Named(x)') <= Cardinality(Named(x))
            /\ Cardinality(Named(x)') \in Nat /\ Cardinality(Named(x)) \in Nat
        BY <3>1, <3>4, FS_Subset, FS_CardinalityType
      <3>6. IsFiniteSet(Named(x)' \cup WipedOf(x)')
        <4>1. IsFiniteSet(WipedOf(x)')
          BY <2>1, <3>2, FS_Subset
        <4> QED
          BY <3>5, <4>1, FS_Union
      <3>7. /\ Cardinality(Named(x) \cup WipedOf(x)) <= Cardinality(Named(x)' \cup WipedOf(x)')
            /\ Cardinality(Named(x) \cup WipedOf(x)) \in Nat
            /\ Cardinality(Named(x)' \cup WipedOf(x)') \in Nat
        BY <3>3, <3>6, FS_Subset, FS_CardinalityType
      <3>8. ruleRow[x] # "gone" => /\ hits[x] >= Cardinality(Named(x))
                                   /\ hits[x] <= Cardinality(Named(x) \cup WipedOf(x))
        BY DEF LogInv, HitsAreRows
      <3> QED
        BY <3>4, <3>5, <3>7, <3>8
    <2> QED
      BY <1>1, <2>1, <2>2 DEF HitsAreRows
  <1>12. NothingGoesUnlogged'
    <2>1. \A q : Reported(q)' = Reported(q)
      BY <1>1 DEF Reported
    <2>2. \A q : Excused(q) \/ q \in taken => Excused(q)'
      BY <1>1 DEF Excused
    <2>3. \A q : FinalRows(q) # {} => FinalRows(q)' # {} \/ q \in taken
      BY <1>2, <1>3 DEF FinalRows, Rows
    <2> QED
      BY <1>1, <2>1, <2>2, <2>3 DEF LogInv, NothingGoesUnlogged
  <1> QED
    BY <1>6, <1>7, <1>8, <1>9, <1>10, <1>11, <1>12 DEF LogInv

-----------------------------------------------------------------------------
(* The theorems.                                                           *)

LEMMA LogInvInit == Init => LogInv
  <1> SUFFICES ASSUME Init PROVE LogInv
    OBVIOUS
  <1>1. DOMAIN log = {} /\ Len(toProxy) = 0 /\ Len(toServer) = 0 /\ wiped = {}
        /\ request = [r \in Request |-> [at |-> "new", agent |-> Unknown, rule |-> None]]
    BY DEF Init
  <1>2. RulesExist
    BY <1>1 DEF Init, RulesExist, Live
  <1>3. Reports /\ RowsAreTrue /\ WipedAreTold
    BY <1>1 DEF Reports, RowsAreTrue, WipedAreTold
  <1>4. QueueHasRows
    BY DEF Init, QueueHasRows
  <1>5. HitsAreRows
    <2>1. \A x \in Rule : Named(x) = {} /\ WipedOf(x) = {} /\ hits[x] = 0
      BY <1>1 DEF Named, WipedOf, Init
    <2>2. IsFiniteSet({}) /\ Cardinality({}) = 0
      BY FS_EmptySet
    <2>3. ASSUME NEW x \in Rule
          PROVE  /\ IsFiniteSet(Named(x)) /\ Cardinality(Named(x)) = 0
                 /\ Cardinality(Named(x) \cup WipedOf(x)) = 0 /\ hits[x] = 0
      <3>1. Named(x) \cup WipedOf(x) = {}
        BY <2>1
      <3> QED
        BY <2>1, <2>2, <3>1
    <2>4. IsFiniteSet(wiped)
      BY <1>1, <2>2
    <2> QED
      BY <2>3, <2>4 DEF HitsAreRows
  <1>6. NothingGoesUnlogged
    BY <1>1 DEF NothingGoesUnlogged, Final
  <1> QED
    BY <1>2, <1>3, <1>4, <1>5, <1>6, TypesInit DEF LogInv

LEMMA LogInvStep == LogInv /\ [Next]_vars => LogInv'
  <1> SUFFICES ASSUME LogInv, [Next]_vars PROVE LogInv'
    OBVIOUS
  <1>1. TypeOK'
    BY TypesStep DEF LogInv
  <1>2. ASSUME NEW r, NEW at, NEW a, NEW x, RequestStep(r, at, a, x) PROVE LogInv'
    BY <1>1, <1>2, RequestStepKeeps
  <1>3. CASE OtherStep
    BY <1>1, <1>3, OtherStepKeeps
  <1>4. CASE Reload
    BY <1>1, <1>4, ReloadKeeps
  <1>5. CASE OnMessage
    <2>1. PICK m : m = Head(toServer)
      OBVIOUS
    <2>2. CASE m.rule = None \/ ruleRow[m.rule] = "live"
      BY <1>1, <1>5, <2>1, <2>2, StoredKeeps
    <2>3. CASE m.rule # None /\ ruleRow[m.rule] # "live"
      BY <1>1, <1>5, <2>1, <2>3, RefusedKeeps
    <2> QED
      BY <2>2, <2>3
  <1>6. CASE Admin
    BY <1>1, <1>6, CreateRuleKeeps, DeleteRuleKeeps, CreateAgentKeeps, DeleteAgentKeeps DEF Admin
  <1> QED
    BY <1>2, <1>3, <1>4, <1>5, <1>6, StepsAre DEF LogInv

LEMMA LogInvHolds == Safety => []LogInv
  <1> QED
    BY LogInvInit, LogInvStep, PTL DEF Safety

(* index.js onMessage, proxy.go and transparent.go: every row says what    *)
(* the proxy did with the request, for whom and by which rule, and no      *)
(* request is told twice but for a hold that is refused.                   *)
THEOREM TheLogIsTrue == Safety => []LogIsTrue
  <1>1. LogInv => LogIsTrue
    <2> SUFFICES ASSUME LogInv, NEW r \in Request
                 PROVE  /\ \A i, j \in FinalRows(r) : i = j
                        /\ \A i \in Rows(r) :
                             /\ log[i].agent = request[r].agent
                             /\ log[i].rule \in {request[r].rule, None}
                             /\ log[i].decision \in Final => log[i].decision = request[r].at
                             /\ log[i].decision = "held" =>
                                  request[r].at # "new" /\ \A j \in FinalRows(r) : i < j
      BY DEF LogIsTrue
    <2>1. \A i \in Rows(r) : i \in DOMAIN log /\ i \in Nat /\ log[i].request = r /\ RowIsTrue(log[i])
      BY LogTyped DEF LogInv, Rows, RowsAreTrue, TrueRow
    <2>2. \A i, j \in Rows(r) : i < j => log[i].decision = "held" /\ log[j].decision \in Final
      BY <2>1 DEF LogInv, RowsAreTrue
    <2>3. \A i \in FinalRows(r) : i \in Rows(r) /\ log[i].decision \in Final /\ log[i].decision # "held"
      BY DEF FinalRows, Final
    <2>4. \A i, j \in FinalRows(r) : i = j
      BY <2>1, <2>2, <2>3
    <2>5. ASSUME NEW i \in Rows(r), log[i].decision = "held", NEW j \in FinalRows(r) PROVE i < j
      BY <2>1, <2>2, <2>3, <2>5
    <2>6. ASSUME NEW i \in Rows(r)
          PROVE  /\ log[i].agent = request[r].agent
                 /\ log[i].rule \in {request[r].rule, None}
                 /\ log[i].decision \in Final => log[i].decision = request[r].at
                 /\ log[i].decision = "held" => request[r].at # "new"
      BY <2>1 DEF RowIsTrue, Final
    <2> QED
      BY <2>4, <2>5, <2>6
  <1> QED
    BY <1>1, LogInvHolds, PTL

(* connection.js, the foreign keys, and agents.js delete: the tables refer *)
(* to rows that are there, and the hits of a rule are the requests it      *)
(* decided.                                                                *)
THEOREM TheTablesAgree == Safety => []TablesAgree
  <1>1. LogInv => TablesAgree
    <2> SUFFICES ASSUME LogInv PROVE TablesAgree
      OBVIOUS
    <2>1. \A i \in DOMAIN log : log[i].rule # None => ruleRow[log[i].rule] = "live"
      BY DEF LogInv, RowsAreTrue, TrueRow, RowIsTrue
    <2>2. \A r \in Request : queue[r] # "none" => \E i \in Rows(r) : log[i].decision = "held"
      BY DEF LogInv, QueueHasRows, Rows
    <2>3. ASSUME NEW x \in Rule, ruleRow[x] = "live"
          PROVE  /\ {r \in Request : \E i \in FinalRows(r) : log[i].rule = x} = Named(x)
                 /\ {r \in wiped : request[r].rule = x} = WipedOf(x)
      <3>1. \A i \in DOMAIN log : log[i].rule = x => log[i].decision \in Final
        BY RuleAssumption DEF LogInv, RowsAreTrue, TrueRow, RowIsTrue, Row
      <3> QED
        BY <3>1 DEF Named, WipedOf, FinalRows, Rows
    <2> QED
      BY <2>1, <2>2, <2>3 DEF TablesAgree, LogInv, HitsAreRows
  <1> QED
    BY <1>1, LogInvHolds, PTL

(* proxy.go DoFunc, transparent.go, index.js onMessage: whoever got an     *)
(* answer is in the log or on the way there, unless the rule or the agent  *)
(* was deleted.                                                            *)
THEOREM WhatIsAnsweredIsLogged == Safety => []NothingGoesUnlogged
  <1>1. LogInv => NothingGoesUnlogged
    BY DEF LogInv
  <1> QED
    BY <1>1, LogInvHolds, PTL
=============================================================================
