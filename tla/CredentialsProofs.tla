--------------------------- MODULE CredentialsProofs ---------------------------
(***************************************************************************)
(* For any number of agents, calls and addresses, and any breaks and       *)
(* crashes: the token in force is the last one told, an address was earned *)
(* by the very row it stands in, and once everything sent has been read    *)
(* the proxy judges by what the table says.                                *)
(*                                                                         *)
(* None of the three is inductive.  What a call under way will write has   *)
(* to be justified when the call starts (CallsAreEarned), and a push has   *)
(* to be followed from the server to the proxy (LiveIsCurrent).            *)
(***************************************************************************)
EXTENDS Credentials, FiniteSetTheorems, TLAPS

Entry == [name : Name, token : Nat, enabled : BOOLEAN, ip : Ip \cup {NoIp}]
Waits ==      [op : {"create"}, name : Name, token : Nat]
         \cup [op : {"rotate"}, agent : Agent, token : Nat]
         \cup [op : {"register"}, agent : Agent, ip : Ip, match : BOOLEAN]
         \cup {Idle}

TableTypes ==
  /\ rows \in [DOMAIN rows -> Entry] /\ DOMAIN rows \subseteq Agent
  /\ lastId \in Nat /\ issued \in Nat
  /\ told \in [Agent -> Seq(Nat)]
  /\ call \in [Call -> Waits]
NamesAreUnique == \A a, b \in DOMAIN rows : rows[a].name = rows[b].name => a = b
RoomForCreations == lastId + Cardinality(Creating) <= MaxAgents
CallsAreEarned ==
  \A c \in Call : call[c].op = "register" /\ call[c].match => <<call[c].agent, call[c].ip>> \in earned

TableInv ==
  /\ TableTypes /\ NamesAreUnique /\ RoomForCreations
  /\ CallsAreEarned /\ AddressWasEarned /\ LastTokenTold

-----------------------------------------------------------------------------
(* The table.                                                              *)

(* What a call under way carries. *)
LEMMA FieldsOfCalls ==
  \A w \in Waits :
    /\ w.op = "create" => w.name \in Name /\ w.token \in Nat
    /\ w.op = "rotate" => w.agent \in Agent /\ w.token \in Nat
    /\ w.op = "register" => w.agent \in Agent /\ w.ip \in Ip /\ w.match \in BOOLEAN
  BY DEF Waits, Idle

LEMMA IdleWaits == Idle \in Waits /\ Idle.op = "idle"
  BY DEF Waits, Idle

(* One call changes. *)
LEMMA OneCall ==
  ASSUME TableTypes, NEW c \in Call, NEW w \in Waits, call' = [call EXCEPT ![c] = w]
  PROVE  /\ call' \in [Call -> Waits]
         /\ \A d \in Call : call'[d] = IF d = c THEN w ELSE call[d]
  BY DEF TableTypes

(* The server starts with one agent. *)
LEMMA InitTable == Init => TableInv
  <1> SUFFICES ASSUME Init PROVE TableInv
    OBVIOUS
  <1>1. FirstRow \in Entry /\ FirstRow.ip = NoIp /\ FirstRow.token = 1
    BY NameAssumption DEF FirstRow, Entry
  <1>2. 1 \in Agent /\ MaxAgents \in Nat
    BY SizeAssumption DEF Agent
  <1>3. TableTypes
    BY <1>1, <1>2, IdleWaits DEF Init, TableTypes
  <1>4. NamesAreUnique /\ AddressWasEarned
    BY <1>1 DEF Init, NamesAreUnique, AddressWasEarned
  <1>5. LastTokenTold
    BY <1>1, <1>2 DEF Init, LastTokenTold, Last
  <1>6. CallsAreEarned
    BY IdleWaits DEF Init, CallsAreEarned
  <1>7. RoomForCreations
    <2>1. Creating = {}
      BY IdleWaits DEF Init, Creating
    <2> QED
      BY <2>1, <1>2, FS_EmptySet, SizeAssumption DEF Init, RoomForCreations
  <1> QED
    BY <1>3, <1>4, <1>5, <1>6, <1>7 DEF TableInv

(* Creations under way: one more, one less, or the same. *)
LEMMA CreationsCount ==
  ASSUME TableInv, NEW c \in Call, NEW w \in Waits, call' = [call EXCEPT ![c] = w]
  PROVE  /\ Cardinality(Creating) \in Nat /\ Cardinality(Creating') \in Nat
         /\ Cardinality(Creating') <= Cardinality(Creating) + 1
         /\ w.op # "create" => Cardinality(Creating') <= Cardinality(Creating)
         /\ w.op # "create" /\ call[c].op = "create" => Cardinality(Creating') = Cardinality(Creating) - 1
  <1>1. \A d \in Call : call'[d] = IF d = c THEN w ELSE call[d]
    BY OneCall DEF TableInv
  <1>2. IsFiniteSet(Creating) /\ IsFiniteSet(Creating')
    BY CallAssumption, FS_Subset DEF Creating
  <1>3. Cardinality(Creating) \in Nat /\ Cardinality(Creating') \in Nat
    BY <1>2, FS_CardinalityType
  <1>4. CASE w.op = "create"
    <2>1. Creating' = Creating \cup {c}
      BY <1>1, <1>4 DEF Creating
    <2> QED
      BY <1>2, <1>3, <1>4, <2>1, FS_AddElement
  <1>5. CASE w.op # "create"
    <2>1. Creating' = Creating \ {c} /\ (call[c].op = "create" <=> c \in Creating)
      BY <1>1, <1>5 DEF Creating
    <2> QED
      BY <1>2, <1>3, <1>5, <2>1, FS_RemoveElement
  <1> QED
    BY <1>4, <1>5

(* A call that starts, and writes nothing yet. *)
LEMMA StartsKeepTable ==
  ASSUME TableInv, NEW c \in Call, NEW w \in Waits, Start(c, w),
         lastId' = lastId, rows' = rows, told' = told, issued' \in Nat,
         w.op = "create" => lastId + Cardinality(Creating) < MaxAgents,
         earned \subseteq earned',
         w.op = "register" /\ w.match => <<w.agent, w.ip>> \in earned'
  PROVE  TableInv'
  <1>1. call' = [call EXCEPT ![c] = w]
    BY DEF Start
  <1>2. \A d \in Call : call'[d] = IF d = c THEN w ELSE call[d]
    BY <1>1, OneCall DEF TableInv
  <1>3. TableTypes' /\ NamesAreUnique' /\ LastTokenTold' /\ AddressWasEarned'
    BY <1>1, OneCall DEF TableInv, TableTypes, NamesAreUnique, LastTokenTold, AddressWasEarned
  <1>4. CallsAreEarned'
    BY <1>2 DEF TableInv, CallsAreEarned
  <1>5. RoomForCreations'
    <2>1. /\ Cardinality(Creating) \in Nat /\ Cardinality(Creating') \in Nat
          /\ Cardinality(Creating') <= Cardinality(Creating) + 1
          /\ w.op # "create" => Cardinality(Creating') <= Cardinality(Creating)
      BY <1>1, CreationsCount
    <2>2. lastId \in Nat /\ MaxAgents \in Nat /\ lastId + Cardinality(Creating) <= MaxAgents
      BY SizeAssumption DEF TableInv, TableTypes, RoomForCreations
    <2> QED
      BY <2>1, <2>2 DEF RoomForCreations
  <1> QED
    BY <1>3, <1>4, <1>5 DEF TableInv

LEMMA CreateStartKeepsTable ==
  ASSUME TableInv, NEW c \in Call, NEW n \in Name, CreateStart(c, n)
  PROVE  TableInv'
  <1> DEFINE w == [op |-> "create", name |-> n, token |-> issued + 1]
  <1>1. issued \in Nat /\ issued' = issued + 1
    BY DEF CreateStart, TableInv, TableTypes
  <1>2. w \in Waits /\ w.op = "create"
    BY <1>1 DEF Waits
  <1>3. Start(c, w) /\ lastId' = lastId /\ rows' = rows /\ told' = told /\ earned' = earned
        /\ lastId + Cardinality(Creating) < MaxAgents
    BY DEF CreateStart
  <1>4. PICK v \in Waits : v = w
    BY <1>2
  <1> HIDE DEF w
  <1>5. Start(c, v)
    BY <1>4, <1>3 DEF Start
  <1>6. /\ lastId' = lastId /\ rows' = rows /\ told' = told /\ issued' \in Nat
        /\ v.op = "create" => lastId + Cardinality(Creating) < MaxAgents
        /\ earned \subseteq earned'
        /\ v.op = "register" /\ v.match => <<v.agent, v.ip>> \in earned'
    BY <1>1, <1>2, <1>3, <1>4, <1>5
  <1> QED
    BY <1>4, <1>5, <1>6, StartsKeepTable

LEMMA RotateStartKeepsTable ==
  ASSUME TableInv, NEW c \in Call, NEW a \in Agent, RotateStart(c, a)
  PROVE  TableInv'
  <1> DEFINE w == [op |-> "rotate", agent |-> a, token |-> issued + 1]
  <1>1. issued \in Nat /\ issued' = issued + 1
    BY DEF RotateStart, TableInv, TableTypes
  <1>2. w \in Waits /\ w.op = "rotate"
    BY <1>1 DEF Waits
  <1>3. Start(c, w) /\ lastId' = lastId /\ rows' = rows /\ told' = told /\ earned' = earned
    BY DEF RotateStart
  <1>4. PICK v \in Waits : v = w
    BY <1>2
  <1> HIDE DEF w
  <1>5. Start(c, v)
    BY <1>4, <1>3 DEF Start
  <1>6. /\ lastId' = lastId /\ rows' = rows /\ told' = told /\ issued' \in Nat
        /\ v.op = "create" => lastId + Cardinality(Creating) < MaxAgents
        /\ earned \subseteq earned'
        /\ v.op = "register" /\ v.match => <<v.agent, v.ip>> \in earned'
    BY <1>1, <1>2, <1>3, <1>4, <1>5
  <1> QED
    BY <1>4, <1>5, <1>6, StartsKeepTable

LEMMA RegisterStartKeepsTable ==
  ASSUME TableInv, NEW c \in Call, NEW a \in Agent, NEW t, NEW i \in Ip, RegisterStart(c, a, t, i)
  PROVE  TableInv'
  <1> DEFINE w == [op |-> "register", agent |-> a, ip |-> i, match |-> t = rows[a].token]
  <1>1. issued \in Nat /\ issued' = issued
    BY DEF RegisterStart, TableInv, TableTypes
  <1>2. (t = rows[a].token) \in BOOLEAN
    OBVIOUS
  <1>3. w \in Waits /\ w.op = "register" /\ w.agent = a /\ w.ip = i /\ (w.match <=> t = rows[a].token)
    BY <1>2 DEF Waits
  <1>4. Start(c, w) /\ lastId' = lastId /\ rows' = rows /\ told' = told
    BY DEF RegisterStart
  <1>5. earned \subseteq earned' /\ (t = rows[a].token => <<a, i>> \in earned')
    BY DEF RegisterStart
  <1>6. PICK v \in Waits : v = w
    BY <1>3
  <1> HIDE DEF w
  <1>7. Start(c, v)
    BY <1>6, <1>4 DEF Start
  <1>8. /\ lastId' = lastId /\ rows' = rows /\ told' = told /\ issued' \in Nat
        /\ v.op = "create" => lastId + Cardinality(Creating) < MaxAgents
        /\ earned \subseteq earned'
        /\ v.op = "register" /\ v.match => <<v.agent, v.ip>> \in earned'
    BY <1>1, <1>2, <1>3, <1>4, <1>5, <1>6, <1>7
  <1> QED
    BY <1>6, <1>7, <1>8, StartsKeepTable

(* A call that ends: it is idle again, and the others wait as they did. *)
LEMMA ReturnsKeepCalls ==
  ASSUME TableInv, NEW c \in Call, Return(c), earned' = earned
  PROVE  /\ call' \in [Call -> Waits]
         /\ CallsAreEarned'
         /\ Cardinality(Creating') \in Nat /\ Cardinality(Creating) \in Nat
         /\ Cardinality(Creating') <= Cardinality(Creating)
         /\ call[c].op = "create" => Cardinality(Creating') = Cardinality(Creating) - 1
  <1>1. call' = [call EXCEPT ![c] = Idle]
    BY DEF Return
  <1>2. call' \in [Call -> Waits] /\ \A d \in Call : call'[d] = IF d = c THEN Idle ELSE call[d]
    BY <1>1, OneCall, IdleWaits DEF TableInv
  <1>3. CallsAreEarned'
    BY <1>2, IdleWaits DEF TableInv, CallsAreEarned
  <1> QED
    BY <1>1, <1>2, <1>3, CreationsCount, IdleWaits

(* What an agent is told last. *)
LEMMA Told ==
  ASSUME TableTypes, NEW a \in Agent, NEW t \in Nat, Tell(a, t)
  PROVE  /\ told' \in [Agent -> Seq(Nat)]
         /\ told'[a] # << >> /\ Last(told'[a]) = t
         /\ \A b \in Agent \ {a} : told'[b] = told[b]
  <1>1. told' = [told EXCEPT ![a] = Append(told[a], t)] /\ told[a] \in Seq(Nat)
    BY DEF Tell, TableTypes
  <1>2. Append(told[a], t) \in Seq(Nat) /\ Append(told[a], t) # << >> /\ Last(Append(told[a], t)) = t
    BY <1>1 DEF Last
  <1> QED
    BY <1>1, <1>2 DEF TableTypes
(* The end of a creation: an error, or a new row whose caller is told. *)
LEMMA CreateEndKeepsTable ==
  ASSUME TableInv, NEW c \in Call, CreateEnd(c)
  PROVE  TableInv'
  <1> DEFINE n == call[c].name  t == call[c].token  taken == \E a \in DOMAIN rows : rows[a].name = n
  <1>1. n \in Name /\ t \in Nat /\ call[c].op = "create"
    BY FieldsOfCalls DEF CreateEnd, TableInv, TableTypes
  <1>2. Return(c) /\ issued' = issued /\ earned' = earned
    BY DEF CreateEnd
  <1>3. /\ call' \in [Call -> Waits] /\ CallsAreEarned'
        /\ Cardinality(Creating') \in Nat /\ Cardinality(Creating) \in Nat
        /\ Cardinality(Creating') = Cardinality(Creating) - 1
    BY <1>1, <1>2, ReturnsKeepCalls
  <1>4. lastId \in Nat /\ MaxAgents \in Nat /\ lastId + Cardinality(Creating) <= MaxAgents
    BY SizeAssumption DEF TableInv, TableTypes, RoomForCreations
  <1>5. CASE UNCHANGED <<rows, lastId, told>>
    <2>1. TableTypes' /\ NamesAreUnique' /\ AddressWasEarned' /\ LastTokenTold'
      BY <1>2, <1>3, <1>5 DEF TableInv, TableTypes, NamesAreUnique, AddressWasEarned, LastTokenTold
    <2>2. RoomForCreations'
      BY <1>3, <1>4, <1>5 DEF RoomForCreations
    <2> QED
      BY <1>3, <2>1, <2>2 DEF TableInv
  <1>6. CASE ~taken /\ ~UNCHANGED <<rows, lastId, told>>
    <2> DEFINE k == lastId + 1  new == [name |-> n, token |-> t, enabled |-> TRUE, ip |-> NoIp]
    <2>1. /\ lastId' = k /\ Tell(k, t)
          /\ rows' = [a \in DOMAIN rows \cup {k} |-> IF a = k THEN new ELSE rows[a]]
      BY <1>6 DEF CreateEnd
    <2>2. k \in Agent /\ k \in Nat
      BY <1>3, <1>4 DEF Agent
    <2>3. new \in Entry /\ new.name = n /\ new.ip = NoIp /\ new.token = t
      BY <1>1 DEF Entry
    <2>4. /\ told' \in [Agent -> Seq(Nat)] /\ told'[k] # << >> /\ Last(told'[k]) = t
          /\ \A b \in Agent \ {k} : told'[b] = told[b]
      BY <1>1, <2>1, <2>2, Told DEF TableInv
    <2>5. /\ DOMAIN rows' = DOMAIN rows \cup {k} /\ rows'[k] = new
          /\ \A a \in DOMAIN rows \ {k} : rows'[a] = rows[a]
      BY <2>1
    <2>6. rows' \in [DOMAIN rows' -> Entry] /\ DOMAIN rows' \subseteq Agent
      BY <2>1, <2>2, <2>3 DEF TableInv, TableTypes
    <2> HIDE DEF k, new
    <2>7. TableTypes'
      BY <1>2, <1>3, <2>1, <2>2, <2>4, <2>6 DEF TableInv, TableTypes
    <2>8. NamesAreUnique'
      BY <1>6, <2>3, <2>5 DEF TableInv, NamesAreUnique
    <2>9. AddressWasEarned'
      BY <1>2, <2>3, <2>5 DEF TableInv, AddressWasEarned
    <2>10. LastTokenTold'
      BY <2>2, <2>3, <2>4, <2>5 DEF TableInv, TableTypes, LastTokenTold
    <2>11. RoomForCreations'
      BY <1>3, <1>4, <2>1 DEF RoomForCreations, k
    <2> QED
      BY <1>3, <2>7, <2>8, <2>9, <2>10, <2>11 DEF TableInv
  <1> QED
    BY <1>5, <1>6 DEF CreateEnd

(* The end of a rotation. *)
LEMMA RotateEndKeepsTable ==
  ASSUME TableInv, NEW c \in Call, RotateEnd(c)
  PROVE  TableInv'
  <1> DEFINE a == call[c].agent  t == call[c].token
  <1>1. a \in Agent /\ t \in Nat
    BY FieldsOfCalls DEF RotateEnd, TableInv, TableTypes
  <1>2. /\ Return(c) /\ Tell(a, t) /\ lastId' = lastId /\ issued' = issued /\ earned' = earned
        /\ rows' = IF a \in DOMAIN rows THEN [rows EXCEPT ![a].token = t] ELSE rows
    BY DEF RotateEnd
  <1>3. /\ call' \in [Call -> Waits] /\ CallsAreEarned'
        /\ Cardinality(Creating') \in Nat /\ Cardinality(Creating) \in Nat
        /\ Cardinality(Creating') <= Cardinality(Creating)
    BY <1>2, ReturnsKeepCalls
  <1>4. /\ told' \in [Agent -> Seq(Nat)] /\ told'[a] # << >> /\ Last(told'[a]) = t
        /\ \A b \in Agent \ {a} : told'[b] = told[b]
    BY <1>1, <1>2, Told DEF TableInv
  <1>5. /\ DOMAIN rows' = DOMAIN rows /\ rows' \in [DOMAIN rows -> Entry]
        /\ \A b \in DOMAIN rows : /\ rows'[b].name = rows[b].name /\ rows'[b].ip = rows[b].ip
                                  /\ rows'[b].token = IF b = a THEN t ELSE rows[b].token
    BY <1>1, <1>2 DEF TableInv, TableTypes, Entry
  <1> HIDE DEF a, t
  <1>6. TableTypes'
    BY <1>2, <1>3, <1>4, <1>5 DEF TableInv, TableTypes
  <1>7. NamesAreUnique' /\ AddressWasEarned'
    BY <1>2, <1>5 DEF TableInv, NamesAreUnique, AddressWasEarned
  <1>8. LastTokenTold'
    BY <1>4, <1>5 DEF TableInv, TableTypes, LastTokenTold
  <1>9. RoomForCreations'
    BY <1>2, <1>3, SizeAssumption DEF TableInv, TableTypes, RoomForCreations
  <1> QED
    BY <1>3, <1>6, <1>7, <1>8, <1>9 DEF TableInv

(* The end of a registration. *)
LEMMA RegisterEndKeepsTable ==
  ASSUME TableInv, NEW c \in Call, RegisterEnd(c)
  PROVE  TableInv'
  <1> DEFINE a == call[c].agent  i == call[c].ip
  <1>1. a \in Agent /\ i \in Ip /\ (call[c].match => <<a, i>> \in earned)
    BY FieldsOfCalls DEF RegisterEnd, TableInv, TableTypes, CallsAreEarned
  <1>2. /\ Return(c) /\ lastId' = lastId /\ issued' = issued /\ told' = told /\ earned' = earned
        /\ \/ rows' = rows
           \/ call[c].match /\ a \in DOMAIN rows /\ rows' = [rows EXCEPT ![a].ip = i]
    BY DEF RegisterEnd
  <1>3. /\ call' \in [Call -> Waits] /\ CallsAreEarned'
        /\ Cardinality(Creating') \in Nat /\ Cardinality(Creating) \in Nat
        /\ Cardinality(Creating') <= Cardinality(Creating)
    BY <1>2, ReturnsKeepCalls
  <1>4. /\ DOMAIN rows' = DOMAIN rows /\ rows' \in [DOMAIN rows -> Entry]
        /\ \A b \in DOMAIN rows : /\ rows'[b].name = rows[b].name /\ rows'[b].token = rows[b].token
                                  /\ rows'[b].ip = rows[b].ip \/ (b = a /\ rows'[b].ip = i /\ call[c].match)
    <2>1. rows \in [DOMAIN rows -> Entry]
      BY DEF TableInv, TableTypes
    <2>2. CASE rows' = rows
      BY <2>1, <2>2
    <2>3. CASE call[c].match /\ a \in DOMAIN rows /\ rows' = [rows EXCEPT ![a].ip = i]
      <3> HIDE DEF a, i
      <3>1. DOMAIN rows' = DOMAIN rows
        BY <2>3
      <3>2. \A b \in DOMAIN rows : rows'[b] = IF b = a THEN [rows[a] EXCEPT !.ip = i] ELSE rows[b]
        BY <2>3
      <3>3. [rows[a] EXCEPT !.ip = i] \in Entry /\ rows[a] \in Entry
        BY <1>1, <2>1, <2>3 DEF Entry
      <3>4. rows' \in [DOMAIN rows -> Entry]
        BY <2>1, <2>3, <3>1, <3>2, <3>3
      <3>5. /\ [rows[a] EXCEPT !.ip = i].name = rows[a].name /\ [rows[a] EXCEPT !.ip = i].token = rows[a].token
            /\ [rows[a] EXCEPT !.ip = i].ip = i
        BY <3>3 DEF Entry
      <3> QED
        BY <2>3, <3>1, <3>2, <3>4, <3>5
    <2> QED
      BY <1>2, <2>2, <2>3
  <1> HIDE DEF a, i
  <1>5. TableTypes'
    BY <1>2, <1>3, <1>4 DEF TableInv, TableTypes
  <1>6. NamesAreUnique' /\ LastTokenTold'
    BY <1>2, <1>4 DEF TableInv, NamesAreUnique, LastTokenTold
  <1>7. AddressWasEarned'
    BY <1>1, <1>2, <1>4 DEF TableInv, AddressWasEarned
  <1>8. RoomForCreations'
    BY <1>2, <1>3, SizeAssumption DEF TableInv, TableTypes, RoomForCreations
  <1> QED
    BY <1>3, <1>5, <1>6, <1>7, <1>8 DEF TableInv

(* A change or a deletion of a row. *)
LEMMA UpdateKeepsTable ==
  ASSUME TableInv, NEW a \in Agent, NEW n \in Name, NEW e \in BOOLEAN, Update(a, n, e)
  PROVE  TableInv'
  <1>1. /\ a \in DOMAIN rows /\ \A b \in DOMAIN rows \ {a} : rows[b].name # n
        /\ rows' = [rows EXCEPT ![a].name = n, ![a].enabled = e]
        /\ lastId' = lastId /\ issued' = issued /\ call' = call /\ told' = told /\ earned' = earned
    BY DEF Update
  <1>2. /\ DOMAIN rows' = DOMAIN rows /\ rows' \in [DOMAIN rows -> Entry]
        /\ \A b \in DOMAIN rows : /\ rows'[b].token = rows[b].token /\ rows'[b].ip = rows[b].ip
                                  /\ rows'[b].name = IF b = a THEN n ELSE rows[b].name
    BY <1>1 DEF TableInv, TableTypes, Entry
  <1>3. TableTypes' /\ CallsAreEarned' /\ AddressWasEarned' /\ LastTokenTold'
    BY <1>1, <1>2 DEF TableInv, TableTypes, CallsAreEarned, AddressWasEarned, LastTokenTold
  <1>4. NamesAreUnique'
    BY <1>1, <1>2 DEF TableInv, NamesAreUnique
  <1>5. RoomForCreations'
    BY <1>1 DEF TableInv, RoomForCreations, Creating
  <1> QED
    BY <1>3, <1>4, <1>5 DEF TableInv

LEMMA DeleteKeepsTable ==
  ASSUME TableInv, NEW a \in Agent, Delete(a)
  PROVE  TableInv'
  <1>1. /\ rows' = [b \in DOMAIN rows \ {a} |-> rows[b]]
        /\ lastId' = lastId /\ issued' = issued /\ call' = call /\ told' = told /\ earned' = earned
    BY DEF Delete
  <1>2. DOMAIN rows' = DOMAIN rows \ {a} /\ \A b \in DOMAIN rows \ {a} : rows'[b] = rows[b]
    BY <1>1
  <1>3. rows' \in [DOMAIN rows' -> Entry]
    BY <1>1, <1>2 DEF TableInv, TableTypes
  <1>4. TableTypes' /\ CallsAreEarned' /\ AddressWasEarned' /\ LastTokenTold' /\ NamesAreUnique'
    BY <1>1, <1>2, <1>3 DEF TableInv, TableTypes, CallsAreEarned, AddressWasEarned, LastTokenTold, NamesAreUnique
  <1>5. RoomForCreations'
    BY <1>1 DEF TableInv, RoomForCreations, Creating
  <1> QED
    BY <1>4, <1>5 DEF TableInv

(* The calls under way die with the server, and nothing else touches the table. *)
LEMMA ServerCrashKeepsTable == TableInv /\ ServerCrash => TableInv'
  <1> SUFFICES ASSUME TableInv, ServerCrash PROVE TableInv'
    OBVIOUS
  <1>1. /\ call' = [c \in Call |-> Idle] /\ rows' = rows /\ lastId' = lastId
        /\ issued' = issued /\ told' = told /\ earned' = earned
    BY DEF ServerCrash
  <1>2. TableTypes' /\ NamesAreUnique' /\ AddressWasEarned' /\ LastTokenTold'
    BY <1>1, IdleWaits DEF TableInv, TableTypes, NamesAreUnique, AddressWasEarned, LastTokenTold
  <1>3. CallsAreEarned'
    BY <1>1, IdleWaits DEF CallsAreEarned
  <1>4. RoomForCreations'
    <2>1. Creating' = {}
      BY <1>1, IdleWaits DEF Creating
    <2>2. IsFiniteSet(Creating)
      BY CallAssumption, FS_Subset DEF Creating
    <2>3. Cardinality(Creating) \in Nat
      BY <2>2, FS_CardinalityType
    <2> QED
      BY <1>1, <2>1, <2>3, FS_EmptySet, SizeAssumption DEF TableInv, TableTypes, RoomForCreations
  <1> QED
    BY <1>2, <1>3, <1>4 DEF TableInv

LEMMA OthersKeepTable == TableInv /\ UNCHANGED table => TableInv'
  BY DEF table, TableInv, TableTypes, NamesAreUnique, RoomForCreations, Creating,
         CallsAreEarned, AddressWasEarned, LastTokenTold

LEMMA StepKeepsTable == TableInv /\ [Next]_vars => TableInv'
  <1> SUFFICES ASSUME TableInv, [Next]_vars PROVE TableInv'
    OBVIOUS
  <1>1. CASE Ask
    <2>1. CASE Sighup
      BY <2>1, OthersKeepTable DEF Sighup
    <2> QED
      BY <1>1, <2>1, CreateStartKeepsTable, RotateStartKeepsTable, RegisterStartKeepsTable,
         UpdateKeepsTable, DeleteKeepsTable DEF Ask
  <1>2. CASE \E c \in Call : Finish(c)
    BY <1>2, CreateEndKeepsTable, RotateEndKeepsTable, RegisterEndKeepsTable DEF Finish
  <1>3. CASE Link
    BY <1>3, OthersKeepTable DEF Link, Dial, Accept, ClientGone, Read, ConnLost
  <1>4. CASE Faults
    BY <1>4, OthersKeepTable, ServerCrashKeepsTable DEF Faults, Break, ProxyCrash, ProxyStart, ServerStart
  <1>5. CASE UNCHANGED vars
    BY <1>5, OthersKeepTable DEF vars
  <1> QED
    BY <1>1, <1>2, <1>3, <1>4, <1>5 DEF Next

-----------------------------------------------------------------------------
(* What has been sent on a live connection and not been read ends in the   *)
(* table as it is: the newest frame of each kind has it, or there is no    *)
(* frame of the kind and the proxy has it.                                 *)
Latest(s, type, map, cur) ==
  \/ cur = map /\ \A i \in DOMAIN s : s[i].type # type
  \/ \E i \in DOMAIN s : /\ s[i].type = type /\ s[i].map = map
                         /\ \A j \in DOMAIN s : j > i => s[j].type # type

QueuesAreSequences == (\E S : toProxy \in Seq(S)) /\ (\E S : serverBuffer \in Seq(S))
LiveIsCurrent ==
  client = "live" => /\ Latest(toProxy, "agents", Listing, creds)
                     /\ Latest(toProxy, "ips", IpMapping, ipMap)
LinkInv == QueuesAreSequences /\ LiveIsCurrent

(* Reading a frame. *)
LEMMA TailKeeps ==
  ASSUME NEW S, NEW s \in Seq(S), s # << >>, NEW type, NEW map, NEW cur, Latest(s, type, map, cur)
  PROVE  Latest(Tail(s), type, map, IF Head(s).type = type THEN Head(s).map ELSE cur)
  <1>1. /\ Tail(s) \in Seq(S) /\ Len(Tail(s)) = Len(s) - 1 /\ Len(s) \in Nat \ {0} /\ Head(s) = s[1]
        /\ \A i \in 1 .. Len(s) - 1 : Tail(s)[i] = s[i + 1]
        /\ DOMAIN s = 1 .. Len(s) /\ DOMAIN Tail(s) = 1 .. Len(s) - 1
    OBVIOUS
  <1>2. CASE cur = map /\ \A i \in DOMAIN s : s[i].type # type
    BY <1>1, <1>2 DEF Latest
  <1>3. CASE \E i \in DOMAIN s : /\ s[i].type = type /\ s[i].map = map
                         /\ \A j \in DOMAIN s : j > i => s[j].type # type
    <2>1. PICK i \in 1 .. Len(s) : /\ s[i].type = type /\ s[i].map = map
                         /\ \A j \in 1 .. Len(s) : j > i => s[j].type # type
      BY <1>1, <1>3
    <2>2. CASE i = 1
      <3>1. \A k \in 1 .. Len(s) - 1 : Tail(s)[k].type # type
        BY <1>1, <2>1, <2>2
      <3> QED BY <1>1, <2>1, <2>2, <3>1 DEF Latest
    <2>3. CASE i > 1
      <3>1. i - 1 \in 1 .. Len(s) - 1 /\ Tail(s)[i - 1].type = type /\ Tail(s)[i - 1].map = map
        BY <1>1, <2>1, <2>3
      <3>2. \A j \in 1 .. Len(s) - 1 : j > i - 1 => Tail(s)[j].type # type
        BY <1>1, <2>1, <2>3
      <3> QED BY <1>1, <3>1, <3>2 DEF Latest
    <2> QED BY <2>1, <2>2, <2>3, <1>1
  <1> QED BY <1>2, <1>3 DEF Latest

(* Pushing a frame of the kind, of the other kind, and of both. *)
LEMMA OnePushed ==
  ASSUME NEW S, NEW s \in Seq(S), NEW cur, NEW m
  PROVE  Latest(s \o <<m>>, m.type, m.map, cur)
  <1> DEFINE t == s \o <<m>>  k == Len(s) + 1
  <1>1. DOMAIN t = 1 .. k /\ t[k] = m /\ k \in 1 .. k
    OBVIOUS
  <1>2. \A j \in 1 .. k : j > k => FALSE
    OBVIOUS
  <1> HIDE DEF t, k
  <1>3. Latest(t, m.type, m.map, cur)
    BY <1>1, <1>2 DEF Latest
  <1> QED BY <1>3 DEF t

LEMMA OtherPushed ==
  ASSUME NEW S, NEW s \in Seq(S), NEW type, NEW map, NEW cur, NEW m, m.type # type, Latest(s, type, map, cur)
  PROVE  Latest(s \o <<m>>, type, map, cur)
  <1>1. s \o <<m>> = [i \in 1 .. Len(s) + 1 |-> IF i <= Len(s) THEN s[i] ELSE m] /\ Len(s) \in Nat /\ DOMAIN s = 1 .. Len(s)
    OBVIOUS
  <1> QED BY <1>1 DEF Latest

LEMMA TwoPushed ==
  ASSUME NEW S, NEW s \in Seq(S), NEW cur, NEW m, NEW n, m.type # n.type
  PROVE  /\ Latest(s \o <<m, n>>, m.type, m.map, cur)
         /\ Latest(s \o <<m, n>>, n.type, n.map, cur)
  <1> DEFINE t == s \o <<m, n>>  k == Len(s) + 1
  <1>1. /\ DOMAIN t = 1 .. k + 1 /\ t[k] = m /\ t[k + 1] = n
        /\ k \in 1 .. k + 1 /\ k + 1 \in 1 .. k + 1
    OBVIOUS
  <1>2. \A j \in 1 .. k + 1 : (j > k + 1 => FALSE) /\ (j > k => j = k + 1)
    OBVIOUS
  <1> HIDE DEF t, k
  <1>3. Latest(t, m.type, m.map, cur)
    BY <1>1, <1>2 DEF Latest
  <1>4. Latest(t, n.type, n.map, cur)
    BY <1>1, <1>2 DEF Latest
  <1> QED BY <1>3, <1>4 DEF t

LEMMA InitLink == Init => LinkInv
  <1> SUFFICES ASSUME Init PROVE LinkInv
    OBVIOUS
  <1>1. toProxy \in Seq({}) /\ serverBuffer \in Seq({}) /\ client = "none"
    BY DEF Init
  <1> QED
    BY <1>1 DEF LinkInv, QueuesAreSequences, LiveIsCurrent

(* The table is as it was, so what would be pushed is too. *)
LEMMA SameTable == rows' = rows => Listing' = Listing /\ IpMapping' = IpMapping
  BY DEF Listing, IpMapping, Holders, IdOf

(* Whatever is sent, the queues stay sequences. *)
LEMMA SendKeepsQueues ==
  ASSUME QueuesAreSequences, NEW T, NEW msgs \in Seq(T),
         \/ toProxy' = toProxy \o msgs /\ serverBuffer' = serverBuffer
         \/ toProxy' = toProxy /\ serverBuffer' = serverBuffer
         \/ toProxy' = toProxy /\ serverBuffer' = Newest(serverBuffer \o msgs, ServerBuffer)
  PROVE  QueuesAreSequences'
  <1>1. PICK S, B : toProxy \in Seq(S) /\ serverBuffer \in Seq(B)
    BY DEF QueuesAreSequences
  <1>2. toProxy \o msgs \in Seq(S \cup T) /\ serverBuffer \o msgs \in Seq(B \cup T)
    <2>1. toProxy \in Seq(S \cup T) /\ serverBuffer \in Seq(B \cup T)
          /\ msgs \in Seq(S \cup T) /\ msgs \in Seq(B \cup T)
      BY <1>1
    <2> QED
      BY <2>1
  <1>3. PICK s \in Seq(B \cup T) : s = serverBuffer \o msgs
    BY <1>2
  <1>4. Newest(s, ServerBuffer) \in Seq(B \cup T)
    BY SizeAssumption DEF Newest
  <1> QED
    BY <1>1, <1>2, <1>3, <1>4 DEF QueuesAreSequences

LEMMA PushBothKeepsLink == LinkInv /\ PushBoth => LinkInv'
  <1> SUFFICES ASSUME LinkInv, PushBoth PROVE LinkInv'
    OBVIOUS
  <1>1. PICK m, n : m = AgentsPush' /\ n = IpsPush'
    OBVIOUS
  <1>2. m.type = "agents" /\ m.map = Listing' /\ n.type = "ips" /\ n.map = IpMapping'
    BY <1>1 DEF AgentsPush, IpsPush
  <1>3. /\ client' = client /\ creds' = creds /\ ipMap' = ipMap
        /\ \/ toProxy' = toProxy \o <<m, n>> /\ serverBuffer' = serverBuffer
           \/ client # "live" /\ toProxy' = toProxy /\ serverBuffer' = serverBuffer
           \/ /\ client # "live"
              /\ toProxy' = toProxy /\ serverBuffer' = Newest(serverBuffer \o <<m, n>>, ServerBuffer)
    BY <1>1 DEF PushBoth, Send, proxyVars
  <1>4. QueuesAreSequences'
    <2>1. <<m, n>> \in Seq({m, n})
      OBVIOUS
    <2> QED
      BY <1>3, <2>1, SendKeepsQueues DEF LinkInv
  <1>5. PICK S : toProxy \in Seq(S)
    BY DEF LinkInv, QueuesAreSequences
  <1>6. \A cur : Latest(toProxy \o <<m, n>>, "agents", m.map, cur) /\ Latest(toProxy \o <<m, n>>, "ips", n.map, cur)
    BY <1>2, <1>5, TwoPushed
  <1>7. LiveIsCurrent'
    BY <1>2, <1>3, <1>6 DEF LiveIsCurrent
  <1> QED
    BY <1>4, <1>7 DEF LinkInv

(* One kind is pushed and the map of the other kind has not changed. *)
LEMMA PushOneKeepsLink ==
  ASSUME LinkInv, NEW m, Send(<<m>>),
         \/ m.type = "ips" /\ m.map = IpMapping' /\ Listing' = Listing
         \/ m.type = "agents" /\ m.map = Listing' /\ IpMapping' = IpMapping
  PROVE  LinkInv'
  <1>1. /\ client' = client /\ creds' = creds /\ ipMap' = ipMap
        /\ \/ toProxy' = toProxy \o <<m>> /\ serverBuffer' = serverBuffer
           \/ client # "live" /\ toProxy' = toProxy /\ serverBuffer' = serverBuffer
           \/ /\ client # "live"
              /\ toProxy' = toProxy /\ serverBuffer' = Newest(serverBuffer \o <<m>>, ServerBuffer)
    BY DEF Send, proxyVars
  <1>2. QueuesAreSequences'
    <2>1. <<m>> \in Seq({m})
      OBVIOUS
    <2> QED
      BY <1>1, <2>1, SendKeepsQueues DEF LinkInv
  <1>3. PICK S : toProxy \in Seq(S)
    BY DEF LinkInv, QueuesAreSequences
  <1>4. \A cur : Latest(toProxy \o <<m>>, m.type, m.map, cur)
    BY <1>3, OnePushed
  <1>5. \A type, map, cur : m.type # type /\ Latest(toProxy, type, map, cur) => Latest(toProxy \o <<m>>, type, map, cur)
    BY <1>3, OtherPushed
  <1>6. LiveIsCurrent'
    <2> SUFFICES ASSUME client' = "live" PROVE LiveIsCurrent'
      BY DEF LiveIsCurrent
    <2>1. /\ toProxy' = toProxy \o <<m>>
          /\ Latest(toProxy, "agents", Listing, creds) /\ Latest(toProxy, "ips", IpMapping, ipMap)
      BY <1>1 DEF LinkInv, LiveIsCurrent
    <2>2. CASE m.type = "ips" /\ m.map = IpMapping' /\ Listing' = Listing
      BY <1>1, <1>4, <1>5, <2>1, <2>2 DEF LiveIsCurrent
    <2>3. CASE m.type = "agents" /\ m.map = Listing' /\ IpMapping' = IpMapping
      BY <1>1, <1>4, <1>5, <2>1, <2>3 DEF LiveIsCurrent
    <2> QED
      BY <2>2, <2>3
  <1> QED
    BY <1>2, <1>6 DEF LinkInv

(* Nothing is written and nothing is sent. *)
LEMMA SilentKeepsLink ==
  LinkInv /\ rows' = rows /\ client' = client /\ UNCHANGED <<serverBuffer, toProxy, creds, ipMap>> => LinkInv'
  BY SameTable DEF LinkInv, QueuesAreSequences, LiveIsCurrent

(* Not live any more: only the queues are to be shown. *)
LEMMA DeadKeepsLink == QueuesAreSequences' /\ client' # "live" => LinkInv'
  BY DEF LinkInv, LiveIsCurrent

(* The end of a registration pushes addresses only: names are unique, so   *)
(* the listing by name has not changed.                                    *)
LEMMA RegisterEndKeepsListing ==
  ASSUME TableInv, NEW c \in Call, RegisterEnd(c)
  PROVE  Listing' = Listing
  <1>1. /\ DOMAIN rows' = DOMAIN rows
        /\ \A b \in DOMAIN rows : /\ rows'[b].name = rows[b].name /\ rows'[b].token = rows[b].token
                                  /\ rows'[b].enabled = rows[b].enabled
    <2>1. rows \in [DOMAIN rows -> Entry]
      BY DEF TableInv, TableTypes
    <2>2. \/ rows' = rows
          \/ call[c].agent \in DOMAIN rows /\ rows' = [rows EXCEPT ![call[c].agent].ip = call[c].ip]
      BY DEF RegisterEnd
    <2> QED
      BY <2>1, <2>2 DEF Entry
  <1>2. {rows'[a].name : a \in DOMAIN rows'} = {rows[a].name : a \in DOMAIN rows}
    BY <1>1
  <1>3. ASSUME NEW n \in {rows[a].name : a \in DOMAIN rows}
        PROVE  rows'[IdOf(n)'].token = rows[IdOf(n)].token /\ rows'[IdOf(n)'].enabled = rows[IdOf(n)].enabled
    <2>1. IdOf(n) \in DOMAIN rows /\ rows[IdOf(n)].name = n
      BY DEF IdOf
    <2>2. IdOf(n)' \in DOMAIN rows' /\ rows'[IdOf(n)'].name = n
      BY <1>2 DEF IdOf
    <2>3. IdOf(n)' = IdOf(n)
      BY <1>1, <2>1, <2>2 DEF TableInv, NamesAreUnique
    <2> QED
      BY <1>1, <2>1, <2>3
  <1> QED
    BY <1>2, <1>3 DEF Listing

LEMMA AskKeepsLink == TableInv /\ LinkInv /\ Ask => LinkInv'
  <1> SUFFICES ASSUME LinkInv, Ask PROVE LinkInv'
    OBVIOUS
  <1>1. ASSUME NEW c, NEW w, Start(c, w), rows' = rows PROVE LinkInv'
    BY <1>1, SilentKeepsLink DEF Start, Silent, serverVars, proxyVars
  <1>2. ASSUME Sighup PROVE LinkInv'
    <2>1. PICK m : m = AgentsPush
      OBVIOUS
    <2>2. Send(<<m>>) /\ rows' = rows
      BY <1>2, <2>1 DEF Sighup, table
    <2>3. m.type = "agents" /\ m.map = Listing' /\ IpMapping' = IpMapping
      BY <2>1, <2>2, SameTable DEF AgentsPush
    <2> QED
      BY <2>2, <2>3, PushOneKeepsLink
  <1> QED
    BY <1>1, <1>2, PushBothKeepsLink DEF Ask, CreateStart, RotateStart, RegisterStart, Update, Delete

LEMMA FinishKeepsLink ==
  ASSUME TableInv, LinkInv, NEW c \in Call, Finish(c)
  PROVE  LinkInv'
  <1>1. ASSUME Silent, rows' = rows PROVE LinkInv'
    BY <1>1, SilentKeepsLink DEF Silent, serverVars, proxyVars
  <1>2. CASE CreateEnd(c)
    BY <1>1, <1>2, PushBothKeepsLink DEF CreateEnd
  <1>3. CASE RotateEnd(c)
    BY <1>3, PushBothKeepsLink DEF RotateEnd
  <1>4. CASE RegisterEnd(c)
    <2>1. PICK m : m = IpsPush'
      OBVIOUS
    <2>2. m.type = "ips" /\ m.map = IpMapping' /\ Listing' = Listing
      BY <1>4, <2>1, RegisterEndKeepsListing DEF IpsPush
    <2>3. (Silent /\ rows' = rows) \/ Send(<<m>>)
      BY <1>4, <2>1 DEF RegisterEnd
    <2> QED
      BY <1>1, <2>2, <2>3, PushOneKeepsLink
  <1> QED
    BY <1>2, <1>3, <1>4 DEF Finish

(* The buffer is flushed first, so what onConnect pushes is the newest. *)
LEMMA AcceptKeepsLink == LinkInv /\ Accept => LinkInv'
  <1> SUFFICES ASSUME LinkInv, Accept PROVE LinkInv'
    OBVIOUS
  <1>1. PICK m, n : m = AgentsPush /\ n = IpsPush
    OBVIOUS
  <1>2. m.type = "agents" /\ m.map = Listing' /\ n.type = "ips" /\ n.map = IpMapping'
    BY <1>1, SameTable DEF Accept, table, AgentsPush, IpsPush
  <1>3. toProxy' = toProxy \o serverBuffer \o <<m, n>> /\ serverBuffer' = << >>
    BY <1>1 DEF Accept
  <1>4. PICK S, B : toProxy \in Seq(S) /\ serverBuffer \in Seq(B)
    BY DEF LinkInv, QueuesAreSequences
  <1>5. toProxy \o serverBuffer \in Seq(S \cup B)
    <2>1. toProxy \in Seq(S \cup B) /\ serverBuffer \in Seq(S \cup B)
      BY <1>4
    <2> QED
      BY <2>1
  <1>6. PICK s \in Seq(S \cup B) : s = toProxy \o serverBuffer
    BY <1>5
  <1>7. \A cur : Latest(s \o <<m, n>>, "agents", m.map, cur) /\ Latest(s \o <<m, n>>, "ips", n.map, cur)
    BY <1>2, TwoPushed
  <1>8. LiveIsCurrent'
    BY <1>2, <1>3, <1>6, <1>7 DEF LiveIsCurrent
  <1>9. s \o <<m, n>> \in Seq((S \cup B) \cup {m, n}) /\ << >> \in Seq(B)
    <2>1. s \in Seq((S \cup B) \cup {m, n}) /\ <<m, n>> \in Seq((S \cup B) \cup {m, n})
      OBVIOUS
    <2> QED
      BY <2>1
  <1>10. QueuesAreSequences'
    BY <1>3, <1>6, <1>9 DEF QueuesAreSequences
  <1> QED
    BY <1>8, <1>10 DEF LinkInv

(* The proxy reads: the frame's map takes the place of what it had. *)
LEMMA ReadKeepsLink == LinkInv /\ Read => LinkInv'
  <1> SUFFICES ASSUME LinkInv, Read PROVE LinkInv'
    OBVIOUS
  <1>1. PICK S, B : toProxy \in Seq(S) /\ serverBuffer \in Seq(B)
    BY DEF LinkInv, QueuesAreSequences
  <1>2. PICK s \in Seq(S) : s = toProxy
    BY <1>1
  <1>3. /\ s # << >> /\ toProxy' = Tail(s) /\ serverBuffer' = serverBuffer /\ client' = client
        /\ creds' = IF Head(s).type = "agents" THEN Head(s).map ELSE creds
        /\ ipMap' = IF Head(s).type = "ips" THEN Head(s).map ELSE ipMap
    BY <1>2 DEF Read, serverVars
  <1>4. Listing' = Listing /\ IpMapping' = IpMapping
    BY SameTable DEF Read, table
  <1>5. \A type, map, cur : Latest(s, type, map, cur)
          => Latest(Tail(s), type, map, IF Head(s).type = type THEN Head(s).map ELSE cur)
    BY <1>3, TailKeeps
  <1>6. LiveIsCurrent'
    BY <1>2, <1>3, <1>4, <1>5 DEF LinkInv, LiveIsCurrent
  <1>7. QueuesAreSequences'
    BY <1>1, <1>3 DEF QueuesAreSequences
  <1> QED
    BY <1>6, <1>7 DEF LinkInv

(* What is lost with a connection that broke is the end of what was sent. *)
LEMMA ArrivalsAreSequences == QueuesAreSequences /\ SomeArrive => \E S : toProxy' \in Seq(S)
  <1> SUFFICES ASSUME QueuesAreSequences, SomeArrive PROVE \E S : toProxy' \in Seq(S)
    OBVIOUS
  <1>1. PICK S : toProxy \in Seq(S)
    BY DEF QueuesAreSequences
  <1>2. PICK j \in 0 .. Len(toProxy) : toProxy' = SubSeq(toProxy, 1, j)
    BY DEF SomeArrive
  <1>3. SubSeq(toProxy, 1, j) \in Seq(S)
    BY <1>1
  <1> QED
    BY <1>2, <1>3

LEMMA FaultsKeepLink == LinkInv /\ Faults => LinkInv'
  <1> SUFFICES ASSUME LinkInv, Faults PROVE LinkInv'
    OBVIOUS
  <1>1. << >> \in Seq({})
    OBVIOUS
  <1>2. CASE Break
    BY <1>2, ArrivalsAreSequences, DeadKeepsLink DEF Break, LinkInv, QueuesAreSequences
  <1>3. CASE ProxyCrash
    BY <1>1, <1>3, DeadKeepsLink DEF ProxyCrash, LinkInv, QueuesAreSequences
  <1>4. CASE ServerCrash
    BY <1>1, <1>4, ArrivalsAreSequences, DeadKeepsLink DEF ServerCrash, LinkInv, QueuesAreSequences
  <1>5. CASE ServerStart
    BY <1>5, SilentKeepsLink DEF ServerStart, table, proxyVars
  <1>6. CASE ProxyStart
    <2>1. /\ rows' = rows /\ client' = client /\ toProxy' = toProxy /\ creds' = creds /\ ipMap' = ipMap
          /\ \/ serverBuffer' = serverBuffer
             \/ client # "live" /\ serverBuffer' = Newest(serverBuffer \o <<AgentsPush>>, ServerBuffer)
      BY <1>6 DEF ProxyStart, table
    <2>2. CASE serverBuffer' = serverBuffer
      BY <2>1, <2>2, SilentKeepsLink
    <2>3. CASE client # "live" /\ serverBuffer' = Newest(serverBuffer \o <<AgentsPush>>, ServerBuffer)
      <3>1. PICK m : m = AgentsPush
        OBVIOUS
      <3>2. <<m>> \in Seq({m})
        OBVIOUS
      <3>3. QueuesAreSequences'
        BY <2>1, <2>3, <3>1, <3>2, SendKeepsQueues DEF LinkInv
      <3> QED
        BY <2>1, <2>3, <3>3, DeadKeepsLink
    <2> QED
      BY <2>1, <2>2, <2>3
  <1> QED
    BY <1>2, <1>3, <1>4, <1>5, <1>6 DEF Faults

LEMMA StepKeepsLink == TableInv /\ LinkInv /\ [Next]_vars => LinkInv'
  <1> SUFFICES ASSUME TableInv, LinkInv, [Next]_vars PROVE LinkInv'
    OBVIOUS
  <1>1. CASE Ask
    BY <1>1, AskKeepsLink
  <1>2. CASE \E c \in Call : Finish(c)
    BY <1>2, FinishKeepsLink
  <1>3. CASE Link
    <2>1. CASE Dial \/ ConnLost
      BY <2>1, SilentKeepsLink DEF Dial, ConnLost, table, serverVars
    <2>2. CASE ClientGone
      BY <2>2, DeadKeepsLink DEF ClientGone, LinkInv, QueuesAreSequences
    <2> QED
      BY <1>3, <2>1, <2>2, AcceptKeepsLink, ReadKeepsLink DEF Link
  <1>4. CASE Faults
    BY <1>4, FaultsKeepLink
  <1>5. CASE UNCHANGED vars
    BY <1>5, SilentKeepsLink DEF vars, table, serverVars, proxyVars
  <1> QED
    BY <1>1, <1>2, <1>3, <1>4, <1>5 DEF Next

LEMMA LinkShowsInForce == LinkInv => NothingStaleWhenSynced
  <1> SUFFICES ASSUME LinkInv, Synced PROVE InForce
    BY DEF NothingStaleWhenSynced
  <1>1. /\ toProxy = << >> /\ Latest(toProxy, "agents", Listing, creds) /\ Latest(toProxy, "ips", IpMapping, ipMap)
    BY DEF LinkInv, LiveIsCurrent, Synced
  <1>2. \A i \in DOMAIN toProxy : FALSE
    BY <1>1
  <1> QED
    BY <1>1, <1>2 DEF Latest, InForce

-----------------------------------------------------------------------------
(* Revocation.  A token is told once, to the caller of one agent, and a    *)
(* token that a call has still to write has been told to nobody.  (The     *)
(* history T is told, now or after the step.)                              *)
Writing == {c \in Call : call[c].op \in {"create", "rotate"}}
IsTold(T, t) == \E a \in Agent : \E k \in 1 .. Len(T[a]) : T[a][k] = t

ToldOnce(T) ==
  \A a, b \in Agent : \A j \in 1 .. Len(T[a]), k \in 1 .. Len(T[b]) :
    T[a][j] = T[b][k] => a = b /\ j = k

TokensAreNew ==
  /\ ToldOnce(told)
  /\ \A a \in Agent : \A k \in 1 .. Len(told[a]) : told[a][k] <= issued
  /\ \A c \in Writing : call[c].token <= issued /\ ~IsTold(told, call[c].token)
  /\ \A c, d \in Writing : call[c].token = call[d].token => c = d

(* Of two maps of credentials, the older has no token of an agent that was *)
(* told after the one the newer has.                                       *)
Older(T, m, l) ==
  \A n \in DOMAIN m \cap DOMAIN l, a \in Agent : \A j, k \in 1 .. Len(T[a]) :
    T[a][j] = m[n].token /\ T[a][k] = l[n].token => j <= k
AllTold(T, m) == \A n \in DOMAIN m : IsTold(T, m[n].token)

AgentMaps(s) == {s[i].map : i \in {j \in 1 .. Len(s) : s[j].type = "agents"}}
Ordered(T, s) ==
  \A i, j \in 1 .. Len(s) :
    i < j /\ s[i].type = "agents" /\ s[j].type = "agents" => Older(T, s[i].map, s[j].map)

(* What the proxy has, what is on its way and what waits for a connection  *)
(* are in the order in which the tokens were told.                         *)
InOrder(T, c, p, b) ==
  /\ Ordered(T, p) /\ Ordered(T, b)
  /\ \A m \in AgentMaps(p), l \in AgentMaps(b) : Older(T, m, l)
  /\ \A m \in AgentMaps(p) \cup AgentMaps(b) : Older(T, c, m) /\ AllTold(T, m)
  /\ AllTold(T, c)

FramesAreOrdered ==
  /\ InOrder(told, creds, toProxy, serverBuffer)
  /\ client # "none" => serverBuffer = << >>

RevokedInv == TokensAreNew /\ FramesAreOrdered

-----------------------------------------------------------------------------
(* Sequences of frames.                                                    *)

(* Joining two queues of which one is older than the other. *)
LEMMA OrderedConcat ==
  ASSUME NEW T, NEW S, NEW s \in Seq(S), NEW t \in Seq(S), Ordered(T, s), Ordered(T, t),
         \A m \in AgentMaps(s), l \in AgentMaps(t) : Older(T, m, l)
  PROVE  Ordered(T, s \o t) /\ AgentMaps(s \o t) \subseteq AgentMaps(s) \cup AgentMaps(t)
  <1>1. /\ Len(s) \in Nat /\ Len(t) \in Nat /\ Len(s \o t) = Len(s) + Len(t)
        /\ \A i \in 1 .. Len(s) + Len(t) : (s \o t)[i] = IF i <= Len(s) THEN s[i] ELSE t[i - Len(s)]
    OBVIOUS
  <1>2. ASSUME NEW i \in 1 .. Len(s \o t)
        PROVE  \/ i <= Len(s) /\ i \in 1 .. Len(s) /\ (s \o t)[i] = s[i]
               \/ i > Len(s) /\ i - Len(s) \in 1 .. Len(t) /\ (s \o t)[i] = t[i - Len(s)]
    BY <1>1
  <1>3. \A i \in 1 .. Len(s) : s[i].type = "agents" => s[i].map \in AgentMaps(s)
    BY DEF AgentMaps
  <1>4. \A i \in 1 .. Len(t) : t[i].type = "agents" => t[i].map \in AgentMaps(t)
    BY DEF AgentMaps
  <1>5. AgentMaps(s \o t) \subseteq AgentMaps(s) \cup AgentMaps(t)
    BY <1>2, <1>3, <1>4 DEF AgentMaps
  <1>6. ASSUME NEW i \in 1 .. Len(s \o t), NEW j \in 1 .. Len(s \o t), i < j,
               (s \o t)[i].type = "agents", (s \o t)[j].type = "agents"
        PROVE  Older(T, (s \o t)[i].map, (s \o t)[j].map)
    <2>1. CASE j <= Len(s)
      <3>1. i \in 1 .. Len(s) /\ j \in 1 .. Len(s) /\ (s \o t)[i] = s[i] /\ (s \o t)[j] = s[j]
        BY <1>1, <1>6, <2>1
      <3> QED
        BY <1>6, <3>1 DEF Ordered
    <2>2. CASE i > Len(s)
      <3>1. /\ i - Len(s) \in 1 .. Len(t) /\ j - Len(s) \in 1 .. Len(t) /\ i - Len(s) < j - Len(s)
            /\ (s \o t)[i] = t[i - Len(s)] /\ (s \o t)[j] = t[j - Len(s)]
        BY <1>1, <1>6, <2>2
      <3> QED
        BY <1>6, <3>1 DEF Ordered
    <2>3. CASE i <= Len(s) /\ j > Len(s)
      BY <1>2, <1>3, <1>4, <1>6, <2>3
    <2> QED
      BY <1>1, <2>1, <2>2, <2>3
  <1> QED
    BY <1>5, <1>6 DEF Ordered

(* A part of a queue in order is in order. *)
LEMMA OrderedSubSeq ==
  ASSUME NEW T, NEW S, NEW s \in Seq(S), NEW i \in 1 .. Len(s) + 1, NEW j \in 0 .. Len(s), Ordered(T, s)
  PROVE  Ordered(T, SubSeq(s, i, j)) /\ AgentMaps(SubSeq(s, i, j)) \subseteq AgentMaps(s)
  <1>1. \A k \in 1 .. Len(SubSeq(s, i, j)) : i + k - 1 \in 1 .. Len(s) /\ SubSeq(s, i, j)[k] = s[i + k - 1]
    OBVIOUS
  <1>2. \A k \in 1 .. Len(SubSeq(s, i, j)), l \in 1 .. Len(SubSeq(s, i, j)) : k < l => i + k - 1 < i + l - 1
    OBVIOUS
  <1> QED
    BY <1>1, <1>2 DEF Ordered, AgentMaps

(* So is what a full buffer keeps of it. *)
LEMMA OrderedNewest ==
  ASSUME NEW T, NEW S, NEW s \in Seq(S), NEW n \in Nat, Ordered(T, s)
  PROVE  Ordered(T, Newest(s, n)) /\ AgentMaps(Newest(s, n)) \subseteq AgentMaps(s)
  <1>1. CASE Len(s) > n
    <2>1. Len(s) - n + 1 \in 1 .. Len(s) + 1 /\ Len(s) \in 0 .. Len(s)
      BY <1>1
    <2> QED
      BY <1>1, <2>1, OrderedSubSeq DEF Newest
  <1>2. CASE ~(Len(s) > n)
    BY <1>2 DEF Newest
  <1> QED
    BY <1>1, <1>2

(* The first frame is older than the rest. *)
LEMMA OrderedTail ==
  ASSUME NEW T, NEW S, NEW s \in Seq(S), s # << >>, Ordered(T, s)
  PROVE  /\ Ordered(T, Tail(s)) /\ AgentMaps(Tail(s)) \subseteq AgentMaps(s)
         /\ Head(s).type = "agents" => /\ Head(s).map \in AgentMaps(s)
                                       /\ \A m \in AgentMaps(Tail(s)) : Older(T, Head(s).map, m)
  <1>1. /\ Len(s) \in Nat \ {0} /\ Len(Tail(s)) = Len(s) - 1 /\ Head(s) = s[1]
        /\ \A i \in 1 .. Len(Tail(s)) : Tail(s)[i] = s[i + 1]
    OBVIOUS
  <1>2. \A i \in 1 .. Len(Tail(s)) : i + 1 \in 1 .. Len(s) /\ 1 < i + 1
    BY <1>1
  <1>3. 1 \in 1 .. Len(s)
    BY <1>1
  <1>4. \A i, j \in 1 .. Len(Tail(s)) : i < j => i + 1 < j + 1
    BY <1>1
  <1>5. Ordered(T, Tail(s))
    BY <1>1, <1>2, <1>4 DEF Ordered
  <1>6. AgentMaps(Tail(s)) \subseteq AgentMaps(s)
    BY <1>1, <1>2 DEF AgentMaps
  <1>7. ASSUME Head(s).type = "agents"
        PROVE  /\ Head(s).map \in AgentMaps(s)
               /\ \A m \in AgentMaps(Tail(s)) : Older(T, Head(s).map, m)
    BY <1>1, <1>2, <1>3, <1>7 DEF Ordered, AgentMaps
  <1> QED
    BY <1>5, <1>6, <1>7

(* Pushes of the newest map, into the buffer, on a connection, and after   *)
(* the buffer.                                                             *)
LEMMA NewestPushed ==
  ASSUME NEW T, NEW c, NEW S, NEW p \in Seq(S), NEW b \in Seq(S), InOrder(T, c, p, b),
         NEW L, AllTold(T, L), \A m : Older(T, m, L),
         NEW msgs \in Seq(S), AgentMaps(msgs) \subseteq {L}
  PROVE  /\ InOrder(T, c, p, Newest(b \o msgs, ServerBuffer))
         /\ b = << >> => InOrder(T, c, p \o msgs, b)
         /\ InOrder(T, c, (p \o b) \o msgs, << >>)
  <1>1. Ordered(T, msgs)
    <2>1. \A i \in 1 .. Len(msgs) : msgs[i].type = "agents" => msgs[i].map \in AgentMaps(msgs)
      BY DEF AgentMaps
    <2> QED
      BY <2>1 DEF Ordered
  <1>2. Ordered(T, p) /\ Ordered(T, b) /\ \A m \in AgentMaps(p), l \in AgentMaps(b) : Older(T, m, l)
    BY DEF InOrder
  <1>3. Ordered(T, b \o msgs) /\ AgentMaps(b \o msgs) \subseteq AgentMaps(b) \cup {L} /\ b \o msgs \in Seq(S)
    BY <1>1, <1>2, OrderedConcat
  <1>4. Ordered(T, p \o msgs) /\ AgentMaps(p \o msgs) \subseteq AgentMaps(p) \cup {L}
    BY <1>1, <1>2, OrderedConcat
  <1>5. Ordered(T, p \o b) /\ AgentMaps(p \o b) \subseteq AgentMaps(p) \cup AgentMaps(b) /\ p \o b \in Seq(S)
    BY <1>2, OrderedConcat
  <1>6. Ordered(T, (p \o b) \o msgs) /\ AgentMaps((p \o b) \o msgs) \subseteq AgentMaps(p) \cup AgentMaps(b) \cup {L}
    <2>1. PICK q \in Seq(S) : q = p \o b
      BY <1>5
    <2>2. Ordered(T, q) /\ AgentMaps(q) \subseteq AgentMaps(p) \cup AgentMaps(b)
      BY <1>5, <2>1
    <2>3. \A m \in AgentMaps(q), l \in AgentMaps(msgs) : Older(T, m, l)
      OBVIOUS
    <2>4. Ordered(T, q \o msgs) /\ AgentMaps(q \o msgs) \subseteq AgentMaps(q) \cup AgentMaps(msgs)
      BY <1>1, <2>2, <2>3, OrderedConcat
    <2> QED
      BY <2>1, <2>2, <2>4
  <1>7. /\ Ordered(T, Newest(b \o msgs, ServerBuffer))
        /\ AgentMaps(Newest(b \o msgs, ServerBuffer)) \subseteq AgentMaps(b) \cup {L}
    BY <1>3, OrderedNewest, SizeAssumption
  <1>8. Ordered(T, << >>) /\ AgentMaps(<< >>) = {}
    BY DEF Ordered, AgentMaps
  <1>9. InOrder(T, c, p, Newest(b \o msgs, ServerBuffer))
    BY <1>2, <1>7 DEF InOrder
  <1>10. b = << >> => InOrder(T, c, p \o msgs, b)
    BY <1>4, <1>8 DEF InOrder
  <1>11. InOrder(T, c, (p \o b) \o msgs, << >>)
    BY <1>6, <1>8 DEF InOrder
  <1> QED
    BY <1>9, <1>10, <1>11

(* What is in order stays in order when a new token is told. *)
LEMMA TellKeepsOrder ==
  ASSUME NEW T \in [Agent -> Seq(Nat)], NEW a \in Agent, NEW t \in Nat, ~IsTold(T, t),
         NEW U, U = [T EXCEPT ![a] = Append(T[a], t)],
         NEW c, NEW p, NEW b, InOrder(T, c, p, b)
  PROVE  InOrder(U, c, p, b)
  <1>1. /\ Len(T[a]) \in Nat /\ Len(U[a]) = Len(T[a]) + 1 /\ U[a][Len(T[a]) + 1] = t
        /\ \A k \in 1 .. Len(T[a]) : U[a][k] = T[a][k]
        /\ \A d \in Agent \ {a} : U[d] = T[d]
    OBVIOUS
  <1>2. \A x : IsTold(T, x) => IsTold(U, x)
    <2> SUFFICES ASSUME NEW x, NEW d \in Agent, NEW k \in 1 .. Len(T[d]), T[d][k] = x PROVE IsTold(U, x)
      BY DEF IsTold
    <2>1. k \in 1 .. Len(U[d]) /\ U[d][k] = x
      BY <1>1
    <2> QED
      BY <2>1 DEF IsTold
  <1>3. ASSUME NEW d \in Agent, NEW k \in 1 .. Len(U[d]), IsTold(T, U[d][k])
        PROVE  k \in 1 .. Len(T[d]) /\ U[d][k] = T[d][k]
    BY <1>1, <1>3
  <1>4. \A m : AllTold(T, m) => AllTold(U, m)
    BY <1>2 DEF AllTold
  <1>5. ASSUME NEW m, NEW l, AllTold(T, m), AllTold(T, l), Older(T, m, l) PROVE Older(U, m, l)
    BY <1>3, <1>5 DEF Older, AllTold
  <1>6. \A i \in 1 .. Len(p) : p[i].type = "agents" => AllTold(T, p[i].map)
    BY DEF InOrder, AgentMaps
  <1>7. \A i \in 1 .. Len(b) : b[i].type = "agents" => AllTold(T, b[i].map)
    BY DEF InOrder, AgentMaps
  <1>8. Ordered(U, p) /\ Ordered(U, b)
    BY <1>5, <1>6, <1>7 DEF InOrder, Ordered
  <1> QED
    BY <1>4, <1>5, <1>8 DEF InOrder

-----------------------------------------------------------------------------
(* Tokens.                                                                 *)

(* Every history of told tokens is a sequence, and tokens are numbers. *)
LEMMA ToldTypes ==
  ASSUME TableInv
  PROVE  /\ told \in [Agent -> Seq(Nat)] /\ issued \in Nat
         /\ \A a \in Agent : \A k \in 1 .. Len(told[a]) : told[a][k] \in Nat
         /\ \A c \in Writing : call[c].token \in Nat
  BY FieldsOfCalls DEF TableInv, TableTypes, Writing

(* A call that begins to write has a token nobody has been told. *)
LEMMA BeginKeepsTokens ==
  ASSUME TableInv, TokensAreNew, NEW c \in Call, NEW w \in Waits,
         call' = [call EXCEPT ![c] = w], told' = told,
         \/ w.op \in {"create", "rotate"} /\ w.token = issued + 1 /\ issued' = issued + 1
         \/ w.op \notin {"create", "rotate"} /\ issued' = issued
  PROVE  TokensAreNew'
  <1>1. \A d \in Call : call'[d] = IF d = c THEN w ELSE call[d]
    BY OneCall DEF TableInv
  <1>2. issued \in Nat /\ issued' >= issued /\ \A d \in Writing : call[d].token \in Nat
    BY ToldTypes
  <1>3. \A a \in Agent : \A k \in 1 .. Len(told[a]) : told[a][k] \in Nat /\ told[a][k] <= issued
    BY ToldTypes DEF TokensAreNew
  <1>4. \A t : IsTold(told, t) => t <= issued /\ t <= issued'
    BY <1>2, <1>3 DEF IsTold
  <1>5. \A d \in Writing' : (d = c /\ w.op \in {"create", "rotate"}) \/ (d # c /\ d \in Writing /\ call'[d] = call[d])
    BY <1>1 DEF Writing
  <1>6. ASSUME NEW d \in Writing' PROVE call'[d].token <= issued' /\ ~IsTold(told, call'[d].token)
    BY <1>1, <1>2, <1>4, <1>5 DEF TokensAreNew
  <1>7. ASSUME NEW d \in Writing', NEW e \in Writing', call'[d].token = call'[e].token PROVE d = e
    BY <1>1, <1>2, <1>5, <1>7 DEF TokensAreNew
  <1>8. \A a \in Agent : \A k \in 1 .. Len(told[a]) : told[a][k] <= issued'
    BY <1>2, <1>3
  <1> QED
    BY <1>6, <1>7, <1>8 DEF TokensAreNew

(* A call that ends tells its token, and has none any more. *)
LEMMA TellKeepsTokens ==
  ASSUME TableInv, TokensAreNew, NEW c \in Call, c \in Writing, NEW a \in Agent,
         call' = [call EXCEPT ![c] = Idle], Tell(a, call[c].token), issued' = issued
  PROVE  TokensAreNew'
  <1>1. \A d \in Call : call'[d] = IF d = c THEN Idle ELSE call[d]
    BY OneCall, IdleWaits DEF TableInv
  <1>2. Writing' \subseteq Writing \ {c} /\ \A d \in Writing' : call'[d] = call[d]
    BY <1>1, IdleWaits DEF Writing
  <1>3. PICK t \in Nat : t = call[c].token
    BY ToldTypes
  <1>4. ~IsTold(told, t) /\ t <= issued /\ \A d \in Writing \ {c} : call[d].token # t
    BY <1>3 DEF TokensAreNew
  <1>5. told \in [Agent -> Seq(Nat)] /\ told' = [told EXCEPT ![a] = Append(told[a], t)]
    BY <1>3, ToldTypes DEF Tell
  <1>6. /\ Len(told[a]) \in Nat /\ Len(told'[a]) = Len(told[a]) + 1 /\ told'[a][Len(told[a]) + 1] = t
        /\ \A k \in 1 .. Len(told[a]) : told'[a][k] = told[a][k]
        /\ \A b \in Agent \ {a} : told'[b] = told[b]
    BY <1>5
  <1>7. ASSUME NEW b \in Agent, NEW k \in 1 .. Len(told'[b])
        PROVE  \/ k \in 1 .. Len(told[b]) /\ told'[b][k] = told[b][k]
               \/ b = a /\ k = Len(told[a]) + 1 /\ told'[b][k] = t
    BY <1>6
  <1>8. \A x : IsTold(told', x) => IsTold(told, x) \/ x = t
    BY <1>7 DEF IsTold
  <1>9. ToldOnce(told')
    <2> SUFFICES ASSUME NEW b \in Agent, NEW d \in Agent, NEW j \in 1 .. Len(told'[b]),
                        NEW k \in 1 .. Len(told'[d]), told'[b][j] = told'[d][k]
                 PROVE  b = d /\ j = k
      BY DEF ToldOnce
    <2>1. \A e \in Agent : \A i \in 1 .. Len(told[e]) : told[e][i] # t
      BY <1>4 DEF IsTold
    <2>2. \/ j \in 1 .. Len(told[b]) /\ told'[b][j] = told[b][j]
          \/ b = a /\ j = Len(told[a]) + 1 /\ told'[b][j] = t
      BY <1>7
    <2>3. \/ k \in 1 .. Len(told[d]) /\ told'[d][k] = told[d][k]
          \/ d = a /\ k = Len(told[a]) + 1 /\ told'[d][k] = t
      BY <1>7
    <2>4. CASE j \in 1 .. Len(told[b]) /\ told'[b][j] = told[b][j]
      <3>1. told[b][j] # t
        BY <2>1, <2>4
      <3>2. k \in 1 .. Len(told[d]) /\ told'[d][k] = told[d][k]
        BY <2>3, <2>4, <3>1
      <3>3. ToldOnce(told) /\ told[b][j] = told[d][k]
        BY <2>4, <3>2 DEF TokensAreNew
      <3> QED
        BY <2>4, <3>2, <3>3 DEF ToldOnce
    <2>5. CASE b = a /\ j = Len(told[a]) + 1 /\ told'[b][j] = t
      <3>1. ~(k \in 1 .. Len(told[d]) /\ told'[d][k] = told[d][k])
        BY <2>1, <2>5
      <3> QED
        BY <2>3, <2>5, <3>1
    <2> QED
      BY <2>2, <2>4, <2>5
  <1>10. \A b \in Agent : \A k \in 1 .. Len(told'[b]) : told'[b][k] <= issued
    BY <1>4, <1>7 DEF TokensAreNew
  <1>11. \A d \in Writing' : call'[d].token <= issued /\ ~IsTold(told', call'[d].token)
    BY <1>2, <1>4, <1>8 DEF TokensAreNew
  <1>12. \A d, e \in Writing' : call'[d].token = call'[e].token => d = e
    BY <1>2 DEF TokensAreNew
  <1> QED
    BY <1>9, <1>10, <1>11, <1>12 DEF TokensAreNew

(* Nothing else has to do with tokens. *)
LEMMA OthersKeepTokens ==
  ASSUME TableInv, TokensAreNew, told' = told, issued' = issued,
         \/ call' = call
         \/ \E c \in Call : call' = [call EXCEPT ![c] = Idle]
         \/ call' = [c \in Call |-> Idle]
  PROVE  TokensAreNew'
  <1>1. \A c \in Call : call'[c] = call[c] \/ call'[c] = Idle
    BY DEF TableInv, TableTypes
  <1>2. Writing' \subseteq Writing /\ \A c \in Writing' : call'[c] = call[c]
    BY <1>1, IdleWaits DEF Writing
  <1> QED
    BY <1>2 DEF TokensAreNew

(* Every step keeps tokens new, and what it tells is a new token. *)
LEMMA StepKeepsTokens ==
  ASSUME TableInv, TokensAreNew, [Next]_vars
  PROVE  /\ TokensAreNew'
         /\ \/ told' = told
            \/ \E a \in Agent, t \in Nat : ~IsTold(told, t) /\ told' = [told EXCEPT ![a] = Append(told[a], t)]
  <1> DEFINE Tells == \E a \in Agent, t \in Nat :
                        ~IsTold(told, t) /\ told' = [told EXCEPT ![a] = Append(told[a], t)]
  <1>1. ASSUME NEW c \in Call, NEW a \in Agent, c \in Writing, Return(c), Tell(a, call[c].token), issued' = issued
        PROVE  TokensAreNew' /\ Tells
    <2>1. call[c].token \in Nat /\ ~IsTold(told, call[c].token)
      BY <1>1, ToldTypes DEF TokensAreNew
    <2> QED
      BY <1>1, <2>1, TellKeepsTokens DEF Return, Tell
  <1>2. CASE \E c \in Call, n \in Name : CreateStart(c, n)
    <2>1. PICK c \in Call, n \in Name : CreateStart(c, n)
      BY <1>2
    <2>2. issued + 1 \in Nat
      BY ToldTypes
    <2>3. PICK w \in Waits : w = [op |-> "create", name |-> n, token |-> issued + 1]
      BY <2>2 DEF Waits
    <2>4. call' = [call EXCEPT ![c] = w] /\ told' = told /\ issued' = issued + 1
          /\ w.op = "create" /\ w.token = issued + 1
      BY <2>1, <2>3 DEF CreateStart, Start
    <2> QED
      BY <2>4, BeginKeepsTokens
  <1>3. CASE \E c \in Call, a \in Agent : RotateStart(c, a)
    <2>1. PICK c \in Call, a \in Agent : RotateStart(c, a)
      BY <1>3
    <2>2. issued + 1 \in Nat
      BY ToldTypes
    <2>3. PICK w \in Waits : w = [op |-> "rotate", agent |-> a, token |-> issued + 1]
      BY <2>2 DEF Waits
    <2>4. call' = [call EXCEPT ![c] = w] /\ told' = told /\ issued' = issued + 1
          /\ w.op = "rotate" /\ w.token = issued + 1
      BY <2>1, <2>3 DEF RotateStart, Start
    <2> QED
      BY <2>4, BeginKeepsTokens
  <1>4. CASE \E c \in Call, a \in Agent, t \in Token, i \in Ip : RegisterStart(c, a, t, i)
    <2>1. PICK c \in Call, a \in Agent, t \in Token, i \in Ip : RegisterStart(c, a, t, i)
      BY <1>4
    <2>2. (t = rows[a].token) \in BOOLEAN
      OBVIOUS
    <2>3. PICK w \in Waits : w = [op |-> "register", agent |-> a, ip |-> i, match |-> t = rows[a].token]
      BY <2>2 DEF Waits
    <2>4. call' = [call EXCEPT ![c] = w] /\ told' = told /\ issued' = issued /\ w.op = "register"
      BY <2>1, <2>3 DEF RegisterStart, Start
    <2> QED
      BY <2>4, BeginKeepsTokens
  <1>5. CASE \/ \E a \in Agent, n \in Name, e \in BOOLEAN : Update(a, n, e)
             \/ \E a \in Agent : Delete(a)
             \/ Sighup
    BY <1>5, OthersKeepTokens DEF Update, Delete, Sighup, table
  <1>6. CASE \E c \in Call : Finish(c)
    <2>1. PICK c \in Call : Finish(c)
      BY <1>6
    <2>2. CASE CreateEnd(c)
      <3>1. c \in Writing /\ Return(c) /\ issued' = issued
        BY <2>2 DEF CreateEnd, Writing
      <3>2. told' = told \/ (Tell(lastId + 1, call[c].token) /\ lastId' = lastId + 1)
        BY <2>2 DEF CreateEnd
      <3>3. CASE told' = told
        BY <3>1, <3>3, OthersKeepTokens DEF Return
      <3>4. CASE Tell(lastId + 1, call[c].token) /\ lastId' = lastId + 1
        <4>1. lastId + 1 \in Agent
          <5>1. /\ lastId \in Nat /\ MaxAgents \in Nat /\ lastId + Cardinality(Creating) <= MaxAgents
                /\ c \in Creating /\ IsFiniteSet(Creating)
            BY <2>2, SizeAssumption, CallAssumption, FS_Subset
               DEF TableInv, TableTypes, RoomForCreations, Creating, CreateEnd
          <5>2. Cardinality(Creating) \in Nat /\ Cardinality(Creating) # 0
            BY <5>1, FS_CardinalityType, FS_EmptySet
          <5> QED
            BY <5>1, <5>2 DEF Agent
        <4>2. PICK a \in Agent : a = lastId + 1
          BY <4>1
        <4> QED
          BY <1>1, <3>1, <3>4, <4>2
      <3> QED
        BY <3>2, <3>3, <3>4
    <2>3. CASE RotateEnd(c)
      <3>1. c \in Writing /\ Return(c) /\ issued' = issued /\ Tell(call[c].agent, call[c].token)
        BY <2>3 DEF RotateEnd, Writing
      <3>2. PICK a \in Agent : a = call[c].agent
        BY <2>3, FieldsOfCalls DEF RotateEnd, TableInv, TableTypes
      <3> QED
        BY <1>1, <3>1, <3>2
    <2>4. CASE RegisterEnd(c)
      BY <2>4, OthersKeepTokens DEF RegisterEnd, Return
    <2> QED
      BY <2>1, <2>2, <2>3, <2>4 DEF Finish
  <1>7. CASE Link
    BY <1>7, OthersKeepTokens DEF Link, Dial, Accept, ClientGone, Read, ConnLost, table
  <1>8. CASE Faults
    BY <1>8, OthersKeepTokens DEF Faults, Break, ProxyCrash, ProxyStart, ServerCrash, ServerStart, table
  <1>9. CASE UNCHANGED vars
    BY <1>9, OthersKeepTokens DEF vars, table
  <1> QED
    BY <1>2, <1>3, <1>4, <1>5, <1>6, <1>7, <1>8, <1>9 DEF Next, Ask

-----------------------------------------------------------------------------
(* Frames.                                                                 *)

(* What the table says is the newest there is. *)
NewestListing == AllTold(told, Listing) /\ \A m : Older(told, m, Listing)

LEMMA ListingIsNewest == TableInv /\ TokensAreNew => NewestListing
  <1> SUFFICES ASSUME TableInv, TokensAreNew PROVE NewestListing
    OBVIOUS
  <1>1. ASSUME NEW n \in DOMAIN Listing
        PROVE  \E b \in Agent : /\ Len(told[b]) \in 1 .. Len(told[b])
                                /\ Listing[n].token = told[b][Len(told[b])]
    <2>1. PICK a \in DOMAIN rows : rows[a].name = n
      BY <1>1 DEF Listing
    <2>2. PICK b : b = IdOf(n)
      OBVIOUS
    <2>3. b \in DOMAIN rows /\ b \in Agent /\ Listing[n].token = rows[b].token
      BY <1>1, <2>1, <2>2 DEF IdOf, Listing, TableInv, TableTypes
    <2>4. told[b] \in Seq(Nat) /\ told[b] # << >> /\ rows[b].token = Last(told[b])
      BY <2>3 DEF TableInv, TableTypes, LastTokenTold
    <2>5. Len(told[b]) \in 1 .. Len(told[b]) /\ Last(told[b]) = told[b][Len(told[b])]
      BY <2>4 DEF Last
    <2> QED
      BY <2>3, <2>4, <2>5
  <1>2. AllTold(told, Listing)
    BY <1>1 DEF AllTold, IsTold
  <1>3. ASSUME NEW m, NEW n \in DOMAIN m \cap DOMAIN Listing, NEW a \in Agent,
               NEW j \in 1 .. Len(told[a]), NEW k \in 1 .. Len(told[a]), told[a][k] = Listing[n].token
        PROVE  j <= k
    <2>1. PICK b \in Agent : Len(told[b]) \in 1 .. Len(told[b]) /\ Listing[n].token = told[b][Len(told[b])]
      BY <1>1, <1>3
    <2>2. a = b /\ k = Len(told[b])
      BY <1>3, <2>1 DEF TokensAreNew, ToldOnce
    <2> QED
      BY <1>3, <2>2
  <1>4. \A m : Older(told, m, Listing)
    BY <1>3 DEF Older
  <1> QED
    BY <1>2, <1>4 DEF NewestListing

(* A push of what the table says. *)
LEMMA SendKeepsFrames ==
  ASSUME QueuesAreSequences, NEW T, InOrder(T, creds, toProxy, serverBuffer),
         client # "none" => serverBuffer = << >>,
         NEW L, AllTold(T, L), \A m : Older(T, m, L),
         NEW R, NEW msgs \in Seq(R), AgentMaps(msgs) \subseteq {L}, Send(msgs)
  PROVE  /\ InOrder(T, creds', toProxy', serverBuffer')
         /\ client' # "none" => serverBuffer' = << >>
  <1>1. PICK P, B : toProxy \in Seq(P) /\ serverBuffer \in Seq(B)
    BY DEF QueuesAreSequences
  <1>2. PICK c : c = creds
    OBVIOUS
  <1>2a. PICK p \in Seq(P \cup B \cup R) : p = toProxy
    BY <1>1
  <1>2b. PICK b \in Seq(P \cup B \cup R) : b = serverBuffer
    BY <1>1
  <1>3. msgs \in Seq(P \cup B \cup R)
    OBVIOUS
  <1>4. InOrder(T, c, p, b)
    BY <1>2, <1>2a, <1>2b
  <1>5. /\ InOrder(T, c, p, Newest(b \o msgs, ServerBuffer))
        /\ b = << >> => InOrder(T, c, p \o msgs, b)
    BY <1>3, <1>4, NewestPushed
  <1>6. creds' = creds /\ client' = client
    BY DEF Send, proxyVars
  <1>7. CASE client = "live" /\ toProxy' = toProxy \o msgs /\ UNCHANGED serverBuffer
    BY <1>2, <1>2a, <1>2b, <1>5, <1>6, <1>7
  <1>8. CASE client = "dead" /\ UNCHANGED <<toProxy, serverBuffer>>
    BY <1>6, <1>8
  <1>9. CASE /\ client = "none"
             /\ serverBuffer' = Newest(serverBuffer \o msgs, ServerBuffer)
             /\ UNCHANGED toProxy
    BY <1>2, <1>2a, <1>2b, <1>5, <1>6, <1>9
  <1> QED
    BY <1>7, <1>8, <1>9 DEF Send

(* The connection callback sends the buffer and then what the table says. *)
LEMMA AcceptKeepsFrames ==
  ASSUME QueuesAreSequences, NEW T, InOrder(T, creds, toProxy, serverBuffer),
         NEW L, L = Listing, AllTold(T, L), \A m : Older(T, m, L), Accept
  PROVE  /\ InOrder(T, creds', toProxy', serverBuffer')
         /\ client' # "none" => serverBuffer' = << >>
  <1>1. PICK P, B : toProxy \in Seq(P) /\ serverBuffer \in Seq(B)
    BY DEF QueuesAreSequences
  <1>2. PICK x, y : x = AgentsPush /\ y = IpsPush
    OBVIOUS
  <1>3. x.type = "agents" /\ x.map = L /\ y.type = "ips"
    BY <1>2 DEF AgentsPush, IpsPush
  <1>4. PICK c : c = creds
    OBVIOUS
  <1>4a. PICK p \in Seq(P \cup B \cup {x, y}) : p = toProxy
    BY <1>1
  <1>4b. PICK b \in Seq(P \cup B \cup {x, y}) : b = serverBuffer
    BY <1>1
  <1>5. PICK msgs \in Seq(P \cup B \cup {x, y}) : msgs = <<x, y>>
    <2>1. PICK W : W = P \cup B \cup {x, y}
      OBVIOUS
    <2>2. x \in W /\ y \in W
      BY <2>1
    <2>3. <<x, y>> \in Seq(W)
      BY <2>2
    <2> QED
      BY <2>1, <2>3
  <1>6. AgentMaps(msgs) \subseteq {L}
    BY <1>3, <1>5 DEF AgentMaps
  <1>7. InOrder(T, c, p, b)
    BY <1>4, <1>4a, <1>4b
  <1>8. InOrder(T, c, (p \o b) \o msgs, << >>)
    BY <1>6, <1>7, NewestPushed
  <1>9. creds' = creds /\ serverBuffer' = << >> /\ toProxy' = toProxy \o serverBuffer \o <<AgentsPush, IpsPush>>
    BY DEF Accept, proxyVars
  <1> QED
    BY <1>2, <1>4, <1>4a, <1>4b, <1>5, <1>8, <1>9

(* The proxy takes the oldest frame. *)
LEMMA ReadKeepsFrames ==
  ASSUME QueuesAreSequences, NEW T, InOrder(T, creds, toProxy, serverBuffer), Read
  PROVE  InOrder(T, creds', toProxy', serverBuffer') /\ (creds' = creds \/ Older(T, creds, creds'))
  <1>1. PICK P : toProxy \in Seq(P)
    BY DEF QueuesAreSequences
  <1>2. PICK p \in Seq(P) : p = toProxy
    BY <1>1
  <1>3. /\ p # << >> /\ toProxy' = Tail(p) /\ serverBuffer' = serverBuffer
        /\ ((Head(p).type = "agents" /\ creds' = Head(p).map) \/ creds' = creds)
    BY <1>2 DEF Read, serverVars
  <1>4. Ordered(T, p)
    BY <1>2 DEF InOrder
  <1>5. /\ Ordered(T, Tail(p)) /\ AgentMaps(Tail(p)) \subseteq AgentMaps(p)
        /\ Head(p).type = "agents" => /\ Head(p).map \in AgentMaps(p)
                                      /\ \A m \in AgentMaps(Tail(p)) : Older(T, Head(p).map, m)
    BY <1>3, <1>4, OrderedTail
  <1> QED
    BY <1>2, <1>3, <1>5 DEF InOrder

(* A reset of the socket loses the frames at the end. *)
LEMMA PrefixKeepsFrames ==
  ASSUME QueuesAreSequences, NEW T, NEW c, InOrder(T, c, toProxy, serverBuffer), SomeArrive
  PROVE  InOrder(T, c, toProxy', serverBuffer) /\ InOrder(T, c, toProxy', << >>)
  <1>1. PICK P : toProxy \in Seq(P)
    BY DEF QueuesAreSequences
  <1>2. PICK p \in Seq(P), j \in 0 .. Len(toProxy) : p = toProxy /\ toProxy' = SubSeq(p, 1, j)
    BY <1>1 DEF SomeArrive
  <1>3. Ordered(T, p) /\ 1 \in 1 .. Len(p) + 1 /\ j \in 0 .. Len(p)
    BY <1>2 DEF InOrder
  <1>4. Ordered(T, SubSeq(p, 1, j)) /\ AgentMaps(SubSeq(p, 1, j)) \subseteq AgentMaps(p)
    BY <1>3, OrderedSubSeq
  <1>5. Ordered(T, << >>) /\ AgentMaps(<< >>) = {}
    BY DEF Ordered, AgentMaps
  <1> QED
    BY <1>2, <1>4, <1>5 DEF InOrder

(* The one or two frames of a push. *)
LEMMA FewFrames ==
  ASSUME NEW W, NEW m \in W, NEW n \in W
  PROVE  (\E q \in Seq(W) : q = <<m>>) /\ (\E q \in Seq(W) : q = <<m, n>>)
  <1>1. <<m>> \in Seq(W) /\ <<m, n>> \in Seq(W)
    OBVIOUS
  <1> QED
    BY <1>1

(* Every step keeps the frames in the order of the tokens. *)
LEMMA StepKeepsFrames ==
  ASSUME TableInv, LinkInv, RevokedInv, [Next]_vars, NewestListing'
  PROVE  FramesAreOrdered' /\ (creds' = creds \/ creds' = << >> \/ Older(told, creds, creds'))
  <1>1. PICK T : T = told'
    OBVIOUS
  <1>2. PICK L : L = Listing'
    OBVIOUS
  <1>3. AllTold(T, L) /\ \A m : Older(T, m, L)
    BY <1>1, <1>2 DEF NewestListing
  <1>4. QueuesAreSequences /\ TokensAreNew /\ (client # "none" => serverBuffer = << >>)
    BY DEF LinkInv, RevokedInv, FramesAreOrdered
  <1>5. InOrder(T, creds, toProxy, serverBuffer)
    <2>1. PICK O \in [Agent -> Seq(Nat)] : O = told
      BY ToldTypes
    <2>2. InOrder(O, creds, toProxy, serverBuffer)
      BY <2>1 DEF RevokedInv, FramesAreOrdered
    <2>3. PICK c : c = creds
      OBVIOUS
    <2>4. PICK p : p = toProxy
      OBVIOUS
    <2>5. PICK b : b = serverBuffer
      OBVIOUS
    <2>6. T = O \/ \E a \in Agent, t \in Nat : ~IsTold(O, t) /\ T = [O EXCEPT ![a] = Append(O[a], t)]
      BY <1>1, <1>4, <2>1, StepKeepsTokens
    <2>7. InOrder(T, c, p, b)
      BY <2>2, <2>3, <2>4, <2>5, <2>6, TellKeepsOrder
    <2> QED
      BY <2>3, <2>4, <2>5, <2>7
  <1>6. SUFFICES /\ InOrder(T, creds', toProxy', serverBuffer') /\ (client' # "none" => serverBuffer' = << >>)
                 /\ creds' = creds \/ creds' = << >> \/ Older(told, creds, creds')
    BY <1>1 DEF FramesAreOrdered
  <1>7. ASSUME creds' = creds, toProxy' = toProxy, serverBuffer' = serverBuffer, client' = client \/ serverBuffer' = << >>
        PROVE  /\ InOrder(T, creds', toProxy', serverBuffer') /\ (client' # "none" => serverBuffer' = << >>)
               /\ creds' = creds
    BY <1>4, <1>5, <1>7
  <1>8. ASSUME NEW R, NEW msgs \in Seq(R), AgentMaps(msgs) \subseteq {L}, Send(msgs)
        PROVE  /\ InOrder(T, creds', toProxy', serverBuffer') /\ (client' # "none" => serverBuffer' = << >>)
               /\ creds' = creds
    <2>1. creds' = creds
      BY <1>8 DEF Send, proxyVars
    <2> QED
      BY <1>3, <1>4, <1>5, <1>8, <2>1, SendKeepsFrames
  <1>9. ASSUME PushBoth
        PROVE  /\ InOrder(T, creds', toProxy', serverBuffer') /\ (client' # "none" => serverBuffer' = << >>)
               /\ creds' = creds
    <2>1. PICK m, n : m = AgentsPush' /\ n = IpsPush'
      OBVIOUS
    <2>2. PICK R : R = {m, n}
      OBVIOUS
    <2>3. PICK msgs \in Seq(R) : msgs = <<m, n>>
      <3>1. m \in R /\ n \in R
        BY <2>2
      <3> QED
        BY <3>1, FewFrames
    <2>4. m.type = "agents" /\ m.map = L /\ n.type = "ips"
      BY <1>2, <2>1 DEF AgentsPush, IpsPush
    <2>5. AgentMaps(msgs) \subseteq {L} /\ Send(msgs)
      BY <1>9, <2>1, <2>3, <2>4 DEF AgentMaps, PushBoth
    <2> QED
      BY <1>8, <2>5
  <1>10. CASE Ask
    <2>1. CASE \/ \E c \in Call, n \in Name : CreateStart(c, n)
               \/ \E c \in Call, a \in Agent : RotateStart(c, a)
               \/ \E c \in Call, a \in Agent, t \in Token, i \in Ip : RegisterStart(c, a, t, i)
      BY <1>7, <2>1 DEF CreateStart, RotateStart, RegisterStart, Start, Silent, serverVars, proxyVars
    <2>2. CASE \/ \E a \in Agent, n \in Name, e \in BOOLEAN : Update(a, n, e)
               \/ \E a \in Agent : Delete(a)
      BY <1>9, <2>2 DEF Update, Delete
    <2>3. CASE Sighup
      <3>1. Listing' = Listing /\ Send(<<AgentsPush>>)
        BY <2>3, SameTable DEF Sighup, table
      <3>2. PICK m : m = AgentsPush
        OBVIOUS
      <3>3. PICK R : m \in R
        OBVIOUS
      <3>4. PICK msgs \in Seq(R) : msgs = <<m>>
        BY <3>3, FewFrames
      <3>5. m.map = L
        BY <1>2, <3>1, <3>2 DEF AgentsPush
      <3>6. AgentMaps(msgs) \subseteq {L} /\ Send(msgs)
        BY <3>1, <3>2, <3>4, <3>5 DEF AgentMaps
      <3> QED
        BY <1>8, <3>6
    <2> QED
      BY <1>10, <2>1, <2>2, <2>3 DEF Ask
  <1>11. CASE \E c \in Call : Finish(c)
    <2>1. PICK c \in Call : Finish(c)
      BY <1>11
    <2>2. CASE CreateEnd(c)
      <3>1. Silent \/ PushBoth
        BY <2>2 DEF CreateEnd
      <3> QED
        BY <1>7, <1>9, <3>1 DEF Silent, serverVars, proxyVars
    <2>3. CASE RotateEnd(c)
      BY <1>9, <2>3 DEF RotateEnd
    <2>4. CASE RegisterEnd(c)
      <3>1. PICK m : m = IpsPush'
        OBVIOUS
      <3>2. Silent \/ Send(<<m>>)
        BY <2>4, <3>1 DEF RegisterEnd
      <3>3. CASE Silent
        BY <1>7, <3>3 DEF Silent, serverVars, proxyVars
      <3>4. CASE Send(<<m>>)
        <4>1. PICK R : m \in R
          OBVIOUS
        <4>2. PICK msgs \in Seq(R) : msgs = <<m>>
          BY <4>1, FewFrames
        <4>3. m.type = "ips"
          BY <3>1 DEF IpsPush
        <4>4. AgentMaps(msgs) \subseteq {L} /\ Send(msgs)
          BY <3>4, <4>2, <4>3 DEF AgentMaps
        <4> QED
          BY <1>8, <4>4
      <3> QED
        BY <3>2, <3>3, <3>4
    <2> QED
      BY <2>1, <2>2, <2>3, <2>4 DEF Finish
  <1>12. CASE Link
    <2>1. CASE Dial \/ ConnLost
      BY <1>7, <2>1 DEF Dial, ConnLost, serverVars
    <2>2. CASE ClientGone
      BY <1>4, <1>5, <2>2 DEF ClientGone, proxyVars
    <2>3. CASE Accept
      <3>1. L = Listing /\ creds' = creds
        BY <1>2, <2>3, SameTable DEF Accept, table, proxyVars
      <3> QED
        BY <1>3, <1>4, <1>5, <2>3, <3>1, AcceptKeepsFrames
    <2>4. CASE Read
      <3>1. T = told /\ client' = client /\ serverBuffer' = serverBuffer
        BY <1>1, <2>4 DEF Read, table, serverVars
      <3>2. InOrder(T, creds', toProxy', serverBuffer') /\ (creds' = creds \/ Older(T, creds, creds'))
        BY <1>4, <1>5, <2>4, ReadKeepsFrames
      <3> QED
        BY <1>4, <3>1, <3>2
    <2> QED
      BY <1>12, <2>1, <2>2, <2>3, <2>4 DEF Link
  <1>13. CASE Faults
    <2>1. PICK c : c = creds
      OBVIOUS
    <2>2. SomeArrive => InOrder(T, c, toProxy', serverBuffer) /\ InOrder(T, c, toProxy', << >>)
      BY <1>4, <1>5, <2>1, PrefixKeepsFrames
    <2>3. CASE Break
      <3>1. SomeArrive /\ creds' = creds /\ serverBuffer' = serverBuffer /\ client = "live"
        BY <2>3 DEF Break, proxyVars
      <3> QED
        BY <1>4, <2>1, <2>2, <3>1
    <2>4. CASE ServerCrash
      BY <2>1, <2>2, <2>4 DEF ServerCrash, proxyVars
    <2>5. CASE ServerStart
      BY <1>7, <2>5 DEF ServerStart, proxyVars
    <2>6. CASE ProxyCrash
      <3>1. /\ creds' = << >> /\ toProxy' = << >> /\ serverBuffer' = serverBuffer
            /\ client' # "none" => client # "none"
        BY <2>6 DEF ProxyCrash
      <3>2. Ordered(T, << >>) /\ AgentMaps(<< >>) = {} /\ AllTold(T, << >>) /\ \A m : Older(T, << >>, m)
        BY DEF Ordered, AgentMaps, AllTold, Older
      <3> QED
        BY <1>4, <1>5, <3>1, <3>2 DEF InOrder
    <2>7. CASE ProxyStart
      <3>1. creds' = creds /\ toProxy' = toProxy /\ client' = client
        BY <2>7 DEF ProxyStart
      <3>2. CASE serverBuffer' = serverBuffer
        BY <1>7, <3>1, <3>2
      <3>3. CASE client = "none" /\ serverBuffer' = Newest(serverBuffer \o <<AgentsPush>>, ServerBuffer)
        <4>1. L = Listing
          BY <1>2, <2>7, SameTable DEF ProxyStart, table
        <4>2. PICK m : m = AgentsPush
          OBVIOUS
        <4>3. m.map = L
          BY <4>1, <4>2 DEF AgentsPush
        <4>4. PICK P, B : toProxy \in Seq(P) /\ serverBuffer \in Seq(B)
          BY <1>4 DEF QueuesAreSequences
        <4>5. PICK W : W = P \cup B \cup {m}
          OBVIOUS
        <4>6. m \in W
          BY <4>5
        <4>7. PICK msgs \in Seq(W) : msgs = <<m>>
          BY <4>6, FewFrames
        <4>8. AgentMaps(msgs) \subseteq {L}
          BY <4>3, <4>7 DEF AgentMaps
        <4>9. PICK p \in Seq(W) : p = toProxy
          BY <4>4, <4>5
        <4>10. PICK b \in Seq(W) : b = serverBuffer
          BY <4>4, <4>5
        <4>11. InOrder(T, c, p, b)
          BY <1>5, <2>1, <4>9, <4>10
        <4>12. InOrder(T, c, p, Newest(b \o msgs, ServerBuffer))
          BY <1>3, <4>8, <4>11, NewestPushed
        <4> QED
          BY <2>1, <3>1, <3>3, <4>2, <4>7, <4>9, <4>10, <4>12
      <3> QED
        BY <2>7, <3>2, <3>3 DEF ProxyStart
    <2> QED
      BY <1>13, <2>3, <2>4, <2>5, <2>6, <2>7 DEF Faults
  <1>14. CASE UNCHANGED vars
    BY <1>7, <1>14 DEF vars, serverVars, proxyVars
  <1> QED
    BY <1>10, <1>11, <1>12, <1>13, <1>14 DEF Next

(* At the start one token has been told, and nothing has been sent. *)
LEMMA InitRevoked == Init => RevokedInv
  <1> SUFFICES ASSUME Init PROVE RevokedInv
    OBVIOUS
  <1>1. \A a \in Agent : told[a] = IF a = 1 THEN <<1>> ELSE << >>
    BY DEF Init
  <1>2. \A a \in Agent : \A k \in 1 .. Len(told[a]) : a = 1 /\ k = 1 /\ told[a][k] = 1
    <2> SUFFICES ASSUME NEW a \in Agent, NEW k \in 1 .. Len(told[a]) PROVE a = 1 /\ k = 1 /\ told[a][k] = 1
      OBVIOUS
    <2>1. CASE a = 1
      <3>1. told[a] = <<1>>
        BY <1>1, <2>1
      <3> QED
        BY <2>1, <3>1
    <2>2. CASE a # 1
      <3>1. told[a] = << >>
        BY <1>1, <2>2
      <3> QED
        BY <3>1
    <2> QED
      BY <2>1, <2>2
  <1>3. Writing = {}
    BY DEF Init, Writing, Idle
  <1>4. TokensAreNew
    BY <1>2, <1>3 DEF TokensAreNew, ToldOnce, Init
  <1>5. FramesAreOrdered
    BY DEF FramesAreOrdered, InOrder, Ordered, AgentMaps, AllTold, Older, Init
  <1> QED
    BY <1>4, <1>5 DEF RevokedInv

-----------------------------------------------------------------------------
(* The theorems.                                                           *)

(* An address stands in a row only if somebody has shown the token that    *)
(* row had (agents.js authenticate and registerIp).                        *)
THEOREM EveryAddressIsEarned == Safety => []AddressWasEarned
  <1>1. TableInv => AddressWasEarned
    BY DEF TableInv
  <1> QED
    BY <1>1, InitTable, StepKeepsTable, PTL DEF Safety

(* The token in force is the last one the API has answered with, whatever  *)
(* creations, rotations and deletions overlap (agents.js create and        *)
(* rotateToken).                                                           *)
THEOREM TheLastTokenIsInForce == Safety => []LastTokenTold
  <1>1. TableInv => LastTokenTold
    BY DEF TableInv
  <1> QED
    BY <1>1, InitTable, StepKeepsTable, PTL DEF Safety

(* Once everything sent has been read, the proxy judges by the table       *)
(* (sendAgentsReload, registerIp's onIpRegistered, onConnect, Reload and   *)
(* ReloadIPMap).                                                           *)
THEOREM NothingStaysStale == Safety => []NothingStaleWhenSynced
  BY InitTable, InitLink, StepKeepsTable, StepKeepsLink, LinkShowsInForce, PTL DEF Safety

(* A token that the proxy's registry has seen replaced does not come back  *)
(* into it before the proxy restarts: the frames sent, read and buffered   *)
(* are in the order in which the API told the tokens, whatever is lost,    *)
(* buffered or pushed twice (Handler.Reload; ipc/server.js flushes before  *)
(* onConnect).                                                             *)
THEOREM NoWayBack == Safety => RevokedStaysRevoked
  <1> DEFINE Inv == TableInv /\ LinkInv /\ RevokedInv
  <1>1. Init => Inv
    BY InitTable, InitLink, InitRevoked
  <1>2. TableInv /\ TokensAreNew => NewestListing
    BY ListingIsNewest
  <1>3. TableInv /\ LinkInv /\ RevokedInv /\ [Next]_vars => TableInv' /\ LinkInv' /\ TokensAreNew'
    BY StepKeepsTable, StepKeepsLink, StepKeepsTokens DEF RevokedInv
  <1>4. TableInv' /\ TokensAreNew' => NewestListing'
    BY <1>2, PTL
  <1>5. Inv /\ [Next]_vars => Inv' /\ (creds' = creds \/ creds' = << >> \/ Older(told, creds, creds'))
    BY <1>3, <1>4, StepKeepsFrames DEF RevokedInv
  <1>6. ASSUME Inv, [Next]_vars PROVE StaysRevoked
    <2> SUFFICES ASSUME NEW n \in DOMAIN creds \cap DOMAIN creds', NEW a \in Agent,
                        {creds[n].token, creds'[n].token} \subseteq Range(told[a])
                 PROVE  Position(a, creds[n].token) <= Position(a, creds'[n].token)
      BY DEF StaysRevoked
    <2>1. PICK x, y : x = creds[n].token /\ y = creds'[n].token
      OBVIOUS
    <2>2. DOMAIN told[a] = 1 .. Len(told[a]) /\ Len(told[a]) \in Nat
      BY <1>6 DEF TableInv, TableTypes
    <2>3. \A t \in Range(told[a]) : Position(a, t) \in 1 .. Len(told[a]) /\ told[a][Position(a, t)] = t
      BY <2>2 DEF Position, Range
    <2>4. PICK j \in 1 .. Len(told[a]) : j = Position(a, x) /\ told[a][j] = x
      BY <2>1, <2>3
    <2>5. PICK k \in 1 .. Len(told[a]) : k = Position(a, y) /\ told[a][k] = y
      BY <2>1, <2>3
    <2>6. j <= k
      <3>1. CASE creds' = creds
        BY <2>1, <2>2, <2>4, <2>5, <3>1
      <3>2. CASE creds' = << >>
        BY <3>2
      <3>3. CASE Older(told, creds, creds')
        BY <2>1, <2>4, <2>5, <3>3 DEF Older
      <3> QED
        BY <1>5, <1>6, <3>1, <3>2, <3>3
    <2> QED
      BY <2>1, <2>4, <2>5, <2>6
  <1>7. Inv /\ [Next]_vars => [StaysRevoked]_vars
    BY <1>6
  <1> QED
    BY <1>1, <1>5, <1>7, PTL DEF Safety, RevokedStaysRevoked
=============================================================================
