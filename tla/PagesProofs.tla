------------------------------ MODULE PagesProofs ------------------------------
(***************************************************************************)
(* For any number of items, fetches, failures and visited pages: what a    *)
(* page of the GUI shows when its fetches are over.                        *)
(*                                                                         *)
(* ShowsSelection, OwnWritesShown and EventsKeepUp speak of a page whose   *)
(* fetches have all come, and are not inductive.  Selected, OwnShown and   *)
(* EventsTell say of the last list and the last detail asked, be they      *)
(* under way or shown, what the page will be once they have come.          *)
(***************************************************************************)
EXTENDS Pages, TLAPS

Topics == {"request", "needed", "resolved"}
Thing == Item \cup {Nothing}

(* What is asked has a number, what is answered a version of the tables. *)
FetchUpTo(n, version) ==
  [n : 1 .. n, kind : {"list", "detail", "write"}, of : Thing,
   state : {"asked", "served"}, version : 0 .. version, mine : BOOLEAN]
ShownUpTo(n) == [n : 0 .. n, of : Thing, version : Nat]

Types ==
  /\ db \in Nat /\ asked \in Nat /\ own \in 0 .. db /\ announced \in 0 .. db
  /\ events \in Seq(Topics)
  /\ page \in Page /\ sel \in Thing /\ filter \in Thing
  /\ newest \in [list : 1 .. asked, detail : 0 .. asked]
  /\ asks \subseteq FetchUpTo(asked, db)
  /\ \A a \in asks : a.state = "asked" => a.version = 0
  /\ list \in ShownUpTo(asked) /\ detail \in ShownUpTo(asked)

(* The last list asked is for the filter, the last detail for the          *)
(* selection, whether they are under way or shown.                         *)
LastOnes(kind) == {a \in asks : a.mine /\ a.kind = kind /\ a.n = newest[kind]}
Following == sel # Nothing /\ ~stray

Selected ==
  /\ page # "logs" => filter = Nothing
  /\ \A a \in LastOnes("list") : a.of = filter
  /\ list.n = newest.list => list.of = filter
  /\ Following => /\ \A a \in LastOnes("detail") : a.of = sel
                  /\ DetailIsNewest => detail.of = sel

(* A list asked after a write is served after it, and so is the detail     *)
(* that is asked when that list has come.                                  *)
OwnShown ==
  /\ \A a \in LastOnes("list") : a.state = "served" => a.version >= own
  /\ list.n = newest.list => list.version >= own
  /\ (page = "rules" /\ sel # Nothing /\ list.n = newest.list) =>
       /\ \A a \in LastOnes("detail") : a.state = "served" => a.version >= own
       /\ DetailIsNewest => detail.version >= own

(* Of a list that is behind what was announced an event on its way, or the *)
(* banner, tells.                                                          *)
Announced ==
  \/ lost
  \/ page \notin {"approvals", "logs"}
  \/ page = "approvals" /\ \E k \in DOMAIN events : events[k] \in LoadsFor
  \/ page = "logs" /\ (banner \/ \E k \in DOMAIN events : events[k] = "request")

EventsTell ==
  /\ page \in {"approvals", "logs"} => \A a \in asks : a.kind = "write" => a.mine /\ page = "approvals"
  /\ ~Announced => /\ \A a \in LastOnes("list") : a.state = "served" => a.version >= announced
                   /\ list.n = newest.list => list.version >= announced

Inv == Types /\ Selected /\ OwnShown /\ EventsTell

-----------------------------------------------------------------------------
(* Types. *)

(* A new fetch has the next number; the others stay as they are.           *)
LEMMA AskedTypes ==
  ASSUME Types, NEW rest \in SUBSET asks, NEW kind \in {"list", "detail", "write"}, NEW of \in Thing,
         AskIn(rest, kind, of), db' = db
  PROVE  /\ asked' \in Nat /\ asked' = asked + 1
         /\ newest' \in [list : 1 .. asked', detail : 0 .. asked']
         /\ asks' \subseteq FetchUpTo(asked', db')
         /\ \A a \in asks' : a.state = "asked" => a.version = 0
         /\ \A a \in asks' : a \in rest \/ (a = Fetch(asked + 1, kind, of) /\ a \notin asks)
  <1>1. asked' = asked + 1 /\ asks' = rest \cup {Fetch(asked + 1, kind, of)}
    BY DEF AskIn
  <1>2. Fetch(asked + 1, kind, of) \in FetchUpTo(asked + 1, db)
    BY DEF Fetch, FetchUpTo, Types
  <1>3. rest \subseteq FetchUpTo(asked + 1, db)
    BY DEF FetchUpTo, Types
  <1>4. newest' \in [list : 1 .. asked + 1, detail : 0 .. asked + 1]
    BY DEF AskIn, Types
  <1>5. Fetch(asked + 1, kind, of).n = asked + 1 /\ Fetch(asked + 1, kind, of).version = 0
    BY DEF Fetch
  <1>6. Fetch(asked + 1, kind, of) \notin asks
    BY <1>5 DEF Types, FetchUpTo
  <1> QED
    BY <1>1, <1>2, <1>3, <1>4, <1>5, <1>6 DEF Types

(* An answer that is shown carries the number of its fetch. *)
LEMMA AnswerTypes ==
  ASSUME Types, NEW a \in asks
  PROVE  /\ Answer(a) \in ShownUpTo(asked)
         /\ Answer(a).n = a.n /\ Answer(a).of = a.of /\ Answer(a).version = a.version
  BY DEF Types, FetchUpTo, ShownUpTo, Answer

LEMMA BlankTypes ==
  ASSUME NEW n \in Nat
  PROVE  Blank \in ShownUpTo(n) /\ Blank.n = 0
  BY DEF ShownUpTo, Blank, Thing

(* What was shown is still of the past. *)
LEMMA ShownGrows ==
  ASSUME NEW n \in Nat, NEW x \in ShownUpTo(n)
  PROVE  x \in ShownUpTo(n + 1)
  BY DEF ShownUpTo

(* Most steps take a fetch away or leave them, and may make a new one. *)
Fetches(rest) ==
  NoAsk(rest) \/ \E kind \in {"list", "detail", "write"}, of \in Thing : AskIn(rest, kind, of)

LEMMA FetchesKeepTypes ==
  ASSUME Types, NEW rest \in SUBSET asks, Fetches(rest), db' = db, own' \in 0 .. db, announced' = announced,
         events' \in Seq(Topics), page' \in Page, sel' \in Thing, filter' \in Thing,
         list' \in ShownUpTo(asked), detail' \in ShownUpTo(asked)
  PROVE  Types'
  <1>1. CASE NoAsk(rest)
    BY <1>1 DEF NoAsk, Types
  <1>2. ASSUME NEW kind \in {"list", "detail", "write"}, NEW of \in Thing, AskIn(rest, kind, of)
        PROVE  Types'
    <2>1. /\ asked' \in Nat /\ asked' = asked + 1
          /\ newest' \in [list : 1 .. asked', detail : 0 .. asked']
          /\ asks' \subseteq FetchUpTo(asked', db')
          /\ \A a \in asks' : a.state = "asked" => a.version = 0
      BY <1>2, AskedTypes
    <2>2. list' \in ShownUpTo(asked') /\ detail' \in ShownUpTo(asked')
      BY <2>1, ShownGrows DEF Types
    <2> QED
      BY <2>1, <2>2 DEF Types
  <1> QED
    BY <1>1, <1>2 DEF Fetches

(* Fetches that the page makes of what it is about. *)
LEMMA PageFetches ==
  ASSUME Types
  PROVE  /\ \A rest : NoAsk(rest) => Fetches(rest)
         /\ \A rest : AskIn(rest, "list", Nothing) => Fetches(rest)
         /\ \A rest, of : of \in Thing /\ AskIn(rest, "list", of) => Fetches(rest)
         /\ \A rest, of : of \in Thing /\ AskIn(rest, "detail", of) => Fetches(rest)
         /\ \A rest, of : of \in Thing /\ AskIn(rest, "write", of) => Fetches(rest)
  BY DEF Fetches, Thing

(* Serving a fetch only gives it its version. *)
ServedAs(a, version) == [a EXCEPT !.state = "served", !.version = version]

LEMMA ServedTypes ==
  ASSUME Types, NEW a \in asks, NEW version \in Nat
  PROVE  /\ ServedAs(a, version).n = a.n /\ ServedAs(a, version).kind = a.kind
         /\ ServedAs(a, version).of = a.of /\ ServedAs(a, version).mine = a.mine
         /\ ServedAs(a, version).state = "served" /\ ServedAs(a, version).version = version
         /\ \A top \in Nat : version <= top => ServedAs(a, version) \in FetchUpTo(asked, top)
  <1>1. a \in FetchUpTo(asked, db)
    BY DEF Types
  <1>2. /\ ServedAs(a, version).n = a.n /\ ServedAs(a, version).kind = a.kind
        /\ ServedAs(a, version).of = a.of /\ ServedAs(a, version).mine = a.mine
        /\ ServedAs(a, version).state = "served" /\ ServedAs(a, version).version = version
    BY <1>1 DEF FetchUpTo, ServedAs
  <1>3. ASSUME NEW top \in Nat, version <= top PROVE ServedAs(a, version) \in FetchUpTo(asked, top)
    <2>1. version \in 0 .. top
      BY <1>3
    <2> QED
      BY <1>1, <2>1 DEF FetchUpTo, ServedAs
  <1> QED
    BY <1>2, <1>3

(* What a server's answer changes. *)
LEMMA ServeIs ==
  ASSUME Types, NEW a \in asks, Serve(a)
  PROVE  /\ a.state = "asked"
         /\ UNCHANGED <<view, asked, newest, own, lost, stray, bounds>>
         /\ \/ /\ a.kind = "write" /\ db' = db + 1
               /\ announced' \in {announced, db + 1}
               /\ events' = IF page = "approvals" THEN Append(events, "resolved") ELSE events
               /\ \A b \in asks' : b \in asks \/ (b = ServedAs(a, db + 1) /\ a.mine)
            \/ /\ a.kind \in {"list", "detail"} /\ db' = db /\ events' = events /\ announced' = announced
               /\ \A b \in asks' : b \in asks \/ b = ServedAs(a, db)
  BY DEF Serve, ServedAs

LEMMA ServeKeepsTypes ==
  ASSUME Types, NEW a \in asks, Serve(a)
  PROVE  Types'
  <1>1. /\ db' \in Nat /\ (db' = db \/ db' = db + 1) /\ events' \in Seq(Topics)
        /\ announced' \in 0 .. db' /\ UNCHANGED <<view, asked, newest, own, bounds>>
        /\ \A b \in asks' : b \in asks \/ b = ServedAs(a, db')
    <2>1. CASE a.kind = "write"
      <3>1. /\ db' = db + 1 /\ announced' \in {announced, db + 1} /\ UNCHANGED <<view, asked, newest, own, bounds>>
            /\ events' = IF page = "approvals" THEN Append(events, "resolved") ELSE events
            /\ \A b \in asks' : b \in asks \/ b = ServedAs(a, db')
        BY <2>1, ServeIs
      <3>2. Append(events, "resolved") \in Seq(Topics)
        BY DEF Types, Topics
      <3> QED
        BY <3>1, <3>2 DEF Types
    <2>2. CASE a.kind \in {"list", "detail"}
      BY <2>2, ServeIs DEF Types, Topics
    <2> QED
      BY <2>1, <2>2, ServeIs
  <1>2. \A b \in asks' : b \in FetchUpTo(asked, db') /\ (b.state = "asked" => b.version = 0)
    <2> SUFFICES ASSUME NEW b \in asks' PROVE b \in FetchUpTo(asked, db') /\ (b.state = "asked" => b.version = 0)
      OBVIOUS
    <2>1. CASE b \in asks
      BY <1>1, <2>1 DEF Types, FetchUpTo
    <2>2. CASE b = ServedAs(a, db')
      BY <1>1, <2>2, ServedTypes
    <2> QED
      BY <1>1, <2>1, <2>2
  <1> QED
    BY <1>1, <1>2 DEF Types, view

(* The steps other than the server's, by what they do to the fetches. *)
ArrivalOf(a) == \/ ListArrives(a) \/ PolicyArrives(a) \/ SuggestionArrives(a) \/ BodyArrives(a)
                \/ AgentWritten(a) \/ RuleWritten(a) \/ PolicyDeleted(a) \/ ApprovalResolved(a)
Choice == \/ \E s \in Thing : SelectPolicy(s) \/ SelectApproval(s) \/ SelectEntry(s) \/ Filter(s)
          \/ OpenTab \/ Refresh \/ WriteAgent \/ WriteRule \/ ResolveApproval
ChangeOf == Report \/ Needed \/ OthersResolve \/ HeldRow \/ AgentDeleted \/ OthersConfigure

LEMMA StepIs ==
  ASSUME [Next]_vars
  PROVE  \/ \E a \in asks : Serve(a) \/ Fail(a) \/ ArrivalOf(a)
         \/ Choice \/ EventArrives \/ EventLost
         \/ \E p \in Page : Visit(p)
         \/ ChangeOf
         \/ UNCHANGED vars
  BY Zenon DEF Next, ArrivalOf, Choice, ChangeOf, Thing

LEMMA ArrivalsKeepTypes ==
  ASSUME Types, NEW a \in asks, ArrivalOf(a)
  PROVE  Types'
  <1>1. asks \ {a} \in SUBSET asks /\ sel \in Thing /\ Nothing \in Thing
    BY DEF Types, Thing
  <1>2. Answer(a) \in ShownUpTo(asked) /\ Blank \in ShownUpTo(asked) /\ a.version \in 0 .. db
    BY AnswerTypes, BlankTypes DEF Types, FetchUpTo
  <1>3. Fetches(asks \ {a})
    BY <1>1, PageFetches DEF ArrivalOf, ListArrives, Cur, PolicyArrives, SuggestionArrives, BodyArrives,
       DetailIs, AgentWritten, RuleWritten, PolicyDeleted, ApprovalResolved, Written
  <1>4. /\ db' = db /\ events' = events /\ announced' = announced /\ page' = page /\ filter' = filter
        /\ own' \in {own, a.version} /\ sel' \in {sel, Nothing}
        /\ list' \in {list, Answer(a)} /\ detail' \in {detail, Answer(a), Blank}
    BY DEF ArrivalOf, ListArrives, PolicyArrives, SuggestionArrives, BodyArrives,
       DetailIs, AgentWritten, RuleWritten, PolicyDeleted, ApprovalResolved, Written, Deselected
  <1>5. own' \in 0 .. db /\ sel' \in Thing /\ list' \in ShownUpTo(asked) /\ detail' \in ShownUpTo(asked)
    BY <1>1, <1>2, <1>4 DEF Types
  <1> QED
    BY <1>1, <1>3, <1>4, <1>5, FetchesKeepTypes DEF Types

LEMMA ChoicesKeepTypes ==
  ASSUME Types, Choice
  PROVE  Types'
  <1>1. asks \in SUBSET asks /\ sel \in Thing /\ filter \in Thing /\ Nothing \in Thing
    BY DEF Types, Thing
  <1>2. Blank \in ShownUpTo(asked)
    BY BlankTypes DEF Types
  <1>3. Fetches(asks)
    BY <1>1, PageFetches DEF Choice, SelectPolicy, SelectApproval, SelectEntry, Filter, FetchLogs, OpenTab, Refresh,
       WriteAgent, WriteRule, ResolveApproval, Write, Ask
  <1>4. /\ db' = db /\ events' = events /\ announced' = announced /\ page' = page /\ own' = own /\ list' = list
        /\ sel' \in Thing /\ filter' \in Thing /\ detail' \in {detail, Blank}
    BY <1>1 DEF Choice, SelectPolicy, SelectApproval, SelectEntry, Filter, OpenTab, Refresh,
       WriteAgent, WriteRule, ResolveApproval, Write, view
  <1> QED
    BY <1>1, <1>2, <1>3, <1>4, FetchesKeepTypes DEF Types

LEMMA EventsKeepTypes ==
  ASSUME Types, EventArrives \/ EventLost
  PROVE  Types'
  <1>1. Fetches(asks)
    BY PageFetches DEF EventArrives, EventLost, LoadApprovals, Ask, NoAsk
  <1>2. events' \in Seq(Topics)
    <2>1. events # << >> /\ events' = Tail(events)
      BY DEF EventArrives, EventLost
    <2> QED
      BY <2>1 DEF Types
  <1>3. UNCHANGED <<db, own, announced, page, sel, filter, list, detail>>
    BY DEF EventArrives, EventLost, view
  <1> QED
    BY <1>1, <1>2, <1>3, FetchesKeepTypes DEF Types

LEMMA FailsKeepTypes ==
  ASSUME Types, NEW a \in asks, Fail(a)
  PROVE  Types'
  <1>1. Fetches(asks \ {a}) /\ asks \ {a} \in SUBSET asks
    BY PageFetches DEF Fail
  <1>2. UNCHANGED <<db, own, announced, events, page, sel, filter, list>> /\ detail' \in {detail, Answer(a)}
    BY DEF Fail
  <1>3. detail' \in ShownUpTo(asked)
    BY <1>2, AnswerTypes DEF Types
  <1> QED
    BY <1>1, <1>2, <1>3, FetchesKeepTypes DEF Types

(* On a page just mounted the only fetch of its own is that of its list. *)
LEMMA VisitIs ==
  ASSUME Types, NEW p \in Page, Visit(p)
  PROVE  /\ page' = p /\ db' = 0 /\ own' = 0 /\ asked' = asked + 1 /\ events' = events
         /\ announced' = 0 /\ sel' = Nothing /\ filter' = Nothing /\ list' = Blank /\ detail' = Blank
         /\ newest' = [list |-> asked + 1, detail |-> 0]
         /\ \A b \in asks' : \/ b = FirstFetch(asked + 1)
                             \/ /\ b \in FetchUpTo(asked, 0) /\ b.version = 0
                                /\ ~b.mine /\ b.kind = "write" /\ b.state = "asked"
                                /\ TopicOf(p) = TopicOf(page)
  <1>1. ASSUME NEW b \in asks, b.state = "asked", b.kind = "write"
        PROVE  LET c == [b EXCEPT !.mine = FALSE] IN
               /\ c \in FetchUpTo(asked, 0) /\ c.version = 0 /\ ~c.mine /\ c.kind = "write" /\ c.state = "asked"
    <2>1. b \in FetchUpTo(asked, db) /\ b.version = 0
      BY <1>1 DEF Types
    <2>2. b \in FetchUpTo(asked, 0)
      BY <2>1 DEF FetchUpTo
    <2> QED
      BY <1>1, <2>1, <2>2 DEF FetchUpTo
  <1> QED
    BY <1>1 DEF Visit

LEMMA VisitsKeepTypes ==
  ASSUME Types, NEW p \in Page, Visit(p)
  PROVE  Types'
  <1>1. FirstFetch(asked + 1) \in FetchUpTo(asked + 1, 0) /\ FirstFetch(asked + 1).version = 0
    BY DEF FirstFetch, Fetch, FetchUpTo, Thing, Types
  <1>2. FetchUpTo(asked, 0) \subseteq FetchUpTo(asked + 1, 0)
    BY DEF FetchUpTo, Types
  <1>3. Blank \in ShownUpTo(asked + 1) /\ Nothing \in Thing
    BY BlankTypes DEF Types, Thing
  <1> QED
    BY <1>1, <1>2, <1>3, VisitIs DEF Types

(* What the others change: the tables and what was announced of them.      *)
LEMMA ChangeIs ==
  ASSUME ChangeOf
  PROVE  /\ db' = db + 1 /\ announced' \in {announced, db + 1}
         /\ \E types \in {<<"request">>, <<"needed">>, <<"resolved">>, << >>} : events' = events \o types
         /\ UNCHANGED <<page, sel, filter, banner, list, detail, asks, asked, newest, own, lost, stray>>
  BY DEF ChangeOf, Report, Needed, OthersResolve, HeldRow, AgentDeleted, OthersConfigure, Tell, Silent, Change, view

LEMMA ChangesKeepTypes ==
  ASSUME Types, ChangeOf
  PROVE  Types'
  <1>1. PICK types \in {<<"request">>, <<"needed">>, <<"resolved">>, << >>} : events' = events \o types
    BY ChangeIs
  <1>2. types \in Seq(Topics)
    <2>1. /\ <<"request">> \in Seq(Topics) /\ <<"needed">> \in Seq(Topics)
          /\ <<"resolved">> \in Seq(Topics) /\ << >> \in Seq(Topics)
      BY DEF Topics
    <2> QED
      BY <1>1, <2>1, Zenon
  <1>3. events' \in Seq(Topics)
    BY <1>1, <1>2 DEF Types
  <1>4. FetchUpTo(asked, db) \subseteq FetchUpTo(asked, db + 1)
    BY DEF FetchUpTo, Types
  <1>5. announced' \in 0 .. db + 1
    BY ChangeIs DEF Types
  <1> QED
    BY <1>3, <1>4, <1>5, ChangeIs DEF Types

LEMMA TypesStep == Types /\ [Next]_vars => Types'
  <1> SUFFICES ASSUME Types, [Next]_vars PROVE Types'
    OBVIOUS
  <1>1. CASE UNCHANGED vars
    BY <1>1 DEF Types, vars, view, history
  <1> QED
    BY <1>1, StepIs, ServeKeepsTypes, FailsKeepTypes, ArrivalsKeepTypes, ChoicesKeepTypes, EventsKeepTypes,
       VisitsKeepTypes, ChangesKeepTypes

LEMMA TypesInit == Init => Types
  <1> SUFFICES ASSUME Init PROVE Types
    OBVIOUS
  <1>1. FirstFetch(1) \in FetchUpTo(1, 0) /\ FirstFetch(1).version = 0
    BY DEF FirstFetch, Fetch, FetchUpTo, Thing
  <1> QED
    BY <1>1, BlankTypes DEF Init, Types, Thing

-----------------------------------------------------------------------------
(* The last fetch of each kind. *)

NewOne(kind, of) == Fetch(asked + 1, kind, of)

LEMMA NewOneIs ==
  ASSUME NEW kind, NEW of
  PROVE  /\ NewOne(kind, of).of = of /\ NewOne(kind, of).kind = kind /\ NewOne(kind, of).n = asked + 1
         /\ NewOne(kind, of).state = "asked" /\ NewOne(kind, of).mine
  BY DEF NewOne, Fetch

(* Without a new fetch the last one is the last one before or is gone. *)
LEMMA LastWithoutAsk ==
  ASSUME Types, NEW rest \in SUBSET asks,
         NoAsk(rest) \/ \E of \in Thing : AskIn(rest, "write", of)
  PROVE  /\ LastOnes("list")' \subseteq LastOnes("list") \cap rest
         /\ LastOnes("detail")' \subseteq LastOnes("detail") \cap rest
         /\ newest' = newest
         /\ \A b \in asks' : b \in rest \/ (b.kind = "write" /\ b.mine)
  <1>1. newest' = newest /\ \A b \in asks' : b \in rest \/ (b.kind = "write" /\ b.mine)
    BY NewOneIs DEF NoAsk, AskIn, NewOne
  <1> QED
    BY <1>1 DEF LastOnes, Types

(* A new fetch for the list is the last one for the list. *)
LEMMA LastAfterList ==
  ASSUME Types, NEW rest \in SUBSET asks, NEW of \in Thing, AskIn(rest, "list", of)
  PROVE  /\ LastOnes("list")' \subseteq {NewOne("list", of)}
         /\ LastOnes("detail")' \subseteq LastOnes("detail") \cap rest
         /\ newest'.list = asked + 1 /\ newest'.detail = newest.detail
         /\ \A b \in asks' : b \in rest \/ b = NewOne("list", of)
  <1>1. newest'.list = asked + 1 /\ newest'.detail = newest.detail
    BY DEF AskIn, Types
  <1>2. \A b \in asks' : b \in rest \/ b = NewOne("list", of)
    BY DEF AskIn, NewOne
  <1>3. \A b \in rest : b.n # asked + 1
    BY DEF Types, FetchUpTo
  <1> QED
    BY <1>1, <1>2, <1>3, NewOneIs DEF LastOnes

LEMMA LastAfterDetail ==
  ASSUME Types, NEW rest \in SUBSET asks, NEW of \in Thing, AskIn(rest, "detail", of)
  PROVE  /\ LastOnes("detail")' \subseteq {NewOne("detail", of)}
         /\ LastOnes("list")' \subseteq LastOnes("list") \cap rest
         /\ newest'.detail = asked + 1 /\ newest'.list = newest.list
         /\ \A b \in asks' : b \in rest \/ b = NewOne("detail", of)
  <1>1. newest'.detail = asked + 1 /\ newest'.list = newest.list
    BY DEF AskIn, Types
  <1>2. \A b \in asks' : b \in rest \/ b = NewOne("detail", of)
    BY DEF AskIn, NewOne
  <1>3. \A b \in rest : b.n # asked + 1
    BY DEF Types, FetchUpTo
  <1> QED
    BY <1>1, <1>2, <1>3, NewOneIs DEF LastOnes

(* What is shown is not of a fetch still to be made. *)
LEMMA ShownIsOld ==
  ASSUME Types
  PROVE  list.n # asked + 1 /\ detail.n # asked + 1
  BY DEF Types, ShownUpTo

(* A served fetch stays the last one it was. *)
LEMMA LastAfterServe ==
  ASSUME Types, NEW a \in asks, Serve(a)
  PROVE  \A kind \in {"list", "detail"} : \A b \in LastOnes(kind)' :
           \/ b \in LastOnes(kind)
           \/ /\ a \in LastOnes(kind) /\ b = ServedAs(a, db) /\ db' = db /\ events' = events
              /\ b.of = a.of /\ b.version = db
  <1> SUFFICES ASSUME NEW kind \in {"list", "detail"}, NEW b \in LastOnes(kind)', b \notin LastOnes(kind)
               PROVE  /\ a \in LastOnes(kind) /\ b = ServedAs(a, db) /\ db' = db /\ events' = events
                      /\ b.of = a.of /\ b.version = db
    OBVIOUS
  <1>1. newest' = newest /\ b \in asks' /\ b.mine /\ b.kind = kind /\ b.n = newest[kind]
    BY ServeIs DEF LastOnes
  <1>2. b \notin asks
    BY <1>1 DEF LastOnes
  <1>3. db \in Nat /\ db + 1 \in Nat
    BY DEF Types
  <1>4. CASE a.kind = "write"
    <2>1. b = ServedAs(a, db + 1)
      BY <1>2, <1>4, <1>1, ServeIs
    <2> QED
      BY <1>1, <1>3, <1>4, <2>1, ServedTypes
  <1>5. CASE a.kind \in {"list", "detail"}
    <2>1. b = ServedAs(a, db) /\ db' = db /\ events' = events
      BY <1>2, <1>5, <1>1, ServeIs
    <2> QED
      BY <1>1, <1>3, <2>1, ServedTypes DEF LastOnes
  <1> QED
    BY <1>4, <1>5, ServeIs

(* The fetches of a page just mounted. *)
LEMMA LastAfterVisit ==
  ASSUME Types, NEW p \in Page, Visit(p)
  PROVE  /\ LastOnes("list")' \subseteq {NewOne("list", Nothing)}
         /\ LastOnes("detail")' = {}
         /\ newest'.list = asked + 1 /\ Blank.n = 0 /\ asked + 1 # 0
  <1>1. FirstFetch(asked + 1) = NewOne("list", Nothing)
    BY DEF FirstFetch, NewOne
  <1>2. \A b \in asks' : b = NewOne("list", Nothing) \/ ~b.mine
    BY <1>1, VisitIs
  <1> QED
    BY <1>2, VisitIs, NewOneIs DEF LastOnes, Blank, Types

-----------------------------------------------------------------------------
(* The last list asked is for the filter, the last detail for the          *)
(* selection.                                                              *)

LEMMA ArrivalsKeepSelected ==
  ASSUME Types, Selected, NEW a \in asks, ArrivalOf(a)
  PROVE  Selected'
  <1>1. asks \ {a} \in SUBSET asks /\ sel \in Thing /\ Nothing \in Thing
    BY DEF Types, Thing
  <1>2. Answer(a).n = a.n /\ Answer(a).of = a.of
    BY AnswerTypes
  <1>3. newest.list \in 1 .. asked /\ Blank.n = 0
    BY DEF Types, Blank
  <1>4. CASE ListArrives(a)
    <2>1. list' = Answer(a) /\ UNCHANGED <<page, sel, filter, detail, stray>> /\ a.mine /\ a.kind = "list"
      BY <1>4 DEF ListArrives, Arriving
    <2>2. a.n = newest.list => a.of = filter
      BY <2>1 DEF Selected, LastOnes
    <2>3. CASE NoAsk(asks \ {a})
      <3>1. /\ LastOnes("list")' \subseteq LastOnes("list") /\ LastOnes("detail")' \subseteq LastOnes("detail")
            /\ newest' = newest
        BY <1>1, <2>3, LastWithoutAsk
      <3> QED
        BY <1>2, <2>1, <2>2, <3>1 DEF Selected, Following, DetailIsNewest
    <2>4. CASE AskIn(asks \ {a}, "detail", sel)
      <3>1. /\ LastOnes("detail")' \subseteq {NewOne("detail", sel)} /\ LastOnes("list")' \subseteq LastOnes("list")
            /\ newest'.detail = asked + 1 /\ newest'.list = newest.list
        BY <1>1, <2>4, LastAfterDetail
      <3> QED
        BY <1>2, <2>1, <2>2, <3>1, NewOneIs, ShownIsOld DEF Selected, Following, DetailIsNewest
    <2> QED
      BY <1>4, <2>3, <2>4 DEF ListArrives, Cur
  <1>5. CASE PolicyArrives(a) \/ SuggestionArrives(a) \/ BodyArrives(a)
    <2>1. /\ NoAsk(asks \ {a}) /\ detail' \in {detail, Answer(a)} /\ a.mine /\ a.kind = "detail"
          /\ UNCHANGED <<page, sel, filter, list, stray>>
      BY <1>5 DEF PolicyArrives, SuggestionArrives, BodyArrives, DetailIs, Arriving
    <2>2. /\ LastOnes("list")' \subseteq LastOnes("list") /\ LastOnes("detail")' \subseteq LastOnes("detail")
          /\ newest' = newest
      BY <1>1, <2>1, LastWithoutAsk
    <2>3. a.n = newest.detail => a \in LastOnes("detail")
      BY <2>1 DEF LastOnes
    <2> QED
      BY <1>2, <2>1, <2>2, <2>3 DEF Selected, Following, DetailIsNewest
  <1>6. CASE AgentWritten(a) \/ RuleWritten(a) \/ PolicyDeleted(a) \/ ApprovalResolved(a)
    <2>1. /\ AskIn(asks \ {a}, "list", Nothing) /\ UNCHANGED <<page, filter, list, stray>> /\ page # "logs"
          /\ (sel' = sel /\ detail' = detail) \/ sel' = Nothing
      BY <1>6 DEF AgentWritten, RuleWritten, PolicyDeleted, ApprovalResolved, Written, Deselected
    <2>2. /\ LastOnes("list")' \subseteq {NewOne("list", Nothing)} /\ LastOnes("detail")' \subseteq LastOnes("detail")
          /\ newest'.list = asked + 1 /\ newest'.detail = newest.detail
      BY <1>1, <2>1, LastAfterList
    <2> QED
      BY <2>1, <2>2, NewOneIs, ShownIsOld DEF Selected, Following, DetailIsNewest
  <1> QED
    BY <1>4, <1>5, <1>6 DEF ArrivalOf

LEMMA ChoicesKeepSelected ==
  ASSUME Types, Selected, Choice
  PROVE  Selected'
  <1>1. asks \in SUBSET asks /\ sel \in Thing /\ filter \in Thing /\ Nothing \in Thing
    BY DEF Types, Thing
  <1>2. Blank.n = 0 /\ newest.list \in 1 .. asked
    BY DEF Blank, Types
  <1>3. ASSUME NEW s \in Thing, SelectPolicy(s) \/ SelectApproval(s) PROVE Selected'
    <2>1. UNCHANGED <<page, filter, list, stray>> /\ sel' = s
      BY <1>3 DEF SelectPolicy, SelectApproval
    <2>2. CASE NoAsk(asks) /\ s = Nothing
      <3>1. LastOnes("list")' \subseteq LastOnes("list") /\ newest' = newest
        BY <1>1, <2>2, LastWithoutAsk
      <3> QED
        BY <2>1, <2>2, <3>1 DEF Selected, Following
    <2>3. CASE AskIn(asks, "detail", s) /\ detail' \in {detail, Blank}
      <3>1. /\ LastOnes("detail")' \subseteq {NewOne("detail", s)} /\ LastOnes("list")' \subseteq LastOnes("list")
            /\ newest'.detail = asked + 1 /\ newest'.list = newest.list
        BY <1>1, <2>3, LastAfterDetail
      <3> QED
        BY <2>1, <2>3, <3>1, NewOneIs, ShownIsOld DEF Selected, Following, DetailIsNewest
    <2> QED
      BY <1>3, <2>2, <2>3 DEF SelectPolicy, SelectApproval, Ask
  <1>4. ASSUME NEW s \in Thing, SelectEntry(s) PROVE Selected'
    <2>1. /\ UNCHANGED <<page, filter, list>> /\ sel' = s /\ detail' = Blank
          /\ ~stray' => \A a \in asks : ~(a.mine /\ a.kind = "detail")
      BY <1>4 DEF SelectEntry
    <2>2. ~stray' => LastOnes("detail") = {}
      BY <2>1 DEF LastOnes
    <2>3. CASE NoAsk(asks)
      <3>1. /\ LastOnes("list")' \subseteq LastOnes("list") /\ LastOnes("detail")' \subseteq LastOnes("detail")
            /\ newest' = newest
        BY <1>1, <2>3, LastWithoutAsk
      <3> QED
        BY <2>1, <2>2, <3>1 DEF Selected, Following, DetailIsNewest
    <2>4. CASE AskIn(asks, "detail", s)
      <3>1. /\ LastOnes("detail")' \subseteq {NewOne("detail", s)} /\ LastOnes("list")' \subseteq LastOnes("list")
            /\ newest'.detail = asked + 1 /\ newest'.list = newest.list
        BY <1>1, <2>4, LastAfterDetail
      <3> QED
        BY <2>1, <3>1, NewOneIs DEF Selected, Following, DetailIsNewest
    <2> QED
      BY <1>4, <2>3, <2>4 DEF SelectEntry, Ask
  <1>5. CASE OpenTab
    <2>1. UNCHANGED <<page, sel, filter, list, detail, stray>>
      BY <1>5 DEF OpenTab
    <2>2. CASE NoAsk(asks)
      <3>1. /\ LastOnes("list")' \subseteq LastOnes("list") /\ LastOnes("detail")' \subseteq LastOnes("detail")
            /\ newest' = newest
        BY <1>1, <2>2, LastWithoutAsk
      <3> QED
        BY <2>1, <3>1 DEF Selected, Following, DetailIsNewest
    <2>3. CASE AskIn(asks, "detail", sel)
      <3>1. /\ LastOnes("detail")' \subseteq {NewOne("detail", sel)} /\ LastOnes("list")' \subseteq LastOnes("list")
            /\ newest'.detail = asked + 1 /\ newest'.list = newest.list
        BY <1>1, <2>3, LastAfterDetail
      <3> QED
        BY <2>1, <3>1, NewOneIs, ShownIsOld DEF Selected, Following, DetailIsNewest
    <2> QED
      BY <1>5, <2>2, <2>3 DEF OpenTab, Ask
  <1>6. ASSUME NEW f \in Thing, AskIn(asks, "list", f), page = "logs", filter' = f,
               UNCHANGED <<page, sel, list, detail, stray>>
        PROVE  Selected'
    <2>1. /\ LastOnes("list")' \subseteq {NewOne("list", f)} /\ LastOnes("detail")' \subseteq LastOnes("detail")
          /\ newest'.list = asked + 1 /\ newest'.detail = newest.detail
      BY <1>1, <1>6, LastAfterList
    <2> QED
      BY <1>6, <2>1, NewOneIs, ShownIsOld DEF Selected, Following, DetailIsNewest
  <1>7. ASSUME NEW f \in Thing, Filter(f) PROVE Selected'
    BY <1>6, <1>7 DEF Filter, FetchLogs, Ask
  <1>8. CASE Refresh
    BY <1>1, <1>6, <1>8 DEF Refresh, FetchLogs, Ask
  <1>9. CASE WriteAgent \/ WriteRule \/ ResolveApproval
    <2>1. AskIn(asks, "write", sel) /\ UNCHANGED <<page, sel, filter, list, detail, stray>>
      BY <1>9 DEF WriteAgent, WriteRule, ResolveApproval, Write, Ask, view
    <2>2. /\ LastOnes("list")' \subseteq LastOnes("list") /\ LastOnes("detail")' \subseteq LastOnes("detail")
          /\ newest' = newest
      BY <1>1, <2>1, LastWithoutAsk
    <2> QED
      BY <2>1, <2>2 DEF Selected, Following, DetailIsNewest
  <1> QED
    BY <1>3, <1>4, <1>5, <1>7, <1>8, <1>9 DEF Choice

LEMMA SelectedStep == Types /\ Selected /\ [Next]_vars => Selected'
  <1> SUFFICES ASSUME Types, Selected, [Next]_vars PROVE Selected'
    OBVIOUS
  <1>1. ASSUME NEW a \in asks, Serve(a) PROVE Selected'
    <2>1. UNCHANGED <<page, sel, filter, list, detail, stray, newest>>
      BY <1>1, ServeIs DEF view
    <2>2. \A kind \in {"list", "detail"} : \A b \in LastOnes(kind)' : \E c \in LastOnes(kind) : c.of = b.of
      BY <1>1, LastAfterServe
    <2> QED
      BY <2>1, <2>2 DEF Selected, Following, DetailIsNewest
  <1>2. ASSUME NEW a \in asks, Fail(a) PROVE Selected'
    <2>1. /\ NoAsk(asks \ {a}) /\ UNCHANGED <<page, sel, filter, list, stray>>
          /\ detail' = IF a.mine /\ a.kind = "detail" /\ page = "logs" THEN Answer(a) ELSE detail
      BY <1>2 DEF Fail
    <2>2. /\ LastOnes("list")' \subseteq LastOnes("list") /\ LastOnes("detail")' \subseteq LastOnes("detail")
          /\ newest' = newest
      BY <2>1, LastWithoutAsk
    <2>3. a.mine /\ a.kind = "detail" /\ a.n = newest.detail => a \in LastOnes("detail")
      BY DEF LastOnes
    <2> QED
      BY <2>1, <2>2, <2>3, AnswerTypes DEF Selected, Following, DetailIsNewest
  <1>3. ASSUME NEW p \in Page, Visit(p) PROVE Selected'
    BY <1>3, VisitIs, LastAfterVisit, NewOneIs DEF Selected, Following
  <1>4. CASE EventArrives \/ EventLost
    <2>1. UNCHANGED <<page, sel, filter, list, detail, stray>>
      BY <1>4 DEF EventArrives, EventLost, view
    <2>2. CASE NoAsk(asks)
      <3>1. /\ LastOnes("list")' \subseteq LastOnes("list") /\ LastOnes("detail")' \subseteq LastOnes("detail")
            /\ newest' = newest
        BY <2>2, LastWithoutAsk
      <3> QED
        BY <2>1, <3>1 DEF Selected, Following, DetailIsNewest
    <2>3. CASE AskIn(asks, "list", Nothing) /\ page = "approvals"
      <3>1. /\ LastOnes("list")' \subseteq {NewOne("list", Nothing)} /\ LastOnes("detail")' \subseteq LastOnes("detail")
            /\ newest'.list = asked + 1 /\ newest'.detail = newest.detail
        BY <2>3, LastAfterList DEF Thing
      <3> QED
        BY <2>1, <2>3, <3>1, NewOneIs, ShownIsOld DEF Selected, Following, DetailIsNewest
    <2> QED
      BY <1>4, <2>2, <2>3 DEF EventArrives, EventLost, LoadApprovals, Ask, NoAsk
  <1>5. CASE ChangeOf \/ UNCHANGED vars
    BY <1>5, ChangeIs DEF vars, view, history, Selected, Following, DetailIsNewest, LastOnes
  <1> QED
    BY <1>1, <1>2, <1>3, <1>4, <1>5, StepIs, ArrivalsKeepSelected, ChoicesKeepSelected

LEMMA SelectedInit == Init => Selected
  BY DEF Init, Selected, Following, LastOnes, FirstFetch, Fetch, Blank

(* A page of which the last fetch asked was also the last one shown shows  *)
(* what is selected and filtered by (Rules.jsx selectedRef and its effect, *)
(* Approvals.jsx, Logs.jsx and DetailPanel.jsx), for any number of items,  *)
(* fetches and pages.  It says nothing of a page on which an older answer  *)
(* came last, nor of a body that was under way when the entry changed.     *)
THEOREM PagesShowTheSelection == Spec => []ShowsSelection
  <1>1. Types /\ Selected => ShowsSelection
    BY DEF Selected, Following, ShowsSelection, ListIsNewest
  <1> QED
    BY <1>1, TypesInit, TypesStep, SelectedInit, SelectedStep, PTL DEF Spec

-----------------------------------------------------------------------------
(* A page shows its own writes. *)

LEMMA ArrivalsKeepOwn ==
  ASSUME Types, OwnShown, NEW a \in asks, ArrivalOf(a)
  PROVE  OwnShown'
  <1>1. asks \ {a} \in SUBSET asks /\ sel \in Thing /\ Nothing \in Thing
    BY DEF Types, Thing
  <1>2. Answer(a).n = a.n /\ Answer(a).version = a.version
    BY AnswerTypes
  <1>3. CASE ListArrives(a)
    <2>1. list' = Answer(a) /\ UNCHANGED <<page, sel, detail, own>> /\ a.mine /\ a.kind = "list" /\ a.state = "served"
      BY <1>3 DEF ListArrives, Arriving, Served
    <2>2. a.n = newest.list => a.version >= own
      BY <2>1 DEF OwnShown, LastOnes
    <2>3. CASE NoAsk(asks \ {a}) /\ ~(page = "rules" /\ sel # Nothing)
      <3>1. LastOnes("list")' \subseteq LastOnes("list") /\ newest' = newest
        BY <1>1, <2>3, LastWithoutAsk
      <3> QED
        BY <1>2, <2>1, <2>2, <2>3, <3>1 DEF OwnShown
    <2>4. CASE AskIn(asks \ {a}, "detail", sel)
      <3>1. /\ LastOnes("detail")' \subseteq {NewOne("detail", sel)} /\ LastOnes("list")' \subseteq LastOnes("list")
            /\ newest'.detail = asked + 1 /\ newest'.list = newest.list
        BY <1>1, <2>4, LastAfterDetail
      <3> QED
        BY <1>2, <2>1, <2>2, <3>1, NewOneIs, ShownIsOld DEF OwnShown, DetailIsNewest
    <2> QED
      BY <1>3, <2>3, <2>4 DEF ListArrives, Cur
  <1>4. CASE PolicyArrives(a) \/ SuggestionArrives(a) \/ BodyArrives(a)
    <2>1. /\ NoAsk(asks \ {a}) /\ UNCHANGED <<page, sel, list, own>>
          /\ page = "rules" => /\ a.mine /\ a.kind = "detail" /\ a.state = "served"
                               /\ detail' = Answer(a)
      BY <1>4 DEF PolicyArrives, SuggestionArrives, BodyArrives, DetailIs, Arriving, Served
    <2>2. /\ LastOnes("list")' \subseteq LastOnes("list") /\ LastOnes("detail")' \subseteq LastOnes("detail")
          /\ newest' = newest
      BY <1>1, <2>1, LastWithoutAsk
    <2>3. page = "rules" /\ a.n = newest.detail => a \in LastOnes("detail") /\ a.state = "served"
      BY <2>1 DEF LastOnes
    <2> QED
      BY <1>2, <2>1, <2>2, <2>3 DEF OwnShown, DetailIsNewest
  <1>5. CASE AgentWritten(a) \/ RuleWritten(a) \/ PolicyDeleted(a) \/ ApprovalResolved(a)
    <2>1. AskIn(asks \ {a}, "list", Nothing) /\ list' = list
      BY <1>5 DEF AgentWritten, RuleWritten, PolicyDeleted, ApprovalResolved, Written
    <2>2. LastOnes("list")' \subseteq {NewOne("list", Nothing)} /\ newest'.list = asked + 1
      BY <1>1, <2>1, LastAfterList
    <2> QED
      BY <2>1, <2>2, NewOneIs, ShownIsOld DEF OwnShown
  <1> QED
    BY <1>3, <1>4, <1>5 DEF ArrivalOf

(* What a choice of the user does to the lists.                            *)
LEMMA ChoicesAsk ==
  ASSUME Types, Choice
  PROVE  /\ UNCHANGED <<db, announced, events, page, list, own, lost>>
         /\ \/ /\ banner' = banner /\ NoAsk(asks)
               /\ page = "rules" => sel' = Nothing
            \/ /\ banner' = banner
               /\ \E s \in Thing : AskIn(asks, "detail", s)
               /\ page = "rules" => detail' = detail
            \/ \E f \in Thing : AskIn(asks, "list", f)
            \/ /\ banner' = banner
               /\ AskIn(asks, "write", sel) /\ page \in {"rules", "agents", "approvals"}
               /\ UNCHANGED <<sel, detail>>
  <1>1. sel \in Thing /\ filter \in Thing /\ Nothing \in Thing
    BY DEF Types, Thing
  <1>2. UNCHANGED <<db, announced, events, page, list, own, lost>>
    BY DEF Choice, SelectPolicy, SelectApproval, SelectEntry, Filter, OpenTab, Refresh,
       WriteAgent, WriteRule, ResolveApproval, Write, view
  <1>3. ASSUME NEW s \in Thing, SelectPolicy(s) \/ SelectApproval(s) \/ SelectEntry(s)
        PROVE  /\ banner' = banner
               /\ \/ NoAsk(asks) /\ (page = "rules" => sel' = Nothing)
                  \/ AskIn(asks, "detail", s) /\ (page = "rules" => detail' = detail)
    BY <1>3 DEF SelectPolicy, SelectApproval, SelectEntry, Ask
  <1>4. CASE OpenTab
    BY <1>1, <1>2, <1>4 DEF OpenTab, Ask
  <1>5. ASSUME NEW f \in Thing, Filter(f) \/ Refresh PROVE \E g \in Thing : AskIn(asks, "list", g)
    BY <1>1, <1>5 DEF Filter, Refresh, FetchLogs, Ask
  <1>6. CASE WriteAgent \/ WriteRule \/ ResolveApproval
    BY <1>2, <1>6 DEF WriteAgent, WriteRule, ResolveApproval, Write, Ask, view
  <1>7. CASE \E s \in Thing : SelectPolicy(s) \/ SelectApproval(s) \/ SelectEntry(s)
    BY <1>2, <1>3, <1>7
  <1>8. CASE Refresh \/ \E f \in Thing : Filter(f)
    BY <1>1, <1>2, <1>5, <1>8
  <1> QED
    BY <1>4, <1>6, <1>7, <1>8 DEF Choice

LEMMA OwnStep == Types /\ OwnShown /\ [Next]_vars => OwnShown'
  <1> SUFFICES ASSUME Types, OwnShown, [Next]_vars PROVE OwnShown'
    OBVIOUS
  <1>1. asks \in SUBSET asks /\ sel \in Thing
    BY DEF Types
  <1>2. ASSUME NEW a \in asks, Serve(a) PROVE OwnShown'
    <2>1. UNCHANGED <<page, sel, list, detail, own, newest>> /\ db >= own
      BY <1>2, ServeIs DEF view, Types
    <2>2. \A kind \in {"list", "detail"} : \A b \in LastOnes(kind)' : b \in LastOnes(kind) \/ b.version = db
      BY <1>2, LastAfterServe
    <2> QED
      BY <2>1, <2>2 DEF OwnShown, DetailIsNewest
  <1>3. ASSUME NEW a \in asks, Fail(a) PROVE OwnShown'
    <2>1. NoAsk(asks \ {a}) /\ UNCHANGED <<page, sel, list, own>> /\ (page # "logs" => detail' = detail)
      BY <1>3 DEF Fail
    <2>2. /\ LastOnes("list")' \subseteq LastOnes("list") /\ LastOnes("detail")' \subseteq LastOnes("detail")
          /\ newest' = newest
      BY <2>1, LastWithoutAsk
    <2> QED
      BY <2>1, <2>2 DEF OwnShown, DetailIsNewest
  <1>4. ASSUME NEW p \in Page, Visit(p) PROVE OwnShown'
    BY <1>4, VisitIs, LastAfterVisit, NewOneIs DEF OwnShown
  <1>5. ASSUME NEW f \in Thing, AskIn(asks, "list", f), list' = list PROVE OwnShown'
    <2>1. LastOnes("list")' \subseteq {NewOne("list", f)} /\ newest'.list = asked + 1
      BY <1>1, <1>5, LastAfterList
    <2> QED
      BY <1>5, <2>1, NewOneIs, ShownIsOld DEF OwnShown
  <1>6. CASE Choice
    <2>1. UNCHANGED <<page, list, own>>
      BY <1>6, ChoicesAsk
    <2>2. CASE NoAsk(asks) /\ (page = "rules" => sel' = Nothing)
      <3>1. LastOnes("list")' \subseteq LastOnes("list") /\ newest' = newest
        BY <1>1, <2>2, LastWithoutAsk
      <3> QED
        BY <2>1, <2>2, <3>1 DEF OwnShown
    <2>3. ASSUME AskIn(asks, "write", sel), sel' = sel, detail' = detail PROVE OwnShown'
      <3>1. \E of \in Thing : AskIn(asks, "write", of)
        BY <1>1, <2>3
      <3>2. /\ LastOnes("list")' \subseteq LastOnes("list") /\ LastOnes("detail")' \subseteq LastOnes("detail")
            /\ newest' = newest
        BY <1>1, <3>1, LastWithoutAsk
      <3> QED
        BY <2>1, <2>3, <3>2 DEF OwnShown, DetailIsNewest
    <2>4. ASSUME NEW s \in Thing, AskIn(asks, "detail", s), page = "rules" => detail' = detail PROVE OwnShown'
      <3>1. /\ LastOnes("detail")' \subseteq {NewOne("detail", s)} /\ LastOnes("list")' \subseteq LastOnes("list")
            /\ newest'.detail = asked + 1 /\ newest'.list = newest.list
        BY <1>1, <2>4, LastAfterDetail
      <3> QED
        BY <2>1, <2>4, <3>1, NewOneIs, ShownIsOld DEF OwnShown, DetailIsNewest
    <2> QED
      BY <1>5, <1>6, <2>1, <2>2, <2>3, <2>4, ChoicesAsk
  <1>7. CASE EventArrives \/ EventLost
    <2>1. UNCHANGED <<page, sel, list, detail, own>>
      BY <1>7 DEF EventArrives, EventLost, view
    <2>2. CASE NoAsk(asks)
      <3>1. /\ LastOnes("list")' \subseteq LastOnes("list") /\ LastOnes("detail")' \subseteq LastOnes("detail")
            /\ newest' = newest
        BY <2>2, LastWithoutAsk
      <3> QED
        BY <2>1, <3>1 DEF OwnShown, DetailIsNewest
    <2> QED
      BY <1>5, <1>7, <2>1, <2>2 DEF EventArrives, EventLost, LoadApprovals, Ask, NoAsk, Thing
  <1>8. CASE ChangeOf \/ UNCHANGED vars
    BY <1>8, ChangeIs DEF vars, view, history, OwnShown, DetailIsNewest, LastOnes
  <1> QED
    BY <1>2, <1>3, <1>4, <1>6, <1>7, <1>8, StepIs, ArrivalsKeepOwn

LEMMA OwnInit == Init => OwnShown
  BY DEF Init, OwnShown, LastOnes, FirstFetch, Fetch, Blank

(* A page whose last list came last shows what its own answered writes     *)
(* made, and Rules in the detail too, if its last detail came last: the    *)
(* handlers await the write and then load, and reload asks for the detail  *)
(* last, for the selection of that moment (handleSaveRule and the others). *)
(* Nothing is said of a page on which an older answer came last.           *)
THEOREM PagesShowTheirWrites == Spec => []OwnWritesShown
  <1>1. Types /\ OwnShown => OwnWritesShown
    BY DEF OwnShown, OwnWritesShown, ListIsNewest
  <1> QED
    BY <1>1, TypesInit, TypesStep, OwnInit, OwnStep, PTL DEF Spec

-----------------------------------------------------------------------------
(* Events tell of what the page does not show. *)

Has(q, S) == \E k \in DOMAIN q : q[k] \in S

(* An event that arrives was the first, and one that comes is the last. *)
LEMMA QueueOfEvents ==
  ASSUME NEW q \in Seq(Topics), NEW S
  PROVE  /\ \A e \in Topics : e \in S => Has(Append(q, e), S)
         /\ q # << >> /\ Has(q, S) => Head(q) \in S \/ Has(Tail(q), S)
  <1>1. ASSUME NEW e \in Topics, e \in S PROVE Has(Append(q, e), S)
    <2>1. Len(q) + 1 \in DOMAIN Append(q, e) /\ Append(q, e)[Len(q) + 1] = e
      OBVIOUS
    <2> QED
      BY <1>1, <2>1 DEF Has
  <1>2. ASSUME q # << >>, NEW k \in DOMAIN q, q[k] \in S, Head(q) \notin S PROVE Has(Tail(q), S)
    <2>1. k - 1 \in DOMAIN Tail(q) /\ Tail(q)[k - 1] = q[k]
      BY <1>2
    <2> QED
      BY <1>2, <2>1 DEF Has
  <1> QED
    BY <1>1, <1>2 DEF Has

LEMMA AnnouncedIs ==
  Announced <=> \/ lost
                \/ page \notin {"approvals", "logs"}
                \/ page = "approvals" /\ Has(events, LoadsFor)
                \/ page = "logs" /\ (banner \/ Has(events, {"request"}))
  BY DEF Announced, Has

LEMMA EventsGrow ==
  ASSUME NEW q \in Seq(Topics), NEW e \in Topics, NEW S, Has(q, S)
  PROVE  Has(Append(q, e), S)
  <1>1. PICK k \in DOMAIN q : q[k] \in S
    BY DEF Has
  <1>2. k \in DOMAIN Append(q, e) /\ Append(q, e)[k] = q[k]
    BY <1>1
  <1> QED
    BY <1>1, <1>2 DEF Has

(* A change of the tables is told by an event, or counts as not announced, *)
(* unless no page shows them.                                              *)
LEMMA ChangesAreAnnounced ==
  ASSUME Types, ChangeOf
  PROVE  Announced' \/ (announced' = announced /\ ~Announced)
  <1>1. CASE Report
    <2>1. page = "logs" /\ events' = events \o <<"request">>
      BY <1>1 DEF Report, Tell, Change, TopicOf
    <2>2. events' = Append(events, "request")
      BY <2>1 DEF Types
    <2>3. Has(events', {"request"})
      BY <2>2, QueueOfEvents DEF Types, Topics
    <2> QED
      BY <2>1, <2>3, ChangeIs DEF Announced, Has
  <1>2. CASE Needed \/ OthersResolve
    <2>1. PICK e \in LoadsFor : page = "approvals" /\ events' = events \o <<e>>
      BY <1>2 DEF Needed, OthersResolve, Tell, Change, TopicOf, LoadsFor
    <2>2. events' = Append(events, e) /\ e \in Topics
      BY <2>1 DEF Types, LoadsFor, Topics
    <2>3. Has(events', LoadsFor)
      BY <2>2, QueueOfEvents DEF Types
    <2> QED
      BY <2>1, <2>3, ChangeIs DEF Announced, Has, LoadsFor
  <1>3. CASE HeldRow
    <2>1. page = "logs" /\ events' = events \o <<"needed">> /\ announced' = announced
      BY <1>3 DEF HeldRow, Silent, Change, TopicOf
    <2>2. events' = Append(events, "needed") /\ "needed" \in Topics
      BY <2>1 DEF Types, Topics
    <2>3. Has(events, {"request"}) => Has(events', {"request"})
      BY <2>2, EventsGrow DEF Types
    <2>4. Announced => Announced'
      BY <2>1, <2>3, ChangeIs DEF Announced, Has
    <2> QED
      BY <2>1, <2>4
  <1>4. CASE AgentDeleted
    <2>1. events' = events \o << >> /\ announced' = announced
      BY <1>4 DEF AgentDeleted, Silent, Change
    <2>2. events' = events
      BY <2>1 DEF Types
    <2>3. Announced => Announced'
      BY <2>2, ChangeIs DEF Announced
    <2> QED
      BY <2>1, <2>3
  <1>5. CASE OthersConfigure
    <2>1. page \notin {"approvals", "logs"}
      BY <1>5 DEF OthersConfigure, Silent, Change, TopicOf
    <2> QED
      BY <2>1, ChangeIs DEF Announced
  <1> QED
    BY <1>1, <1>2, <1>3, <1>4, <1>5 DEF ChangeOf

LEMMA ArrivalsKeepTold ==
  ASSUME Types, EventsTell, NEW a \in asks, ArrivalOf(a)
  PROVE  EventsTell'
  <1>1. asks \ {a} \in SUBSET asks /\ sel \in Thing /\ Nothing \in Thing
    BY DEF Types, Thing
  <1>2. UNCHANGED <<db, announced, events, page, banner, lost>>
    BY DEF ArrivalOf, ListArrives, PolicyArrives, SuggestionArrives, BodyArrives,
       DetailIs, AgentWritten, RuleWritten, PolicyDeleted, ApprovalResolved, Written
  <1>3. Announced' <=> Announced
    BY <1>2 DEF Announced
  <1>4. Answer(a).n = a.n /\ Answer(a).version = a.version
    BY AnswerTypes
  <1>5. CASE ListArrives(a)
    <2>1. list' = Answer(a) /\ a.mine /\ a.kind = "list" /\ a.state = "served"
      BY <1>5 DEF ListArrives, Arriving, Served
    <2>2. ~Announced /\ a.n = newest.list => a.version >= announced
      BY <2>1 DEF EventsTell, LastOnes
    <2>3. /\ LastOnes("list")' \subseteq LastOnes("list") /\ newest'.list = newest.list
          /\ \A b \in asks' : b \in asks \/ b.kind # "write"
      <3>1. CASE NoAsk(asks \ {a})
        BY <1>1, <3>1, LastWithoutAsk DEF NoAsk
      <3>2. CASE AskIn(asks \ {a}, "detail", sel)
        <4>1. \A b \in asks' : b \in asks \ {a} \/ b = NewOne("detail", sel)
          BY <1>1, <3>2, LastAfterDetail
        <4>2. LastOnes("list")' \subseteq LastOnes("list") /\ newest'.list = newest.list
          BY <1>1, <3>2, LastAfterDetail
        <4> QED
          BY <4>1, <4>2, NewOneIs
      <3> QED
        BY <1>5, <3>1, <3>2 DEF ListArrives, Cur
    <2> QED
      BY <1>2, <1>3, <1>4, <2>1, <2>2, <2>3 DEF EventsTell
  <1>6. CASE PolicyArrives(a) \/ SuggestionArrives(a) \/ BodyArrives(a)
    <2>1. NoAsk(asks \ {a}) /\ list' = list
      BY <1>6 DEF PolicyArrives, SuggestionArrives, BodyArrives, DetailIs
    <2>2. LastOnes("list")' \subseteq LastOnes("list") /\ newest' = newest /\ asks' \subseteq asks
      BY <1>1, <2>1, LastWithoutAsk DEF NoAsk
    <2> QED
      BY <1>2, <1>3, <2>1, <2>2 DEF EventsTell
  <1>7. CASE AgentWritten(a) \/ RuleWritten(a) \/ PolicyDeleted(a) \/ ApprovalResolved(a)
    <2>1. AskIn(asks \ {a}, "list", Nothing) /\ list' = list
      BY <1>7 DEF AgentWritten, RuleWritten, PolicyDeleted, ApprovalResolved, Written
    <2>2. /\ LastOnes("list")' \subseteq {NewOne("list", Nothing)} /\ newest'.list = asked + 1
          /\ \A b \in asks' : b \in asks \/ b.kind # "write"
      BY <1>1, <2>1, LastAfterList, NewOneIs
    <2> QED
      BY <1>2, <2>1, <2>2, NewOneIs, ShownIsOld DEF EventsTell
  <1> QED
    BY <1>5, <1>6, <1>7 DEF ArrivalOf

LEMMA ServesKeepTold ==
  ASSUME Types, EventsTell, NEW a \in asks, Serve(a)
  PROVE  EventsTell'
  <1>1. UNCHANGED <<page, list, banner, lost, newest>> /\ db \in Nat /\ db + 1 \in Nat
    BY ServeIs DEF view, Types
  <1>2. \A v \in Nat : ServedAs(a, v).kind = a.kind /\ ServedAs(a, v).mine = a.mine
    BY ServedTypes
  <1>3. \A b \in asks' : b \in asks \/ (b.kind = a.kind /\ b.mine = a.mine)
    BY <1>1, <1>2, ServeIs
  <1>4. CASE a.kind = "write"
    <2>1. page # "logs" /\ events' = IF page = "approvals" THEN Append(events, "resolved") ELSE events
      BY <1>4, ServeIs DEF EventsTell
    <2>2. Has(Append(events, "resolved"), LoadsFor)
      BY QueueOfEvents DEF Types, Topics, LoadsFor
    <2>3. Announced'
      BY <1>1, <2>1, <2>2 DEF Announced, Has, LoadsFor
    <2> QED
      BY <1>1, <1>3, <2>3 DEF EventsTell
  <1>5. CASE a.kind \in {"list", "detail"}
    <2>1. db' = db /\ events' = events /\ announced' = announced /\ db >= announced
      BY <1>5, ServeIs DEF Types
    <2>2. Announced' <=> Announced
      BY <1>1, <2>1 DEF Announced
    <2>3. \A b \in LastOnes("list")' : b \in LastOnes("list") \/ b.version = db
      BY LastAfterServe
    <2> QED
      BY <1>1, <1>3, <2>1, <2>2, <2>3 DEF EventsTell
  <1> QED
    BY <1>4, <1>5, ServeIs

LEMMA EventsKeepTold ==
  ASSUME Types, EventsTell, EventArrives \/ EventLost
  PROVE  EventsTell'
  <1>1. UNCHANGED <<db, announced, page, list>>
    BY DEF EventArrives, EventLost, view
  <1>2. CASE EventLost
    <2>1. Announced' /\ asks' = asks
      BY <1>2 DEF EventLost, Announced
    <2> QED
      BY <1>1, <2>1 DEF EventsTell
  <1>3. CASE EventArrives /\ page = "approvals" /\ Head(events) \in LoadsFor
    <2>1. AskIn(asks, "list", Nothing)
      BY <1>3 DEF EventArrives, LoadApprovals, Ask
    <2>2. /\ LastOnes("list")' \subseteq {NewOne("list", Nothing)} /\ newest'.list = asked + 1
          /\ \A b \in asks' : b \in asks \/ b.kind # "write"
      BY <2>1, LastAfterList, NewOneIs DEF Thing
    <2> QED
      BY <1>1, <2>2, NewOneIs, ShownIsOld DEF EventsTell
  <1>4. CASE EventArrives /\ ~(page = "approvals" /\ Head(events) \in LoadsFor)
    <2>1. /\ NoAsk(asks) /\ lost' = lost /\ events # << >> /\ events' = Tail(events)
          /\ banner' = (banner \/ (page = "logs" /\ Head(events) = "request"))
      BY <1>4 DEF EventArrives
    <2>2. \A S : Has(events, S) => Head(events) \in S \/ Has(events', S)
      BY <2>1, QueueOfEvents DEF Types
    <2>3. Announced => Announced'
      <3>1. Has(events, LoadsFor) => Head(events) \in LoadsFor \/ Has(events', LoadsFor)
        BY <2>2
      <3>2. Has(events, {"request"}) => Head(events) = "request" \/ Has(events', {"request"})
        BY <2>2
      <3> QED
        BY <1>1, <1>4, <2>1, <3>1, <3>2, AnnouncedIs DEF Announced, Has
    <2>4. LastOnes("list")' \subseteq LastOnes("list") /\ newest' = newest /\ asks' = asks
      BY <2>1, LastWithoutAsk DEF NoAsk
    <2> QED
      BY <1>1, <2>3, <2>4 DEF EventsTell
  <1> QED
    BY <1>2, <1>3, <1>4

LEMMA ToldStep == Types /\ EventsTell /\ [Next]_vars => EventsTell'
  <1> SUFFICES ASSUME Types, EventsTell, [Next]_vars PROVE EventsTell'
    OBVIOUS
  <1>1. asks \in SUBSET asks /\ sel \in Thing
    BY DEF Types
  <1>2. ASSUME NEW a \in asks, Fail(a) PROVE EventsTell'
    <2>1. NoAsk(asks \ {a}) /\ UNCHANGED <<db, announced, events, page, banner, list, lost>>
      BY <1>2 DEF Fail
    <2>2. LastOnes("list")' \subseteq LastOnes("list") /\ newest' = newest /\ asks' \subseteq asks
      BY <2>1, LastWithoutAsk DEF NoAsk
    <2>3. Announced' <=> Announced
      BY <2>1 DEF Announced
    <2> QED
      BY <2>1, <2>2, <2>3 DEF EventsTell
  <1>3. ASSUME NEW p \in Page, Visit(p) PROVE EventsTell'
    <2>1. p # page
      BY <1>3 DEF Visit
    <2>2. p \in {"approvals", "logs"} => TopicOf(p) # TopicOf(page)
      BY <2>1, PageAssumption DEF TopicOf, Types
    <2>3. p \in {"approvals", "logs"} => \A b \in asks' : b.kind # "write"
      BY <1>3, <2>2, VisitIs DEF FirstFetch, Fetch
    <2> QED
      BY <1>3, <2>3, VisitIs, LastAfterVisit, NewOneIs DEF EventsTell
  <1>4. CASE Choice
    <2>1. UNCHANGED <<db, announced, events, page, list, lost>>
      BY <1>4, ChoicesAsk
    <2>2. CASE banner' = banner /\ NoAsk(asks)
      <3>1. LastOnes("list")' \subseteq LastOnes("list") /\ newest' = newest /\ asks' = asks
        BY <2>2, LastWithoutAsk DEF NoAsk
      <3> QED
        BY <2>1, <2>2, <3>1 DEF EventsTell, Announced
    <2>3. ASSUME NEW s \in Thing, AskIn(asks, "detail", s), banner' = banner PROVE EventsTell'
      <3>1. /\ LastOnes("list")' \subseteq LastOnes("list") /\ newest'.list = newest.list
            /\ \A b \in asks' : b \in asks \/ b.kind # "write"
        BY <1>1, <2>3, LastAfterDetail, NewOneIs
      <3> QED
        BY <2>1, <2>3, <3>1 DEF EventsTell, Announced
    <2>4. ASSUME NEW f \in Thing, AskIn(asks, "list", f) PROVE EventsTell'
      <3>1. /\ LastOnes("list")' \subseteq {NewOne("list", f)} /\ newest'.list = asked + 1
            /\ \A b \in asks' : b \in asks \/ b.kind # "write"
        <4>1. \A b \in asks' : b \in asks \/ b = NewOne("list", f)
          BY <1>1, <2>4, LastAfterList
        <4>2. LastOnes("list")' \subseteq {NewOne("list", f)} /\ newest'.list = asked + 1
          BY <1>1, <2>4, LastAfterList
        <4> QED
          BY <4>1, <4>2, NewOneIs
      <3> QED
        BY <2>1, <3>1, NewOneIs, ShownIsOld DEF EventsTell
    <2>5. CASE banner' = banner /\ AskIn(asks, "write", sel) /\ page \in {"rules", "agents", "approvals"}
      <3>1. /\ LastOnes("list")' \subseteq LastOnes("list") /\ newest' = newest
            /\ \A b \in asks' : b \in asks \/ (b.kind = "write" /\ b.mine)
        BY <1>1, <2>5, LastWithoutAsk
      <3> QED
        BY <2>1, <2>5, <3>1 DEF EventsTell, Announced
    <2> QED
      BY <1>4, <2>2, <2>3, <2>4, <2>5, ChoicesAsk
  <1>5. CASE ChangeOf
    <2>1. LastOnes("list")' = LastOnes("list") /\ UNCHANGED <<asks, page, list, newest>>
      BY <1>5, ChangeIs DEF LastOnes
    <2> QED
      BY <1>5, <2>1, ChangesAreAnnounced DEF EventsTell
  <1>6. CASE UNCHANGED vars
    BY <1>6 DEF vars, view, history, EventsTell, Announced, LastOnes
  <1> QED
    BY <1>2, <1>3, <1>4, <1>5, <1>6, StepIs, ArrivalsKeepTold, ServesKeepTold, EventsKeepTold

LEMMA ToldInit == Init => EventsTell
  BY DEF Init, EventsTell, LastOnes, FirstFetch, Fetch, Blank

(* With no event lost, a page whose last list came last lists every change *)
(* that an event it listens to has announced, or its banner says that it   *)
(* does not, in whatever order events, answers and refreshes come (the     *)
(* handlers of Approvals.jsx and Logs.jsx).  The row of a held request and *)
(* the deletion of an agent are announced by no such event, and may be     *)
(* missing.                                                                *)
THEOREM PagesKeepUp == Spec => []EventsKeepUp
  <1>1. Types /\ EventsTell => EventsKeepUp
    BY DEF EventsTell, Announced, EventsKeepUp, ListIsNewest, Types
  <1> QED
    BY <1>1, TypesInit, TypesStep, ToldInit, ToldStep, PTL DEF Spec
====
