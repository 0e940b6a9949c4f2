--------------------------------- MODULE Pages ---------------------------------
(***************************************************************************)
(* What the pages of the GUI show (Rules, Agents, Approvals and Logs.jsx,  *)
(* and DetailPanel.jsx): a list, and the detail of a selection, both asked *)
(* from the API by fetches that nothing orders or cancels.  A page asks    *)
(* when it is mounted, when its selection or filter changes, when one of   *)
(* its own writes has been answered, and, Approvals and Logs, when an      *)
(* event says so.                                                          *)
(*                                                                         *)
(* The tables behind the mounted page are a version number; an answer      *)
(* carries the version of the moment it was made.  What happens to tables  *)
(* that the page does not show is left out until they are shown.           *)
(***************************************************************************)
EXTENDS Naturals, Sequences, FiniteSets

CONSTANTS
  Item,                  \* policies, approvals, log entries; filters of the log
  Nothing,               \* no selection, no filter
  Page,                  \* the pages a behaviour visits
  MaxAsks,               \* bound: fetches
  MaxMoves,              \* bound: fetches, and changes of the tables by others
  MaxFails, MaxVisits    \* bounds: failing fetches and lost events; pages visited

ASSUME PageAssumption == Page \subseteq {"rules", "agents", "approvals", "logs"}
ASSUME NothingAssumption == Nothing \notin Item

VARIABLES
  db,                    \* version of the tables behind the mounted page
  events,                \* events on their way to the GUI
  page, sel, filter, tab, banner, \* the mounted page; tab: a body tab is open
  list, detail,          \* what is shown: the answer to which ask
  asks, asked,           \* fetches under way; number of fetches
  newest,                \* history: the last fetch for the list and for the detail
  own,                   \* history: the version the page's last answered write made
  announced,             \* history: the version of the last change whose event the page hears
  lost,                  \* history: an event was lost since the page was mounted
  stray,                 \* history: the entry was changed with a body under way
  changes, fails, visits \* counters of the bounds

view == <<page, sel, filter, tab, banner, list, detail>>
history == <<newest, own, announced, lost, stray>>
bounds == <<changes, fails, visits>>
vars == <<db, events, view, asks, asked, history, bounds>>

TopicOf(p) == IF p \in {"approvals", "logs"} THEN p ELSE "config"
Blank == [n |-> 0, of |-> Nothing, version |-> 0]

(* A fetch; mine is false once the page that made it is gone. *)
Fetch(n, kind, of) ==
  [n |-> n, kind |-> kind, of |-> of, state |-> "asked", version |-> 0, mine |-> TRUE]
FirstFetch(n) == Fetch(n, "list", Nothing)

Init ==
  /\ db = 0 /\ events = << >>
  /\ page \in Page
  /\ sel = Nothing /\ filter = Nothing /\ tab = FALSE /\ banner = FALSE
  /\ list = Blank /\ detail = Blank
  /\ asked = 1
  /\ asks = {FirstFetch(1)}
  /\ newest = [list |-> 1, detail |-> 0]
  /\ own = 0 /\ announced = 0 /\ lost = FALSE /\ stray = FALSE
  /\ changes = 0 /\ fails = 0 /\ visits = 1

-----------------------------------------------------------------------------
(* Fetches.  rest is what is left of asks. *)

MayAsk == asked < MaxAsks /\ asked + changes < MaxMoves

AskIn(rest, kind, of) ==
  /\ MayAsk
  /\ asked' = asked + 1
  /\ asks' = rest \cup {Fetch(asked + 1, kind, of)}
  /\ newest' = IF kind = "write" THEN newest ELSE [newest EXCEPT ![kind] = asked + 1]

Ask(kind, of) == AskIn(asks, kind, of)
NoAsk(rest) == asks' = rest /\ UNCHANGED <<asked, newest>>

(* Logs.jsx fetchLogs, and Approvals.jsx load *)
FetchLogs(f) == Ask("list", f)
LoadApprovals == Ask("list", Nothing)

(* The server answers.  A write makes a new version; resolving an approval *)
(* sends its event.  (The version of a match or of a body does not matter.) *)
Serve(a) ==
  /\ a \in asks /\ a.state = "asked"
  /\ UNCHANGED <<view, asked, newest, own, lost, stray, bounds>>
  /\ \/ /\ a.kind = "write"
        /\ db' = db + 1
        /\ IF page = "approvals"
           THEN events' = Append(events, "resolved") /\ announced' = db + 1
           ELSE UNCHANGED <<events, announced>>
        /\ asks' = (asks \ {a}) \cup
                   (IF a.mine THEN {[a EXCEPT !.state = "served", !.version = db + 1]} ELSE {})
     \/ /\ a.kind = "list" \/ (a.kind = "detail" /\ page = "rules")
        /\ asks' = (asks \ {a}) \cup {[a EXCEPT !.state = "served", !.version = db]}
        /\ UNCHANGED <<db, events, announced>>

Answer(a) == [n |-> a.n, of |-> a.of, version |-> a.version]
Served(a) == a.state = "served" \/ (a.kind = "detail" /\ page # "rules")
Arriving(a, kind) == a \in asks /\ a.mine /\ Served(a) /\ a.kind = kind

(* slip: reload asks for the selection its closure knew, that of the first *)
(* render                                                                  *)
CurOfClosure == Nothing

(* Rules.jsx, selectedRef.current: the selection when the lists are there *)
Cur == sel

(* setApprovals, setAgents, setLogs; Rules goes on to the selected policy. *)
ListArrives(a) ==
  /\ Arriving(a, "list")
  /\ list' = Answer(a)
  /\ IF page = "rules" /\ Cur # Nothing
     THEN AskIn(asks \ {a}, "detail", Cur)
     ELSE NoAsk(asks \ {a})
  /\ UNCHANGED <<db, events, page, sel, filter, tab, banner, detail, own, announced, lost, stray, bounds>>

(* An answer is shown as the detail, whatever is selected by now. *)
DetailIs(a, p, shown) ==
  /\ page = p /\ Arriving(a, "detail")
  /\ detail' = shown
  /\ NoAsk(asks \ {a})
  /\ UNCHANGED <<db, events, page, sel, filter, tab, banner, list, own, announced, lost, stray, bounds>>

(* Rules.jsx, setSelectedPolicy of the effect and of reload *)
PolicyArrives(a) == DetailIs(a, "rules", Answer(a))

(* Approvals.jsx, setMatchSuggestion unless nothing matches *)
SuggestionArrives(a) == \E shown \in {Answer(a), detail} : DetailIs(a, "approvals", shown)

(* DetailPanel.jsx, setRequestBody and setResponseBody *)
BodyArrives(a) == DetailIs(a, "logs", Answer(a))

(* The handler of a button goes on after its write, and loads. *)
Written(a, p) ==
  /\ page = p /\ Arriving(a, "write")
  /\ own' = a.version
  /\ AskIn(asks \ {a}, "list", Nothing)
  /\ UNCHANGED <<db, events, page, filter, tab, banner, list, announced, lost, stray, bounds>>

Deselected == sel' = Nothing /\ detail' = Blank

(* Agents.jsx: saving, enabling, deleting, and the policies of an agent *)
AgentWritten(a) == Written(a, "agents") /\ UNCHANGED <<sel, detail>>

(* Rules.jsx: rules, policies and their agents; and the policy's deletion *)
RuleWritten(a) == Written(a, "rules") /\ UNCHANGED <<sel, detail>>
PolicyDeleted(a) == Written(a, "rules") /\ Deselected

(* Approvals.jsx: the handlers forget the selection, also one made         *)
(* meanwhile, for their closure's selected is the row they resolved.       *)
ApprovalResolved(a) == Written(a, "approvals") /\ Deselected

(* A fetch that fails rejects and shows nothing; an empty body is shown.   *)
(* A write may have been done or not.                                      *)
Fail(a) ==
  /\ a \in asks
  /\ fails < MaxFails /\ fails' = fails + 1
  /\ NoAsk(asks \ {a})
  /\ detail' = IF a.mine /\ a.kind = "detail" /\ page = "logs" THEN Answer(a) ELSE detail
  /\ UNCHANGED <<db, events, page, sel, filter, tab, banner, list, own, announced, lost, stray, changes, visits>>

-----------------------------------------------------------------------------
(* The user. *)

(* Rules.jsx: PolicyTree's onSelect and the effect on selected *)
SelectPolicy(s) ==
  /\ page = "rules" /\ s # sel
  /\ sel' = s
  /\ IF s = Nothing THEN detail' = Blank /\ NoAsk(asks) ELSE Ask("detail", s) /\ UNCHANGED detail
  /\ UNCHANGED <<db, events, page, filter, tab, banner, list, own, announced, lost, stray, bounds>>

(* Approvals.jsx: a card's onClick and the effect that looks for policies *)
SelectApproval(s) ==
  /\ page = "approvals" /\ s # sel /\ s # Nothing
  /\ sel' = s
  /\ detail' = Blank
  /\ Ask("detail", s)
  /\ UNCHANGED <<db, events, page, filter, tab, banner, list, own, announced, lost, stray, bounds>>

(* slip: DetailPanel keeps the body when the entry changes *)
SelectEntryKeepsBody(s) ==
  /\ page = "logs" /\ s # sel
  /\ sel' = s /\ tab' = FALSE
  /\ stray' = (stray \/ \E a \in asks : a.mine /\ a.kind = "detail")
  /\ IF tab /\ detail = Blank /\ s # Nothing THEN Ask("detail", s) ELSE NoAsk(asks)
  /\ UNCHANGED <<db, events, page, filter, banner, list, detail, own, announced, lost, bounds>>

(* Logs.jsx handleSelect, and DetailPanel's effects: the first closes the  *)
(* tab and drops the body, the second still sees the open tab, and asks    *)
(* for the body of the new entry if the old one has not come.              *)
SelectEntry(s) ==
  /\ page = "logs" /\ s # sel
  /\ sel' = s /\ tab' = FALSE /\ detail' = Blank
  /\ stray' = (stray \/ \E a \in asks : a.mine /\ a.kind = "detail")
  /\ IF tab /\ detail = Blank /\ s # Nothing THEN Ask("detail", s) ELSE NoAsk(asks)
  /\ UNCHANGED <<db, events, page, filter, banner, list, own, announced, lost, bounds>>

(* DetailPanel.jsx: a body tab; the effect asks for what is not there *)
OpenTab ==
  /\ page = "logs" /\ sel # Nothing /\ ~tab
  /\ tab' = TRUE
  /\ IF detail = Blank THEN Ask("detail", sel) ELSE NoAsk(asks)
  /\ UNCHANGED <<db, events, page, sel, filter, banner, list, detail, own, announced, lost, stray, bounds>>

(* Logs.jsx updateFilter or the agent id, and the effect on fetchLogs *)
Filter(f) ==
  /\ page = "logs" /\ f # filter
  /\ filter' = f
  /\ FetchLogs(f)
  /\ UNCHANGED <<db, events, page, sel, tab, banner, list, detail, own, announced, lost, stray, bounds>>

(* handleRefreshBanner: a new filters object, so fetchLogs runs *)
Refresh ==
  /\ page = "logs" /\ banner
  /\ banner' = FALSE
  /\ FetchLogs(filter)
  /\ UNCHANGED <<db, events, page, sel, filter, tab, list, detail, own, announced, lost, stray, bounds>>

(* The buttons that write. *)
Write(p) ==
  /\ page = p
  /\ Ask("write", sel)
  /\ UNCHANGED <<db, events, view, own, announced, lost, stray, bounds>>

WriteAgent == Write("agents")
WriteRule == Write("rules")
ResolveApproval == sel # Nothing /\ Write("approvals")

(* The router mounts another page, which starts empty and loads.  What the *)
(* old one asked is answered to nobody; its writes happen.                 *)
Visit(p) ==
  /\ visits < MaxVisits /\ visits' = visits + 1
  /\ p # page
  /\ MayAsk /\ asked' = asked + 1
  /\ page' = p
  /\ sel' = Nothing /\ filter' = Nothing /\ tab' = FALSE /\ banner' = FALSE
  /\ list' = Blank /\ detail' = Blank
  /\ asks' = {FirstFetch(asked + 1)} \cup
             (IF TopicOf(p) # TopicOf(page) THEN {}
              ELSE {[a EXCEPT !.mine = FALSE] : a \in {b \in asks : b.kind = "write" /\ b.state = "asked"}})
  /\ db' = 0
  /\ newest' = [list |-> asked + 1, detail |-> 0]
  /\ own' = 0 /\ announced' = 0 /\ lost' = FALSE /\ stray' = FALSE
  /\ UNCHANGED <<events, changes, fails>>

-----------------------------------------------------------------------------
(* The others, and the events. *)

Change(topic, types) ==
  /\ TopicOf(page) = topic
  /\ asked + changes < MaxMoves /\ changes' = changes + 1
  /\ db' = db + 1
  /\ events' = events \o types
  /\ UNCHANGED <<view, asks, asked, newest, own, lost, stray, fails, visits>>

(* With the event that the page of the topic listens to, and without. *)
Tell(topic, type) == Change(topic, <<type>>) /\ announced' = db + 1
Silent(topic, types) == Change(topic, types) /\ UNCHANGED announced

Report == Tell("logs", "request")                    \* request.allowed, request.blocked
Needed == Tell("approvals", "needed")
OthersResolve == Tell("approvals", "resolved")       \* another operator, the cleanup

(* A held request has its row in the log as well, but Logs does not listen *)
(* to approval.needed.                                                     *)
HeldRow == Silent("logs", <<"needed">>)

(* agentsDAO.delete takes the rows of the agent out of the log and out of  *)
(* the queue, and emits nothing.                                           *)
AgentDeleted == \E topic \in {"approvals", "logs"} : Silent(topic, << >>)

OthersConfigure == Silent("config", << >>)           \* no page listens to rules.changed

(* slip: Approvals loads for new approvals only *)
LoadsNeeded == {"needed"}

(* Approvals.jsx, the types its handler loads for *)
LoadsFor == {"needed", "resolved"}

(* The subscribers of the mounted page: Approvals loads, Logs shows its    *)
(* banner.                                                                 *)
EventArrives ==
  /\ events # << >>
  /\ events' = Tail(events)
  /\ IF page = "approvals" /\ Head(events) \in LoadsFor THEN LoadApprovals ELSE NoAsk(asks)
  /\ banner' = (banner \/ (page = "logs" /\ Head(events) = "request"))
  /\ UNCHANGED <<db, page, sel, filter, tab, list, detail, own, announced, lost, stray, bounds>>

(* An event is lost with its stream (EventStream). *)
EventLost ==
  /\ events # << >>
  /\ fails < MaxFails /\ fails' = fails + 1
  /\ events' = Tail(events)
  /\ lost' = TRUE
  /\ UNCHANGED <<db, view, asks, asked, newest, own, announced, stray, changes, visits>>

Next ==
  \/ \E a \in asks :
       \/ Serve(a) \/ Fail(a) \/ ListArrives(a)
       \/ PolicyArrives(a) \/ SuggestionArrives(a) \/ BodyArrives(a)
       \/ AgentWritten(a) \/ RuleWritten(a) \/ PolicyDeleted(a) \/ ApprovalResolved(a)
  \/ \E s \in Item \cup {Nothing} : SelectPolicy(s) \/ SelectApproval(s) \/ SelectEntry(s) \/ Filter(s)
  \/ OpenTab \/ Refresh \/ WriteAgent \/ WriteRule \/ ResolveApproval
  \/ \E p \in Page : Visit(p)
  \/ Report \/ Needed \/ OthersResolve \/ HeldRow \/ AgentDeleted \/ OthersConfigure
  \/ EventArrives \/ EventLost

Spec == Init /\ [][Next]_vars
-----------------------------------------------------------------------------

Quiet == \A a \in asks : ~a.mine
ListIsNewest == list # Blank /\ list.n = newest.list
DetailIsNewest == detail # Blank /\ detail.n = newest.detail

(* When the answers of all fetches have come, and the last one asked came  *)
(* last, the page shows what is selected and filtered by: a reload that is *)
(* under way while the selection changes does not bring the old one back   *)
(* (Rules.jsx selectedRef, the effects on selected).  A body under way     *)
(* when the entry changes is the exception: it is shown for the next one.  *)
ShowsSelection ==
  Quiet => /\ ListIsNewest => list.of = filter
           /\ (DetailIsNewest /\ sel # Nothing /\ ~stray) => detail.of = sel

(* A page shows what its own answered writes have made, in the list and in *)
(* the detail (the handlers await the write and then load).                *)
OwnWritesShown ==
  (Quiet /\ ListIsNewest) =>
    /\ list.version >= own
    /\ (page = "rules" /\ sel # Nothing /\ DetailIsNewest) => detail.version >= own

(* With no event lost, a page whose last list came last lists every change *)
(* that an event it listens to has announced, or Logs shows its banner,    *)
(* however events, refreshes and answers cross (the handlers and the       *)
(* fetches of Approvals.jsx and Logs.jsx).  Changes that no such event     *)
(* tells of may be missing: the row of a held request in the log, and in   *)
(* both tables the rows that go with a deleted agent.                      *)
EventsKeepUp ==
  (Quiet /\ ~lost /\ events = << >> /\ ListIsNewest) =>
    /\ page = "approvals" => list.version >= announced
    /\ page = "logs" => banner \/ list.version >= announced
=============================================================================
