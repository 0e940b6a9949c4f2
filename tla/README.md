# ASHP, specified

ASHP puts a man-in-the-middle proxy written in Go between sandboxed agents and
the network, and next to it a Node server with an SQLite database, an HTTP API
and a web GUI.  The server decides, the proxy enforces.  One Unix socket carries
rules, credentials and decisions to the proxy, and reports and questions back.

This directory holds TLA+ models of the parts of ASHP in which order, time and
failure matter, the TLC configurations that check them on small instances, and
proofs that TLAPS checks.  Source paths below are relative to `src/ashp/`.

Contents: [inventory](#inventory) - [modules](#modules) - [runs](#runs) -
[time and fairness](#time-and-fairness) - [proofs](#proofs) -
[findings](#where-the-code-and-its-documents-part) - [limits](#not-modelled) -
[plan](#plan)

## Inventory

### The proxy (Go, one goroutine per request)

| Part | Source | State | Operations |
|---|---|---|---|
| Held requests | `proxy/cmd/ashp-proxy/main.go` | `heldRequests`: msg_id to a channel of capacity one | `holdRequestFn` (register, ask, select on decision and timer), `approval.resolve`, `reconnectFn` |
| IPC client | `proxy/internal/ipc/client.go` | `conn`, a buffer of the newest messages, `closed` | `Connect` (dial, flush, callback, `readLoop`, retry), `Send`, `Close` |
| Rule evaluator | `proxy/internal/rules/evaluator.go` | rules per agent name, and `__all__` | `Load`, `LoadMap`, `Match` |
| Authentication | `proxy/internal/auth/basic.go` | agents, cache of bcrypt outcomes, IP map | `Authenticate`, `AuthenticateByIP`, `Reload`, `ReloadIPMap` |
| Request handling | `proxy/internal/mitm/proxy.go`, `transparent.go` | tunnels, the request being handled | CONNECT, evaluate, block, hold, forward, report |
| Body log | `proxy/internal/logger/writer.go` | file of the hour, position, open handle | `Write`, `rotate`, `Close` |
| Certificate authority | `proxy/internal/ca/manager.go` | key pair, leaf certificates | load, create, sign |

### The server (Node, one event loop)

| Part | Source | State | Operations |
|---|---|---|---|
| Composition | `server/src/index.js` | the timer of the cleanup | `onConnect`, `onMessage`, `onRestart`, SIGHUP, `expireStale` every 30 s |
| IPC server | `server/src/ipc/server.js`, `protocol.js` | `#client`, a buffer, one partial line | accept and flush, parse, `send` |
| Approval queue | `server/src/dao/sqlite/approval-queue.js`, `api/approvals.js` | rows with a status | `enqueue`, `resolve`, `expireStale` |
| Rule builder | `gui/src/components/SmartRuleBuilder.jsx`, `RuleForm.jsx`, `MoveRuleModal.jsx`, `rules.js` `match` | the entry it is open for | propose patterns, create, move; look for policies that match |
| Policies and rules | `server/src/dao/sqlite/policies.js`, `rules.js`, `connection.js`, `api/` | policies, edges, assignments, rules | create, update, delete, `addChild`, `cycleCheck`, `assignToAgent`, `resolveAgentRules` |
| Agents | `server/src/dao/sqlite/agents.js`, `api/agents.js` | name, token hash, enabled, IP, count | create, rotate, authenticate, register-ip, delete |
| Request log | `server/src/dao/sqlite/request-log.js`, `api/logs.js`, `crypto/` | rows, references to bodies | `insert`, query, decrypt a body |
| Events | `server/src/api/events.js`, `gui/src/api/useSSE.js` | a replay buffer, subscribers, the pending counter | emit, replay, parse |
| Webhooks | `server/src/webhooks/dispatcher.js` | a delivery and its attempts | post, time out, retry |
| Pages | `gui/src/pages/`, `components/DetailPanel.jsx`, `api/client.js` | list, selection, filter, detail; fetches under way | select, filter, write, load; handlers of events |
| Proxy manager | `server/src/proxy-manager.js` | the child process, a restart timer | `start`, `stop`, exit |

### How they interact

* Server to proxy: `rules.reload` (a map by agent name, or a list, or nothing),
  `agents.reload`, `agents.ipmapping`, `config.update`, `approval.resolve`.
* Proxy to server: `request.logged`, `request.blocked`, `approval.needed`.
* Messages are lines of JSON.  Neither side acknowledges any; each keeps a
  bounded buffer while it has no connection and writes into a dead socket until
  it learns that it is dead.
* The server and the proxy share the directory of the encrypted body log.
* The GUI and other clients use the HTTP API and the event stream.

### What is hard here, and what correctness means

| Component | Hard behaviour | What makes it correct |
|---|---|---|
| approval flow | decision against timer, loss and re-announcement, cleanup on another clock, crashes of either side | a forward needs an approval of that request; a decision is final; one question each; the reader never blocks; every hold and every question ends |
| policy hierarchy | long sequences of edge edits and deletions, cascades | the hierarchy stays a DAG, the recursive queries end and find the right set, revoking grants nothing |
| rule matching | a rule is made from a request in one place and judged in three others | a proposed rule is about its request, and is found for it |
| rule distribution | stale buffered pushes, lost pushes, restarts of either side | once everything sent is read, each agent is judged by its rules, and that point is reached |
| authentication | three critical sections with reloads in between, expiry | an old token stops with the reload; no answer is older than the TTL plus one comparison |
| request log | rules and agents that vanish before a report arrives, timeout against approval | the log is true, no outcome is told twice, none is missing without a known reason |
| body log | crash inside a write, rotation, failed open, short write | a reference that was handed out stays readable |
| agent credentials | `await bcrypt` between read and write of a row; pushes that are buffered, lost or repeated | the proxy ends with the table's credentials and addresses; an address was earned with a token; the last token told is the one in force |
| transport and proxy manager | chunks, two sockets of one client, an old socket's end, exits and the restart timer | frames arrive whole and in order, `#client` is the connection in use, there is one proxy at a time, and it comes back unless it was stopped |
| event stream | streams aborted by renders, cut chunks, replay, a counter fed by events and an answer | each event once and in order; the counter is right but for the reasons that are listed; the stream settles |
| webhooks | timeouts, late answers, reloads while retries are due | every attempt is spent and no more; every delivery ends |
| GUI pages | fetches whose answers cross, selections and events meanwhile | a quiet page whose last answers came last shows its selection, its own writes and what the events announced |

`PROJECT.json` lists every hazard at its line with the properties that cover it,
and every component with what is left out of it.

## Modules

| Module | Models | State and code |
|---|---|---|
| `HeldRequest` | what hold-and-ask promises | where each request stands; the verdict on it |
| `ApprovalFlow` | hold-and-ask through both processes | `pc`, `heldRequests`, `ch`, `heldFor`: `holdRequestFn`; `connect`, `announcing`, `delivering`, `buffer`: `Connect`, `reconnectFn`, `readLoop`; `client`, `serverBuffer`: `IpcServer`; `queue`: `approval_queue` |
| `PolicyStore` | the tables behind an agent's rules | one function or relation per table; one action per DAO write, with the `ON DELETE` clauses of `connection.js` |
| `RuleMatching` | extends `PolicyStore` with what a rule matches and who proposes it | `says`: `url_pattern` and methods; `Matches`, `Covers`: `RegExp.test` and `ruleMatchesRequest`; `MatchingPolicies`: `/policies/match`; `Suggestions`: `generatePatterns`; `desk`, `Submit`: `SmartRuleBuilder`; `SaveNewRule`, `SaveRule`, `MoveRule`: the form and the modal |
| `RulesSync` | extends `PolicyStore` with every push of rules and the connection | one action per group of API routes (`PolicyCall`, `RuleCall`, `MoveCall`, `ApprovalCall`, `AgentCall`, `Sighup`), `Accept` with `onConnect`, `Read` with `Load` and `LoadMap`; `byAgent` is the evaluator |
| `AuthCache` | `Authenticate` and `Reload` | one action per critical section: `LookUp`, `CheckCache`, `Compare`; `cache` with the age of each entry; `HandlerDies`: the end of the process |
| `RequestLog` | from a request to its row | one action per branch of the two request handlers, `OnMessage`, and the deletions that race with it; `log` is a function from the ids of the rows, `nextId` the AUTOINCREMENT that survives deletions |
| `LogWriter` | `Writer` and the readers of its references | a file is a sequence of marked bytes; `Write`, `WriteEndsShort`, `CrashInWrite`, `OpenFails`, `Close`, `Restart` |
| `ProxyProcess` | composes `AuthCache` and `LogWriter` | they live and die with the process (`ProcessEnds`) and share nothing else; `bodies` says which of the two a behaviour watches |
| `Credentials` | the agents API, its pushes, and the registry and IP map of the proxy | `rows`: the table; `CreateStart`/`CreateEnd`, `RotateStart`/`RotateEnd`, `RegisterStart`/`RegisterEnd` around each await of bcrypt; `Update`, `Delete`, `Sighup`; `Accept` with `onConnect`; `Read` with `Reload` and `ReloadIPMap` |
| `Transport` | the socket below the level of messages, and the proxy manager | `sock`, `partial`, `current`: chunks, `parseFrames`, `#client`; `Dial`, `Send`, `WriteHalf`, `ReadLoopEnds`: `Client`; `Spawn`, `ExitEvent`, `Restart`, `Close`: `ProxyManager` and the shutdown |
| `EventStream` | `EventBus`, `useSSE`, `App` | `buffer`, `clients`: the bus; `phase`, `wire`, `cut`: each stream; `count`, `connected`, `answer`: `App` and its two questions after a login; `AgentDeleted`: pending rows that go without an event; a second viewer sends Last-Event-ID as the API offers |
| `Webhooks` | `WebhookDispatcher` | `job`: each delivery with its attempts; `Dispatch`, `Hear`, `Ok`, `Failed`, `Again`, `Reload` |
| `Notifications` | composes `EventStream` and `Webhooks` | they meet in `onMessage`, SIGHUP and the death of the server |
| `Pages` | what a page of the GUI shows | `asks`: fetches under way, answered in any order; `list`, `detail`, `sel`, `filter`: the state of the mounted page; `db`: a version of the tables behind it, `announced`: the version of the last change whose event the page hears; `HeldRow`, `AgentDeleted`: changes it hears nothing of |
| `MC...` | instances of the above | symmetry sets for TLC |
| `...Proofs` | theorems about the above | |

`HeldRequest` is the abstract specification of `ApprovalFlow`; the mapping is
`AbstractHold` (the goroutine's place, with rejected and timed out as one denial)
and `AbstractVerdict` (the status of the request's row).  `RulesSync` and
`RequestLog` and `Credentials` meet `ApprovalFlow` at the socket: each models the
messages of its own concern.  `Transport` is what they assume of it: while no
socket is overtaken by the next with bytes unread, frames arrive whole and in
order and are lost only at an exit, a failed write or a full buffer.  What the
modules leave to one another is said at the head of each.

Where the code has one atomic unit the model has one action: a synchronous
SQLite transaction, a section under one mutex, a handler of the event loop up to
its next await of unsettled work.  The handlers that push rules await only
settled promises between the write and the push, so write and push are one step.
In Go every lock, channel operation and socket read is a step of its own; so
`Hold`, `Ask`, `TimerFires` and `GiveUp` are four actions, and `Read` and
`Deliver` are two.

Some definitions carry the comment *slip*.  They state a plausible mistake in the
definition that follows them (a dropped guard, a wrong order) and are used
nowhere in the specification: replacing the definition by its slip makes TLC
report the property that guards it, as `PROJECT.json` says under "mutants".

## Runs

States are distinct states.  Deadlock is checked in the two runs of
`ApprovalFlow`, which never stops; the other passing runs may reach an end (no
more calls, hours, fetches or requests) and say so.

| Run | Properties | Instance | States |
|---|---|---|---|
| `approval_faults` | `AnswerIsTheOperators`, `OneRowPerRequest`, `LiveHoldNeverExpires`, `ReaderNeverBlocks`, `NoForgottenChannel`, `DecisionIsFinal` | 2 requests, 2 rows, 1 break, 1 crash of either process, buffers of one message, timeout 1, slack 1 | 3 750 690 with symmetry |
| `approval_promise` | `KeepsPromise` (refinement with fairness), `EveryQuestionCloses`, `EveryHoldIsAsked` | 1 request, otherwise the same, no symmetry | 15 605 |
| `policy_store` | `HierarchyIsAcyclic`, `QueriesEnd`, `RevokingGrantsNothing`, `RuleFitsRequest` | 3 policies, 1 agent, 1 rule, 2 requests, 2 patterns typed by hand | 117 290 with symmetry |
| `rules_faults` | `RulesInForce`, `CatchesUp` | 2 agents, 2 policies, 1 rule, 2 names, every group of calls, 2 calls, 1 break, 1 crash | 442 503 |
| `rules_flat_list` | `OnlyAssignedRules`, violated | calls of policies and rules | |
| `proxy_faults` | `AnswersAreFresh`, `RefsSurvive` | 3 tokens, 2 goroutines, TTL 2, slack 1; 4 records of 2 bytes, 2 hours, 2 faults | 545 899 with symmetry |
| `auth_old_token` | `OldTokenStops`, violated | the same tokens and goroutines | |
| `log_races` | `LogIsTrue`, `TablesAgree`, `NothingGoesUnlogged`, `EveryRequestIsLogged` | 2 requests, an allow and a deny rule, 1 agent and an unknown one, defaults hold and queue, 2 changes | 715 136 |
| `credentials` | `NothingStaleWhenSynced`, `AddressWasEarned`, `LastTokenTold`, `RevokedStaysRevoked`, `CatchesUp` | 2 rows, 2 names, 1 address, 2 calls at a time, 3 in all, 1 break, 1 crash of either process | 1 287 788 |
| `notifications` | `HandledInOrder`, `NothingSkipped`, `CountIsAccurate`, `RetriesSpent`, `StreamSettles`, `DeliveriesEnd` | 3 events, a replay buffer of 2, 2 streams, 1 login, 1 fault; 2 hooks, 2 dispatches, 2 reloads | 720 458 |
| `pages` | `ShowsSelection`, `OwnWritesShown`, `EventsKeepUp` | 2 items, 5 fetches and changes in all, 1 failure, 2 pages visited | 1 355 669 with symmetry |
| `transport` | `OneProxyPerCrash`, `FramesInOrder`, `TheLatestIsHeard`, `ProxyComesBack`, `StopIsFinal` | 3 frames, a client buffer of 2, 2 exits, 2 lines too long | 368 180 |

What the passing runs show, and why the bounds are enough:

* **approval_faults.** Two requests are the least with which one could get the
  other's answer, and a buffer of one is the least that evicts.  With one break
  and one crash the instance has a lost question, a lost decision, a
  re-announcement of a request with a row and of one without, a proxy that
  forgets what the operators go on to decide, and a server that restarts with
  only its table.  A timeout of 1 and a slack of 1 let the age of a row pass every
  boundary of `expireStale` (timeout, twice, more).  The decision and the timer
  are ready together in many states, and either arm is taken.
* **approval_promise.** The refinement is per request and requests share only
  the two buffers, which `approval_faults` fills.  The instance is small because
  liveness is checked without symmetry.  `EveryHoldIsAsked` speaks of executions
  without break or crash: after a break a question can be lost for good, see
  [below](#where-the-code-and-its-documents-part).
* **policy_store.** Three policies are enough for a cycle that closes through a
  policy the checked edge does not name, and for a path of length two beside an
  edge.  Ids are used once each, as AUTOINCREMENT hands them out, so a history has
  at most three policies; edges come and go without bound.  One request has a
  path of two segments and a query, one has no path, over either scheme; an operator
  types a pattern that does not compile (`^*`) and one whose every token is an
  operator or repeated.  `RuleFitsRequest` asks that a proposed rule is found for
  the request it was made from and reaches the agents of its policy.  It is said of
  the proposals in `Offered`: of an entry of the log those that end before a
  metacharacter of the URL, since nothing is escaped and the others miss it, and of
  an approval the first; the rest are described
  [below](#where-the-code-and-its-documents-part).
  `QueriesEnd` runs the two recursive queries round by round with `UNION ALL`
  and compares the rows with the least fixed points `Ancestors` and `Reachable`,
  which the actions use.
* **rules_faults.** Two calls allow a stale push that is still buffered when a
  newer one is made, and one break and one crash make every order of buffered
  push, flush and `onConnect`.  `RulesInForce` speaks of the moments when both
  ends are idle and no write since the last map went unpushed (`drifted`); the
  three groups of calls that do drift are in the run as well, so a map must
  repair what they left.
* **proxy_faults.** A stale answer needs two goroutines: one that stores an old
  outcome and one that takes it.  The TTL of 2 has an age that is neither zero nor
  expired, and three tokens are two rotations or one and a wrong token; a hash may
  come back, as when an agent is renamed away and back.  `AnswersAreFresh` says how
  far a stale answer can go, `auth_old_token` that there is one.  Two bytes per
  record allow a record to be torn; four records over two hours allow one before
  and one after each of two faults.  `RefsSurvive` excludes the hours in which a
  write ended short (`spoiled`): it says that the harm stays in them.
* **log_races.** A report needs one deletion to race with; with two a rule is
  deleted and so is the agent, or an agent comes back under its name.  The
  default `deny` takes the same branch as `queue` and is left out.  Ids in the
  table go up for ever, also past rows that went with their agent.
* **credentials.** Two calls at a time is what an overlap needs: two rotations of
  one agent, a registration over a deletion or a rotation, two creations of one
  name.  Two rows are an agent and the one created under its name afterwards, and
  one address is enough for two rows to claim it.  The third call is the one that
  makes a buffered push stale.  `NothingStaleWhenSynced` speaks of the moments
  when both ends are idle; that they come, and stay, is `CatchesUp`.  `RevokedStaysRevoked`
  is about the registry of the proxy; its cache may accept a token that left the
  registry for a while longer (`auth_old_token`).  The buffer
  of four messages holds two pushes of both kinds, so the third evicts the first.
* **notifications.** Three events are one that the replay buffer of 2 has dropped
  and two it has kept.  Two streams are the one that a render aborts and the one
  it opens; a number is used again when neither end uses it.  The one fault is a
  broken connection, a failed question, an answer to `getStatus` (which renders
  and so reopens the stream) or a restart of the server.  `CountIsAccurate` holds
  while `drift` is false.  What sets it is a step of the code that leaves the
  counter wrong until the next login: an event lost with a stream, to a cut chunk or
  before the stream was open; a cleanup of several rows; the deletion of an agent
  with pending rows, which sends no event; an answer to `getApprovals` that crossed
  an event or a deletion, or did not come.  So it does not catch these; it catches a
  counter that is wrong for any other reason, as when an event is heard on two
  streams.
  One hook has its signature's secret and one has
  none; retries are 0 and 1.
* **pages.** Five fetches are the two of a mounted page and three whose answers
  may cross them: a reload after a write, the detail of a new selection, a list
  for a filter or an event.  The conclusions are asked for when the fetches are
  over and the last one asked answered last; when an older answer comes last the
  page shows it, nothing in the code prevents that, and no property says anything of
  such a page.  `EventsKeepUp` compares a list with what was `announced`: a change
  of the tables with an event that the mounted page listens to.  The row of a held
  request changes the log with an event the page of the log ignores, and the
  deletion of an agent both tables with none; they are steps of the model, and what
  they change may be missing from a page.
* **transport.** Three frames are two in one chunk and one cut by an exit.  Two
  exits and two long lines make five sockets, so that an old socket's end and its
  unread bytes meet the next one in every order.  `FramesInOrder` excludes the
  executions in which a socket with unread bytes was `overtaken`: there the
  shared partial line is reset or glued to another, and the server may throw on
  it (`dead`).  `StopIsFinal` is about the `close` that `startServer` returns: the
  entry of the command line (`index.js:255-271`) never calls it and handles no
  SIGTERM, so it says nothing of a server that is killed.

## Time and fairness

Time is kept as ages.  `Tick` makes every running timer one unit older, and a
guard of `Tick` bounds how late a goroutine may be: `Slack` in `ApprovalFlow`
(the interval between a timer's expiry and the goroutine's return, at most one
hold timeout) and in `AuthCache` (the time from look-up to the end of bcrypt).
Ages that no guard can tell apart are capped.

| Specification | Weak fairness of | Justified by |
|---|---|---|
| `ApprovalFlow!Spec` | each held goroutine's steps | the Go scheduler, and `time.After` in the select |
| | the client's loop | `Connect` redials for ever with a capped delay |
| | `Accept`, `ClientGone`, `Enqueue` | the Node event loop |
| | `ExpireStale` | the interval of `index.js` |
| | `Tick` | time passes |
| | `ProxyStart`, `ServerStart` | the proxy manager restarts its child; a container or a developer's script restarts the server, and the proxy where the server does not own it |
| `RulesSync!SyncSpec` | `Dial`, `Accept`, `ClientGone`, `Read`, `ConnLost`, `ProxyStart`, `ServerStart` | the same |
| `Credentials!Spec` | the End of each call | bcrypt and its promise settle |
| | the steps of the connection and of the restarts, as in `RulesSync` | the same |
| `EventStream!StreamFairness` | `AddClient`, `Closed`, `Opened`, `Ended`, reading whole chunks, `Rerender`, `TimerFires`, the answer to `getApprovals` | the event loops of the server and the browser, React's scheduler and `setTimeout` |
| `Webhooks!HooksFairness` | `Failed`, `Again` | the abort timer and the backoff timer of each attempt; no receiver has to answer |
| `Transport!Fairness` | `ExitEvent`, `Restart`, `Terminate` | the event loop, the restart timer, and a proxy that ends when signalled |
| | `Dial`, `WriteHalf`, `ReadLoopEnds` of a closed socket, `Accept`, `Read`, `SocketEnds` | the scheduler of either process |
| `RequestLog!Spec` | `OnMessage`, `Upstream(r)`, `HoldTimesOut(r)` | the event loop; a round trip ends in an answer or an error; the timer of a hold |

No operator is obliged to answer, no agent to ask, no fault to happen.  Nothing
needs strong fairness: no step of the code that must happen is disabled again
and again by another.  The safety runs use the specifications without fairness.

## Proofs

The theorems hold for every value of the constants under the assumptions named
in the modules: timeouts, sizes and buffers are positive, bounds are naturals,
a marker such as `NoRow` is no row, there is a name, the ids of policies are finitely
many, and so are the calls under way at one time.  One is an assumption on the scheduler
and not on the code: `Slack <= HoldTimeout`, no goroutine returns from its select
more than a hold timeout late.  It is the margin `index.js` gives the cleanup.

| Theorem | Statement | Argument |
|---|---|---|
| `ApprovalFlowProofs!TypeCorrect` | `Safety => []TypeOK` | inductive; lemmas on `Append`, concatenation, `Tail`, `SubSeq` and `Newest` |
| `DecisionsAreFinal` | `Safety => DecisionIsFinal` | an action property from `TypeOK`: each action that writes `queue` asks for `pending` |
| `AnswersAreTheOperators` | `[]AnswerIsTheOperators` | invariant `DecisionsAreSettled` |
| `LiveHoldsNeverExpire` | `[]LiveHoldNeverExpires` | invariant `RowsAreYounger` |
| `NoChannelIsForgotten`, `ReaderFindsRoom` | `[]NoForgottenChannel`, `[]ChannelIsFree` | invariant `ChannelsAreFree`, with the two above |
| `NobodyIsAskedTwice` | `[]OneRowPerRequest` | invariant `AskedOnce` |
| `FlowImplementsPromise` | `Safety => Promise!Safety` | step by step, from `DecisionsAreSettled`, `RowsAreYounger` and `AskedOnce` |
| `RulesSyncProofs!HierarchyStaysAcyclic` | `Spec => []HierarchyIsAcyclic` | inductive with `EdgeType` |
| `TheQueriesEnd` | `Spec => []QueriesEnd` | the one above, with `GivenType`; `DepthIsBounded` |
| `BuilderWritesTheTables` | `MatchingSpec => Spec` | every step of the builder and the form is one of the tables |
| `RevocationsOnlyTakeAway` | `Spec => RevokingGrantsNothing` | an action property from `RuleType`: fewer edges reach less |
| `TheRulesAreInForce` | `SyncSafety => []RulesInForce` | invariant `SyncInv`, with `LastIsMap` |
| `AuthCacheProofs!CacheIsFresh`, `AnswersStayFresh` | `AuthSpec => []FreshnessInv`, `AuthSpec => AnswersAreFresh` | inductive with `AuthTypeOK` |
| `ProcessRunsItsParts`, `ProcessAnswersStayFresh` | `Spec => AuthSpec /\ WriterSpec`, `Spec => AnswersAreFresh` | every step of the process is one of each part, or leaves it |
| `CredentialsProofs!EveryAddressIsEarned`, `TheLastTokenIsInForce` | `Safety => []AddressWasEarned`, `[]LastTokenTold` | invariant `TableInv` |
| `NothingStaysStale` | `Safety => []NothingStaleWhenSynced` | invariants `TableInv` and `LinkInv` |
| `NoWayBack` | `Safety => RevokedStaysRevoked` | invariant `RevokedInv` |
| `NotificationsProofs!EventsComeInOrder`, `ReplayIsComplete`, `CounterIsRight` | `Spec => []HandledInOrder`, `[]NothingSkipped`, `[]CountIsAccurate` | invariant `StreamInv` |
| `EveryRetryIsSpent`, `SpentBesideStreams` | `HooksSpec => []RetriesSpent` and `Spec => []RetriesSpent` | invariant `JobsFit`: in each phase the number of attempts is what the phase allows |
| `TransportProofs!TheServerWritesToTheLatest` | `Spec => []TheLatestIsHeard` | invariant `SocketInv` |
| `FramesKeepTheirOrder` | `Spec => []FramesInOrder` | invariant `FlowInv`, with the one above |
| `TypesHold`, `NoSecondProxy` | `Spec => []TypeOK`, `Spec => []OneProxyPerCrash` | invariant `TypeInv`: only a crash makes room for one more process |
| `LogProofs!ReferencesSurvive` | `WriterSpec => []RefsSurvive` | invariant `WriterIsAtTheEnd` |
| `TheLogIsTrue`, `TheTablesAgree`, `WhatIsAnsweredIsLogged` | `Safety => []LogIsTrue`, `[]TablesAgree`, `[]NothingGoesUnlogged` | invariant `LogInv` |
| `PagesProofs!PagesShowTheSelection` | `Spec => []ShowsSelection` | invariant `Selected` |
| `PagesShowTheirWrites` | `Spec => []OwnWritesShown` | invariant `OwnShown`, with the one above |
| `PagesKeepUp` | `Spec => []EventsKeepUp` | invariant `EventsTell` |

* `AnswerIsTheOperators` is not inductive: a goroutine takes what is in its
  channel, the read loop puts there what it took from the socket, the socket has
  what the server sent.  `DecisionsAreSettled` says of each of these places that
  a decision in it stands for a row settled that way.  It is preserved because a
  settled row never changes (`SettledForEver`), and faults only take away
  suffixes of the queues.
* `LiveHoldNeverExpires` compares two clocks.  `RowsAreYounger` says that a
  pending row of a request that is still in its select is no older than the
  request's timer, since nobody asks before the select; with
  `Slack <= HoldTimeout` a row that is older than twice the timeout is then the
  row of nobody.
* The read loop never blocks because a decision leaves the map when it is taken
  from the socket, while its channel is empty, and only the one that took it may
  fill the channel.  The properties of a fresh request are needed there: it has
  no decision because it has no row.
* A request is asked about by its hold and again by every re-announcement, and only
  the first of these carries the data from which a row is made.  `AskedOnce` counts
  the rows of a request and its questions with data in both buffers and the socket:
  at most one of them all.
* A step of `ApprovalFlow` is a step of `HeldRequest` or leaves what it sees
  unchanged.  The steps of a goroutine and of the table are the promise's; those of
  the sockets are stutters.  That a forward is an approved one is
  `DecisionsAreSettled`, that a hold which ends in time leaves a pending row for
  nobody is `RowsAreYounger`, and that the verdict of a request is one verdict is
  `AskedOnce`.  The promise's fairness is left to `approval_promise`.
* A new edge closes no cycle: if in some set every policy had a parent in the
  set, then removing from it the ancestors of the new parent would leave such a
  set for the old edges, because the new child is not among those ancestors.
* A revocation only removes edges and assignments, every set closed under the old
  ones is closed under the new, and so the least such set is smaller.  The rules of
  a deleted policy then have `NoPolicy`, which is no policy anybody reaches.
* `RulesInForce` speaks of an empty socket.  `LastIsMap` says of any live connection
  without drift that the last frame on its way holds the map of the tables, or that
  there is none and the evaluator has that map.  The map is keyed by name:
  `NamesAreUnique` makes the entry of an agent's name its own, and as a map has no
  bucket of everybody, an agent without rules gets none.
* A cache entry of age `n` disagrees with the registry only if the registry
  changed at most `Slack + n` ago, and a running goroutine's hash only if it
  changed since the goroutine looked up.
* A reference stays readable because files only grow and the writer that hands
  it out stood at the end of its file.  The exception, an hour in which a write
  ended short, is kept in `spoiled`.
* A matching registration writes an address that was earned when it was compared,
  so `TableInv` says it of the calls under way too (`CallsAreEarned`).  It also
  keeps room for the creations that have begun (`RoomForCreations`), or an id
  would have no history of tokens.
* A revoked token does not come back because what replaced it can only be overtaken
  by something newer.  `RevokedInv` says that each token is told once, and that of
  two frames with credentials on their way, or of the map in force and a frame, the
  later has no token of an agent older than the earlier has (`InOrder`).  The server
  reads the table when it sends, and its buffer is empty while it has a client.
* `NothingStaleWhenSynced` speaks of an empty socket.  `LinkInv` says of any live
  connection that the newest frame of each kind on its way carries the map of the
  table, or that no frame of that kind is on its way and the proxy has the map
  (`Latest`).  A registration pushes addresses only; that the credentials need no
  push rests on the unique names (`NamesAreUnique`), by which they are listed.
* A delivery in `backoff` has been tried at most as often as its hook retries, one
  that is asking once more at most, and `Failed` compares the two numbers when it
  chooses between them; a reload writes the list of hooks and no delivery.
* A socket that is accepted becomes `#client`, so one that the client has left must
  not be accepted after the one it holds.  Sockets are dialed in the order of their
  numbers, the client holds the last of them (`ConnIsTheLast`) and none is accepted
  before an earlier one (`AcceptedInOrder`).
* Frames keep their order because they lie in one row: those handled, those in the
  bytes of each socket, those that are being written, those buffered.
  `RowInOrder` says that this row ascends and misses only what was lost, and each
  step moves frames between two places with nothing in between (`MovesOn`), adds
  one at the end (`OneMore`) or loses some (`FewerFrames`).  Nothing is in between
  since among the accepted sockets only the latest has unread bytes (`OneUnread`).
  That the server throws on no line takes more than the order.  The stream of a
  socket is what `#partial` holds for it, its unread bytes and what the client has
  still to write; `StreamsFit` says that each stream is lines of JSON, `ClientIsWhole`
  that the client's ends with a whole one, and `PartialIsCut` that no line ends in
  `#partial`.  A chunk moves the boundary within a stream and so cannot break it
  (`ReadSplits`, `ReadStreams`), however it is cut; a crash takes away an end of it,
  and what is left still begins as JSON.  All this holds while no socket is overtaken
  and the server is not shut down (`Calm`), and neither can be undone.
* A row of the log is true because the report it was made of is, and a report
  because its goroutine was where the report says when it sent it, and goes nowhere
  afterwards that would belie it (`Reports`, `RowsAreTrue`): a request has one final
  report after at most one of its being held, in the socket or in the table.  A
  queue entry has a row it belongs to because both go with the agent (`QueueHasRows`).
  The count of a rule's hits lies between the rows that name it and these with those
  that a deletion took (`HitsAreRows`), which needs that both sets are finite.
* A page is right because of its last question of each kind.  `Selected` says of the
  last one asked that it asks for what is selected now, and of an answer that came
  to the last one that it is kept; `OwnShown` that it was served after the page's
  own last write; `EventsTell` that it was served no earlier than what the events have
  announced, or that an event is on its way or the banner up.  Nothing is said of
  the others, since they may come back in any order, and so nothing of a page on
  which one of them came last.
* The recursive queries end because a policy of the k-th round has k edges above it,
  or below it.  `DepthIsBounded` counts the policies with k edges above: of those
  with k - 1, one has no parent among them, as the hierarchy is acyclic, so each
  step loses one and none is left after as many steps as there are policies.  The
  last round is empty, so the rounds are closed under the step and hold the least
  set that is.
* Events are handled in order because they are in order at every place they pass.
  `Ascends` says it of the whole row: what was handled, what is on the wire of a
  stream, and the next number, each with the life of the server in front of its id,
  since a restart counts from 1 again.  It needs that a client has one stream
  (`OneStream`), that the buffer ends with the last numbers without a hole
  (`BufferIsRecent`), and that the id a client names is the last one it handled
  (`Remembers`).  `GoesOn` is the same row without holes, while there is no gap.
* The counter is compared with a recursive function of the events on the wire.
  `Counter` says that it is right now, and of an answer that may still set it
  (`AnswersFit`) that its rows are the pending ones and nothing is on the wire, if
  no event came since.  What the function computes is proved with the least number
  for which it would be wrong (`LeastOne`, from `WFMin`), and not by an induction
  theorem.

TLC checked every invariant of this list or its conclusion before it was proved.

**Only model-checked**: everything with fairness (`KeepsPromise`,
`EveryQuestionCloses`, `EveryHoldIsAsked`, `CatchesUp` of both modules,
`EveryRequestIsLogged`, `StreamSettles`, `DeliveriesEnd`, `ProxyComesBack`,
`StopIsFinal`), since liveness is outside the prover's reach;
`ReaderNeverBlocks`, which is an ENABLED formula (`ReaderFindsRoom` proves that
the guard of `Deliver` holds); and `RuleFitsRequest`, which rests on what a fold over
a pattern matches.

## Where the code and its documents part

Two disagreements have a run that ends in a counterexample (`PROJECT.json`,
"findings", with the quotations).

* `rules_flat_list`: `server/src/api/rules.js:40` pushes all rules as one list, and
  every agent is judged by all of them until the next map.
* `auth_old_token`: `proxy/internal/auth/basic.go:130` stores the outcome for a
  hash that a reload has replaced, so an old token is accepted after the reload,
  where the design, the GUI and a test say that it stops at once.
  `AnswersAreFresh` bounds for how long.

The others were met while modelling.  The models contain the steps that lead to
them; they have no run of their own.

Rules, credentials and requests:

* `proxy/cmd/ashp-proxy/main.go:179` announces a held request without its data,
  and the server throws on it (`server/src/index.js:127`) before it enqueues
  anything, against the comment at `main.go:169`: a question lost with the socket
  is never asked (`Enqueue` in `ApprovalFlow`).
* `server/src/api/approvals.js:67` pushes a reload without data, and the evaluator
  is left without rules, where the comment at lines 16-17 says that they are
  reloaded (`ApprovalCall` and `NothingPush` in `RulesSync`).
* `server/src/index.js:122` lets the foreign key drop the report of a request
  whose rule has been deleted, against the comment at line 99 (`OnMessage` in
  `RequestLog`; `NothingGoesUnlogged` names the exception).
* Questions that time out are rejected by `system:expired`, where the first
  design keeps them for the creation of a rule
  (`docs/superpowers/specs/2026-03-15-ashp-design.md:460`).
* The agents API pushes credentials and no rules, so a new agent is judged by
  the rules of a deleted namesake until the next push (`drifted` in `RulesSync`).
* In file mode every push reads the policy tables, so the rules of the file
  never reach the proxy.
* Reports and tunnels of a deleted agent go on to write rows under its name.
* A held request is counted at its question and again at its outcome.
* A deny rule in transparent mode reports no rule (`TransparentDeny`); a failed
  round trip reports nothing (`UpstreamFails`).
* A write that ends short makes every later reference of its hour wrong; a Write
  after Close fails until the hour is over, though the comment says that it
  reopens the file (`WriteEndsShort`, `WriteToClosed`).
* `config.update` writes a flag that the handlers have copied before, so the
  default behaviour never changes after a SIGHUP, though the comment at
  `server/src/index.js:216` says that it is pushed.

Rules made from requests:

* On the Approvals page the builder's URL is the approval's suggested pattern, so
  its "domain" proposal is `^https:/*`, which matches every https URL, and the
  "path" proposals match nothing (`EntryUrl` and `Offered` in `RuleMatching`; the
  comment at `SmartRuleBuilder.jsx:4-5` speaks of the entry's URL).
* A proposal that contains a `?` of its URL does not match that URL, since nothing is
  escaped (`Offered`); the suggested pattern of a URL without a path does not match it.
* A rule made on the Logs page has no policy, since that page hands the builder no
  list of policies.
* Two "Approve + Create Rule" that overlap leave the builder open for the later one,
  with the methods ticked for the earlier if both have the same suggestion.
* The banner of matching policies stays when the selection is cleared.
* In file mode the search for matching policies takes the method `*` literally.

Events and webhooks:

* A name of an event that ends a chunk is forgotten (`useSSE.js`, `cut` in
  `EventStream`), where its comment says that lines are buffered.
* `App` hands `useSSE` new callbacks at every render (`App.jsx:82`), so every
  render aborts the stream and opens another, and events in between are lost to
  the GUI.  `StreamSettles` says that this ends.
* After a restart of the server the ids begin again, and a client with an older
  Last-Event-ID is replayed nothing (`events.js:78`).
* `{expired: n}` is one event for n rows, and the counter takes one off.  The
  pending rows of a deleted agent go without an event (`AgentDeleted`).
* A webhook without `events` makes `dispatch` reject, one without `secret` is
  never sent; `timeout_ms: 0` means five seconds, `retries: 0` means none.

The pages:

* The list of pending approvals has no `agent_id`, so `handleAssignPolicy` only
  approves.  The handlers that resolve clear a selection made meanwhile.
* "Clear IP" of the Agents page changes nothing: PUT ignores `ip_address`.
* While the detail of a policy is loading the old one is shown, and Delete and
  Assign act on the new, Edit on the old.  The Rules page hears no events.
* A body that arrives after the entry was changed is shown for the next one
  (`DetailPanel.jsx:12-22`, `stray` in `Pages`).
* An answer that comes after that of a later question is shown in its place
  (`Rules.jsx:65`, `Logs.jsx:59`, `Approvals.jsx:134`): no page orders or cancels its
  fetches.
* The agent filter of the log keeps the offset; held requests and deleted agents
  change the tables with no event for the page (`HeldRow`, `AgentDeleted`).
* The Dashboard's late `getLogs` overwrites what events have brought, and its own
  pending count is never updated.

Transport:

* A line of more than 1 MB ends the client's scanner; it dials again and leaves
  the old socket open.  If that still has unread bytes, the partial line that the
  server's sockets share is reset or glued (`overtaken`, `dead`).
* `chunk.toString()` without a decoder may spoil a character cut by a chunk.
* `ProxyManager.start` after `stop`, which no caller makes, would give two
  proxies; a spawn that fails emits an `error` event nobody handles.

## Not modelled

* Of rule matching, the order of priorities (`Match` takes the first that matches),
  the route that tries a rule out, and the search of file mode.  `RequestLog` lets
  a request match any rule in force.
* In `ApprovalFlow`, the deletion of an agent, which takes its rows out of the
  approval queue (`server/src/dao/sqlite/agents.js:135-141`): a hold of that agent
  whose row is gone times out.  Its effect on the counter, on the pages and on the
  log is in `EventStream`, `Pages` and `RequestLog`.
* The migrations of the database, which end before anything else starts.
* File mode, in which every push reads the empty policy tables.
* The cryptography of the body log, beyond the fact that a record's key depends
  on its offset; the certificate authority; parsing of configuration, bodies,
  headers and URLs; log queries; wording and layout; the Dashboard, the forms
  and the rendering of the GUI.  These are computations without shared state, or
  pure input and output.
* Who should own an address that two agents have registered: the code takes the
  last row of its query, and `Credentials` does the same.
* The content of a frame, and bytes that are no frame, in `Transport`; the
  relogin of the GUI while an answer of the old session is under way.
* `cleanup` of the request log, which nothing calls, and the override by
  `Rule.DefaultBehavior`, which no sender sets.
* Deployment; its trace is that either process may die while the other lives.

## Plan

Done, in this order because the first carries the system's purpose: the approval
flow with its abstract specification and proofs; the policy store with its
proofs, and what its rules match; rule distribution with its proof; authentication
with its proof; the request log and the body log with their proofs; then
credentials and addresses with proofs, the event stream and the webhooks with their
proofs, the pages with their proofs, and the transport with the proxy manager and
its proofs.  Every safety invariant that a run checks is a theorem, but for
`ReaderNeverBlocks`.

Left, of the model: the order of priorities in rule matching, and the migrations.
