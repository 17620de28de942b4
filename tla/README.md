# Verification of Kin

TLA+ models of Kin, the TLC instances that check them, and TLAPS proofs about them. Kin is
a network of personal agents: a platform of Go services over PostgreSQL, Redis and etcd
(`src/platform/kin-core`), a hardware service in Python (`src/apps/api`), a relay that
bridges cards over BLE (`src/tools/agent-link-relay`) and the cards themselves
(`src/firmware/cardputer-adv`). Paths below that do not start with `src/` are relative to
`src/platform/kin-core`.

What is modelled is the part where concurrent calls, transactions, caches, queues and
connections meet, and where a test that runs one call after another sees nothing.

## The system

| component | state | operations | hard behaviour | modules |
|---|---|---|---|---|
| friend graph, `rpc/pm/handler.go`, `rpc/pm/dal/relations.go` | tables `user_relations`, `friend_requests`; row and advisory locks | SendFriendRequest, HandleFriendRequest, Unfriend, BlockUser, UnblockUser, the welcome's ensureFriendship | concurrent transactions, locks in different orders, checks made before the transaction | `FriendGraph`, `OwnerRows`, `Relations` |
| relation cache, `rpc/pm/relations/cache.go` | Redis sets `friend:<uid>`, `block:<uid>` | IsFriendCached, IsBlockedCached, loads, invalidation, SADD and SREM | loads race with changes; a call dies between commit and invalidation | `OwnerRows`, `RelationCache` |
| conversations, `rpc/pm/handler.go`, `icebreak`, `validator` | `conversations`, `private_messages`; Redis lock, broken flag, cached info; a singleflight group | SendPM, CloseConv | count before or after the commit, rollback of a count, a load that overlaps a close | `Conversation` |
| message delivery, FetchPM, `ws/push`, `ws/handler`, `cli/cmd/stream.go` | `is_read`, cached empty response, cursors | FetchPM, FetchPMHistory, push loop, connect, reconnect | ids and commits in different orders, mark-as-read before delivery, broken connections | `Inbox` |
| id generator, `pkg/idgen` | etcd leases and worker keys, clock, sequence | claim, NextID, Close | expired leases, crashes, clocks that step back | `IdSource`, `IdGen` |
| stream consumers and the official welcome, `pipeline/consumer`, `pkg/mq` | stream, pending entries, a channel, worker pool; the Redis gate | publish, read, reclaim, handle, ack, drop | redelivery while the first handler runs, crash behind the gate | `Welcome` |
| commands and attention items, `api/consolev2`, `pkg/consolev2retention` | `agent_attention_items`, `agent_commands` | respond, create, dismiss, claim, complete, expiry jobs | repeated requests, lapsed claims, late completions, jobs between them | `Choice`, `Commands` |
| handshake, `src/apps/api`, relay, card | match, confirmations, gestures; flags of the relay; the card's atomics and screen | button, gesture, finalize, session state, feedback | calls that overtake each other, dropped links, restarts | `Handshake` |
| radar, `src/apps/api` | `match_candidates` | ensure_match | expiry against a unique constraint, look then insert | `Radar` |

How they interact. The relation operations change the tables in one transaction each and
afterwards touch the two Redis sets. SendFriendRequest and SendPM ask the cached sets
first. SendPM writes a message, deletes the receiver's cached empty response and publishes
on `pm:push:<uid>`; the push loop of the receiver's connection, in another process, answers
with a FetchPM from its cursor. The welcome consumer, in a third process, writes the friend
tables with the same functions and sends its message through the PM service. Request and
message ids come from the id generator. The console writes commands that the agents'
runtimes claim. The handshake service is a program of its own, reached by the relay.

Where a model is cut, its neighbour appears as its promise: `Relations` lets the cached
checks answer anything (`StaleCache`), `RelationCache` takes transactions as single steps
on one agent's rows, which both modules are proved to change as `OwnerRows` says,
`Relations` and `Inbox` draw fresh, increasing ids (which is what `IdSource` says of one
generator), and `Welcome` lets the friendship and the message succeed or fail.

## Modules

`FriendGraph` is the abstract specification of the friend graph: one atomic action per
effect a client sees (Ask, Meet, Accept, Decline, Befriend, Unfriend, Block, Unblock).

`OwnerRows` is the part of it that the Redis sets of one agent cache: the rows with that
agent as `from_uid`. `RowsOf` in `FriendGraph` is the mapping from the tables.

`Relations` extends it with the transactions. A worker `w` runs one call (`call[w]`), and
`pc[w]` is its next SQL statement. Statements that lock (`LockRelationPair`,
`SELECT ... FOR UPDATE`, and the row locks of UPDATE, DELETE and INSERT) wait while another
worker holds the lock; cycles end in `DeadlockVictim`, PostgreSQL's deadlock detector.
Writes become visible at the commit, so they are all in the commit action. `Fail` is a
statement timeout, a lost connection or a dead process: the transaction is rolled back.
HandleFriendRequest(ACCEPT) looks at the friend rows in a statement of its own (`IsFriend`):
it inserts them (`HandleCommit`), or commits without if it has found them
(`AcceptBetweenFriends`), whether Unfriend has removed them meanwhile or not.
`GraphSpec`, that every step is a step of `FriendGraph` or leaves the tables alone, is the
refinement; the mapping is the identity because the tables are the same variables.

`RelationCache` is one agent's two Redis sets and their rows, at the grain of Redis
commands: EXISTS, query, DEL, SADD, EXPIRE, SISMEMBER for readers; commit, then SADD or SREM
and DEL for writers. Commands of a pipeline go out together, but those of other clients may
come in between. `Die` covers a dead process and an ignored Redis error.

`Conversation` is one conversation from its first message to its closing: the validator's
cached info with its singleflight load (`GetInfo`, `FillInfo`), the Lua script (`RunScript`,
atomic as in Redis), the transaction, `Rollback`, and CloseConv as its UPDATE and its DEL.

`Inbox` is one agent as a receiver: `sender[m]` is where SendPM is with message m after it
has drawn its id, each fetcher (a connection's push loop or the REST poller) goes through
FetchPM's steps (get, select, mark, deliver), and the client has the messages and the
cursor it has been sent.

`IdSource` is what callers of NextID rely on; `IdGen` are the processes of one service that
claim worker ids in etcd and make snowflake ids. `SourceSpec` is `IdSource` under the
mapping from an id's parts to the 64-bit number (`Id`). A process that starts again is
another member of `Procs`.

`Welcome` is the event stream of one new agent, its consumer group (delivery counts, pending
entries that grow idle, reclaims, drops), the dispatcher and its channel, and the workers
with the handler behind its SETNX gate. Each call of the handler has every outcome it has in
the code: an official account that is not found, a send whose answer is lost, a send that
the PM service swallows because the agent has blocked the official account.

`Choice` is what the user sees of an attention item: the item and the outcome of the last
choice made for it, each operation one step. Only the closing of an item whose time is over
takes two: that no choice is under way holds when it begins.

`Commands` is one attention item and the commands of its agent. A console call is a first
read without locks (`ReadPrior`), the transaction (`Respond`, `Create`), and the second look
after a conflict (`Recover`). Runtimes claim under an owner and an epoch and complete with
both. `ExpireCommand`, `ReopenItem` and `ExpireItem` are the jobs of the retention worker.
attention_expiry looks for live commands in the snapshot of its statement
(`LookForExpired`), before it has the row of the item; under the lock PostgreSQL compares
the row again, but not the commands (`ExpireItem`). `ChoiceSpec` is the refinement: the
choice is the state of the item's last response (`Outcome`), a closing is under way while
the job is between its two steps, and keys, claims and epochs disappear.

`Handshake` is one match: two cards with their atomics (`card`), the relay (`ready`,
`feedbackSent`, calls in flight), the service (`confirmed`, `gesture`, `status`) and the BLE
links between. Calls are a bag: they overtake each other, and one card may have several of a
kind in flight, even equal ones. Time is a second and a part of it: a gesture happens at
both, and what the relay posts (`Push`) is the second alone, as its `ISO8601DateFormatter`
truncates it (`main.swift:79`). `Radar` is one pair that the radar endpoint is asked about
again and again.

The `MC...` modules add the symmetry sets for TLC. Definitions marked "Mutant:" are
plausible bugs: replacing the definition that follows by one of them must make TLC find a
property violated; PROJECT.json lists which.

History variables (marked "history" where they are declared) record what a property's
premise is about, and no action reads one: `calm` (calls came one at a time), `uncounted`,
`missed` and `unsaid` (the ice-break count was undone, or never made), `lost` (responses the
network lost), `sound` (leases and clocks have behaved), `unanswered` (welcomes whose answer
was lost), `stuck` and `forgotten` (a gate left closed, an event given up), `overtaken` (an
item closed over a response), `told`, `shaken`, `together`, `stranded`. A premise is there
because the property is false without it, and the next sections say of what.

## Runs

All bounds are constants in the cfg files.

| run | asks | result |
|---|---|---|
| relations_two_calls | two concurrent calls of all kinds, the caches saying anything: the tables' invariants, action properties (an answer lands on the request it names), the refinement | holds |
| relations_progress | every call returns; the welcome is among the calls, and nobody else gets a friend without asking or accepting | holds |
| relations_block_race | no friendship across a block | violated |
| cache_concurrent | two calls, two peers, deaths and lost commands: the set expires, is exact in calm, converges | holds |
| conversation | crashes, failed transactions, expiries, friends: the documented window but for the first message, who breaks the ice, a close is seen | holds |
| inbox_delivery | poller and connection side by side, broken connections, lost responses, dying senders: read means delivered, committed messages arrive | holds |
| idgen | two processes, expiring leases, crashes, clocks that step back: ids are unique and increase | holds |
| welcome | repeated deliveries, overlapping workers, failures, lost answers, crashes: one welcome at most whose answer arrives and none after it, and one in the end | holds |
| welcome_retry | a released gate has an event that will retry it | violated |
| commands | two console calls, two runtimes, the jobs with their snapshots, lost answers: the item is a `Choice`, carried out once, by one owner | holds |
| handshake | two cards, their links, relay and service, one fault: who is connected has met as far as whole seconds tell, screens tell the truth, no ready card is forgotten, both see it | holds |
| radar_expiry | a radar call returns the pair's match | violated |

### Bounds, and why the interesting cases happen within them

* Friend graph: two agents, because every operation, lock and property concerns one pair.
  `MaxRequests` 2: a request, its answer, and a second request under a fresh id over the same
  row; 1 in relations_progress, since who waits for whom does not depend on ids. Two
  workers: the races are between two transactions on a pair, and two suffice for a
  deadlock; three in relations_block_race, where a third commits in between.
* Cache: two peers, so that a set can be partial; two workers: a load and a change, or two
  loads, overlap.
* Conversation: `MaxInitiatorMsgs` 2 (3 in the code) and `MaxMessages` 4: the window is
  filled, exceeded by one, and there is room for a reply.
* Inbox: two messages that commit against the order of their ids; `Limit` 1 (20 in the code):
  a page that does not hold all unread messages; one connection that breaks and comes back,
  with the poller beside it.
* IdGen: two worker ids, two sequence numbers and two milliseconds (and the time before the
  epoch): ids run out in a millisecond, and a worker id changes hands.
* Welcome: two events, two workers, two retries (3 in the code), a channel of two (twice the
  workers in the code): both events under way at once, an event handled twice at once, an
  event dropped, a full channel.
* Commands: two calls, two keys, two runtimes, two commands, two epochs: an item answered,
  reopened and answered again; a claim taken over.
* Handshake: a window of 0 between seconds 0 and 1 (3 seconds in the code) so that gestures
  are near or not; two parts of a second, so that gestures less than a second apart fall
  into one second or two; two posts of one card in flight, which may be of one kind, and one
  of the other's; one fault.
* `Faults`, `MaxFaults`: which failures, and how many, a run admits.

### Deadlock

A state without a next step is an error for TLC except in six runs whose system may stop: in
commands and idgen the bounds are used up (no commands, epochs or processes are left); in
welcome and welcome_retry all events are handled; in handshake both are connected and
nothing is under way; in radar_expiry the clock ends.

### Fairness

* `Relations`: strong fairness of a worker's statements (a lock that is free again and again
  is granted: PostgreSQL queues the waiters), weak fairness of the deadlock detector.
  Nobody has to call, and no call has to fail.
* `RelationCache`, `Conversation`: weak fairness of a call's next step, since goroutines and
  their I/O go on, and of the expiry of keys that have a TTL.
* `Inbox`: the same for senders, fetchers, push loops and the cached empty response; a polling
  client polls, and a client without a connection opens one (`cli/cmd/stream.go` retries for
  ever).
* `Welcome`: a committed update is announced, pending entries grow idle, the dispatcher polls
  and hands out, workers go on. That a call succeeds is not assumed; nor is a crash.
* `Handshake`: both people keep trying (press whenever the card lets them, shake before the
  time-out, again after it), texts arrive on links that stay up, links come up again, calls
  and queries return.
* `IdGen`, `Commands` and `Radar` have safety properties only.

### What the violated runs show

Each is described at "findings" in PROJECT.json with the line it contradicts.

1. `relations_block_race`: the block checks of SendFriendRequest precede its transaction; the
   auto-accept inside does not repeat them (HandleFriendRequest does).
2. `welcome_retry`: a handler that takes longer than RetryMinIdle has its event reclaimed; a
   second handler finds the gate closed and acknowledges; when the first one fails, it
   releases the gate and nothing is left to retry.
3. `radar_expiry`: an expired match keeps its status, and the next one violates the unique
   constraint on pair and status: the radar answers 500 from then on.

Counterexamples of the same models that are not among the runs. Each is a behaviour that the
property which is checked names in its premise or its bound, so that the property says that
there is no other. The first six disagree with a text of the repository:

* An accepted request between agents who are no friends (`Relations`). HandleFriendRequest
  reads the friend rows in a statement of its own (`handler.go:923`) and inserts none when it
  finds them; an Unfriend may commit between that statement and the COMMIT, or an accept
  between the two statements of Unfriend. `dal/relations.go:267-268` says that
  LockRelationPair "serializes relation state transitions for a user pair", but Unfriend and
  UnblockUser do not take it. `AcceptanceBefriends` names the case, `FriendGraph` has it as
  `Confirm`.
* One message more than the window (`Conversation`): the first one is counted after its commit
  (`handler.go:224`), so that a call may die before it is counted, or replies may be counted
  first, and four fit in. `icebreak.go:76-78` ("The next send after this is rejected with
  429"), `skills/ef-communication/references/message.md:39` and `SKILL.md:117` ("up to 3
  messages") say three. `IceWindow` is the documented window, and one more only where
  `FirstUncounted` holds.
* A message after a close (`Conversation`): a load of the conversation info that overlaps
  CloseConv (`validator.go:126`) puts the open status back for up to 300 seconds, although
  `message.md:172` says "After closing, no further messages can be sent." `ClosedIsSeen` is
  what is left: it is seen in the end.
* A second welcome (`Welcome`): SendPM stores the message, its answer is lost, the gate is
  released and the event retried. `official_welcome_consumer.go:115` says "welcome each agent
  at most once". `WelcomedOnce` counts the welcomes but for those `unanswered`.
* An item closed over a response (`Commands`): attention_expiry finds no live command in the
  snapshot of its statement; a response commits, and the item's time runs out, before the
  job has the row. `jobs_postgres_test.go:227`, TestPostgresAttentionExpirySkipsConcurrentResponse
  ("concurrent response was overwritten by expiry"), covers a response that holds the row
  when the statement comes to it, which is skipped. The runtime may carry the response out,
  and the item stays expired. `overtaken` records it.
* Two connected by gestures further apart than the window (`Handshake`): `docs/BACKEND.md:61-67`
  asks for an "absolute time delta <= 3 seconds", the relay truncates to whole seconds
  (`main.swift:79`), so that gestures up to a second more apart connect. `Earned` says less
  than a second, and not more.

The others contradict no text that we found:

* A welcome that is given up at once (`Welcome`): while the official account is not found, or
  the query for it fails (`official_welcome_consumer.go:79-81`), an event is acknowledged as
  handled (`forgotten`). The comment at 71-73 counts on later events, which only come with
  another update of the profile.
* A gate that is closed for an agent that was sent nothing (`Welcome`): it blocks the official
  account after the check at the gate, and SendPM answers with success and stores nothing
  (`handler.go:341-345`). `stuck` records it.
* A block set that hides a block for ever (`RelationCache`): SADD on an absent `block:<uid>`
  (`handler.go:1103`) makes a partial set without a TTL, which readers take for complete.
* Ice broken for an owner who never spoke (`Conversation`): the owner's first message is
  counted and rolled back, but a message of the initiator has broken the ice over it
  meanwhile, and the rollback of a first message leaves the flag alone; or the owner's call
  dies. A rolled back count also resets the whole lock. `unsaid` and `uncounted` exclude them.
* Messages marked read for nobody (`Inbox`): the push loop of a connection that broke goes on
  fetching until a deadline tells it (`push.go:164-175`). `lost` records them.
* A message that a connection never pushes (`Inbox`): it commits after one with a larger id
  has been pushed (`push.go:307`). `EveryMessageArrives` therefore needs a client that polls.
* A message marked read before it is written, and lost with the connection (`Inbox`): a
  reconnect with a cursor does not ask for history. `lost` records it.
* Two holders of a worker id (`IdGen`): the generator goes on until its keep-alive channel
  closes, which may be after etcd has dropped the lease. `sound` excludes it.
* A welcome that never happens (`Welcome`): a crash or a cancelled context between the gate
  and its release leaves the gate closed (`stuck`), for a graceful shutdown cancels the
  context with which the gate is deleted.
* Two who try and never connect (`Handshake`): KIN READY arms a card only in LINK, a card
  boots in HOME (`main.cpp:41`), nothing writes KIN READY again before the next drop, and a
  failed session query is not repeated although `src/apps/api/app/main.py:849-853` describes
  it as the way to recover. `stranded` records it.
* A session answer overtaken by the connected answer puts KIN READY back on both screens
  (`Handshake`); pressing again repairs it.
* A second match of a pair that is connected already can never become connected: the unique
  constraint covers that status too (`Radar`).

## Proofs

Checked by TLAPS for every value of the constants that satisfies the named assumptions.
The invariants of the runs are seldom inductive; `IInv` of each module is.

* `Relations_proofs`: `TypeOK`, `NoMutualPending`, `FriendSymmetric`. `IInv` adds what the
  handlers rely on: each statement belongs to its handler (`StatementOfOp`), the pair lock is
  held from LockRelationPair to the end (`PairLockHeld`), only rows that exist are locked
  (`LockedRowsExist`), a row a call did not find stays absent until it commits
  (`NotFoundStaysNotFound`: whoever would insert it needs the pair lock), and the row a
  handler answers is locked and pending (`JudgedPending`). With these, SendFriendRequest
  inserts a pending row only when the other direction is not pending.
* The same module, in its second part: `Refinement`, that `Spec` implements `GraphSpec`, and with it
  `RequestLifecycle`, `AcceptanceBefriends`, `BlockCutsTies` and `NoAcceptAcrossBlock`. The
  second invariant, `CommitInv`, says what each call knows when it commits. The argument: a
  step writes only what its transaction holds (`WritesWhatItHolds`), so it disturbs nobody's
  knowledge (`OthersKnow`), and a commit that knows this much is the step of `FriendGraph` of
  the same name. That an ACCEPT has seen the two as friends is no such knowledge, for
  Unfriend may end it; that it has seen them as no friends is (`NotFriendsYet`), for whoever
  befriends them takes the pair lock.
* Its third part: `DeadlockNeedsRowFirst`. `PairLockFirst` is inductive with `IInv`: a call that
  starts with LockRelationPair holds nothing before that lock, and only locks of its pair
  after it. In a cycle of such calls, one that has its pair lock would wait for another that
  has the same one; one that has not waits for one that has; so there is no cycle.
* Its fourth part: `AnswersTheRequest` and `Consent`, action properties that say who may do
  what to whom. `AskedInv` is the invariant: a handler finds its row by an id, and from the
  moment it has the row's lock the row keeps that id, since a new request would have to
  write the row. `RequestIdsUnique` says that an id is enough to name a request.
* Its fifth part: `SomeoneMoves`. Every lock has a holder under way (`PairLockFirst`), so
  if none of the calls under way can go on, each waits for another of them and all of them
  together are a deadlock, which the detector breaks: `CallsReturn` needs no more than
  fairness. `CachedRowsRefinement`: every step maps to a step of `OwnerRows` for each agent.
* `RelationCache_proofs`: `TypeOK`, `FriendSetExpires`, `FriendSetExact`, and that its rows
  change as `OwnerRows` says (`RowsRefinement`), so that what the cache model takes from the
  transactions is what the transactions were proved to do. `IInv` adds that a
  loader only adds a non-empty list, and for the calm periods `CalmInv`: one call runs, its
  load is fresh, and the set is absent or exact unless a change is between its commit and
  its invalidation.
* `Conversation_proofs`: `TypeOK`, `IceWindow`, `BrokenMeansBothSpeak`. `IInv` adds that the
  initiator begins (`BeginsWithInitiator`), that a lock of the owner's and a broken flag have a
  message of the owner's behind them, written or under way with the verdict that its rollback
  will look at (`MarksAreOwned`), and that until then every message of the initiator that has
  passed the check is counted, but for the first while it has not been (`WindowCounts`). The
  other way round, `CountIsEarned` and `LimitIsEarned`: without crashes the lock counts no
  message that does not exist, and nobody is refused for the limit too early. A crash after the
  script leaves its count behind (there is no transaction that spans Redis and PostgreSQL),
  hence the premise; TLC shows the counterexample with it. `ClosedStaysSeen`: the copies of the
  open status can only die out once the conversation is closed.
* `Inbox_proofs`: `TypeOK` and `ReadIsDelivered`, which together are inductive. The argument:
  a page is marked by the fetcher that holds it, in the step that makes it a response.
  `ResumesWhereItIs` and `CursorGoesOn`: the client resumes at a message it has, and never
  behind. With `PagesAreAhead` (what a connection has yet to write lies behind its cursor)
  the invariant is inductive, although an old loop may still be ending beside a new one.
* `IdGen_proofs`: `TypeOK`, `UniqueIDs`, and `Refinement`: `Spec` implements `IdSource`. `IInv`
  says that a generator's ids are behind its lastMS and sequence (`OwnIds`), that a process
  that can make ids under its lease has its worker id's key (`HoldsKey`), that the ids others
  made with that worker id are behind it (`OthersBehind`), and so that ids differ in their
  parts. Lemmas about the encoding turn that into different, ordered numbers.
* `Welcome_proofs`: `TypeOK`, `OneHolder`, `WelcomedOnce`, `GateIsHeld`, `EventIsKept`; their
  conjunction is inductive: who is behind the gate depends on the workers and the gate alone, an
  answered welcome leaves it closed for good, and a step of the group moves an event only
  between stream, pending entries and hands. `RetriesAreBounded`: a delivery count never falls,
  and an event is handed out only while its count is below `MaxRetries`, across crashes as well;
  its invariant is that only what has been read is counted.
* `Commands_proofs`: `TypeOK`, `PendingItem`, `ActedOnce`, `OneResponsePerRevision`, `Fenced`,
  `AnsweredByItsOwn`, `ClaimsAreCounted`; again their conjunction is inductive. The argument
  turns on the revision: a response is inserted at the item's revision and raises it, so
  responses come in the order of their revisions and only the last can be live. The expiry job
  writes with what it saw before it had the row, when no response was live: one that has become
  live since answers a later revision, and is the last. `ClosedOver` names the item that is
  closed over it. On top of it `OneOutcomeTold`, from `Fenced`, and `Refinement`: `Spec`
  implements `Choice`. Each action is one of its steps or a stutter; the work is in showing that
  a step on a command that is not the last response leaves `Outcome` alone.
* `Handshake_proofs`: `TypeOK`, `Earned`, `Settled`, `ShownIsSaved`, `FeedbackArrives`. `IInv`
  adds that answers on their way are true (connected is for good), that recorded and posted
  seconds are those of real gestures and that near ones made `together` true
  (`GesturesAreReal`), that two recorded seconds are near (`RecordedNear`: a far one was taken
  back), and that the feedback flag goes with the link (`FeedbackOnLink`). `ArmedOrStranded`
  rests on `IInv`: a card that the relay takes for ready has been sent KIN READY or the outcome,
  and has lost the effect only by a drop (then the relay does not take it for ready), or in one
  of the ways `stranded` lists.

Proved and not among the properties of the runs, because there they follow from others, are
steps on the way to them, or hold one half of a liveness property that is checked whole:
`AcceptanceBefriends`, `FriendSymmetric`, `RequestIdsUnique`, `SomeoneMoves`, the rows'
refinements, `OneHolder`, `GateIsHeld`, `PendingItem` (part of what `Choice` says),
`OneResponsePerRevision`, `OneOutcomeTold`, `Settled`, `CountIsEarned`, `LimitIsEarned`,
`ClosedStaysSeen`, `ResumesWhereItIs`, `CursorGoesOn`, `RetriesAreBounded` and the invariants
`IInv`, `CommitInv` and `AskedInv`. TLC agrees with each on the instances above
(the rows of one agent at a time; without crashes where that is the premise).

Only model-checked: liveness (`CallsReturn`, `FriendSetConverges`, `ClosedIsSeen`,
`EveryMessageArrives`, `WelcomedInTheEnd`, `Met`), which is beyond the prover under fairness.
Of three the safety they rest on is proved: `SomeoneMoves` for `CallsReturn`,
`ClosedStaysSeen` for `ClosedIsSeen`, `ArmedOrStranded` for `Met`.

## Abstractions

* Wording, greetings, remarks, names, rate limits, telemetry and read-only lists are left out.
* An agent does not send requests to itself (the gateway refuses it).
* A Redis command that fails is a call that dies there, or that skips it.
* `Conversation`: one pm process (a second one would have a singleflight group of its own);
  the cached map from participants to conv_id is transparent, since conversations are never
  deleted; friend conversations, which skip the ice-break check, are not created, but a
  sender may be a friend (`MayBeFriends`). A load's miss and its SELECT are one step.
* `Inbox`: a connection subscribes before its first fetch, as `push.Run` does; friend requests,
  which ride in the same envelope, appear as the choice to push an empty page; a failed
  UPDATE of `is_read` and the size limit of FetchPMHistory are left out.
* `RelationCache`: the answer of SISMEMBER is not recorded, the set it is taken from is. A new,
  refused or cancelled request also deletes the friend set in the code, although the rows
  have not changed; a reader only loads it again.
* `IdGen`: the 41 bits of the timestamp do not overflow (they last until 2093). A generator
  that waits for the clock is one that cannot take its step yet.
* `Welcome`: one agent, one process of the consumer, batches that are never full. The PM
  service's other refusals of a send are failures that release the gate.
* `Commands`: the agent is onboarded, runtimes hold their leases and have applied the context;
  rows are not deleted; a transaction is one step from its first row lock on, and the
  snapshot of attention_expiry a step before. The jobs run one after the other and in one
  process: the cron job takes a lock of 5 minutes for a run of at most 2
  (`pipeline/cron/console_v2_cleanup.go:49-63`). The script
  `scripts/console_v2_cleanup/main.go`, run by hand, takes no lock and is not modelled.
* `Handshake`: one match and one handler of it at a time; a frame takes no time, so that a
  gesture is made when the relay hears of it; HOME stands for every mode but LINK; not to
  shake a confirmed card counts as a fault.

## Not modelled

* Friend notifications (`pm:notify`) and the notification service: goroutines that nothing
  orders write and delete the hash, so any entry may be stale; no property of the code holds
  of it beyond that. Listed as a hazard.
* Campfires (`src/apps/api`): the comparison of versions and the write are visibly not atomic.
  Listed as a hazard.
* Of the console: leases of runtimes, context revisions, the wake-up outbox, repeatable
  `open_source` responses. Of the consumers: the simple mode and the dead-letter script. Of
  the handshake: nonce mismatches, other events, confirmations from the app.
* Auth, profiles, agent cards, cron jobs: single-row reads and writes, or projections that
  the next event rebuilds. Items, feed, ranking, recall, LLM and embedding calls: numeric
  heuristics and external models. The domains `rpc/handshake`, `campfire`, `presence`,
  `experience`, `relationship`: pure rules that no service uses yet.
* Gateway, generated code, web, console front end, browser extension, the rest of the CLI and
  of the firmware: glue, generated, or user interface. These are most of the repository's
  lines (kitex_gen, the api models and handler_gen alone are more than half), so the models
  cover a small share of its lines but most of its protocols.

## What is left

1. Liveness of `Commands`: a pending item is settled, reopened or expired in the end.
2. Notifications composed with `FriendGraph`; campfires with their versions.
3. Leases and context revisions of the console, the outbox that wakes runtimes, and the auth
   codes.
