-------------------------------- MODULE Inbox --------------------------------
(***************************************************************************)
(* How the messages of one agent reach it: SendPM after its checks and     *)
(* FetchPM of rpc/pm/handler.go, the push loop of ws/push/push.go with the *)
(* connections of ws/handler/ws.go and ws/hub, and the client that         *)
(* reconnects from the last cursor it was sent (cli/cmd/stream.go) or      *)
(* polls FetchPM from cursor 0.                                            *)
(*                                                                         *)
(* Message ids are 1, 2, ... in the order the id generator hands them out; *)
(* the transactions commit in any order.  Friend requests, which share the *)
(* push envelope, only matter as a reason to send it.                      *)
(***************************************************************************)
EXTENDS Integers, FiniteSets

CONSTANTS
  MaxMessages,   \* bound on the messages sent to the agent
  Limit,         \* page size of FetchPM (20 in the code)
  Conns,         \* WebSocket connections: a new one may open while an old one ends
  Poller,        \* the REST client's fetches
  NoConn,
  Polling,       \* TRUE: the client polls FetchPM
  Faults         \* which of AllFaults can happen

\* A connection breaks, a response is lost; a sender dies after its commit, or Redis
\* does not do what it asks.
AllFaults == {"network", "sender"}

ASSUME BoundAssumption == MaxMessages \in Nat
ASSUME LimitAssumption == Limit \in Nat \ {0}
ASSUME ConnsAssumption == Poller \notin Conns /\ NoConn \notin Conns
ASSUME PollingAssumption == Polling \in BOOLEAN
ASSUME FaultsAssumption == Faults \subseteq AllFaults

VARIABLES
  sender,        \* message -> the next step of its SendPM
  read,          \* messages with is_read
  emptyCached,   \* pm:fetch:<agent> holds the empty response
  pc,            \* fetcher -> its next step
  page,          \* fetcher -> the messages FetchPM has selected
  history,       \* connection -> the messages of FetchPMHistory
  cursor,        \* connection -> Connection.PMCursor
  events,        \* connection -> messages on its pm:push channel not yet received
  live,          \* the connection the client is at the other end of, or NoConn
  client,        \* messages the client has
  lost,          \* history: messages in responses the client never got
  clientCursor   \* next_cursor of the last push the client received

senderVars == <<sender>>
connVars == <<history, cursor, events>>
clientVars == <<live, client, lost, clientCursor>>
vars == <<sender, read, emptyCached, pc, page, connVars, clientVars>>

Msgs == 1..MaxMessages
Fetchers == Conns \cup {Poller}

Stored == {m \in Msgs : sender[m] \in {"uncache", "publish", "done"}}

\* Mutant: a message is there as soon as it has its id.
UnreadUncommitted == {m \in Msgs : sender[m] # "none"} \ read

Unread == Stored \ read

\* The cursor of a fetcher's requests: a poll always asks from 0.
From(f) == IF f = Poller THEN 0 ELSE cursor[f]

Init ==
  /\ sender = [m \in Msgs |-> "none"]
  /\ read = {}
  /\ emptyCached = FALSE
  /\ pc = [f \in Fetchers |-> IF f = Poller THEN "idle" ELSE "off"]
  /\ page = [f \in Fetchers |-> {}]
  /\ history = [c \in Conns |-> {}]
  /\ cursor = [c \in Conns |-> 0]
  /\ events = [c \in Conns |-> 0]
  /\ live = NoConn
  /\ client = {}
  /\ lost = {}
  /\ clientCursor = 0

-----------------------------------------------------------------------------
\* SendPM, from the id of the message on.

SenderGoes(m, l) == sender' = [sender EXCEPT ![m] = l]

FetchSideUnchanged == UNCHANGED <<read, pc, page, history, cursor, clientVars>>

NextID(m) ==
  /\ sender[m] = "none"
  /\ \A n \in 1..(m - 1) : sender[n] # "none"
  /\ SenderGoes(m, "commit")
  /\ FetchSideUnchanged
  /\ UNCHANGED <<emptyCached, events>>

\* The transaction commits, or fails and there is no message.
Commit(m) ==
  /\ sender[m] = "commit"
  /\ SenderGoes(m, "uncache") \/ SenderGoes(m, "failed")
  /\ FetchSideUnchanged
  /\ UNCHANGED <<emptyCached, events>>

Uncache(m) ==
  /\ sender[m] = "uncache"
  /\ SenderGoes(m, "publish")
  /\ emptyCached' = FALSE
  /\ FetchSideUnchanged
  /\ UNCHANGED events

\* Redis hands the event to whoever is subscribed now.
Publish(m) ==
  /\ sender[m] = "publish"
  /\ SenderGoes(m, "done")
  /\ events' = [c \in Conns |-> IF pc[c] = "off" THEN 0 ELSE events[c] + 1]
  /\ FetchSideUnchanged
  /\ UNCHANGED emptyCached

\* Nobody looks whether the DEL and the PUBLISH succeed, or dies before them.
SenderDies(m) ==
  /\ "sender" \in Faults
  /\ \/ sender[m] = "uncache" /\ SenderGoes(m, "publish")
     \/ sender[m] \in {"uncache", "publish"} /\ SenderGoes(m, "done")
  /\ FetchSideUnchanged
  /\ UNCHANGED <<emptyCached, events>>

-----------------------------------------------------------------------------
\* The connection.

\* The client connects, from the cursor it has.  push.Run subscribes first; a
\* client without a cursor also gets the history.
Connect(c) ==
  /\ live = NoConn
  /\ pc[c] = "off"
  /\ live' = c
  /\ cursor' = [cursor EXCEPT ![c] = clientCursor]
  /\ pc' = [pc EXCEPT ![c] = IF clientCursor = 0 THEN "history" ELSE "get"]
  /\ UNCHANGED <<sender, read, emptyCached, page, history, events, client, lost, clientCursor>>

\* The connection breaks.  The push loop finds out later.
Disconnect ==
  /\ "network" \in Faults
  /\ live # NoConn
  /\ live' = NoConn
  /\ UNCHANGED <<sender, read, emptyCached, pc, page, connVars, client, lost, clientCursor>>

FetchPMHistory(c) ==
  /\ pc[c] = "history"
  /\ history' = [history EXCEPT ![c] = read]
  /\ pc' = [pc EXCEPT ![c] = "get"]
  /\ UNCHANGED <<sender, read, emptyCached, page, cursor, events, clientVars>>

\* The push loop between two events.  It goes on for a connection that broke until a
\* deadline of its reads or writes tells the handler.
OnEvent(c) ==
  /\ pc[c] = "idle"
  /\ events[c] > 0
  /\ events' = [events EXCEPT ![c] = @ - 1]
  /\ pc' = [pc EXCEPT ![c] = "get"]
  /\ UNCHANGED <<sender, read, emptyCached, page, history, cursor, clientVars>>

Stop(c) ==
  /\ pc[c] = "idle"
  /\ live # c
  /\ pc' = [pc EXCEPT ![c] = "off"]
  /\ events' = [events EXCEPT ![c] = 0]
  /\ UNCHANGED <<sender, read, emptyCached, page, history, cursor, clientVars>>

Poll ==
  /\ Polling
  /\ pc[Poller] = "idle"
  /\ pc' = [pc EXCEPT ![Poller] = "get"]
  /\ UNCHANGED <<sender, read, emptyCached, page, connVars, clientVars>>

-----------------------------------------------------------------------------
\* FetchPM.

\* Only requests from cursor 0 look at the cached empty response.
Get(f) ==
  /\ pc[f] = "get"
  /\ pc' = [pc EXCEPT ![f] = IF From(f) = 0 /\ emptyCached THEN "deliver" ELSE "select"]
  /\ UNCHANGED <<sender, read, emptyCached, page, connVars, clientVars>>

\* ORDER BY msg_id LIMIT Limit.
FirstPage(S) == {m \in S : Cardinality({n \in S : n < m}) < Limit}

Select(f) ==
  /\ pc[f] = "select"
  /\ LET found == FirstPage({m \in Unread : m > From(f)})
     IN /\ page' = [page EXCEPT ![f] = found]
        /\ pc' = [pc EXCEPT ![f] = IF found # {} THEN "mark"
                                   ELSE IF From(f) = 0 THEN "cacheEmpty" ELSE "deliver"]
  /\ UNCHANGED <<sender, read, emptyCached, connVars, clientVars>>

CacheEmpty(f) ==
  /\ pc[f] = "cacheEmpty"
  /\ emptyCached' = TRUE
  /\ pc' = [pc EXCEPT ![f] = "deliver"]
  /\ UNCHANGED <<sender, read, page, connVars, clientVars>>

\* Mutant: every unread message is marked, not the page.
MarkAllUnread(f) ==
  /\ pc[f] = "mark"
  /\ read' = read \cup Unread
  /\ pc' = [pc EXCEPT ![f] = "deliver"]
  /\ UNCHANGED <<sender, emptyCached, page, connVars, clientVars>>

MarkMessagesAsRead(f) ==
  /\ pc[f] = "mark"
  /\ read' = read \cup page[f]
  /\ pc' = [pc EXCEPT ![f] = "deliver"]
  /\ UNCHANGED <<sender, emptyCached, page, connVars, clientVars>>

\* The response of FetchPM reaches the polling client, unless the network loses it.
Respond ==
  /\ pc[Poller] = "deliver"
  /\ \/ client' = client \cup page[Poller] /\ UNCHANGED lost
     \/ "network" \in Faults /\ lost' = lost \cup page[Poller] /\ UNCHANGED client
  /\ page' = [page EXCEPT ![Poller] = {}]
  /\ pc' = [pc EXCEPT ![Poller] = "idle"]
  /\ UNCHANGED <<sender, read, emptyCached, connVars, live, clientCursor>>

\* next_cursor: the last id of the page, or the cursor of the request when it is empty.
NextCursors(c) ==
  IF page[c] = {} THEN {cursor[c]} ELSE {m \in page[c] : \A n \in page[c] : n <= m}

\* The push loop writes the envelope: not without a message or a friend request in
\* it.  Only the end of the loop's turn moves PMCursor; a write that fails does not,
\* but one to a connection that broke need not fail.
WriteMessage(c) ==
  /\ pc[c] = "deliver"
  /\ IF live = c
     THEN /\ \E next \in NextCursors(c) :
               /\ cursor' = [cursor EXCEPT ![c] = next]
               /\ \/ /\ client' = client \cup page[c] \cup history[c]
                     /\ clientCursor' = next
                  \/ page[c] = {} /\ UNCHANGED <<client, clientCursor>>
          /\ UNCHANGED lost
     ELSE /\ lost' = lost \cup page[c]
          /\ \E next \in NextCursors(c) \cup {cursor[c]} : cursor' = [cursor EXCEPT ![c] = next]
          /\ UNCHANGED <<client, clientCursor>>
  /\ page' = [page EXCEPT ![c] = {}]
  /\ history' = [history EXCEPT ![c] = {}]
  /\ pc' = [pc EXCEPT ![c] = "idle"]
  /\ UNCHANGED <<sender, read, emptyCached, events, live>>

\* Mutant: the cached empty response has no TTL.
EmptyStays == FALSE /\ UNCHANGED vars

\* 10 seconds later.
ExpireEmpty ==
  /\ emptyCached
  /\ emptyCached' = FALSE
  /\ UNCHANGED <<sender, read, pc, page, connVars, clientVars>>

-----------------------------------------------------------------------------
Send(m) == NextID(m) \/ Commit(m) \/ Uncache(m) \/ Publish(m)

FetchStep(f) == Get(f) \/ Select(f) \/ CacheEmpty(f) \/ MarkMessagesAsRead(f)

PushStep(c) == FetchPMHistory(c) \/ OnEvent(c) \/ Stop(c) \/ WriteMessage(c)

Next ==
  \/ \E m \in Msgs : Send(m) \/ SenderDies(m)
  \/ \E f \in Fetchers : FetchStep(f)
  \/ \E c \in Conns : Connect(c) \/ PushStep(c)
  \/ Poll \/ Respond \/ Disconnect \/ ExpireEmpty

Spec == Init /\ [][Next]_vars

\* What is begun goes on; a polling client polls on, a client without a connection
\* opens one, and a cached response expires.  Nobody has to send.
FairSpec ==
  /\ Spec
  /\ \A m \in Msgs : WF_vars(Commit(m) \/ Uncache(m) \/ Publish(m))
  /\ \A f \in Fetchers : WF_vars(FetchStep(f))
  /\ \A c \in Conns : WF_vars(PushStep(c))
  /\ WF_vars(\E c \in Conns : Connect(c))
  /\ WF_vars(Poll) /\ WF_vars(Respond) /\ WF_vars(ExpireEmpty)

-----------------------------------------------------------------------------
TypeOK ==
  /\ sender \in [Msgs -> {"none", "commit", "uncache", "publish", "done", "failed"}]
  /\ read \subseteq Stored
  /\ emptyCached \in BOOLEAN
  /\ pc \in [Fetchers -> {"off", "idle", "history", "get", "select", "cacheEmpty",
                          "mark", "deliver"}]
  /\ page \in [Fetchers -> SUBSET Stored]
  /\ history \in [Conns -> SUBSET read]
  /\ cursor \in [Conns -> 0..MaxMessages]
  /\ events \in [Conns -> Nat]
  /\ live \in Conns \cup {NoConn}
  /\ client \subseteq Stored
  /\ lost \subseteq Stored
  /\ clientCursor \in 0..MaxMessages

\* Whichever fetchers FetchPM serves at once and whatever breaks, a message it has
\* marked read is with the client, or on its way in a response, or was in a response
\* that the network lost.
ReadIsDelivered ==
  read \subseteq client \cup lost \cup
                   UNION {page[f] : f \in {g \in Fetchers : pc[g] = "deliver"}}

\* Where the client would resume is a message it has, and the loop at the other end of
\* its connection goes on from there: an old loop that is still ending moves neither.
ResumesWhereItIs ==
  /\ clientCursor = 0 \/ clientCursor \in client
  /\ live # NoConn => cursor[live] = clientCursor

\* It never goes back, whichever loop ends last: what the client has is not asked for again.
CursorGoesOn == [][clientCursor <= clientCursor']_vars

\* A page is what its fetcher has yet to deliver, and it lies behind the cursor.
PagesAreAhead ==
  /\ \A f \in Fetchers : page[f] # {} => pc[f] \in {"mark", "deliver"}
  /\ \A c \in Conns : \A m \in page[c] : cursor[c] < m

\* The inductive invariant of the proofs.
IInv == TypeOK /\ ReadIsDelivered

\* A committed message reaches a client that polls, or the response that carried it
\* was lost: whichever empty response was cached meanwhile, whichever connections
\* broke, and whether or not its sender lived to invalidate the cache.
EveryMessageArrives == \A m \in Msgs : m \in Stored ~> m \in client \cup lost
=============================================================================
