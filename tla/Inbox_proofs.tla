----------------------------- MODULE Inbox_proofs -----------------------------
(***************************************************************************)
(* Theorems about Inbox, for any number of messages and connections, any   *)
(* page size, with and without a polling client, and any faults.           *)
(***************************************************************************)
EXTENDS Inbox, TLAPS

\* The invariant holds at the start.
LEMMA InitIInv == Init => IInv
<1> SUFFICES ASSUME Init PROVE IInv
  OBVIOUS
<1>1. Stored = {}
  BY DEF Init, Stored
<1>2. TypeOK
  <2>1. 0 \in 0..MaxMessages /\ Stored = {}
    BY <1>1, BoundAssumption
  <2>2. pc \in [Fetchers -> {"off", "idle", "history", "get", "select", "cacheEmpty",
                              "mark", "deliver"}]
    BY DEF Init
  <2>3. history \in [Conns -> SUBSET read] /\ page \in [Fetchers -> SUBSET Stored]
    BY DEF Init
  <2> QED
    BY <2>1, <2>2, <2>3 DEF Init, TypeOK
<1>3. ReadIsDelivered
  BY DEF Init, ReadIsDelivered
<1> QED
  BY <1>2, <1>3 DEF IInv

\* A step that takes nothing from the client or the losses, and no delivery from a
\* fetcher.
LEMMA KeepsDelivered ==
  ASSUME ReadIsDelivered, read' = read, client \subseteq client', lost \subseteq lost',
         \A f \in Fetchers : pc[f] = "deliver" =>
           \/ page[f] \subseteq client' \cup lost'
           \/ pc'[f] = "deliver" /\ page'[f] = page[f]
  PROVE  ReadIsDelivered'
<1> SUFFICES ASSUME NEW m \in read, m \notin client', m \notin lost'
             PROVE  \E f \in Fetchers : pc'[f] = "deliver" /\ m \in page'[f]
  BY DEF ReadIsDelivered
<1>1. PICK f \in Fetchers : pc[f] = "deliver" /\ m \in page[f]
  BY DEF ReadIsDelivered
<1> QED
  BY <1>1

\* SendPM does not touch what has been fetched, and no message leaves the table.
LEMMA SenderStep ==
  ASSUME IInv, NEW m \in Msgs, Send(m) \/ SenderDies(m)
  PROVE  IInv'
<1> USE DEF FetchSideUnchanged, clientVars
<1>1. UNCHANGED <<read, pc, page, history, cursor, live, client, lost, clientCursor>>
  BY DEF Send, NextID, Commit, Uncache, Publish, SenderDies
<1>2. PICK l \in {"commit", "uncache", "publish", "done", "failed"} :
        /\ SenderGoes(m, l)
        /\ m \in Stored => l \in {"publish", "done"}
  BY DEF Send, NextID, Commit, Uncache, Publish, SenderDies, Stored
<1>3. Stored \subseteq Stored'
  BY <1>2 DEF SenderGoes, Stored, IInv, TypeOK
<1>4. emptyCached' \in BOOLEAN /\ events' \in [Conns -> Nat]
  <2>1. CASE Publish(m)
    BY <2>1 DEF Publish, IInv, TypeOK
  <2>2. CASE NextID(m) \/ Commit(m) \/ Uncache(m) \/ SenderDies(m)
    BY <2>2 DEF NextID, Commit, Uncache, SenderDies, IInv, TypeOK
  <2> QED
    BY <2>1, <2>2 DEF Send
<1>5. TypeOK'
  <2>1. sender' \in [Msgs -> {"none", "commit", "uncache", "publish", "done", "failed"}]
    BY <1>2 DEF IInv, TypeOK, SenderGoes
  <2>2. read' \subseteq Stored' /\ page' \in [Fetchers -> SUBSET Stored']
    BY <1>1, <1>3 DEF IInv, TypeOK
  <2>3. client' \subseteq Stored' /\ lost' \subseteq Stored'
    BY <1>1, <1>3 DEF IInv, TypeOK
  <2> QED
    BY <1>1, <1>4, <2>1, <2>2, <2>3 DEF IInv, TypeOK
<1>6. ReadIsDelivered'
  BY <1>1, KeepsDelivered DEF IInv
<1> QED
  BY <1>5, <1>6 DEF IInv

\* A fetcher that goes on, not having reached its delivery.
LEMMA GoesOn ==
  ASSUME IInv, NEW f \in Fetchers,
         NEW l \in {"off", "idle", "history", "get", "select", "cacheEmpty", "mark", "deliver"},
         pc[f] # "deliver", pc' = [pc EXCEPT ![f] = l],
         history' \in [Conns -> SUBSET read], cursor' \in [Conns -> 0..MaxMessages],
         events' \in [Conns -> Nat], emptyCached' \in BOOLEAN,
         live' \in Conns \cup {NoConn},
         UNCHANGED <<sender, read, page, client, lost, clientCursor>>
  PROVE  IInv'
<1>1. Stored' = Stored
  BY DEF Stored
<1>2. TypeOK'
  BY <1>1 DEF IInv, TypeOK
<1>3. ReadIsDelivered'
  BY KeepsDelivered DEF IInv, TypeOK
<1> QED
  BY <1>2, <1>3 DEF IInv

-----------------------------------------------------------------------------
\* The steps of FetchPM.

\* The first page is part of what was asked for.
LEMMA PageIsUnread == \A S : FirstPage(S) \subseteq S
BY DEF FirstPage

\* FetchUnreadMessages fills a page that is in no response yet.
LEMMA SelectStep ==
  ASSUME IInv, NEW f \in Fetchers, Select(f)
  PROVE  IInv'
<1> DEFINE found == FirstPage({m \in Unread : m > From(f)})
<1>1. found \subseteq Stored
  BY PageIsUnread DEF Unread
<1>2. PICK l \in {"mark", "cacheEmpty", "deliver"} :
        /\ pc' = [pc EXCEPT ![f] = l]
        /\ page' = [page EXCEPT ![f] = found]
        /\ UNCHANGED <<sender, read, emptyCached, connVars, clientVars>>
  BY DEF Select
<1>3. pc[f] = "select"
  BY DEF Select
<1> HIDE DEF found
<1>4. Stored' = Stored
  BY <1>2 DEF Stored
<1>5. TypeOK'
  BY <1>1, <1>2, <1>4 DEF IInv, TypeOK, connVars, clientVars
<1>6. ReadIsDelivered'
  <2>1. \A g \in Fetchers : pc[g] = "deliver" => pc'[g] = "deliver" /\ page'[g] = page[g]
    BY <1>2, <1>3 DEF IInv, TypeOK
  <2> QED
    BY <1>2, <2>1, KeepsDelivered DEF IInv, clientVars
<1> QED
  BY <1>5, <1>6 DEF IInv

\* What is marked is the page, and the page is in the response.
LEMMA MarkStep ==
  ASSUME IInv, NEW f \in Fetchers, MarkMessagesAsRead(f)
  PROVE  IInv'
<1> USE DEF MarkMessagesAsRead, connVars, clientVars
<1>1. Stored' = Stored
  BY DEF Stored
<1>2. TypeOK'
  <2>1. read' \subseteq Stored /\ read \subseteq read'
    BY DEF IInv, TypeOK
  <2>2. history' \in [Conns -> SUBSET read']
    BY <2>1 DEF IInv, TypeOK
  <2> QED
    BY <1>1, <2>1, <2>2 DEF IInv, TypeOK
<1>3. ReadIsDelivered'
  <2>1. pc'[f] = "deliver" /\ page'[f] = page[f]
    BY DEF IInv, TypeOK
  <2>2. \A g \in Fetchers : pc[g] = "deliver" => pc'[g] = "deliver" /\ page'[g] = page[g]
    BY DEF IInv, TypeOK
  <2>3. ASSUME NEW m \in read', m \notin client', m \notin lost'
        PROVE  \E g \in Fetchers : pc'[g] = "deliver" /\ m \in page'[g]
    <3>1. CASE m \in page[f]
      BY <2>1, <3>1
    <3>2. CASE m \in read
      <4>1. PICK g \in Fetchers : pc[g] = "deliver" /\ m \in page[g]
        BY <2>3, <3>2 DEF IInv, ReadIsDelivered
      <4> QED
        BY <2>2, <4>1
    <3> QED
      BY <2>3, <3>1, <3>2
  <2> QED
    BY <2>3 DEF ReadIsDelivered
<1> QED
  BY <1>2, <1>3 DEF IInv

-----------------------------------------------------------------------------
\* The steps of the client and its connection.

\* A response reaches the polling client or is lost.
LEMMA RespondStep ==
  ASSUME IInv, Respond
  PROVE  IInv'
<1> USE DEF Respond, connVars
<1>1. /\ client \subseteq client' /\ lost \subseteq lost'
      /\ page[Poller] \subseteq client' \cup lost'
      /\ client' \subseteq client \cup page[Poller]
      /\ lost' \subseteq lost \cup page[Poller]
  OBVIOUS
<1>2. Stored' = Stored
  BY DEF Stored
<1>3. Poller \in Fetchers
  BY DEF Fetchers
<1>4. TypeOK'
  BY <1>1, <1>2, <1>3 DEF IInv, TypeOK
<1>5. ReadIsDelivered'
  <2>1. \A g \in Fetchers \ {Poller} : pc'[g] = pc[g] /\ page'[g] = page[g]
    BY DEF IInv, TypeOK
  <2> QED
    BY <1>1, <2>1, KeepsDelivered DEF IInv
<1> QED
  BY <1>4, <1>5 DEF IInv

\* The push loop writes its page, or loses it with the connection.
LEMMA WriteStep ==
  ASSUME IInv, NEW c \in Conns, WriteMessage(c)
  PROVE  IInv'
<1> USE DEF WriteMessage
<1>1. c \in Fetchers
  BY DEF Fetchers
<1>2. /\ client \subseteq client' /\ lost \subseteq lost'
      /\ page[c] \subseteq client' \cup lost'
      /\ client' \subseteq client \cup page[c] \cup history[c]
      /\ lost' \subseteq lost \cup page[c]
  OBVIOUS
<1>3. Stored' = Stored
  BY DEF Stored
<1>4. NextCursors(c) \subseteq 0..MaxMessages
  <2>1. Stored \subseteq 0..MaxMessages
    BY BoundAssumption DEF Stored, Msgs
  <2> QED
    BY <1>1, <2>1 DEF NextCursors, IInv, TypeOK
<1>5. cursor' \in [Conns -> 0..MaxMessages] /\ clientCursor' \in 0..MaxMessages
  BY <1>4 DEF IInv, TypeOK
<1>6. client' \subseteq Stored /\ lost' \subseteq Stored
  BY <1>1, <1>2 DEF IInv, TypeOK
<1>7. TypeOK'
  BY <1>1, <1>3, <1>5, <1>6 DEF IInv, TypeOK
<1>8. ReadIsDelivered'
  <2>1. \A g \in Fetchers \ {c} : pc'[g] = pc[g] /\ page'[g] = page[g]
    BY DEF IInv, TypeOK
  <2> QED
    BY <1>2, <2>1, KeepsDelivered DEF IInv
<1> QED
  BY <1>7, <1>8 DEF IInv

\* Every step preserves the invariant.
LEMMA NextIInv == IInv /\ [Next]_vars => IInv'
<1> SUFFICES ASSUME IInv, [Next]_vars PROVE IInv'
  OBVIOUS
<1> USE DEF connVars, clientVars
<1>1. ASSUME NEW m \in Msgs, Send(m) \/ SenderDies(m) PROVE IInv'
  BY <1>1, SenderStep
<1>2. ASSUME NEW f \in Fetchers, FetchStep(f) PROVE IInv'
  <2>1. CASE Get(f)
    <3>1. \E l \in {"select", "deliver"} : pc' = [pc EXCEPT ![f] = l]
      BY <2>1 DEF Get
    <3> QED
      BY <2>1, <3>1, GoesOn DEF Get, IInv, TypeOK
  <2>2. CASE Select(f)
    BY <2>2, SelectStep
  <2>3. CASE CacheEmpty(f)
    BY <2>3, GoesOn DEF CacheEmpty, IInv, TypeOK
  <2>4. CASE MarkMessagesAsRead(f)
    BY <2>4, MarkStep
  <2> QED
    BY <1>2, <2>1, <2>2, <2>3, <2>4 DEF FetchStep
<1>3. ASSUME NEW c \in Conns, PushStep(c) PROVE IInv'
  <2>1. c \in Fetchers
    BY DEF Fetchers
  <2>2. CASE FetchPMHistory(c)
    BY <2>1, <2>2, GoesOn DEF FetchPMHistory, IInv, TypeOK
  <2>3. CASE OnEvent(c)
    <3>1. events' \in [Conns -> Nat]
      BY <2>3 DEF OnEvent, IInv, TypeOK
    <3> QED
      BY <2>1, <2>3, <3>1, GoesOn DEF OnEvent, IInv, TypeOK
  <2>4. CASE Stop(c)
    BY <2>1, <2>4, GoesOn DEF Stop, IInv, TypeOK
  <2>5. CASE WriteMessage(c)
    BY <2>5, WriteStep
  <2> QED
    BY <1>3, <2>2, <2>3, <2>4, <2>5 DEF PushStep
<1>4. ASSUME NEW c \in Conns, Connect(c) PROVE IInv'
  <2>1. c \in Fetchers
    BY DEF Fetchers
  <2>2. \E l \in {"history", "get"} : pc' = [pc EXCEPT ![c] = l]
    BY <1>4 DEF Connect
  <2> QED
    BY <1>4, <2>1, <2>2, GoesOn DEF Connect, IInv, TypeOK
<1>5. CASE Poll
  BY <1>5, GoesOn DEF Poll, Fetchers, IInv, TypeOK
<1>6. CASE Respond
  BY <1>6, RespondStep
<1>7. CASE Disconnect \/ ExpireEmpty \/ UNCHANGED vars
  BY <1>7 DEF Disconnect, ExpireEmpty, vars, IInv, TypeOK, Stored, ReadIsDelivered
<1> QED
  BY <1>1, <1>2, <1>3, <1>4, <1>5, <1>6, <1>7 DEF Next

\* The inductive invariant holds in every state of Inbox.
THEOREM Invariance == Spec => []IInv
BY InitIInv, NextIInv, PTL DEF Spec

\* Type correctness: only stored messages are read, paged, delivered or lost.
THEOREM TypeCorrect == Spec => []TypeOK
<1>1. IInv => TypeOK
  BY DEF IInv
<1> QED
  BY <1>1, Invariance, PTL

\* Whatever FetchPM marks read, of several fetchers at once and whichever connections
\* break, is with the client, in a response to it, or in one that the network lost.
THEOREM ReadsAreDelivered == Spec => []ReadIsDelivered
<1>1. IInv => ReadIsDelivered
  BY DEF IInv
<1> QED
  BY <1>1, Invariance, PTL
-----------------------------------------------------------------------------
\* The cursors.

\* A fetcher's next step, and what has become of its page.
Steady == UNCHANGED <<cursor, live, clientCursor>> /\ client \subseteq client'

\* The places where a page may be held.
HoldsPage(l) == l \in {"mark", "deliver"}

\* Steps that move no cursor and take no page up.
LEMMA SteadyStep ==
  ASSUME ResumesWhereItIs, PagesAreAhead, Steady,
         \A f \in Fetchers : page'[f] # {} =>
           page'[f] = page[f] /\ (HoldsPage(pc[f]) => HoldsPage(pc'[f]))
  PROVE  ResumesWhereItIs' /\ PagesAreAhead'
<1>1. ResumesWhereItIs'
  BY DEF ResumesWhereItIs, Steady
<1>2. PagesAreAhead'
  BY DEF PagesAreAhead, Steady, HoldsPage, Fetchers
<1> QED
  BY <1>1, <1>2

\* The page that is selected lies behind the cursor.
LEMMA SelectAhead ==
  ASSUME TypeOK, ResumesWhereItIs, PagesAreAhead, NEW f \in Fetchers, Select(f)
  PROVE  ResumesWhereItIs' /\ PagesAreAhead'
<1> DEFINE found == FirstPage({m \in Unread : m > From(f)})
<1>1. /\ page' = [page EXCEPT ![f] = found]
      /\ pc' = [pc EXCEPT ![f] = IF found # {} THEN "mark"
                                 ELSE IF From(f) = 0 THEN "cacheEmpty" ELSE "deliver"]
      /\ UNCHANGED <<cursor, live, client, clientCursor>>
  BY DEF Select, connVars, clientVars
<1>2. \A m \in found : m > From(f) /\ m \in Nat
  BY PageIsUnread DEF Unread, Stored, Msgs
<1> HIDE DEF found
<1>3. ResumesWhereItIs'
  BY <1>1 DEF ResumesWhereItIs
<1>4. page'[f] = found /\ \A g \in Fetchers \ {f} : page'[g] = page[g] /\ pc'[g] = pc[g]
  BY <1>1 DEF TypeOK
<1>5. found # {} => pc'[f] = "mark"
  BY <1>1 DEF TypeOK
<1>6. \A c \in Conns : \A m \in page'[c] : cursor[c] < m
  <2> SUFFICES ASSUME NEW c \in Conns, NEW m \in page'[c] PROVE cursor[c] < m
    OBVIOUS
  <2>1. c \in Fetchers /\ c # Poller /\ cursor[c] \in Int
    BY ConnsAssumption DEF Fetchers, TypeOK
  <2>2. CASE c = f
    <3>1. m > cursor[c]
      BY <1>2, <1>4, <2>1, <2>2 DEF From
    <3> QED
      BY <1>2, <1>4, <2>1, <2>2, <3>1
  <2>3. CASE c # f
    BY <1>4, <2>1, <2>3 DEF PagesAreAhead
  <2> QED
    BY <2>2, <2>3
<1> QED
  BY <1>1, <1>3, <1>4, <1>5, <1>6 DEF PagesAreAhead

\* A new connection starts where the client is, with nothing in its hands.
LEMMA ConnectAhead ==
  ASSUME TypeOK, ResumesWhereItIs, PagesAreAhead, NEW c \in Conns, Connect(c)
  PROVE  ResumesWhereItIs' /\ PagesAreAhead'
<1>1. /\ live' = c /\ cursor' = [cursor EXCEPT ![c] = clientCursor] /\ pc[c] = "off"
      /\ UNCHANGED <<page, client, clientCursor>>
      /\ \A f \in Fetchers \ {c} : pc'[f] = pc[f]
  BY DEF Connect, TypeOK
<1>2. page[c] = {} /\ c \in Fetchers
  BY <1>1 DEF PagesAreAhead, Fetchers
<1>3. cursor'[c] = clientCursor /\ \A d \in Conns \ {c} : cursor'[d] = cursor[d]
  BY <1>1 DEF TypeOK
<1>4. ResumesWhereItIs'
  BY <1>1, <1>3 DEF ResumesWhereItIs
<1>5. PagesAreAhead'
  BY <1>1, <1>2, <1>3 DEF PagesAreAhead
<1> QED
  BY <1>4, <1>5

\* Only the loop at the other end reaches the client, and both cursors move on together.
LEMMA WriteAhead ==
  ASSUME TypeOK, ResumesWhereItIs, PagesAreAhead, NEW c \in Conns, WriteMessage(c)
  PROVE  ResumesWhereItIs' /\ PagesAreAhead' /\ clientCursor <= clientCursor'
<1>1. /\ page' = [page EXCEPT ![c] = {}] /\ live' = live
      /\ \A f \in Fetchers \ {c} : pc'[f] = pc[f]
  BY DEF WriteMessage, TypeOK
<1>2. c \in Fetchers /\ clientCursor \in Int /\ cursor[c] \in Int /\ c # NoConn
  BY ConnsAssumption DEF Fetchers, TypeOK
<1>3. page'[c] = {} /\ \A f \in Fetchers \ {c} : page'[f] = page[f]
  BY <1>1, <1>2 DEF TypeOK
<1>4. /\ \A d \in Conns \ {c} : cursor'[d] = cursor[d]
      /\ ResumesWhereItIs' /\ clientCursor <= clientCursor'
  <2>1. CASE live # c
    <3>1. UNCHANGED <<live, client, clientCursor>> /\ \E next : cursor' = [cursor EXCEPT ![c] = next]
      BY <1>1, <2>1 DEF WriteMessage
    <3>2. \A d \in Conns \ {c} : cursor'[d] = cursor[d]
      BY <3>1 DEF TypeOK
    <3>3. live # NoConn => live \in Conns \ {c}
      BY <2>1 DEF TypeOK
    <3> QED
      BY <1>2, <3>1, <3>2, <3>3 DEF ResumesWhereItIs
  <2>2. CASE live = c
    <3>1. PICK next \in NextCursors(c) :
            /\ cursor' = [cursor EXCEPT ![c] = next]
            /\ \/ client' = client \cup page[c] \cup history[c] /\ clientCursor' = next
               \/ page[c] = {} /\ UNCHANGED <<client, clientCursor>>
      BY <2>2 DEF WriteMessage
    <3>2. cursor[c] = clientCursor
      BY <1>2, <2>2 DEF ResumesWhereItIs
    <3>3. cursor'[c] = next /\ \A d \in Conns \ {c} : cursor'[d] = cursor[d]
      BY <3>1 DEF TypeOK
    <3>4. CASE page[c] = {}
      <4>1. next = clientCursor
        BY <3>1, <3>2, <3>4 DEF NextCursors
      <4>2. clientCursor' = clientCursor /\ client \subseteq client'
        BY <3>1, <4>1
      <4> QED
        BY <1>1, <1>2, <2>2, <3>3, <4>1, <4>2 DEF ResumesWhereItIs
    <3>5. CASE page[c] # {}
      <4>1. next \in page[c] /\ clientCursor' = next /\ next \in client'
        BY <3>1, <3>5 DEF NextCursors
      <4>2. cursor[c] < next /\ next \in Int
        BY <1>2, <4>1 DEF PagesAreAhead, TypeOK, Stored, Msgs
      <4> QED
        BY <1>1, <1>2, <2>2, <3>2, <3>3, <4>1, <4>2 DEF ResumesWhereItIs
    <3> QED
      BY <3>4, <3>5
  <2> QED
    BY <2>1, <2>2
<1>5. PagesAreAhead'
  BY <1>1, <1>3, <1>4 DEF PagesAreAhead, Fetchers
<1> QED
  BY <1>4, <1>5

\* Every step keeps the cursors in order.
LEMMA NextAhead ==
  ASSUME TypeOK, ResumesWhereItIs, PagesAreAhead, [Next]_vars
  PROVE  ResumesWhereItIs' /\ PagesAreAhead' /\ clientCursor <= clientCursor'
<1> USE DEF connVars, clientVars
<1>0. clientCursor \in Int
  BY DEF TypeOK
<1>1. ASSUME NEW m \in Msgs, Send(m) \/ SenderDies(m)
      PROVE  Steady /\ UNCHANGED <<page, pc>>
  BY <1>1 DEF Send, NextID, Commit, Uncache, Publish, SenderDies, FetchSideUnchanged, Steady
<1>2. ASSUME NEW f \in Fetchers, Get(f) \/ CacheEmpty(f) \/ MarkMessagesAsRead(f)
      PROVE  /\ Steady /\ UNCHANGED page
             /\ \A g \in Fetchers : HoldsPage(pc[g]) => HoldsPage(pc'[g])
  BY <1>2 DEF Get, CacheEmpty, MarkMessagesAsRead, Steady, HoldsPage, TypeOK
<1>3. ASSUME NEW c \in Conns, FetchPMHistory(c) \/ OnEvent(c) \/ Stop(c)
      PROVE  /\ Steady /\ UNCHANGED page
             /\ \A g \in Fetchers : HoldsPage(pc[g]) => HoldsPage(pc'[g])
  BY <1>3 DEF FetchPMHistory, OnEvent, Stop, Steady, HoldsPage, TypeOK
<1>4. CASE Poll \/ Respond
  <2>1. Steady
    BY <1>4 DEF Poll, Respond, Steady
  <2>2. \A g \in Fetchers : page'[g] # {} =>
          page'[g] = page[g] /\ (HoldsPage(pc[g]) => HoldsPage(pc'[g]))
    BY <1>4 DEF Poll, Respond, HoldsPage, TypeOK
  <2> QED
    BY <1>0, <2>1, <2>2, SteadyStep DEF Steady
<1>5. CASE Disconnect
  BY <1>0, <1>5 DEF Disconnect, ResumesWhereItIs, PagesAreAhead
<1>6. CASE ExpireEmpty \/ UNCHANGED vars
  BY <1>0, <1>6, SteadyStep DEF ExpireEmpty, vars, Steady
<1>7. ASSUME NEW f \in Fetchers, Select(f) PROVE clientCursor' = clientCursor
  BY <1>7 DEF Select
<1>8. ASSUME NEW c \in Conns, Connect(c) PROVE clientCursor' = clientCursor
  BY <1>8 DEF Connect
<1>9. ASSUME NEW m \in Msgs, Send(m) \/ SenderDies(m)
      PROVE  ResumesWhereItIs' /\ PagesAreAhead' /\ clientCursor <= clientCursor'
  BY <1>0, <1>1, <1>9, SteadyStep DEF Steady
<1>10. ASSUME NEW f \in Fetchers, FetchStep(f)
       PROVE  ResumesWhereItIs' /\ PagesAreAhead' /\ clientCursor <= clientCursor'
  <2>1. CASE Select(f)
    BY <1>0, <1>7, <2>1, SelectAhead
  <2>2. CASE Get(f) \/ CacheEmpty(f) \/ MarkMessagesAsRead(f)
    BY <1>0, <1>2, <2>2, SteadyStep DEF Steady
  <2> QED
    BY <1>10, <2>1, <2>2 DEF FetchStep
<1>11. ASSUME NEW c \in Conns, PushStep(c)
       PROVE  ResumesWhereItIs' /\ PagesAreAhead' /\ clientCursor <= clientCursor'
  <2>1. CASE WriteMessage(c)
    BY <2>1, WriteAhead
  <2>2. CASE FetchPMHistory(c) \/ OnEvent(c) \/ Stop(c)
    BY <1>0, <1>3, <2>2, SteadyStep DEF Steady
  <2> QED
    BY <1>11, <2>1, <2>2 DEF PushStep
<1>12. ASSUME NEW c \in Conns, Connect(c)
       PROVE  ResumesWhereItIs' /\ PagesAreAhead' /\ clientCursor <= clientCursor'
  BY <1>0, <1>8, <1>12, ConnectAhead
<1> QED
  BY <1>4, <1>5, <1>6, <1>9, <1>10, <1>11, <1>12 DEF Next

\* The cursors and pages of all connections, old ones that still end included.
LEMMA Ahead == Spec => [](ResumesWhereItIs /\ PagesAreAhead)
<1>1. Init => ResumesWhereItIs /\ PagesAreAhead
  BY DEF Init, ResumesWhereItIs, PagesAreAhead, Fetchers
<1> QED
  BY <1>1, NextAhead, TypeCorrect, PTL DEF Spec

\* The client resumes from a message it has, where its connection goes on.
THEOREM ClientResumes == Spec => []ResumesWhereItIs
BY Ahead, PTL

\* And it never goes back to what it has been pushed.
THEOREM CursorsGoOn == Spec => CursorGoesOn
<1>1. TypeOK /\ ResumesWhereItIs /\ PagesAreAhead /\ [Next]_vars
        => [clientCursor <= clientCursor']_vars
  BY NextAhead
<1> QED
  BY <1>1, Ahead, TypeCorrect, PTL DEF Spec, CursorGoesOn
=============================================================================
