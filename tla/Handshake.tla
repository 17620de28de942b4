------------------------------ MODULE Handshake ------------------------------
(***************************************************************************)
(* Two people meet: each presses G0 on a card and shakes it, the cards     *)
(* (firmware/cardputer-adv) send both over BLE to a relay                  *)
(* (tools/agent-link-relay), the relay posts them to the service           *)
(* (apps/api), which connects the two, and the relay writes the outcome    *)
(* back on both screens.                                                   *)
(*                                                                         *)
(* The match is the one the relay is configured with.  The service runs    *)
(* one handler of a handshake at a time.  The relay's calls of the service *)
(* overtake each other; a call fails before or after the service has done  *)
(* its work; a link drops, with all that is on its way to the card, and    *)
(* the relay hears of it later; a card restarts.  A frame takes no time:   *)
(* a gesture is made when the relay hears of it.                           *)
(***************************************************************************)
EXTENDS Integers, Sequences, Bags, FiniteSetsExt

CONSTANTS
  A, B,        \* the two people of the match
  Window,      \* 3 seconds in the code
  Parts,       \* parts of a second that are told apart
  MaxTime,     \* bound on the clock, in seconds
  CallsA, CallsB,  \* bounds on the event posts in flight of a card
  MaxFaults    \* bound on faults: lost frames, calls and links, restarts

ASSUME PeopleAssumption == A # B
ASSUME WindowAssumption == Window \in Nat
ASSUME TimeAssumption == MaxTime \in Nat /\ Parts \in Nat \ {0}
ASSUME BoundsAssumption == CallsA \in Nat /\ CallsB \in Nat /\ MaxFaults \in Nat

VARIABLES
  now,          \* whole seconds
  part,         \* and the part of the present one
  \* the service: the rows of this match
  status,       \* of the handshake; "ready": there is no row yet
  confirmed,    \* who has confirmed
  gesture,      \* gesture_a_at, gesture_b_at
  \* the relay
  ready,        \* readyNames: whose events it is subscribed to
  feedbackSent, \* connectedFeedbackSent
  calls,        \* bag of event posts in flight, those on the way back with their outcome
  syncs,        \* session queries in flight
  queries,      \* number of session queries so far
  \* BLE and the cards
  link,         \* "up", "lost": dropped and the relay does not know, "down"
  downlink,     \* screen texts written to a card, not there yet
  card,         \* the atomics of main.cpp
  mode,         \* g_menu_mode
  faults,
  \* history
  shaken,       \* time of a card's last gesture
  together,     \* two gestures were made less than a second beyond the window apart
  stranded      \* whose card missed "KIN READY", or left LINK after it

serviceVars == <<status, confirmed, gesture>>
relayVars == <<ready, feedbackSent, calls, syncs, queries>>
cardVars == <<link, downlink, card, mode>>
historyVars == <<shaken, together, stranded>>
vars == <<now, part, serviceVars, relayVars, cardVars, faults, historyVars>>

Users == {A, B}
Peer(u) == IF u = A THEN B ELSE A
Never == -1
Modes == {"LINK", "HOME"}   \* "HOME" stands for every mode but LINK
Times == {Never} \cup 0..MaxTime
Texts == {"KIN CONNECTED", "KIN READY"}
Calls == [user : Users, event : {"button", "gesture"}, at : 0..MaxTime, is : {"sent", "connected"}]
Syncs == [query : 1..queries, is : {"sent", "connected", "other"}]
Moments == [second : Times, part : 0..(Parts - 1)]
Cards == [connected : BOOLEAN, armed : BOOLEAN, confirmed : BOOLEAN, seen : BOOLEAN]
Boot == [connected |-> FALSE, armed |-> FALSE, confirmed |-> FALSE, seen |-> FALSE]

Init ==
  /\ now = 0 /\ part = 0
  /\ status = "ready" /\ confirmed = {} /\ gesture = [u \in Users |-> Never]
  /\ ready = {} /\ feedbackSent = FALSE
  /\ calls = EmptyBag /\ syncs = {} /\ queries = 0
  /\ link = [u \in Users |-> "down"]
  /\ downlink = [u \in Users |-> <<>>]
  /\ card = [u \in Users |-> Boot]
  /\ mode = [u \in Users |-> "HOME"]
  /\ faults = 0
  /\ shaken = [u \in Users |-> [second |-> Never, part |-> 0]] /\ together = FALSE /\ stranded = {}

Tick ==
  /\ now < MaxTime
  /\ \/ part + 1 < Parts /\ part' = part + 1 /\ UNCHANGED now
     \/ part + 1 = Parts /\ part' = 0 /\ now' = now + 1
  /\ UNCHANGED <<serviceVars, relayVars, cardVars, faults, historyVars>>

Fault ==
  /\ faults < MaxFaults
  /\ faults' = faults + 1

\* The service compares whole seconds.
Near(s, t) == s - t <= Window /\ t - s <= Window

\* Less than Window + 1 seconds ago.
Recent(m) ==
  /\ m.second # Never
  /\ \/ now - m.second <= Window
     \/ now - m.second = Window + 1 /\ part < m.part

-----------------------------------------------------------------------------
\* The card.

InFlight(u) == MapThenSumSet(LAMBDA c : calls[c], {c \in BagToSet(calls) : c.user = u})

\* A frame is posted with the whole second in which the relay hears of it, or it is lost.
Push(u, event, at) ==
  \/ /\ InFlight(u) < IF u = A THEN CallsA ELSE CallsB
     /\ calls' = calls (+) SetToBag({[user |-> u, event |-> event, at |-> at, is |-> "sent"]})
     /\ UNCHANGED faults
  \/ Fault /\ UNCHANGED calls

\* G0 in LINK.
Press(u) ==
  /\ mode[u] = "LINK"
  /\ link[u] = "up"
  /\ card[u].armed /\ ~card[u].connected /\ ~card[u].confirmed
  /\ Push(u, "button", 0)   \* its time is not used
  /\ card' = [card EXCEPT ![u].confirmed = TRUE, ![u].seen = FALSE]
  /\ UNCHANGED <<now, part, serviceVars, ready, feedbackSent, syncs, queries, link, downlink, mode, historyVars>>

\* SetMenuMode(LINK), by its key or by G0 in HOME: nothing is armed.
EnterLink(u) ==
  /\ mode[u] # "LINK"
  /\ mode' = [mode EXCEPT ![u] = "LINK"]
  /\ UNCHANGED <<now, part, serviceVars, relayVars, link, downlink, card, faults, historyVars>>

\* SetMenuMode of any other mode.
LeaveLink(u) ==
  /\ mode[u] = "LINK"
  /\ Fault
  /\ mode' = [mode EXCEPT ![u] = "HOME"]
  /\ card' = [card EXCEPT ![u] = [Boot EXCEPT !.connected = card[u].connected]]
  /\ stranded' = IF card[u].connected THEN stranded ELSE stranded \cup {u}
  /\ UNCHANGED <<now, part, serviceVars, relayVars, link, downlink, shaken, together>>

CanSendGesture(u) ==
  /\ card[u].armed /\ card[u].confirmed
  /\ ~card[u].seen /\ ~card[u].connected
  /\ link[u] = "up"

Shake(u) ==
  /\ CanSendGesture(u)
  /\ Push(u, "gesture", now)
  /\ card' = [card EXCEPT ![u].seen = TRUE]
  /\ shaken' = [shaken EXCEPT ![u] = [second |-> now, part |-> part]]
  /\ together' = (together \/ Recent(shaken[Peer(u)]))
  /\ UNCHANGED <<now, part, serviceVars, ready, feedbackSent, syncs, queries, link, downlink, mode, stranded>>

\* 30 seconds after the last press or gesture.  Not to shake the card in that time
\* counts among the faults.
TimeOut(u) ==
  /\ card[u].confirmed /\ ~card[u].connected
  /\ \/ card[u].seen /\ UNCHANGED faults
     \/ ~card[u].seen /\ Fault
  /\ card' = [card EXCEPT ![u].confirmed = FALSE, ![u].seen = FALSE]
  /\ UNCHANGED <<now, part, serviceVars, relayVars, link, downlink, mode, historyVars>>

\* OnShowText.
Show(u) ==
  /\ link[u] = "up"
  /\ downlink[u] # <<>>
  /\ downlink' = [downlink EXCEPT ![u] = Tail(@)]
  /\ IF Head(downlink[u]) = "KIN CONNECTED"
     THEN /\ card' = [card EXCEPT ![u] = [Boot EXCEPT !.connected = TRUE]]
          /\ stranded' = stranded \ {u}
     ELSE /\ card' = [card EXCEPT ![u] = [Boot EXCEPT !.armed = (mode[u] = "LINK")]]
          /\ stranded' = IF mode[u] = "LINK" THEN stranded \ {u} ELSE stranded \cup {u}
  /\ UNCHANGED <<now, part, serviceVars, relayVars, link, mode, faults, shaken, together>>

\* The link drops: OnState, with any state but READY.
Drop(u) ==
  /\ link[u] = "up"
  /\ Fault
  /\ link' = [link EXCEPT ![u] = "lost"]
  /\ downlink' = [downlink EXCEPT ![u] = <<>>]
  /\ card' = [card EXCEPT ![u] = IF @.connected THEN @ ELSE Boot]
  /\ UNCHANGED <<now, part, serviceVars, relayVars, mode, historyVars>>

Restart(u) ==
  /\ Fault
  /\ link' = [link EXCEPT ![u] = IF @ = "up" THEN "lost" ELSE @]
  /\ downlink' = [downlink EXCEPT ![u] = <<>>]
  /\ card' = [card EXCEPT ![u] = Boot]
  /\ mode' = [mode EXCEPT ![u] = "HOME"]
  /\ UNCHANGED <<now, part, serviceVars, relayVars, historyVars>>

-----------------------------------------------------------------------------
\* The relay and its links.

\* didConnect to didUpdateNotificationState: the card cannot push in between, no
\* screen has armed it.  synchronizeSessionState once both are ready.
Subscribe(u) ==
  /\ link[u] = "down"
  /\ link' = [link EXCEPT ![u] = "up"]
  /\ ready' = ready \cup {u}
  /\ IF ready' = Users
     THEN /\ queries' = queries + 1
          /\ syncs' = syncs \cup {[query |-> queries', is |-> "sent"]}
     ELSE UNCHANGED <<queries, syncs>>
  /\ UNCHANGED <<now, part, serviceVars, feedbackSent, calls, downlink, card, mode, faults, historyVars>>

\* Mutant: the relay still takes the device for ready.
DisconnectedStaysReady(u) ==
  /\ link[u] = "lost"
  /\ link' = [link EXCEPT ![u] = "down"]
  /\ feedbackSent' = FALSE
  /\ UNCHANGED <<now, part, serviceVars, ready, calls, syncs, queries, downlink, card, mode, faults, historyVars>>

\* Mutant: the flag outlives the link.
DisconnectedKeepsFlag(u) ==
  /\ link[u] = "lost"
  /\ link' = [link EXCEPT ![u] = "down"]
  /\ ready' = ready \ {u}
  /\ UNCHANGED <<now, part, serviceVars, feedbackSent, calls, syncs, queries, downlink, card, mode, faults, historyVars>>

\* didDisconnectPeripheral.
Disconnected(u) ==
  /\ link[u] = "lost"
  /\ link' = [link EXCEPT ![u] = "down"]
  /\ ready' = ready \ {u}
  /\ feedbackSent' = FALSE
  /\ UNCHANGED <<now, part, serviceVars, calls, syncs, queries, downlink, card, mode, faults, historyVars>>

\* Writes to a link that is no more go nowhere.
Write(text) ==
  downlink' = [u \in Users |-> IF link[u] = "up" THEN Append(downlink[u], text) ELSE downlink[u]]

\* Mutant: the flag is set before the look at the channels.
SendConnectedFlagFirst ==
  /\ feedbackSent' = TRUE
  /\ IF ~feedbackSent /\ ready = Users THEN Write("KIN CONNECTED") ELSE UNCHANGED downlink

SendConnectedFeedback ==
  IF ~feedbackSent /\ ready = Users
  THEN feedbackSent' = TRUE /\ Write("KIN CONNECTED")
  ELSE UNCHANGED <<feedbackSent, downlink>>

\* The answer to an event post says "connected".
EventAnswered(c) ==
  /\ c.is = "connected"
  /\ calls' = calls (-) SetToBag({c})
  /\ SendConnectedFeedback
  /\ UNCHANGED <<now, part, serviceVars, ready, syncs, queries, link, card, mode, faults, historyVars>>

\* Mutant: any answer restores the connected screen.
SessionRestores(q) ==
  /\ q.is # "sent"
  /\ syncs' = syncs \ {q}
  /\ SendConnectedFeedback
  /\ UNCHANGED <<now, part, serviceVars, ready, calls, queries, link, card, mode, faults, historyVars>>

SessionAnswered(q) ==
  /\ q.is # "sent"
  /\ syncs' = syncs \ {q}
  /\ IF q.is = "connected"
     THEN SendConnectedFeedback
     ELSE /\ feedbackSent' = FALSE
          /\ IF ready = Users THEN Write("KIN READY") ELSE UNCHANGED downlink
  /\ UNCHANGED <<now, part, serviceVars, ready, calls, queries, link, card, mode, faults, historyVars>>

\* A query that fails is not made again.
SessionFails(q) ==
  /\ Fault
  /\ syncs' = syncs \ {q}
  /\ stranded' = stranded \cup Users
  /\ UNCHANGED <<now, part, serviceVars, ready, feedbackSent, calls, queries, cardVars, shaken, together>>

\* Nor is a post.
EventFails(c) ==
  /\ Fault
  /\ calls' = calls (-) SetToBag({c})
  /\ UNCHANGED <<now, part, serviceVars, ready, feedbackSent, syncs, queries, cardVars, historyVars>>

-----------------------------------------------------------------------------
\* The service.

\* Mutant: one gesture is enough.
AnyGesture ==
  /\ confirmed' = Users
  /\ \E u \in Users : gesture'[u] # Never

AllFacts ==
  /\ confirmed' = Users
  /\ \A u \in Users : gesture'[u] # Never
  /\ Near(gesture'[A], gesture'[B])

\* finalize_handshake, on what the handler has just written.
FinalizeHandshake ==
  status' = IF status = "connected" \/ AllFacts THEN "connected" ELSE "pending"

ConfirmHandshake(u) ==
  /\ confirmed' = confirmed \cup {u}
  /\ UNCHANGED gesture
  /\ FinalizeHandshake

\* The peer's gesture goes when it is too far from this one.
RecordGesture(u, t) ==
  /\ gesture' = [gesture EXCEPT
       ![u] = t,
       ![Peer(u)] = IF @ # Never /\ ~Near(t, @) THEN Never ELSE @]
  /\ UNCHANGED confirmed
  /\ FinalizeHandshake

\* Of an answer only the outcome is looked at.
Connected(c) == [user |-> c.user, event |-> "button", at |-> 0, is |-> "connected"]

\* agent_link_wire_event.
HandleEvent(c) ==
  /\ c.is = "sent"
  /\ IF c.event = "button" THEN ConfirmHandshake(c.user) ELSE RecordGesture(c.user, c.at)
  /\ calls' = IF status' = "connected"
              THEN (calls (-) SetToBag({c})) (+) SetToBag({Connected(c)})
              ELSE calls (-) SetToBag({c})
  /\ UNCHANGED <<now, part, ready, feedbackSent, syncs, queries, cardVars, faults, historyVars>>

\* agent_link_session_state.
SessionState(q) ==
  /\ q.is = "sent"
  /\ syncs' = (syncs \ {q})
       \cup {[q EXCEPT !.is = IF status = "connected" THEN "connected" ELSE "other"]}
  /\ UNCHANGED <<now, part, serviceVars, ready, feedbackSent, calls, queries, cardVars, faults, historyVars>>

-----------------------------------------------------------------------------
Next ==
  \/ Tick
  \/ \E u \in Users :
       \/ Press(u) \/ Shake(u) \/ TimeOut(u) \/ Show(u)
       \/ EnterLink(u) \/ LeaveLink(u)
       \/ Drop(u) \/ Restart(u) \/ Subscribe(u) \/ Disconnected(u)
  \/ \E c \in BagToSet(calls) : HandleEvent(c) \/ EventAnswered(c) \/ EventFails(c)
  \/ \E q \in syncs : SessionState(q) \/ SessionAnswered(q) \/ SessionFails(q)

Spec == Init /\ [][Next]_vars

\* Both keep trying: they press G0 whenever they can, shake the card before it gives
\* up, and do it again after the time-out.
Try(u) == Press(u) \/ Shake(u) \/ (card[u].seen /\ TimeOut(u))

\* Calls come back, what is written on a link that stays arrives, a link that dropped
\* comes up again.
Fairness ==
  /\ \A u \in Users :
       /\ WF_vars(Try(u))
       /\ WF_vars(Show(u) \/ Disconnected(u) \/ Subscribe(u))
       /\ \A e \in {"button", "gesture"} : WF_vars(
            \E c \in BagToSet(calls) :
              c.user = u /\ c.event = e /\ (HandleEvent(c) \/ EventAnswered(c)))
  /\ WF_vars(\E q \in syncs : SessionState(q) \/ SessionAnswered(q))

FairSpec == Spec /\ Fairness

-----------------------------------------------------------------------------
\* Types; a card that is down is not among the ready ones.
TypeOK ==
  /\ now \in 0..MaxTime /\ part \in 0..(Parts - 1)
  /\ status \in {"ready", "pending", "connected"}
  /\ confirmed \subseteq Users
  /\ gesture \in [Users -> Times]
  /\ ready \subseteq Users
  /\ feedbackSent \in BOOLEAN
  /\ IsABag(calls) /\ BagToSet(calls) \subseteq Calls
  /\ syncs \subseteq Syncs
  /\ queries \in Nat
  /\ link \in [Users -> {"up", "lost", "down"}]
  /\ \A u \in ready : link[u] # "down"
  /\ downlink \in [Users -> Seq(Texts)]
  /\ card \in [Users -> Cards]
  /\ mode \in [Users -> Modes]
  /\ faults \in 0..MaxFaults
  /\ shaken \in [Users -> Moments]
  /\ together \in BOOLEAN
  /\ stranded \subseteq Users

\* Who is connected has met: both have confirmed, and two of their gestures, as the relay
\* has heard of them, were less than a second beyond the window apart, which is what whole
\* seconds can tell.  Posts overtake each other, gestures are overwritten, taken back and
\* repeated; no old gesture stands in for a new one.
Earned == status = "connected" => together /\ confirmed = Users

\* The other way round: once both confirmations and two gestures are recorded, they
\* are connected, whichever of the four came last.  Nothing else would look again.
Settled ==
  confirmed = Users /\ (\A u \in Users : gesture[u] # Never) => status = "connected"

\* A card shows "KIN CONNECTED / CONTEXT SAVED", or is about to, only when the service
\* has connected the two, whatever the relay has been told in what order.
ShownIsSaved ==
  \A u \in Users :
    card[u].connected \/ (\E i \in 1..Len(downlink[u]) : downlink[u][i] = "KIN CONNECTED")
      => status = "connected"

\* The last text written decides what the card will show.
WillShow(u) ==
  IF downlink[u] = <<>> THEN card[u].connected ELSE downlink[u][Len(downlink[u])] = "KIN CONNECTED"

\* The relay writes the outcome once: after that, both cards that are linked will show
\* it, across drops the relay has not heard of and answers that come late.
FeedbackArrives ==
  feedbackSent => \A u \in Users : link[u] = "up" => WillShow(u)

\* While the relay takes both cards for ready and awaits no session, a card that has shown
\* all it was sent is connected, or armed for a meeting, or among the stranded ones: no
\* order of drops, restarts and late answers leaves one waiting for a text nobody writes.
ArmedOrStranded ==
  ready = Users /\ syncs = {} =>
    \A u \in Users : link[u] = "up" /\ downlink[u] = <<>> =>
      card[u].connected \/ card[u].armed \/ u \in stranded

\* Two people who keep trying are connected and see it, unless a card stays unarmed:
\* it got "KIN READY" in another mode than LINK, left LINK afterwards, or the session
\* query failed.  Nothing arms it then but the next drop of a link.
Met == <>[](stranded = {}) => <>[](\A u \in Users : card[u].connected)

-----------------------------------------------------------------------------
\* The inductive invariant.

\* What is on its way is true.
AnswersAreTrue ==
  /\ \A c \in BagToSet(calls) : c.is = "connected" => status = "connected"
  /\ \A q \in syncs : q.is = "connected" => status = "connected"

\* The times of u's gestures the service has or will have.
Known(u) ==
  {gesture[u]} \cup
  {c.at : c \in {d \in BagToSet(calls) :
                   d.user = u /\ d.event = "gesture" /\ d.is = "sent"}}

GesturesAreReal ==
  /\ \A u \in Users : shaken[u].second <= now /\ \A t \in Known(u) : t <= shaken[u].second
  /\ \A s \in Known(A), t \in Known(B) : s # Never /\ t # Never /\ Near(s, t) => together

RecordedNear == (\A u \in Users : gesture[u] # Never) => Near(gesture[A], gesture[B])

\* The flag goes with the link.
FeedbackOnLink == feedbackSent => \A u \in Users : link[u] # "down"

IInv ==
  /\ TypeOK
  /\ AnswersAreTrue
  /\ GesturesAreReal
  /\ RecordedNear
  /\ FeedbackOnLink
  /\ Earned /\ Settled /\ ShownIsSaved /\ FeedbackArrives
=============================================================================
