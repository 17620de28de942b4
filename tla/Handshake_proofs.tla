--------------------------- MODULE Handshake_proofs ---------------------------
(***************************************************************************)
(* Theorems about Handshake, for any window, clock and number of calls and *)
(* faults.                                                                 *)
(***************************************************************************)
EXTENDS Handshake, SequenceTheorems, TLAPS

USE PeopleAssumption DEF Users

\* The invariant in three parts: what the service knows of the gestures, ...
ServiceInv == Earned /\ Settled /\ GesturesAreReal /\ RecordedNear

\* ... and what the cards show of the outcome.
ScreenInv == FeedbackOnLink /\ ShownIsSaved /\ FeedbackArrives

\* The invariant is that of the types, the answers, the service and the screens.
LEMMA InvParts == IInv <=> TypeOK /\ AnswersAreTrue /\ ServiceInv /\ ScreenInv
BY DEF IInv, ServiceInv, ScreenInv

\* The same in the next state.
LEMMA InvPartsNext ==
  ASSUME TypeOK', AnswersAreTrue', ServiceInv', ScreenInv'
  PROVE  IInv'
BY DEF IInv, ServiceInv, ScreenInv

\* The bag of the posts.
LEMMA NoneInFlight == IsABag(EmptyBag) /\ BagToSet(EmptyBag) = {}
BY DEF EmptyBag, SetToBag, IsABag, BagToSet

LEMMA OneMore ==
  ASSUME NEW b, IsABag(b), NEW x
  PROVE  /\ IsABag(b (+) SetToBag({x}))
         /\ BagToSet(b (+) SetToBag({x})) = BagToSet(b) \cup {x}
BY DEF IsABag, BagToSet, SetToBag, (+)

LEMMA OneLess ==
  ASSUME NEW b, IsABag(b), NEW x
  PROVE  /\ IsABag(b (-) SetToBag({x}))
         /\ BagToSet(b (-) SetToBag({x})) \subseteq BagToSet(b)
BY DEF IsABag, BagToSet, SetToBag, (-)

\* The invariant holds at the start.
LEMMA InitIInv == Init => IInv
<1> SUFFICES ASSUME Init PROVE IInv
  OBVIOUS
<1>1. TypeOK
  <2>1. 0 \in 0..MaxTime /\ 0 \in 0..MaxFaults /\ 0 \in Nat /\ 0 \in 0..(Parts - 1)
    BY TimeAssumption, BoundsAssumption
  <2>2. <<>> \in Seq(Texts) /\ Boot \in Cards
    BY DEF Boot, Cards
  <2>3. [second |-> Never, part |-> 0] \in Moments
    BY <2>1 DEF Moments, Times
  <2> QED
    BY <2>1, <2>2, <2>3, NoneInFlight DEF Init, TypeOK, Times, Modes
<1>2. AnswersAreTrue
  BY NoneInFlight DEF Init, AnswersAreTrue
<1>3. ServiceInv
  <2>1. \A u \in Users : Known(u) = {Never}
    BY NoneInFlight DEF Init, Known
  <2>2. GesturesAreReal
    BY <2>1 DEF Init, GesturesAreReal, Never
  <2> QED
    BY <2>2 DEF Init, ServiceInv, Earned, Settled, RecordedNear
<1>4. ScreenInv
  BY DEF Init, ScreenInv, FeedbackOnLink, ShownIsSaved, FeedbackArrives, Boot
<1> QED
  BY <1>1, <1>2, <1>3, <1>4, InvParts

-----------------------------------------------------------------------------
\* What the parts depend on.

\* The service's part, while the service does nothing and no gesture is made.
LEMMA ServiceUntouched ==
  ASSUME TypeOK, ServiceInv, UNCHANGED <<serviceVars, shaken, together>>,
         now' \in {now, now + 1},
         \A c \in BagToSet(calls)' : c.event = "gesture" /\ c.is = "sent" => c \in BagToSet(calls)
  PROVE  ServiceInv'
<1> USE DEF ServiceInv, serviceVars
<1>1. Earned' /\ Settled' /\ RecordedNear'
  BY DEF Earned, Settled, RecordedNear
<1>2. \A u \in Users : Known(u)' \subseteq Known(u)
  BY DEF Known
<1>3. now \in Int /\ \A u \in Users : shaken[u].second \in Int
  BY DEF TypeOK, Moments, Times, Never
<1>4. GesturesAreReal'
  BY <1>2, <1>3 DEF GesturesAreReal
<1> QED
  BY <1>1, <1>4

\* The screens' part, while nothing moves on the links and no card changes its badge.
LEMMA ScreensUntouched ==
  ASSUME ScreenInv, UNCHANGED <<link, downlink, feedbackSent>>,
         \A u \in Users : card'[u].connected = card[u].connected,
         status = "connected" => status' = "connected"
  PROVE  ScreenInv'
<1> USE DEF ScreenInv
<1>1. FeedbackOnLink'
  BY DEF FeedbackOnLink
<1>2. ShownIsSaved'
  BY DEF ShownIsSaved
<1>3. FeedbackArrives'
  BY DEF FeedbackArrives, WillShow
<1> QED
  BY <1>1, <1>2, <1>3

\* Answers stay true while the status stays and no new answer comes.
LEMMA AnswersUntouched ==
  ASSUME AnswersAreTrue, status = "connected" => status' = "connected",
         \A c \in BagToSet(calls)' : c.is = "connected" => c \in BagToSet(calls),
         \A q \in syncs' : q.is = "connected" => q \in syncs
  PROVE  AnswersAreTrue'
BY DEF AnswersAreTrue

\* What is on its way to a card is a sequence of texts.
LEMMA Lengths ==
  ASSUME TypeOK, NEW u \in Users
  PROVE  downlink[u] \in Seq(Texts) /\ Len(downlink[u]) \in Nat
<1>1. downlink[u] \in Seq(Texts)
  BY DEF TypeOK
<1> QED
  BY ONLY <1>1, LenProperties

\* Another fault is within the bound.
LEMMA FaultType == ASSUME TypeOK, Fault PROVE faults' \in 0..MaxFaults
BY BoundsAssumption DEF TypeOK, Fault

\* A frame adds at most its own post.
LEMMA PushType ==
  ASSUME TypeOK, NEW u \in Users, NEW event \in {"button", "gesture"}, NEW at \in 0..MaxTime,
         Push(u, event, at)
  PROVE  /\ IsABag(calls') /\ BagToSet(calls') \subseteq Calls
         /\ faults' \in 0..MaxFaults
         /\ BagToSet(calls') \subseteq
              BagToSet(calls) \cup {[user |-> u, event |-> event, at |-> at, is |-> "sent"]}
<1> DEFINE c == [user |-> u, event |-> event, at |-> at, is |-> "sent"]
<1>1. c \in Calls
  BY DEF Calls
<1>2. IsABag(calls) /\ BagToSet(calls) \subseteq Calls /\ faults \in 0..MaxFaults
  BY DEF TypeOK
<1>3. \/ calls' = calls (+) SetToBag({c}) /\ UNCHANGED faults
      \/ Fault /\ UNCHANGED calls
  BY DEF Push
<1> HIDE DEF c
<1>4. /\ IsABag(calls') /\ BagToSet(calls') \subseteq BagToSet(calls) \cup {c}
      /\ faults' \in 0..MaxFaults
  <2>1. CASE calls' = calls (+) SetToBag({c}) /\ UNCHANGED faults
    BY <1>2, <2>1, OneMore
  <2>2. CASE Fault /\ UNCHANGED calls
    BY <1>2, <2>2, FaultType
  <2> QED
    BY <1>3, <2>1, <2>2
<1> QED
  BY <1>1, <1>2, <1>4 DEF c

\* A text written comes last on a link that is up, and what was written before stays.
LEMMA WriteAppends ==
  ASSUME TypeOK, NEW text \in Texts, Write(text)
  PROVE  /\ downlink' \in [Users -> Seq(Texts)]
         /\ \A u \in Users : link[u] # "up" => downlink'[u] = downlink[u]
         /\ \A u \in Users : link[u] = "up" =>
              /\ Len(downlink'[u]) = Len(downlink[u]) + 1
              /\ downlink'[u][Len(downlink'[u])] = text
              /\ \A i \in 1..Len(downlink[u]) : downlink'[u][i] = downlink[u][i]
<1>1. \A u \in Users : downlink[u] \in Seq(Texts)
  BY DEF TypeOK
<1>2. \A u \in Users : downlink'[u] = IF link[u] = "up" THEN Append(downlink[u], text) ELSE downlink[u]
  BY DEF Write
<1>3. downlink' \in [Users -> Seq(Texts)]
  BY <1>1 DEF Write
<1>4. ASSUME NEW u \in Users, link[u] = "up"
      PROVE  /\ Len(downlink'[u]) = Len(downlink[u]) + 1
             /\ downlink'[u][Len(downlink'[u])] = text
             /\ \A i \in 1..Len(downlink[u]) : downlink'[u][i] = downlink[u][i]
  <2>1. downlink[u] \in Seq(Texts) /\ downlink'[u] = Append(downlink[u], text)
    BY <1>1, <1>2, <1>4
  <2> QED
    BY <2>1, AppendProperties
<1> QED
  BY <1>2, <1>3, <1>4

-----------------------------------------------------------------------------
\* The card.

\* The clock goes on.
LEMMA TickStep == ASSUME IInv, Tick PROVE IInv'
<1> USE InvParts DEF Tick, serviceVars, relayVars, cardVars, historyVars
<1>1. now \in Int /\ now' \in {now, now + 1} /\ now' \in 0..MaxTime /\ part' \in 0..(Parts - 1)
  BY TimeAssumption DEF TypeOK
<1>2. TypeOK'
  BY <1>1 DEF TypeOK, Syncs
<1>3. AnswersAreTrue'
  BY AnswersUntouched
<1>4. ServiceInv'
  BY <1>1, ServiceUntouched
<1>5. ScreenInv'
  BY ScreensUntouched
<1> QED
  BY InvPartsNext, <1>2, <1>3, <1>4, <1>5

\* Only the card and the calls change.
LEMMA PressStep == ASSUME IInv, NEW u \in Users, Press(u) PROVE IInv'
<1> USE InvParts DEF Press, serviceVars, historyVars
<1>1. 0 \in 0..MaxTime /\ now \in Int
  BY TimeAssumption DEF TypeOK
<1>2. /\ IsABag(calls') /\ BagToSet(calls') \subseteq Calls /\ faults' \in 0..MaxFaults
      /\ BagToSet(calls') \subseteq
           BagToSet(calls) \cup {[user |-> u, event |-> "button", at |-> 0, is |-> "sent"]}
  BY <1>1, PushType
<1>3. card' \in [Users -> Cards]
  BY DEF TypeOK, Cards
<1>4. TypeOK'
  BY <1>2, <1>3 DEF TypeOK, Syncs
<1>5. AnswersAreTrue'
  BY <1>2, AnswersUntouched
<1>6. ServiceInv'
  BY <1>1, <1>2, ServiceUntouched
<1>7. \A v \in Users : card'[v].connected = card[v].connected
  BY DEF TypeOK, Cards
<1>8. ScreenInv'
  BY <1>7, ScreensUntouched
<1> QED
  BY InvPartsNext, <1>4, <1>5, <1>6, <1>8

\* Steps of a card that the service and the screens do not see.
LEMMA CardStep ==
  ASSUME IInv, NEW u \in Users, EnterLink(u) \/ LeaveLink(u) \/ TimeOut(u)
  PROVE  IInv'
<1> USE InvParts DEF EnterLink, LeaveLink, TimeOut, serviceVars, relayVars, historyVars
<1>1. faults' \in 0..MaxFaults
  <2>1. faults' = faults \/ Fault
    OBVIOUS
  <2> QED
    BY <2>1, FaultType DEF TypeOK
<1>2. card' \in [Users -> Cards] /\ \A v \in Users : card'[v].connected = card[v].connected
  <2>1. CASE EnterLink(u)
    BY <2>1 DEF TypeOK
  <2>2. CASE LeaveLink(u)
    BY <2>2 DEF TypeOK, Cards, Boot
  <2>3. CASE TimeOut(u)
    BY <2>3 DEF TypeOK, Cards
  <2> QED
    BY <2>1, <2>2, <2>3
<1>3. mode' \in [Users -> Modes] /\ stranded' \subseteq Users
  BY DEF TypeOK, Modes
<1>4. UNCHANGED <<now, part, serviceVars, relayVars, link, downlink, shaken, together>>
  OBVIOUS
<1>5. TypeOK'
  BY <1>1, <1>2, <1>3, <1>4 DEF TypeOK, Syncs
<1>6. AnswersAreTrue'
  BY <1>4, AnswersUntouched
<1>7. ServiceInv'
  BY <1>4, ServiceUntouched
<1>8. ScreenInv'
  BY <1>2, <1>4, ScreensUntouched
<1> QED
  BY InvPartsNext, <1>5, <1>6, <1>7, <1>8

\* A gesture is made now: if the service knows of one of the peer near to it, the
\* peer's last one, which is later, is nearer.
LEMMA ShakeStep == ASSUME IInv, NEW u \in Users, Shake(u) PROVE IInv'
<1> USE InvParts DEF Shake, serviceVars
<1>1. /\ now \in 0..MaxTime /\ now \in Int /\ Window \in Int
      /\ [second |-> now, part |-> part] \in Moments
  BY WindowAssumption, TimeAssumption DEF TypeOK, Moments, Times
<1>2. /\ IsABag(calls') /\ BagToSet(calls') \subseteq Calls /\ faults' \in 0..MaxFaults
      /\ BagToSet(calls') \subseteq
           BagToSet(calls) \cup {[user |-> u, event |-> "gesture", at |-> now, is |-> "sent"]}
  BY <1>1, PushType
<1>3. card' \in [Users -> Cards] /\ \A v \in Users : card'[v].connected = card[v].connected
  BY DEF TypeOK, Cards
<1>4. TypeOK'
  BY <1>1, <1>2, <1>3 DEF TypeOK, Syncs
<1>5. AnswersAreTrue'
  BY <1>2, AnswersUntouched
<1>6. ServiceInv'
  <2>1. Earned' /\ Settled' /\ RecordedNear'
    BY DEF ServiceInv, Earned, Settled, RecordedNear
  <2>2. \A v \in Users : Known(v)' \subseteq Known(v) \cup (IF v = u THEN {now} ELSE {})
    BY <1>2 DEF Known
  <2>3. /\ shaken \in [Users -> Moments]
        /\ \A v \in Users : /\ shaken[v].second \in Int /\ shaken[v].second <= now
                             /\ \A t \in Known(v) : t <= shaken[v].second
    BY DEF ServiceInv, GesturesAreReal, TypeOK, Moments, Times, Never
  <2>4. \A v \in Users : Known(v) \subseteq Times
    BY DEF Known, TypeOK, Calls, Times
  <2>5. \A v \in Users : shaken'[v].second = IF v = u THEN now ELSE shaken[v].second
    BY <2>3
  <2>6. \A v \in Users :
          shaken'[v].second <= now /\ \A t \in Known(v)' : t <= shaken'[v].second
    <3> SUFFICES ASSUME NEW v \in Users
                 PROVE  shaken'[v].second <= now /\ \A t \in Known(v)' : t <= shaken'[v].second
      OBVIOUS
    <3>1. CASE v = u
      <4>1. shaken'[v].second = now
        BY <2>5, <3>1
      <4>2. \A t \in Known(v)' : t \in Known(v) \/ t = now
        BY <2>2
      <4>3. \A t \in Known(v) : t \in Int /\ t <= now
        BY <1>1, <2>3, <2>4 DEF Times, Never
      <4> QED
        BY <1>1, <4>1, <4>2, <4>3
    <3>2. CASE v # u
      BY <2>2, <2>3, <2>5, <3>2
    <3> QED
      BY <3>1, <3>2
  <2>7. ASSUME NEW t \in Known(Peer(u)), t # Never, Near(t, now)
        PROVE  together'
    <3>1. Peer(u) \in Users
      BY DEF Peer
    <3>2. /\ t \in Int /\ 0 <= t /\ t <= shaken[Peer(u)].second
          /\ shaken[Peer(u)].second \in Int /\ shaken[Peer(u)].second <= now
      BY <2>3, <2>4, <2>7, <3>1 DEF Times, Never
    <3>3. Recent(shaken[Peer(u)])
      BY <1>1, <2>7, <3>2, WindowAssumption DEF Near, Recent, Never
    <3> QED
      BY <3>3
  <2>8. \A s \in Known(A)', t \in Known(B)' : s # Never /\ t # Never /\ Near(s, t) => together'
    <3> SUFFICES ASSUME NEW s \in Known(A)', NEW t \in Known(B)', s # Never, t # Never, Near(s, t)
                 PROVE  together'
      OBVIOUS
    <3>1. CASE s \in Known(A) /\ t \in Known(B)
      <4>1. together
        BY <3>1 DEF ServiceInv, GesturesAreReal
      <4> QED
        BY <4>1
    <3>2. CASE u = A /\ s = now
      <4>1. t \in Known(B) /\ Peer(u) = B
        BY <2>2, <3>2 DEF Peer
      <4>2. Near(t, now)
        BY <3>2 DEF Near
      <4> QED
        BY <2>7, <4>1, <4>2
    <3>3. CASE u = B /\ t = now
      <4>1. s \in Known(A) /\ Peer(u) = A
        BY <2>2, <3>3 DEF Peer
      <4>2. Near(s, now)
        BY <3>3
      <4> QED
        BY <2>7, <4>1, <4>2
    <3> QED
      BY <2>2, <3>1, <3>2, <3>3
  <2> QED
    BY <2>1, <2>6, <2>8 DEF ServiceInv, GesturesAreReal
<1>7. ScreenInv'
  BY <1>3, ScreensUntouched
<1> QED
  BY InvPartsNext, <1>4, <1>5, <1>6, <1>7

\* A function changed at one point keeps its range.
LEMMA ExceptType ==
  ASSUME NEW S, NEW T, NEW f \in [S -> T], NEW x, NEW y \in T
  PROVE  [f EXCEPT ![x] = y] \in [S -> T]
OBVIOUS

\* Where a link drops, nothing is promised of its card.
LEMMA DropStep ==
  ASSUME IInv, NEW u \in Users, Drop(u) \/ Restart(u)
  PROVE  IInv'
<1> USE InvParts DEF Drop, Restart, serviceVars, relayVars, historyVars
<1>1. UNCHANGED <<now, part, serviceVars, relayVars, shaken, together, stranded>>
  OBVIOUS
<1>2. faults' \in 0..MaxFaults
  BY FaultType
<1>3. Boot \in Cards /\ <<>> \in Seq(Texts)
  BY DEF Boot, Cards
<1>4. /\ \A v \in Users \ {u} :
           link'[v] = link[v] /\ downlink'[v] = downlink[v] /\ card'[v] = card[v]
      /\ link'[u] \in {"lost", "down"} /\ downlink'[u] = <<>>
      /\ link'[u] = "down" => link[u] = "down"
      /\ card'[u].connected => card[u].connected
  BY DEF TypeOK, Boot
<1>5. TypeOK'
  <2>1. link' \in [Users -> {"up", "lost", "down"}] /\ mode' \in [Users -> Modes]
    BY DEF TypeOK, Modes
  <2>2. downlink' \in [Users -> Seq(Texts)]
    <3>1. downlink' = [downlink EXCEPT ![u] = <<>>]
      OBVIOUS
    <3>2. downlink \in [Users -> Seq(Texts)]
      BY DEF TypeOK
    <3> QED
      BY ONLY <1>3, <3>1, <3>2, ExceptType
  <2>4. card' \in [Users -> Cards]
    BY <1>3 DEF TypeOK
  <2>3. \A v \in ready' : link'[v] # "down"
    BY <1>1, <1>4 DEF TypeOK
  <2> QED
    BY <1>1, <1>2, <2>1, <2>2, <2>3, <2>4 DEF TypeOK, Syncs
<1>6. AnswersAreTrue'
  BY <1>1, AnswersUntouched
<1>7. ServiceInv'
  BY <1>1, ServiceUntouched
<1>8. ScreenInv'
  <2>1. FeedbackOnLink'
    BY <1>1, <1>4 DEF ScreenInv, FeedbackOnLink
  <2>2. ShownIsSaved'
    <3>1. Len(<<>>) = 0 /\ 1..0 = {}
      OBVIOUS
    <3> SUFFICES ASSUME NEW v \in Users,
                        card'[v].connected
                          \/ \E i \in 1..Len(downlink'[v]) : downlink'[v][i] = "KIN CONNECTED"
                 PROVE  status' = "connected"
      BY DEF ShownIsSaved
    <3>2. CASE v = u
      <4>1. ~\E i \in 1..Len(downlink'[v]) : downlink'[v][i] = "KIN CONNECTED"
        BY <1>4, <3>1, <3>2
      <4>2. card[v].connected
        BY <1>4, <3>2, <4>1
      <4> QED
        BY <1>1, <4>2 DEF ScreenInv, ShownIsSaved
    <3>3. CASE v # u
      <4>1. downlink'[v] = downlink[v] /\ card'[v] = card[v] /\ status' = status
        BY <1>1, <1>4, <3>3
      <4>2. ShownIsSaved
        BY DEF ScreenInv
      <4> QED
        BY ONLY <4>1, <4>2, v \in Users,
           card'[v].connected \/ \E i \in 1..Len(downlink'[v]) : downlink'[v][i] = "KIN CONNECTED"
           DEF ShownIsSaved
    <3> QED
      BY <3>2, <3>3
  <2>3. FeedbackArrives'
    BY <1>1, <1>4 DEF ScreenInv, FeedbackArrives, WillShow
  <2> QED
    BY <2>1, <2>2, <2>3 DEF ScreenInv
<1> QED
  BY InvPartsNext, <1>5, <1>6, <1>7, <1>8

\* What Head takes, and what is left.
LEMMA HeadAndTail ==
  ASSUME NEW S, NEW s \in Seq(S), s # <<>>
  PROVE  /\ Head(s) \in S /\ Head(s) = s[1] /\ 1 \in 1..Len(s)
         /\ Tail(s) \in Seq(S)
         /\ \A i \in 1..Len(Tail(s)) : Tail(s)[i] = s[i + 1] /\ i + 1 \in 1..Len(s)
         /\ Tail(s) = <<>> => Len(s) = 1
         /\ Tail(s) # <<>> => Tail(s)[Len(Tail(s))] = s[Len(s)]
<1>1. /\ Head(s) \in S /\ Tail(s) \in Seq(S)
      /\ Len(Tail(s)) = Len(s) - 1
      /\ \A i \in 1..Len(Tail(s)) : Tail(s)[i] = s[i + 1]
  BY HeadTailProperties
<1>2. Len(s) \in Nat /\ Len(s) > 0 /\ Head(s) = s[1]
  OBVIOUS
<1>3. Tail(s) = <<>> => Len(s) = 1
  <2>1. SUFFICES ASSUME Tail(s) = <<>> PROVE Len(s) = 1
    OBVIOUS
  <2>2. Len(Tail(s)) = 0
    BY <2>1, EmptySeq
  <2> QED
    BY <1>1, <1>2, <2>2
<1>4. Tail(s) # <<>> => Tail(s)[Len(Tail(s))] = s[Len(s)]
  <2>1. SUFFICES ASSUME Tail(s) # <<>> PROVE Tail(s)[Len(Tail(s))] = s[Len(s)]
    OBVIOUS
  <2>2. Len(Tail(s)) \in 1..Len(Tail(s))
    BY <1>1, <2>1, EmptySeq
  <2> QED
    BY <1>1, <1>2, <2>2
<1> QED
  BY <1>1, <1>2, <1>3, <1>4

\* A text reaches the card: what the card was to show, it is to show still.
LEMMA ShowStep == ASSUME IInv, NEW u \in Users, Show(u) PROVE IInv'
<1> USE InvParts DEF Show, serviceVars, relayVars
<1> DEFINE text == Head(downlink[u])
<1>1. UNCHANGED <<now, part, serviceVars, relayVars, link, mode, faults, shaken, together>>
  OBVIOUS
<1>2. downlink[u] \in Seq(Texts) /\ downlink[u] # <<>>
  BY DEF TypeOK
<1>3. /\ text \in Texts /\ text = downlink[u][1] /\ 1 \in 1..Len(downlink[u])
      /\ Tail(downlink[u]) \in Seq(Texts)
      /\ \A i \in 1..Len(Tail(downlink[u])) :
           Tail(downlink[u])[i] = downlink[u][i + 1] /\ i + 1 \in 1..Len(downlink[u])
      /\ Tail(downlink[u]) = <<>> => Len(downlink[u]) = 1
      /\ Tail(downlink[u]) # <<>> =>
           Tail(downlink[u])[Len(Tail(downlink[u]))] = downlink[u][Len(downlink[u])]
  BY ONLY <1>2, HeadAndTail
<1>4. PICK c \in Cards : card' = [card EXCEPT ![u] = c] /\ c.connected = (text = "KIN CONNECTED")
  <2>1. CASE text = "KIN CONNECTED"
    <3>1. [Boot EXCEPT !.connected = TRUE] \in Cards /\ [Boot EXCEPT !.connected = TRUE].connected = TRUE
      BY DEF Boot, Cards
    <3> QED
      BY <2>1, <3>1
  <2>2. CASE text # "KIN CONNECTED"
    <3> DEFINE armed == mode[u] = "LINK"
    <3>1. [Boot EXCEPT !.armed = armed] \in Cards /\ [Boot EXCEPT !.armed = armed].connected = FALSE
      BY DEF Boot, Cards
    <3> QED
      BY <2>2, <3>1
  <2> QED
    BY <2>1, <2>2
<1>5. card \in [Users -> Cards] /\ downlink \in [Users -> Seq(Texts)]
  BY DEF TypeOK
<1>6. /\ card'[u] = c /\ downlink'[u] = Tail(downlink[u])
      /\ \A v \in Users \ {u} : card'[v] = card[v] /\ downlink'[v] = downlink[v]
  BY <1>4, <1>5
<1>0. TypeOK /\ ScreenInv
  BY ONLY IInv, InvParts
<1>11. stranded' \subseteq Users /\ downlink' = [downlink EXCEPT ![u] = Tail(downlink[u])] /\ now \in Int
  <2>1. stranded \subseteq Users /\ now \in Int
    BY ONLY <1>0 DEF TypeOK
  <2>2. stranded' \subseteq stranded \cup {u}
    OBVIOUS
  <2> QED
    BY <2>1, <2>2
<1> HIDE DEF Show, text
<1>7. TypeOK'
  <2>1. card' \in [Users -> Cards]
    BY ONLY <1>4, <1>5, ExceptType
  <2>2. downlink' \in [Users -> Seq(Texts)]
    BY ONLY <1>11, <1>3, <1>5, ExceptType
  <2> QED
    BY <1>1, <1>11, <2>1, <2>2 DEF TypeOK, Syncs
<1>8. AnswersAreTrue'
  BY <1>1, AnswersUntouched
<1>9. ServiceInv'
  BY <1>1, ServiceUntouched
<1>10. ScreenInv'
  <2>1. FeedbackOnLink'
    BY <1>1 DEF ScreenInv, FeedbackOnLink
  <2>2. ASSUME NEW v \in Users,
               card'[v].connected \/ \E i \in 1..Len(downlink'[v]) : downlink'[v][i] = "KIN CONNECTED"
        PROVE  status' = "connected"
    <3>1. ShownIsSaved /\ status' = status
      BY ONLY <1>0, <1>1 DEF ScreenInv, serviceVars
    <3>2. CASE v = u
      <4>1. \E i \in 1..Len(downlink[u]) : downlink[u][i] = "KIN CONNECTED"
        <5>1. CASE card'[v].connected
          BY ONLY <1>3, <1>4, <1>6, <3>2, <5>1
        <5>2. CASE \E i \in 1..Len(downlink'[v]) : downlink'[v][i] = "KIN CONNECTED"
          <6>1. PICK i \in 1..Len(Tail(downlink[u])) : Tail(downlink[u])[i] = "KIN CONNECTED"
            BY ONLY <1>6, <3>2, <5>2
          <6>2. i + 1 \in 1..Len(downlink[u]) /\ downlink[u][i + 1] = "KIN CONNECTED"
            BY ONLY <1>3, <6>1
          <6> QED
            BY ONLY <6>2
        <5> QED
          BY ONLY <2>2, <5>1, <5>2
      <4> QED
        BY ONLY <3>1, <4>1, u \in Users DEF ShownIsSaved
    <3>3. CASE v # u
      BY ONLY <1>6, <2>2, <3>1, <3>3, v \in Users DEF ShownIsSaved
    <3> QED
      BY <3>2, <3>3
  <2>3. \A v \in Users : WillShow(v) => WillShow(v)'
    <3> SUFFICES ASSUME NEW v \in Users, WillShow(v) PROVE WillShow(v)'
      OBVIOUS
    <3>1. CASE v = u /\ Tail(downlink[u]) = <<>>
      <4>1. text = "KIN CONNECTED"
        BY ONLY <1>2, <1>3, <3>1, WillShow(v) DEF WillShow
      <4> QED
        BY ONLY <1>4, <1>6, <3>1, <4>1 DEF WillShow
    <3>2. CASE v = u /\ Tail(downlink[u]) # <<>>
      BY ONLY <1>2, <1>3, <1>6, <3>2, WillShow(v) DEF WillShow
    <3>3. CASE v # u
      BY <1>6, <3>3 DEF WillShow
    <3> QED
      BY <3>1, <3>2, <3>3
  <2>4. FeedbackArrives'
    BY <1>1, <2>3 DEF ScreenInv, FeedbackArrives
  <2> QED
    BY <2>1, <2>2, <2>4 DEF ScreenInv, ShownIsSaved
<1> QED
  BY InvPartsNext, <1>7, <1>8, <1>9, <1>10

-----------------------------------------------------------------------------
\* The relay.

\* A card that comes up has nothing on its way, and the flag was not set.
LEMMA SubscribeStep == ASSUME IInv, NEW u \in Users, Subscribe(u) PROVE IInv'
<1> USE InvParts DEF Subscribe, serviceVars, historyVars
<1>1. ~feedbackSent
  BY DEF ScreenInv, FeedbackOnLink
<1>2. /\ queries \in Nat /\ queries' \in Nat /\ queries <= queries'
      /\ syncs' \subseteq syncs \cup {[query |-> queries', is |-> "sent"]}
      /\ queries' = queries => syncs' = syncs
  BY DEF TypeOK
<1>3. TypeOK'
  <2>1. link' \in [Users -> {"up", "lost", "down"}] /\ \A v \in ready' : link'[v] # "down"
    BY DEF TypeOK
  <2>2. syncs' \subseteq Syncs'
    <3>1. syncs \subseteq Syncs'
      BY <1>2 DEF TypeOK, Syncs
    <3>2. CASE queries' = queries
      BY <1>2, <3>1, <3>2
    <3>3. CASE queries' # queries
      <4>1. queries' \in 1..queries'
        BY <1>2, <3>3
      <4>2. [query |-> queries', is |-> "sent"] \in Syncs'
        BY <4>1 DEF Syncs
      <4> QED
        BY <1>2, <3>1, <4>2
    <3> QED
      BY <3>2, <3>3
  <2>3. ready' \subseteq Users
    BY DEF TypeOK
  <2> QED
    BY <1>2, <2>1, <2>2, <2>3 DEF TypeOK
<1>4. AnswersAreTrue'
  BY <1>2, AnswersUntouched
<1>5. ServiceInv'
  BY ServiceUntouched
<1>6. ScreenInv'
  <2>1. ~feedbackSent'
    BY <1>1
  <2>2. ShownIsSaved'
    BY DEF ScreenInv, ShownIsSaved
  <2> QED
    BY <2>1, <2>2 DEF ScreenInv, FeedbackOnLink, FeedbackArrives
<1> QED
  BY InvPartsNext, <1>3, <1>4, <1>5, <1>6

\* The flag falls with the link.
LEMMA DisconnectedStep == ASSUME IInv, NEW u \in Users, Disconnected(u) PROVE IInv'
<1> USE InvParts DEF Disconnected, serviceVars, historyVars
<1>1. TypeOK'
  <2>1. link' \in [Users -> {"up", "lost", "down"}] /\ \A v \in ready' : link'[v] # "down"
    BY DEF TypeOK
  <2> QED
    BY <2>1 DEF TypeOK, Syncs
<1>2. AnswersAreTrue'
  BY AnswersUntouched
<1>3. ServiceInv'
  BY ServiceUntouched
<1>4. ScreenInv'
  <2>1. ShownIsSaved'
    BY DEF ScreenInv, ShownIsSaved
  <2> QED
    BY <2>1 DEF ScreenInv, FeedbackOnLink, FeedbackArrives
<1> QED
  BY InvPartsNext, <1>1, <1>2, <1>3, <1>4

\* What is written after an answer is true, and comes last.
LEMMA FeedbackScreens ==
  ASSUME TypeOK, ScreenInv, status = "connected", SendConnectedFeedback,
         UNCHANGED <<status, link, card>>
  PROVE  /\ downlink' \in [Users -> Seq(Texts)]
         /\ feedbackSent' \in BOOLEAN
         /\ ScreenInv'
<1>1. CASE UNCHANGED <<feedbackSent, downlink>>
  BY <1>1, ScreensUntouched DEF TypeOK
<1>2. CASE feedbackSent' = TRUE /\ ready = Users /\ Write("KIN CONNECTED")
  <2>1. "KIN CONNECTED" \in Texts
    BY DEF Texts
  <2>2. /\ downlink' \in [Users -> Seq(Texts)]
        /\ \A u \in Users : link[u] = "up" =>
             /\ Len(downlink'[u]) = Len(downlink[u]) + 1
             /\ downlink'[u][Len(downlink'[u])] = "KIN CONNECTED"
    BY <1>2, <2>1, WriteAppends
  <2>3. FeedbackOnLink'
    BY <1>2 DEF FeedbackOnLink, TypeOK
  <2>4. ShownIsSaved'
    BY DEF ShownIsSaved
  <2>5. FeedbackArrives'
    <3>1. \A u \in Users : link[u] = "up" => downlink'[u] # <<>>
      <4> SUFFICES ASSUME NEW u \in Users, link[u] = "up" PROVE downlink'[u] # <<>>
        OBVIOUS
      <4>1. Len(downlink[u]) \in Nat
        BY Lengths
      <4>3. Len(downlink'[u]) = Len(downlink[u]) + 1
        BY <2>2
      <4>2. Len(downlink'[u]) # 0
        BY ONLY <4>1, <4>3
      <4> QED
        BY <2>2, <4>2, EmptySeq
    <3> QED
      BY <2>2, <3>1 DEF FeedbackArrives, WillShow
  <2> QED
    BY <1>2, <2>2, <2>3, <2>4, <2>5 DEF ScreenInv
<1> QED
  BY <1>1, <1>2 DEF SendConnectedFeedback

\* An answer to a post.
LEMMA EventAnsweredStep == ASSUME IInv, NEW c \in BagToSet(calls), EventAnswered(c) PROVE IInv'
<1> USE InvParts DEF EventAnswered, serviceVars, historyVars
<1>1. status = "connected"
  BY DEF AnswersAreTrue
<1>2. downlink' \in [Users -> Seq(Texts)] /\ feedbackSent' \in BOOLEAN /\ ScreenInv'
  BY <1>1, FeedbackScreens
<1>0. IsABag(calls') /\ BagToSet(calls') \subseteq BagToSet(calls)
  BY OneLess DEF TypeOK
<1> HIDE DEF EventAnswered
<1>6. /\ UNCHANGED <<now, part, status, confirmed, gesture, ready, syncs, queries, link, card,
                     mode, faults, shaken, together, stranded>>
  BY DEF EventAnswered
<1>3. TypeOK'
  BY <1>0, <1>2, <1>6 DEF TypeOK, Syncs
<1>4. AnswersAreTrue'
  BY <1>0, <1>6, AnswersUntouched
<1>5. ServiceInv'
  BY <1>0, <1>6, ServiceUntouched
<1> QED
  BY InvPartsNext, <1>2, <1>3, <1>4, <1>5

\* An answer to a session query; "KIN READY" takes nothing away that the flag promises.
LEMMA SessionAnsweredStep == ASSUME IInv, NEW q \in syncs, SessionAnswered(q) PROVE IInv'
<1> USE InvParts DEF SessionAnswered, serviceVars, historyVars
<1>0. /\ calls' = calls /\ syncs' \subseteq syncs
      /\ UNCHANGED <<now, part, serviceVars, ready, queries, link, card, mode, faults, historyVars>>
  OBVIOUS
<1>1. downlink' \in [Users -> Seq(Texts)] /\ feedbackSent' \in BOOLEAN /\ ScreenInv'
  <2>1. CASE q.is = "connected"
    <3>1. status = "connected"
      BY <2>1 DEF AnswersAreTrue
    <3> QED
      BY <2>1, <3>1, FeedbackScreens
  <2>2. CASE q.is # "connected"
    <3>1. feedbackSent' = FALSE
      BY <2>2
    <3>2. CASE UNCHANGED downlink
      <4>1. downlink' \in [Users -> Seq(Texts)]
        BY <3>2 DEF TypeOK
      <4>2. ShownIsSaved'
        BY <3>2 DEF ScreenInv, ShownIsSaved
      <4> QED
        BY <3>1, <4>1, <4>2 DEF ScreenInv, FeedbackOnLink, FeedbackArrives
    <3>3. CASE Write("KIN READY")
      <4>1. "KIN READY" \in Texts /\ "KIN READY" # "KIN CONNECTED"
        BY DEF Texts
      <4>2. /\ downlink' \in [Users -> Seq(Texts)]
            /\ \A u \in Users : link[u] # "up" => downlink'[u] = downlink[u]
            /\ \A u \in Users : link[u] = "up" =>
                 /\ Len(downlink'[u]) = Len(downlink[u]) + 1
                 /\ downlink'[u][Len(downlink'[u])] = "KIN READY"
                 /\ \A i \in 1..Len(downlink[u]) : downlink'[u][i] = downlink[u][i]
        BY <3>3, <4>1, WriteAppends
      <4>3. ASSUME NEW u \in Users, NEW i \in 1..Len(downlink'[u]), downlink'[u][i] = "KIN CONNECTED"
            PROVE  i \in 1..Len(downlink[u]) /\ downlink[u][i] = "KIN CONNECTED"
        <5>1. Len(downlink[u]) \in Nat
          BY Lengths
        <5>2. CASE link[u] = "up"
          <6>1. /\ Len(downlink'[u]) = Len(downlink[u]) + 1
                /\ downlink'[u][Len(downlink'[u])] = "KIN READY"
                /\ \A j \in 1..Len(downlink[u]) : downlink'[u][j] = downlink[u][j]
            BY ONLY <4>2, <5>2, u \in Users
          <6>2. i \in 1..Len(downlink'[u]) /\ downlink'[u][i] = "KIN CONNECTED"
            BY <4>3
          <6>3. i # Len(downlink'[u])
            BY ONLY <4>1, <6>1, <6>2
          <6>4. i \in 1..Len(downlink[u])
            <7>1. Len(downlink'[u]) = Len(downlink[u]) + 1
              BY ONLY <6>1
            <7>2. i \in 1..Len(downlink'[u])
              BY ONLY <6>2
            <7> QED
              BY ONLY <5>1, <6>3, <7>1, <7>2
          <6> QED
            BY ONLY <6>1, <6>2, <6>4
        <5>3. CASE link[u] # "up"
          BY <4>2, <4>3, <5>3
        <5> QED
          BY <5>2, <5>3
      <4>4. ShownIsSaved'
        BY <4>3 DEF ScreenInv, ShownIsSaved
      <4> QED
        BY <3>1, <4>2, <4>4 DEF ScreenInv, FeedbackOnLink, FeedbackArrives
    <3> QED
      BY <2>2, <3>2, <3>3
  <2> QED
    BY <2>1, <2>2
<1> HIDE DEF SessionAnswered
<1>2. TypeOK'
  BY <1>0, <1>1 DEF TypeOK, Syncs
<1>3. AnswersAreTrue'
  BY <1>0, AnswersUntouched
<1>4. ServiceInv'
  BY <1>0, ServiceUntouched
<1> QED
  BY InvPartsNext, <1>1, <1>2, <1>3, <1>4

\* A call that fails.
LEMMA FailsStep ==
  ASSUME IInv, (\E c \in BagToSet(calls) : EventFails(c)) \/ (\E q \in syncs : SessionFails(q))
  PROVE  IInv'
<1> USE InvParts DEF EventFails, SessionFails, serviceVars, cardVars, historyVars
<1>0. IsABag(calls') /\ BagToSet(calls') \subseteq BagToSet(calls)
  <2>1. CASE \E c \in BagToSet(calls) : EventFails(c)
    <3>1. PICK c : calls' = calls (-) SetToBag({c})
      BY <2>1
    <3>2. IsABag(calls)
      BY DEF TypeOK
    <3> QED
      BY ONLY <3>1, <3>2, OneLess
  <2>2. CASE \E q \in syncs : SessionFails(q)
    <3>1. calls' = calls
      BY <2>2
    <3>2. IsABag(calls)
      BY DEF TypeOK
    <3> QED
      BY ONLY <3>1, <3>2
  <2> QED
    BY <2>1, <2>2
<1>1. /\ syncs' \subseteq syncs /\ stranded' \subseteq stranded \cup Users
      /\ Fault
      /\ UNCHANGED <<now, part, serviceVars, ready, feedbackSent, queries, cardVars, shaken, together>>
  OBVIOUS
<1>2. TypeOK'
  BY <1>0, <1>1, FaultType DEF TypeOK, Syncs
<1>3. AnswersAreTrue'
  BY <1>0, <1>1, AnswersUntouched
<1>4. ServiceInv'
  BY <1>0, <1>1, ServiceUntouched
<1>5. ScreenInv'
  BY <1>1, ScreensUntouched
<1> QED
  BY InvPartsNext, <1>2, <1>3, <1>4, <1>5

-----------------------------------------------------------------------------
\* The service.

\* Who is connected stays connected.
LEMMA StatusStays ==
  ASSUME FinalizeHandshake
  PROVE  /\ status = "connected" => status' = "connected"
         /\ status' \in {"pending", "connected"}
BY DEF FinalizeHandshake

\* A session query reads the status.
LEMMA SessionStateStep == ASSUME IInv, NEW q \in syncs, SessionState(q) PROVE IInv'
<1> USE InvParts DEF SessionState, serviceVars, cardVars, historyVars
<1> DEFINE answer == [q EXCEPT !.is = IF status = "connected" THEN "connected" ELSE "other"]
<1>1. answer \in Syncs /\ answer.is = (IF status = "connected" THEN "connected" ELSE "other")
  BY DEF TypeOK, Syncs
<1>2. syncs' \subseteq syncs \cup {answer}
  OBVIOUS
<1> HIDE DEF answer
<1>3. TypeOK'
  BY <1>1, <1>2 DEF TypeOK, Syncs
<1>4. AnswersAreTrue'
  <2>1. \A r \in syncs' : r \in syncs \/ r = answer
    BY <1>2
  <2>2. \A r \in syncs' : r.is = "connected" => status' = "connected"
    BY <1>1, <2>1 DEF AnswersAreTrue
  <2> QED
    BY <2>2 DEF AnswersAreTrue
<1>5. ServiceInv'
  BY ServiceUntouched
<1>6. ScreenInv'
  BY ScreensUntouched
<1> QED
  BY InvPartsNext, <1>3, <1>4, <1>5, <1>6

\* A confirmation, or a gesture: all that finalize_handshake looks for is there with
\* whichever comes last, and what it finds was made.
LEMMA RecordedIsEarned ==
  ASSUME TypeOK, ServiceInv, NEW c \in BagToSet(calls), c.is = "sent",
         IF c.event = "button" THEN ConfirmHandshake(c.user) ELSE RecordGesture(c.user, c.at),
         BagToSet(calls') \subseteq BagToSet(calls) \cup {Connected(c)},
         UNCHANGED <<now, part, shaken, together>>
  PROVE  /\ ServiceInv'
         /\ FinalizeHandshake
         /\ confirmed' \subseteq Users /\ gesture' \in [Users -> Times]
<1>1. /\ c.user \in Users /\ c.event \in {"button", "gesture"} /\ c.at \in 0..MaxTime
      /\ Connected(c).is = "connected"
  BY DEF TypeOK, Calls, Connected
<1>2. FinalizeHandshake /\ confirmed' \in {confirmed, confirmed \cup {c.user}}
  BY DEF ConfirmHandshake, RecordGesture
<1>3. gesture \in [Users -> Times] /\ confirmed \subseteq Users /\ gesture' \in [Users -> Times]
  BY <1>1 DEF TypeOK, ConfirmHandshake, RecordGesture, Times, Peer
<1>4. \A u \in Users : gesture'[u] \in Known(u) \cup {Never}
  <2>1. CASE c.event = "button"
    BY <2>1 DEF ConfirmHandshake, Known
  <2>2. CASE c.event # "button"
    <3>1. c.at \in Known(c.user)
      BY <1>1, <2>2 DEF Known
    <3>2. /\ gesture'[c.user] = c.at
          /\ \A u \in Users \ {c.user} : gesture'[u] \in {gesture[u], Never}
      BY <1>1, <1>3, <2>2 DEF RecordGesture, Peer
    <3> QED
      BY <3>1, <3>2 DEF Known
  <2> QED
    BY <2>1, <2>2
<1>5. RecordedNear'
  <2>1. CASE c.event = "button"
    BY <2>1 DEF ConfirmHandshake, ServiceInv, RecordedNear
  <2>2. CASE c.event # "button"
    BY <1>1, <1>3, <2>2 DEF RecordGesture, RecordedNear, Near, Peer, Never
  <2> QED
    BY <2>1, <2>2
<1>6. \A u \in Users : Known(u)' \subseteq Known(u) \cup {Never}
  BY <1>1, <1>4 DEF Known
<1>7. GesturesAreReal'
  <2>1. \A u \in Users : shaken[u].second \in Int /\ Never <= shaken[u].second
    BY DEF TypeOK, Moments, Times, Never
  <2> QED
    BY <1>6, <2>1 DEF ServiceInv, GesturesAreReal
<1>8. Settled'
  BY <1>2, <1>5 DEF FinalizeHandshake, AllFacts, Settled, RecordedNear
<1>9. Earned'
  <2>1. CASE status = "connected"
    BY <1>1, <1>2, <2>1 DEF ServiceInv, Earned
  <2>2. CASE status # "connected"
    <3> SUFFICES ASSUME status' = "connected" PROVE together' /\ confirmed' = Users
      BY DEF Earned
    <3>1. AllFacts
      BY <1>2, <2>2 DEF FinalizeHandshake
    <3>2. gesture'[A] \in Known(A)' /\ gesture'[B] \in Known(B)'
      BY DEF Known
    <3>3. together'
      BY <1>7, <3>1, <3>2 DEF AllFacts, GesturesAreReal
    <3> QED
      BY <3>1, <3>3 DEF AllFacts
  <2> QED
    BY <2>1, <2>2
<1> QED
  BY <1>1, <1>2, <1>3, <1>5, <1>7, <1>8, <1>9 DEF ServiceInv

\* A post on its way back is a post.
LEMMA AnswerType == ASSUME NEW c \in Calls PROVE Connected(c) \in Calls
BY TimeAssumption DEF Calls, Connected

\* The service handles a post.
LEMMA HandleEventStep == ASSUME IInv, NEW c \in BagToSet(calls), HandleEvent(c) PROVE IInv'
<1> USE InvParts DEF HandleEvent, cardVars
<1>0. IsABag(calls) /\ BagToSet(calls) \subseteq Calls
  BY DEF TypeOK
<1>1. /\ IsABag(calls') /\ BagToSet(calls') \subseteq BagToSet(calls) \cup {Connected(c)}
      /\ UNCHANGED <<now, part, shaken, together>>
  <2> DEFINE rest == calls (-) SetToBag({c})
  <2>1. IsABag(rest) /\ BagToSet(rest) \subseteq BagToSet(calls)
    BY <1>0, OneLess
  <2>2. calls' \in {rest, rest (+) SetToBag({Connected(c)})}
    OBVIOUS
  <2> HIDE DEF rest
  <2>3. IsABag(calls') /\ BagToSet(calls') \subseteq BagToSet(calls) \cup {Connected(c)}
    BY <2>1, <2>2, OneMore
  <2> QED
    BY <2>3 DEF historyVars
<1>2. Connected(c) \in BagToSet(calls') =>
        Connected(c) \in BagToSet(calls) \/ status' = "connected"
  <2>1. CASE status' = "connected"
    BY <2>1
  <2>2. CASE status' # "connected"
    <3>1. calls' = calls (-) SetToBag({c})
      BY <2>2
    <3> QED
      BY ONLY <1>0, <3>1, OneLess
  <2> QED
    BY <2>1, <2>2
<1>3. Connected(c) \in Calls /\ Connected(c).is = "connected"
  BY <1>0, AnswerType DEF Connected
<1>4. /\ ServiceInv' /\ FinalizeHandshake
      /\ confirmed' \subseteq Users /\ gesture' \in [Users -> Times]
  BY <1>1, RecordedIsEarned
<1>5. /\ status = "connected" => status' = "connected"
      /\ status' \in {"pending", "connected"}
  BY <1>4, StatusStays
<1>6. UNCHANGED <<ready, feedbackSent, syncs, queries, link, downlink, card, mode, faults, stranded>>
  BY DEF historyVars
<1> HIDE DEF HandleEvent
<1>7. TypeOK'
  <2>1. IsABag(calls') /\ BagToSet(calls') \subseteq Calls
    BY <1>0, <1>1, <1>3
  <2> QED
    BY <1>1, <1>4, <1>5, <1>6, <2>1 DEF TypeOK, Syncs
<1>8. AnswersAreTrue'
  <2>1. \A d \in BagToSet(calls') : d \in BagToSet(calls) \/ d = Connected(c)
    BY <1>1
  <2> QED
    BY <1>2, <1>5, <1>6, <2>1 DEF AnswersAreTrue
<1>9. ScreenInv'
  BY <1>5, <1>6, ScreensUntouched
<1> QED
  BY InvPartsNext, <1>4, <1>7, <1>8, <1>9

-----------------------------------------------------------------------------
\* Every step keeps the invariant.
LEMMA NextIInv == IInv /\ [Next]_vars => IInv'
<1> SUFFICES ASSUME IInv, [Next]_vars PROVE IInv'
  OBVIOUS
<1>1. CASE Tick
  BY <1>1, TickStep
<1>2. ASSUME NEW u \in Users,
             \/ Press(u) \/ Shake(u) \/ TimeOut(u) \/ Show(u)
             \/ EnterLink(u) \/ LeaveLink(u)
             \/ Drop(u) \/ Restart(u) \/ Subscribe(u) \/ Disconnected(u)
      PROVE  IInv'
  BY <1>2, PressStep, ShakeStep, CardStep, ShowStep, DropStep, SubscribeStep, DisconnectedStep
<1>3. CASE \E c \in BagToSet(calls) : HandleEvent(c) \/ EventAnswered(c) \/ EventFails(c)
  BY <1>3, HandleEventStep, EventAnsweredStep, FailsStep
<1>4. CASE \E q \in syncs : SessionState(q) \/ SessionAnswered(q) \/ SessionFails(q)
  BY <1>4, SessionStateStep, SessionAnsweredStep, FailsStep
<1>5. CASE UNCHANGED vars
  <2> USE <1>5, InvParts DEF vars, serviceVars, relayVars, cardVars, historyVars
  <2>1. TypeOK'
    BY DEF TypeOK, Syncs
  <2>2. AnswersAreTrue' /\ ServiceInv' /\ ScreenInv'
    BY AnswersUntouched, ServiceUntouched, ScreensUntouched
  <2> QED
    BY InvPartsNext, <2>1, <2>2
<1> QED
  BY <1>1, <1>2, <1>3, <1>4, <1>5 DEF Next

\* The invariant of Handshake.
THEOREM Invariance == Spec => []IInv
<1>1. Init => IInv
  BY InitIInv
<1>2. IInv /\ [Next]_vars => IInv'
  BY NextIInv
<1> QED
  BY <1>1, <1>2, PTL DEF Spec

\* Type correctness: a card that is down is not among the ready ones.
THEOREM TypeCorrect == Spec => []TypeOK
<1>1. IInv => TypeOK
  BY DEF IInv
<1> QED
  BY <1>1, Invariance, PTL

\* No one is connected who has not met: both confirmed, two gestures within the window.
THEOREM ConnectedHaveMet == Spec => []Earned
<1>1. IInv => Earned
  BY DEF IInv
<1> QED
  BY <1>1, Invariance, PTL

\* The service never sits on a handshake that has all it takes.
THEOREM CompleteIsConnected == Spec => []Settled
<1>1. IInv => Settled
  BY DEF IInv
<1> QED
  BY <1>1, Invariance, PTL

\* A card never shows a connection the service has not made.
THEOREM ScreensTellTheTruth == Spec => []ShownIsSaved
<1>1. IInv => ShownIsSaved
  BY DEF IInv
<1> QED
  BY <1>1, Invariance, PTL

\* One write of the outcome is enough for every card that stays linked.
THEOREM OneFeedbackIsEnough == Spec => []FeedbackArrives
<1>1. IInv => FeedbackArrives
  BY DEF IInv
<1> QED
  BY <1>1, Invariance, PTL
-----------------------------------------------------------------------------
\* No card waits for a text that nobody writes.

\* A card that has shown all it was sent and is not forgotten.
Kept(u) ==
  link[u] = "up" /\ downlink[u] = <<>> =>
    card[u].connected \/ card[u].armed \/ u \in stranded

\* Steps that keep every card, and neither bring up a link nor end a session query.
LEMMA KeptStep ==
  ASSUME ArmedOrStranded, \A u \in Users : Kept(u) => Kept(u)',
         ready' = Users => ready = Users, syncs' = {} => syncs = {}
  PROVE  ArmedOrStranded'
BY DEF ArmedOrStranded, Kept

\* The steps of a card's user, and those that nobody but the service and the clock see.
LEMMA KeptByCards ==
  ASSUME TypeOK, ArmedOrStranded, NEW u \in Users,
         Press(u) \/ Shake(u) \/ TimeOut(u) \/ EnterLink(u) \/ LeaveLink(u)
  PROVE  ArmedOrStranded'
<1>1. UNCHANGED <<ready, syncs, link, downlink>> /\ stranded \subseteq stranded'
  BY DEF Press, Shake, TimeOut, EnterLink, LeaveLink, relayVars, historyVars
<1>2. ASSUME NEW v \in Users
      PROVE  \/ card'[v].connected = card[v].connected /\ card'[v].armed = card[v].armed
             \/ card[v].connected /\ card'[v].connected
             \/ v \in stranded'
  <2>1. CASE LeaveLink(u)
    BY <2>1 DEF LeaveLink, TypeOK, Cards, Boot
  <2>2. CASE EnterLink(u)
    BY <2>2 DEF EnterLink
  <2>3. CASE Press(u) \/ Shake(u) \/ TimeOut(u)
    BY <2>3 DEF Press, Shake, TimeOut, TypeOK, Cards
  <2> QED
    BY <2>1, <2>2, <2>3
<1>3. \A v \in Users : Kept(v) => Kept(v)'
  BY <1>1, <1>2 DEF Kept
<1> QED
  BY <1>1, <1>3, KeptStep

\* "KIN READY" arms the card, or strands it for a reason.
LEMMA KeptByShow ==
  ASSUME TypeOK, ArmedOrStranded, NEW u \in Users, Show(u)
  PROVE  ArmedOrStranded'
<1>1. UNCHANGED <<ready, syncs, link>>
  BY DEF Show, relayVars
<1>2. Kept(u)'
  <2>1. CASE Head(downlink[u]) = "KIN CONNECTED"
    BY <2>1 DEF Show, Kept, TypeOK, Boot
  <2>2. CASE Head(downlink[u]) # "KIN CONNECTED"
    BY <2>2 DEF Show, Kept, TypeOK, Boot
  <2> QED
    BY <2>1, <2>2
<1>3. ASSUME NEW v \in Users, v # u PROVE Kept(v) => Kept(v)'
  <2>1. downlink'[v] = downlink[v]
    BY <1>3 DEF Show, TypeOK
  <2>2. card'[v] = card[v]
    <3>1. \E c : card' = [card EXCEPT ![u] = c]
      BY DEF Show
    <3> QED
      BY <1>3, <3>1 DEF TypeOK
  <2>3. stranded' \in {stranded \ {u}, stranded \cup {u}}
    BY DEF Show
  <2> QED
    BY <1>1, <1>3, <2>1, <2>2, <2>3 DEF Kept
<1> QED
  BY <1>1, <1>2, <1>3, KeptStep

\* A link that drops is none, and one that comes up brings a query when both are ready.
LEMMA KeptByLinks ==
  ASSUME TypeOK, ArmedOrStranded, NEW u \in Users,
         Drop(u) \/ Restart(u) \/ Subscribe(u) \/ Disconnected(u)
  PROVE  ArmedOrStranded'
<1>1. CASE Drop(u) \/ Restart(u)
  <2>1. UNCHANGED <<ready, syncs, stranded>>
    BY <1>1 DEF Drop, Restart, relayVars, historyVars
  <2>2. link'[u] # "up"
    BY <1>1 DEF Drop, Restart, TypeOK
  <2>3. \A v \in Users \ {u} :
          link'[v] = link[v] /\ downlink'[v] = downlink[v] /\ card'[v] = card[v]
    BY <1>1 DEF Drop, Restart, TypeOK
  <2>4. \A v \in Users : Kept(v) => Kept(v)'
    BY <2>1, <2>2, <2>3 DEF Kept
  <2> QED
    BY <2>1, <2>4, KeptStep
<1>2. CASE Subscribe(u)
  BY <1>2 DEF Subscribe, ArmedOrStranded
<1>3. CASE Disconnected(u)
  BY <1>3 DEF Disconnected, ArmedOrStranded
<1> QED
  BY <1>1, <1>2, <1>3

\* What is written has not arrived.
LEMMA WrittenIsUnderWay ==
  ASSUME TypeOK, NEW text \in Texts, Write(text), UNCHANGED link, NEW u \in Users
  PROVE  link'[u] = "up" => downlink'[u] # <<>>
<1>1. link[u] = "up" => Len(downlink'[u]) = Len(downlink[u]) + 1
  BY WriteAppends
<1>2. Len(downlink[u]) \in Nat
  BY Lengths
<1>3. link[u] = "up" => Len(downlink'[u]) # 0
  BY <1>1, <1>2
<1>4. downlink' \in [Users -> Seq(Texts)]
  BY WriteAppends
<1> QED
  BY <1>3, <1>4, EmptySeq

\* The outcome is written to all, or was: then it is shown by whoever has shown all.
LEMMA KeptByFeedback ==
  ASSUME TypeOK, FeedbackArrives, SendConnectedFeedback, UNCHANGED <<link, card, stranded>>,
         ready = Users, NEW u \in Users
  PROVE  Kept(u)'
<1>1. CASE feedbackSent
  BY <1>1 DEF SendConnectedFeedback, FeedbackArrives, WillShow, Kept
<1>2. CASE ~feedbackSent
  <2>1. Write("KIN CONNECTED") /\ "KIN CONNECTED" \in Texts
    BY <1>2 DEF SendConnectedFeedback, Texts
  <2> QED
    BY <2>1, WrittenIsUnderWay DEF Kept
<1> QED
  BY <1>1, <1>2

LEMMA KeptByEventAnswer ==
  ASSUME IInv, ArmedOrStranded, NEW c \in BagToSet(calls), EventAnswered(c)
  PROVE  ArmedOrStranded'
<1>1. UNCHANGED <<ready, syncs, link, card, stranded>> /\ SendConnectedFeedback
  BY DEF EventAnswered, historyVars
<1>2. ready = Users => \A u \in Users : Kept(u)'
  BY <1>1, KeptByFeedback DEF IInv
<1> QED
  BY <1>1, <1>2 DEF ArmedOrStranded, Kept

\* The last query decides: its answer is written to all, shown before, or lost.
LEMMA KeptBySession ==
  ASSUME IInv, ArmedOrStranded, NEW q \in syncs,
         SessionState(q) \/ SessionAnswered(q) \/ SessionFails(q)
  PROVE  ArmedOrStranded'
<1>1. CASE SessionState(q)
  <2>1. syncs' # {}
    BY <1>1 DEF SessionState
  <2> QED
    BY <2>1 DEF ArmedOrStranded
<1>2. CASE SessionAnswered(q)
  <2>1. UNCHANGED <<ready, link, card, stranded>>
    BY <1>2 DEF SessionAnswered, historyVars
  <2>2. ASSUME ready = Users, NEW u \in Users PROVE Kept(u)'
    <3>1. CASE q.is = "connected"
      BY <1>2, <2>1, <2>2, <3>1, KeptByFeedback DEF SessionAnswered, IInv
    <3>2. CASE q.is # "connected"
      <4>1. Write("KIN READY") /\ "KIN READY" \in Texts
        BY <1>2, <2>2, <3>2 DEF SessionAnswered, Texts
      <4> QED
        BY <2>1, <4>1, WrittenIsUnderWay DEF Kept, IInv
    <3> QED
      BY <3>1, <3>2
  <2> QED
    BY <2>1, <2>2 DEF ArmedOrStranded, Kept
<1>3. CASE SessionFails(q)
  BY <1>3 DEF SessionFails, ArmedOrStranded
<1> QED
  BY <1>1, <1>2, <1>3

\* Every step keeps every card.
LEMMA NextKept == IInv /\ ArmedOrStranded /\ [Next]_vars => ArmedOrStranded'
<1> SUFFICES ASSUME IInv, ArmedOrStranded, [Next]_vars PROVE ArmedOrStranded'
  OBVIOUS
<1>1. TypeOK
  BY DEF IInv
<1>2. ASSUME NEW u \in Users,
             \/ Press(u) \/ Shake(u) \/ TimeOut(u) \/ Show(u)
             \/ EnterLink(u) \/ LeaveLink(u)
             \/ Drop(u) \/ Restart(u) \/ Subscribe(u) \/ Disconnected(u)
      PROVE  ArmedOrStranded'
  BY <1>1, <1>2, KeptByCards, KeptByShow, KeptByLinks
<1>3. ASSUME NEW c \in BagToSet(calls), EventAnswered(c) PROVE ArmedOrStranded'
  BY <1>3, KeptByEventAnswer
<1>4. ASSUME NEW q \in syncs, SessionState(q) \/ SessionAnswered(q) \/ SessionFails(q)
      PROVE  ArmedOrStranded'
  BY <1>4, KeptBySession
<1>5. CASE Tick \/ (\E c \in BagToSet(calls) : HandleEvent(c) \/ EventFails(c)) \/ UNCHANGED vars
  <2>1. UNCHANGED <<ready, syncs, link, downlink, card, stranded>>
    BY <1>5 DEF Tick, HandleEvent, EventFails, vars, relayVars, cardVars, historyVars
  <2> QED
    BY <2>1 DEF ArmedOrStranded
<1> QED
  BY <1>2, <1>3, <1>4, <1>5 DEF Next

\* However links drop and answers come late, a card that has shown all it was sent is
\* connected, armed, or stranded for one of the reasons the code knows.
THEOREM NoCardIsForgotten == Spec => []ArmedOrStranded
<1>1. Init => ArmedOrStranded
  BY DEF Init, ArmedOrStranded
<1> QED
  BY <1>1, NextKept, Invariance, PTL DEF Spec
=============================================================================
