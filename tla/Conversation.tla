----------------------------- MODULE Conversation -----------------------------
(***************************************************************************)
(* One conversation about a published item: SendPM (a new conversation or  *)
(* a reply), the ice-break window and CloseConv of rpc/pm/handler.go, with *)
(* rpc/pm/icebreak and rpc/pm/validator.  The conversation and its         *)
(* messages are rows in PostgreSQL; the ice-break lock, the broken flag    *)
(* and the cached conversation info are keys in Redis; the loads of the    *)
(* cached info go through a singleflight group of the process.             *)
(*                                                                         *)
(* What a sender is told and how the receiver fetches messages are left    *)
(* out.  The cached map from participants to conv_id is left out too: it   *)
(* is written after the commit and conversations are never deleted, so a   *)
(* hit says what the database would.                                       *)
(***************************************************************************)
EXTENDS Naturals, FiniteSets

CONSTANTS
  Initiator, Owner,    \* the agent who writes first, and the author of the item
  Workers,             \* concurrent calls of the service
  MaxInitiatorMsgs,    \* messages before a reply (icebreak.go: 3)
  MaxMessages,         \* bound on messages, those under way included
  MayBeFriends,        \* TRUE: the relation cache may answer that they are friends
  Faults               \* which of AllFaults can happen

AllFaults == {"txFails", "crash", "iceExpires"}

ASSUME AgentsAssumption == Initiator # Owner
ASSUME WorkersAssumption == IsFiniteSet(Workers)
ASSUME WindowAssumption == MaxInitiatorMsgs \in Nat \ {0}
ASSUME BoundAssumption == MaxMessages \in Nat
ASSUME FriendsAssumption == MayBeFriends \in BOOLEAN
ASSUME FaultsAssumption == Faults \subseteq AllFaults

VARIABLES
  conv,     \* conversations.status: "none" (no row), "open" (0) or "closed" (2)
  sent,     \* agent -> its rows in private_messages
  lock,     \* pm:lock:<conv>: the sender who waits for a reply, and its count
  broken,   \* the conversation's field of the hash pm:ice:h
  info,     \* pm:conv:<conv>: the cached status, or "none"
  flight,   \* the load in the singleflight group: the status it read, or "none"
  call,     \* worker -> the request it serves
  seen,     \* worker -> the status the validator gave it
  ice,      \* worker -> iceStatus of handleReply
  pc,       \* worker -> its next step
  uncounted,  \* history: the window was undone by a rollback or an expiry, or skipped
              \* by friends
  missed,     \* history: the script never counted the first message: its call died
              \* before, or came when later messages had used the window up
  unsaid      \* history: a message of the owner that passed the check was never written,
              \* for a crash, or for a rollback that left the broken flag standing

rowVars == <<conv, sent>>
iceVars == <<lock, broken>>
infoVars == <<info, flight>>
workerVars == <<call, seen, ice, pc>>
historyVars == <<uncounted, missed, unsaid>>
vars == <<rowVars, iceVars, infoVars, workerVars, historyVars>>

Agents == {Initiator, Owner}
NoLock == [sender |-> "nobody", count |-> 0]
NoCall == [op |-> "none"]

\* IceStatusBroken, IceStatusJustBroken, IceStatusFirstMsg, IceStatusLimitReached
IceStatus == {"broken", "justBroken", "firstMsg", "limit"}

PCs == {"idle", "lookup", "create", "iceNew", "route", "routeWait", "info", "infoWait",
        "judge", "ice", "insert", "rollback", "update", "uncache"}

Init ==
  /\ conv = "none"
  /\ sent = [x \in Agents |-> 0]
  /\ lock = NoLock
  /\ broken = FALSE
  /\ info = "none"
  /\ flight = "none"
  /\ call = [w \in Workers |-> NoCall]
  /\ seen = [w \in Workers |-> "none"]
  /\ ice = [w \in Workers |-> "broken"]
  /\ pc = [w \in Workers |-> "idle"]
  /\ uncounted = FALSE
  /\ missed = FALSE
  /\ unsaid = FALSE

Sending == {w \in Workers : call[w].op \in {"new", "reply"}}

Messages == sent[Initiator] + sent[Owner]

\* A client can name a conv_id only once the conversation exists.
Arrive(w) ==
  /\ pc[w] = "idle"
  /\ \E op \in {"new", "reply", "close"}, x \in Agents :
       /\ op = "new" => x = Initiator
       /\ op # "new" => conv # "none"
       /\ op # "close" => Messages + Cardinality(Sending) < MaxMessages
       /\ call' = [call EXCEPT ![w] = [op |-> op, by |-> x]]
       /\ pc' = [pc EXCEPT ![w] =
            IF op = "new" THEN "lookup" ELSE IF op = "reply" THEN "route" ELSE "info"]
  /\ UNCHANGED <<rowVars, iceVars, infoVars, seen, ice, historyVars>>

Goto(w, l) == pc' = [pc EXCEPT ![w] = l] /\ UNCHANGED <<call, seen, ice>>

Return(w) ==
  /\ pc' = [pc EXCEPT ![w] = "idle"]
  /\ call' = [call EXCEPT ![w] = NoCall]
  /\ seen' = [seen EXCEPT ![w] = "none"]
  /\ ice' = [ice EXCEPT ![w] = "broken"]

-----------------------------------------------------------------------------
\* handleNewConversation.

\* The item's owner, a block or no_reply may end the call; a conversation that
\* exists makes it a reply.
Lookup(w) ==
  /\ pc[w] = "lookup"
  /\ \/ Return(w)
     \/ Goto(w, IF conv = "none" THEN "create" ELSE "info")
  /\ UNCHANGED <<rowVars, iceVars, infoVars, historyVars>>

\* Conversation and first message in one transaction.  Of two that create the
\* conversation at once, UNIQUE(participant_a, participant_b, origin_id) lets one in.
Create(w) ==
  /\ pc[w] = "create"
  /\ \/ /\ conv = "none"
        /\ conv' = "open"
        /\ sent' = [sent EXCEPT ![call[w].by] = @ + 1]
        /\ Goto(w, "iceNew")
     \/ /\ conv # "none" \/ "txFails" \in Faults
        /\ Return(w)
        /\ UNCHANGED rowVars
  /\ UNCHANGED <<iceVars, infoVars, historyVars>>

-----------------------------------------------------------------------------
\* The validator's cached conversation info.

\* A hit is taken as it is; a miss starts a load, or joins the one under way.
\* The load's query runs when it starts.
GetInfo(w) ==
  /\ pc[w] \in {"route", "info"}
  /\ IF info # "none"
     THEN /\ pc' = [pc EXCEPT ![w] = IF pc[w] = "route" THEN "info" ELSE "judge"]
          /\ seen' = [seen EXCEPT ![w] = IF pc[w] = "route" THEN @ ELSE info]
          /\ UNCHANGED flight
     ELSE /\ pc' = [pc EXCEPT ![w] = IF pc[w] = "route" THEN "routeWait" ELSE "infoWait"]
          /\ flight' = IF flight = "none" THEN conv ELSE flight
          /\ UNCHANGED seen
  /\ UNCHANGED <<rowVars, iceVars, info, call, ice, historyVars>>

\* The load writes the cache; it and all who joined it go on with what it read.
FillInfo ==
  /\ flight # "none"
  /\ info' = flight
  /\ flight' = "none"
  /\ pc' = [w \in Workers |->
       IF pc[w] = "routeWait" THEN "info" ELSE IF pc[w] = "infoWait" THEN "judge" ELSE pc[w]]
  /\ seen' = [w \in Workers |-> IF pc[w] = "infoWait" THEN flight ELSE seen[w]]
  /\ UNCHANGED <<rowVars, iceVars, call, ice, historyVars>>

\* Mutant: the cached info has no TTL.
InfoStays == FALSE /\ UNCHANGED vars

\* 300 seconds later.
ExpireInfo ==
  /\ info # "none"
  /\ info' = "none"
  /\ UNCHANGED <<rowVars, iceVars, flight, workerVars, historyVars>>

-----------------------------------------------------------------------------
\* handleReply and CloseConv.

\* checkMembership; then a blocked sender is told success.
Judge(w) ==
  /\ pc[w] = "judge"
  /\ \/ seen[w] = "closed" /\ Return(w)
     \/ seen[w] = "open" /\ call[w].op = "close" /\ Goto(w, "update")
     \/ /\ seen[w] = "open" /\ call[w].op # "close"
        /\ \/ Return(w)
           \/ Goto(w, "ice")
  /\ UNCHANGED <<rowVars, iceVars, infoVars, historyVars>>

\* Friends skip the ice-break check.
JudgeFriend(w) ==
  /\ MayBeFriends
  /\ pc[w] = "judge" /\ seen[w] = "open" /\ call[w].op # "close"
  /\ Goto(w, "insert")
  /\ uncounted' = TRUE
  /\ UNCHANGED <<rowVars, iceVars, infoVars, missed, unsaid>>

\* Mutant: the limit counts one message too many.
ScriptStatusOffByOne(x) ==
  IF broken THEN "broken"
  ELSE IF lock = NoLock THEN "firstMsg"
  ELSE IF lock.sender # x THEN "justBroken"
  ELSE IF lock.count > MaxInitiatorMsgs THEN "limit" ELSE "firstMsg"

\* Mutant: any second message breaks the ice.
ScriptStatusAnySender(x) ==
  IF broken THEN "broken"
  ELSE IF lock = NoLock THEN "firstMsg"
  ELSE "justBroken"

\* The Lua script, for a message of x.
ScriptStatus(x) ==
  IF broken THEN "broken"
  ELSE IF lock = NoLock THEN "firstMsg"
  ELSE IF lock.sender # x THEN "justBroken"
  ELSE IF lock.count >= MaxInitiatorMsgs THEN "limit" ELSE "firstMsg"

\* Mutant: SET restarts the count at every message.
RunScriptRestart(x) ==
  /\ broken' = (broken \/ ScriptStatus(x) = "justBroken")
  /\ lock' = IF ScriptStatus(x) = "firstMsg" THEN [sender |-> x, count |-> 0]
             ELSE IF ScriptStatus(x) = "justBroken" THEN NoLock
             ELSE lock

RunScript(x) ==
  /\ broken' = (broken \/ ScriptStatus(x) = "justBroken")
  /\ lock' = IF ScriptStatus(x) = "firstMsg" THEN [sender |-> x, count |-> lock.count + 1]
             ELSE IF ScriptStatus(x) = "justBroken" THEN NoLock
             ELSE lock

\* The first message of a conversation is counted after its commit.
IceNew(w) ==
  /\ pc[w] = "iceNew"
  /\ RunScript(call[w].by)
  /\ missed' = (missed \/ ScriptStatus(call[w].by) = "limit")
  /\ Return(w)
  /\ UNCHANGED <<rowVars, infoVars, uncounted, unsaid>>

\* A reply is counted before its transaction; over the limit it is a 429.
Ice(w) ==
  /\ pc[w] = "ice"
  /\ RunScript(call[w].by)
  /\ IF ScriptStatus(call[w].by) = "limit"
     THEN Return(w)
     ELSE /\ ice' = [ice EXCEPT ![w] = ScriptStatus(call[w].by)]
          /\ pc' = [pc EXCEPT ![w] = "insert"]
          /\ UNCHANGED <<call, seen>>
  /\ UNCHANGED <<rowVars, infoVars, historyVars>>

\* The message and the conversation's counters in one transaction, which does not
\* look at the conversation's status.
Insert(w) ==
  /\ pc[w] = "insert"
  /\ \/ /\ sent' = [sent EXCEPT ![call[w].by] = @ + 1]
        /\ Return(w)
     \/ /\ "txFails" \in Faults
        /\ Goto(w, "rollback")
        /\ UNCHANGED sent
  /\ UNCHANGED <<conv, iceVars, infoVars, historyVars>>

\* RollbackIceBreak.
Rollback(w) ==
  /\ pc[w] = "rollback"
  /\ broken' = (broken /\ ice[w] # "justBroken")
  /\ lock' = IF ice[w] = "firstMsg" THEN NoLock ELSE lock
  /\ uncounted' = (uncounted \/ ice[w] # "broken")
  /\ unsaid' = (unsaid \/ (ice[w] = "firstMsg" /\ call[w].by = Owner /\ broken))
  /\ Return(w)
  /\ UNCHANGED <<rowVars, infoVars, missed>>

CloseConversation(w) ==
  /\ pc[w] = "update"
  /\ conv' = "closed"
  /\ Goto(w, "uncache")
  /\ UNCHANGED <<sent, iceVars, infoVars, historyVars>>

InvalidateConvCache(w) ==
  /\ pc[w] = "uncache"
  /\ info' = "none"
  /\ Return(w)
  /\ UNCHANGED <<rowVars, iceVars, flight, historyVars>>

-----------------------------------------------------------------------------
\* The process dies: its calls and its singleflight group are gone.
Crash ==
  /\ "crash" \in Faults
  /\ flight' = "none"
  /\ call' = [w \in Workers |-> NoCall]
  /\ seen' = [w \in Workers |-> "none"]
  /\ ice' = [w \in Workers |-> "broken"]
  /\ pc' = [w \in Workers |-> "idle"]
  /\ missed' = (missed \/ \E w \in Workers : pc[w] = "iceNew")
  /\ unsaid' = (unsaid \/ \E w \in Workers :
                   pc[w] \in {"insert", "rollback"} /\ call[w].by = Owner)
  /\ UNCHANGED <<rowVars, iceVars, info, uncounted>>

\* The lock expires after a day, the broken flag after a week.
ExpireIce ==
  /\ "iceExpires" \in Faults
  /\ \/ lock # NoLock /\ lock' = NoLock /\ UNCHANGED broken
     \/ broken /\ broken' = FALSE /\ UNCHANGED lock
  /\ uncounted' = TRUE
  /\ UNCHANGED <<rowVars, infoVars, workerVars, missed, unsaid>>

Step(w) ==
  \/ Lookup(w) \/ Create(w) \/ IceNew(w) \/ GetInfo(w) \/ Judge(w) \/ JudgeFriend(w)
  \/ Ice(w) \/ Insert(w) \/ Rollback(w) \/ CloseConversation(w) \/ InvalidateConvCache(w)

Next ==
  \/ \E w \in Workers : Arrive(w) \/ Step(w)
  \/ FillInfo \/ ExpireInfo \/ Crash \/ ExpireIce

Spec == Init /\ [][Next]_vars

\* A call goes on, a load ends, and a cached info lives 300 seconds.
FairSpec ==
  /\ Spec
  /\ \A w \in Workers : WF_vars(Step(w))
  /\ WF_vars(FillInfo) /\ WF_vars(ExpireInfo)

-----------------------------------------------------------------------------
TypeOK ==
  /\ conv \in {"none", "open", "closed"}
  /\ sent \in [Agents -> Nat]
  /\ lock \in [sender : Agents, count : 1..MaxInitiatorMsgs] \cup {NoLock}
  /\ broken \in BOOLEAN
  /\ info \in {"none", "open", "closed"}
  /\ flight \in {"none", "open", "closed"}
  /\ call \in [Workers -> [op : {"new", "reply", "close"}, by : Agents] \cup {NoCall}]
  /\ seen \in [Workers -> {"none", "open", "closed"}]
  /\ ice \in [Workers -> IceStatus]
  /\ pc \in [Workers -> PCs]
  /\ uncounted \in BOOLEAN
  /\ missed \in BOOLEAN
  /\ unsaid \in BOOLEAN

\* x has a message in the conversation, or one that has passed the ice-break check.
Speaks(x) ==
  \/ sent[x] > 0
  \/ \E w \in Workers : pc[w] \in {"insert", "rollback"} /\ call[w].by = x

\* Written, and to be counted.
ToCount(x) == {w \in Workers : pc[w] = "iceNew" /\ call[w].by = x}

\* The first message is committed, and the script has not counted it, or never will:
\* handler.go counts it after its commit, and replies may be counted in between.
FirstUncounted == missed \/ ToCount(Initiator) # {}

\* Until the owner speaks, or has passed the check to, the initiator gets the documented
\* MaxInitiatorMsgs messages through ("The next send after this is rejected with 429",
\* icebreak.go), and one more only if the first of them was not counted.  Crashes of the
\* initiator's other calls do not widen the window; a failed transaction does, whose
\* rollback forgets every message counted so far.
IceWindow ==
  ~uncounted /\ ~unsaid /\ ~Speaks(Owner) =>
    sent[Initiator] <= MaxInitiatorMsgs + (IF FirstUncounted THEN 1 ELSE 0)

\* The ice is broken only between two agents who both speak: the message that breaks
\* it is written, or its rollback takes the flag back whatever other messages have done
\* since.  Two ways remain to break it for an owner who never spoke, and `unsaid` names
\* them: the owner's call dies, or its counted message is rolled back after a message of
\* the initiator has broken the ice over it (RollbackIceBreak leaves the flag alone).
BrokenMeansBothSpeak == broken /\ ~unsaid => \A x \in Agents : Speaks(x)

\* After CloseConv no call goes on believing the conversation open for ever: a load
\* that read too early is in the cache for its TTL and no longer.
NobodyBelievesOpen == info # "open" /\ flight # "open" /\ \A w \in Workers : seen[w] # "open"

ClosedIsSeen == conv = "closed" ~> []NobodyBelievesOpen

\* The safe half of it: once the last copy of the old status is gone, none comes back.
ClosedStaysSeen ==
  [][conv = "closed" /\ NobodyBelievesOpen => conv' = "closed" /\ NobodyBelievesOpen']_vars

-----------------------------------------------------------------------------
\* The inductive invariant of the proofs.

\* Workers with a message of x that has passed the check and is not written yet.
Passed(x) == {w \in Workers : pc[w] \in {"insert", "rollback"} /\ call[w].by = x}

\* Only the initiator begins a conversation, and only what has passed the check carries
\* its verdict.
CallKnown ==
  \A w \in Workers :
    /\ pc[w] = "idle" <=> call[w] = NoCall
    /\ pc[w] \in {"lookup", "create", "iceNew"} => call[w].by = Initiator
    /\ pc[w] \notin {"insert", "rollback"} => ice[w] = "broken"

\* Before the first message there is nothing to reply to, and it is the initiator's.
BeginsWithInitiator ==
  /\ conv = "none" =>
       /\ sent[Initiator] = 0 /\ lock = NoLock /\ ~broken
       /\ info = "none" /\ flight = "none"
       /\ \A w \in Workers : pc[w] \in {"idle", "lookup", "create"}
  /\ conv # "none" => sent[Initiator] > 0

\* A message of the owner is written, or is about to be and has left its mark on lock
\* or flag, which its rollback will take back.
OwnerCounted(marks) ==
  sent[Owner] > 0 \/ \E w \in Passed(Owner) : ice[w] \in marks

MarksAreOwned ==
  ~unsaid =>
    /\ lock # NoLock /\ lock.sender = Owner => OwnerCounted({"firstMsg"})
    /\ broken => OwnerCounted({"firstMsg", "justBroken"})

\* While the owner has not been counted, it has nothing under way, and each message of
\* the initiator that has passed the check is counted, but for the first if it was missed.
WindowCounts ==
  ~uncounted /\ ~unsaid /\ ~OwnerCounted({"firstMsg", "justBroken"}) =>
    /\ Passed(Owner) = {}
    /\ sent[Initiator] + Cardinality(Passed(Initiator))
         <= lock.count + (IF FirstUncounted THEN 1 ELSE 0)

\* Counted, and to be written.
ToWrite(x) == {w \in Passed(x) : ice[w] = "firstMsg"}

\* What the lock counts has been written, or is about to be.  A crash leaves its count.
CountIsEarned ==
  "crash" \notin Faults =>
    \A x \in Agents :
      /\ Cardinality(ToCount(x)) <= sent[x]
      /\ Cardinality(ToCount(x)) + (IF lock.sender = x THEN lock.count ELSE 0)
           <= sent[x] + Cardinality(ToWrite(x))

\* Nobody is refused for the limit who has not reached it: MaxInitiatorMsgs of its
\* messages are written or under way, whatever was rolled back or has expired.
LimitIsEarned ==
  "crash" \notin Faults =>
    \A x \in Agents : ScriptStatus(x) = "limit" =>
      MaxInitiatorMsgs <= sent[x] + Cardinality(ToWrite(x))

IInv ==
  /\ TypeOK /\ CallKnown /\ BeginsWithInitiator /\ MarksAreOwned /\ WindowCounts
=============================================================================
