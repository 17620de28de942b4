-------------------------------- MODULE Radar --------------------------------
(***************************************************************************)
(* The radar of one pair of people who are near each other (apps/api):     *)
(* each call looks for a match of the pair that has not expired and makes  *)
(* one when there is none.  Calls run in threads, a look and an insert are *)
(* two transactions apart.  A confirmation takes a match on, whether it    *)
(* has expired or not, and the two may become connected.                   *)
(***************************************************************************)
EXTENDS Integers, Sequences

CONSTANTS
  Callers,     \* calls under way at the same time
  Ttl,         \* 15 minutes in the code
  MaxTime,     \* bound on the clock
  MaxMatches   \* bound on the rows

VARIABLES
  now,
  matches,   \* the rows of match_candidates with the pair's key
  call       \* caller -> "idle", or the call's next step, or how it ended

vars == <<now, matches, call>>

Init ==
  /\ now = 0
  /\ matches = <<>>
  /\ call = [c \in Callers |-> "idle"]

\* uq_match_pair_status: the pair has one row of a status.
Unique(status) == \A m \in DOMAIN matches : matches[m].status # status

Current ==
  {m \in DOMAIN matches : matches[m].status \in {"candidate", "handshaking"} /\ matches[m].expires > now}

Look(c) ==
  /\ call[c] # "insert"
  /\ call' = [call EXCEPT ![c] = IF Current # {} THEN "answered" ELSE "insert"]
  /\ UNCHANGED <<now, matches>>

\* Nobody catches the error of the constraint: the caller gets a 500.
Insert(c) ==
  /\ call[c] = "insert"
  /\ IF Unique("candidate")
     THEN /\ Len(matches) < MaxMatches
          /\ matches' = Append(matches, [status |-> "candidate", expires |-> now + Ttl])
          /\ call' = [call EXCEPT ![c] = "answered"]
     ELSE /\ call' = [call EXCEPT ![c] = "failed"]
          /\ UNCHANGED matches
  /\ UNCHANGED now

\* ensure_handshake, and finalize_handshake on the same match.
MoveOn(m, from, to) ==
  /\ matches[m].status = from
  /\ Unique(to)
  /\ matches' = [matches EXCEPT ![m].status = to]
  /\ UNCHANGED <<now, call>>

Tick ==
  /\ now < MaxTime
  /\ now' = now + 1
  /\ UNCHANGED <<matches, call>>

Next ==
  \/ \E c \in Callers : Look(c) \/ Insert(c)
  \/ \E m \in DOMAIN matches :
       MoveOn(m, "candidate", "handshaking") \/ MoveOn(m, "handshaking", "connected")
  \/ Tick

Spec == Init /\ [][Next]_vars

-----------------------------------------------------------------------------
\* docs/BACKEND.md:49, "GET /v1/radar: current match candidates", and test_api.py:50,
\* which expects status 200: a radar call returns the pair's match.
RadarAnswers == \A c \in Callers : call[c] # "failed"
=============================================================================
