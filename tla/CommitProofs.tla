---------------------------- MODULE CommitProofs ----------------------------
(***************************************************************************)
(* No leader of ZmqRaft lacks what was committed before it, and the state  *)
(* machines of its peers are fed the same updates.  The invariants of      *)
(* CommitInvariant are inductive, in the sense that histories H and A that *)
(* fit a state can be extended to ones that fit the next, in every cluster *)
(* in which no AppendEntries handler is overtaken, no vote is asked for    *)
(* again while it is being written, and no peer restarts that has answered *)
(* an AppendEntries before the term it was sent in was stored.             *)
(*                                                                         *)
(* First, what a step does: to the log and the commit index of the peer    *)
(* that takes it, to the replies that are pending, to the queues of        *)
(* writes, to the votes, to the requests on their way, and to a leader's   *)
(* view of its followers.                                                  *)
(***************************************************************************)
EXTENDS CommitInvariant, LogProofs

\* The switches of the environment under which nothing committed is lost.
Dependable ==
  /\ VoteResendRace = FALSE /\ ReadOvertaken = FALSE
  /\ AppendRace = FALSE \/ MaxCrashes = 0

-----------------------------------------------------------------------------
(* The terms that peers will not go back from. *)

FloorsOK ==
  \A x \in Server :
    /\ Floor(x) \in Nat
    /\ diskTerm[x] <= Floor(x) /\ Floor(x) <= currentTerm[x]
    /\ writes[x] = <<>> /\ state[x] # DOWN => Floor(x) = currentTerm[x]

LEMMA FloorFacts == TypeOK /\ QueueInv /\ ElectionInv => FloorsOK
<1> SUFFICES ASSUME TypeOK, QueueInv, ElectionInv, NEW x \in Server
             PROVE  /\ Floor(x) \in Nat
                    /\ diskTerm[x] <= Floor(x) /\ Floor(x) <= currentTerm[x]
                    /\ writes[x] = <<>> /\ state[x] # DOWN => Floor(x) = currentTerm[x]
  BY DEF FloorsOK
<1>1. currentTerm[x] \in Nat /\ diskTerm[x] \in Nat /\ diskTerm[x] <= currentTerm[x]
  BY DEF TypeOK, QueueInv, QueueOK, TermsAscend
<1>2. writes[x] = <<>> /\ state[x] # DOWN => diskTerm[x] = currentTerm[x]
  BY DEF ElectionInv, PeerOK, MemoryIsLastWrite
<1>3. Floor(x) = currentTerm[x] \/ Floor(x) = diskTerm[x]  BY DEF Floor
<1> QED  BY <1>1, <1>2, <1>3

LEMMA NoCrashes ==
  ASSUME TypeOK, Next, MaxCrashes = 0
  PROVE  crashes' = crashes
<1>1. ASSUME NEW i \in Server, Crash(i)  PROVE FALSE
  BY <1>1 DEF Crash, TypeOK
<1>2. ASSUME NEW i \in Server, Fail(i)  PROVE crashes' = crashes
  BY <1>2 DEF Fail, faults
<1>3. ASSUME NEW i \in Server,
             \/ ElectionTimeout(i) \/ NothingPersisted(i) \/ ElectionPersisted(i)
             \/ VotePersisted(i) \/ AppendPersisted(i) \/ EndRead(i) \/ Flush(i)
             \/ Apply(i) \/ \E v \in Value : ClientUpdate(i, v)
      PROVE  crashes' = crashes
  BY <1>2, <1>3 DEF ElectionTimeout, NothingPersisted, ElectionPersisted,
     VotePersisted, AppendPersisted, EndRead, Flush, Apply, ClientUpdate, faults
<1>4. ASSUME NEW i \in Server, NEW j \in Server,
             \/ VoteRequest(i, j) \/ VoteResponse(i, j) \/ RefuseAppend(i, j)
             \/ AppendRequest(i, j) \/ AppendRequestFails(i, j) \/ BeginRead(i, j)
             \/ SendAppend(i, j) \/ AppendResponse(i, j) \/ ConnectionLost(i, j)
      PROVE  crashes' = crashes
  BY <1>2, <1>4 DEF VoteRequest, VoteResponse, RefuseAppend, AppendRequest,
     AppendRequestFails, BeginRead, SendAppend, AppendResponse, ConnectionLost, faults
<1> QED  BY <1>1, <1>3, <1>4 DEF Next

LEMMA FloorsRise ==
  ASSUME ReadOvertaken = FALSE, TypeOK, TypeOK', QueueInv, Next, NEW x \in Server
  PROVE  Floor(x)' >= Floor(x)
<1>1. PICK k \in Server : LocalStep(k)
  BY NextIsLocal DEF SilentStep, SendingStep
<1>2. /\ currentTerm[x] \in Nat /\ diskTerm[x] \in Nat
      /\ currentTerm'[x] \in Nat /\ diskTerm'[x] \in Nat
  BY DEF TypeOK
<1>3. CASE x = k
  BY <1>1, <1>2, <1>3, NoCrashes DEF LocalStep, Floor
<1>4. CASE x # k
  <2>1. currentTerm'[x] = currentTerm[x] /\ diskTerm'[x] = diskTerm[x]
    BY <1>1, <1>4 DEF LocalStep, OthersRest, Rests
  <2> QED  BY <1>2, <2>1 DEF Floor
<1> QED  BY <1>3, <1>4

-----------------------------------------------------------------------------
(* What a step does to the log and the commit index of the peer it is a     *)
(* step of.                                                                *)

Same(k) == log'[k] = log[k] /\ pend'[k] = pend[k]

\* A leader passes an entry to its log.
Grows(k) ==
  /\ log'[k] = log[k]
  /\ state'[k] = FSM_LEADER /\ currentTerm'[k] = currentTerm[k]
  /\ \E e \in Entry : e.term = currentTerm[k] /\ pend'[k] = Append(pend[k], e)

\* Some of what was passed to the log is in it, the rest is lost.
Cuts(k) ==
  /\ Begins(log[k], log'[k]) /\ Begins(log'[k], VLog(k))
  /\ pend'[k] = <<>>

\* A follower stores the entries of a request.
Takes(k, i, q) ==
  /\ q \in AppendRequestMsg /\ Travels(q, i, k) /\ PrevMatches(log[k], q)
  /\ log'[k] = SubSeq(VLog(k), 1, q.prev) \o q.entries /\ pend'[k] = <<>>
  /\ state'[k] = FSM_FOLLOWER
  /\ q.term = currentTerm'[k] /\ q.term = Floor(k)'
  /\ NonePausing(k)'
  /\ commitIndex[k] <= q.prev
  /\ commitIndex'[k] = IF q.commit > commitIndex[k]
                       THEN Smaller(q.commit, Len(log'[k])) ELSE commitIndex[k]
  /\ lastApplied'[k] = lastApplied[k]

CommitsStay(k) ==
  /\ commitIndex'[k] = commitIndex[k]
  /\ lastApplied'[k] \in {lastApplied[k], commitIndex[k]}

Restarts(k) ==
  /\ commitIndex'[k] = lastApplied[k] /\ lastApplied'[k] = lastApplied[k]
  /\ writes'[k] = <<>>

\* A leader learns that a majority has stored what it sent to j.
LeaderCommits(i, j) ==
  /\ state[i] = FSM_LEADER /\ AppendResponse(i, j)
  /\ rpc[i][j].reply.ok /\ rpc[i][j].reply.term <= currentTerm[i]
  /\ Commits(i, rpc[i][j].req, {i} \cup {k \in Peers(i) :
       [matchIndex EXCEPT ![i][j] = SentLastIndex(rpc[i][j].req)][i][k]
         >= SentLastIndex(rpc[i][j].req)})
  /\ commitIndex'[i] = SentLastIndex(rpc[i][j].req)
  /\ lastApplied'[i] = lastApplied[i] /\ writes'[i] = writes[i]

LogStep(k) ==
  /\ LocalStep(k)
  /\ \/ Same(k) /\ (CommitsStay(k) \/ \E j \in Server : LeaderCommits(k, j))
     \/ Grows(k) /\ CommitsStay(k)
     \/ Cuts(k) /\ (CommitsStay(k) \/ Restarts(k))
     \/ \E i \in Server : \E q : Takes(k, i, q)

LEMMA SameStep ==
  ASSUME NEW k \in Server, LocalStep(k),
         UNCHANGED <<log, pend, commitIndex, lastApplied>>
  PROVE  LogStep(k)
  BY DEF LogStep, Same, CommitsStay

LEMMA FailCuts ==
  ASSUME TypeOK, NEW k \in Server, LocalStep(k), Fail(k)
  PROVE  LogStep(k)
<1>1. /\ log' = log /\ pend'[k] = <<>>
      /\ UNCHANGED <<commitIndex, lastApplied>>
  BY DEF Fail, TypeOK
<1>2. log[k] \in Seq(Entry) /\ Begins(log[k], VLog(k))  BY VLogType
<1>3. Begins(log[k], log[k])  BY <1>2, BeginsItself
<1> QED  BY <1>1, <1>2, <1>3 DEF LogStep, Cuts, CommitsStay

\* Nothing is left to write when a request is handled at once.
LEMMA HandledAtOnce ==
  ASSUME Dependable, TypeOK, QueueInv, ElectionInv, NEW j \in Server,
         NEW q \in AppendRequestMsg, NoAppendRace(j, q),
         Unchanged(j, q.term, CapturedVote(j, q)), state[j] # DOWN
  PROVE  q.term = currentTerm[j] /\ Floor(j) = q.term
<1>1. q.term = currentTerm[j] /\ q.term \in Nat  BY SliceType DEF Unchanged
<1>2. FloorsOK  BY FloorFacts
<1>3. CASE MaxCrashes = 0  BY <1>1, <1>3 DEF Floor
<1>4. CASE AppendRace = FALSE
  <2>1. ~(q.term > currentTerm[j])  BY <1>1
  <2>2. writes[j] = <<>>  BY <1>4, <2>1 DEF NoAppendRace
  <2> QED  BY <1>1, <1>2, <2>2 DEF FloorsOK
<1> QED  BY <1>3, <1>4 DEF Dependable

\* The end of appendEntryHandler().
LEMMA FinishAppendStep ==
  ASSUME TypeOK, TypeOK', NEW i \in Server, NEW k \in Server, LocalStep(k),
         NEW q \in AppendRequestMsg, Travels(q, i, k), NEW ok \in BOOLEAN, NEW t, NEW r,
         ok => PrevMatches(log[k], q), FinishAppend(k, i, q, t, ok, r),
         state'[k] = FSM_FOLLOWER, q.term = currentTerm'[k], q.term = Floor(k)',
         NonePausing(k)', commitIndex[k] <= q.prev, lastApplied' = lastApplied
  PROVE  LogStep(k) /\ (ok => Takes(k, i, q))
<1>1. CASE ok
  <2>1. /\ log'[k] = SubSeq(VLog(k), 1, q.prev) \o q.entries /\ pend'[k] = <<>>
        /\ commitIndex'[k] = IF q.commit > commitIndex[k]
                             THEN Smaller(q.commit, Len(log'[k])) ELSE commitIndex[k]
    BY <1>1 DEF FinishAppend, VLog, TypeOK
  <2>2. Takes(k, i, q)  BY <1>1, <2>1 DEF Takes
  <2> QED  BY <2>2 DEF LogStep
<1>2. CASE ~ok
  <2>1. /\ log'[k] = log[k] /\ pend'[k] = pend[k] /\ commitIndex' = commitIndex
    BY <1>2 DEF FinishAppend, TypeOK
  <2> QED  BY <1>2, <2>1 DEF LogStep, Same, CommitsStay
<1> QED  BY <1>1, <1>2

-----------------------------------------------------------------------------
(* Every step is one of these. *)

\* What is known of a state from the proofs of the modules before, ...
Sane == TypeOK /\ QueueInv /\ FreshInv /\ ElectionInv /\ ElectionSafety

\* ... and of a step.
Stepping(H, H2) ==
  /\ Next
  /\ Sane /\ LogInv(H) /\ CallsInv(H)
  /\ Sane' /\ LogInv(H2)' /\ HistoryGrows(H, H2)

LEMMA FloorsAreOK ==
  ASSUME NEW H, NEW H2, Stepping(H, H2)
  PROVE  FloorsOK /\ FloorsOK'
<1>1. FloorsOK  BY FloorFacts DEF Stepping, Sane
<1>2. TypeOK' /\ QueueInv' /\ ElectionInv' => FloorsOK'  BY FloorFacts, PTL
<1> QED  BY <1>1, <1>2 DEF Stepping, Sane

LEMMA FloorsGoUp ==
  ASSUME Dependable, NEW H, NEW H2, Stepping(H, H2), NEW x \in Server
  PROVE  Floor(x)' >= Floor(x) /\ Floor(x) \in Nat /\ Floor(x)' \in Nat
<1>1. Floor(x)' >= Floor(x)  BY FloorsRise DEF Stepping, Sane, Dependable
<1> QED  BY <1>1, FloorsAreOK DEF FloorsOK

\* What a follower does with an AppendEntries request: it stores or refuses the
\* entries at once, or waits for its term to be written.
HandledAppend(i, j, q) ==
  LET r  == CancelPendingRpcs(MarkSeen(i, j, q), j)
      ok == PrevMatches(log[j], q)
  IN /\ q \in ArrivingAppends(i, j) /\ q \in AppendRequestMsg /\ Travels(q, i, j)
     /\ commitIndex[j] <= q.prev
     /\ state'[j] = FSM_FOLLOWER /\ currentTerm'[j] = q.term
     /\ NonePausing(j) /\ lastApplied' = lastApplied
     /\ \/ /\ FinishAppend(j, i, q, q.term, ok, r) /\ writes' = writes
           /\ q.term = Floor(j)' /\ NonePausing(j)'
        \/ /\ rpc' = r /\ q.term > currentTerm[j]
           /\ UNCHANGED <<log, pend, commitIndex>>
           /\ writes' = [writes EXCEPT ![j] = Append(@,
                [term |-> q.term, vote |-> None,
                 then |-> IF ok THEN "append" ELSE "refuse", from |-> i, req |-> q])]

LEMMA AppendRequestHandled ==
  ASSUME Dependable, NEW H, NEW H2, Stepping(H, H2),
         NEW i \in Server, NEW j \in Server, AppendRequest(i, j)
  PROVE  \E q : HandledAppend(i, j, q)
<1>1. PICK q \in ArrivingAppends(i, j) :
        /\ NoAppendRace(j, q) /\ ~CowardlyRefuses(j, q) /\ ~StaleTerm(j, q)
        /\ TermIsRead(j, i, q, q.term, CapturedVote(j, q), MarkSeen(i, j, q), TRUE)
  BY DEF AppendRequest
<1>2. TypeOK /\ TypeOK' /\ QueueInv /\ ElectionInv
  BY DEF Stepping, Sane
<1>3. q \in AppendRequestMsg /\ Travels(q, i, j)
  BY <1>2, ArrivingType, ArrivingTravels DEF ArrivingAppends
<1>4. state'[j] = FSM_FOLLOWER /\ currentTerm'[j] = q.term /\ lastApplied' = lastApplied
  <2>1. /\ state' = [state EXCEPT ![j] = FSM_FOLLOWER]
        /\ currentTerm' = [currentTerm EXCEPT ![j] = q.term]
    BY <1>1 DEF TermIsRead, UpdateState
  <2>2. state'[j] = FSM_FOLLOWER /\ currentTerm'[j] = q.term
    BY <1>2, <2>1 DEF TypeOK
  <2>3. lastApplied' = lastApplied  BY DEF AppendRequest, disk
  <2> QED  BY <2>2, <2>3
<1>5. commitIndex[j] <= q.prev
  <2>1. q.prev \in Nat /\ commitIndex[j] \in Nat
    BY <1>2, <1>3, SliceType DEF TypeOK
  <2> QED  BY <1>1, <2>1 DEF CowardlyRefuses
<1>6. NonePausing(j)
  BY <1>2, NoHandlerPauses DEF AppendRequest, QueueInv
<1> DEFINE v == CapturedVote(j, q)
           r == CancelPendingRpcs(MarkSeen(i, j, q), j)
           then == IF PrevMatches(log[j], q) THEN "append" ELSE "refuse"
<1>7. CASE Unchanged(j, q.term, v)
  <2>1. FinishAppend(j, i, q, q.term, PrevMatches(log[j], q), r) /\ writes' = writes
    BY <1>1, <1>7 DEF TermIsRead, UpdateState
  <2>2. NonePausing(j)'  BY <1>6, <2>1 DEF NonePausing
  <2>3. Floor(j) = q.term
    <3>1. state[j] # DOWN  BY DEF AppendRequest
    <3> QED  BY <1>1, <1>2, <1>3, <1>7, <3>1, HandledAtOnce
  <2>4. q.term = Floor(j)'
    <3>1. Floor(j)' <= currentTerm'[j]  BY FloorsAreOK DEF FloorsOK
    <3>2. q.term \in Nat  BY <1>3, SliceType
    <3> QED  BY <1>4, <2>3, <3>1, <3>2, FloorsGoUp
  <2> QED  BY <1>1, <1>3, <1>4, <1>5, <1>6, <2>1, <2>2, <2>4 DEF HandledAppend
<1>8. CASE ~Unchanged(j, q.term, v)
  <2>1. q.term \in Nat /\ currentTerm[j] \in Nat
    BY <1>2, <1>3, SliceType DEF TypeOK
  <2>2. q.term > currentTerm[j]
    BY <1>1, <1>8, <2>1 DEF StaleTerm, Unchanged, CapturedVote
  <2>3. rpc' = r /\ UNCHANGED <<log, pend, commitIndex>>
    BY <1>1, <1>8 DEF TermIsRead
  <2>4. v = None  BY <2>2 DEF CapturedVote
  <2>5. writes' = [writes EXCEPT ![j] = Append(@,
          [term |-> q.term, vote |-> None, then |-> then, from |-> i, req |-> q])]
    BY <1>1, <1>8, <2>4 DEF TermIsRead, UpdateState
  <2> QED  BY <1>1, <1>3, <1>4, <1>5, <1>6, <2>2, <2>3, <2>5 DEF HandledAppend
<1> QED  BY <1>7, <1>8

LEMMA AppendRequestLogStep ==
  ASSUME Dependable, NEW H, NEW H2, Stepping(H, H2),
         NEW i \in Server, NEW j \in Server, AppendRequest(i, j)
  PROVE  LogStep(j)
<1>1. LocalStep(j) /\ TypeOK /\ TypeOK'
  BY AppendRequestIsSilent DEF SilentStep, Stepping, Sane
<1>2. PICK q : HandledAppend(i, j, q)  BY AppendRequestHandled
<1> DEFINE r == CancelPendingRpcs(MarkSeen(i, j, q), j)
<1>3. /\ q \in AppendRequestMsg /\ Travels(q, i, j) /\ commitIndex[j] <= q.prev
      /\ state'[j] = FSM_FOLLOWER /\ q.term = currentTerm'[j]
      /\ lastApplied' = lastApplied
      /\ \/ /\ FinishAppend(j, i, q, q.term, PrevMatches(log[j], q), r)
            /\ q.term = Floor(j)' /\ NonePausing(j)'
         \/ UNCHANGED <<log, pend, commitIndex>>
  BY <1>2 DEF HandledAppend
<1>4. PrevMatches(log[j], q) \in BOOLEAN  BY DEF PrevMatches
<1> HIDE DEF r
<1> QED  BY <1>1, <1>3, <1>4, FinishAppendStep, SameStep

\* A handler that waited for its write.
LEMMA WaitedFor ==
  ASSUME NEW H, NEW H2, Stepping(H, H2), NEW j \in Server, AppendPersisted(j)
  PROVE  LET w == Head(writes[j])
         IN /\ w = writes[j][1] /\ 1 \in 1..Len(writes[j])
            /\ w.then \in {"append", "refuse"}
            /\ w.from \in Server /\ w.req \in AppendRequestMsg
            /\ w.term = w.req.term /\ w.term = currentTerm[j]
            /\ Travels(w.req, w.from, j)
            /\ IF w.then = "append" THEN PrevMatches(log[j], w.req)
               ELSE ~PrevMatches(log[j], w.req)
            /\ w.then = "append" => commitIndex[j] <= w.req.prev
            /\ state[j] = FSM_FOLLOWER
            /\ ~Fail(j) =>
                 /\ FinishAppend(j, w.from, w.req, w.term, w.then = "append", rpc)
                 /\ writes'[j] = <<>> /\ state' = state /\ currentTerm' = currentTerm
                 /\ lastApplied' = lastApplied
                 /\ Floor(j)' = currentTerm[j]
<1> DEFINE w == Head(writes[j])
<1>1. /\ w = writes[j][1] /\ 1 \in 1..Len(writes[j]) /\ w \in Write
      /\ w.then \in {"append", "refuse"}
      /\ w.term = currentTerm[j] /\ Tail(writes[j]) = <<>>
  <2>1. writes[j] # <<>> /\ w.then \in {"append", "refuse"} /\ QueueOK(j) /\ TypeOK
    BY DEF AppendPersisted, QueueInv, Stepping, Sane
  <2>2. w.then \in PausingHandler  BY <2>1 DEF PausingHandler
  <2> QED  BY <2>1, <2>2, HeadIsFirst
<1>2. /\ w.from \in Server /\ w.req \in AppendRequestMsg /\ w.req.term = w.term
      /\ state[j] = FSM_FOLLOWER
  <2>1. w.req.term = w.term /\ state[j] = FSM_FOLLOWER
    BY <1>1 DEF QueueInv, QueueOK, WritesAnswer, PausedAlone, PausingHandler, Stepping, Sane
  <2> HIDE DEF w
  <2> QED  BY <1>1, <2>1 DEF Write
<1>3. Travels(w.req, w.from, j)
  BY <1>1 DEF Travels
<1>4. w.then = "append" => PrevMatches(log[j], w.req)
  BY <1>1 DEF LogInv, WaitingAppendsOK, Stepping
<1>5. /\ w.then = "refuse" => ~PrevMatches(log[j], w.req)
      /\ w.then = "append" => commitIndex[j] <= w.req.prev
  BY <1>1 DEF CallsInv, WaitingStands, Stepping
<1>6. ASSUME ~Fail(j)
      PROVE  /\ FinishAppend(j, w.from, w.req, w.term, w.then = "append", rpc)
             /\ writes'[j] = <<>> /\ state' = state /\ currentTerm' = currentTerm
             /\ lastApplied' = lastApplied
             /\ Floor(j)' = currentTerm[j]
  <2>1. /\ FinishAppend(j, w.from, w.req, w.term, w.then = "append", rpc)
        /\ WriteLeavesQueue(j)
        /\ UNCHANGED <<state, currentTerm, lastApplied>>
    BY <1>6 DEF AppendPersisted
  <2>2. writes'[j] = <<>>
    BY <1>1, <2>1 DEF WriteLeavesQueue, TypeOK, Stepping, Sane
  <2>3. state'[j] # DOWN  BY <1>2, <2>1 DEF FSM_FOLLOWER, DOWN
  <2>4. Floor(j)' = currentTerm'[j]  BY <2>2, <2>3, FloorsAreOK DEF FloorsOK
  <2> QED  BY <2>1, <2>2, <2>4
<1> QED  BY <1>1, <1>2, <1>3, <1>4, <1>5, <1>6

LEMMA AppendPersistedLogStep ==
  ASSUME NEW H, NEW H2, Stepping(H, H2), NEW j \in Server, AppendPersisted(j)
  PROVE  LogStep(j)
<1>0. PICK w : w = Head(writes[j])  OBVIOUS
<1>1. LocalStep(j) /\ TypeOK /\ TypeOK'
  BY AppendPersistedIsSilent DEF SilentStep, Stepping, Sane
<1>2. CASE Fail(j)  BY <1>1, <1>2, FailCuts
<1>3. CASE ~Fail(j)
  <2>1. /\ w.then \in {"append", "refuse"}
        /\ w.from \in Server /\ w.req \in AppendRequestMsg
        /\ w.term = w.req.term /\ w.term = currentTerm[j]
        /\ Travels(w.req, w.from, j)
        /\ w.then = "append" => PrevMatches(log[j], w.req)
        /\ w.then = "append" => commitIndex[j] <= w.req.prev
        /\ state[j] = FSM_FOLLOWER
        /\ FinishAppend(j, w.from, w.req, w.term, w.then = "append", rpc)
        /\ writes'[j] = <<>> /\ state' = state /\ currentTerm' = currentTerm
        /\ lastApplied' = lastApplied
        /\ Floor(j)' = currentTerm[j]
    BY <1>0, <1>3, WaitedFor
  <2>2. NonePausing(j)'  BY <2>1 DEF NonePausing
  <2>3. (w.then = "append") \in BOOLEAN  OBVIOUS
  <2>4. CASE w.then = "append"
    <3>1. PICK q \in AppendRequestMsg, k \in Server : q = w.req /\ k = w.from
      BY <2>1
    <3>2. /\ FinishAppend(j, k, q, w.term, TRUE, rpc)
          /\ w.term = q.term /\ PrevMatches(log[j], q) /\ commitIndex[j] <= q.prev
          /\ Travels(q, k, j) /\ lastApplied' = lastApplied
          /\ state'[j] = FSM_FOLLOWER /\ q.term = currentTerm'[j] /\ q.term = Floor(j)'
      BY <2>1, <2>4, <3>1
    <3> QED  BY <1>1, <2>2, <3>1, <3>2, FinishAppendStep
  <2>5. CASE w.then # "append"
    <3>1. UNCHANGED <<log, pend, commitIndex>>
      BY <2>1, <2>5 DEF FinishAppend, TypeOK, Stepping, Sane
    <3> QED  BY <1>1, <2>1, <3>1, SameStep
  <2> QED  BY <2>4, <2>5
<1> QED  BY <1>2, <1>3

LEMMA FlushLogStep ==
  ASSUME TypeOK, NEW k \in Server, LocalStep(k), Flush(k)
  PROVE  LogStep(k)
<1>1. /\ log'[k] = VLog(k) /\ pend'[k] = <<>>
      /\ commitIndex' = commitIndex /\ lastApplied' = lastApplied
  BY DEF Flush, TypeOK, VLog, disk
<1>2. Begins(log[k], VLog(k)) /\ Begins(VLog(k), VLog(k))  BY VLogType, BeginsItself
<1> QED  BY <1>1, <1>2 DEF LogStep, Cuts, CommitsStay

LEMMA CrashLogStep ==
  ASSUME TypeOK, NEW k \in Server, LocalStep(k), Crash(k)
  PROVE  LogStep(k)
<1>1. /\ pend'[k] = <<>> /\ writes'[k] = <<>>
      /\ commitIndex'[k] = lastApplied[k] /\ lastApplied' = lastApplied
  BY DEF Crash, TypeOK, RestartCommit
<1> QED  BY <1>1, CrashCuts DEF LogStep, Cuts, Restarts

LEMMA GrowsStep ==
  ASSUME TypeOK, NEW k \in Server, LocalStep(k), NEW p,
         p \in Value \cup {Checkpoint},
         pend' = [pend EXCEPT ![k] = Append(@, [term |-> currentTerm[k], val |-> p])],
         state'[k] = FSM_LEADER,
         UNCHANGED <<log, currentTerm, commitIndex, lastApplied>>
  PROVE  LogStep(k)
<1> DEFINE e == [term |-> currentTerm[k], val |-> p]
<1>1. e \in Entry /\ e.term = currentTerm[k]  BY DEF TypeOK, Entry
<1>2. pend'[k] = Append(pend[k], e)  BY DEF TypeOK
<1> HIDE DEF e
<1> QED  BY <1>1, <1>2 DEF LogStep, Grows, CommitsStay

LEMMA BecomeLeaderLogStep ==
  ASSUME TypeOK, NEW k \in Server, LocalStep(k), BecomeLeader(k)
  PROVE  LogStep(k)
<1>1. /\ state'[k] = FSM_LEADER
      /\ UNCHANGED <<log, currentTerm, commitIndex, lastApplied>>
  BY DEF BecomeLeader, TypeOK, disk
<1>2. CASE NeedsCheckpoint(k)
  BY <1>1, <1>2, GrowsStep DEF BecomeLeader
<1>3. CASE ~NeedsCheckpoint(k)
  <2>1. pend' = pend  BY <1>3 DEF BecomeLeader
  <2> QED  BY <1>1, <2>1, SameStep
<1> QED  BY <1>2, <1>3

LEMMA AppendResponseLogStep ==
  ASSUME TypeOK, NEW i \in Server, NEW j \in Server, LocalStep(i),
         AppendResponse(i, j)
  PROVE  LogStep(i)
<1> DEFINE q == rpc[i][j].req
           last == SentLastIndex(q)
           match == [matchIndex EXCEPT ![i][j] = last]
           stored == {i} \cup {k \in Peers(i) : match[i][k] >= last}
           takes == /\ rpc[i][j].reply.term <= currentTerm[i]
                    /\ currentTerm[i] = q.term /\ state[i] = FSM_LEADER
                    /\ rpc[i][j].reply.ok /\ Commits(i, q, stored)
<1>1. UNCHANGED <<log, pend, lastApplied>>
  BY DEF AppendResponse, BecomeFollower, disk
<1>2. CASE takes
  <2>0. ~(rpc[i][j].reply.term > currentTerm[i])
    <3>1. rpc[i][j] # None /\ rpc[i][j].reply # None  BY DEF AppendResponse
    <3>2. rpc[i][j].reply.term \in Nat  BY <3>1, PendingType DEF Reply
    <3>3. currentTerm[i] \in Nat  BY DEF TypeOK
    <3>4. rpc[i][j].reply.term <= currentTerm[i]  BY <1>2
    <3> QED  BY <3>2, <3>3, <3>4
  <2>1. commitIndex' = [commitIndex EXCEPT ![i] = last] /\ writes' = writes
    BY <1>2, <2>0 DEF AppendResponse
  <2>2. LeaderCommits(i, j)
    BY <1>1, <1>2, <2>1 DEF LeaderCommits, TypeOK
  <2> QED  BY <1>1, <2>2 DEF LogStep, Same
<1>3. CASE ~takes
  <2>1. commitIndex' = commitIndex
    BY <1>3 DEF AppendResponse, BecomeFollower
  <2> QED  BY <1>1, <2>1, SameStep
<1> QED  BY <1>2, <1>3

LEMMA NextLogStep ==
  ASSUME Dependable, NEW H, NEW H2, Stepping(H, H2)
  PROVE  \E k \in Server : LogStep(k)
<1>1. TypeOK /\ TypeOK' /\ QueueInv /\ ReadOvertaken = FALSE
  BY DEF Stepping, Sane, Dependable
<1>2. ASSUME NEW i \in Server,
             ElectionTimeout(i) \/ NothingPersisted(i) \/ VotePersisted(i)
      PROVE  LogStep(i)
  <2>1. UNCHANGED <<log, pend, commitIndex, lastApplied>>
    BY <1>2 DEF ElectionTimeout, NothingPersisted, VotePersisted, disk
  <2> QED  BY <1>1, <1>2, <2>1, SameStep, ElectionTimeoutIsSilent, WriteIsSilent
           DEF SilentStep
<1>3. ASSUME NEW i \in Server, ElectionPersisted(i)
      PROVE  LogStep(i)
  <2>1. SendingStep(i) /\ ~Fail(i)  BY <1>1, <1>3, ElectionPersistedSends
  <2>2. UNCHANGED <<log, pend, commitIndex, lastApplied>>
    BY <1>3, <2>1 DEF ElectionPersisted
  <2> QED  BY <2>1, <2>2, SameStep DEF SendingStep
<1>4. ASSUME NEW i \in Server, AppendPersisted(i)
      PROVE  LogStep(i)
  BY <1>4, AppendPersistedLogStep
<1>5. ASSUME NEW i \in Server, Flush(i) \/ Apply(i) \/ \E v \in Value : ClientUpdate(i, v)
      PROVE  LogStep(i)
  <2>1. LocalStep(i)  BY <1>1, <1>5, ClientIsSilent DEF SilentStep
  <2>2. CASE Flush(i)  BY <1>1, <2>1, <2>2, FlushLogStep
  <2>3. CASE Apply(i)
    BY <1>1, <2>1, <2>3 DEF Apply, LogStep, Same, CommitsStay, TypeOK
  <2>4. ASSUME NEW v \in Value, ClientUpdate(i, v)  PROVE LogStep(i)
    BY <1>1, <2>1, <2>4, GrowsStep DEF ClientUpdate, disk
  <2> QED  BY <1>5, <2>2, <2>3, <2>4
<1>6. ASSUME NEW i \in Server, Crash(i)
      PROVE  LogStep(i)
  BY <1>1, <1>6, CrashIsSilent, CrashLogStep DEF SilentStep
<1>7. ASSUME NEW i \in Server, NEW j \in Server, VoteRequest(i, j) \/ RefuseAppend(i, j)
      PROVE  LogStep(j)
  <2>1. UNCHANGED <<log, pend, commitIndex, lastApplied>>
    BY <1>7 DEF VoteRequest, DenyVote, TakeTerm, RefuseAppend, disk
  <2> QED  BY <1>1, <1>7, <2>1, SameStep, VoteRequestIsSilent, RefuseAppendIsSilent
           DEF SilentStep
<1>8. ASSUME NEW i \in Server, NEW j \in Server, SendAppend(i, j) \/ ConnectionLost(i, j)
      PROVE  LogStep(i)
  <2>1. UNCHANGED <<log, pend, commitIndex, lastApplied>>
    BY <1>8 DEF SendAppend, ConnectionLost, disk
  <2> QED  BY <1>1, <1>8, <2>1, SameStep, SendAppendSends, ConnectionLostIsSilent
           DEF SilentStep, SendingStep
<1>9. ASSUME NEW i \in Server, NEW j \in Server, VoteResponse(i, j)
      PROVE  LogStep(i)
  <2>1. CASE BecomeLeader(i)
    BY <1>1, <1>9, <2>1, BecomeLeaderSends, BecomeLeaderLogStep DEF SendingStep
  <2>2. CASE ~BecomeLeader(i)
    <3>1. UNCHANGED <<log, pend, commitIndex, lastApplied>>
      BY <1>9, <2>2 DEF VoteResponse, BecomeFollower, disk
    <3> QED  BY <1>1, <1>9, <2>2, <3>1, SameStep, VoteResponseIsSilent DEF SilentStep
  <2> QED  BY <2>1, <2>2
<1>10. ASSUME NEW i \in Server, NEW j \in Server, AppendRequest(i, j)
       PROVE  LogStep(j)
  BY <1>10, AppendRequestLogStep
<1>11. ASSUME NEW i \in Server, NEW j \in Server, AppendRequestFails(i, j)
       PROVE  LogStep(j)
  BY <1>1, <1>11, AppendRequestFailsIsSilent, FailCuts DEF SilentStep, AppendRequestFails
<1>12. ASSUME NEW i \in Server, NEW j \in Server, AppendResponse(i, j)
       PROVE  LogStep(i)
  BY <1>1, <1>12, AppendResponseIsSilent, AppendResponseLogStep DEF SilentStep
<1>13. ASSUME NEW i \in Server, NEW j \in Server, BeginRead(i, j)  PROVE FALSE
  BY <1>1, <1>13 DEF BeginRead
<1>14. ASSUME NEW i \in Server, EndRead(i)  PROVE FALSE
  BY <1>1, <1>14 DEF EndRead, QueueInv, NoReading
<1>15. Next  BY DEF Stepping
<1> QED  BY <1>2, <1>3, <1>4, <1>5, <1>6, <1>7, <1>8, <1>9, <1>10, <1>11, <1>12,
            <1>13, <1>14, <1>15 DEF Next

-----------------------------------------------------------------------------
(* Replies to AppendEntries requests. *)

\* The replies in r to AppendEntries requests are already in s.
RepliesFrom(r, s) ==
  \A x, y \in Server :
    r[x][y] # None /\ r[x][y].req.type = "append" /\ r[x][y].reply # None =>
      /\ s[x][y] # None
      /\ r[x][y].req = s[x][y].req /\ r[x][y].reply = s[x][y].reply
      /\ s[x][y].seen => r[x][y].seen

LEMMA RepliesFromTrans ==
  ASSUME NEW r, NEW s, NEW u, RepliesFrom(r, s), RepliesFrom(s, u)
  PROVE  RepliesFrom(r, u)
  BY DEF RepliesFrom

LEMMA RepliesFromItself ==
  ASSUME NEW r
  PROVE  RepliesFrom(r, r)
  BY DEF RepliesFrom

LEMMA CancelReplies ==
  ASSUME NEW r \in RpcType, NEW i
  PROVE  RepliesFrom(CancelPendingRpcs(r, i), r)
  BY DEF RepliesFrom, CancelPendingRpcs, Idle, RpcType

LEMMA IdleReplies ==
  ASSUME NEW r \in RpcType, NEW i
  PROVE  RepliesFrom([r EXCEPT ![i] = Idle], r)
  BY DEF RepliesFrom, Idle, RpcType

LEMMA AnsweredReplies ==
  ASSUME NEW r \in RpcType, NEW i \in Server, NEW j \in Server
  PROVE  RepliesFrom([r EXCEPT ![i][j] = None], r)
<1> SUFFICES ASSUME NEW x \in Server, NEW y \in Server
             PROVE  [r EXCEPT ![i][j] = None][x][y] \in {r[x][y], None}
  BY DEF RepliesFrom
<1>1. /\ r[i] \in [Server -> Call \cup {None}]
      /\ r[x] \in [Server -> Call \cup {None}]
  BY DEF RpcType
<1> QED  BY <1>1 DEF RpcType

LEMMA MarkSeenReplies ==
  ASSUME rpc \in RpcType, NEW i \in Server, NEW j \in Server, NEW q
  PROVE  RepliesFrom(MarkSeen(i, j, q), rpc)
<1>1. CASE Unseen(i, j, q)
  <2> SUFFICES ASSUME NEW x \in Server, NEW y \in Server
               PROVE  LET r == [rpc EXCEPT ![i][j].seen = TRUE]
                      IN r[x][y] # None =>
                           /\ rpc[x][y] # None
                           /\ r[x][y].req = rpc[x][y].req
                           /\ r[x][y].reply = rpc[x][y].reply
                           /\ rpc[x][y].seen => r[x][y].seen
    BY <1>1 DEF RepliesFrom, MarkSeen
  <2>1. /\ rpc[i] \in [Server -> Call \cup {None}]
        /\ rpc[x] \in [Server -> Call \cup {None}]
        /\ rpc[i][j] \in Call
    BY <1>1 DEF RpcType, Unseen
  <2> DEFINE c == [rpc[i][j] EXCEPT !.seen = TRUE]
  <2>2. c.req = rpc[i][j].req /\ c.reply = rpc[i][j].reply /\ c.seen
    BY <2>1 DEF Call
  <2>3. [rpc EXCEPT ![i][j].seen = TRUE][x][y] =
          IF x = i /\ y = j THEN c ELSE rpc[x][y]
    BY <2>1 DEF RpcType
  <2> HIDE DEF c
  <2> QED  BY <1>1, <2>2, <2>3 DEF Unseen
<1>2. CASE ~Unseen(i, j, q)
  BY <1>2, RepliesFromItself DEF MarkSeen
<1> QED  BY <1>1, <1>2

\* A reply is new only where it was sent.
LEMMA SendReplyParts ==
  ASSUME NEW r \in RpcType, NEW i \in Server, NEW j \in Server, NEW q, NEW a,
         NEW x \in Server, NEW y \in Server
  PROVE  LET s == SendReply(r, i, j, q, a)
         IN \/ s[x][y] = r[x][y]
            \/ /\ x = i /\ y = j /\ r[x][y] # None
               /\ r[x][y].req = q /\ r[x][y].reply = None
               /\ s[x][y].req = q /\ s[x][y].reply = a
               /\ s[x][y].seen = r[x][y].seen
<1>1. CASE r[i][j] # None /\ r[i][j].req = q /\ r[i][j].reply = None
  <2> DEFINE c == [r[i][j] EXCEPT !.reply = a]
  <2>1. r[i] \in [Server -> Call \cup {None}] /\ r[i][j] \in Call
        /\ r[x] \in [Server -> Call \cup {None}]
    BY <1>1 DEF RpcType
  <2>2. c.req = q /\ c.reply = a /\ c.seen = r[i][j].seen
    BY <1>1, <2>1 DEF Call
  <2>3. SendReply(r, i, j, q, a)[x][y] = IF x = i /\ y = j THEN c ELSE r[x][y]
    BY <1>1, <2>1 DEF SendReply, RpcType
  <2> HIDE DEF c
  <2> QED  BY <1>1, <2>2, <2>3
<1>2. CASE ~(r[i][j] # None /\ r[i][j].req = q /\ r[i][j].reply = None)
  BY <1>2 DEF SendReply
<1> QED  BY <1>1, <1>2

LEMMA VoteReplies ==
  ASSUME NEW r \in RpcType, NEW i \in Server, NEW j \in Server, NEW q, NEW a,
         q.type = "vote"
  PROVE  RepliesFrom(SendReply(r, i, j, q, a), r)
<1> SUFFICES ASSUME NEW x \in Server, NEW y \in Server
             PROVE  LET s == SendReply(r, i, j, q, a)
                    IN s[x][y] = r[x][y] \/ s[x][y].req.type # "append"
  BY DEF RepliesFrom
<1> QED  BY SendReplyParts

\* The follower y refuses q, whose previous entry it has not got.
Refuses(y, q, a) ==
  /\ ~a.ok /\ ~PrevMatches(log[y], q) /\ log'[y] = log[y]
  /\ q.term = currentTerm'[y] /\ q.term = Floor(y)'
  /\ a.conflict = IF Len(log[y]) < q.prev THEN Len(log[y]) + 1 ELSE 0

Handles(x, y, q, a) ==
  /\ NonePausing(y)'
  /\ \/ a.term > q.term
     \/ a.ok /\ Takes(y, x, q)
     \/ Refuses(y, q, a)

\* The request that is pending from x to y is answered in this step.
Answers(x, y) ==
  /\ rpc[x][y] # None /\ rpc'[x][y].req = rpc[x][y].req /\ rpc[x][y].reply = None
  /\ rpc'[x][y].seen \/ rpc'[x][y].req.term <= Floor(y)'
  /\ Handles(x, y, rpc'[x][y].req, rpc'[x][y].reply)

SameReply(x, y) ==
  /\ rpc[x][y] # None
  /\ rpc'[x][y].req = rpc[x][y].req /\ rpc'[x][y].reply = rpc[x][y].reply
  /\ rpc[x][y].seen => rpc'[x][y].seen

HasReply(x, y) ==
  rpc[x][y] # None /\ rpc[x][y].req.type = "append" /\ rpc[x][y].reply # None

RepliesMade ==
  \A x, y \in Server : HasReply(x, y)' => SameReply(x, y) \/ Answers(x, y)

LEMMA RepliesKept ==
  ASSUME RepliesFrom(rpc', rpc)
  PROVE  RepliesMade
  BY DEF RepliesFrom, RepliesMade, SameReply, HasReply

LEMMA HandlerReplies ==
  ASSUME NEW r \in RpcType, RepliesFrom(r, rpc), CallsFrom(r, rpc),
         NEW i \in Server, NEW j \in Server, NEW q, NEW a,
         rpc' = SendReply(r, i, j, q, a), Handles(i, j, q, a),
         r[i][j] # None /\ r[i][j].req = q => r[i][j].seen \/ q.term <= Floor(j)',
         rpc[i][j] # None /\ rpc[i][j].reply # None /\ r[i][j] # None => r[i][j].reply # None
  PROVE  RepliesMade
<1> SUFFICES ASSUME NEW x \in Server, NEW y \in Server, HasReply(x, y)'
             PROVE  SameReply(x, y) \/ Answers(x, y)
  BY DEF RepliesMade
<1>1. CASE rpc'[x][y] = r[x][y]
  BY <1>1 DEF RepliesFrom, SameReply, HasReply
<1>2. CASE /\ x = i /\ y = j /\ r[x][y] # None
           /\ r[x][y].req = q /\ r[x][y].reply = None
           /\ rpc'[x][y].req = q /\ rpc'[x][y].reply = a
           /\ rpc'[x][y].seen = r[x][y].seen
  <2>1. rpc[x][y] # None /\ rpc[x][y].req = q  BY <1>2 DEF CallsFrom
  <2>2. rpc[x][y].reply = None  BY <1>2, <2>1
  <2> QED  BY <1>2, <2>1, <2>2 DEF Answers
<1> QED  BY <1>1, <1>2, SendReplyParts

LEMMA FinishAppendReplies ==
  ASSUME TypeOK, TypeOK', NEW i \in Server, NEW k \in Server, i # k, LocalStep(k),
         NEW q \in AppendRequestMsg, Travels(q, i, k),
         NEW ok \in BOOLEAN, ok <=> PrevMatches(log[k], q),
         NEW r \in RpcType, RepliesFrom(r, rpc), CallsFrom(r, rpc),
         FinishAppend(k, i, q, q.term, ok, r),
         r[i][k] # None /\ r[i][k].req = q => r[i][k].seen \/ q.term <= Floor(k)',
         rpc[i][k] # None /\ rpc[i][k].reply # None /\ r[i][k] # None => r[i][k].reply # None,
         state'[k] = FSM_FOLLOWER, q.term = currentTerm'[k], q.term = Floor(k)',
         NonePausing(k)', commitIndex[k] <= q.prev, lastApplied' = lastApplied
  PROVE  RepliesMade
<1> DEFINE c == IF ~ok /\ Len(log[k]) < q.prev THEN Len(log[k]) + 1 ELSE 0
           a == [term |-> q.term, ok |-> ok, conflict |-> c]
<1>1. rpc' = SendReply(r, i, k, q, a)
  BY DEF FinishAppend
<1>2. a.ok = ok /\ a.conflict = c
  OBVIOUS
<1>3. CASE ok
  <2>1. Takes(k, i, q)  BY <1>3, FinishAppendStep
  <2>2. Handles(i, k, q, a)  BY <1>2, <1>3, <2>1 DEF Handles
  <2> HIDE DEF a
  <2> QED  BY <1>1, <2>2, HandlerReplies
<1>4. CASE ~ok
  <2>1. log'[k] = log[k]  BY <1>4 DEF FinishAppend, TypeOK
  <2>2. a.conflict = IF Len(log[k]) < q.prev THEN Len(log[k]) + 1 ELSE 0
    BY <1>2, <1>4
  <2> HIDE DEF a
  <2>3. Handles(i, k, q, a)  BY <1>2, <1>4, <2>1, <2>2 DEF Handles, Refuses
  <2> QED  BY <1>1, <2>3, HandlerReplies
<1> QED  BY <1>3, <1>4

LEMMA TravelsToOther ==
  ASSUME QueueInv, NEW i \in Server, NEW j \in Server, NEW q, Travels(q, i, j)
  PROVE  i # j
<1>1. CASE rpc[i][j] # None
  BY <1>1 DEF QueueInv, QueueOK, CallsMatchRole
<1>2. CASE [from |-> i, to |-> j, req |-> q] \in stale
  BY <1>2 DEF QueueInv
<1>3. ASSUME NEW n \in 1..Len(writes[j]),
             writes[j][n].then \in {"vote", "append", "refuse"}, writes[j][n].from = i
      PROVE  i # j
  BY <1>3 DEF QueueInv, QueueOK, WritesAnswer
<1> QED  BY <1>1, <1>2, <1>3 DEF Travels

\* A request that arrives is marked as seen.
LEMMA ArrivedIsSeen ==
  ASSUME TypeOK, NEW i \in Server, NEW j \in Server, i # j, NEW q,
         NEW r, r = MarkSeen(i, j, q) \/ r = CancelPendingRpcs(MarkSeen(i, j, q), j)
  PROVE  /\ r \in RpcType /\ RepliesFrom(r, rpc) /\ CallsFrom(r, rpc)
         /\ r[i][j] # None /\ r[i][j].req = q => r[i][j].seen
         /\ rpc[i][j] # None => r[i][j] # None /\ r[i][j].reply = rpc[i][j].reply
<1> DEFINE m == MarkSeen(i, j, q)
<1>1. /\ rpc \in RpcType /\ rpc[i] \in [Server -> Call \cup {None}]
  BY DEF TypeOK, RpcType
<1>2. m \in RpcType /\ RepliesFrom(m, rpc) /\ CallsFrom(m, rpc)
  BY <1>1, MarkSeenType, MarkSeenReplies, MarkSeenCalls
<1>3. /\ m[i][j] # None /\ m[i][j].req = q => m[i][j].seen
      /\ rpc[i][j] # None => m[i][j] # None /\ m[i][j].reply = rpc[i][j].reply
  <2>1. CASE Unseen(i, j, q)
    <3>1. rpc[i][j] \in Call  BY <1>1, <2>1 DEF Unseen
    <3> DEFINE c == [rpc[i][j] EXCEPT !.seen = TRUE]
    <3>2. c.seen /\ c.reply = rpc[i][j].reply  BY <3>1 DEF Call
    <3>3. m[i][j] = c  BY <1>1, <2>1 DEF MarkSeen, RpcType
    <3>4. c # None
      <4>1. c \in Call  BY <3>1 DEF Call
      <4> QED  BY <4>1, NoneAssumption
    <3> HIDE DEF c
    <3> QED  BY <3>2, <3>3, <3>4
  <2>2. CASE ~Unseen(i, j, q)
    <3>1. m = rpc  BY <2>2 DEF MarkSeen
    <3> QED  BY <2>2, <3>1 DEF Unseen
  <2> QED  BY <2>1, <2>2
<1> HIDE DEF m
<1>4. CASE r = m
  BY <1>2, <1>3, <1>4
<1>5. CASE r = CancelPendingRpcs(m, j)
  <2>1. /\ r \in RpcType /\ RepliesFrom(r, m) /\ CallsFrom(r, m)
    BY <1>2, <1>5, CancelType, CancelReplies, CancelCalls
  <2>2. r[i] = m[i]  BY <1>2, <1>5 DEF CancelPendingRpcs, RpcType
  <2> QED  BY <1>2, <1>3, <2>1, <2>2, RepliesFromTrans, CallsFromTrans
<1> QED  BY <1>4, <1>5 DEF m

LEMMA AppendRequestReplies ==
  ASSUME Dependable, NEW H, NEW H2, Stepping(H, H2),
         NEW i \in Server, NEW j \in Server, AppendRequest(i, j)
  PROVE  RepliesMade
<1>1. TypeOK /\ TypeOK' /\ QueueInv /\ LocalStep(j)
  BY AppendRequestIsSilent DEF SilentStep, Stepping, Sane
<1>2. PICK q : HandledAppend(i, j, q)  BY AppendRequestHandled
<1>3. /\ q \in AppendRequestMsg /\ Travels(q, i, j) /\ commitIndex[j] <= q.prev
      /\ state'[j] = FSM_FOLLOWER /\ q.term = currentTerm'[j]
      /\ lastApplied' = lastApplied
  BY <1>2 DEF HandledAppend
<1>4. i # j  BY <1>1, <1>3, TravelsToOther
<1> DEFINE r == CancelPendingRpcs(MarkSeen(i, j, q), j)
<1>5. /\ r \in RpcType /\ RepliesFrom(r, rpc) /\ CallsFrom(r, rpc)
      /\ r[i][j] # None /\ r[i][j].req = q => r[i][j].seen
      /\ rpc[i][j] # None => r[i][j] # None /\ r[i][j].reply = rpc[i][j].reply
  BY <1>1, <1>4, ArrivedIsSeen
<1>6. \/ /\ FinishAppend(j, i, q, q.term, PrevMatches(log[j], q), r)
         /\ q.term = Floor(j)' /\ NonePausing(j)'
      \/ rpc' = r
  BY <1>2 DEF HandledAppend
<1>7. PrevMatches(log[j], q) \in BOOLEAN  BY DEF PrevMatches
<1> HIDE DEF r
<1>8. CASE rpc' = r
  BY <1>5, <1>8, RepliesKept
<1>9. CASE /\ FinishAppend(j, i, q, q.term, PrevMatches(log[j], q), r)
           /\ q.term = Floor(j)' /\ NonePausing(j)'
  BY <1>1, <1>3, <1>4, <1>5, <1>7, <1>9, FinishAppendReplies
<1> QED  BY <1>6, <1>8, <1>9

LEMMA RefuseAppendReplies ==
  ASSUME TypeOK, QueueInv, NEW i \in Server, NEW j \in Server, RefuseAppend(i, j)
  PROVE  RepliesMade
<1>1. PICK q \in ArrivingAppends(i, j) :
        /\ StaleTerm(j, q)
        /\ rpc' = SendReply(MarkSeen(i, j, q), i, j, q, Answer(currentTerm[j], FALSE))
  BY DEF RefuseAppend
<1>2. Travels(q, i, j) /\ i # j
  BY ArrivingTravels, TravelsToOther DEF ArrivingAppends
<1> DEFINE r == MarkSeen(i, j, q)
           a == Answer(currentTerm[j], FALSE)
<1>3. /\ r \in RpcType /\ RepliesFrom(r, rpc) /\ CallsFrom(r, rpc)
      /\ r[i][j] # None /\ r[i][j].req = q => r[i][j].seen
      /\ rpc[i][j] # None => r[i][j] # None /\ r[i][j].reply = rpc[i][j].reply
  BY <1>2, ArrivedIsSeen
<1>4. NonePausing(j)'
  <2>1. NonePausing(j)  BY NoHandlerPauses DEF RefuseAppend, QueueInv
  <2>2. writes' = writes  BY DEF RefuseAppend
  <2> QED  BY <2>1, <2>2 DEF NonePausing
<1>5. a.term > q.term
  <2>1. q \in AppendRequestMsg  BY <1>1, ArrivingType
  <2>2. q.term \in Nat /\ currentTerm[j] \in Nat  BY <2>1, SliceType DEF TypeOK
  <2> QED  BY <1>1, <2>2 DEF StaleTerm, Answer
<1>6. Handles(i, j, q, a)  BY <1>4, <1>5 DEF Handles
<1> HIDE DEF r, a
<1>7. rpc' = SendReply(r, i, j, q, a)  BY <1>1 DEF r, a
<1> QED  BY <1>3, <1>6, <1>7, HandlerReplies

LEMMA AppendPersistedReplies ==
  ASSUME NEW H, NEW H2, Stepping(H, H2), NEW j \in Server, AppendPersisted(j)
  PROVE  RepliesMade
<1>1. TypeOK /\ TypeOK' /\ QueueInv /\ LocalStep(j)
  BY AppendPersistedIsSilent DEF SilentStep, Stepping, Sane
<1>2. rpc \in RpcType  BY <1>1, Sockets
<1>3. CASE Fail(j)
  <2>1. rpc' = [rpc EXCEPT ![j] = Idle]  BY <1>3 DEF Fail
  <2> QED  BY <1>2, <2>1, IdleReplies, RepliesKept
<1>4. CASE ~Fail(j)
  <2>0. PICK w : w = Head(writes[j])  OBVIOUS
  <2>1. /\ w.then \in {"append", "refuse"}
        /\ w.from \in Server /\ w.req \in AppendRequestMsg
        /\ w.term = w.req.term /\ w.term = currentTerm[j]
        /\ Travels(w.req, w.from, j)
        /\ IF w.then = "append" THEN PrevMatches(log[j], w.req)
           ELSE ~PrevMatches(log[j], w.req)
        /\ w.then = "append" => commitIndex[j] <= w.req.prev
        /\ state[j] = FSM_FOLLOWER
        /\ FinishAppend(j, w.from, w.req, w.term, w.then = "append", rpc)
        /\ writes'[j] = <<>> /\ state' = state /\ currentTerm' = currentTerm
        /\ lastApplied' = lastApplied
        /\ Floor(j)' = currentTerm[j]
    BY <1>4, <2>0, WaitedFor
  <2>2. NonePausing(j)'  BY <2>1 DEF NonePausing
  <2>3. w.from # j  BY <1>1, <2>1, TravelsToOther
  <2> DEFINE ok == w.then = "append"
             c == IF ~ok /\ Len(log[j]) < w.req.prev THEN Len(log[j]) + 1 ELSE 0
             a == [term |-> w.term, ok |-> ok, conflict |-> c]
  <2>4. ok \in BOOLEAN /\ (ok <=> PrevMatches(log[j], w.req))
    <3>1. PrevMatches(log[j], w.req) \in BOOLEAN  BY DEF PrevMatches
    <3> QED  BY <2>1, <3>1
  <2>5. rpc' = SendReply(rpc, w.from, j, w.req, a)
    BY <2>1 DEF FinishAppend
  <2>6. a.ok = ok /\ a.conflict = c  OBVIOUS
  <2>7. Handles(w.from, j, w.req, a)
    <3>1. CASE ok
      <4>1. Takes(j, w.from, w.req)
        BY <1>1, <2>1, <2>2, <2>4, <3>1, FinishAppendStep
      <4> QED  BY <2>2, <2>6, <3>1, <4>1 DEF Handles
    <3>2. CASE ~ok
      <4>1. log'[j] = log[j]  BY <1>1, <2>1, <3>2 DEF FinishAppend, TypeOK
      <4>2. a.conflict = IF Len(log[j]) < w.req.prev THEN Len(log[j]) + 1 ELSE 0
        BY <2>6, <3>2
      <4> HIDE DEF a
      <4> QED  BY <2>1, <2>2, <2>4, <2>6, <3>2, <4>1, <4>2 DEF Handles, Refuses
    <3> QED  BY <3>1, <3>2
  <2>8. w.req.term <= Floor(j)'
    <3>1. w.req.term \in Nat  BY <2>1, SliceType
    <3> QED  BY <2>1, <3>1
  <2> HIDE DEF a
  <2>9. RepliesFrom(rpc, rpc) /\ CallsFrom(rpc, rpc)
    BY RepliesFromItself DEF CallsFrom
  <2> QED  BY <1>2, <2>1, <2>5, <2>7, <2>8, <2>9, HandlerReplies
<1> QED  BY <1>3, <1>4

\* The calls of i are new, those of the others stay.
LEMMA NewCallsReplies ==
  ASSUME TypeOK, NEW i \in Server, NEW row \in [Server -> Call \cup {None}],
         rpc' = [rpc EXCEPT ![i] = row],
         \A y \in Server : row[y] # None => row[y] = rpc[i][y] \/ row[y].reply = None
  PROVE  RepliesFrom(rpc', rpc)
  BY DEF RepliesFrom, TypeOK

LEMMA VoteStepReplies ==
  ASSUME TypeOK, QueueInv,
         NEW i \in Server, NEW j \in Server, NEW q \in Arriving(i, j, "vote"),
         DenyVote(i, j, q) \/ TakeTerm(i, j, q)
  PROVE  RepliesFrom(rpc', rpc)
<1>1. rpc \in RpcType /\ q.type = "vote"  BY Sockets DEF Arriving
<1> DEFINE r == CancelPendingRpcs(rpc, j)
<1>2. r \in RpcType /\ RepliesFrom(r, rpc)
  BY <1>1, CancelType, CancelReplies
<1> HIDE DEF r
<1>3. \/ rpc' = r
      \/ \E s \in {rpc, r} : \E a : rpc' = SendReply(s, i, j, q, a)
  BY DEF DenyVote, TakeTerm, r
<1>4. ASSUME NEW s \in {rpc, r}, NEW a, rpc' = SendReply(s, i, j, q, a)
      PROVE  RepliesFrom(rpc', rpc)
  <2>1. RepliesFrom(rpc', s)  BY <1>1, <1>2, <1>4, VoteReplies
  <2>2. RepliesFrom(s, rpc)  BY <1>2, <1>4, RepliesFromItself
  <2> QED  BY <2>1, <2>2, RepliesFromTrans
<1> QED  BY <1>2, <1>3, <1>4

LEMMA VotePersistedReplies ==
  ASSUME TypeOK, QueueInv, NEW j \in Server, VotePersisted(j)
  PROVE  RepliesFrom(rpc', rpc)
<1>1. PICK w : w = Head(writes[j])  OBVIOUS
<1>2. /\ w \in Write /\ w.then = "vote"
      /\ \E a : rpc' = SendReply(rpc, w.from, j, w.req, a)
  BY <1>1, HeadIsFirst DEF VotePersisted, QueueInv
<1>3. w.from \in Server /\ w.req.type = "vote"
  BY <1>2 DEF Write, VoteRequestMsg
<1> QED  BY <1>2, <1>3, VoteReplies, Sockets

LEMMA VoteResponseReplies ==
  ASSUME TypeOK, NEW i \in Server, NEW j \in Server, VoteResponse(i, j)
  PROVE  RepliesFrom(rpc', rpc)
<1> DEFINE r == [rpc EXCEPT ![i][j] = None]
<1>1. rpc \in RpcType  BY Sockets
<1>2. r \in RpcType /\ RepliesFrom(r, rpc)
  BY <1>1, AnsweredType, AnsweredReplies
<1>3. CASE BecomeLeader(i)
  <2> DEFINE req == [type |-> "append", term |-> currentTerm[i], prev |-> Len(log[i]),
                     prevTerm |-> LastTermOf(log[i]), commit |-> commitIndex[i],
                     entries |-> <<>>]
             c == [req |-> req, seen |-> FALSE, reply |-> None]
             row == [y \in Server |-> IF y = i THEN None ELSE c]
  <2>1. rpc' = [rpc EXCEPT ![i] = row]  BY <1>3 DEF BecomeLeader
  <2>2. c.reply = None  OBVIOUS
  <2> HIDE DEF c
  <2> QED  BY <1>1, <2>1, <2>2 DEF RepliesFrom, RpcType
<1>4. CASE rpc' = r
  BY <1>2, <1>4
<1>5. CASE \E t : BecomeFollower(i, t, r)
  <2>1. rpc' = CancelPendingRpcs(r, i)  BY <1>5 DEF BecomeFollower
  <2> QED  BY <1>2, <2>1, CancelReplies, RepliesFromTrans
<1> HIDE DEF r
<1>6. rpc' = r \/ BecomeLeader(i) \/ \E t : BecomeFollower(i, t, r)
  BY DEF VoteResponse, r
<1> QED  BY <1>3, <1>4, <1>5, <1>6

LEMMA AppendResponseReplies ==
  ASSUME TypeOK, NEW i \in Server, NEW j \in Server, AppendResponse(i, j)
  PROVE  RepliesFrom(rpc', rpc)
<1> DEFINE r == [rpc EXCEPT ![i][j] = None]
<1>1. rpc \in RpcType  BY Sockets
<1>2. r \in RpcType /\ RepliesFrom(r, rpc)
  BY <1>1, AnsweredType, AnsweredReplies
<1>3. CASE rpc' = r
  BY <1>2, <1>3
<1>4. CASE \E t : BecomeFollower(i, t, r)
  <2>1. rpc' = CancelPendingRpcs(r, i)  BY <1>4 DEF BecomeFollower
  <2> QED  BY <1>2, <2>1, CancelReplies, RepliesFromTrans
<1> HIDE DEF r
<1>5. rpc' = r \/ \E t : BecomeFollower(i, t, r)
  BY DEF AppendResponse, r
<1> QED  BY <1>3, <1>4, <1>5

LEMMA ElectionPersistedReplies ==
  ASSUME TypeOK, TypeOK', QueueInv, NEW i \in Server, ElectionPersisted(i)
  PROVE  RepliesFrom(rpc', rpc)
<1> DEFINE req == [type |-> "vote", term |-> Head(writes[i]).term,
                   lastIndex |-> Len(log[i]), lastTerm |-> LastTermOf(log[i])]
           c == [req |-> req, seen |-> FALSE, reply |-> None]
<1>1. ~Fail(i)  BY ElectionPersistedSends
<1>2. rpc' = [rpc EXCEPT ![i] = [y \in Server |-> IF y = i THEN None ELSE c]]
  BY <1>1 DEF ElectionPersisted
<1>3. c.reply = None  OBVIOUS
<1> HIDE DEF c
<1> QED  BY <1>2, <1>3, Sockets DEF RepliesFrom, RpcType

LEMMA SendAppendReplies ==
  ASSUME TypeOK, NEW i \in Server, NEW j \in Server, SendAppend(i, j)
  PROVE  RepliesFrom(rpc', rpc)
<1>1. PICK q : rpc' = [rpc EXCEPT ![i][j] = [req |-> q, seen |-> FALSE, reply |-> None]]
  BY DEF SendAppend
<1> DEFINE c == [req |-> q, seen |-> FALSE, reply |-> None]
<1>2. c.reply = None  OBVIOUS
<1>3. rpc' = [rpc EXCEPT ![i][j] = c]  BY <1>1
<1> HIDE DEF c
<1>4. \A x, y \in Server : rpc'[x][y] = IF x = i /\ y = j THEN c ELSE rpc[x][y]
  <2>1. \A x \in Server : rpc[x] \in [Server -> Call \cup {None}]  BY DEF TypeOK
  <2> QED  BY <1>3, <2>1 DEF TypeOK
<1> QED  BY <1>2, <1>4 DEF RepliesFrom

LEMMA ConnectionLostReplies ==
  ASSUME TypeOK, NEW i \in Server, NEW j \in Server, ConnectionLost(i, j)
  PROVE  RepliesFrom(rpc', rpc)
<1>1. /\ rpc' = [rpc EXCEPT ![i][j].seen = FALSE, ![i][j].reply = None]
      /\ rpc[i][j] # None
  BY DEF ConnectionLost
<1>2. \A x \in Server : rpc[x] \in [Server -> Call \cup {None}]  BY DEF TypeOK
<1>3. rpc[i][j] \in Call  BY <1>1, <1>2
<1> DEFINE c == [rpc[i][j] EXCEPT !.seen = FALSE, !.reply = None]
<1>4. c.reply = None  BY <1>3 DEF Call
<1>5. \A x, y \in Server : rpc'[x][y] = IF x = i /\ y = j THEN c ELSE rpc[x][y]
  BY <1>1, <1>2 DEF TypeOK
<1> HIDE DEF c
<1> QED  BY <1>4, <1>5 DEF RepliesFrom

LEMMA CrashReplies ==
  ASSUME TypeOK, NEW i \in Server, Crash(i)
  PROVE  RepliesFrom(rpc', rpc)
<1> SUFFICES ASSUME NEW x \in Server, NEW y \in Server
             PROVE  \/ rpc'[x][y] \in {rpc[x][y], None}
                    \/ rpc'[x][y].reply = None
  BY DEF RepliesFrom
<1>1. rpc[x] \in [Server -> Call \cup {None}]  BY DEF TypeOK
<1>2. rpc'[x] = IF x = i THEN Idle ELSE
                 IF rpc[x][i] # None /\ rpc[x][i].reply = None
                 THEN [rpc[x] EXCEPT ![i].seen = FALSE] ELSE rpc[x]
  BY DEF Crash
<1>3. CASE x = i \/ y # i
  BY <1>1, <1>2, <1>3 DEF Idle
<1>4. CASE x # i /\ y = i /\ rpc[x][i] # None /\ rpc[x][i].reply = None
  <2>1. rpc[x][i] \in Call  BY <1>1, <1>4
  <2>2. rpc'[x][y] = [rpc[x][i] EXCEPT !.seen = FALSE]  BY <1>1, <1>2, <1>4
  <2> QED  BY <1>4, <2>1, <2>2 DEF Call
<1> QED  BY <1>2, <1>3, <1>4

LEMMA NextReplies ==
  ASSUME Dependable, NEW H, NEW H2, Stepping(H, H2)
  PROVE  RepliesMade
<1>1. TypeOK /\ TypeOK' /\ QueueInv /\ ReadOvertaken = FALSE /\ rpc \in RpcType
  BY Sockets DEF Stepping, Sane, Dependable
<1>2. ASSUME NEW i \in Server,
             \/ NothingPersisted(i) \/ Flush(i) \/ Apply(i)
             \/ \E v \in Value : ClientUpdate(i, v)
      PROVE  RepliesMade
  <2>1. rpc' = rpc  BY <1>2 DEF NothingPersisted, Flush, Apply, ClientUpdate, network
  <2> QED  BY <2>1, RepliesFromItself, RepliesKept
<1>3. ASSUME NEW i \in Server, ElectionTimeout(i)  PROVE RepliesMade
  BY <1>1, <1>3, CancelReplies, RepliesKept DEF ElectionTimeout
<1>4. ASSUME NEW i \in Server, ElectionPersisted(i) \/ VotePersisted(i) \/ Crash(i)
      PROVE  RepliesMade
  BY <1>1, <1>4, ElectionPersistedReplies, VotePersistedReplies, CrashReplies, RepliesKept
<1>5. ASSUME NEW i \in Server, AppendPersisted(i)  PROVE RepliesMade
  BY <1>5, AppendPersistedReplies
<1>6. ASSUME NEW i \in Server, NEW j \in Server, VoteRequest(i, j)  PROVE RepliesMade
  <2>1. PICK q \in Arriving(i, j, "vote") : DenyVote(i, j, q) \/ TakeTerm(i, j, q)
    BY <1>6 DEF VoteRequest
  <2> QED  BY <1>1, <2>1, VoteStepReplies, RepliesKept
<1>7. ASSUME NEW i \in Server, NEW j \in Server,
             \/ VoteResponse(i, j) \/ AppendResponse(i, j) \/ SendAppend(i, j)
             \/ ConnectionLost(i, j)
      PROVE  RepliesMade
  BY <1>1, <1>7, VoteResponseReplies, AppendResponseReplies, SendAppendReplies,
     ConnectionLostReplies, RepliesKept
<1>8. ASSUME NEW i \in Server, NEW j \in Server, AppendRequestFails(i, j)
      PROVE  RepliesMade
  <2>1. rpc' = [rpc EXCEPT ![j] = Idle]  BY <1>8 DEF AppendRequestFails, Fail
  <2> QED  BY <1>1, <2>1, IdleReplies, RepliesKept
<1>9. ASSUME NEW i \in Server, NEW j \in Server, RefuseAppend(i, j) \/ AppendRequest(i, j)
      PROVE  RepliesMade
  BY <1>1, <1>9, RefuseAppendReplies, AppendRequestReplies
<1>10. ASSUME NEW i \in Server, NEW j \in Server, BeginRead(i, j)  PROVE FALSE
  BY <1>1, <1>10 DEF BeginRead
<1>11. ASSUME NEW i \in Server, EndRead(i)  PROVE FALSE
  BY <1>1, <1>11 DEF EndRead, QueueInv, NoReading
<1>12. Next  BY DEF Stepping
<1> QED  BY <1>2, <1>3, <1>4, <1>5, <1>6, <1>7, <1>8, <1>9, <1>10, <1>11, <1>12 DEF Next

-----------------------------------------------------------------------------
(* The writes a step queues, the ballots it casts. *)

\* w is queued for a request that has arrived.
WriteMade(k, w) ==
  \/ w.then \in {"nothing", "election"}
  \/ /\ w.then = "vote" /\ w.from \in Server /\ w.req \in VoteRequestMsg
     /\ Travels(w.req, w.from, k) /\ w.req.term = w.term
     /\ w.vote = w.from => UpToDate(k, w.req)
  \/ /\ w.then \in {"append", "refuse"} /\ w.from \in Server
     /\ HandledAppend(w.from, k, w.req) /\ w.req.term > currentTerm[k]
     /\ w.then = "refuse" => ~PrevMatches(log[k], w.req)
     /\ UNCHANGED <<log, pend, commitIndex>>

WritesMade ==
  \A k \in Server : \A n \in 1..Len(writes'[k]) :
    \/ \E m \in 1..Len(writes[k]) : writes'[k][n] = writes[k][m]
    \/ WriteMade(k, writes'[k][n])

LEMMA WritesLeft ==
  ASSUME TypeOK, NEW i \in Server, OthersRest(i),
         \/ writes'[i] = writes[i] \/ writes'[i] = <<>>
         \/ writes[i] # <<>> /\ WriteLeavesQueue(i)
  PROVE  WritesMade
<1> SUFFICES ASSUME NEW k \in Server, NEW n \in 1..Len(writes'[k])
             PROVE  \E m \in 1..Len(writes[k]) : writes'[k][n] = writes[k][m]
  BY DEF WritesMade
<1>1. CASE writes'[k] = writes[k]
  BY <1>1
<1>2. CASE writes'[k] = <<>>
  BY <1>2
<1>3. CASE k = i /\ writes[i] # <<>> /\ WriteLeavesQueue(i)
  <2>1. writes'[i] = Tail(writes[i]) /\ writes[i] \in Seq(Write)
    BY <1>3 DEF WriteLeavesQueue, TypeOK
  <2>2. n + 1 \in 1..Len(writes[i]) /\ writes'[i][n] = writes[i][n + 1]
    BY <1>3, <2>1
  <2> QED  BY <1>3, <2>2
<1> QED  BY <1>1, <1>2, <1>3 DEF OthersRest, Rests

LEMMA WriteQueued ==
  ASSUME TypeOK, NEW i \in Server, NEW w, WriteMade(i, w),
         writes' = [writes EXCEPT ![i] = Append(@, w)]
  PROVE  WritesMade
<1> SUFFICES ASSUME NEW k \in Server, NEW n \in 1..Len(writes'[k])
             PROVE  \/ \E m \in 1..Len(writes[k]) : writes'[k][n] = writes[k][m]
                    \/ WriteMade(k, writes'[k][n])
  BY DEF WritesMade
<1>1. CASE k # i
  <2>1. writes'[k] = writes[k]  BY <1>1 DEF TypeOK
  <2> QED  BY <2>1
<1>2. CASE k = i
  <2>1. writes'[i] = Append(writes[i], w) /\ writes[i] \in Seq(Write)
    BY DEF TypeOK
  <2>2. \/ n \in 1..Len(writes[i]) /\ writes'[i][n] = writes[i][n]
        \/ writes'[i][n] = w
    BY <1>2, <2>1
  <2> QED  BY <1>2, <2>2
<1> QED  BY <1>1, <1>2

LEMMA WriteUpdated ==
  ASSUME TypeOK, NEW i \in Server, OthersRest(i), NEW st, NEW t, NEW v, NEW then,
         NEW from, NEW req, UpdateState(i, st, t, v, then, from, req),
         ~Unchanged(i, t, v) =>
           WriteMade(i, [term |-> t, vote |-> v, then |-> then, from |-> from,
                         req |-> req])
  PROVE  WritesMade
<1>1. CASE Unchanged(i, t, v)
  <2>1. writes' = writes  BY <1>1 DEF UpdateState
  <2> QED  BY <2>1, WritesLeft
<1>2. CASE ~Unchanged(i, t, v)
  <2> DEFINE w == [term |-> t, vote |-> v, then |-> then, from |-> from, req |-> req]
  <2>1. WriteMade(i, w) /\ writes' = [writes EXCEPT ![i] = Append(@, w)]
    BY <1>2 DEF UpdateState
  <2> HIDE DEF w
  <2> QED  BY <2>1, WriteQueued
<1> QED  BY <1>1, <1>2

LEMMA FollowerWrites ==
  ASSUME TypeOK, NEW i \in Server, OthersRest(i), NEW t, NEW r, BecomeFollower(i, t, r)
  PROVE  WritesMade
<1> DEFINE w == [term |-> t, vote |-> None, then |-> "nothing", from |-> None,
                 req |-> None]
<1>1. WriteMade(i, w)  BY DEF WriteMade
<1>2. UpdateState(i, FSM_FOLLOWER, t, None, "nothing", None, None)
  BY DEF BecomeFollower
<1> QED  BY <1>1, <1>2, WriteUpdated

LEMMA TimeoutWrites ==
  ASSUME TypeOK, NEW i \in Server, OthersRest(i), ElectionTimeout(i)
  PROVE  WritesMade
<1> DEFINE t == currentTerm[i] + 1
           w == [term |-> t, vote |-> i, then |-> "election", from |-> None,
                 req |-> None]
<1>1. WriteMade(i, w)  BY DEF WriteMade
<1>2. UpdateState(i, FSM_CANDIDATE, t, i, "election", None, None)
  BY DEF ElectionTimeout
<1> HIDE DEF t
<1> QED  BY <1>1, <1>2, WriteUpdated

LEMMA TakeTermWrites ==
  ASSUME TypeOK, NEW i \in Server, NEW j \in Server, OthersRest(j),
         NEW q \in Arriving(i, j, "vote"), TakeTerm(i, j, q)
  PROVE  WritesMade
<1> DEFINE vote == IF GrantsVote(i, j, q) THEN i ELSE None
           w == [term |-> q.term, vote |-> vote, then |-> "vote", from |-> i,
                 req |-> q]
<1>1. q \in VoteRequestMsg /\ Travels(q, i, j)
  BY ArrivingType, ArrivingTravels
<1>2. vote = i => UpToDate(j, q)
  BY NoneAssumption DEF GrantsVote
<1>3. UpdateState(j, FSM_FOLLOWER, q.term, vote, "vote", i, q)
  BY DEF TakeTerm
<1> HIDE DEF vote
<1>4. WriteMade(j, w)  BY <1>1, <1>2 DEF WriteMade
<1> QED  BY <1>3, <1>4, WriteUpdated

LEMMA AppendRequestWrites ==
  ASSUME Dependable, NEW H, NEW H2, Stepping(H, H2),
         NEW i \in Server, NEW j \in Server, AppendRequest(i, j)
  PROVE  WritesMade
<1>1. TypeOK /\ OthersRest(j)
  BY AppendRequestIsSilent DEF SilentStep, LocalStep, Stepping, Sane
<1>2. PICK q : HandledAppend(i, j, q)  BY AppendRequestHandled
<1> DEFINE ok == PrevMatches(log[j], q)
           w == [term |-> q.term, vote |-> None,
                 then |-> IF ok THEN "append" ELSE "refuse", from |-> i, req |-> q]
<1>3. CASE writes' = writes
  BY <1>1, <1>3, WritesLeft
<1>4. CASE /\ q.term > currentTerm[j]
           /\ UNCHANGED <<log, pend, commitIndex>>
           /\ writes' = [writes EXCEPT ![j] = Append(@, w)]
  <2>1. /\ w.then \in {"append", "refuse"} /\ w.from = i /\ w.req = q
        /\ w.then = "refuse" => ~ok
    OBVIOUS
  <2> HIDE DEF w
  <2>2. WriteMade(j, w)  BY <1>2, <1>4, <2>1 DEF WriteMade
  <2> QED  BY <1>1, <1>4, <2>2, WriteQueued
<1> QED  BY <1>2, <1>3, <1>4 DEF HandledAppend

LEMMA NextWrites ==
  ASSUME Dependable, NEW H, NEW H2, Stepping(H, H2)
  PROVE  WritesMade
<1>1. TypeOK /\ TypeOK' /\ QueueInv /\ ReadOvertaken = FALSE
  BY DEF Stepping, Sane, Dependable
<1>2. ASSUME NEW i \in Server, Flush(i) \/ Apply(i) \/ \E v \in Value : ClientUpdate(i, v)
      PROVE  WritesMade
  <2>1. OthersRest(i)  BY <1>1, <1>2, ClientIsSilent DEF SilentStep, LocalStep
  <2>2. writes' = writes  BY <1>2 DEF Flush, Apply, ClientUpdate
  <2> QED  BY <1>1, <2>1, <2>2, WritesLeft
<1>3. ASSUME NEW i \in Server, NothingPersisted(i) \/ VotePersisted(i)
      PROVE  WritesMade
  <2>1. OthersRest(i)  BY <1>1, <1>3, WriteIsSilent DEF SilentStep, LocalStep
  <2> QED  BY <1>1, <1>3, <2>1, WritesLeft DEF NothingPersisted, VotePersisted
<1>4. ASSUME NEW i \in Server, ElectionPersisted(i)
      PROVE  WritesMade
  BY <1>1, <1>4, ElectionPersistedSends, WritesLeft DEF SendingStep, LocalStep
<1>5. ASSUME NEW i \in Server, AppendPersisted(i)
      PROVE  WritesMade
  <2>1. OthersRest(i)
    BY <1>1, <1>5, AppendPersistedIsSilent DEF SilentStep, LocalStep
  <2>2. writes'[i] = <<>> \/ WriteLeavesQueue(i)
    BY <1>1, <1>5 DEF AppendPersisted, Fail, TypeOK
  <2> QED  BY <1>1, <1>5, <2>1, <2>2, WritesLeft DEF AppendPersisted
<1>6. ASSUME NEW i \in Server, Crash(i)
      PROVE  WritesMade
  <2>1. OthersRest(i)  BY <1>1, <1>6, CrashIsSilent DEF SilentStep, LocalStep
  <2>2. writes'[i] = <<>>  BY <1>1, <1>6 DEF Crash, TypeOK
  <2> QED  BY <1>1, <2>1, <2>2, WritesLeft
<1>7. ASSUME NEW i \in Server, ElectionTimeout(i)
      PROVE  WritesMade
  BY <1>1, <1>7, ElectionTimeoutIsSilent, TimeoutWrites DEF SilentStep, LocalStep
<1>8. ASSUME NEW i \in Server, NEW j \in Server, VoteRequest(i, j)
      PROVE  WritesMade
  <2>1. OthersRest(j)  BY <1>1, <1>8, VoteRequestIsSilent DEF SilentStep, LocalStep
  <2>2. PICK q \in Arriving(i, j, "vote") : DenyVote(i, j, q) \/ TakeTerm(i, j, q)
    BY <1>8 DEF VoteRequest
  <2>3. CASE DenyVote(i, j, q)
    BY <1>1, <2>1, <2>3, WritesLeft DEF DenyVote
  <2>4. CASE TakeTerm(i, j, q)
    BY <1>1, <2>1, <2>4, TakeTermWrites
  <2> QED  BY <2>2, <2>3, <2>4
<1>9. ASSUME NEW i \in Server, NEW j \in Server, VoteResponse(i, j)
      PROVE  WritesMade
  <2>1. OthersRest(i)
    BY <1>1, <1>9, VoteResponseIsSilent, BecomeLeaderSends
       DEF SilentStep, SendingStep, LocalStep
  <2>2. \/ writes' = writes
        \/ \E t, r : BecomeFollower(i, t, r)
    BY <1>9 DEF VoteResponse, BecomeLeader
  <2> QED  BY <1>1, <2>1, <2>2, WritesLeft, FollowerWrites
<1>10. ASSUME NEW i \in Server, NEW j \in Server, AppendResponse(i, j)
       PROVE  WritesMade
  <2>1. OthersRest(i)
    BY <1>1, <1>10, AppendResponseIsSilent DEF SilentStep, LocalStep
  <2>2. \/ writes' = writes
        \/ \E t, r : BecomeFollower(i, t, r)
    BY <1>10 DEF AppendResponse
  <2> QED  BY <1>1, <2>1, <2>2, WritesLeft, FollowerWrites
<1>11. ASSUME NEW i \in Server, NEW j \in Server, SendAppend(i, j) \/ ConnectionLost(i, j)
       PROVE  WritesMade
  <2>1. OthersRest(i)
    BY <1>1, <1>11, SendAppendSends, ConnectionLostIsSilent
       DEF SilentStep, SendingStep, LocalStep
  <2>2. writes' = writes  BY <1>11 DEF SendAppend, ConnectionLost
  <2> QED  BY <1>1, <2>1, <2>2, WritesLeft
<1>12. ASSUME NEW i \in Server, NEW j \in Server, RefuseAppend(i, j) \/ AppendRequestFails(i, j)
       PROVE  WritesMade
  <2>1. OthersRest(j)
    BY <1>1, <1>12, RefuseAppendIsSilent, AppendRequestFailsIsSilent
       DEF SilentStep, LocalStep
  <2>2. CASE RefuseAppend(i, j)
    <3>1. writes' = writes  BY <2>2 DEF RefuseAppend
    <3> QED  BY <1>1, <2>1, <3>1, WritesLeft
  <2>3. CASE AppendRequestFails(i, j)
    <3>1. writes'[j] = <<>>  BY <1>1, <2>3 DEF AppendRequestFails, Fail, TypeOK
    <3> QED  BY <1>1, <2>1, <3>1, WritesLeft
  <2> QED  BY <1>12, <2>2, <2>3
<1>13. ASSUME NEW i \in Server, NEW j \in Server, AppendRequest(i, j)
       PROVE  WritesMade
  BY <1>13, AppendRequestWrites
<1>14. ASSUME NEW i \in Server, NEW j \in Server, BeginRead(i, j)  PROVE FALSE
  BY <1>1, <1>14 DEF BeginRead
<1>15. ASSUME NEW i \in Server, EndRead(i)  PROVE FALSE
  BY <1>1, <1>15 DEF EndRead, QueueInv, NoReading
<1>16. Next  BY DEF Stepping
<1> QED  BY <1>2, <1>3, <1>4, <1>5, <1>6, <1>7, <1>8, <1>9, <1>10, <1>11, <1>12,
            <1>13, <1>14, <1>15, <1>16 DEF Next

\* A ballot is cast for its voter, on a request that has arrived, or once the
\* vote is written.
BallotMade(b) ==
  \/ b.cand = b.voter
  \/ \E q \in VoteRequestMsg :
       Travels(q, b.cand, b.voter) /\ q.term = b.term /\ UpToDate(b.voter, q)
  \/ \E n \in 1..Len(writes[b.voter]) :
       /\ writes[b.voter][n].then = "vote" /\ writes[b.voter][n].from = b.cand
       /\ writes[b.voter][n].vote = b.cand /\ writes[b.voter][n].term = b.term

BallotsMade == \A b \in ballots' : b \in ballots \/ BallotMade(b)

LEMMA NextBallots ==
  ASSUME Dependable, NEW H, NEW H2, Stepping(H, H2)
  PROVE  BallotsMade
<1>1. TypeOK /\ TypeOK' /\ QueueInv /\ ReadOvertaken = FALSE
  BY DEF Stepping, Sane, Dependable
<1>2. CASE ballots' = ballots
  BY <1>2 DEF BallotsMade
<1>3. ASSUME NEW i \in Server,
             \/ ElectionTimeout(i) \/ NothingPersisted(i) \/ Flush(i) \/ Apply(i)
             \/ Crash(i) \/ AppendPersisted(i) \/ \E v \in Value : ClientUpdate(i, v)
      PROVE  ballots' = ballots
  BY <1>3 DEF ElectionTimeout, NothingPersisted, Flush, Apply, Crash, AppendPersisted,
     ClientUpdate, Fail, history
<1>4. ASSUME NEW i \in Server, NEW j \in Server,
             \/ VoteResponse(i, j) \/ RefuseAppend(i, j) \/ AppendRequest(i, j)
             \/ AppendRequestFails(i, j) \/ SendAppend(i, j)
             \/ AppendResponse(i, j) \/ ConnectionLost(i, j)
      PROVE  ballots' = ballots
  BY <1>4 DEF VoteResponse, RefuseAppend, AppendRequest, AppendRequestFails, SendAppend,
     AppendResponse, ConnectionLost, Fail, BecomeFollower, BecomeLeader, history
<1>5. ASSUME NEW i \in Server, ElectionPersisted(i)
      PROVE  BallotsMade
  <2>1. ~Fail(i)  BY <1>1, <1>5, ElectionPersistedSends
  <2>2. PICK t : ballots' = ballots \cup {[voter |-> i, term |-> t, cand |-> i]}
    BY <1>5, <2>1 DEF ElectionPersisted
  <2> QED  BY <2>2 DEF BallotsMade, BallotMade
<1>6. ASSUME NEW j \in Server, VotePersisted(j)
      PROVE  BallotsMade
  <2>1. PICK w : w = Head(writes[j])  OBVIOUS
  <2>2. /\ w = writes[j][1] /\ 1 \in 1..Len(writes[j]) /\ w.then = "vote"
        /\ ballots' = IF w.vote = w.from THEN Cast(w.from, j, w.term) ELSE ballots
    BY <1>1, <1>6, <2>1, HeadIsFirst DEF VotePersisted, QueueInv
  <2>3. ASSUME w.vote = w.from
        PROVE  BallotMade([voter |-> j, term |-> w.term, cand |-> w.from])
    BY <2>2, <2>3 DEF BallotMade
  <2> QED  BY <2>2, <2>3 DEF BallotsMade, Cast
<1>7. ASSUME NEW i \in Server, NEW j \in Server, VoteRequest(i, j)
      PROVE  BallotsMade
  <2>1. PICK q \in Arriving(i, j, "vote") : DenyVote(i, j, q) \/ TakeTerm(i, j, q)
    BY <1>7 DEF VoteRequest
  <2>2. q \in VoteRequestMsg /\ Travels(q, i, j)
    BY <1>1, ArrivingType, ArrivingTravels
  <2>3. CASE DenyVote(i, j, q)
    BY <1>2, <2>3 DEF DenyVote, history
  <2>4. CASE TakeTerm(i, j, q)
    <3>1. CASE Unchanged(j, q.term, IF GrantsVote(i, j, q) THEN i ELSE None)
      <4>1. q.term \in Nat /\ currentTerm[j] \in Nat
        BY <1>1, <2>2 DEF VoteRequestMsg, TypeOK
      <4>2. UpToDate(j, q)
        BY <2>4, <3>1, <4>1 DEF TakeTerm, Unchanged, GrantsVote
      <4>3. ballots' = Cast(i, j, q.term)  BY <2>4, <3>1 DEF TakeTerm
      <4>4. BallotMade([voter |-> j, term |-> q.term, cand |-> i])
        BY <2>2, <4>2 DEF BallotMade
      <4> QED  BY <4>3, <4>4 DEF BallotsMade, Cast
    <3>2. CASE ~Unchanged(j, q.term, IF GrantsVote(i, j, q) THEN i ELSE None)
      BY <1>2, <2>4, <3>2 DEF TakeTerm
    <3> QED  BY <3>1, <3>2
  <2> QED  BY <2>1, <2>3, <2>4
<1>8. ASSUME NEW i \in Server, NEW j \in Server, BeginRead(i, j)  PROVE FALSE
  BY <1>1, <1>8 DEF BeginRead
<1>9. ASSUME NEW i \in Server, EndRead(i)  PROVE FALSE
  BY <1>1, <1>9 DEF EndRead, QueueInv, NoReading
<1>10. Next  BY DEF Stepping
<1> QED  BY <1>2, <1>3, <1>4, <1>5, <1>6, <1>7, <1>8, <1>9, <1>10 DEF Next

-----------------------------------------------------------------------------
(* The requests a step leaves behind and those it sends. *)

\* A leader that stays leaves none behind, nor does a step that makes one.
StaleMade ==
  \A m \in stale' :
    \/ m \in stale
    \/ /\ rpc[m.from][m.to] # None /\ m.req = rpc[m.from][m.to].req
       /\ state'[m.from] # FSM_LEADER \/ m.req.type = "vote"

LEMMA OrphansLeft ==
  ASSUME NEW i \in Server, NEW S,
         stale' \subseteq stale \cup Orphans(i, S), state'[i] # FSM_LEADER
  PROVE  StaleMade
  BY DEF StaleMade, Orphans

LEMMA NoneLeft ==
  ASSUME stale' \subseteq stale
  PROVE  StaleMade
  BY DEF StaleMade

LEMMA UpdateLeaves ==
  ASSUME TypeOK, NEW i \in Server, NEW st \in {FSM_FOLLOWER, FSM_CANDIDATE},
         NEW t, NEW v, NEW then, NEW from, NEW req,
         UpdateState(i, st, t, v, then, from, req),
         stale' \subseteq stale \cup CancelledRequests(i)
  PROVE  StaleMade
<1>1. stale' \subseteq stale \cup Orphans(i, Server)
  BY DEF CancelledRequests
<1>2. state'[i] # FSM_LEADER
  BY DEF UpdateState, TypeOK, FSM_FOLLOWER, FSM_CANDIDATE, FSM_LEADER
<1> QED  BY <1>1, <1>2, OrphansLeft

LEMMA FollowerLeaves ==
  ASSUME TypeOK, NEW i \in Server, NEW t, NEW r, BecomeFollower(i, t, r)
  PROVE  StaleMade
<1>1. /\ UpdateState(i, FSM_FOLLOWER, t, None, "nothing", None, None)
      /\ stale' = stale \cup CancelledRequests(i)
  BY DEF BecomeFollower
<1> QED  BY <1>1, UpdateLeaves

LEMMA FailLeaves ==
  ASSUME TypeOK, NEW i \in Server, Fail(i)
  PROVE  StaleMade
<1>1. stale' = stale \cup Orphans(i, Server) /\ state'[i] # FSM_LEADER
  BY DEF Fail, TypeOK, DOWN, FSM_LEADER
<1> QED  BY <1>1, OrphansLeft

LEMMA VotesLeft ==
  ASSUME NEW i \in Server, \A y \in Server : rpc[i][y] # None => rpc[i][y].req.type = "vote",
         NEW j \in Server, rpc[i][j] # None,
         NEW S \in SUBSET Server,
         stale' \subseteq stale \cup Orphans(i, S) \cup LateResends(i, j)
  PROVE  StaleMade
  BY DEF StaleMade, Orphans, LateResends

LEMMA NextStale ==
  ASSUME Dependable, NEW H, NEW H2, Stepping(H, H2)
  PROVE  StaleMade
<1>1. TypeOK /\ TypeOK' /\ QueueInv /\ ReadOvertaken = FALSE
  BY DEF Stepping, Sane, Dependable
<1>2. ASSUME NEW i \in Server,
             \/ NothingPersisted(i) \/ VotePersisted(i) \/ Flush(i) \/ Apply(i)
             \/ \E v \in Value : ClientUpdate(i, v)
      PROVE  StaleMade
  <2>1. stale' = stale
    BY <1>2 DEF NothingPersisted, VotePersisted, Flush, Apply, ClientUpdate, network
  <2> QED  BY <2>1, NoneLeft
<1>3. ASSUME NEW i \in Server, ElectionPersisted(i)
      PROVE  StaleMade
  <2>1. ~Fail(i)  BY <1>1, <1>3, ElectionPersistedSends
  <2>2. stale' = stale  BY <1>3, <2>1 DEF ElectionPersisted
  <2> QED  BY <2>2, NoneLeft
<1>4. ASSUME NEW i \in Server, AppendPersisted(i)
      PROVE  StaleMade
  <2>1. CASE Fail(i)  BY <1>1, <2>1, FailLeaves
  <2>2. CASE ~Fail(i)
    <3>1. stale' = stale  BY <1>4, <2>2 DEF AppendPersisted
    <3> QED  BY <3>1, NoneLeft
  <2> QED  BY <2>1, <2>2
<1>5. ASSUME NEW i \in Server, Crash(i)
      PROVE  StaleMade
  <2>1. stale' = stale \cup Orphans(i, Server) /\ state'[i] # FSM_LEADER
    BY <1>1, <1>5 DEF Crash, TypeOK, FSM_FOLLOWER, FSM_LEADER
  <2> QED  BY <2>1, OrphansLeft
<1>6. ASSUME NEW i \in Server, ElectionTimeout(i)
      PROVE  StaleMade
  BY <1>1, <1>6, UpdateLeaves DEF ElectionTimeout
<1>7. ASSUME NEW i \in Server, NEW j \in Server, VoteRequest(i, j)
      PROVE  StaleMade
  <2>1. PICK q \in Arriving(i, j, "vote") : DenyVote(i, j, q) \/ TakeTerm(i, j, q)
    BY <1>7 DEF VoteRequest
  <2>2. CASE DenyVote(i, j, q)
    BY <2>2, NoneLeft DEF DenyVote
  <2>3. CASE TakeTerm(i, j, q)
    BY <1>1, <2>3, UpdateLeaves DEF TakeTerm
  <2> QED  BY <2>1, <2>2, <2>3
<1>8. ASSUME NEW i \in Server, NEW j \in Server, VoteResponse(i, j)
      PROVE  StaleMade
  <2>1. /\ rpc[i][j] # None
        /\ \A y \in Server : rpc[i][y] # None => rpc[i][y].req.type = "vote"
    <3>1. rpc[i][j] # None /\ rpc[i][j].req.type = "vote"  BY <1>8 DEF VoteResponse
    <3>2. CallsMatchRole(i)  BY <1>1 DEF QueueInv, QueueOK
    <3>3. state[i] = FSM_CANDIDATE  BY <3>1, <3>2 DEF CallsMatchRole
    <3> QED  BY <3>1, <3>2, <3>3 DEF CallsMatchRole, FSM_CANDIDATE, FSM_LEADER
  <2>2. \/ \E t, r : BecomeFollower(i, t, r)
        \/ \E S \in SUBSET Server :
             stale' \subseteq stale \cup Orphans(i, S) \cup LateResends(i, j)
    <3>1. \/ \E t, r : BecomeFollower(i, t, r)
          \/ stale' = stale \cup Orphans(i, Peers(i) \ {j}) \cup LateResends(i, j)
          \/ stale' = stale \cup LateResends(i, j)
      BY <1>8 DEF VoteResponse
    <3>2. Peers(i) \ {j} \in SUBSET Server  BY DEF Peers
    <3> QED  BY <3>1, <3>2
  <2> QED  BY <1>1, <2>1, <2>2, FollowerLeaves, VotesLeft
<1>9. ASSUME NEW i \in Server, NEW j \in Server, AppendResponse(i, j)
      PROVE  StaleMade
  <2>1. stale' = stale \/ \E t, r : BecomeFollower(i, t, r)
    BY <1>9 DEF AppendResponse
  <2> QED  BY <1>1, <2>1, FollowerLeaves, NoneLeft
<1>10. ASSUME NEW i \in Server, NEW j \in Server,
              SendAppend(i, j) \/ ConnectionLost(i, j) \/ RefuseAppend(i, j)
       PROVE  StaleMade
  BY <1>10, NoneLeft DEF SendAppend, ConnectionLost, RefuseAppend, StillTravelling
<1>11. ASSUME NEW i \in Server, NEW j \in Server, AppendRequestFails(i, j)
       PROVE  StaleMade
  BY <1>1, <1>11, FailLeaves DEF AppendRequestFails
<1>12. ASSUME NEW i \in Server, NEW j \in Server, AppendRequest(i, j)
       PROVE  StaleMade
  <2>1. PICK q \in ArrivingAppends(i, j) :
          /\ TermIsRead(j, i, q, q.term, CapturedVote(j, q), MarkSeen(i, j, q), TRUE)
          /\ stale' = StillTravelling(i, j, q) \cup CancelledRequests(j)
    BY <1>12 DEF AppendRequest
  <2>2. stale' \subseteq stale \cup CancelledRequests(j)
    BY <2>1 DEF StillTravelling
  <2> QED  BY <1>1, <2>1, <2>2, UpdateLeaves DEF TermIsRead
<1>13. ASSUME NEW i \in Server, NEW j \in Server, BeginRead(i, j)  PROVE FALSE
  BY <1>1, <1>13 DEF BeginRead
<1>14. ASSUME NEW i \in Server, EndRead(i)  PROVE FALSE
  BY <1>1, <1>14 DEF EndRead, QueueInv, NoReading
<1>15. Next  BY DEF Stepping
<1> QED  BY <1>2, <1>3, <1>4, <1>5, <1>6, <1>7, <1>8, <1>9, <1>10, <1>11, <1>12,
            <1>13, <1>14, <1>15 DEF Next


-----------------------------------------------------------------------------
(* Requests that are sent. *)

\* To a peer that may vote for i, ...
AsksForVote(i, q) ==
  /\ state[i] = FSM_CANDIDATE /\ q \in VoteRequestMsg
  /\ q.lastIndex = Len(log[i]) /\ q.lastTerm = LastTermOf(log[i])

\* ... to a follower of which the leader waits for no answer, and to all peers
\* when i has won.
SendsEntries(i, j, q) ==
  /\ q \in AppendRequestMsg /\ q.commit = commitIndex[i]
  /\ \/ state[i] = FSM_LEADER /\ rpc[i][j] = None /\ q.prev = nextIndex[i][j] - 1
     \/ /\ state[i] = FSM_CANDIDATE /\ state'[i] = FSM_LEADER
        /\ q.prev = Len(log[i]) /\ q.entries = <<>>

Sent(i, j, q) ==
  /\ i # j /\ rpc'[i][j] # None /\ rpc'[i][j].req = q /\ q.term = currentTerm[i]
  /\ AsksForVote(i, q) \/ SendsEntries(i, j, q)
  /\ UNCHANGED <<log, commitIndex, currentTerm>>

SendsMade ==
  \A i, j \in Server : \A q : Travels(q, i, j)' => Travels(q, i, j) \/ Sent(i, j, q)

LEMMA NothingSentMade ==
  ASSUME TypeOK, TypeOK', QueueInv, NEW i \in Server, SilentStep(i)
  PROVE  SendsMade
<1>1. NoNewTravel  BY SilentStepKeepsQueueInv
<1> QED  BY <1>1 DEF SendsMade, NoNewTravel

LEMMA ElectionSendsMade ==
  ASSUME TypeOK, TypeOK', QueueInv, NEW i \in Server, ElectionPersisted(i)
  PROVE  SendsMade
<1> DEFINE t == Head(writes[i]).term
           req == [type |-> "vote", term |-> t, lastIndex |-> Len(log[i]),
                   lastTerm |-> LastTermOf(log[i])]
           c == [req |-> req, seen |-> FALSE, reply |-> None]
<1>1. /\ SendingStep(i) /\ ~Fail(i) /\ t = currentTerm[i] /\ state[i] = FSM_CANDIDATE
  BY ElectionPersistedSends
<1>2. SentBy(i)  BY <1>1, SendingStepKeepsQueueInv
<1>3. /\ rpc' = [rpc EXCEPT ![i] = [j \in Server |-> IF j = i THEN None ELSE c]]
      /\ UNCHANGED <<log, commitIndex, currentTerm>>
  BY <1>1 DEF ElectionPersisted
<1>4. /\ c.req = req /\ req.type = "vote" /\ req.term = currentTerm[i]
      /\ req.lastIndex = Len(log[i]) /\ req.lastTerm = LastTermOf(log[i])
  BY <1>1
<1> HIDE DEF c, req
<1>5. \A y \in Server : rpc'[i][y] = IF y = i THEN None ELSE c
  BY <1>3 DEF TypeOK
<1> SUFFICES ASSUME NEW x \in Server, NEW y \in Server, NEW q,
                    Travels(q, x, y)', ~Travels(q, x, y)
             PROVE  Sent(x, y, q)
  BY DEF SendsMade
<1>6. x = i /\ rpc'[x][y] # None /\ rpc'[x][y].req = q  BY <1>2 DEF SentBy
<1>7. x # y /\ q = req  BY <1>4, <1>5, <1>6
<1>8. q \in VoteRequestMsg
  <2>1. rpc'[x][y].req \in Request
    <3>1. rpc' \in [Server -> [Server -> Call \cup {None}]]  BY DEF TypeOK
    <3>2. rpc'[x][y] \in Call  BY <1>6, <3>1
    <3> QED  BY <3>2 DEF Call
  <2> QED  BY <1>4, <1>6, <1>7, <2>1 DEF Request, AppendRequestMsg
<1> QED  BY <1>1, <1>3, <1>4, <1>6, <1>7, <1>8 DEF Sent, AsksForVote

LEMMA WinnerSendsMade ==
  ASSUME TypeOK, TypeOK', QueueInv, NEW i \in Server, NEW j \in Server,
         VoteResponse(i, j), BecomeLeader(i)
  PROVE  SendsMade
<1> DEFINE req == [type |-> "append", term |-> currentTerm[i], prev |-> Len(log[i]),
                   prevTerm |-> LastTermOf(log[i]), commit |-> commitIndex[i],
                   entries |-> <<>>]
           c == [req |-> req, seen |-> FALSE, reply |-> None]
<1>1. SendingStep(i) /\ state[i] = FSM_CANDIDATE  BY BecomeLeaderSends
<1>2. SentBy(i)  BY <1>1, SendingStepKeepsQueueInv
<1>3. /\ rpc' = [rpc EXCEPT ![i] = [k \in Server |-> IF k = i THEN None ELSE c]]
      /\ state'[i] = FSM_LEADER
      /\ UNCHANGED <<log, commitIndex, currentTerm>>
  BY DEF BecomeLeader, TypeOK
<1>4. /\ c.req = req /\ req.type = "append" /\ req.term = currentTerm[i]
      /\ req.prev = Len(log[i]) /\ req.commit = commitIndex[i] /\ req.entries = <<>>
  OBVIOUS
<1> HIDE DEF c, req
<1>5. \A y \in Server : rpc'[i][y] = IF y = i THEN None ELSE c
  BY <1>3 DEF TypeOK
<1> SUFFICES ASSUME NEW x \in Server, NEW y \in Server, NEW q,
                    Travels(q, x, y)', ~Travels(q, x, y)
             PROVE  Sent(x, y, q)
  BY DEF SendsMade
<1>6. x = i /\ rpc'[x][y] # None /\ rpc'[x][y].req = q  BY <1>2 DEF SentBy
<1>7. x # y /\ q = req  BY <1>4, <1>5, <1>6
<1>8. q \in AppendRequestMsg
  <2>1. rpc'[x][y].req \in Request
    <3>1. rpc' \in [Server -> [Server -> Call \cup {None}]]  BY DEF TypeOK
    <3>2. rpc'[x][y] \in Call  BY <1>6, <3>1
    <3> QED  BY <3>2 DEF Call
  <2> QED  BY <1>4, <1>6, <1>7, <2>1 DEF Request, VoteRequestMsg
<1>9. FSM_LEADER # FSM_CANDIDATE  BY DEF FSM_LEADER, FSM_CANDIDATE
<1> QED  BY <1>1, <1>3, <1>4, <1>6, <1>7, <1>8, <1>9 DEF Sent, SendsEntries

LEMMA SendAppendSendsMade ==
  ASSUME TypeOK, TypeOK', QueueInv, NEW i \in Server, NEW j \in Server,
         SendAppend(i, j)
  PROVE  SendsMade
<1>1. SendingStep(i)  BY SendAppendSends
<1>2. SentBy(i)  BY <1>1, SendingStepKeepsQueueInv
<1>3. PICK n : rpc' = [rpc EXCEPT ![i][j] =
        [req |-> [type |-> "append", term |-> currentTerm[i],
                  prev |-> nextIndex[i][j] - 1,
                  prevTerm |-> TermAt(log[i], nextIndex[i][j] - 1),
                  commit |-> commitIndex[i],
                  entries |-> SubSeq(log[i], nextIndex[i][j] - 1 + 1,
                                     nextIndex[i][j] - 1 + n)],
         seen |-> FALSE, reply |-> None]]
  BY DEF SendAppend
<1> DEFINE req == [type |-> "append", term |-> currentTerm[i],
                   prev |-> nextIndex[i][j] - 1,
                   prevTerm |-> TermAt(log[i], nextIndex[i][j] - 1),
                   commit |-> commitIndex[i],
                   entries |-> SubSeq(log[i], nextIndex[i][j] - 1 + 1,
                                      nextIndex[i][j] - 1 + n)]
           c == [req |-> req, seen |-> FALSE, reply |-> None]
<1>4. /\ c.req = req /\ req.type = "append" /\ req.term = currentTerm[i]
      /\ req.prev = nextIndex[i][j] - 1 /\ req.commit = commitIndex[i]
  OBVIOUS
<1>5. rpc' = [rpc EXCEPT ![i][j] = c]  BY <1>3
<1> HIDE <1>3
<1> HIDE DEF c, req
<1>6. /\ state[i] = FSM_LEADER /\ i # j /\ rpc[i][j] = None
      /\ UNCHANGED <<log, commitIndex, currentTerm>>
  BY DEF SendAppend
<1>7. \A y \in Server : rpc'[i][y] = IF y = j THEN c ELSE rpc[i][y]
  <2>1. rpc \in [Server -> [Server -> Call \cup {None}]] /\ rpc[i] \in [Server -> Call \cup {None}]
    BY DEF TypeOK
  <2> QED  BY <1>5, <2>1
<1> SUFFICES ASSUME NEW x \in Server, NEW y \in Server, NEW q,
                    Travels(q, x, y)', ~Travels(q, x, y)
             PROVE  Sent(x, y, q)
  BY DEF SendsMade
<1>8. x = i /\ rpc'[x][y] # None /\ rpc'[x][y].req = q  BY <1>2 DEF SentBy
<1>9. y = j
  BY <1>7, <1>8 DEF Travels
<1>10. q = req  BY <1>4, <1>7, <1>8, <1>9
<1>11. q \in AppendRequestMsg
  <2>1. rpc'[x][y].req \in Request
    <3>1. rpc' \in [Server -> [Server -> Call \cup {None}]]  BY DEF TypeOK
    <3>2. rpc'[x][y] \in Call  BY <1>8, <3>1
    <3> QED  BY <3>2 DEF Call
  <2> QED  BY <1>4, <1>8, <1>10, <2>1 DEF Request, VoteRequestMsg
<1> QED  BY <1>4, <1>6, <1>8, <1>9, <1>10, <1>11 DEF Sent, SendsEntries

LEMMA NextSends ==
  ASSUME Dependable, NEW H, NEW H2, Stepping(H, H2)
  PROVE  SendsMade
<1>1. TypeOK /\ TypeOK' /\ QueueInv /\ ReadOvertaken = FALSE /\ Next
  BY DEF Stepping, Sane, Dependable
<1>2. ASSUME NEW i \in Server,
             \/ ElectionTimeout(i) \/ NothingPersisted(i) \/ VotePersisted(i)
             \/ AppendPersisted(i) \/ Flush(i) \/ Apply(i) \/ Crash(i)
             \/ \E v \in Value : ClientUpdate(i, v)
      PROVE  SendsMade
  BY <1>1, <1>2, ElectionTimeoutIsSilent, WriteIsSilent, AppendPersistedIsSilent,
     ClientIsSilent, CrashIsSilent, NothingSentMade
<1>3. ASSUME NEW i \in Server, NEW j \in Server,
             VoteRequest(i, j) \/ RefuseAppend(i, j) \/ AppendRequest(i, j)
             \/ AppendRequestFails(i, j)
      PROVE  SendsMade
  BY <1>1, <1>3, VoteRequestIsSilent, RefuseAppendIsSilent, AppendRequestIsSilent,
     AppendRequestFailsIsSilent, NothingSentMade
<1>4. ASSUME NEW i \in Server, NEW j \in Server,
             AppendResponse(i, j) \/ ConnectionLost(i, j)
      PROVE  SendsMade
  BY <1>1, <1>4, AppendResponseIsSilent, ConnectionLostIsSilent, NothingSentMade
<1>5. ASSUME NEW i \in Server, NEW j \in Server, VoteResponse(i, j)
      PROVE  SendsMade
  BY <1>1, <1>5, VoteResponseIsSilent, NothingSentMade, WinnerSendsMade
<1>6. ASSUME NEW i \in Server, NEW j \in Server, SendAppend(i, j)
      PROVE  SendsMade
  BY <1>1, <1>6, SendAppendSendsMade
<1>7. ASSUME NEW i \in Server, ElectionPersisted(i)
      PROVE  SendsMade
  BY <1>1, <1>7, ElectionSendsMade
<1>8. ASSUME NEW i \in Server, NEW j \in Server, BeginRead(i, j)  PROVE FALSE
  BY <1>1, <1>8 DEF BeginRead
<1>9. ASSUME NEW i \in Server, EndRead(i)  PROVE FALSE
  BY <1>1, <1>9 DEF EndRead, QueueInv, NoReading
<1> QED  BY <1>1, <1>2, <1>3, <1>4, <1>5, <1>6, <1>7, <1>8, <1>9 DEF Next

-----------------------------------------------------------------------------
(* A leader's view of its followers. *)

\* The calls that the peers in S have in r stay in s.
Lasting(r, s, S) == \A x \in S : \A y \in Server : r[x][y] # None => s[x][y] # None

LEMMA SendReplyLasts ==
  ASSUME NEW r \in RpcType, NEW i \in Server, NEW j \in Server, NEW q, NEW a \in Reply
  PROVE  Lasting(r, SendReply(r, i, j, q, a), Server)
<1> SUFFICES ASSUME NEW x \in Server, NEW y \in Server, r[x][y] # None
             PROVE  SendReply(r, i, j, q, a)[x][y] # None
  BY DEF Lasting
<1>1. CASE r[i][j] # None /\ r[i][j].req = q /\ r[i][j].reply = None
  <2> DEFINE c == [r[i][j] EXCEPT !.reply = a]
  <2>1. r[i] \in [Server -> Call \cup {None}] /\ r[i][j] \in Call
        /\ r[x] \in [Server -> Call \cup {None}]
    BY <1>1 DEF RpcType
  <2>2. c # None
    <3>1. c \in Call  BY <2>1 DEF Call
    <3> QED  BY <3>1, NoneAssumption
  <2>3. SendReply(r, i, j, q, a)[x][y] = IF x = i /\ y = j THEN c ELSE r[x][y]
    BY <1>1, <2>1 DEF SendReply, RpcType
  <2> HIDE DEF c
  <2> QED  BY <1>1, <2>2, <2>3
<1>2. CASE ~(r[i][j] # None /\ r[i][j].req = q /\ r[i][j].reply = None)
  BY <1>2 DEF SendReply
<1> QED  BY <1>1, <1>2

LEMMA CancelLasts ==
  ASSUME NEW r \in RpcType, NEW i \in Server
  PROVE  Lasting(r, CancelPendingRpcs(r, i), Peers(i))
  BY DEF Lasting, CancelPendingRpcs, RpcType, Peers

LEMMA MarkSeenLasts ==
  ASSUME rpc \in RpcType, NEW i \in Server, NEW j \in Server, NEW q
  PROVE  Lasting(rpc, MarkSeen(i, j, q), Server)
<1> SUFFICES ASSUME NEW x \in Server, NEW y \in Server, rpc[x][y] # None
             PROVE  MarkSeen(i, j, q)[x][y] # None
  BY DEF Lasting
<1>1. CASE Unseen(i, j, q)
  <2> DEFINE c == [rpc[i][j] EXCEPT !.seen = TRUE]
  <2>1. /\ rpc[i] \in [Server -> Call \cup {None}]
        /\ rpc[x] \in [Server -> Call \cup {None}]
        /\ rpc[i][j] \in Call
    BY <1>1 DEF RpcType, Unseen
  <2>2. c # None
    <3>1. c \in Call  BY <2>1 DEF Call
    <3> QED  BY <3>1, NoneAssumption
  <2>3. MarkSeen(i, j, q)[x][y] = IF x = i /\ y = j THEN c ELSE rpc[x][y]
    BY <1>1, <2>1 DEF RpcType, MarkSeen
  <2> HIDE DEF c
  <2> QED  BY <2>2, <2>3
<1>2. CASE ~Unseen(i, j, q)
  BY <1>2 DEF MarkSeen
<1> QED  BY <1>1, <1>2

\* The leader i goes on as it was with k, ...
LeadsOn(i, k) ==
  /\ state[i] = FSM_LEADER /\ currentTerm'[i] = currentTerm[i]
  /\ nextIndex'[i][k] = nextIndex[i][k] /\ matchIndex'[i][k] = matchIndex[i][k]
  /\ rpc[i][k] # None => rpc'[i][k] # None

\* ... learns what k has answered, ...
Learns(i, k) ==
  LET q == rpc[i][k].req
      a == rpc[i][k].reply
  IN /\ state[i] = FSM_LEADER /\ currentTerm'[i] = currentTerm[i] /\ log' = log
     /\ HasReply(i, k) /\ a.term <= q.term /\ q.term = currentTerm[i]
     /\ \/ /\ a.ok
           /\ nextIndex'[i][k] = SentLastIndex(q) + 1
           /\ matchIndex'[i][k] = SentLastIndex(q)
        \/ /\ ~a.ok
           /\ nextIndex'[i][k] =
                IF a.conflict # 0 /\ a.conflict < q.prev THEN a.conflict ELSE q.prev
           /\ matchIndex'[i][k] = matchIndex[i][k]

\* ... or has just won.
LeadsAnew(i, k) ==
  /\ state[i] = FSM_CANDIDATE /\ Victory(i, currentTerm[i]) \in elected'
  /\ rpc'[i][k] # None /\ matchIndex'[i][k] = 0

ProgressMade ==
  \A i \in Server : state'[i] = FSM_LEADER => \A k \in Peers(i) :
    LeadsOn(i, k) \/ Learns(i, k) \/ LeadsAnew(i, k)

LEMMA ProgressStays ==
  ASSUME TypeOK, RolesContinue, NEW k \in Server, OthersRest(k), Lasting(rpc, rpc', Peers(k)),
         state'[k] = FSM_LEADER =>
           /\ nextIndex'[k] = nextIndex[k] /\ matchIndex'[k] = matchIndex[k]
           /\ Lasting(rpc, rpc', Server)
  PROVE  ProgressMade
  BY DEF ProgressMade, LeadsOn, RolesContinue, OthersRest, Rests, Lasting, Peers

LEMMA RpcStays ==
  ASSUME TypeOK, RolesContinue, UNCHANGED <<rpc, progress>>
  PROVE  ProgressMade
  BY DEF ProgressMade, LeadsOn, RolesContinue, progress

LEMMA AnswerType ==
  ASSUME NEW t \in Nat, NEW ok \in BOOLEAN
  PROVE  Answer(t, ok) \in Reply
  BY DEF Answer, Reply

LEMMA FinishAppendLasts ==
  ASSUME TypeOK, NEW i \in Server, NEW j \in Server, NEW q, NEW t \in Nat,
         NEW ok \in BOOLEAN, NEW r \in RpcType, NEW S, S \subseteq Server, Lasting(rpc, r, S),
         FinishAppend(j, i, q, t, ok, r)
  PROVE  Lasting(rpc, rpc', S)
<1> DEFINE conflict == IF ~ok /\ Len(log[j]) < q.prev THEN Len(log[j]) + 1 ELSE 0
           a == [term |-> t, ok |-> ok, conflict |-> conflict]
<1>1. conflict \in Nat  BY DEF TypeOK
<1>2. a \in Reply  BY <1>1 DEF Reply
<1>3. rpc' = SendReply(r, i, j, q, a)  BY DEF FinishAppend
<1> HIDE DEF a
<1>4. Lasting(r, rpc', Server)  BY <1>2, <1>3, SendReplyLasts
<1> QED  BY <1>4 DEF Lasting

LEMMA VoteStepProgress ==
  ASSUME TypeOK, TypeOK', QueueInv, RolesContinue,
         NEW i \in Server, NEW j \in Server, VoteRequest(i, j)
  PROVE  ProgressMade
<1>1. PICK q \in Arriving(i, j, "vote") : DenyVote(i, j, q) \/ TakeTerm(i, j, q)
  BY DEF VoteRequest
<1>2. rpc \in RpcType /\ currentTerm[j] \in Nat /\ q.term \in Nat
  <2>1. q \in VoteRequestMsg  BY ArrivingType
  <2> QED  BY <2>1, Sockets DEF VoteRequestMsg, TypeOK
<1>3. CASE DenyVote(i, j, q)
  <2>1. rpc' = SendReply(rpc, i, j, q, Answer(currentTerm[j], FALSE))
        /\ UNCHANGED progress
    BY <1>3 DEF DenyVote
  <2>2. Lasting(rpc, rpc', Server)  BY <1>2, <2>1, AnswerType, SendReplyLasts
  <2> QED  BY <2>1, <2>2 DEF ProgressMade, LeadsOn, RolesContinue, progress, Lasting, Peers
<1>4. CASE TakeTerm(i, j, q)
  <2> DEFINE r == CancelPendingRpcs(rpc, j)
             grant == GrantsVote(i, j, q)
  <2>1. r \in RpcType /\ Lasting(rpc, r, Peers(j))
    BY <1>2, CancelType, CancelLasts
  <2>2. grant \in BOOLEAN  BY DEF GrantsVote, UpToDate
  <2>3. rpc' = r \/ rpc' = SendReply(r, i, j, q, Answer(q.term, grant))
    BY <1>4 DEF TakeTerm
  <2>4. state'[j] = FSM_FOLLOWER  BY <1>4 DEF TakeTerm, UpdateState, TypeOK
  <2> HIDE DEF r, grant
  <2>5. Lasting(rpc, rpc', Peers(j))
    <3>1. CASE rpc' = r  BY <2>1, <3>1
    <3>2. CASE rpc' = SendReply(r, i, j, q, Answer(q.term, grant))
      <4>1. Lasting(r, rpc', Server)  BY <1>2, <2>1, <2>2, <3>2, AnswerType, SendReplyLasts
      <4> QED  BY <2>1, <4>1 DEF Lasting, Peers
    <3> QED  BY <2>3, <3>1, <3>2
  <2>6. OthersRest(j)  BY VoteRequestIsSilent DEF SilentStep, LocalStep
  <2>7. state'[j] # FSM_LEADER  BY <2>4 DEF FSM_FOLLOWER, FSM_LEADER
  <2> QED  BY <2>5, <2>6, <2>7, ProgressStays
<1> QED  BY <1>1, <1>3, <1>4

LEMMA VotePersistedProgress ==
  ASSUME TypeOK, QueueInv, RolesContinue, NEW j \in Server, VotePersisted(j)
  PROVE  ProgressMade
<1>1. PICK w : w = Head(writes[j])  OBVIOUS
<1>2. /\ w \in Write /\ w.then = "vote"
      /\ rpc' = SendReply(rpc, w.from, j, w.req, Answer(w.term, w.vote = w.from))
      /\ UNCHANGED progress
  BY <1>1, HeadIsFirst DEF VotePersisted, QueueInv
<1>3. w.from \in Server /\ w.term \in Nat  BY <1>2 DEF Write
<1>4. Answer(w.term, w.vote = w.from) \in Reply  BY <1>3, AnswerType
<1>5. Lasting(rpc, rpc', Server)  BY <1>2, <1>3, <1>4, Sockets, SendReplyLasts
<1> QED  BY <1>2, <1>5 DEF ProgressMade, LeadsOn, RolesContinue, progress, Lasting, Peers

LEMMA RefuseAppendProgress ==
  ASSUME TypeOK, QueueInv, RolesContinue, NEW i \in Server, NEW j \in Server,
         RefuseAppend(i, j)
  PROVE  ProgressMade
<1>1. PICK q : rpc' = SendReply(MarkSeen(i, j, q), i, j, q, Answer(currentTerm[j], FALSE))
  BY DEF RefuseAppend
<1>2. UNCHANGED progress  BY DEF RefuseAppend
<1> DEFINE m == MarkSeen(i, j, q)
<1>3. m \in RpcType /\ Lasting(rpc, m, Server)
  BY Sockets, MarkSeenType, MarkSeenLasts
<1>4. Answer(currentTerm[j], FALSE) \in Reply  BY AnswerType DEF TypeOK
<1> HIDE DEF m
<1>5. rpc' = SendReply(m, i, j, q, Answer(currentTerm[j], FALSE))  BY <1>1 DEF m
<1>6. Lasting(m, rpc', Server)  BY <1>3, <1>4, <1>5, SendReplyLasts
<1>7. Lasting(rpc, rpc', Server)  BY <1>3, <1>6 DEF Lasting
<1> QED  BY <1>2, <1>7 DEF ProgressMade, LeadsOn, RolesContinue, progress, Lasting, Peers

LEMMA AppendRequestProgress ==
  ASSUME Dependable, NEW H, NEW H2, Stepping(H, H2), RolesContinue,
         NEW i \in Server, NEW j \in Server, AppendRequest(i, j)
  PROVE  ProgressMade
<1>1. PICK q : HandledAppend(i, j, q)  BY AppendRequestHandled
<1>2. TypeOK /\ OthersRest(j)
  BY AppendRequestIsSilent DEF SilentStep, LocalStep, Stepping, Sane
<1> DEFINE m == MarkSeen(i, j, q)
           r == CancelPendingRpcs(m, j)
           ok == PrevMatches(log[j], q)
<1>3. /\ state'[j] = FSM_FOLLOWER /\ q \in AppendRequestMsg
      /\ FinishAppend(j, i, q, q.term, ok, r) \/ rpc' = r
  BY <1>1 DEF HandledAppend
<1>4. m \in RpcType /\ Lasting(rpc, m, Server)
  BY <1>2, Sockets, MarkSeenType, MarkSeenLasts
<1>5. r \in RpcType /\ Lasting(m, r, Peers(j))
  BY <1>4, CancelType, CancelLasts
<1>6. Lasting(rpc, r, Peers(j))  BY <1>4, <1>5 DEF Lasting, Peers
<1>7. q.term \in Nat /\ ok \in BOOLEAN /\ Peers(j) \subseteq Server
  BY <1>3, SliceType DEF PrevMatches, Peers
<1> HIDE DEF m, r, ok
<1>8. Lasting(rpc, rpc', Peers(j))
  BY <1>2, <1>3, <1>5, <1>6, <1>7, FinishAppendLasts
<1>9. state'[j] # FSM_LEADER  BY <1>3 DEF FSM_FOLLOWER, FSM_LEADER
<1> QED  BY <1>2, <1>8, <1>9, ProgressStays

LEMMA AppendPersistedProgress ==
  ASSUME NEW H, NEW H2, Stepping(H, H2), RolesContinue, NEW j \in Server, AppendPersisted(j)
  PROVE  ProgressMade
<1>0. PICK w : w = Head(writes[j])  OBVIOUS
<1>1. TypeOK /\ OthersRest(j)
  BY AppendPersistedIsSilent DEF SilentStep, LocalStep, Stepping, Sane
<1>2. state[j] = FSM_FOLLOWER /\ w.from \in Server /\ w.term \in Nat
  <2>1. state[j] = FSM_FOLLOWER /\ w.from \in Server /\ w.req \in AppendRequestMsg
        /\ w.term = w.req.term
    BY <1>0, WaitedFor
  <2> QED  BY <2>1, SliceType
<1>3. CASE Fail(j)
  <2>1. rpc' = [rpc EXCEPT ![j] = Idle] /\ state'[j] = DOWN
    BY <1>1, <1>3 DEF Fail, TypeOK
  <2>2. Lasting(rpc, rpc', Peers(j))  BY <1>1, <2>1 DEF Lasting, Peers, TypeOK
  <2>3. state'[j] # FSM_LEADER  BY <2>1 DEF DOWN, FSM_LEADER
  <2> QED  BY <1>1, <2>2, <2>3, ProgressStays
<1>4. CASE ~Fail(j)
  <2>1. FinishAppend(j, w.from, w.req, w.term, w.then = "append", rpc) /\ state' = state
    BY <1>0, <1>4, WaitedFor
  <2>2. (w.then = "append") \in BOOLEAN /\ rpc \in RpcType /\ Lasting(rpc, rpc, Server)
    BY <1>1, Sockets DEF Lasting
  <2>3. Lasting(rpc, rpc', Server)
    BY <1>1, <1>2, <2>1, <2>2, FinishAppendLasts
  <2>4. Lasting(rpc, rpc', Peers(j))  BY <2>3 DEF Lasting, Peers
  <2>5. state'[j] # FSM_LEADER  BY <1>2, <2>1 DEF FSM_FOLLOWER, FSM_LEADER
  <2> QED  BY <1>1, <2>4, <2>5, ProgressStays
<1> QED  BY <1>3, <1>4

LEMMA ConnectionLostProgress ==
  ASSUME TypeOK, RolesContinue, NEW i \in Server, NEW j \in Server, ConnectionLost(i, j)
  PROVE  ProgressMade
<1>1. /\ rpc' = [rpc EXCEPT ![i][j].seen = FALSE, ![i][j].reply = None]
      /\ rpc[i][j] # None /\ UNCHANGED progress
  BY DEF ConnectionLost
<1>2. \A x \in Server : rpc[x] \in [Server -> Call \cup {None}]  BY DEF TypeOK
<1>3. rpc[i][j] \in Call  BY <1>1, <1>2
<1> DEFINE c == [rpc[i][j] EXCEPT !.seen = FALSE, !.reply = None]
<1>4. c # None
  <2>1. c \in Call  BY <1>3 DEF Call
  <2> QED  BY <2>1, NoneAssumption
<1>5. \A x, y \in Server : rpc'[x][y] = IF x = i /\ y = j THEN c ELSE rpc[x][y]
  BY <1>1, <1>2 DEF TypeOK
<1> HIDE DEF c
<1>6. Lasting(rpc, rpc', Server)  BY <1>4, <1>5 DEF Lasting
<1> QED  BY <1>1, <1>6 DEF ProgressMade, LeadsOn, RolesContinue, progress, Lasting, Peers

LEMMA SendAppendProgress ==
  ASSUME TypeOK, RolesContinue, NEW i \in Server, NEW j \in Server, SendAppend(i, j)
  PROVE  ProgressMade
<1>1. PICK q : rpc' = [rpc EXCEPT ![i][j] = [req |-> q, seen |-> FALSE, reply |-> None]]
  BY DEF SendAppend
<1> DEFINE c == [req |-> q, seen |-> FALSE, reply |-> None]
<1>2. rpc' = [rpc EXCEPT ![i][j] = c]  BY <1>1
<1> HIDE DEF c
<1>3. rpc[i][j] = None /\ UNCHANGED progress  BY DEF SendAppend
<1>4. \A x, y \in Server : rpc'[x][y] = IF x = i /\ y = j THEN c ELSE rpc[x][y]
  <2>1. \A x \in Server : rpc[x] \in [Server -> Call \cup {None}]  BY DEF TypeOK
  <2> QED  BY <1>2, <2>1 DEF TypeOK
<1>5. Lasting(rpc, rpc', Server)  BY <1>3, <1>4 DEF Lasting
<1> QED  BY <1>3, <1>5 DEF ProgressMade, LeadsOn, RolesContinue, progress, Lasting, Peers

LEMMA CrashProgress ==
  ASSUME TypeOK, RolesContinue, NEW i \in Server, OthersRest(i), Crash(i)
  PROVE  ProgressMade
<1>1. state'[i] # FSM_LEADER
  BY DEF Crash, TypeOK, FSM_FOLLOWER, FSM_LEADER
<1>2. ASSUME NEW x \in Peers(i), NEW y \in Server, rpc[x][y] # None
      PROVE  rpc'[x][y] # None
  <2>1. x \in Server /\ x # i  BY DEF Peers
  <2>2. rpc[x] \in [Server -> Call \cup {None}]  BY <2>1 DEF TypeOK
  <2>3. rpc'[x] = IF rpc[x][i] # None /\ rpc[x][i].reply = None
                  THEN [rpc[x] EXCEPT ![i].seen = FALSE] ELSE rpc[x]
    BY <2>1 DEF Crash
  <2>4. CASE y # i \/ ~(rpc[x][i] # None /\ rpc[x][i].reply = None)
    BY <1>2, <2>2, <2>3, <2>4
  <2>5. CASE y = i /\ rpc[x][i] # None /\ rpc[x][i].reply = None
    <3> DEFINE c == [rpc[x][i] EXCEPT !.seen = FALSE]
    <3>1. rpc[x][i] \in Call  BY <2>2, <2>5
    <3>2. c \in Call  BY <3>1 DEF Call
    <3>3. rpc'[x][y] = c  BY <2>2, <2>3, <2>5
    <3> QED  BY <3>2, <3>3, NoneAssumption
  <2> QED  BY <2>4, <2>5
<1> QED  BY <1>1, <1>2, ProgressStays DEF Lasting

LEMMA AppendResponseProgress ==
  ASSUME TypeOK, QueueInv, RolesContinue, NEW i \in Server, NEW j \in Server,
         OthersRest(i), AppendResponse(i, j)
  PROVE  ProgressMade
<1> DEFINE answered == [rpc EXCEPT ![i][j] = None]
           q == rpc[i][j].req
           a == rpc[i][j].reply
           last == SentLastIndex(q)
           back == IF a.conflict # 0 /\ a.conflict < q.prev THEN a.conflict ELSE q.prev
           current == currentTerm[i] = q.term /\ state[i] = FSM_LEADER
<1>1. /\ rpc[i][j] # None /\ q.type = "append" /\ a # None
      /\ QueueOK(i) /\ rpc \in RpcType
  BY Sockets DEF AppendResponse, QueueInv
<1>2. q.term = currentTerm[i] /\ j # i /\ (q.type = "vote" <=> state[i] = FSM_CANDIDATE)
  BY <1>1 DEF QueueOK, CallsMatchRole, FSM_LEADER, FSM_CANDIDATE
<1>3. \A x, y \in Server : answered[x][y] = IF x = i /\ y = j THEN None ELSE rpc[x][y]
  <2>1. \A x \in Server : rpc[x] \in [Server -> Call \cup {None}]  BY DEF TypeOK
  <2> QED  BY <2>1 DEF TypeOK
<1>4. CASE BecomeFollower(i, a.term, answered)
  <2>1. rpc' = CancelPendingRpcs(answered, i) /\ state'[i] = FSM_FOLLOWER
    BY <1>4 DEF BecomeFollower, UpdateState, TypeOK
  <2>2. answered \in RpcType  BY <1>1, AnsweredType
  <2> HIDE DEF answered
  <2>3. Lasting(rpc, rpc', Peers(i))
    <3>1. Lasting(rpc, answered, Peers(i))  BY <1>3 DEF Lasting, Peers
    <3>2. Lasting(answered, rpc', Peers(i))  BY <2>1, <2>2, CancelLasts
    <3> QED  BY <3>1, <3>2 DEF Lasting
  <2>4. state'[i] # FSM_LEADER  BY <2>1 DEF FSM_FOLLOWER, FSM_LEADER
  <2> QED  BY <2>3, <2>4, ProgressStays
<1>5. CASE /\ a.term <= currentTerm[i] /\ rpc' = answered
           /\ UNCHANGED <<log, state, currentTerm>>
           /\ \/ /\ current /\ a.ok
                 /\ matchIndex' = [matchIndex EXCEPT ![i][j] = last]
                 /\ nextIndex' = [nextIndex EXCEPT ![i][j] = last + 1]
              \/ /\ ~(current /\ a.ok)
                 /\ nextIndex' = IF current THEN [nextIndex EXCEPT ![i][j] = back]
                                 ELSE nextIndex
                 /\ matchIndex' = matchIndex
  <2> SUFFICES ASSUME NEW x \in Server, state'[x] = FSM_LEADER, NEW k \in Peers(x)
               PROVE  LeadsOn(x, k) \/ Learns(x, k)
    BY DEF ProgressMade
  <2>1. state[x] = FSM_LEADER /\ currentTerm'[x] = currentTerm[x] /\ k \in Server
    BY DEF RolesContinue, Peers
  <2>2. /\ nextIndex[i] \in [Server -> Nat] /\ matchIndex[i] \in [Server -> Nat]
        /\ nextIndex \in [Server -> [Server -> Nat]] /\ matchIndex \in [Server -> [Server -> Nat]]
    BY DEF TypeOK
  <2>3. CASE x = i /\ k = j
    <3>1. current  BY <1>2, <2>1, <2>3
    <3>2. HasReply(x, k)  BY <1>1, <2>3 DEF HasReply
    <3>3. nextIndex'[x][k] = (IF a.ok THEN last + 1 ELSE back)
      BY <1>5, <2>2, <2>3, <3>1
    <3>4. matchIndex'[x][k] = (IF a.ok THEN last ELSE matchIndex[x][k])
      BY <1>5, <2>2, <2>3, <3>1
    <3> HIDE DEF last, back, current
    <3>5. a.term <= q.term  BY <1>2, <1>5
    <3> QED  BY <1>2, <1>5, <2>1, <2>3, <3>2, <3>3, <3>4, <3>5 DEF Learns, last, back
  <2>4. CASE ~(x = i /\ k = j)
    <3>1. nextIndex'[x][k] = nextIndex[x][k] /\ matchIndex'[x][k] = matchIndex[x][k]
      <4> HIDE DEF last, back, current
      <4> QED  BY <1>5, <2>1, <2>2, <2>4
    <3>2. rpc'[x][k] = rpc[x][k]  BY <1>3, <1>5, <2>1, <2>4
    <3> QED  BY <2>1, <3>1, <3>2 DEF LeadsOn
  <2> QED  BY <2>3, <2>4
<1>6. ~(a.term <= currentTerm[i]) => BecomeFollower(i, a.term, answered)
  BY DEF AppendResponse
<1>7. a.term > currentTerm[i] => BecomeFollower(i, a.term, answered)
  <2>1. a.term \in Nat /\ currentTerm[i] \in Nat
    BY <1>1, PendingType DEF Reply, TypeOK
  <2> QED  BY <1>6, <2>1
<1>8. a.term <= currentTerm[i] /\ ~BecomeFollower(i, a.term, answered) =>
           /\ rpc' = answered
           /\ UNCHANGED <<log, state, currentTerm>>
           /\ \/ /\ current /\ a.ok
                 /\ matchIndex' = [matchIndex EXCEPT ![i][j] = last]
                 /\ nextIndex' = [nextIndex EXCEPT ![i][j] = last + 1]
              \/ /\ ~(current /\ a.ok)
                 /\ nextIndex' = IF current THEN [nextIndex EXCEPT ![i][j] = back]
                                 ELSE nextIndex
                 /\ matchIndex' = matchIndex
  BY DEF AppendResponse
<1> HIDE DEF answered, q, a, last, back, current
<1> QED  BY <1>4, <1>5, <1>6, <1>8

LEMMA VoteResponseProgress ==
  ASSUME TypeOK, TypeOK', QueueInv, RolesContinue, NEW i \in Server, NEW j \in Server,
         VoteResponse(i, j)
  PROVE  ProgressMade
<1> DEFINE r == [rpc EXCEPT ![i][j] = None]
<1>1. ~BecomeLeader(i)  BY NoLeaderWithoutRole
<1>2. OthersRest(i)  BY <1>1, VoteResponseIsSilent DEF SilentStep, LocalStep
<1>3. state[i] # FSM_LEADER
  <2>1. rpc[i][j] # None /\ rpc[i][j].req.type = "vote" /\ QueueOK(i)
    BY DEF VoteResponse, QueueInv
  <2> QED  BY <2>1 DEF QueueOK, CallsMatchRole, FSM_LEADER, FSM_CANDIDATE
<1>4. state'[i] # FSM_LEADER  BY <1>3 DEF RolesContinue
<1>5. rpc \in RpcType /\ r \in RpcType  BY Sockets, AnsweredType
<1>6. Lasting(rpc, r, Peers(i))  BY <1>5 DEF Lasting, Peers, RpcType
<1>7. rpc' = r \/ rpc' = CancelPendingRpcs(r, i)
  BY <1>1 DEF VoteResponse, BecomeFollower
<1> HIDE DEF r
<1>8. Lasting(rpc, rpc', Peers(i))
  <2>1. Lasting(r, CancelPendingRpcs(r, i), Peers(i))  BY <1>5, CancelLasts
  <2> QED  BY <1>6, <1>7, <2>1 DEF Lasting
<1> QED  BY <1>2, <1>4, <1>8, ProgressStays

LEMMA WinnerProgress ==
  ASSUME TypeOK, TypeOK', QueueInv, NEW i \in Server, NEW j \in Server,
         VoteResponse(i, j), BecomeLeader(i)
  PROVE  ProgressMade
<1> DEFINE req == [type |-> "append", term |-> currentTerm[i], prev |-> Len(log[i]),
                   prevTerm |-> LastTermOf(log[i]), commit |-> commitIndex[i],
                   entries |-> <<>>]
           c == [req |-> req, seen |-> FALSE, reply |-> None]
<1>1. OthersRest(i) /\ state[i] = FSM_CANDIDATE
  BY BecomeLeaderSends DEF SendingStep, LocalStep
<1>2. /\ rpc' = [rpc EXCEPT ![i] = [k \in Server |-> IF k = i THEN None ELSE c]]
      /\ matchIndex'[i] = Everyone(0)
      /\ Victory(i, currentTerm[i]) \in elected'
  BY DEF BecomeLeader, TypeOK, FollowersAt, Victory
<1>3. c # None
  <2>1. req \in AppendRequestMsg
    <3>1. LastTermOf(log[i]) \in Int /\ Len(log[i]) \in Nat /\ currentTerm[i] \in Nat
          /\ commitIndex[i] \in Nat /\ <<>> \in Seq(Entry)
      BY TermType DEF TypeOK
    <3> QED  BY <3>1 DEF AppendRequestMsg
  <2> HIDE DEF req
  <2>2. c \in Call  BY <2>1 DEF Call, Request
  <2> QED  BY <2>2, NoneAssumption
<1> HIDE DEF c
<1>4. \A x, y \in Server :
        rpc'[x][y] = IF x = i THEN IF y = i THEN None ELSE c ELSE rpc[x][y]
  BY <1>2 DEF TypeOK
<1> SUFFICES ASSUME NEW x \in Server, state'[x] = FSM_LEADER, NEW k \in Peers(x)
             PROVE  LeadsOn(x, k) \/ LeadsAnew(x, k)
  BY DEF ProgressMade
<1>5. k \in Server /\ k # x  BY DEF Peers
<1>6. CASE x = i
  BY <1>1, <1>2, <1>3, <1>4, <1>5, <1>6 DEF LeadsAnew, Everyone
<1>7. CASE x # i
  BY <1>1, <1>4, <1>5, <1>7 DEF LeadsOn, OthersRest, Rests
<1> QED  BY <1>6, <1>7

LEMMA NextProgress ==
  ASSUME Dependable, NEW H, NEW H2, Stepping(H, H2)
  PROVE  ProgressMade
<1>1. TypeOK /\ TypeOK' /\ QueueInv /\ ReadOvertaken = FALSE /\ rpc \in RpcType /\ Next
  BY Sockets DEF Stepping, Sane, Dependable
<1>2. CASE \E i, j \in Server : VoteResponse(i, j) /\ BecomeLeader(i)
  BY <1>1, <1>2, WinnerProgress
<1>3. CASE RolesContinue
  <2>1. ASSUME NEW i \in Server,
               \/ NothingPersisted(i) \/ Flush(i) \/ Apply(i)
               \/ \E v \in Value : ClientUpdate(i, v)
        PROVE  ProgressMade
    <3>1. UNCHANGED <<rpc, progress>>
      BY <2>1 DEF NothingPersisted, Flush, Apply, ClientUpdate, network
    <3> QED  BY <1>1, <1>3, <3>1, RpcStays
  <2>2. ASSUME NEW i \in Server, ElectionTimeout(i)  PROVE ProgressMade
    <3>1. rpc' = CancelPendingRpcs(rpc, i) /\ state'[i] = FSM_CANDIDATE
      BY <1>1, <2>2 DEF ElectionTimeout, UpdateState, TypeOK
    <3>2. OthersRest(i)
      BY <1>1, <2>2, ElectionTimeoutIsSilent DEF SilentStep, LocalStep
    <3>3. state'[i] # FSM_LEADER  BY <3>1 DEF FSM_CANDIDATE, FSM_LEADER
    <3> QED  BY <1>1, <1>3, <3>1, <3>2, <3>3, CancelLasts, ProgressStays
  <2>3. ASSUME NEW i \in Server, ElectionPersisted(i)  PROVE ProgressMade
    <3>1. SendingStep(i) /\ ~Fail(i) /\ state[i] = FSM_CANDIDATE
      BY <1>1, <2>3, ElectionPersistedSends
    <3>2. state' = state /\ \E row : rpc' = [rpc EXCEPT ![i] = row]
      BY <2>3, <3>1 DEF ElectionPersisted
    <3>3. Lasting(rpc, rpc', Peers(i))  BY <1>1, <3>2 DEF Lasting, Peers, RpcType
    <3>4. state'[i] # FSM_LEADER  BY <3>1, <3>2 DEF FSM_CANDIDATE, FSM_LEADER
    <3> QED  BY <1>1, <1>3, <3>1, <3>3, <3>4, ProgressStays DEF SendingStep, LocalStep
  <2>4. ASSUME NEW i \in Server, Crash(i)  PROVE ProgressMade
    BY <1>1, <1>3, <2>4, CrashProgress, CrashIsSilent DEF SilentStep, LocalStep
  <2>5. ASSUME NEW i \in Server, VotePersisted(i)  PROVE ProgressMade
    BY <1>1, <1>3, <2>5, VotePersistedProgress
  <2>6. ASSUME NEW i \in Server, AppendPersisted(i)  PROVE ProgressMade
    BY <1>3, <2>6, AppendPersistedProgress
  <2>7. ASSUME NEW i \in Server, NEW j \in Server,
               VoteRequest(i, j) \/ RefuseAppend(i, j)
        PROVE  ProgressMade
    BY <1>1, <1>3, <2>7, VoteStepProgress, RefuseAppendProgress
  <2>8. ASSUME NEW i \in Server, NEW j \in Server, AppendRequest(i, j)
        PROVE  ProgressMade
    BY <1>3, <2>8, AppendRequestProgress
  <2>9. ASSUME NEW i \in Server, NEW j \in Server,
               VoteResponse(i, j) \/ SendAppend(i, j) \/ ConnectionLost(i, j)
        PROVE  ProgressMade
    BY <1>1, <1>3, <2>9, VoteResponseProgress, SendAppendProgress, ConnectionLostProgress
  <2>10. ASSUME NEW i \in Server, NEW j \in Server, AppendResponse(i, j)
         PROVE  ProgressMade
    BY <1>1, <1>3, <2>10, AppendResponseProgress, AppendResponseIsSilent
    DEF SilentStep, LocalStep
  <2>11. ASSUME NEW i \in Server, NEW j \in Server, AppendRequestFails(i, j)
         PROVE  ProgressMade
    <3>1. rpc' = [rpc EXCEPT ![j] = Idle] /\ state'[j] = DOWN
      BY <1>1, <2>11 DEF AppendRequestFails, Fail, TypeOK
    <3>2. Lasting(rpc, rpc', Peers(j))  BY <1>1, <3>1 DEF Lasting, Peers, RpcType
    <3>3. state'[j] # FSM_LEADER  BY <3>1 DEF DOWN, FSM_LEADER
    <3>4. OthersRest(j)
      BY <1>1, <2>11, AppendRequestFailsIsSilent DEF SilentStep, LocalStep
    <3> QED  BY <1>1, <1>3, <3>2, <3>3, <3>4, ProgressStays
  <2>12. ASSUME NEW i \in Server, NEW j \in Server, BeginRead(i, j)  PROVE FALSE
    BY <1>1, <2>12 DEF BeginRead
  <2>13. ASSUME NEW i \in Server, EndRead(i)  PROVE FALSE
    BY <1>1, <2>13 DEF EndRead, QueueInv, NoReading
  <2> QED  BY <1>1, <2>1, <2>2, <2>3, <2>4, <2>5, <2>6, <2>7, <2>8, <2>9, <2>10, <2>11,
              <2>12, <2>13 DEF Next
<1> QED  BY <1>1, <1>2, <1>3, RolesChange


-----------------------------------------------------------------------------
(* Who leads after a step. *)

\* i, which had never led in its term and has sent nothing in it, wins.
Wins(i, H) ==
  /\ state[i] = FSM_CANDIDATE /\ state'[i] = FSM_LEADER
  /\ currentTerm'[i] = currentTerm[i]
  /\ Victory(i, currentTerm[i]) \notin elected /\ H[currentTerm[i]] = <<>>
  /\ elected' = elected \cup {Victory(i, currentTerm[i])}
  /\ \A k \in Server : \A q \in AppendRequestMsg :
       Travels(q, i, k) => q.term # currentTerm[i]
  /\ UNCHANGED <<log, ballots, diskTerm, currentTerm, writes>>

LEMMA WinnerIsNew ==
  ASSUME NEW H, NEW H2, Stepping(H, H2), NEW i \in Server, NEW j \in Server,
         VoteResponse(i, j), BecomeLeader(i)
  PROVE  Wins(i, H)
<1>1. /\ TypeOK /\ TypeOK' /\ QueueInv /\ FreshInv /\ ElectionSafety' /\ LogInv(H)
  BY DEF Stepping, Sane
<1>2. state[i] = FSM_CANDIDATE  BY <1>1, BecomeLeaderSends
<1>3. /\ state'[i] = FSM_LEADER
      /\ elected' = elected \cup {Victory(i, currentTerm[i])}
      /\ UNCHANGED <<log, ballots, diskTerm, currentTerm, writes>>
  BY <1>1 DEF BecomeLeader, TypeOK, Victory, disk
<1>4. Victory(i, currentTerm[i]) \notin elected  BY <1>1, <1>2 DEF FreshInv
<1>5. currentTerm[i] \in Nat  BY <1>1 DEF TypeOK
<1>6. H[currentTerm[i]] = <<>>
  <2>1. SUFFICES ASSUME H[currentTerm[i]] # <<>>  PROVE FALSE
    OBVIOUS
  <2>2. PICK e \in elected : e.term = currentTerm[i]
    BY <1>1, <1>5, <2>1 DEF LogInv, LeadersHistory
  <2>3. e \in elected' /\ Victory(i, currentTerm[i]) \in elected'  BY <1>3, <2>2
  <2>4. e.leader = i  BY <1>1, <2>2, <2>3 DEF ElectionSafety, Victory
  <2>5. e = Victory(i, currentTerm[i])
    <3>1. e \in [leader: Server, term: Nat]  BY <1>1, <2>2 DEF TypeOK
    <3> QED  BY <2>2, <2>4, <3>1 DEF Victory
  <2> QED  BY <1>4, <2>2, <2>5
<1>7. ASSUME NEW k \in Server, NEW q \in AppendRequestMsg, Travels(q, i, k)
      PROVE  q.term # currentTerm[i]
  BY <1>1, <1>4, <1>7 DEF LogInv, AppendsOK
<1> QED  BY <1>2, <1>3, <1>4, <1>6, <1>7 DEF Wins

\* Leaders lead on or have won.
RolesMade(H) ==
  /\ elected \subseteq elected'
  /\ \A e \in elected' : e \in elected \/ \E i \in Server : Wins(i, H) /\ e = Victory(i, currentTerm[i])
  /\ \A i \in Server : state'[i] = FSM_LEADER =>
       /\ currentTerm'[i] = currentTerm[i]
       /\ state[i] = FSM_LEADER \/ Wins(i, H)
  /\ \A i \in Server : state'[i] = FSM_CANDIDATE =>
       \/ state[i] = FSM_CANDIDATE /\ currentTerm'[i] = currentTerm[i]
       \/ currentTerm'[i] > currentTerm[i] /\ diskTerm'[i] = diskTerm[i]

LEMMA NextRoles ==
  ASSUME Dependable, NEW H, NEW H2, Stepping(H, H2)
  PROVE  RolesMade(H)
<1>1. TypeOK /\ TypeOK' /\ QueueInv /\ ReadOvertaken = FALSE /\ Next
  BY DEF Stepping, Sane, Dependable
<1>2. CASE RolesContinue
  BY <1>2 DEF RolesMade, RolesContinue
<1>3. ASSUME NEW i \in Server, NEW j \in Server, VoteResponse(i, j), BecomeLeader(i)
      PROVE  RolesMade(H)
  <2>1. Wins(i, H)  BY <1>3, WinnerIsNew
  <2>2. OthersRest(i)
    BY <1>1, <1>3, BecomeLeaderSends DEF SendingStep, LocalStep
  <2>3. ASSUME NEW k \in Server
        PROVE  /\ state'[k] = FSM_LEADER =>
                    /\ currentTerm'[k] = currentTerm[k]
                    /\ state[k] = FSM_LEADER \/ Wins(k, H)
               /\ state'[k] = FSM_CANDIDATE =>
                    state[k] = FSM_CANDIDATE /\ currentTerm'[k] = currentTerm[k]
    <3>1. CASE k = i
      BY <2>1, <3>1 DEF Wins, FSM_LEADER, FSM_CANDIDATE
    <3>2. CASE k # i
      BY <2>2, <3>2 DEF OthersRest, Rests
    <3> QED  BY <3>1, <3>2
  <2>4. elected' = elected \cup {Victory(i, currentTerm[i])}  BY <2>1 DEF Wins
  <2> QED  BY <2>1, <2>3, <2>4 DEF RolesMade
<1> QED  BY <1>1, <1>2, <1>3, RolesChange

\* All that is known of a step.
Known(H, H2) ==
  /\ Stepping(H, H2)
  /\ FloorsOK /\ FloorsOK' /\ \A x \in Server : Floor(x) <= Floor(x)'
  /\ \E k \in Server : LogStep(k)
  /\ RolesMade(H) /\ RepliesMade /\ WritesMade /\ BallotsMade /\ StaleMade
  /\ SendsMade /\ ProgressMade

LEMMA StepIsKnown ==
  ASSUME Dependable, NEW H, NEW H2, Stepping(H, H2)
  PROVE  Known(H, H2)
<1>1. FloorsOK /\ FloorsOK'  BY FloorsAreOK
<1>2. ASSUME NEW x \in Server  PROVE Floor(x) <= Floor(x)'
  <2>1. Floor(x)' >= Floor(x) /\ Floor(x) \in Nat /\ Floor(x)' \in Nat  BY FloorsGoUp
  <2> QED  BY <2>1
<1> QED  BY <1>1, <1>2, NextLogStep, NextRoles, NextReplies, NextWrites, NextBallots,
            NextStale, NextSends, NextProgress DEF Known

-----------------------------------------------------------------------------
(* Requests and replies. *)

LEMMA SeenOKNext ==
  ASSUME NEW H, NEW H2, Known(H, H2), NEW i \in Server
  PROVE  SeenOK(i)'
<1> SUFFICES ASSUME NEW j \in Server, HasReply(i, j)'
             PROVE  rpc'[i][j].seen \/ rpc'[i][j].req.term <= Floor(j)'
  BY DEF SeenOK, HasReply
<1>1. CASE SameReply(i, j)
  <2>1. HasReply(i, j)  BY <1>1 DEF HasReply, SameReply
  <2>2. rpc[i][j].seen \/ rpc[i][j].req.term <= Floor(j)
    BY <2>1 DEF HasReply, Known, Stepping, CallsInv, SeenOK
  <2>3. rpc[i][j].req.term \in Nat
    <3>1. rpc[i][j] \in Call  BY <2>1 DEF HasReply, Known, Stepping, Sane, TypeOK
    <3> QED  BY <3>1 DEF Call, Request, VoteRequestMsg, AppendRequestMsg
  <2>4. Floor(j) \in Nat /\ Floor(j)' \in Nat /\ Floor(j) <= Floor(j)'
    BY DEF Known, FloorsOK
  <2> QED  BY <1>1, <2>2, <2>3, <2>4 DEF SameReply
<1>2. CASE Answers(i, j)
  BY <1>2 DEF Answers
<1> QED  BY <1>1, <1>2 DEF Known, RepliesMade

LEMMA WaitingTravels ==
  ASSUME TypeOK, NEW i, NEW k \in Server, NEW n \in 1..Len(writes[k]),
         Waiting(writes[k][n], i)
  PROVE  Travels(writes[k][n].req, i, k) /\ writes[k][n].req \in AppendRequestMsg
<1>1. writes[k][n] \in Write  BY DEF TypeOK
<1>2. PICK w : w = writes[k][n]  OBVIOUS
<1>3. w.req \in AppendRequestMsg
  <2>1. w \in Write /\ w.then \in {"append", "refuse"}  BY <1>1, <1>2 DEF Waiting
  <2> QED  BY <2>1 DEF Write
<1> QED  BY <1>2, <1>3 DEF Waiting, Travels

\* A follower that handles a request has not answered it in this step.
LEMMA StillUnanswered ==
  ASSUME NEW H, NEW H2, Known(H, H2), NEW i \in Server, NEW k \in Peers(i),
         state[i] = FSM_LEADER, state'[i] = FSM_LEADER,
         rpc[i][k] # None, rpc[i][k].reply = None,
         NEW n \in 1..Len(writes'[k]), Waiting(writes'[k][n], i)
  PROVE  rpc'[i][k] # None /\ rpc'[i][k].reply = None
<1>0. k \in Server /\ QueueInv'  BY DEF Peers, Known, Stepping, Sane
<1>1. rpc'[i][k] # None
  <2>1. LeadsOn(i, k) \/ Learns(i, k) \/ LeadsAnew(i, k)  BY DEF Known, ProgressMade
  <2> QED  BY <2>1 DEF LeadsOn, Learns, LeadsAnew, HasReply, FSM_LEADER, FSM_CANDIDATE
<1>2. rpc'[i][k].req.type = "append"
  <2>1. rpc'[i][k] \in Call  BY <1>0, <1>1 DEF Known, Stepping, Sane, TypeOK
  <2>2. rpc'[i][k].req.type \in {"vote", "append"}
    BY <2>1 DEF Call, Request, VoteRequestMsg, AppendRequestMsg
  <2> QED  BY <1>0, <1>1, <2>2 DEF QueueInv, QueueOK, CallsMatchRole, FSM_LEADER, FSM_CANDIDATE
<1>3. ASSUME rpc'[i][k].reply # None  PROVE FALSE
  <2>1. SameReply(i, k) \/ Answers(i, k)
    BY <1>0, <1>1, <1>2, <1>3 DEF Known, RepliesMade, HasReply
  <2>2. ~SameReply(i, k)  BY <1>3 DEF SameReply
  <2>3. NonePausing(k)'  BY <2>1, <2>2 DEF Answers, Handles
  <2> QED  BY <2>3 DEF NonePausing, Waiting, PausingHandler
<1> QED  BY <1>1, <1>3

\* A request is only sent when no other of its term is on its way.
LEMMA SentAlone ==
  ASSUME NEW H, NEW H2, Known(H, H2), NEW i \in Server, NEW k \in Server,
         NEW p \in AppendRequestMsg, NEW q \in AppendRequestMsg,
         Travels(p, i, k), Sent(i, k, q), p.term = q.term
  PROVE  FALSE
<1>0. TypeOK /\ LoneCall(i) /\ RolesMade(H)
  BY DEF Known, Stepping, Sane, CallsInv
<1>1. SendsEntries(i, k, q) /\ q.term = currentTerm[i]
  <2>1. q.type # "vote"  BY DEF AppendRequestMsg
  <2> QED  BY <2>1 DEF Sent, AsksForVote, VoteRequestMsg
<1>2. CASE state[i] = FSM_LEADER /\ rpc[i][k] = None
  <2>1. [from |-> i, to |-> k, req |-> p] \notin stale
    BY <1>0, <1>1, <1>2 DEF LoneCall
  <2>2. PICK n \in 1..Len(writes[k]) :
          /\ writes[k][n].then \in {"vote", "append", "refuse"}
          /\ writes[k][n].from = i /\ writes[k][n].req = p
    BY <1>2, <2>1 DEF Travels
  <2>3. Waiting(writes[k][n], i)
    <3>1. writes[k][n] \in Write
      <4>1. writes[k] \in Seq(Write)  BY <1>0 DEF TypeOK
      <4> QED  BY <4>1
    <3>2. p.type # "vote"  BY DEF AppendRequestMsg
    <3>3. writes[k][n].then = "vote" => writes[k][n].req.type = "vote"
      <4>1. PICK w : w = writes[k][n]  OBVIOUS
      <4>2. w.then = "vote" => w.req \in VoteRequestMsg  BY <3>1, <4>1 DEF Write
      <4> QED  BY <4>1, <4>2 DEF VoteRequestMsg
    <3> QED  BY <2>2, <3>2, <3>3 DEF Waiting
  <2> QED  BY <1>0, <1>1, <1>2, <2>2, <2>3 DEF LoneCall
<1>3. CASE state[i] = FSM_CANDIDATE /\ state'[i] = FSM_LEADER
  <2>1. Wins(i, H)  BY <1>0, <1>3 DEF RolesMade, FSM_LEADER, FSM_CANDIDATE
  <2> QED  BY <1>1, <2>1 DEF Wins
<1> QED  BY <1>1, <1>2, <1>3 DEF SendsEntries

LEMMA LoneCallNext ==
  ASSUME NEW H, NEW H2, Known(H, H2), NEW i \in Server
  PROVE  LoneCall(i)'
<1>0. /\ TypeOK /\ TypeOK' /\ QueueInv /\ LoneCall(i) /\ SeenOK(i) /\ RolesMade(H)
      /\ SendsMade
  BY DEF Known, Stepping, Sane, CallsInv
<1>1. ASSUME NEW k \in Server, NEW p \in AppendRequestMsg, NEW q \in AppendRequestMsg,
             Travels(p, i, k), Sent(i, k, q), p.term = q.term
      PROVE  FALSE
  BY <1>1, SentAlone
<1>2. ASSUME NEW k \in Server, NEW p \in AppendRequestMsg, NEW q \in AppendRequestMsg,
             Travels(p, i, k)', Travels(q, i, k)', p.term = q.term
      PROVE  p = q
  <2>1. /\ Travels(p, i, k) \/ Sent(i, k, p)
        /\ Travels(q, i, k) \/ Sent(i, k, q)
    BY <1>0, <1>2 DEF SendsMade
  <2>2. CASE Travels(p, i, k) /\ Travels(q, i, k)  BY <1>0, <1>2, <2>2 DEF LoneCall
  <2>3. CASE Sent(i, k, p) /\ Sent(i, k, q)  BY <2>3 DEF Sent
  <2> QED  BY <1>1, <1>2, <2>1, <2>2, <2>3
<1>3. ASSUME state'[i] = FSM_LEADER, NEW k \in Server, NEW q \in AppendRequestMsg,
             q.term = currentTerm'[i], Travels(q, i, k)
      PROVE  state[i] = FSM_LEADER /\ q.term = currentTerm[i]
  BY <1>0, <1>3 DEF RolesMade, Wins
<1>4. ASSUME state'[i] = FSM_LEADER, NEW k \in Server, NEW q \in AppendRequestMsg,
             q.term = currentTerm'[i], [from |-> i, to |-> k, req |-> q] \in stale'
      PROVE  FALSE
  <2> DEFINE m == [from |-> i, to |-> k, req |-> q]
  <2>1. m.from = i /\ m.to = k /\ m.req = q /\ m \in stale'  BY <1>4
  <2>2. m \in stale
    <3>1. q.type # "vote"  BY DEF AppendRequestMsg
    <3>2. \/ m \in stale
          \/ /\ rpc[m.from][m.to] # None /\ m.req = rpc[m.from][m.to].req
             /\ state'[m.from] # FSM_LEADER \/ m.req.type = "vote"
      BY <2>1 DEF Known, StaleMade
    <3> QED  BY <1>4, <2>1, <3>1, <3>2
  <2>3. Travels(q, i, k)  BY <2>2 DEF Travels
  <2> QED  BY <1>0, <1>3, <1>4, <2>2, <2>3 DEF LoneCall
<1>5. ASSUME state'[i] = FSM_LEADER, NEW k \in Server, NEW n \in 1..Len(writes'[k]),
             Waiting(writes'[k][n], i), writes'[k][n].req.term = currentTerm'[i]
      PROVE  rpc'[i][k] # None /\ rpc'[i][k].reply = None
  <2>0. PICK w : w = writes'[k][n]  OBVIOUS
  <2>1. Waiting(w, i) /\ w.req.term = currentTerm'[i]  BY <1>5, <2>0
  <2>2. CASE \E m \in 1..Len(writes[k]) : w = writes[k][m]
    <3>1. PICK m \in 1..Len(writes[k]) : w = writes[k][m]  BY <2>2
    <3>2. Travels(w.req, i, k) /\ w.req \in AppendRequestMsg
      BY <1>0, <2>1, <3>1, WaitingTravels
    <3>3. state[i] = FSM_LEADER /\ w.req.term = currentTerm[i]
      BY <1>3, <1>5, <2>1, <3>2
    <3>4. rpc[i][k] # None /\ rpc[i][k].reply = None
      BY <1>0, <2>1, <3>1, <3>3 DEF LoneCall
    <3>5. k \in Peers(i)  BY <1>0, <3>2, TravelsToOther DEF Peers
    <3> QED  BY <1>5, <3>3, <3>4, <3>5, StillUnanswered
  <2>3. CASE WriteMade(k, w)
    <3>1. HandledAppend(i, k, w.req) /\ w.req.term > currentTerm[k]
      BY <2>1, <2>3 DEF WriteMade, Waiting
    <3>2. w.req \in ArrivingAppends(i, k) /\ w.req \in AppendRequestMsg /\ Travels(w.req, i, k)
      BY <3>1 DEF HandledAppend
    <3>3. state[i] = FSM_LEADER /\ w.req.term = currentTerm[i]
      BY <1>3, <1>5, <2>1, <3>2
    <3>4. Unseen(i, k, w.req)
      BY <1>0, <3>2, <3>3 DEF ArrivingAppends, LoneCall
    <3>5. rpc[i][k] # None /\ rpc[i][k].req = w.req /\ ~rpc[i][k].seen
      BY <3>4 DEF Unseen
    <3>6. rpc[i][k].reply = None
      <4>1. ~(w.req.term <= Floor(k))
        <5>1. w.req.term \in Nat /\ currentTerm[k] \in Nat
          BY <1>0, <3>2, SliceType DEF TypeOK
        <5>2. Floor(k) \in Nat /\ Floor(k) <= currentTerm[k]  BY DEF Known, FloorsOK
        <5> QED  BY <3>1, <5>1, <5>2
      <4>2. w.req.type = "append"  BY <3>2 DEF AppendRequestMsg
      <4> QED  BY <1>0, <3>5, <4>1, <4>2 DEF SeenOK
    <3>7. k \in Peers(i)  BY <1>0, <3>2, TravelsToOther DEF Peers
    <3> QED  BY <1>5, <3>3, <3>5, <3>6, <3>7, StillUnanswered
  <2> QED  BY <2>0, <2>2, <2>3 DEF Known, WritesMade
<1> QED  BY <1>2, <1>4, <1>5 DEF LoneCall

-----------------------------------------------------------------------------
(* The logs after a step. *)

\* A follower that stores entries has the log of their leader up to the last.
LEMMA TakesAgrees ==
  ASSUME NEW H, NEW H2, Known(H, H2), NEW k \in Server, NEW i \in Server, NEW q,
         Takes(k, i, q)
  PROVE  /\ q \in AppendRequestMsg /\ SliceOf(q, H[q.term])
         /\ H[q.term] \in Seq(Entry) /\ q.term \in Nat
         /\ Begins(log'[k], H[q.term]) /\ Len(log'[k]) = SentLastIndex(q)
         /\ VLog(k)' = log'[k]
         /\ Victory(i, q.term) \in elected
<1>1. /\ q \in AppendRequestMsg /\ Travels(q, i, k) /\ PrevMatches(log[k], q)
      /\ log'[k] = SubSeq(VLog(k), 1, q.prev) \o q.entries /\ pend'[k] = <<>>
  BY DEF Takes
<1>2. /\ TypeOK /\ TypeOK' /\ IsHistory(H) /\ LeadersHistory(H) /\ PeerHistory(k, H)
      /\ AppendsOK(H)
  BY DEF Known, Stepping, Sane, LogInv, IsHistory
<1>3. q.term \in Nat  BY <1>1, SliceType
<1>4. SliceOf(q, H[q.term]) /\ Victory(i, q.term) \in elected
  BY <1>1, <1>2 DEF AppendsOK
<1>5. H[q.term] \in Seq(Entry) /\ Sound(H[q.term], H)
  BY <1>2, <1>3 DEF IsHistory, LeadersHistory
<1>6. VLog(k) \in Seq(Entry) /\ log[k] \in Seq(Entry) /\ Begins(log[k], VLog(k))
  BY <1>2, VLogType
<1>7. Sound(VLog(k), H)  BY <1>2 DEF PeerHistory
<1> DEFINE n == SubSeq(VLog(k), 1, q.prev) \o q.entries
<1>8. n \in Seq(Entry) /\ Len(n) = SentLastIndex(q) /\ Begins(n, H[q.term])
  BY <1>1, <1>2, <1>4, <1>5, <1>6, <1>7, AppendedBegins
<1>9. VLog(k)' = log'[k]
  <2>1. log'[k] \in Seq(Entry)  BY <1>2 DEF TypeOK
  <2> QED  BY <1>1, <2>1 DEF VLog
<1> QED  BY <1>1, <1>3, <1>4, <1>5, <1>8, <1>9

\* What may become of a log and its appends: x's stay, ...
LogsStay(x) == log'[x] = log[x] /\ pend'[x] = pend[x] /\ VLog(x)' = VLog(x)

\* ... grow, ...
Extends(x) ==
  /\ log'[x] = log[x] /\ state'[x] = FSM_LEADER /\ currentTerm'[x] = currentTerm[x]
  /\ Len(pend'[x]) = Len(pend[x]) + 1 /\ Len(VLog(x)') = Len(VLog(x)) + 1
  /\ \A n \in 1..Len(pend[x]) : pend'[x][n] = pend[x][n]
  /\ \A n \in 1..Len(VLog(x)) : VLog(x)'[n] = VLog(x)[n]
  /\ pend'[x][Len(pend'[x])].term = currentTerm[x]
  /\ VLog(x)'[Len(VLog(x)')].term = currentTerm[x]

\* ... are cut, ...
Loses(x) ==
  /\ pend'[x] = <<>> /\ VLog(x)' = log'[x]
  /\ Begins(log[x], log'[x]) /\ Begins(log'[x], VLog(x))

\* ... or replaced by those of a leader.
Replaces(x, H) ==
  /\ pend'[x] = <<>> /\ VLog(x)' = log'[x]
  /\ \E i \in Server : \E q : Takes(x, i, q)

LEMMA LogsChange ==
  ASSUME NEW H, NEW H2, Known(H, H2), NEW k \in Server, LogStep(k), NEW x \in Server
  PROVE  \/ LogsStay(x)
         \/ x = k /\ Extends(x)
         \/ x = k /\ Loses(x)
         \/ x = k /\ Replaces(x, H)
<1>0. TypeOK /\ TypeOK'  BY DEF Known, Stepping, Sane
<1>1. CASE x # k
  BY <1>1 DEF LogStep, LocalStep, OthersRest, Rests, LogsStay, VLog
<1>2. CASE x = k /\ Same(k)
  BY <1>2 DEF Same, LogsStay, VLog
<1>3. CASE x = k /\ Grows(k)
  <2>1. PICK e \in Entry : e.term = currentTerm[k] /\ pend'[k] = Append(pend[k], e)
    BY <1>3 DEF Grows
  <2>2. log'[k] = log[k] /\ state'[k] = FSM_LEADER /\ currentTerm'[k] = currentTerm[k]
    BY <1>3 DEF Grows
  <2>3. VLog(k)' = Append(VLog(k), e)  BY <1>0, <2>1, <2>2, PendingGrows
  <2>4. VLog(k) \in Seq(Entry) /\ pend[k] \in Seq(Entry)  BY <1>0, VLogType
  <2>5. /\ Len(Append(VLog(k), e)) = Len(VLog(k)) + 1
        /\ Append(VLog(k), e)[Len(VLog(k)) + 1] = e
        /\ \A n \in 1..Len(VLog(k)) : Append(VLog(k), e)[n] = VLog(k)[n]
    BY <2>4
  <2>6. /\ Len(pend'[k]) = Len(pend[k]) + 1
        /\ pend'[k][Len(pend[k]) + 1] = e
        /\ \A n \in 1..Len(pend[k]) : pend'[k][n] = pend[k][n]
    BY <2>1, <2>4
  <2> QED  BY <1>3, <2>1, <2>2, <2>3, <2>5, <2>6 DEF Extends
<1>4. CASE x = k /\ Cuts(k)
  <2>1. log'[k] \in Seq(Entry)  BY <1>0 DEF TypeOK
  <2> QED  BY <1>4, <2>1 DEF Cuts, Loses, VLog
<1>5. CASE x = k /\ \E i \in Server : \E q : Takes(k, i, q)
  <2>1. log'[k] \in Seq(Entry)  BY <1>0 DEF TypeOK
  <2>2. pend'[k] = <<>>  BY <1>5 DEF Takes
  <2>3. VLog(k)' = log'[k]  BY <2>1, <2>2 DEF VLog
  <2> QED  BY <1>5, <2>2, <2>3 DEF Replaces
<1> QED  BY <1>1, <1>2, <1>3, <1>4, <1>5 DEF LogStep

\* A request that travels is a slice of the history of its term, and of the
\* history it grows into.
LEMMA RequestIsSlice ==
  ASSUME NEW H, NEW H2, Known(H, H2), NEW i \in Server, NEW j \in Server,
         NEW q \in AppendRequestMsg, Travels(q, i, j)
  PROVE  /\ Victory(i, q.term) \in elected /\ SliceOf(q, H[q.term])
         /\ q.term \in Nat /\ H[q.term] \in Seq(Entry)
         /\ SentLastIndex(q) \in Nat /\ SentLastIndex(q) <= Len(H[q.term])
         /\ q.prev \in Nat /\ q.prev <= SentLastIndex(q)
<1>1. q.term \in Nat /\ q.prev \in Nat /\ SentLastIndex(q) \in Nat
      /\ q.prev <= SentLastIndex(q)
  BY SliceType
<1>2. Victory(i, q.term) \in elected /\ SliceOf(q, H[q.term]) /\ H \in [Nat -> Seq(Entry)]
  BY DEF Known, Stepping, LogInv, AppendsOK
<1> QED  BY <1>1, <1>2 DEF SliceOf

\* What is in a log that was cut was in it before or among its appends.
LEMMA CutPart ==
  ASSUME TypeOK, TypeOK', NEW k \in Server, Loses(k), NEW n \in 1..Len(log'[k])
  PROVE  \/ n \in 1..Len(log[k]) /\ log'[k][n] = log[k][n]
         \/ \E x \in 1..Len(pend[k]) :
              n = Len(log[k]) + x /\ log'[k][n] = pend[k][x]
<1>1. Begins(log'[k], VLog(k)) /\ Begins(log[k], log'[k])  BY DEF Loses
<1>2. log'[k][n] = VLog(k)[n]  BY <1>1 DEF Begins, Agree
<1>3. CASE n \in 1..Len(log[k])
  BY <1>1, <1>3 DEF Begins, Agree
<1>4. CASE n \notin 1..Len(log[k])
  <2>1. PICK a, b, c \in Nat : a = Len(log[k]) /\ b = Len(pend[k]) /\ c = Len(log'[k])
    <3>1. log[k] \in Seq(Entry) /\ pend[k] \in Seq(Entry) /\ log'[k] \in Seq(Entry)
      BY VLogType, VLogTypeNext
    <3> QED  BY <3>1
  <2>2. c <= a + b
    <3>1. Len(log'[k]) <= Len(VLog(k))  BY <1>1 DEF Begins, Agree
    <3>2. Len(VLog(k)) = Len(log[k]) + Len(pend[k])  BY VLogType
    <3> QED  BY <2>1, <3>1, <3>2
  <2>3. n \in 1..c /\ n \notin 1..a  BY <1>4, <2>1
  <2>4. n - a \in 1..b /\ n = a + (n - a)  BY <2>2, <2>3
  <2>5. PICK x : x = n - a  OBVIOUS
  <2>6. x \in 1..Len(pend[k]) /\ n = Len(log[k]) + x  BY <2>1, <2>4, <2>5
  <2>7. VLog(k)[n] = pend[k][x]  BY <2>6, VLogType
  <2> QED  BY <1>2, <2>6, <2>7
<1> QED  BY <1>3, <1>4

\* What a peer that has led loses was never sent, so no request comes to match.
LEMMA CutKeepsRefusal ==
  ASSUME NEW H, NEW H2, Known(H, H2), NEW i \in Server, NEW j \in Server,
         NEW q \in AppendRequestMsg, Travels(q, i, j), Loses(j),
         ~PrevMatches(log[j], q)
  PROVE  ~PrevMatches(log'[j], q)
<1> SUFFICES ASSUME PrevMatches(log'[j], q)  PROVE FALSE
  OBVIOUS
<1>0. TypeOK /\ TypeOK' /\ QueueInv /\ ElectionSafety /\ PendingIsPrivate(j, H)
  BY DEF Known, Stepping, Sane, CallsInv
<1>1. Begins(log[j], log'[j])  BY DEF Loses
<1>2. log[j] \in Seq(Entry) /\ log'[j] \in Seq(Entry)
  BY <1>0, VLogType, VLogTypeNext
<1>3. /\ Victory(i, q.term) \in elected /\ SliceOf(q, H[q.term])
      /\ q.term \in Nat /\ H[q.term] \in Seq(Entry)
      /\ SentLastIndex(q) \in Nat /\ SentLastIndex(q) <= Len(H[q.term])
      /\ q.prev \in Nat /\ q.prev <= SentLastIndex(q)
  BY RequestIsSlice
<1>4. PICK y \in Nat : y = q.prev  BY <1>3
<1>5. y <= Len(log'[j]) /\ TermAt(log'[j], y) = q.prevTerm
  BY <1>4 DEF PrevMatches
<1>6. CASE y <= Len(log[j])
  <2>1. TermAt(log[j], y) = TermAt(log'[j], y)
    BY <1>1, <1>2, <1>6, TermAtBegins
  <2> QED  BY <1>4, <1>5, <1>6, <2>1 DEF PrevMatches
<1>7. CASE ~(y <= Len(log[j]))
  <2>1. PICK a, c \in Nat : a = Len(log[j]) /\ c = Len(log'[j])  BY <1>2
  <2>2. ~(y <= a) /\ y <= c  BY <1>5, <1>7, <2>1
  <2>3. y \in 1..c /\ y \notin 1..a /\ y # 0  BY <2>2
  <2>4. PICK x \in 1..Len(pend[j]) : y = Len(log[j]) + x /\ log'[j][y] = pend[j][x]
    BY <1>0, <2>1, <2>3, CutPart
  <2>5. q.prevTerm = pend[j][x].term
    BY <1>5, <2>3, <2>4 DEF TermAt
  <2>6. y <= Len(H[q.term])
    <3>1. Len(H[q.term]) \in Nat  BY <1>3
    <3> QED  BY <1>3, <1>4, <3>1
  <2>7. q.prevTerm = H[q.term][y].term
    BY <1>3, <1>4, <2>3, <2>6 DEF SliceOf, TermAt
  <2>8. Victory(j, q.term) \in elected
    BY <1>0, <1>3, <2>4, <2>5, <2>6, <2>7 DEF PendingIsPrivate
  <2>9. i = j
    BY <1>0, <1>3, <2>8 DEF ElectionSafety, Victory
  <2> QED  BY <1>0, <2>9, TravelsToOther
<1> QED  BY <1>6, <1>7

LEMMA WaitingStandsNext ==
  ASSUME NEW H, NEW H2, Known(H, H2), NEW k \in Server, LogStep(k), NEW j \in Server
  PROVE  WaitingStands(j)'
<1>0. TypeOK /\ TypeOK' /\ QueueOK(j) /\ QueueOK(j)' /\ WaitingStands(j)
  BY DEF Known, Stepping, Sane, QueueInv, CallsInv
<1> SUFFICES ASSUME NEW n \in 1..Len(writes'[j]), NEW w, w = writes'[j][n],
                    w.then \in {"append", "refuse"}
             PROVE  /\ w.then = "refuse" => ~PrevMatches(log'[j], w.req)
                    /\ w.then = "append" => commitIndex'[j] <= w.req.prev
  BY DEF WaitingStands
<1>1. CASE WriteMade(j, w)
  <2>1. /\ HandledAppend(w.from, j, w.req) /\ log' = log /\ commitIndex' = commitIndex
        /\ w.then = "refuse" => ~PrevMatches(log[j], w.req)
    BY <1>1 DEF WriteMade
  <2> QED  BY <2>1 DEF HandledAppend
<1>2. CASE \E m \in 1..Len(writes[j]) : w = writes[j][m]
  <2>1. PICK m \in 1..Len(writes[j]) : w = writes[j][m]  BY <1>2
  <2>2. /\ w.then = "refuse" => ~PrevMatches(log[j], w.req)
        /\ w.then = "append" => commitIndex[j] <= w.req.prev
    BY <1>0, <2>1 DEF WaitingStands
  <2>3. state[j] = FSM_FOLLOWER /\ state'[j] = FSM_FOLLOWER
    BY <1>0, <2>1 DEF QueueOK, PausedAlone, PausingHandler
  <2>4. Waiting(w, w.from)  BY DEF Waiting
  <2>5. Travels(w.req, w.from, j) /\ w.req \in AppendRequestMsg /\ w.from \in Server
    <3>1. Travels(w.req, w.from, j) /\ w.req \in AppendRequestMsg
      BY <1>0, <2>1, <2>4, WaitingTravels
    <3>2. w \in Write
      <4>1. writes[j] \in Seq(Write)  BY <1>0 DEF TypeOK
      <4> QED  BY <2>1, <4>1
    <3>3. w.from \in Server  BY <3>2 DEF Write
    <3> QED  BY <3>1, <3>3
  <2>6. ~NonePausing(j)'  BY DEF NonePausing, PausingHandler
  <2>7. commitIndex'[j] = commitIndex[j]
    <3>1. CASE j # k
      BY <3>1 DEF LogStep, LocalStep, OthersRest, Rests
    <3>2. CASE j = k
      <4>1. ~(\E x \in Server : LeaderCommits(j, x))
        BY <2>3 DEF LeaderCommits, FSM_FOLLOWER, FSM_LEADER
      <4>2. ~Restarts(j)
        <5>1. writes'[j] # <<>>
          <6>1. writes'[j] \in Seq(Write)  BY <1>0 DEF TypeOK
          <6> QED  BY <6>1
        <5> QED  BY <5>1 DEF Restarts
      <4>3. ~(\E x \in Server : \E q : Takes(j, x, q))  BY <2>6 DEF Takes
      <4> QED  BY <3>2, <4>1, <4>2, <4>3 DEF LogStep, CommitsStay
    <3> QED  BY <3>1, <3>2
  <2>8. ASSUME w.then = "refuse", PrevMatches(log'[j], w.req)  PROVE FALSE
    <3>1. LogsStay(j) \/ Extends(j) \/ Loses(j) \/ Replaces(j, H)  BY LogsChange
    <3>2. CASE log'[j] = log[j]
      BY <2>2, <2>8, <3>2
    <3>3. CASE Replaces(j, H)
      BY <2>6, <3>3 DEF Replaces, Takes
    <3>4. CASE Loses(j)
      BY <2>2, <2>5, <2>8, <3>4, CutKeepsRefusal
    <3> QED  BY <3>1, <3>2, <3>3, <3>4 DEF LogsStay, Extends
  <2> QED  BY <2>2, <2>7, <2>8
<1> QED  BY <1>1, <1>2 DEF Known, WritesMade

-----------------------------------------------------------------------------
(* What a leader has not flushed is nowhere else. *)

HasAt(l, y, t) == y <= Len(l) /\ l[y].term = t

Private(i, y, t, H) ==
  /\ \A k \in Peers(i) : ~HasAt(VLog(k), y, t)
  /\ \A u \in Nat : Victory(i, u) \notin elected => ~HasAt(H[u], y, t)
  /\ \A k \in Server : \A q \in AppendRequestMsg :
       Travels(q, i, k) /\ y <= SentLastIndex(q) => ~HasAt(H[q.term], y, t)

LEMMA AllPrivate ==
  ASSUME NEW H, NEW i \in Server
  PROVE  PendingIsPrivate(i, H) <=>
           \A x \in 1..Len(pend[i]) : Private(i, Len(log[i]) + x, pend[i][x].term, H)
  BY DEF PendingIsPrivate, Private, HasAt

\* An entry that is not in the log of i stays private if it was nowhere else and
\* no other log has got it now.
LEMMA PrivateNext ==
  ASSUME NEW H, NEW H2, Known(H, H2), NEW i \in Server, NEW y \in Nat \ {0}, NEW t \in Nat,
         y > Len(log'[i]),
         \A k \in Peers(i) : ~HasAt(VLog(k)', y, t),
         \A u \in Nat : Victory(i, u) \notin elected => ~HasAt(H[u], y, t),
         \A k \in Server : \A q \in AppendRequestMsg :
           Travels(q, i, k) /\ y <= SentLastIndex(q) => ~HasAt(H[q.term], y, t)
  PROVE  Private(i, y, t, H2)'
<1>0. /\ TypeOK' /\ QueueInv' /\ ElectionSafety' /\ LogInv(H2)' /\ HistoryGrows(H, H2)
      /\ elected \subseteq elected'
  BY DEF Known, Stepping, Sane, RolesMade
<1>1. ASSUME NEW u \in Nat, Victory(i, u) \notin elected'
      PROVE  ~HasAt(H2[u], y, t)
  <2>1. Victory(i, u) \notin elected  BY <1>0, <1>1
  <2>2. CASE H2[u] = H[u]  BY <2>1, <2>2
  <2>3. CASE \E l \in Server : state'[l] = FSM_LEADER /\ currentTerm'[l] = u
    <3>1. PICK l \in Server : state'[l] = FSM_LEADER /\ currentTerm'[l] = u  BY <2>3
    <3>2. Victory(l, u) \in elected' /\ H2[u] = VLog(l)'
      BY <1>0, <3>1 DEF LogInv, LeaderOK
    <3>3. l \in Peers(i)  BY <1>1, <3>2 DEF Peers
    <3> QED  BY <3>2, <3>3
  <2> QED  BY <1>0, <2>2, <2>3 DEF HistoryGrows
<1>2. ASSUME NEW k \in Server, NEW q \in AppendRequestMsg, Travels(q, i, k)',
             y <= SentLastIndex(q)
      PROVE  ~HasAt(H2[q.term], y, t)
  <2>1. CASE Travels(q, i, k)
    <3>1. /\ q.term \in Nat /\ H[q.term] \in Seq(Entry)
          /\ SentLastIndex(q) \in Nat /\ SentLastIndex(q) <= Len(H[q.term])
      BY <2>1, RequestIsSlice
    <3>2. Begins(H[q.term], H2[q.term])  BY <1>0, <3>1 DEF HistoryGrows
    <3>3. \E n \in Nat : n = Len(H[q.term])  BY <3>1
    <3>4. y \in 1..Len(H[q.term])  BY <1>2, <3>1, <3>3
    <3>5. H[q.term][y] = H2[q.term][y]  BY <3>2, <3>4 DEF Begins, Agree
    <3>6. y <= Len(H[q.term])  BY <3>3, <3>4
    <3> QED  BY <1>2, <2>1, <3>5, <3>6 DEF HasAt
  <2>2. CASE Sent(i, k, q)
    <3>1. rpc'[i][k] # None /\ rpc'[i][k].req = q  BY <2>2 DEF Sent
    <3>2. q.type = "append"  BY DEF AppendRequestMsg
    <3>3. state'[i] = FSM_LEADER
      BY <1>0, <3>1, <3>2 DEF QueueInv, QueueOK, CallsMatchRole
    <3>4. SentLastIndex(q) <= Len(log'[i])
      BY <1>0, <3>1, <3>3 DEF LogInv, LeaderOK
    <3>5. log'[i] \in Seq(Entry)  BY <1>0 DEF TypeOK
    <3>6. Len(log'[i]) \in Nat  BY <3>5
    <3> QED  BY <1>2, <3>4, <3>6, SliceType
  <2> QED  BY <1>2, <2>1, <2>2 DEF Known, SendsMade
<1> QED  BY <1>1, <1>2 DEF Private

LEMMA HasAtBegins ==
  ASSUME NEW s \in Seq(Entry), NEW l \in Seq(Entry), Begins(s, l),
         NEW y \in Nat \ {0}, NEW t, HasAt(s, y, t)
  PROVE  HasAt(l, y, t)
<1>1. y \in 1..Len(s)  BY DEF HasAt
<1>2. s[y] = l[y] /\ Len(s) <= Len(l)  BY <1>1 DEF Begins, Agree
<1> QED  BY <1>1, <1>2 DEF HasAt

\* What another peer has after the step it has got from a log that has it.
LEMMA OldStaysPrivate ==
  ASSUME NEW H, NEW H2, Known(H, H2), NEW i \in Server, NEW y \in Nat \ {0}, NEW t \in Nat,
         Private(i, y, t, H), Victory(i, t) \in elected, NEW k \in Peers(i)
  PROVE  ~HasAt(VLog(k)', y, t)
<1> SUFFICES ASSUME HasAt(VLog(k)', y, t)  PROVE FALSE
  OBVIOUS
<1>0. /\ TypeOK /\ TypeOK' /\ ElectionSafety /\ ElectionSafety' /\ LogInv(H2)'
      /\ elected \subseteq elected' /\ k \in Server /\ k # i
  BY DEF Known, Stepping, Sane, RolesMade, Peers
<1>1. PICK z \in Server : LogStep(z)  BY DEF Known
<1>2. ~HasAt(VLog(k), y, t)  BY DEF Private
<1>3. VLog(k) \in Seq(Entry) /\ VLog(k)' \in Seq(Entry)
  BY <1>0, VLogType, VLogTypeNext
<1>4. CASE LogsStay(k)  BY <1>2, <1>4 DEF LogsStay
<1>5. CASE Extends(k)
  <2>1. PICK m \in Nat : m = Len(VLog(k))  BY <1>3
  <2>2. Len(VLog(k)') = m + 1 /\ VLog(k)'[m + 1].term = currentTerm[k]
        /\ \A n \in 1..m : VLog(k)'[n] = VLog(k)[n]
    BY <1>5, <2>1 DEF Extends
  <2>3. y <= m + 1 /\ VLog(k)'[y].term = t  BY <2>2 DEF HasAt
  <2>4. ~(y <= m)
    <3>1. SUFFICES ASSUME y <= m  PROVE FALSE  OBVIOUS
    <3>2. y \in 1..m  BY <2>1, <3>1
    <3> QED  BY <1>2, <2>1, <2>2, <2>3, <3>1, <3>2 DEF HasAt
  <2>5. y = m + 1  BY <2>1, <2>3, <2>4
  <2>6. Victory(k, t) \in elected'
    BY <1>0, <1>5, <2>2, <2>3, <2>5 DEF Extends, LogInv, LeaderOK
  <2> QED  BY <1>0, <2>6 DEF ElectionSafety, Victory
<1>6. CASE Loses(k)
  <2>1. Begins(VLog(k)', VLog(k))  BY <1>6 DEF Loses
  <2> QED  BY <1>2, <1>3, <2>1, HasAtBegins
<1>7. CASE Replaces(k, H)
  <2>1. PICK l \in Server : \E q : Takes(k, l, q)  BY <1>7 DEF Replaces
  <2>2. PICK q : Takes(k, l, q)  BY <2>1
  <2>3. /\ q \in AppendRequestMsg /\ H[q.term] \in Seq(Entry) /\ q.term \in Nat
        /\ Begins(VLog(k)', H[q.term]) /\ Len(VLog(k)') = SentLastIndex(q)
        /\ Victory(l, q.term) \in elected
    <3>1. /\ q \in AppendRequestMsg /\ H[q.term] \in Seq(Entry) /\ q.term \in Nat
          /\ Begins(log'[k], H[q.term]) /\ Len(log'[k]) = SentLastIndex(q)
          /\ VLog(k)' = log'[k]
          /\ Victory(l, q.term) \in elected
      BY <1>0, <2>2, TakesAgrees
    <3> QED  BY <3>1
  <2>4. HasAt(H[q.term], y, t)  BY <1>3, <2>3, HasAtBegins
  <2>5. Victory(i, q.term) \in elected  BY <2>3, <2>4 DEF Private
  <2>6. l = i  BY <1>0, <2>3, <2>5 DEF ElectionSafety, Victory
  <2>7. Travels(q, i, k)  BY <2>2, <2>6 DEF Takes
  <2>8. y <= SentLastIndex(q)  BY <2>3 DEF HasAt
  <2> QED  BY <1>0, <2>3, <2>4, <2>7, <2>8 DEF Private
<1> QED  BY <1>0, <1>1, <1>4, <1>5, <1>6, <1>7, LogsChange

\* What a leader has just passed to its log.
LEMMA NewIsPrivate ==
  ASSUME NEW H, NEW H2, Known(H, H2), NEW i \in Server, LogStep(i), Extends(i),
         NEW y \in Nat, y = Len(VLog(i)) + 1, NEW t \in Nat, t = currentTerm[i]
  PROVE  Private(i, y, t, H2)'
<1>0. /\ TypeOK /\ TypeOK' /\ LogInv(H) /\ RolesMade(H) /\ IsHistory(H)
  BY DEF Known, Stepping, Sane, RolesMade, LogInv, IsHistory
<1>1. VLog(i) \in Seq(Entry) /\ Len(VLog(i)) \in Nat
  <2>1. VLog(i) \in Seq(Entry)  BY <1>0, VLogType
  <2> QED  BY <2>1
<1>2. Len(H[t]) <= Len(VLog(i)) /\ H[t] \in Seq(Entry)
  <2>0. H[t] \in Seq(Entry)  BY <1>0 DEF IsHistory
  <2>1. CASE state[i] = FSM_LEADER
    <3>1. H[t] = VLog(i)  BY <1>0, <2>1 DEF LogInv, LeaderOK
    <3> QED  BY <1>1, <2>0, <3>1
  <2>2. CASE Wins(i, H)
    <3>1. H[t] = <<>>  BY <2>2 DEF Wins
    <3> QED  BY <1>1, <2>0, <3>1
  <2> QED  BY <1>0, <2>1, <2>2 DEF Extends, RolesMade
<1>3. ASSUME NEW l, Sound(l, H), HasAt(l, y, t)  PROVE l \notin Seq(Entry)
  <2> SUFFICES ASSUME l \in Seq(Entry)  PROVE FALSE
    OBVIOUS
  <2>1. y \in 1..Len(l) /\ l[y].term = t  BY <1>1, <1>3 DEF HasAt
  <2>2. y <= Len(H[t])  BY <1>3, <2>1 DEF Sound, Agree
  <2>3. Len(H[t]) \in Nat  BY <1>2
  <2> QED  BY <1>1, <1>2, <2>2, <2>3
<1>4. ASSUME NEW k \in Peers(i)  PROVE ~HasAt(VLog(k)', y, t)
  <2>1. k \in Server /\ k # i  BY DEF Peers
  <2>2. VLog(k)' = VLog(k)  BY <2>1 DEF LogStep, LocalStep, OthersRest, Rests, VLog
  <2>3. Sound(VLog(k), H) /\ VLog(k) \in Seq(Entry)
    BY <1>0, <2>1, VLogType DEF LogInv, PeerHistory
  <2> QED  BY <1>3, <2>2, <2>3
<1>5. ASSUME NEW u \in Nat  PROVE ~HasAt(H[u], y, t)
  <2>1. Sound(H[u], H) /\ H[u] \in Seq(Entry)
    BY <1>0 DEF LogInv, LeadersHistory, IsHistory
  <2> QED  BY <1>3, <2>1
<1>6. ASSUME NEW q \in AppendRequestMsg  PROVE ~HasAt(H[q.term], y, t)
  BY <1>5, SliceType
<1>7. y > Len(log'[i])
  <2>1. Len(VLog(i)) = Len(log[i]) + Len(pend[i]) /\ Len(log[i]) \in Nat /\ Len(pend[i]) \in Nat
    <3>1. Len(VLog(i)) = Len(log[i]) + Len(pend[i])
          /\ log[i] \in Seq(Entry) /\ pend[i] \in Seq(Entry)
      BY <1>0, VLogType
    <3> QED  BY <3>1
  <2>2. Len(log'[i]) = Len(log[i])  BY DEF Extends
  <2>3. PICK a, b, c \in Nat : a = Len(log[i]) /\ b = Len(pend[i]) /\ c = Len(VLog(i))
    BY <1>1, <2>1
  <2>4. c = a + b /\ y = c + 1  BY <2>1, <2>3
  <2>5. y > a  BY <2>4
  <2> QED  BY <2>2, <2>3, <2>5
<1>8. y \in Nat \ {0}  BY <1>1
<1> QED  BY <1>4, <1>5, <1>6, <1>7, <1>8, PrivateNext

LEMMA PendingIsPrivateNext ==
  ASSUME NEW H, NEW H2, Known(H, H2), NEW i \in Server
  PROVE  PendingIsPrivate(i, H2)'
<1>0. TypeOK /\ TypeOK' /\ PendingIsPrivate(i, H) /\ PeerHistory(i, H)
  BY DEF Known, Stepping, Sane, LogInv, CallsInv
<1>1. PICK z \in Server : LogStep(z)  BY DEF Known
<1>2. /\ log[i] \in Seq(Entry) /\ pend[i] \in Seq(Entry) /\ VLog(i) \in Seq(Entry)
      /\ log'[i] \in Seq(Entry) /\ pend'[i] \in Seq(Entry)
      /\ Len(VLog(i)) = Len(log[i]) + Len(pend[i])
  BY <1>0, VLogType, VLogTypeNext
<1>3. ASSUME NEW x \in 1..Len(pend'[i]), NEW y, y = Len(log'[i]) + x,
             NEW t, t = pend'[i][x].term
      PROVE  Private(i, y, t, H2)'
  <2>1. y \in Nat \ {0} /\ y > Len(log'[i])  BY <1>2, <1>3
  <2>2. t \in Nat  BY <1>2, <1>3, EntryTerm
  <2>3. CASE log'[i] = log[i] /\ x \in 1..Len(pend[i]) /\ pend'[i][x] = pend[i][x]
    <3>1. Private(i, y, t, H)  BY <1>0, <1>3, <2>3, AllPrivate
    <3>2. Victory(i, t) \in elected  BY <1>0, <1>3, <2>3 DEF PeerHistory
    <3>3. \A k \in Peers(i) : ~HasAt(VLog(k)', y, t)
      BY <2>1, <2>2, <3>1, <3>2, OldStaysPrivate
    <3>4. /\ \A u \in Nat : Victory(i, u) \notin elected => ~HasAt(H[u], y, t)
          /\ \A k \in Server : \A q \in AppendRequestMsg :
               Travels(q, i, k) /\ y <= SentLastIndex(q) => ~HasAt(H[q.term], y, t)
      BY <3>1 DEF Private
    <3> QED  BY <2>1, <2>2, <3>3, <3>4, PrivateNext
  <2>4. CASE LogsStay(i)
    BY <2>3, <2>4 DEF LogsStay
  <2>5. CASE i = z /\ Extends(i)
    <3>1. CASE x \in 1..Len(pend[i])
      BY <2>3, <2>5, <3>1 DEF Extends
    <3>2. CASE x \notin 1..Len(pend[i])
      <4>1. PICK m \in Nat : m = Len(pend[i])  BY <1>2
      <4>2. x \in 1..(m + 1) /\ x \notin 1..m
        BY <2>5, <3>2, <4>1 DEF Extends
      <4>3. x = m + 1  BY <4>1, <4>2
      <4>4. Len(pend'[i]) = m + 1 /\ log'[i] = log[i]
        BY <2>5, <4>1 DEF Extends
      <4>5. t = currentTerm[i]
        BY <1>3, <2>5, <4>3, <4>4 DEF Extends
      <4>6. Len(log[i]) \in Nat  BY <1>2
      <4>7. y = Len(VLog(i)) + 1
        <5>1. Len(VLog(i)) = Len(log[i]) + Len(pend[i])  BY <1>2
        <5>2. y = Len(log[i]) + (m + 1)  BY <1>3, <4>3, <4>4
        <5>3. PICK a \in Nat : a = Len(log[i])  BY <4>6
        <5>4. y = a + (m + 1) /\ Len(VLog(i)) = a + m  BY <4>1, <5>1, <5>2, <5>3
        <5>5. a + (m + 1) = (a + m) + 1  OBVIOUS
        <5> QED  BY <5>4, <5>5
      <4> QED  BY <1>1, <2>1, <2>2, <2>5, <4>5, <4>7, NewIsPrivate
    <3> QED  BY <3>1, <3>2
  <2>6. CASE pend'[i] = <<>>
    BY <1>3, <2>6
  <2> QED  BY <1>1, <2>4, <2>5, <2>6, LogsChange DEF Loses, Replaces
<1>4. (\A x \in 1..Len(pend[i]) : Private(i, Len(log[i]) + x, pend[i][x].term, H2))'
  <2> SUFFICES ASSUME NEW x \in 1..Len(pend'[i])
               PROVE  Private(i, Len(log[i]) + x, pend[i][x].term, H2)'
    OBVIOUS
  <2>1. PICK y : y = Len(log'[i]) + x  OBVIOUS
  <2>2. PICK t : t = pend'[i][x].term  OBVIOUS
  <2>3. Private(i, y, t, H2)'  BY <1>3, <2>1, <2>2
  <2> QED  BY <2>1, <2>2, <2>3 DEF Private
<1>5. (\A x \in 1..Len(pend[i]) : Private(i, Len(log[i]) + x, pend[i][x].term, H2))'
      => PendingIsPrivate(i, H2)'
  BY DEF PendingIsPrivate, Private, HasAt
<1> QED  BY <1>4, <1>5

\* What the requests, their replies and the appends under way have to do with
\* each other survives a step.
LEMMA CallsInvNext ==
  ASSUME NEW H, NEW H2, Known(H, H2)
  PROVE  CallsInv(H2)'
<1>1. PICK z \in Server : LogStep(z)  BY DEF Known
<1>2. ASSUME NEW i \in Server
      PROVE  LoneCall(i)' /\ SeenOK(i)' /\ PendingIsPrivate(i, H2)' /\ WaitingStands(i)'
  BY <1>1, LoneCallNext, SeenOKNext, PendingIsPrivateNext, WaitingStandsNext
<1> QED  BY <1>2 DEF CallsInv

-----------------------------------------------------------------------------
(* What peers come to accept. *)

\* The entries of its present term that are in the log of a peer which will not
\* go back from it.
Gained ==
  {a \in [peer: Server, term: Nat, index: Nat] :
     /\ a.term = Floor(a.peer) /\ a.term = currentTerm[a.peer]
     /\ a.index \in 1..Len(log[a.peer])
     /\ log[a.peer][a.index].term = a.term}

Storing(H, H2, A, A2) ==
  Known(H, H2) /\ StoreInv(H, A) /\ A2 = A \cup Gained'

LEMMA NewGain ==
  ASSUME NEW H, NEW H2, NEW A, NEW A2, Storing(H, H2, A, A2),
         NEW k \in Server, NEW t, NEW n, Accepted(k, t, n) \in A2, Accepted(k, t, n) \notin A
  PROVE  /\ t \in Nat /\ n \in Nat
         /\ t = Floor(k)' /\ t = currentTerm'[k]
         /\ n \in 1..Len(log'[k]) /\ log'[k][n].term = t
         /\ Agree(log'[k], H2[t], n)
         /\ n \in 1..Len(H2[t]) /\ H2[t][n].term = t
<1>1. /\ t \in Nat /\ n \in Nat
      /\ t = Floor(k)' /\ t = currentTerm'[k]
      /\ n \in 1..Len(log'[k]) /\ log'[k][n].term = t
  <2>1. PICK a : a = Accepted(k, t, n)  OBVIOUS
  <2>2. a \in Gained'  BY <2>1 DEF Storing
  <2>3. a.peer = k /\ a.term = t /\ a.index = n  BY <2>1 DEF Accepted
  <2>4. /\ a.term \in Nat /\ a.index \in Nat
        /\ a.term = Floor(a.peer)' /\ a.term = currentTerm'[a.peer]
        /\ a.index \in 1..Len(log'[a.peer])
        /\ log'[a.peer][a.index].term = a.term
    BY <2>2 DEF Gained
  <2> QED  BY <2>3, <2>4
<1>2. TypeOK' /\ LogInv(H2)' /\ PeerHistory(k, H2)'
  BY DEF Storing, Known, Stepping, Sane, LogInv
<1>3. /\ VLog(k)' \in Seq(Entry) /\ log'[k] \in Seq(Entry) /\ Begins(log'[k], VLog(k)')
  BY <1>2, VLogTypeNext
<1>4. IsHistory(H2)  BY <1>2 DEF LogInv, IsHistory
<1>5. Sound(VLog(k)', H2)  BY <1>2 DEF PeerHistory
<1>6. Sound(log'[k], H2)  BY <1>3, <1>4, <1>5, SoundBegins
<1>7. Agree(log'[k], H2[t], n)  BY <1>1, <1>6 DEF Sound
<1>8. n <= Len(H2[t]) /\ log'[k][n] = H2[t][n]  BY <1>1, <1>7 DEF Agree
<1>9. Len(H2[t]) \in Nat
  <2>1. H2[t] \in Seq(Entry)  BY <1>1, <1>4 DEF IsHistory
  <2> QED  BY <2>1
<1> QED  BY <1>1, <1>7, <1>8, <1>9

\* It has led in that term, or stores the entries of a request of it.
GainedBy(k, t, n) ==
  \/ Victory(k, t) \in elected
  \/ \E i \in Server : \E q : Takes(k, i, q) /\ q.term = t /\ n <= SentLastIndex(q)

LEMMA LogTermBound ==
  ASSUME TypeOK, NEW k \in Server, NEW t \in Nat, Ascends(VLog(k), t),
         NEW n \in 1..Len(log[k])
  PROVE  log[k][n].term \in Nat /\ log[k][n].term <= t /\ VLog(k)[n] = log[k][n]
<1>1. log[k] \in Seq(Entry) /\ Begins(log[k], VLog(k))  BY VLogType
<1>2. log[k][n].term \in Nat  BY <1>1, EntryTerm
<1>3. n \in 1..Len(VLog(k)) /\ VLog(k)[n] = log[k][n]
  <2>1. VLog(k) \in Seq(Entry)  BY VLogType
  <2>2. Len(log[k]) <= Len(VLog(k)) /\ VLog(k)[n] = log[k][n]  BY <1>1 DEF Begins, Agree
  <2>3. Len(log[k]) \in Nat /\ Len(VLog(k)) \in Nat  BY <1>1, <2>1
  <2> QED  BY <2>2, <2>3
<1> QED  BY <1>2, <1>3 DEF Ascends

LEMMA GainComesFrom ==
  ASSUME NEW H, NEW H2, NEW A, NEW A2, Storing(H, H2, A, A2),
         NEW k \in Server, NEW t, NEW n, Accepted(k, t, n) \in A2, Accepted(k, t, n) \notin A
  PROVE  GainedBy(k, t, n)
<1>1. /\ TypeOK /\ TypeOK' /\ PeerStores(k, H, A) /\ PeerHistory(k, H)
      /\ Floor(k) \in Nat /\ Floor(k)' \in Nat /\ Floor(k) <= Floor(k)'
  BY DEF Storing, StoreInv, Known, Stepping, Sane, LogInv, FloorsOK
<1>2. /\ t \in Nat /\ n \in Nat /\ t = Floor(k)' /\ t = currentTerm'[k]
      /\ n \in 1..Len(log'[k]) /\ log'[k][n].term = t
  BY NewGain
<1>3. PICK z \in Server : LogStep(z)  BY DEF Storing, Known
<1>4. CASE n \in 1..Len(log[k]) /\ log'[k][n] = log[k][n]
  <2>1. log[k][n].term <= Floor(k)
    BY <1>1, <1>4, LogTermBound DEF PeerStores
  <2>2. Floor(k) = t  BY <1>1, <1>2, <1>4, <2>1
  <2>3. Victory(k, t) \in elected  BY <1>1, <1>2, <1>4, <2>2 DEF PeerStores
  <2> QED  BY <2>3 DEF GainedBy
<1>5. CASE LogsStay(k) \/ Extends(k)
  BY <1>2, <1>4, <1>5 DEF LogsStay, Extends
<1>6. CASE Loses(k)
  <2>1. CASE \E x \in 1..Len(pend[k]) : log'[k][n] = pend[k][x]
    BY <1>1, <1>2, <2>1 DEF PeerHistory, GainedBy
  <2> QED  BY <1>1, <1>2, <1>4, <1>6, <2>1, CutPart
<1>7. CASE Replaces(k, H)
  <2>1. PICK i \in Server : \E q : Takes(k, i, q)  BY <1>7 DEF Replaces
  <2>2. PICK q : Takes(k, i, q)  BY <2>1
  <2>3. Len(log'[k]) = SentLastIndex(q)  BY <2>2, TakesAgrees DEF Storing
  <2>4. q.term = t  BY <1>2, <2>2 DEF Takes
  <2>5. n <= SentLastIndex(q)  BY <1>2, <2>3
  <2> QED  BY <2>2, <2>4, <2>5 DEF GainedBy
<1> QED  BY <1>3, <1>5, <1>6, <1>7, LogsChange DEF Storing

-----------------------------------------------------------------------------
(* What stays true of what has been accepted. *)

LEMMA AgreeGrows ==
  ASSUME NEW H, NEW H2, HistoryGrows(H, H2), IsHistory(H), IsHistory(H2),
         NEW l \in Seq(Entry), NEW u \in Nat, NEW n \in Nat, Agree(l, H[u], n)
  PROVE  Agree(l, H2[u], n)
<1>1. Begins(H[u], H2[u])  BY DEF HistoryGrows
<1>2. H[u] \in Seq(Entry) /\ H2[u] \in Seq(Entry)  BY DEF IsHistory
<1>3. n <= Len(l) /\ n <= Len(H[u]) /\ \A m \in 1..n : l[m] = H[u][m]
  BY DEF Agree
<1>4. Len(H[u]) <= Len(H2[u]) /\ \A m \in 1..Len(H[u]) : H[u][m] = H2[u][m]
  BY <1>1 DEF Begins, Agree
<1>5. PICK a, b \in Nat : a = Len(H[u]) /\ b = Len(H2[u])  BY <1>2
<1>6. n <= b  BY <1>3, <1>4, <1>5
<1>7. \A m \in 1..n : m \in 1..a  BY <1>3, <1>5
<1> QED  BY <1>3, <1>4, <1>5, <1>6, <1>7 DEF Agree

\* The histories, their type, and the terms of the next state.
LEMMA StoringFacts ==
  ASSUME NEW H, NEW H2, NEW A, NEW A2, Storing(H, H2, A, A2)
  PROVE  /\ TypeOK /\ TypeOK' /\ Known(H, H2) /\ StoreInv(H, A)
         /\ LogInv(H) /\ LogInv(H2)' /\ HistoryGrows(H, H2)
         /\ IsHistory(H) /\ IsHistory(H2)
         /\ LeadersHistory(H) /\ LeadersHistory(H2)'
         /\ ElectionSafety /\ ElectionSafety' /\ elected \subseteq elected'
         /\ A \subseteq A2
         /\ \A x \in Server : /\ Floor(x) \in Nat /\ Floor(x)' \in Nat
                              /\ Floor(x) <= Floor(x)'
                              /\ currentTerm[x] \in Nat /\ currentTerm'[x] \in Nat
                              /\ Floor(x) <= currentTerm[x]
                              /\ Floor(x)' <= currentTerm'[x]
<1>1. TypeOK /\ TypeOK'  BY DEF Storing, Known, Stepping, Sane
<1>2. \A x \in Server : currentTerm[x] \in Nat /\ currentTerm'[x] \in Nat
  BY <1>1 DEF TypeOK
<1>3. \A x \in Server : /\ Floor(x) \in Nat /\ Floor(x)' \in Nat
                        /\ Floor(x) <= Floor(x)'
                        /\ Floor(x) <= currentTerm[x]
                        /\ Floor(x)' <= currentTerm'[x]
  BY DEF Storing, Known, FloorsOK
<1>4. LogInv(H) /\ LogInv(H2)' /\ HistoryGrows(H, H2)
      /\ ElectionSafety /\ ElectionSafety' /\ elected \subseteq elected'
  BY DEF Storing, Known, Stepping, Sane, RolesMade
<1>5. IsHistory(H) /\ LeadersHistory(H)  BY <1>4 DEF LogInv, IsHistory
<1>6. IsHistory(H2) /\ LeadersHistory(H2)'  BY <1>4 DEF LogInv, IsHistory
<1> QED  BY <1>1, <1>2, <1>3, <1>4, <1>5, <1>6 DEF Storing

LEMMA DeadStays ==
  ASSUME NEW H, NEW H2, NEW A, NEW A2, Storing(H, H2, A, A2),
         NEW u \in Nat, NEW n \in Nat, Dead(A, u, n)
  PROVE  Dead(A2, u, n)'
<1>1. PICK Q \in SUBSET Server :
        IsMajority(Q) /\ \A k \in Q : Floor(k) > u /\ Accepted(k, u, n) \notin A
  BY DEF Dead
<1>2. ASSUME NEW k \in Q
      PROVE  Floor(k)' > u /\ Accepted(k, u, n) \notin A2
  <2>1. Floor(k) > u /\ Accepted(k, u, n) \notin A /\ k \in Server  BY <1>1
  <2>2. Floor(k)' > u  BY <2>1, StoringFacts
  <2>3. ASSUME Accepted(k, u, n) \in A2  PROVE FALSE
    <3>1. u = Floor(k)'  BY <2>1, <2>3, NewGain
    <3> QED  BY <2>2, <3>1
  <2> QED  BY <2>2, <2>3
<1> QED  BY <1>1, <1>2 DEF Dead

LEMMA CompleteStays ==
  ASSUME NEW H, NEW H2, NEW A, NEW A2, Storing(H, H2, A, A2),
         NEW l \in Seq(Entry), NEW l2 \in Seq(Entry), Begins(l, l2), NEW t,
         Complete(l, t, H, A)
  PROVE  Complete(l2, t, H2, A2)'
<1> SUFFICES ASSUME NEW u \in Nat, NEW n \in Nat \ {0}, u < t
             PROVE  Dead(A2, u, n)' \/ Agree(l2, H2[u], n)
  BY DEF Complete
<1>1. Dead(A, u, n) \/ Agree(l, H[u], n)  BY DEF Complete
<1>2. CASE Dead(A, u, n)  BY <1>2, DeadStays
<1>3. CASE Agree(l, H[u], n)
  <2>1. Agree(l, H2[u], n)  BY <1>3, StoringFacts, AgreeGrows
  <2>2. Agree(l2, l, n)
    <3>1. n <= Len(l) /\ Len(l) \in Nat /\ Len(l2) \in Nat  BY <1>3 DEF Agree
    <3> QED  BY <3>1 DEF Begins, Agree
  <2>3. H2[u] \in Seq(Entry)  BY StoringFacts DEF IsHistory
  <2>4. n \in 0..n  OBVIOUS
  <2> QED  BY <2>1, <2>2, <2>3, <2>4, AgreeTrans
<1> QED  BY <1>1, <1>2, <1>3

LEMMA CoversOldStays ==
  ASSUME NEW H, NEW H2, NEW A, NEW A2, Storing(H, H2, A, A2),
         NEW k \in Server, NEW t \in Nat, NEW m \in Int, NEW m2 \in Int, m <= m2,
         CoversOld(k, t, m, A)
  PROVE  CoversOld(k, t, m2, A2)'
<1> SUFFICES ASSUME NEW u \in Nat, NEW n \in Nat \ {0}, u < t
             PROVE  \/ n <= m2
                    \/ Dead(A2, u, n)'
                    \/ t <= Floor(k)' /\ Accepted(k, u, n) \notin A2
  BY DEF CoversOld
<1>1. CASE n <= m  BY <1>1
<1>2. CASE Dead(A, u, n)  BY <1>2, DeadStays
<1>3. CASE t <= Floor(k) /\ Accepted(k, u, n) \notin A
  <2>1. t <= Floor(k)'  BY <1>3, StoringFacts
  <2>2. ASSUME Accepted(k, u, n) \in A2  PROVE FALSE
    <3>1. u = Floor(k)'  BY <1>3, <2>2, NewGain
    <3> QED  BY <2>1, <3>1
  <2> QED  BY <2>1, <2>2
<1> QED  BY <1>1, <1>2, <1>3 DEF CoversOld

LEMMA HoldsStays ==
  ASSUME NEW H, NEW H2, NEW A, NEW A2, Storing(H, H2, A, A2),
         NEW k \in Server, NEW t \in Nat, NEW m \in Nat, Holds(k, t, m, H, A)
  PROVE  Holds(k, t, m, H2, A2)
<1>1. /\ Begins(H[t], H2[t]) /\ H[t] \in Seq(Entry) /\ H2[t] \in Seq(Entry)
      /\ A \subseteq A2
  <2>1. IsHistory(H) /\ IsHistory(H2) /\ HistoryGrows(H, H2) /\ A \subseteq A2
    BY StoringFacts
  <2>2. H[t] \in Seq(Entry) /\ H2[t] \in Seq(Entry)  BY <2>1 DEF IsHistory
  <2> QED  BY <2>1, <2>2 DEF HistoryGrows
<1>2. PICK a, b \in Nat : a = Len(H[t]) /\ b = Len(H2[t])  BY <1>1
<1>3. a <= b /\ \A n \in 1..a : H[t][n] = H2[t][n]  BY <1>1, <1>2 DEF Begins, Agree
<1>4. m <= a /\ \A n \in 1..m : H[t][n].term = t => Accepted(k, t, n) \in A
  BY <1>2 DEF Holds
<1>5. m <= b /\ \A n \in 1..m : n \in 1..a  BY <1>3, <1>4
<1> QED  BY <1>1, <1>2, <1>3, <1>4, <1>5 DEF Holds

-----------------------------------------------------------------------------
(* What peers have accepted stays in their logs. *)

LEMMA PeerAscends ==
  ASSUME NEW H, NEW H2, NEW A, NEW A2, Storing(H, H2, A, A2), NEW k \in Server
  PROVE  Ascends(VLog(k)', Floor(k)')
<1>1. /\ TypeOK /\ TypeOK' /\ Known(H, H2) /\ Ascends(VLog(k), Floor(k))
      /\ PeerHistory(k, H2)' /\ QueueOK(k)' /\ FloorsOK'
      /\ Floor(k) \in Nat /\ Floor(k)' \in Nat /\ Floor(k) <= Floor(k)'
  BY DEF Storing, StoreInv, PeerStores, Known, Stepping, Sane, LogInv, QueueInv, FloorsOK
<1>2. VLog(k) \in Seq(Entry) /\ VLog(k)' \in Seq(Entry) /\ log'[k] \in Seq(Entry)
  BY <1>1, VLogType, VLogTypeNext
<1>3. CASE Floor(k)' = currentTerm'[k]
  BY <1>1, <1>3 DEF PeerHistory
<1>4. CASE Begins(VLog(k)', VLog(k))
  <2>1. Ascends(VLog(k)', Floor(k))  BY <1>1, <1>2, <1>4, AscendsBegins
  <2> QED  BY <1>1, <1>2, <2>1, AscendsLater
<1>5. CASE LogsStay(k)
  <2>1. VLog(k)' = VLog(k)  BY <1>5 DEF LogsStay
  <2> QED  BY <1>2, <1>4, <2>1, BeginsItself
<1>6. CASE Extends(k)
  <2>1. writes'[k] = <<>> /\ state'[k] # DOWN
    BY <1>1, <1>6 DEF Extends, QueueOK, RoleIsStored, FSM_LEADER, DOWN
  <2> QED  BY <1>1, <1>3, <2>1 DEF FloorsOK
<1>7. CASE Loses(k)
  BY <1>4, <1>7 DEF Loses
<1>8. CASE Replaces(k, H)
  <2>1. Floor(k)' = currentTerm'[k]  BY <1>8 DEF Replaces, Takes
  <2> QED  BY <1>3, <2>1
<1> QED  BY <1>1, <1>5, <1>6, <1>7, <1>8, LogsChange DEF Known

\* Of the entries of its last stored term a peer has accepted all that it has
\* not written as the leader.
LEMMA PeerAccepts ==
  ASSUME NEW H, NEW H2, NEW A, NEW A2, Storing(H, H2, A, A2), NEW k \in Server,
         NEW n \in 1..Len(log'[k]), log'[k][n].term = Floor(k)'
  PROVE  \/ Accepted(k, Floor(k)', n) \in A2
         \/ Floor(k)' < currentTerm'[k] /\ Victory(k, Floor(k)') \in elected'
<1>1. /\ TypeOK /\ TypeOK' /\ Known(H, H2) /\ PeerStores(k, H, A)
      /\ PeerHistory(k, H) /\ A \subseteq A2 /\ elected \subseteq elected'
      /\ Floor(k) \in Nat /\ Floor(k)' \in Nat /\ Floor(k) <= Floor(k)'
      /\ currentTerm'[k] \in Nat /\ Floor(k)' <= currentTerm'[k]
      /\ LogInv(H)
  BY StoringFacts DEF StoreInv, LogInv
<1>2. PICK f \in Nat : f = Floor(k)'  BY <1>1
<1>3. CASE f = currentTerm'[k]
  <2>1. PICK a : a = Accepted(k, f, n)  OBVIOUS
  <2>2. a.peer = k /\ a.term = f /\ a.index = n
        /\ a \in [peer: Server, term: Nat, index: Nat]
    <3>1. n \in Nat
      <4>1. log'[k] \in Seq(Entry)  BY <1>1 DEF TypeOK
      <4> QED  BY <4>1
    <3> QED  BY <2>1, <3>1 DEF Accepted
  <2>3. a \in Gained'  BY <1>2, <1>3, <2>2 DEF Gained
  <2> QED  BY <1>2, <2>1, <2>3 DEF Storing
<1>4. CASE f # currentTerm'[k]
  <2>0. f < currentTerm'[k]  BY <1>1, <1>2, <1>4
  <2>1. CASE n \in 1..Len(log[k]) /\ log'[k][n] = log[k][n]
    <3>1. log[k][n].term <= Floor(k)
      BY <1>1, <2>1, LogTermBound DEF PeerStores
    <3>2. Floor(k) = f  BY <1>1, <1>2, <2>1, <3>1
    <3>3. Accepted(k, f, n) \in A \/ Victory(k, f) \in elected
      BY <1>1, <1>2, <2>1, <3>2 DEF PeerStores
    <3> QED  BY <1>1, <1>2, <2>0, <3>3
  <2>2. CASE LogsStay(k)  BY <2>1, <2>2 DEF LogsStay
  <2>3. CASE Extends(k)  BY <2>1, <2>3 DEF Extends
  <2>4. CASE Loses(k)
    <3>1. CASE \E x \in 1..Len(pend[k]) : log'[k][n] = pend[k][x]
      <4>1. Victory(k, f) \in elected  BY <1>1, <1>2, <3>1 DEF PeerHistory
      <4> QED  BY <1>1, <1>2, <2>0, <4>1
    <3> QED  BY <1>1, <2>1, <2>4, <3>1, CutPart
  <2>5. CASE Replaces(k, H)
    BY <1>2, <1>4, <2>5 DEF Replaces, Takes
  <2> QED  BY <1>1, <2>2, <2>3, <2>4, <2>5, LogsChange DEF Known
<1> QED  BY <1>3, <1>4

\* The winner of a term has what may be chosen of an earlier one.
LEMMA WinnerHas ==
  ASSUME NEW H, NEW A, StoreInv(H, A), NEW i, NEW t, Victory(i, t) \in elected,
         NEW u \in Nat, NEW n \in Nat \ {0}, u < t
  PROVE  Dead(A, u, n) \/ Agree(H[t], H[u], n)
<1>1. \A e \in elected : Complete(H[e.term], e.term, H, A)
  BY DEF StoreInv, WinnersComplete
<1>2. PICK e : e = Victory(i, t)  OBVIOUS
<1>3. e.term = t /\ e \in elected  BY <1>2 DEF Victory
<1>4. Complete(H[t], t, H, A)  BY <1>1, <1>3
<1> QED  BY <1>4 DEF Complete

LEMMA AgreeBegins ==
  ASSUME NEW s \in Seq(Entry), NEW l \in Seq(Entry), NEW m \in Seq(Entry),
         Begins(s, l), NEW n \in Nat, n <= Len(s), Agree(l, m, n)
  PROVE  Agree(s, m, n)
<1>1. Agree(s, l, Len(s)) /\ Len(s) \in Nat  BY DEF Begins
<1>2. n \in 0..Len(s)  BY <1>1
<1> QED  BY <1>1, <1>2, AgreeTrans

LEMMA AgreeExtends ==
  ASSUME NEW s \in Seq(Entry), NEW l \in Seq(Entry), NEW m \in Seq(Entry),
         Begins(s, l), NEW n \in Nat, Agree(s, m, n)
  PROVE  Agree(l, m, n)
<1>1. n <= Len(s) /\ n <= Len(m) /\ \A x \in 1..n : s[x] = m[x]  BY DEF Agree
<1>2. Len(s) <= Len(l) /\ \A x \in 1..Len(s) : s[x] = l[x]  BY DEF Begins, Agree
<1>3. PICK a, b \in Nat : a = Len(s) /\ b = Len(l)  OBVIOUS
<1>4. n <= b /\ \A x \in 1..n : x \in 1..a  BY <1>1, <1>2, <1>3
<1> QED  BY <1>1, <1>2, <1>3, <1>4 DEF Agree

\* What a peer has accepted.
LEMMA AcceptedStays ==
  ASSUME NEW H, NEW H2, NEW A, NEW A2, Storing(H, H2, A, A2), NEW k \in Server,
         NEW u, NEW n, Accepted(k, u, n) \in A
  PROVE  /\ u \in Nat /\ n \in Nat \ {0} /\ u <= Floor(k)'
         /\ n \in 1..Len(H2[u]) /\ H2[u][n].term = u
         /\ \/ Agree(log'[k], H2[u], n)
            \/ u < Floor(k)' /\ Dead(A2, u, n)'
<1>0. /\ TypeOK /\ TypeOK' /\ Known(H, H2) /\ StoreInv(H, A) /\ PeerStores(k, H, A)
      /\ IsHistory(H) /\ IsHistory(H2) /\ HistoryGrows(H, H2) /\ AppendKeeps(A)
      /\ Floor(k) \in Nat /\ Floor(k)' \in Nat /\ Floor(k) <= Floor(k)'
  BY StoringFacts DEF StoreInv
<1>1. /\ u \in Nat /\ n \in Nat /\ u <= Floor(k)
      /\ n \in 1..Len(H[u]) /\ H[u][n].term = u
      /\ \/ Agree(log[k], H[u], n)
         \/ u < Floor(k) /\ Dead(A, u, n)
  <2>1. PICK a : a = Accepted(k, u, n)  OBVIOUS
  <2>2. a.peer = k /\ a.term = u /\ a.index = n /\ a \in A  BY <2>1 DEF Accepted
  <2>3. a \in [peer: Server, term: Nat, index: Nat]  BY <1>0, <2>2 DEF StoreInv
  <2>4. u \in Nat /\ n \in Nat  BY <2>2, <2>3
  <2>5. /\ a.term <= Floor(k)
        /\ a.index \in 1..Len(H[a.term])
        /\ H[a.term][a.index].term = a.term
        /\ \/ Agree(log[k], H[a.term], a.index)
           \/ a.term < Floor(k) /\ Dead(A, a.term, a.index)
    BY <1>0, <2>2 DEF PeerStores
  <2>6. u <= Floor(k) /\ n \in 1..Len(H[u]) /\ H[u][n].term = u
    BY <2>2, <2>5
  <2>7. \/ Agree(log[k], H[u], n)
        \/ u < Floor(k) /\ Dead(A, u, n)
    BY <2>2, <2>5
  <2> QED  BY <2>4, <2>6, <2>7
<1>2. H[u] \in Seq(Entry) /\ H2[u] \in Seq(Entry) /\ Begins(H[u], H2[u])
  BY <1>0, <1>1 DEF IsHistory, HistoryGrows
<1>3. /\ n \in Nat \ {0} /\ u <= Floor(k)'
      /\ n \in 1..Len(H2[u]) /\ H2[u][n].term = u
  <2>1. n # 0 /\ u <= Floor(k)'  BY <1>0, <1>1
  <2>2. Len(H[u]) <= Len(H2[u]) /\ H[u][n] = H2[u][n]  BY <1>1, <1>2 DEF Begins, Agree
  <2>3. PICK a, b \in Nat : a = Len(H[u]) /\ b = Len(H2[u])  BY <1>2
  <2>4. n \in 1..b  BY <1>1, <2>2, <2>3
  <2> QED  BY <1>1, <2>1, <2>2, <2>3, <2>4
<1>4. log[k] \in Seq(Entry) /\ log'[k] \in Seq(Entry)  BY <1>0, VLogType, VLogTypeNext
<1>5. CASE u < Floor(k) /\ Dead(A, u, n)
  BY <1>0, <1>1, <1>3, <1>5, DeadStays
<1>6. CASE Agree(log[k], H[u], n) /\ Begins(log[k], log'[k])
  <2>1. Agree(log'[k], H[u], n)  BY <1>1, <1>2, <1>4, <1>6, AgreeExtends
  <2>2. Agree(log'[k], H2[u], n)  BY <1>0, <1>1, <1>4, <2>1, AgreeGrows
  <2> QED  BY <1>1, <1>3, <2>2
<1>7. CASE LogsStay(k) \/ Extends(k) \/ Loses(k)
  <2>1. Begins(log[k], log[k])  BY <1>4, BeginsItself
  <2>2. Begins(log[k], log'[k])  BY <1>7, <2>1 DEF LogsStay, Extends, Loses
  <2> QED  BY <1>1, <1>5, <1>6, <2>2
<1>8. CASE Replaces(k, H)
  <2>1. PICK i \in Server : \E q : Takes(k, i, q)  BY <1>8 DEF Replaces
  <2>2. PICK q : Takes(k, i, q)  BY <2>1
  <2>3. /\ q \in AppendRequestMsg /\ H[q.term] \in Seq(Entry) /\ q.term \in Nat
        /\ Begins(log'[k], H[q.term]) /\ Len(log'[k]) = SentLastIndex(q)
        /\ Victory(i, q.term) \in elected
    BY <1>0, <2>2, TakesAgrees
  <2>4. Travels(q, i, k) /\ q.term = Floor(k)'  BY <2>2 DEF Takes
  <2>5. CoversOld(k, q.term, SentLastIndex(q), A) /\ CoversOwn(k, q.term, SentLastIndex(q), A)
    BY <1>0, <2>3, <2>4 DEF AppendKeeps, Covers
  <2>6. ASSUME n <= SentLastIndex(q), Agree(H[q.term], H[u], n)
        PROVE  Agree(log'[k], H2[u], n)
    <3>1. Agree(log'[k], H[u], n)
      BY <1>1, <1>2, <1>4, <2>3, <2>6, AgreeBegins
    <3> QED  BY <1>0, <1>1, <1>4, <3>1, AgreeGrows
  <2>7. CASE u = q.term
    <3>1. n <= SentLastIndex(q)  BY <1>1, <2>5, <2>7 DEF CoversOwn
    <3>2. Agree(H[u], H[u], n)  BY <1>1, <1>2 DEF Agree
    <3> QED  BY <1>1, <1>3, <2>6, <2>7, <3>1, <3>2
  <2>8. CASE u # q.term
    <3>1. u < q.term /\ u < Floor(k)'  BY <1>0, <1>1, <2>3, <2>4, <2>8
    <3>2. n <= SentLastIndex(q) \/ Dead(A, u, n)
      BY <1>1, <1>3, <2>5, <3>1 DEF CoversOld
    <3>3. Dead(A, u, n) \/ Agree(H[q.term], H[u], n)
      BY <1>0, <1>1, <1>3, <2>3, <3>1, WinnerHas
    <3>4. CASE Dead(A, u, n)
      BY <1>1, <1>3, <3>1, <3>4, DeadStays
    <3> QED  BY <1>1, <1>3, <2>6, <3>2, <3>3, <3>4
  <2> QED  BY <2>7, <2>8
<1> QED  BY <1>0, <1>7, <1>8, LogsChange DEF Known

LEMMA AcceptedNext ==
  ASSUME NEW H, NEW H2, NEW A, NEW A2, Storing(H, H2, A, A2), NEW k \in Server,
         NEW u, NEW n, Accepted(k, u, n) \in A2
  PROVE  /\ u \in Nat /\ n \in Nat \ {0} /\ u <= Floor(k)'
         /\ n \in 1..Len(H2[u]) /\ H2[u][n].term = u
         /\ \/ Agree(log'[k], H2[u], n)
            \/ u < Floor(k)' /\ Dead(A2, u, n)'
<1>1. CASE Accepted(k, u, n) \in A  BY <1>1, AcceptedStays
<1>2. CASE Accepted(k, u, n) \notin A
  <2>1. /\ u \in Nat /\ n \in Nat /\ u = Floor(k)'
        /\ Agree(log'[k], H2[u], n)
        /\ n \in 1..Len(H2[u]) /\ H2[u][n].term = u
    BY <1>2, NewGain
  <2>2. n # 0 /\ u <= Floor(k)'  BY <2>1
  <2> QED  BY <2>1, <2>2
<1> QED  BY <1>1, <1>2

LEMMA AcceptedType ==
  ASSUME NEW H, NEW H2, NEW A, NEW A2, Storing(H, H2, A, A2)
  PROVE  A2 \subseteq [peer: Server, term: Nat, index: Nat]
  BY DEF Storing, StoreInv, Gained

LEMMA PeerStoresNext ==
  ASSUME NEW H, NEW H2, NEW A, NEW A2, Storing(H, H2, A, A2), NEW k \in Server
  PROVE  PeerStores(k, H2, A2)'
<1>1. Ascends(VLog(k)', Floor(k)')  BY PeerAscends
<1>2. ASSUME NEW n \in 1..Len(log'[k]), log'[k][n].term = Floor(k)'
      PROVE  \/ Accepted(k, Floor(k)', n) \in A2
             \/ Floor(k)' < currentTerm'[k] /\ Victory(k, Floor(k)') \in elected'
  BY <1>2, PeerAccepts
<1>3. ASSUME NEW a \in A2, a.peer = k
      PROVE  /\ a.term <= Floor(k)'
             /\ a.index \in 1..Len(H2[a.term])
             /\ H2[a.term][a.index].term = a.term
             /\ \/ Agree(log'[k], H2[a.term], a.index)
                \/ a.term < Floor(k)' /\ Dead(A2, a.term, a.index)'
  <2>1. a \in [peer: Server, term: Nat, index: Nat]  BY AcceptedType
  <2>2. PICK u, n : u = a.term /\ n = a.index  OBVIOUS
  <2>3. a = Accepted(k, u, n)  BY <1>3, <2>1, <2>2 DEF Accepted
  <2> QED  BY <2>2, <2>3, AcceptedNext
<1> QED  BY <1>1, <1>2, <1>3 DEF PeerStores

-----------------------------------------------------------------------------
(* What peers accept of the leader of a term is what it sends them. *)

LEMMA OneWinner ==
  ASSUME NEW H, NEW H2, Known(H, H2), NEW i, NEW j, NEW t,
         Victory(i, t) \in elected', Victory(j, t) \in elected'
  PROVE  i = j
  BY DEF Known, Stepping, Sane, ElectionSafety, Victory

LEMMA GainFromWinner ==
  ASSUME NEW H, NEW H2, NEW A, NEW A2, Storing(H, H2, A, A2),
         NEW k \in Server, NEW t, NEW n, Accepted(k, t, n) \in A2, Accepted(k, t, n) \notin A,
         NEW i \in Server, Victory(i, t) \in elected'
  PROVE  \/ k = i /\ Victory(i, t) \in elected
         \/ \E q : Takes(k, i, q) /\ q.term = t /\ n <= SentLastIndex(q)
<1>1. Known(H, H2) /\ elected \subseteq elected'  BY StoringFacts
<1>2. GainedBy(k, t, n)  BY GainComesFrom
<1>3. CASE Victory(k, t) \in elected
  BY <1>1, <1>3, OneWinner
<1>4. CASE \E j \in Server : \E q : Takes(k, j, q) /\ q.term = t /\ n <= SentLastIndex(q)
  <2>1. PICK j \in Server : \E q : Takes(k, j, q) /\ q.term = t /\ n <= SentLastIndex(q)
    BY <1>4
  <2>2. PICK q : Takes(k, j, q) /\ q.term = t /\ n <= SentLastIndex(q)  BY <2>1
  <2>3. Victory(j, t) \in elected  BY <1>1, <2>2, TakesAgrees
  <2>4. j = i  BY <1>1, <2>3, OneWinner
  <2> QED  BY <2>2, <2>4
<1> QED  BY <1>2, <1>3, <1>4 DEF GainedBy

\* While p is on its way to k, k takes nothing else of its term.
LEMMA GainWhileTravelling ==
  ASSUME NEW H, NEW H2, NEW A, NEW A2, Storing(H, H2, A, A2),
         NEW i \in Server, NEW k \in Server, NEW p \in AppendRequestMsg, Travels(p, i, k),
         NEW n, Accepted(k, p.term, n) \in A2, Accepted(k, p.term, n) \notin A
  PROVE  Takes(k, i, p) /\ n <= SentLastIndex(p)
<1>1. /\ Known(H, H2) /\ elected \subseteq elected' /\ QueueInv /\ LoneCall(i)
  BY StoringFacts DEF Known, Stepping, Sane, CallsInv
<1>2. Victory(i, p.term) \in elected'  BY <1>1, RequestIsSlice
<1>3. k # i  BY <1>1, TravelsToOther
<1>4. PICK t : t = p.term  OBVIOUS
<1>5. PICK q : Takes(k, i, q) /\ q.term = t /\ n <= SentLastIndex(q)
  BY <1>2, <1>3, <1>4, GainFromWinner
<1>6. q \in AppendRequestMsg /\ Travels(q, i, k)  BY <1>5 DEF Takes
<1>7. q = p  BY <1>1, <1>4, <1>5, <1>6 DEF LoneCall
<1> QED  BY <1>5, <1>7

LEMMA CoversStays ==
  ASSUME NEW H, NEW H2, NEW A, NEW A2, Storing(H, H2, A, A2),
         NEW i \in Server, NEW k \in Server, NEW p \in AppendRequestMsg, Travels(p, i, k),
         NEW t, t = p.term, NEW m, m = SentLastIndex(p)
  PROVE  Covers(k, t, m, A2)'
<1>1. Covers(k, t, m, A)
  <2>1. AppendKeeps(A)  BY DEF Storing, StoreInv
  <2> QED  BY <2>1 DEF AppendKeeps
<1>2. t \in Nat /\ m \in Nat /\ m \in Int /\ m <= m  BY SliceType
<1>3. CoversOld(k, t, m, A2)'  BY <1>1, <1>2, CoversOldStays DEF Covers
<1>4. ASSUME NEW n \in Nat, Accepted(k, t, n) \in A2  PROVE n <= m
  BY <1>1, <1>4, GainWhileTravelling DEF Covers, CoversOwn
<1> QED  BY <1>3, <1>4 DEF Covers, CoversOwn

\* A request that does not match takes nothing away either.
LEMMA RefusalStays ==
  ASSUME NEW H, NEW H2, NEW A, NEW A2, Storing(H, H2, A, A2),
         NEW i \in Server, NEW k \in Server, NEW p \in AppendRequestMsg, Travels(p, i, k),
         NEW t, t = p.term, NEW m \in Int, Covers(k, t, m, A), t <= Floor(k),
         Floor(k) = t => ~PrevMatches(log[k], p)
  PROVE  /\ Covers(k, t, m, A2)'
         /\ t <= Floor(k)'
         /\ Floor(k)' = t => ~PrevMatches(log'[k], p)
<1>0. /\ t \in Nat /\ Floor(k) \in Nat /\ Floor(k)' \in Nat /\ Floor(k) <= Floor(k)'
      /\ Known(H, H2) /\ elected \subseteq elected' /\ LoneCall(i)
  BY SliceType, StoringFacts DEF Known, Stepping, CallsInv
<1>1. ASSUME Takes(k, i, p)  PROVE FALSE
  <2>1. t = Floor(k)' /\ PrevMatches(log[k], p)  BY <1>1 DEF Takes
  <2>2. Floor(k) = t  BY <1>0, <2>1
  <2> QED  BY <2>1, <2>2
<1>2. CoversOld(k, t, m, A2)'
  <2>1. m <= m  OBVIOUS
  <2> QED  BY <1>0, <2>1, CoversOldStays DEF Covers
<1>3. ASSUME NEW n \in Nat, Accepted(k, t, n) \in A2  PROVE n <= m
  BY <1>1, <1>3, GainWhileTravelling DEF Covers, CoversOwn
<1>4. ASSUME Floor(k)' = t  PROVE ~PrevMatches(log'[k], p)
  <2>1. ~PrevMatches(log[k], p)  BY <1>0, <1>4
  <2>2. PICK z \in Server : LogStep(z)  BY <1>0 DEF Known
  <2>3. CASE LogsStay(k) \/ Extends(k)
    BY <2>1, <2>3 DEF LogsStay, Extends
  <2>4. CASE Loses(k)
    BY <1>0, <2>1, <2>4, CutKeepsRefusal
  <2>5. CASE Replaces(k, H)
    <3>1. PICK j \in Server : \E q : Takes(k, j, q)  BY <2>5 DEF Replaces
    <3>2. PICK q : Takes(k, j, q)  BY <3>1
    <3>3. /\ q.term = t /\ q \in AppendRequestMsg /\ Travels(q, j, k)
      BY <1>4, <3>2 DEF Takes
    <3>4. Victory(j, t) \in elected' /\ Victory(i, t) \in elected'
      BY <1>0, <3>3, RequestIsSlice
    <3>5. j = i  BY <1>0, <3>4, OneWinner
    <3>6. q = p  BY <1>0, <3>3, <3>5 DEF LoneCall
    <3> QED  BY <1>1, <3>2, <3>5, <3>6
  <2> QED  BY <1>0, <2>2, <2>3, <2>4, <2>5, LogsChange
<1>5. t <= Floor(k)'  BY <1>0
<1> QED  BY <1>2, <1>3, <1>4, <1>5 DEF Covers, CoversOwn

-----------------------------------------------------------------------------
(* What a leader has of its own term and of earlier ones. *)

LEMMA LeaderSent ==
  ASSUME NEW H, NEW H2, Known(H, H2), NEW i \in Server, state[i] = FSM_LEADER,
         NEW k \in Server, NEW q \in AppendRequestMsg, Travels(q, i, k),
         q.term = currentTerm[i]
  PROVE  rpc[i][k] # None /\ rpc[i][k].req = q /\ SentLastIndex(q) <= Len(log[i])
<1>0. TypeOK /\ LoneCall(i) /\ LogInv(H) /\ QueueInv
  BY DEF Known, Stepping, Sane, CallsInv
<1>1. rpc[i][k] # None /\ rpc[i][k].req = q
  <2>1. CASE \E n \in 1..Len(writes[k]) :
               /\ writes[k][n].then \in {"vote", "append", "refuse"}
               /\ writes[k][n].from = i /\ writes[k][n].req = q
    <3>1. PICK n \in 1..Len(writes[k]) :
            /\ writes[k][n].then \in {"vote", "append", "refuse"}
            /\ writes[k][n].from = i /\ writes[k][n].req = q
      BY <2>1
    <3>2. Waiting(writes[k][n], i)
      <4>1. writes[k][n] \in Write
        <5>1. writes[k] \in Seq(Write)  BY <1>0 DEF TypeOK
        <5> QED  BY <5>1
      <4>2. PICK w : w = writes[k][n]  OBVIOUS
      <4>3. w.then = "vote" => w.req \in VoteRequestMsg  BY <4>1, <4>2 DEF Write
      <4>4. w.then # "vote"  BY <3>1, <4>2, <4>3 DEF VoteRequestMsg, AppendRequestMsg
      <4> QED  BY <3>1, <4>2, <4>4 DEF Waiting
    <3>3. rpc[i][k] # None  BY <1>0, <3>1, <3>2 DEF LoneCall
    <3>4. rpc[i][k].req \in AppendRequestMsg /\ rpc[i][k].req.term = q.term
      <4>1. rpc[i][k] \in Call  BY <1>0, <3>3 DEF TypeOK
      <4>2. rpc[i][k].req \in Request  BY <4>1 DEF Call
      <4>3. rpc[i][k].req.type # "vote" /\ rpc[i][k].req.term = currentTerm[i]
        BY <1>0, <3>3 DEF QueueInv, QueueOK, CallsMatchRole, FSM_LEADER, FSM_CANDIDATE
      <4> QED  BY <4>2, <4>3 DEF Request, VoteRequestMsg
    <3>5. Travels(rpc[i][k].req, i, k)  BY <3>3 DEF Travels
    <3> QED  BY <1>0, <3>3, <3>4, <3>5 DEF LoneCall
  <2>2. CASE [from |-> i, to |-> k, req |-> q] \in stale
    BY <1>0, <2>2 DEF LoneCall
  <2> QED  BY <2>1, <2>2 DEF Travels
<1>2. SentLastIndex(q) <= Len(log[i])  BY <1>0, <1>1 DEF LogInv, LeaderOK
<1> QED  BY <1>1, <1>2

\* The log of a leader, and of a candidate, only grows.
LEMMA RoleKeepsLog ==
  ASSUME NEW H, NEW H2, Known(H, H2), NEW i \in Server,
         state'[i] \in {FSM_LEADER, FSM_CANDIDATE}
  PROVE  Begins(log[i], log'[i]) /\ log[i] \in Seq(Entry) /\ log'[i] \in Seq(Entry)
<1>0. TypeOK /\ TypeOK'  BY DEF Known, Stepping, Sane
<1>1. log[i] \in Seq(Entry) /\ log'[i] \in Seq(Entry)  BY <1>0, VLogType, VLogTypeNext
<1>2. PICK z \in Server : LogStep(z)  BY DEF Known
<1>3. CASE log'[i] = log[i]  BY <1>1, <1>3, BeginsItself
<1>4. ~Replaces(i, H)
  BY DEF Replaces, Takes, FSM_LEADER, FSM_CANDIDATE, FSM_FOLLOWER
<1> QED  BY <1>1, <1>2, <1>3, <1>4, LogsChange DEF LogsStay, Extends, Loses

LEMMA WinnerIsComplete ==
  ASSUME NEW H, NEW H2, NEW A, NEW A2, Storing(H, H2, A, A2), NEW i \in Server, Wins(i, H)
  PROVE  Complete(log[i], currentTerm[i], H, A)
<1> DEFINE t == currentTerm[i]
<1>1. /\ ElectionInv' /\ BallotsStored /\ CandidateOK(i, H, A) /\ FloorsOK /\ TypeOK
  BY StoringFacts DEF Storing, StoreInv, Known, Stepping, Sane, ElectionInv
<1>2. /\ state[i] = FSM_CANDIDATE /\ Victory(i, t) \in elected' /\ ballots' = ballots
  BY DEF Wins
<1>3. PICK e : e = Victory(i, t)  OBVIOUS
<1>4. e.term = t /\ e.leader = i /\ e \in elected'  BY <1>2, <1>3 DEF Victory
<1>5. PICK Q \in SUBSET Server :
        IsMajority(Q) /\ \A k \in Q : Ballot(k, e.term, e.leader) \in ballots'
  BY <1>1, <1>4 DEF ElectionInv, LeadersHaveMajorities
<1>6. ASSUME NEW k \in Q  PROVE k \in Server /\ Ballot(k, t, i) \in ballots
  BY <1>2, <1>4, <1>5
<1> SUFFICES ASSUME NEW u \in Nat, NEW n \in Nat \ {0}, u < t
             PROVE  Dead(A, u, n) \/ Agree(log[i], H[u], n)
  BY DEF Complete
<1>7. CASE \E k \in Q : Accepted(k, u, n) \in A
  <2>1. PICK k \in Q : Accepted(k, u, n) \in A  BY <1>7
  <2>2. CompleteFor(k, log[i], t, H, A)  BY <1>1, <1>2, <1>6 DEF CandidateOK
  <2> QED  BY <2>1, <2>2 DEF CompleteFor
<1>8. CASE \A k \in Q : Accepted(k, u, n) \notin A
  <2>1. ASSUME NEW k \in Q  PROVE Floor(k) > u
    <3>1. PICK b : b = Ballot(k, t, i)  OBVIOUS
    <3>2. b \in ballots /\ b.term = t /\ b.voter = k  BY <1>6, <3>1 DEF Ballot
    <3>3. t <= diskTerm[k]
      <4>1. diskTerm[k] \in Nat /\ t \in Nat  BY <1>1, <1>6 DEF TypeOK
      <4>2. b.term < diskTerm[b.voter] \/ b.term = diskTerm[b.voter]
        BY <1>1, <3>2 DEF BallotsStored
      <4> QED  BY <3>2, <4>1, <4>2
    <3>4. diskTerm[k] <= Floor(k) /\ Floor(k) \in Nat /\ diskTerm[k] \in Nat /\ t \in Nat
      BY <1>1, <1>6 DEF FloorsOK, TypeOK
    <3> QED  BY <3>3, <3>4
  <2> QED  BY <1>5, <1>8, <2>1 DEF Dead
<1> QED  BY <1>7, <1>8

LEMMA LeaderIsCompleteNext ==
  ASSUME NEW H, NEW H2, NEW A, NEW A2, Storing(H, H2, A, A2), NEW i \in Server
  PROVE  LeaderIsComplete(i, H2, A2)'
<1>a. CASE state'[i] # FSM_LEADER
  BY <1>a DEF LeaderIsComplete
<1>b. CASE state'[i] = FSM_LEADER
  <2>0. /\ Known(H, H2) /\ StoreInv(H, A) /\ LogInv(H) /\ LogInv(H2)'
        /\ elected \subseteq elected' /\ RolesMade(H)
        /\ LeaderIsComplete(i, H, A)
    BY StoringFacts DEF StoreInv, Known
  <2>1. PICK t : t = currentTerm[i]  OBVIOUS
  <2>2. currentTerm'[i] = t /\ (state[i] = FSM_LEADER \/ Wins(i, H))
    BY <1>b, <2>0, <2>1 DEF RolesMade
  <2>3. Begins(log[i], log'[i]) /\ log[i] \in Seq(Entry) /\ log'[i] \in Seq(Entry)
    BY <1>b, <2>0, RoleKeepsLog
  <2>4. t \in Nat  BY <2>1, StoringFacts
  <2>5. Complete(log[i], t, H, A)
    BY <2>0, <2>1, <2>2, WinnerIsComplete DEF LeaderIsComplete
  <2>6. PICK l : l = log'[i]  OBVIOUS
  <2>7. Complete(l, t, H2, A2)'  BY <2>3, <2>5, <2>6, CompleteStays
  <2>8. ASSUME NEW k \in Server, NEW n \in Nat, Accepted(k, t, n) \in A2
        PROVE  n <= Len(log'[i])
    <3>0. Len(log[i]) <= Len(log'[i]) /\ Len(log[i]) \in Nat /\ Len(log'[i]) \in Nat
      <4>1. Len(log[i]) <= Len(log'[i])  BY <2>3 DEF Begins, Agree
      <4> QED  BY <2>3, <4>1
    <3>1. CASE state[i] = FSM_LEADER /\ Accepted(k, t, n) \in A
      <4>1. n <= Len(log[i])
        BY <2>0, <2>1, <3>1 DEF LeaderIsComplete, CoversOwn
      <4> QED  BY <3>0, <4>1
    <3>2. CASE Wins(i, H) /\ Accepted(k, t, n) \in A
      <4>1. H[t] = <<>>  BY <2>1, <3>2 DEF Wins
      <4>2. PeerStores(k, H, A)  BY <2>0 DEF StoreInv
      <4>3. PICK a : a = Accepted(k, t, n)  OBVIOUS
      <4>4. a \in A /\ a.peer = k /\ a.term = t /\ a.index = n
        BY <3>2, <4>3 DEF Accepted
      <4>5. n \in 1..Len(H[t])  BY <4>2, <4>4 DEF PeerStores
      <4> QED  BY <4>1, <4>5
    <3>3. CASE Accepted(k, t, n) \notin A
      <4>1. Victory(i, t) \in elected'
        BY <1>b, <2>0, <2>2 DEF LogInv, LeaderOK
      <4>2. CASE k = i
        BY <2>8, <3>3, <4>2, NewGain
      <4>3. CASE k # i
        <5>1. PICK q : Takes(k, i, q) /\ q.term = t /\ n <= SentLastIndex(q)
          BY <2>8, <3>3, <4>1, <4>3, GainFromWinner
        <5>2. q \in AppendRequestMsg /\ Travels(q, i, k)  BY <5>1 DEF Takes
        <5>3. ~Wins(i, H)  BY <2>1, <5>1, <5>2 DEF Wins
        <5>4. SentLastIndex(q) <= Len(log[i])
          BY <2>0, <2>1, <2>2, <5>1, <5>2, <5>3, LeaderSent
        <5>5. SentLastIndex(q) \in Nat  BY <5>2, SliceType
        <5> QED  BY <3>0, <5>1, <5>4, <5>5
      <4> QED  BY <4>2, <4>3
    <3> QED  BY <2>2, <3>1, <3>2, <3>3
  <2>9. PICK m : m = Len(log'[i])  OBVIOUS
  <2>10. \A k \in Server : CoversOwn(k, t, m, A2)
    BY <2>8, <2>9 DEF CoversOwn
  <2>11. /\ Complete(log[i], currentTerm[i], H2, A2)'
         /\ \A k \in Server : CoversOwn(k, currentTerm[i], Len(log[i]), A2)'
    <3>1. Complete(log[i], currentTerm[i], H2, A2)'
      BY <2>2, <2>6, <2>7 DEF Complete
    <3>2. ASSUME NEW k \in Server  PROVE CoversOwn(k, currentTerm[i], Len(log[i]), A2)'
      BY <2>2, <2>9, <2>10 DEF CoversOwn
    <3> QED  BY <3>1, <3>2
  <2> QED  BY <2>11 DEF LeaderIsComplete
<1> QED  BY <1>a, <1>b

LEMMA WinnersCompleteNext ==
  ASSUME NEW H, NEW H2, NEW A, NEW A2, Storing(H, H2, A, A2)
  PROVE  WinnersComplete(H2, A2)'
<1> SUFFICES ASSUME NEW e \in elected'
             PROVE  Complete(H2[e.term], e.term, H2, A2)'
  BY DEF WinnersComplete
<1>0. /\ TypeOK' /\ Known(H, H2) /\ StoreInv(H, A) /\ LogInv(H2)'
      /\ IsHistory(H) /\ IsHistory(H2) /\ HistoryGrows(H, H2) /\ RolesMade(H)
  BY StoringFacts DEF Known
<1>1. e.term \in Nat  BY <1>0 DEF TypeOK
<1>2. PICK t \in Nat : t = e.term  BY <1>1
<1>3. H[t] \in Seq(Entry) /\ H2[t] \in Seq(Entry) /\ Begins(H[t], H2[t])
  <2>1. H[t] \in Seq(Entry) /\ H2[t] \in Seq(Entry)  BY <1>0 DEF IsHistory
  <2> QED  BY <1>0, <2>1 DEF HistoryGrows
<1>4. CASE e \in elected
  <2>1. Complete(H[t], t, H, A)  BY <1>0, <1>2, <1>4 DEF StoreInv, WinnersComplete
  <2>2. Complete(H2[t], t, H2, A2)'  BY <1>3, <2>1, CompleteStays
  <2> QED  BY <1>2, <2>2
<1>5. CASE e \notin elected
  <2>1. PICK i \in Server : Wins(i, H) /\ e = Victory(i, currentTerm[i])
    BY <1>0, <1>5 DEF RolesMade
  <2>2. currentTerm'[i] = t /\ currentTerm[i] = t /\ state'[i] = FSM_LEADER
        /\ log'[i] = log[i]
    BY <1>2, <2>1 DEF Wins, Victory
  <2>3. Complete(log[i], t, H, A)  BY <2>1, <2>2, WinnerIsComplete
  <2>4. H2[t] = VLog(i)'  BY <1>0, <2>2 DEF LogInv, LeaderOK
  <2>5. log[i] \in Seq(Entry) /\ Begins(log[i], H2[t])
    BY <1>0, <2>2, <2>4, VLogTypeNext
  <2>6. Complete(H2[t], t, H2, A2)'  BY <1>3, <2>3, <2>5, CompleteStays
  <2> QED  BY <1>2, <2>6
<1> QED  BY <1>4, <1>5

-----------------------------------------------------------------------------
(* What requests take away and what replies say. *)

LEMMA RequestCovers ==
  ASSUME NEW H, NEW H2, NEW A, NEW A2, Storing(H, H2, A, A2),
         NEW i \in Server, NEW j \in Server, NEW q \in AppendRequestMsg, Sent(i, j, q),
         NEW t, t = q.term, NEW m, m = SentLastIndex(q)
  PROVE  Covers(j, t, m, A2)'
<1>0. /\ TypeOK /\ TypeOK' /\ Known(H, H2) /\ StoreInv(H, A) /\ LogInv(H)
      /\ elected \subseteq elected' /\ RolesMade(H)
  BY StoringFacts DEF Known
<1>1. /\ t \in Nat /\ q.prev \in Nat /\ Len(q.entries) \in Nat
      /\ m = q.prev + Len(q.entries) /\ m \in Nat
  BY SliceType
<1>2. PICK p : p = q.prev  OBVIOUS
<1>3. p \in Int /\ m \in Int /\ p <= m  BY <1>1, <1>2
<1>4. t = currentTerm[i] /\ i # j /\ SendsEntries(i, j, q)
  BY DEF Sent, AsksForVote, VoteRequestMsg, AppendRequestMsg
<1>5. CASE state[i] = FSM_LEADER /\ rpc[i][j] = None /\ q.prev = nextIndex[i][j] - 1
  <2>1. ProgressOK(i, H, A) /\ LeaderOK(i, H)  BY <1>0 DEF StoreInv, LogInv
  <2>2. Covers(j, t, p, A)
    BY <1>2, <1>4, <1>5, <2>1 DEF ProgressOK, Peers
  <2>3. CoversOld(j, t, m, A2)'  BY <1>1, <1>3, <2>2, CoversOldStays DEF Covers
  <2>4. ASSUME NEW n \in Nat, Accepted(j, t, n) \in A2  PROVE n <= m
    <3>1. CASE Accepted(j, t, n) \in A
      <4>1. n <= p  BY <2>2, <3>1 DEF Covers, CoversOwn
      <4> QED  BY <1>3, <4>1
    <3>2. CASE Accepted(j, t, n) \notin A
      <4>1. Victory(i, t) \in elected'  BY <1>0, <1>4, <1>5, <2>1 DEF LeaderOK
      <4>2. PICK r : Takes(j, i, r) /\ r.term = t
        BY <1>4, <2>4, <3>2, <4>1, GainFromWinner
      <4>3. r \in AppendRequestMsg /\ Travels(r, i, j)  BY <4>2 DEF Takes
      <4> QED  BY <1>0, <4>2, <4>3, SentAlone
    <3> QED  BY <3>1, <3>2
  <2> QED  BY <2>3, <2>4 DEF Covers, CoversOwn
<1>6. CASE state[i] = FSM_CANDIDATE /\ state'[i] = FSM_LEADER
           /\ q.prev = Len(log[i]) /\ q.entries = <<>>
  <2>1. log'[i] = log[i] /\ currentTerm'[i] = t  BY <1>4 DEF Sent
  <2>2. LeaderIsComplete(i, H2, A2)'  BY LeaderIsCompleteNext
  <2>3. PICK l : l = log[i]  OBVIOUS
  <2>4. /\ Complete(l, t, H2, A2)'
        /\ \A k \in Server : CoversOwn(k, t, Len(l), A2)
    <3>1. /\ Complete(log[i], currentTerm[i], H2, A2)'
          /\ \A k \in Server : CoversOwn(k, currentTerm[i], Len(log[i]), A2)'
      BY <1>6, <2>2 DEF LeaderIsComplete
    <3>2. Complete(l, t, H2, A2)'  BY <2>1, <2>3, <3>1 DEF Complete
    <3>3. ASSUME NEW k \in Server  PROVE CoversOwn(k, t, Len(l), A2)
      BY <2>1, <2>3, <3>1 DEF CoversOwn
    <3> QED  BY <3>2, <3>3
  <2>5. m = Len(l)  BY <1>1, <1>6, <2>3
  <2>6. CoversOld(j, t, m, A2)'
    BY <2>4, <2>5 DEF Complete, CoversOld, Agree
  <2> QED  BY <2>4, <2>5, <2>6 DEF Covers, CoversOwn
<1> QED  BY <1>4, <1>5, <1>6 DEF SendsEntries

LEMMA AppendKeepsNext ==
  ASSUME NEW H, NEW H2, NEW A, NEW A2, Storing(H, H2, A, A2)
  PROVE  AppendKeeps(A2)'
<1> SUFFICES ASSUME NEW i \in Server, NEW j \in Server, NEW q \in AppendRequestMsg,
                    Travels(q, i, j)'
             PROVE  Covers(j, q.term, SentLastIndex(q), A2)'
  BY DEF AppendKeeps
<1>1. Travels(q, i, j) \/ Sent(i, j, q)  BY StoringFacts DEF Known, SendsMade
<1>2. PICK t, m : t = q.term /\ m = SentLastIndex(q)  OBVIOUS
<1>3. Covers(j, t, m, A2)'  BY <1>1, <1>2, CoversStays, RequestCovers
<1> QED  BY <1>2, <1>3

\* A log that has not got the entry before those of q has less of the leader's.
LEMMA RefusedBefore ==
  ASSUME NEW q \in AppendRequestMsg, NEW l \in Seq(Entry), NEW h \in Seq(Entry),
         SliceOf(q, h), ~PrevMatches(l, q), NEW n \in Nat, Agree(l, h, n)
  PROVE  n < q.prev /\ n <= Len(l)
<1>1. q.prev \in Nat /\ q.prevTerm = TermAt(h, q.prev)  BY SliceType DEF SliceOf
<1>2. PICK a, b, p \in Nat : a = Len(l) /\ b = Len(h) /\ p = q.prev  BY <1>1
<1>3. n <= a /\ n <= b /\ \A x \in 1..n : l[x] = h[x]  BY <1>2 DEF Agree
<1>4. ASSUME p <= n  PROVE FALSE
  <2>1. p <= a /\ p <= b  BY <1>3, <1>4
  <2>2. p = 0 \/ l[p] = h[p]
    <3>1. p = 0 \/ p \in 1..n  BY <1>4
    <3> QED  BY <1>3, <3>1
  <2>3. TermAt(l, p) = TermAt(h, p)  BY <1>2, <2>1, <2>2 DEF TermAt
  <2> QED  BY <1>1, <1>2, <2>1, <2>3 DEF PrevMatches
<1>5. n < p  BY <1>4
<1> QED  BY <1>2, <1>3, <1>5

LEMMA TakenIsHeld ==
  ASSUME NEW H, NEW H2, NEW A, NEW A2, Storing(H, H2, A, A2),
         NEW i \in Server, NEW j \in Server, NEW q, Takes(j, i, q),
         NEW t, t = q.term, NEW m, m = SentLastIndex(q)
  PROVE  Holds(j, t, m, H2, A2)
<1>0. /\ TypeOK' /\ Known(H, H2) /\ IsHistory(H) /\ IsHistory(H2) /\ HistoryGrows(H, H2)
      /\ A2 = A \cup Gained'
  BY StoringFacts DEF Storing
<1>1. /\ q \in AppendRequestMsg /\ H[t] \in Seq(Entry) /\ t \in Nat
      /\ Begins(log'[j], H[t]) /\ Len(log'[j]) = m
  BY <1>0, TakesAgrees
<1>2. t = currentTerm'[j] /\ t = Floor(j)'  BY DEF Takes
<1>3. H2[t] \in Seq(Entry) /\ Begins(H[t], H2[t]) /\ log'[j] \in Seq(Entry)
  <2>1. H2[t] \in Seq(Entry)  BY <1>0, <1>1 DEF IsHistory
  <2> QED  BY <1>0, <1>1, <2>1, VLogTypeNext DEF HistoryGrows
<1>4. PICK a, b, c \in Nat : a = Len(H[t]) /\ b = Len(H2[t]) /\ c = Len(log'[j])
  <2>1. Len(H[t]) \in Nat  BY <1>1
  <2>2. Len(H2[t]) \in Nat  BY <1>3
  <2>3. Len(log'[j]) \in Nat  BY <1>3
  <2> QED  BY <2>1, <2>2, <2>3
<1>5. /\ c <= a /\ \A n \in 1..c : log'[j][n] = H[t][n]
      /\ a <= b /\ \A n \in 1..a : H[t][n] = H2[t][n]
  BY <1>1, <1>3, <1>4 DEF Begins, Agree
<1>6. c <= b /\ \A n \in 1..c : log'[j][n] = H2[t][n]
  <2>1. c <= b /\ \A n \in 1..c : n \in 1..a  BY <1>5
  <2> QED  BY <1>5, <2>1
<1>7. ASSUME NEW n \in 1..c, H2[t][n].term = t
      PROVE  Accepted(j, t, n) \in A2
  <2>1. n \in 1..Len(log'[j]) /\ log'[j][n].term = t  BY <1>4, <1>6, <1>7
  <2>2. PICK x : x = Accepted(j, t, n)  OBVIOUS
  <2>3. x.peer = j /\ x.term = t /\ x.index = n  BY <2>2 DEF Accepted
  <2>4. x \in [peer: Server, term: Nat, index: Nat]  BY <1>1, <2>2 DEF Accepted
  <2>5. x \in Gained'  BY <1>2, <2>1, <2>3, <2>4 DEF Gained
  <2> QED  BY <1>0, <2>2, <2>5
<1> QED  BY <1>1, <1>4, <1>6, <1>7 DEF Holds

\* Of what it has accepted a follower that refuses q has all before the entry
\* where the leader goes on.
LEMMA RefusalCovers ==
  ASSUME NEW H, NEW H2, NEW A, NEW A2, Storing(H, H2, A, A2),
         NEW i \in Server, NEW j \in Server, NEW q \in AppendRequestMsg, Travels(q, i, j),
         NEW a, Refuses(j, q, a), NEW t, t = q.term, NEW m, m = Back(q, a) - 1
  PROVE  Covers(j, t, m, A2)' /\ m \in Int
<1>0. /\ TypeOK' /\ Known(H, H2) /\ IsHistory(H2) /\ HistoryGrows(H, H2)
      /\ elected \subseteq elected' /\ WinnersComplete(H2, A2)'
  BY StoringFacts, WinnersCompleteNext
<1>1. /\ Victory(i, t) \in elected' /\ SliceOf(q, H[t]) /\ t \in Nat
      /\ H[t] \in Seq(Entry) /\ q.prev \in Nat
  BY <1>0, RequestIsSlice
<1>2. H2[t] \in Seq(Entry) /\ Begins(H[t], H2[t]) /\ log'[j] \in Seq(Entry)
  <2>1. H2[t] \in Seq(Entry)  BY <1>0, <1>1 DEF IsHistory
  <2> QED  BY <1>0, <1>1, <2>1, VLogTypeNext DEF HistoryGrows
<1>3. SliceOf(q, H2[t])  BY <1>1, <1>2, SliceGrows
<1>4. /\ t = Floor(j)' /\ ~PrevMatches(log'[j], q)
      /\ a.conflict = IF Len(log'[j]) < q.prev THEN Len(log'[j]) + 1 ELSE 0
  BY DEF Refuses
<1>5. PICK c, p \in Nat : c = Len(log'[j]) /\ p = q.prev  BY <1>1, <1>2
<1>6. Back(q, a) = IF c < p /\ c + 1 < p THEN c + 1 ELSE p
  <2>1. a.conflict = IF c < p THEN c + 1 ELSE 0  BY <1>4, <1>5
  <2>2. c + 1 # 0  BY <1>5
  <2> QED  BY <1>5, <2>1, <2>2 DEF Back
<1>7. m = (IF c < p /\ c + 1 < p THEN c + 1 ELSE p) - 1  BY <1>6
<1>8. ASSUME NEW n \in Nat, Agree(log'[j], H2[t], n)  PROVE n <= m
  <2>1. n < q.prev /\ n <= Len(log'[j])  BY <1>2, <1>3, <1>4, <1>8, RefusedBefore
  <2>2. n < p /\ n <= c  BY <1>5, <2>1
  <2> QED  BY <1>7, <2>2
<1>9. ASSUME NEW u \in Nat, NEW n \in Nat \ {0}, Accepted(j, u, n) \in A2, u < t
      PROVE  n <= m \/ Dead(A2, u, n)'
  <2>1. Agree(log'[j], H2[u], n) \/ Dead(A2, u, n)'  BY <1>9, AcceptedNext
  <2>2. Dead(A2, u, n)' \/ Agree(H2[t], H2[u], n)
    <3>1. PICK e : e = Victory(i, t)  OBVIOUS
    <3>2. e \in elected' /\ e.term = t  BY <1>1, <3>1 DEF Victory
    <3>3. Complete(H2[e.term], e.term, H2, A2)'  BY <1>0, <3>2 DEF WinnersComplete
    <3> QED  BY <1>9, <3>2, <3>3 DEF Complete
  <2>3. CASE Agree(log'[j], H2[u], n) /\ Agree(H2[t], H2[u], n)
    <3>1. Agree(log'[j], H2[t], n)
      BY <2>3 DEF Agree
    <3> QED  BY <1>8, <3>1
  <2> QED  BY <2>1, <2>2, <2>3
<1>10. ASSUME NEW n \in Nat, Accepted(j, t, n) \in A2  PROVE n <= m
  <2>1. t < Floor(j)' \/ Agree(log'[j], H2[t], n)  BY <1>10, AcceptedNext
  <2>2. ~(t < Floor(j)')  BY <1>1, <1>4
  <2> QED  BY <1>8, <2>1, <2>2
<1>11. CoversOld(j, t, m, A2)'
  <2> SUFFICES ASSUME NEW u \in Nat, NEW n \in Nat \ {0}, u < t
               PROVE  \/ n <= m
                      \/ Dead(A2, u, n)'
                      \/ t <= Floor(j)' /\ Accepted(j, u, n) \notin A2
    BY DEF CoversOld
  <2>1. t <= Floor(j)'  BY <1>1, <1>4
  <2> QED  BY <1>9, <2>1
<1>12. m \in Int  BY <1>7
<1> QED  BY <1>10, <1>11, <1>12 DEF Covers, CoversOwn

LEMMA ReplyOKNext ==
  ASSUME NEW H, NEW H2, NEW A, NEW A2, Storing(H, H2, A, A2),
         NEW i \in Server, NEW j \in Server
  PROVE  ReplyOK(i, j, H2, A2)'
<1>0. /\ TypeOK /\ TypeOK' /\ Known(H, H2) /\ StoreInv(H, A) /\ RepliesMade
  BY StoringFacts DEF Known
<1>1. PICK q, a : q = rpc'[i][j].req /\ a = rpc'[i][j].reply  OBVIOUS
<1>2. SUFFICES ASSUME HasReply(i, j)', a.term <= q.term
               PROVE  /\ q.term <= Floor(j)'
                      /\ a.ok => Holds(j, q.term, SentLastIndex(q), H2, A2)
                      /\ ~a.ok => /\ Covers(j, q.term, Back(q, a) - 1, A2)'
                                  /\ Floor(j)' = q.term => ~PrevMatches(log'[j], q)
  BY <1>1 DEF ReplyOK, HasReply, Holds
<1>3. q \in AppendRequestMsg /\ a \in Reply
  <2>1. rpc'[i][j] \in Call  BY <1>0, <1>2 DEF TypeOK, HasReply
  <2>2. q \in Request /\ a \in Reply  BY <1>1, <1>2, <2>1 DEF Call, HasReply
  <2>3. q.type = "append"  BY <1>1, <1>2 DEF HasReply
  <2> QED  BY <2>2, <2>3 DEF Request, VoteRequestMsg
<1>4. Travels(q, i, j) /\ rpc[i][j] # None /\ rpc[i][j].req = q
  BY <1>0, <1>1, <1>2 DEF RepliesMade, SameReply, Answers, Travels
<1>5. PICK t, m : t = q.term /\ m = SentLastIndex(q)  OBVIOUS
<1>6. t \in Nat /\ m \in Nat /\ q.prev \in Nat  BY <1>3, <1>5, SliceType
<1>7. PICK b : b = Back(q, a) - 1  OBVIOUS
<1>8. CASE SameReply(i, j)
  <2>1. HasReply(i, j) /\ rpc[i][j].reply = a
    BY <1>1, <1>2, <1>8 DEF SameReply, HasReply
  <2>2. ReplyOK(i, j, H, A)  BY <1>0 DEF StoreInv
  <2>3. /\ t <= Floor(j)
        /\ a.ok => Holds(j, t, m, H, A)
        /\ ~a.ok => /\ Covers(j, t, b, A)
                    /\ Floor(j) = t => ~PrevMatches(log[j], q)
    BY <1>2, <1>4, <1>5, <1>7, <2>1, <2>2 DEF ReplyOK, HasReply
  <2>4. t <= Floor(j)'
    <3>1. Floor(j) \in Nat /\ Floor(j)' \in Nat /\ Floor(j) <= Floor(j)'  BY StoringFacts
    <3> QED  BY <1>6, <2>3, <3>1
  <2>5. a.ok => Holds(j, t, m, H2, A2)  BY <1>6, <2>3, HoldsStays
  <2>6. b \in Int
    <3>1. a.conflict \in Nat  BY <1>3 DEF Reply
    <3>2. Back(q, a) \in Nat  BY <1>6, <3>1 DEF Back
    <3> QED  BY <1>7, <3>2
  <2>7. ~a.ok => /\ Covers(j, t, b, A2)'
                 /\ Floor(j)' = t => ~PrevMatches(log'[j], q)
    BY <1>3, <1>4, <1>5, <2>3, <2>6, RefusalStays
  <2> QED  BY <1>5, <1>7, <2>4, <2>5, <2>7
<1>9. CASE Answers(i, j)
  <2>1. Handles(i, j, q, a)  BY <1>1, <1>9 DEF Answers
  <2>2. ~(a.term > q.term)
    <3>1. a.term \in Nat /\ q.term \in Nat  BY <1>3, <1>5, <1>6 DEF Reply
    <3> QED  BY <1>2, <3>1
  <2>3. CASE a.ok /\ Takes(j, i, q)
    <3>1. Holds(j, t, m, H2, A2)  BY <1>5, <2>3, TakenIsHeld
    <3>2. t = Floor(j)'  BY <1>5, <2>3 DEF Takes
    <3>3. t <= Floor(j)'  BY <1>6, <3>2
    <3> QED  BY <1>5, <2>3, <3>1, <3>3
  <2>4. CASE Refuses(j, q, a)
    <3>1. Covers(j, t, b, A2)'  BY <1>3, <1>4, <1>5, <1>7, <2>4, RefusalCovers
    <3>2. t = Floor(j)' /\ ~PrevMatches(log'[j], q) /\ ~a.ok
      BY <1>5, <2>4 DEF Refuses
    <3>3. t <= Floor(j)'  BY <1>6, <3>2
    <3> QED  BY <1>5, <1>7, <3>1, <3>2, <3>3
  <2> QED  BY <2>1, <2>2, <2>3, <2>4 DEF Handles
<1> QED  BY <1>0, <1>2, <1>8, <1>9 DEF RepliesMade

-----------------------------------------------------------------------------
(* A leader's view of its followers, a candidate's electors. *)

LEMMA ProgressOKNext ==
  ASSUME NEW H, NEW H2, NEW A, NEW A2, Storing(H, H2, A, A2), NEW i \in Server
  PROVE  ProgressOK(i, H2, A2)'
<1>0. /\ TypeOK /\ TypeOK' /\ Known(H, H2) /\ StoreInv(H, A) /\ LogInv(H)
      /\ elected \subseteq elected' /\ ProgressMade /\ ProgressOK(i, H, A)
  BY StoringFacts DEF Known, StoreInv
<1> SUFFICES ASSUME state'[i] = FSM_LEADER, NEW k \in Peers(i)
             PROVE  /\ rpc'[i][k] = None =>
                         Covers(k, currentTerm[i], nextIndex[i][k] - 1, A2)'
                    /\ Holds(k, currentTerm'[i], matchIndex'[i][k], H2, A2)
  BY DEF ProgressOK, Holds
<1>1. PICK t, x, y : t = currentTerm'[i] /\ x = nextIndex'[i][k] - 1
                     /\ y = matchIndex'[i][k]
  OBVIOUS
<1>2. k \in Server /\ k # i /\ t \in Nat /\ x \in Int /\ y \in Nat
  <2>1. k \in Server /\ k # i  BY DEF Peers
  <2>2. t \in Nat /\ nextIndex'[i][k] \in Nat /\ y \in Nat
    BY <1>0, <1>1, <2>1 DEF TypeOK
  <2> QED  BY <1>1, <2>1, <2>2
<1> SUFFICES /\ rpc'[i][k] = None => Covers(k, t, x, A2)'
             /\ Holds(k, t, y, H2, A2)
  BY <1>1 DEF Covers, CoversOld, CoversOwn
<1>3. CASE LeadsOn(i, k)
  <2>1. /\ state[i] = FSM_LEADER /\ t = currentTerm[i]
        /\ x = nextIndex[i][k] - 1 /\ y = matchIndex[i][k]
        /\ rpc'[i][k] = None => rpc[i][k] = None
    BY <1>1, <1>3 DEF LeadsOn
  <2>2. /\ Holds(k, t, y, H, A)
        /\ rpc[i][k] = None => Covers(k, t, x, A)
    BY <1>0, <2>1 DEF ProgressOK
  <2>3. Holds(k, t, y, H2, A2)  BY <1>2, <2>2, HoldsStays
  <2>4. ASSUME rpc'[i][k] = None  PROVE Covers(k, t, x, A2)'
    <3>1. x <= x  BY <1>2
    <3>2. CoversOld(k, t, x, A2)'
      BY <1>2, <2>1, <2>2, <2>4, <3>1, CoversOldStays DEF Covers
    <3>3. ASSUME NEW n \in Nat, Accepted(k, t, n) \in A2  PROVE n <= x
      <4>1. CASE Accepted(k, t, n) \in A
        BY <2>1, <2>2, <2>4, <4>1 DEF Covers, CoversOwn
      <4>2. CASE Accepted(k, t, n) \notin A
        <5>1. Victory(i, t) \in elected'  BY <1>0, <2>1 DEF LogInv, LeaderOK
        <5>2. PICK r : Takes(k, i, r) /\ r.term = t
          BY <1>2, <3>3, <4>2, <5>1, GainFromWinner
        <5>3. r \in AppendRequestMsg /\ Travels(r, i, k)  BY <5>2 DEF Takes
        <5>4. rpc[i][k] # None  BY <1>0, <1>2, <2>1, <5>2, <5>3, LeaderSent
        <5> QED  BY <2>1, <2>4, <5>4
      <4> QED  BY <4>1, <4>2
    <3> QED  BY <3>2, <3>3 DEF Covers, CoversOwn
  <2> QED  BY <2>3, <2>4
<1>4. CASE Learns(i, k)
  <2>1. PICK q, a : q = rpc[i][k].req /\ a = rpc[i][k].reply  OBVIOUS
  <2>2. /\ state[i] = FSM_LEADER /\ t = currentTerm[i] /\ t = q.term
        /\ HasReply(i, k) /\ a.term <= q.term
        /\ \/ /\ a.ok /\ nextIndex'[i][k] = SentLastIndex(q) + 1 /\ y = SentLastIndex(q)
           \/ /\ ~a.ok /\ nextIndex'[i][k] = Back(q, a) /\ y = matchIndex[i][k]
    BY <1>1, <1>4, <2>1 DEF Learns, Back
  <2>3. q \in AppendRequestMsg /\ a \in Reply /\ Travels(q, i, k)
    <3>1. rpc[i][k] \in Call  BY <1>0, <1>2, <2>2 DEF TypeOK, HasReply
    <3>2. q \in Request /\ a \in Reply  BY <2>1, <2>2, <3>1 DEF Call, HasReply
    <3>3. q.type = "append"  BY <2>1, <2>2 DEF HasReply
    <3> QED  BY <2>1, <2>2, <3>2, <3>3 DEF Request, VoteRequestMsg, Travels, HasReply
  <2>4. ReplyOK(i, k, H, A)  BY <1>0, <1>2 DEF StoreInv
  <2>5. PICK m : m = SentLastIndex(q)  OBVIOUS
  <2>6. /\ t <= Floor(k)
        /\ a.ok => Holds(k, t, m, H, A)
        /\ ~a.ok => /\ Covers(k, t, Back(q, a) - 1, A)
                    /\ Floor(k) = t => ~PrevMatches(log[k], q)
    BY <2>1, <2>2, <2>4, <2>5 DEF ReplyOK, HasReply
  <2>7. m \in Nat  BY <2>3, <2>5, SliceType
  <2>8. CASE a.ok
    <3>1. x = m /\ y = m  BY <1>1, <2>2, <2>5, <2>7, <2>8
    <3>2. Covers(k, t, m, A2)'  BY <1>2, <2>2, <2>3, <2>5, CoversStays
    <3>3. Holds(k, t, m, H2, A2)  BY <1>2, <2>6, <2>7, <2>8, HoldsStays
    <3> QED  BY <3>1, <3>2, <3>3
  <2>9. CASE ~a.ok
    <3>1. x = Back(q, a) - 1 /\ y = matchIndex[i][k]  BY <1>1, <2>2, <2>9
    <3>2. Covers(k, t, x, A) /\ (Floor(k) = t => ~PrevMatches(log[k], q))
      BY <2>6, <2>9, <3>1
    <3>3. Covers(k, t, x, A2)'  BY <1>2, <2>2, <2>3, <2>6, <3>2, RefusalStays
    <3>4. Holds(k, t, y, H, A)
      BY <1>0, <1>2, <2>2, <3>1 DEF ProgressOK
    <3>5. Holds(k, t, y, H2, A2)  BY <1>2, <3>4, HoldsStays
    <3> QED  BY <3>3, <3>5
  <2> QED  BY <2>8, <2>9
<1>5. CASE LeadsAnew(i, k)
  <2>1. y = 0 /\ rpc'[i][k] # None  BY <1>1, <1>5 DEF LeadsAnew
  <2>2. Len(H2[t]) \in Nat
    <3>1. IsHistory(H2)  BY StoringFacts
    <3>2. H2[t] \in Seq(Entry)  BY <1>2, <3>1 DEF IsHistory
    <3> QED  BY <3>2
  <2>3. Holds(k, t, y, H2, A2)
    <3>1. y <= Len(H2[t]) /\ \A n \in 1..y : FALSE  BY <2>1, <2>2
    <3> QED  BY <3>1 DEF Holds
  <2> QED  BY <2>1, <2>3
<1> QED  BY <1>0, <1>3, <1>4, <1>5 DEF ProgressMade

\* A candidate whose log is as up to date as that of k has what k has accepted.
LEMMA ElectorsLog ==
  ASSUME TypeOK, NEW H, LogInv(H), NEW A, StoreInv(H, A),
         NEW i \in Server, NEW k \in Server, NEW q \in VoteRequestMsg,
         q.lastIndex <= Len(log[i]), q.lastTerm = TermAt(log[i], q.lastIndex),
         UpToDate(k, q), NEW u \in Nat, NEW n \in Nat \ {0}, Accepted(k, u, n) \in A
  PROVE  Dead(A, u, n) \/ Agree(log[i], H[u], n)
<1>0. /\ IsHistory(H) /\ LeadersHistory(H) /\ PeerStores(k, H, A)
      /\ PeerHistory(i, H) /\ PeerHistory(k, H)
  BY DEF LogInv, IsHistory, StoreInv
<1>1. PICK a : a = Accepted(k, u, n)  OBVIOUS
<1>2. a.peer = k /\ a.term = u /\ a.index = n /\ a \in A  BY <1>1 DEF Accepted
<1>3. n \in 1..Len(H[u]) /\ H[u][n].term = u
      /\ (Agree(log[k], H[u], n) \/ Dead(A, u, n))
  BY <1>0, <1>2 DEF PeerStores
<1> SUFFICES ASSUME Agree(log[k], H[u], n)
             PROVE  Dead(A, u, n) \/ Agree(log[i], H[u], n)
  BY <1>3
<1>4. /\ VLog(i) \in Seq(Entry) /\ log[i] \in Seq(Entry) /\ Begins(log[i], VLog(i))
      /\ VLog(k) \in Seq(Entry) /\ log[k] \in Seq(Entry) /\ Begins(log[k], VLog(k))
  BY VLogType
<1>5. /\ Sound(log[i], H) /\ Sound(log[k], H)
      /\ Ascends(log[k], currentTerm[k])
  BY <1>0, <1>4, SoundBegins, AscendsBegins DEF PeerHistory
<1>6. PICK x, y, m \in Nat : x = Len(log[i]) /\ y = Len(log[k]) /\ m = q.lastIndex
  BY <1>4 DEF VoteRequestMsg
<1>7. n <= y /\ m <= x /\ log[k][n] = H[u][n]
      /\ \A z \in 1..n : log[k][z] = H[u][z]
  BY <1>6 DEF Agree
<1>8. y # 0 /\ y \in 1..y /\ n \in 1..y  BY <1>7
<1>9. PICK T, K \in Nat : T = q.lastTerm /\ K = LastTermOf(log[k])
  <2>1. q.lastTerm \in Nat  BY DEF VoteRequestMsg
  <2>2. LastTermOf(log[k]) = log[k][y].term
    BY <1>4, <1>6, <1>8 DEF LastTermOf
  <2>3. log[k][y].term \in Nat  BY <1>4, <1>6, <1>8, EntryTerm
  <2> QED  BY <2>1, <2>2, <2>3
<1>10. K = log[k][y].term  BY <1>4, <1>6, <1>8, <1>9 DEF LastTermOf
<1>11. u <= K
  <2>1. log[k][n].term <= log[k][y].term  BY <1>5, <1>6, <1>8 DEF Ascends
  <2> QED  BY <1>3, <1>7, <1>10, <2>1
<1>12. T = TermAt(log[i], m)  BY <1>6, <1>9
<1>13. m # 0 => m \in 1..x /\ log[i][m].term = T
  <2>1. m # 0 => TermAt(log[i], m) = log[i][m].term  BY <1>6, <1>7 DEF TermAt
  <2> QED  BY <1>7, <1>12, <2>1
<1>14. m # 0 => Agree(log[i], H[T], m)
  <2>1. m # 0 => Agree(log[i], H[log[i][m].term], m)  BY <1>5, <1>6, <1>13 DEF Sound
  <2> QED  BY <1>13, <2>1
<1>15. H[T] \in Seq(Entry) /\ H[u] \in Seq(Entry)  BY <1>0 DEF IsHistory
<1>16. CASE T = K /\ m >= y
  <2>1. m # 0 /\ n <= m  BY <1>7, <1>8, <1>16
  <2>2. Agree(log[k], H[T], y)
    <3>1. Agree(log[k], H[log[k][y].term], y)  BY <1>5, <1>6, <1>8 DEF Sound
    <3> QED  BY <1>10, <1>16, <3>1
  <2>3. /\ \A z \in 1..m : log[i][z] = H[T][z]
        /\ \A z \in 1..y : log[k][z] = H[T][z]
    BY <1>14, <2>1, <2>2 DEF Agree
  <2>4. ASSUME NEW z \in 1..n  PROVE log[i][z] = H[u][z]
    <3>1. z \in 1..m /\ z \in 1..y  BY <1>7, <2>1
    <3> QED  BY <1>7, <2>3, <3>1
  <2>5. n <= x  BY <1>7, <2>1
  <2>6. n <= Len(H[u])  BY <1>3
  <2> QED  BY <1>6, <2>4, <2>5, <2>6 DEF Agree
<1>17. CASE T > K
  <2>1. m # 0
    <3>1. ASSUME m = 0  PROVE T = 0  BY <1>12, <3>1 DEF TermAt
    <3> QED  BY <1>9, <1>17, <3>1
  <2>2. m \in 1..x /\ log[i][m].term = T /\ Agree(log[i], H[T], m)
    BY <1>13, <1>14, <2>1
  <2>3. PICK h \in Nat : h = Len(H[T])  BY <1>15
  <2>4. m <= h /\ H[T][m] = log[i][m] /\ \A z \in 1..m : log[i][z] = H[T][z]
    BY <2>2, <2>3 DEF Agree
  <2>5. H[T] # <<>>
    <3>1. h # 0  BY <2>2, <2>4
    <3> QED  BY <2>3, <3>1
  <2>6. u < T  BY <1>11, <1>17
  <2>7. PICK e \in elected : e.term = T  BY <1>0, <2>5 DEF LeadersHistory
  <2>8. Dead(A, u, n) \/ Agree(H[T], H[u], n)
    <3>1. Complete(H[e.term], e.term, H, A)  BY <2>7 DEF StoreInv, WinnersComplete
    <3> QED  BY <2>6, <2>7, <3>1 DEF Complete
  <2>9. CASE Agree(H[T], H[u], n)
    <3>1. n <= h /\ \A z \in 1..n : H[T][z] = H[u][z]  BY <2>3, <2>9 DEF Agree
    <3>2. H[T][n].term = u  BY <1>3, <1>8, <3>1
    <3>3. n <= m
      <4>1. ASSUME m < n  PROVE FALSE
        <5>1. m \in 1..n /\ n \in 1..h  BY <1>8, <2>2, <3>1, <4>1
        <5>2. H[T][m].term <= H[T][n].term
          BY <1>0, <2>3, <5>1 DEF LeadersHistory, Ascends
        <5> QED  BY <2>2, <2>4, <2>6, <3>2, <5>2
      <4> QED  BY <4>1
    <3>4. ASSUME NEW z \in 1..n  PROVE log[i][z] = H[u][z]
      <4>1. z \in 1..m  BY <3>3
      <4> QED  BY <2>4, <3>1, <4>1
    <3>5. n <= x  BY <2>2, <3>3
    <3>6. n <= Len(H[u])  BY <1>3
    <3> QED  BY <1>6, <3>4, <3>5, <3>6 DEF Agree
  <2> QED  BY <2>8, <2>9
<1> QED
  <2>1. T > K \/ (T = K /\ m >= y)  BY <1>6, <1>9 DEF UpToDate
  <2> QED  BY <1>16, <1>17, <2>1

\* k votes for i, has said so or has that to write.
Supports(k, i, t) ==
  \/ Ballot(k, t, i) \in ballots
  \/ \E n \in 1..Len(writes[k]) :
       /\ writes[k][n].then = "vote" /\ writes[k][n].from = i
       /\ writes[k][n].vote = i /\ writes[k][n].term = t

SupportsBounded ==
  \A k, i \in Server : \A t \in Nat : Supports(k, i, t) =>
    t <= currentTerm[k] /\ t <= diskTerm[i]

LEMMA SupportBound == TypeOK /\ QueueInv /\ ElectionInv /\ FreshInv => SupportsBounded
<1> SUFFICES ASSUME TypeOK, QueueInv, ElectionInv, FreshInv,
                    NEW k \in Server, NEW i \in Server, NEW t \in Nat, Supports(k, i, t)
             PROVE  t <= currentTerm[k] /\ t <= diskTerm[i]
  BY DEF SupportsBounded
<1>0. /\ diskTerm[k] \in Nat /\ currentTerm[k] \in Nat /\ diskTerm[i] \in Nat
      /\ TermsAscend(k) /\ BallotsStored /\ WritesMeanVotes(k)
  BY DEF TypeOK, QueueInv, QueueOK, ElectionInv, PeerOK
<1>1. CASE Ballot(k, t, i) \in ballots
  <2>1. PICK b : b = Ballot(k, t, i)  OBVIOUS
  <2>2. b \in ballots /\ b.term = t /\ b.voter = k /\ b.cand = i
    BY <1>1, <2>1 DEF Ballot
  <2>3. b.term < diskTerm[b.voter] \/ b.term = diskTerm[b.voter]
    BY <1>0, <2>2 DEF BallotsStored
  <2>4. t <= diskTerm[k]  BY <1>0, <2>2, <2>3
  <2>5. diskTerm[k] <= currentTerm[k]  BY <1>0 DEF TermsAscend
  <2>6. t <= diskTerm[i]  BY <2>2 DEF FreshInv
  <2> QED  BY <1>0, <2>4, <2>5, <2>6
<1>2. CASE \E n \in 1..Len(writes[k]) :
             /\ writes[k][n].then = "vote" /\ writes[k][n].from = i
             /\ writes[k][n].vote = i /\ writes[k][n].term = t
  <2>1. PICK n \in 1..Len(writes[k]) :
          /\ writes[k][n].then = "vote" /\ writes[k][n].from = i
          /\ writes[k][n].vote = i /\ writes[k][n].term = t
    BY <1>2
  <2>2. t <= currentTerm[k]  BY <1>0, <2>1 DEF TermsAscend
  <2>3. writes[k][n].req.term = t  BY <1>0, <2>1 DEF WritesMeanVotes
  <2>4. writes[k][n].req \in Request
    <3>1. writes[k] \in Seq(Write)  BY DEF TypeOK
    <3>2. PICK w : w = writes[k][n]  OBVIOUS
    <3>3. w \in Write /\ w.then = "vote"  BY <2>1, <3>1, <3>2
    <3>4. w.req \in VoteRequestMsg  BY <3>3 DEF Write
    <3> QED  BY <3>2, <3>4 DEF Request
  <2>5. Travels(writes[k][n].req, i, k)  BY <2>1 DEF Travels
  <2>6. t <= diskTerm[i]  BY <2>3, <2>4, <2>5 DEF FreshInv
  <2> QED  BY <2>2, <2>6
<1> QED  BY <1>1, <1>2 DEF Supports

\* A supporter is an earlier one or has just found the log of i up to date.
LEMMA NewSupport ==
  ASSUME NEW H, NEW H2, Known(H, H2), NEW k \in Server, NEW i \in Server, NEW t \in Nat,
         Supports(k, i, t)'
  PROVE  \/ Supports(k, i, t)
         \/ k = i
         \/ \E q \in VoteRequestMsg : Travels(q, i, k) /\ q.term = t /\ UpToDate(k, q)
<1>1. CASE Ballot(k, t, i) \in ballots'
  <2>1. PICK b : b = Ballot(k, t, i)  OBVIOUS
  <2>2. b \in ballots' /\ b.term = t /\ b.voter = k /\ b.cand = i
    BY <1>1, <2>1 DEF Ballot
  <2>3. b \in ballots \/ BallotMade(b)  BY <2>2 DEF Known, BallotsMade
  <2>4. CASE BallotMade(b)  BY <2>2, <2>4 DEF BallotMade, Supports
  <2> QED  BY <2>1, <2>3, <2>4 DEF Supports
<1>2. CASE \E n \in 1..Len(writes'[k]) :
             /\ writes'[k][n].then = "vote" /\ writes'[k][n].from = i
             /\ writes'[k][n].vote = i /\ writes'[k][n].term = t
  <2>1. PICK n \in 1..Len(writes'[k]) :
          /\ writes'[k][n].then = "vote" /\ writes'[k][n].from = i
          /\ writes'[k][n].vote = i /\ writes'[k][n].term = t
    BY <1>2
  <2>2. PICK w : w = writes'[k][n]  OBVIOUS
  <2>3. w.then = "vote" /\ w.from = i /\ w.vote = i /\ w.term = t  BY <2>1, <2>2
  <2>4. (\E m \in 1..Len(writes[k]) : w = writes[k][m]) \/ WriteMade(k, w)
    BY <2>2 DEF Known, WritesMade
  <2>5. CASE \E m \in 1..Len(writes[k]) : w = writes[k][m]
    BY <2>3, <2>5 DEF Supports
  <2>6. CASE WriteMade(k, w)
    BY <2>3, <2>6 DEF WriteMade
  <2> QED  BY <2>4, <2>5, <2>6
<1> QED  BY <1>1, <1>2 DEF Supports

\* What is new in A2 is not older than what k may do now.
LEMMA SupporterAccepted ==
  ASSUME NEW H, NEW H2, NEW A, NEW A2, Storing(H, H2, A, A2),
         NEW k \in Server, NEW i \in Server, NEW t \in Nat, Supports(k, i, t)',
         NEW u \in Nat, NEW n \in Nat, u < t, Accepted(k, u, n) \in A2
  PROVE  Accepted(k, u, n) \in A
<1>1. ASSUME Accepted(k, u, n) \notin A  PROVE FALSE
  <2>1. u = currentTerm'[k]  BY <1>1, NewGain
  <2>2. TypeOK' /\ QueueInv' /\ ElectionInv' /\ FreshInv'
    BY StoringFacts DEF Known, Stepping, Sane
  <2>3. t <= currentTerm'[k]
    <3>1. SupportsBounded'  BY <2>2, SupportBound, PTL
    <3> QED  BY <3>1 DEF SupportsBounded
  <2> QED  BY <2>1, <2>3
<1> QED  BY <1>1

LEMMA CandidateOKNext ==
  ASSUME NEW H, NEW H2, NEW A, NEW A2, Storing(H, H2, A, A2), NEW i \in Server
  PROVE  CandidateOK(i, H2, A2)'
<1>0. /\ TypeOK /\ TypeOK' /\ Known(H, H2) /\ StoreInv(H, A) /\ LogInv(H)
      /\ RolesMade(H) /\ SendsMade /\ CandidateOK(i, H, A)
      /\ IsHistory(H) /\ IsHistory(H2) /\ HistoryGrows(H, H2)
  BY StoringFacts DEF Known, StoreInv
<1>1. QueueInv' /\ ElectionInv' /\ FreshInv'  BY <1>0 DEF Known, Stepping, Sane
<1> SUFFICES ASSUME state'[i] = FSM_CANDIDATE, NEW k \in Server
             PROVE  /\ Supports(k, i, currentTerm[i])' =>
                         CompleteFor(k, log[i], currentTerm[i], H2, A2)'
                    /\ \A q \in VoteRequestMsg :
                         Travels(q, i, k)' /\ q.term = currentTerm'[i] =>
                           /\ q.lastIndex <= Len(log'[i])
                           /\ q.lastTerm = TermAt(log'[i], q.lastIndex)
  BY DEF CandidateOK, Supports
<1>2. PICK t, l : t = currentTerm'[i] /\ l = log'[i]  OBVIOUS
<1>3. t \in Nat /\ l \in Seq(Entry) /\ log[i] \in Seq(Entry) /\ Begins(log[i], l)
  <2>1. Begins(log[i], log'[i]) /\ log[i] \in Seq(Entry) /\ log'[i] \in Seq(Entry)
    BY <1>0, RoleKeepsLog
  <2> QED  BY <1>0, <1>2, <2>1 DEF TypeOK
<1> SUFFICES /\ Supports(k, i, t)' => CompleteFor(k, l, t, H2, A2)'
             /\ \A q \in VoteRequestMsg : Travels(q, i, k)' /\ q.term = t =>
                  q.lastIndex <= Len(l) /\ q.lastTerm = TermAt(l, q.lastIndex)
  BY <1>2 DEF CompleteFor, Supports
<1>4. CASE currentTerm'[i] > currentTerm[i] /\ diskTerm'[i] = diskTerm[i]
  <2>1. ~(t <= diskTerm'[i])
    <3>1. diskTerm[i] <= currentTerm[i] /\ diskTerm[i] \in Nat /\ currentTerm[i] \in Nat
      BY <1>0 DEF TypeOK, Known, Stepping, Sane, QueueInv, QueueOK, TermsAscend
    <3> QED  BY <1>2, <1>3, <1>4, <3>1
  <2>2. ~Supports(k, i, t)'
    <3>1. SupportsBounded'  BY <1>0, <1>1, SupportBound, PTL
    <3> QED  BY <1>3, <2>1, <3>1 DEF SupportsBounded
  <2>3. ASSUME NEW q \in VoteRequestMsg, Travels(q, i, k)', q.term = t  PROVE FALSE
    <3>1. q \in Request  BY DEF Request
    <3>2. q.term <= diskTerm'[i]  BY <1>1, <2>3, <3>1 DEF FreshInv
    <3> QED  BY <2>1, <2>3, <3>2
  <2> QED  BY <2>2, <2>3
<1>5. CASE state[i] = FSM_CANDIDATE /\ currentTerm'[i] = currentTerm[i]
  <2>1. t = currentTerm[i]  BY <1>2, <1>5
  <2>2. /\ Supports(k, i, t) => CompleteFor(k, log[i], t, H, A)
        /\ \A q \in VoteRequestMsg : Travels(q, i, k) /\ q.term = t =>
             q.lastIndex <= Len(log[i]) /\ q.lastTerm = TermAt(log[i], q.lastIndex)
    BY <1>0, <1>5, <2>1 DEF CandidateOK, Supports
  <2>3. ASSUME Supports(k, i, t)', NEW u \in Nat, NEW n \in Nat \ {0}, u < t,
               Accepted(k, u, n) \in A2
        PROVE  Dead(A2, u, n)' \/ Agree(l, H2[u], n)
    <3>1. Accepted(k, u, n) \in A  BY <1>0, <1>3, <2>3, SupporterAccepted
    <3>2. CASE k = i
      BY <1>2, <2>3, <3>2, AcceptedNext
    <3>3. CASE Dead(A, u, n) \/ Agree(log[i], H[u], n)
      <4>1. H[u] \in Seq(Entry)  BY <1>0 DEF IsHistory
      <4>2. CASE Agree(log[i], H[u], n)
        <5>1. Agree(l, H[u], n)  BY <1>3, <4>1, <4>2, AgreeExtends
        <5> QED  BY <1>0, <1>3, <5>1, AgreeGrows
      <4> QED  BY <3>3, <4>2, DeadStays
    <3>4. CASE Supports(k, i, t)
      <4>1. CompleteFor(k, log[i], t, H, A)  BY <2>2, <3>4
      <4> QED  BY <2>3, <3>1, <3>3, <4>1 DEF CompleteFor
    <3>5. CASE \E q \in VoteRequestMsg : Travels(q, i, k) /\ q.term = t /\ UpToDate(k, q)
      <4>1. PICK q \in VoteRequestMsg : Travels(q, i, k) /\ q.term = t /\ UpToDate(k, q)
        BY <3>5
      <4>2. q.lastIndex <= Len(log[i]) /\ q.lastTerm = TermAt(log[i], q.lastIndex)
        BY <2>2, <4>1
      <4>3. Dead(A, u, n) \/ Agree(log[i], H[u], n)
        BY <1>0, <3>1, <4>1, <4>2, ElectorsLog
      <4> QED  BY <3>3, <4>3
    <3> QED  BY <1>0, <1>3, <2>3, <3>2, <3>4, <3>5, NewSupport
  <2>4. ASSUME NEW q \in VoteRequestMsg, Travels(q, i, k)', q.term = t
        PROVE  q.lastIndex <= Len(l) /\ q.lastTerm = TermAt(l, q.lastIndex)
    <3>1. CASE Travels(q, i, k)
      <4>1. q.lastIndex <= Len(log[i]) /\ q.lastTerm = TermAt(log[i], q.lastIndex)
        BY <2>2, <2>4, <3>1
      <4>2. q.lastIndex \in Nat  BY DEF VoteRequestMsg
      <4>3. TermAt(log[i], q.lastIndex) = TermAt(l, q.lastIndex)
        BY <1>3, <4>1, <4>2, TermAtBegins
      <4>4. PICK a, b, c \in Nat : a = q.lastIndex /\ b = Len(log[i]) /\ c = Len(l)
        BY <1>3, <4>2
      <4>5. a <= b /\ b <= c  BY <1>3, <4>1, <4>4 DEF Begins, Agree
      <4>6. a <= c  BY <4>5
      <4> QED  BY <4>1, <4>3, <4>4, <4>6
    <3>2. CASE Sent(i, k, q)
      <4>1. AsksForVote(i, q) /\ log'[i] = log[i]
        BY <3>2 DEF Sent, SendsEntries, VoteRequestMsg, AppendRequestMsg
      <4>2. q.lastIndex = Len(l) /\ q.lastTerm = LastTermOf(l)
        BY <1>2, <4>1 DEF AsksForVote
      <4>3. LastTermOf(l) = TermAt(l, Len(l))
        BY <1>3 DEF LastTermOf, TermAt
      <4>4. Len(l) <= Len(l)  BY <1>3
      <4> QED  BY <4>2, <4>3, <4>4
    <3> QED  BY <1>0, <2>4, <3>1, <3>2 DEF SendsMade
  <2>5. Supports(k, i, t)' => CompleteFor(k, l, t, H2, A2)'
    BY <2>3 DEF CompleteFor
  <2> QED  BY <2>4, <2>5
<1> QED  BY <1>0, <1>4, <1>5 DEF RolesMade

LEMMA StoreInvNext ==
  ASSUME NEW H, NEW H2, NEW A, NEW A2, Storing(H, H2, A, A2)
  PROVE  StoreInv(H2, A2)'
<1>1. A2 \subseteq [peer: Server, term: Nat, index: Nat]  BY AcceptedType
<1>2. WinnersComplete(H2, A2)' /\ AppendKeeps(A2)'
  BY WinnersCompleteNext, AppendKeepsNext
<1>3. ASSUME NEW i \in Server
      PROVE  /\ PeerStores(i, H2, A2)' /\ LeaderIsComplete(i, H2, A2)'
             /\ CandidateOK(i, H2, A2)' /\ ProgressOK(i, H2, A2)'
             /\ \A j \in Server : ReplyOK(i, j, H2, A2)'
  BY PeerStoresNext, LeaderIsCompleteNext, CandidateOKNext, ProgressOKNext, ReplyOKNext
<1> QED  BY <1>1, <1>2, <1>3 DEF StoreInv

-----------------------------------------------------------------------------
(* What is known to be committed. *)

\* i knows that its entries up to c are chosen.
Knows(i, c, H, A) ==
  c # 0 =>
    \E t \in Nat : \E n \in Nat :
      c <= n /\ t <= Floor(i) /\ Chosen(A, t, n) /\ Agree(log[i], H[t], c)

LEMMA CommitMeansKnown ==
  ASSUME NEW i, NEW H, NEW A
  PROVE  CommitOK(i, H, A) <=>
           lastApplied[i] <= commitIndex[i] /\ Knows(i, commitIndex[i], H, A)
  BY DEF CommitOK, Knows

LEMMA MajoritiesMeet ==
  ASSUME NEW P \in SUBSET Server, NEW Q \in SUBSET Server, IsMajority(P), IsMajority(Q)
  PROVE  \E k \in Server : k \in P /\ k \in Q
<1>1. IsFiniteSet(Server)  BY ServerAssumption
<1>2. /\ Cardinality(P) \in Nat /\ Cardinality(Q) \in Nat
      /\ Cardinality(Server) \in Nat
  BY <1>1, FS_Subset, FS_CardinalityType
<1>3. /\ 2 * Cardinality(P) > Cardinality(Server)
      /\ 2 * Cardinality(Q) > Cardinality(Server)
  BY DEF IsMajority
<1>4. Cardinality(P) + Cardinality(Q) > Cardinality(Server)  BY <1>2, <1>3
<1>5. P \cap Q # {}  BY <1>1, <1>4, FS_MajoritiesIntersect
<1> QED  BY <1>5

LEMMA ChosenLives ==
  ASSUME NEW A, NEW t, NEW n, Chosen(A, t, n)
  PROVE  ~Dead(A, t, n)
<1> SUFFICES ASSUME Dead(A, t, n)  PROVE FALSE
  OBVIOUS
<1>1. PICK P \in SUBSET Server : IsMajority(P) /\ \A k \in P : Accepted(k, t, n) \in A
  BY DEF Chosen
<1>2. PICK Q \in SUBSET Server : IsMajority(Q) /\ \A k \in Q : Accepted(k, t, n) \notin A
  BY DEF Dead
<1> QED  BY <1>1, <1>2, MajoritiesMeet

LEMMA AgreeLess ==
  ASSUME NEW s \in Seq(Entry), NEW l \in Seq(Entry), NEW n \in Nat, NEW m \in Nat,
         m <= n, Agree(s, l, n)
  PROVE  Agree(s, l, m)
<1>1. PICK a, b \in Nat : a = Len(s) /\ b = Len(l)  OBVIOUS
<1>2. n <= a /\ n <= b /\ \A x \in 1..n : s[x] = l[x]  BY <1>1 DEF Agree
<1>3. m <= a /\ m <= b /\ \A x \in 1..m : x \in 1..n  BY <1>2
<1> QED  BY <1>1, <1>2, <1>3 DEF Agree

LEMMA ChosenStays ==
  ASSUME NEW H, NEW H2, NEW A, NEW A2, Storing(H, H2, A, A2), NEW t, NEW n,
         Chosen(A, t, n)
  PROVE  Chosen(A2, t, n)
<1>1. A \subseteq A2  BY StoringFacts
<1> QED  BY <1>1 DEF Chosen

LEMMA KnowsStays ==
  ASSUME NEW H, NEW H2, NEW A, NEW A2, Storing(H, H2, A, A2), NEW x \in Server,
         NEW c \in Nat, Knows(x, c, H, A), NEW d \in Nat, d <= c,
         \/ Begins(log[x], log'[x])
         \/ /\ c <= Len(log[x]) => c <= Len(log'[x])
            /\ \A z \in 1..c : c <= Len(log[x]) => log'[x][z] = log[x][z]
  PROVE  Knows(x, d, H2, A2)'
<1> SUFFICES ASSUME d # 0
             PROVE  \E t \in Nat : \E n \in Nat :
                      /\ d <= n /\ t <= Floor(x)'
                      /\ Chosen(A2, t, n) /\ Agree(log'[x], H2[t], d)
  BY DEF Knows, Chosen
<1>0. /\ TypeOK /\ TypeOK' /\ IsHistory(H) /\ IsHistory(H2) /\ HistoryGrows(H, H2)
      /\ Floor(x) \in Nat /\ Floor(x)' \in Nat /\ Floor(x) <= Floor(x)'
  BY StoringFacts
<1>1. PICK t \in Nat : \E n \in Nat :
        c <= n /\ t <= Floor(x) /\ Chosen(A, t, n) /\ Agree(log[x], H[t], c)
  <2>1. c # 0  OBVIOUS
  <2> QED  BY <2>1 DEF Knows
<1>2. PICK n \in Nat :
        c <= n /\ t <= Floor(x) /\ Chosen(A, t, n) /\ Agree(log[x], H[t], c)
  BY <1>1
<1>3. log[x] \in Seq(Entry) /\ log'[x] \in Seq(Entry) /\ H[t] \in Seq(Entry)
      /\ H2[t] \in Seq(Entry)
  <2>1. log[x] \in Seq(Entry) /\ log'[x] \in Seq(Entry)  BY <1>0, VLogType, VLogTypeNext
  <2>2. H[t] \in Seq(Entry) /\ H2[t] \in Seq(Entry)  BY <1>0 DEF IsHistory
  <2> QED  BY <2>1, <2>2
<1>4. Agree(log'[x], H[t], c)
  <2>1. CASE Begins(log[x], log'[x])
    BY <1>2, <1>3, <2>1, AgreeExtends
  <2>2. CASE /\ c <= Len(log[x]) => c <= Len(log'[x])
             /\ \A z \in 1..c : c <= Len(log[x]) => log'[x][z] = log[x][z]
    BY <1>2, <2>2 DEF Agree
  <2> QED  BY <2>1, <2>2
<1>5. Agree(log'[x], H2[t], d)
  <2>1. Agree(log'[x], H[t], d)  BY <1>3, <1>4, AgreeLess
  <2> QED  BY <1>0, <1>3, <2>1, AgreeGrows
<1>6. d <= n /\ t <= Floor(x)'  BY <1>0, <1>2
<1>7. Chosen(A2, t, n)  BY <1>2, ChosenStays
<1> QED  BY <1>5, <1>6, <1>7

\* The commit index a request brings is that of entries its sender has, and
\* those are in the request or before it.
LEMMA TakenIsKnown ==
  ASSUME NEW H, NEW H2, NEW A, NEW A2, Storing(H, H2, A, A2), CommitsSent(A),
         NEW k \in Server, NEW i \in Server, NEW q, Takes(k, i, q),
         NEW d \in Nat, d <= q.commit, d <= Len(log'[k])
  PROVE  Knows(k, d, H2, A2)'
<1> SUFFICES ASSUME d # 0
             PROVE  \E t \in Nat : \E n \in Nat :
                      /\ d <= n /\ t <= Floor(k)'
                      /\ Chosen(A2, t, n) /\ Agree(log'[k], H2[t], d)
  BY DEF Knows, Chosen
<1>0. /\ TypeOK /\ TypeOK' /\ Known(H, H2) /\ StoreInv(H, A)
      /\ IsHistory(H) /\ IsHistory(H2) /\ HistoryGrows(H, H2)
  BY StoringFacts
<1>1. /\ q \in AppendRequestMsg /\ q.term \in Nat /\ H[q.term] \in Seq(Entry)
      /\ Begins(log'[k], H[q.term]) /\ Victory(i, q.term) \in elected
  BY <1>0, TakesAgrees
<1>2. Travels(q, i, k) /\ q.term = Floor(k)'  BY DEF Takes
<1>3. q.commit \in Nat /\ q.commit # 0
  <2>1. q.commit \in Nat  BY <1>1, SliceType
  <2> QED  BY <2>1
<1>4. PICK t \in Nat : \E n \in Nat : q.commit <= n /\ t <= q.term /\ Chosen(A, t, n)
  BY <1>1, <1>2, <1>3 DEF CommitsSent
<1>5. PICK n \in Nat : q.commit <= n /\ t <= q.term /\ Chosen(A, t, n)
  BY <1>4
<1>6. n # 0 /\ d <= n  BY <1>3, <1>5
<1>7. log'[k] \in Seq(Entry) /\ H[t] \in Seq(Entry) /\ H2[t] \in Seq(Entry)
  <2>1. log'[k] \in Seq(Entry)  BY <1>0, VLogTypeNext
  <2>2. H[t] \in Seq(Entry) /\ H2[t] \in Seq(Entry)  BY <1>0 DEF IsHistory
  <2> QED  BY <2>1, <2>2
<1>8. Agree(log'[k], H[q.term], d)
  <2>1. PICK m \in Nat : m = Len(log'[k])  BY <1>7
  <2>2. d <= m /\ Agree(log'[k], H[q.term], m)  BY <1>1, <2>1 DEF Begins
  <2> QED  BY <1>1, <1>7, <2>1, <2>2, AgreeLess
<1>9. Agree(log'[k], H[t], d)
  <2>1. CASE t = q.term
    BY <1>8, <2>1
  <2>2. CASE t # q.term
    <3>1. t < q.term  BY <1>1, <1>5, <2>2
    <3>2. Agree(H[q.term], H[t], n)
      BY <1>0, <1>1, <1>5, <1>6, <3>1, WinnerHas, ChosenLives
    <3>3. Agree(H[q.term], H[t], d)  BY <1>1, <1>6, <1>7, <3>2, AgreeLess
    <3> QED  BY <1>8, <3>3 DEF Agree
  <2> QED  BY <2>1, <2>2
<1>10. Agree(log'[k], H2[t], d)  BY <1>0, <1>7, <1>9, AgreeGrows
<1>11. t <= Floor(k)'  BY <1>2, <1>5
<1>12. Chosen(A2, t, n)  BY <1>5, ChosenStays
<1> QED  BY <1>6, <1>10, <1>11, <1>12

\* A follower that stores entries keeps those it knows to be committed.
LEMMA TakesCommits ==
  ASSUME NEW H, NEW H2, NEW A, NEW A2, Storing(H, H2, A, A2), CommitsSent(A),
         NEW k \in Server, CommitOK(k, H, A), NEW i \in Server, NEW q, Takes(k, i, q)
  PROVE  CommitOK(k, H2, A2)'
<1>0. TypeOK /\ TypeOK' /\ Known(H, H2)  BY StoringFacts
<1>1. /\ q \in AppendRequestMsg /\ Len(log'[k]) = SentLastIndex(q)
  BY <1>0, TakesAgrees
<1>2. PICK c, d, x, x2 \in Nat : /\ c = commitIndex[k] /\ d = commitIndex'[k]
                                 /\ x = lastApplied[k] /\ x2 = lastApplied'[k]
  BY <1>0 DEF TypeOK
<1>3. PICK p, m, r \in Nat : p = q.prev /\ m = Len(log'[k]) /\ r = q.commit /\ p <= m
  BY <1>1, SliceType
<1>4. /\ x <= c /\ Knows(k, c, H, A)
  BY <1>2, CommitMeansKnown
<1>5. /\ c <= p /\ x2 = x
      /\ d = IF r > c THEN IF r <= m THEN r ELSE m ELSE c
  BY <1>2, <1>3 DEF Takes, Smaller
<1>6. x2 <= d  BY <1>3, <1>4, <1>5
<1>7. CASE d = c
  <2>1. PrevMatches(log[k], q) /\ log'[k] = SubSeq(VLog(k), 1, q.prev) \o q.entries
    BY DEF Takes
  <2>2. /\ log[k] \in Seq(Entry) /\ VLog(k) \in Seq(Entry)
        /\ \A n \in 1..Len(log[k]) : VLog(k)[n] = log[k][n]
        /\ Begins(log[k], VLog(k))
    BY <1>0, VLogType
  <2>3. PICK a, b \in Nat : a = Len(log[k]) /\ b = Len(VLog(k))  BY <2>2
  <2>4. p <= a /\ a <= b  BY <1>3, <2>1, <2>2, <2>3 DEF PrevMatches, Begins, Agree
  <2>5. p \in 0..b  BY <2>4
  <2>6. PICK s : s = SubSeq(VLog(k), 1, p)  OBVIOUS
  <2>7. s \in Seq(Entry) /\ Len(s) = p /\ \A n \in 1..p : s[n] = VLog(k)[n]
    BY <2>2, <2>3, <2>5, <2>6, PrefixParts
  <2>8. log'[k] = s \o q.entries /\ q.entries \in Seq(Entry)
    BY <1>1, <1>3, <2>1, <2>6, SliceType
  <2>9. \A n \in 1..Len(s) : log'[k][n] = s[n]  BY <2>7, <2>8, ConcatParts
  <2>10. ASSUME NEW z \in 1..c  PROVE log'[k][z] = log[k][z]
    <3>1. z \in 1..p /\ z \in 1..a  BY <1>5, <2>4
    <3> QED  BY <2>2, <2>3, <2>7, <2>9, <3>1
  <2>11. c <= m  BY <1>3, <1>5
  <2>12. c <= c  OBVIOUS
  <2>13. Knows(k, c, H2, A2)'  BY <1>3, <1>4, <2>10, <2>11, <2>12, KnowsStays
  <2> QED  BY <1>2, <1>6, <1>7, <2>13 DEF CommitOK, Knows
<1>8. CASE d # c
  <2>1. d <= r /\ d <= m  BY <1>5, <1>8
  <2>2. Knows(k, d, H2, A2)'  BY <1>3, <2>1, TakenIsKnown
  <2> QED  BY <1>2, <1>6, <2>2 DEF CommitOK, Knows
<1> QED  BY <1>7, <1>8

\* A leader has what it commits stored by a majority in its own term.
LEMMA LeaderCommitsKnown ==
  ASSUME NEW H, NEW H2, NEW A, NEW A2, Storing(H, H2, A, A2),
         NEW i \in Server, CommitOK(i, H, A), NEW j \in Server, LeaderCommits(i, j),
         log'[i] = log[i]
  PROVE  CommitOK(i, H2, A2)'
<1>0. /\ TypeOK /\ TypeOK' /\ Known(H, H2) /\ StoreInv(H, A) /\ LogInv(H) /\ QueueInv
      /\ IsHistory(H) /\ LeaderOK(i, H) /\ ProgressOK(i, H, A) /\ PeerStores(i, H, A)
      /\ FloorsOK
  BY StoringFacts DEF Known, Stepping, Sane, LogInv, StoreInv
<1>1. PICK q, a : q = rpc[i][j].req /\ a = rpc[i][j].reply  OBVIOUS
<1>2. /\ state[i] = FSM_LEADER /\ rpc[i][j] # None /\ q.type = "append" /\ a # None
      /\ a.ok /\ a.term <= currentTerm[i]
      /\ Commits(i, q, {i} \cup {k \in Peers(i) :
           [matchIndex EXCEPT ![i][j] = SentLastIndex(q)][i][k] >= SentLastIndex(q)})
      /\ commitIndex'[i] = SentLastIndex(q) /\ lastApplied'[i] = lastApplied[i]
  BY <1>1 DEF LeaderCommits, AppendResponse
<1>3. q.term = currentTerm[i] /\ j # i
  BY <1>0, <1>1, <1>2 DEF QueueInv, QueueOK, CallsMatchRole
<1>4. q \in AppendRequestMsg /\ Travels(q, i, j)
  <2>1. rpc[i][j] \in Call  BY <1>0, <1>2 DEF TypeOK
  <2>2. q \in Request  BY <1>1, <2>1 DEF Call
  <2> QED  BY <1>1, <1>2, <2>2 DEF Request, VoteRequestMsg, Travels
<1>5. PICK t, L, c \in Nat : t = currentTerm[i] /\ L = SentLastIndex(q) /\ c = commitIndex[i]
  <2>1. SentLastIndex(q) \in Nat  BY <1>4, SliceType
  <2> QED  BY <1>0, <2>1 DEF TypeOK
<1>6. PICK Q : Q = {i} \cup {k \in Peers(i) :
                 [matchIndex EXCEPT ![i][j] = L][i][k] >= L}
  OBVIOUS
<1>7. SentLastTerm(q) = t /\ L > c /\ IsMajority(Q)
  BY <1>2, <1>5, <1>6 DEF Commits
<1>8. H[t] = VLog(i) /\ L <= Len(log[i])
  BY <1>0, <1>1, <1>2, <1>5 DEF LeaderOK
<1>9. /\ log[i] \in Seq(Entry) /\ VLog(i) \in Seq(Entry)
      /\ \A n \in 1..Len(log[i]) : VLog(i)[n] = log[i][n]
      /\ Begins(log[i], VLog(i))
  BY <1>0, VLogType
<1>10. L \in 1..Len(log[i]) /\ L # 0  BY <1>5, <1>7, <1>8, <1>9
<1>11. H[t][L].term = t /\ log[i][L].term = t
  <2>1. SliceOf(q, H[t])  BY <1>0, <1>3, <1>4, <1>5, RequestIsSlice
  <2>2. /\ q.prev \in Nat /\ q.entries \in Seq(Entry) /\ L = q.prev + Len(q.entries)
        /\ Len(q.entries) \in Nat
    BY <1>4, <1>5, SliceType
  <2>3. PICK p, e \in Nat : p = q.prev /\ e = Len(q.entries)  BY <2>2
  <2>4. L = p + e  BY <2>2, <2>3
  <2>5. L <= Len(H[t])  BY <1>5, <2>1 DEF SliceOf
  <2>6. CASE q.entries = <<>>
    <3>1. e = 0  BY <2>3, <2>6
    <3>2. p = L  BY <2>4, <3>1
    <3>3. TermAt(H[t], L) = t  BY <1>7, <2>1, <2>3, <2>6, <3>2 DEF SliceOf, SentLastTerm
    <3>4. H[t][L].term = t  BY <1>10, <2>5, <3>3 DEF TermAt
    <3> QED  BY <1>8, <1>9, <1>10, <3>4
  <2>7. CASE q.entries # <<>>
    <3>1. e # 0  BY <2>2, <2>3, <2>7
    <3>2. e \in 1..e  BY <3>1
    <3>3. q.entries[e] = H[t][p + e]  BY <2>1, <2>3, <3>2 DEF SliceOf
    <3>4. q.entries[e].term = t  BY <1>7, <2>3, <2>7 DEF SentLastTerm, LastTermOf
    <3>5. H[t][L].term = t  BY <2>4, <3>3, <3>4
    <3> QED  BY <1>8, <1>9, <1>10, <3>5
  <2> QED  BY <2>6, <2>7
<1>12. Floor(i) = t
  <2>1. writes[i] = <<>>  BY <1>0, <1>2 DEF QueueInv, QueueOK, RoleIsStored
  <2> QED  BY <1>0, <1>2, <1>5, <2>1 DEF FloorsOK, FSM_LEADER, DOWN
<1>13. ASSUME NEW k \in Q  PROVE k \in Server /\ Accepted(k, t, L) \in A
  <2>1. CASE k = i
    <3>1. ~(Floor(i) < currentTerm[i])  BY <1>5, <1>12
    <3>2. Accepted(i, Floor(i), L) \in A
      BY <1>0, <1>10, <1>11, <1>12, <3>1 DEF PeerStores
    <3> QED  BY <1>12, <2>1, <3>2
  <2>2. CASE k = j
    <3>1. ReplyOK(i, j, H, A)  BY <1>0 DEF StoreInv
    <3>2. a.term <= q.term  BY <1>2, <1>3
    <3>3. Holds(j, q.term, SentLastIndex(q), H, A)
      BY <1>1, <1>2, <3>1, <3>2 DEF ReplyOK
    <3>4. Holds(j, t, L, H, A)  BY <1>3, <1>5, <3>3
    <3>5. L \in 1..L  BY <1>10
    <3> QED  BY <1>11, <2>2, <3>4, <3>5 DEF Holds
  <2>3. CASE k # i /\ k # j
    <3>1. k \in Peers(i) /\ k \in Server /\ [matchIndex EXCEPT ![i][j] = L][i][k] >= L
      BY <1>6, <2>3 DEF Peers
    <3>2. matchIndex[i] \in [Server -> Nat] /\ matchIndex \in [Server -> [Server -> Nat]]
      BY <1>0 DEF TypeOK
    <3>3. matchIndex[i][k] >= L  BY <2>3, <3>1, <3>2
    <3>4. PICK m \in Nat : m = matchIndex[i][k]  BY <3>1, <3>2
    <3>5. Holds(k, t, m, H, A)  BY <1>0, <1>2, <1>5, <3>1, <3>4 DEF ProgressOK
    <3>6. L \in 1..m  BY <1>10, <3>3, <3>4
    <3> QED  BY <1>11, <3>1, <3>5, <3>6 DEF Holds
  <2> QED  BY <2>1, <2>2, <2>3
<1>14. Knows(i, L, H, A)
  <2>1. Chosen(A, t, L)
    <3>1. Q \subseteq Server  BY <1>13
    <3> QED  BY <1>7, <1>13, <3>1 DEF Chosen
  <2>2. Agree(log[i], H[t], L)
    <3>1. PICK m \in Nat : m = Len(log[i])  BY <1>9
    <3>2. Agree(log[i], H[t], m) /\ L <= m  BY <1>8, <1>9, <3>1 DEF Begins
    <3>3. H[t] \in Seq(Entry)  BY <1>8, <1>9
    <3> QED  BY <1>9, <3>1, <3>2, <3>3, AgreeLess
  <2>3. L <= L /\ t <= Floor(i)  BY <1>12
  <2> QED  BY <2>1, <2>2, <2>3 DEF Knows
<1>15. Knows(i, L, H2, A2)'
  <2>1. Begins(log[i], log'[i])  BY <1>9, BeginsItself
  <2>2. L <= L  OBVIOUS
  <2> QED  BY <1>14, <2>1, <2>2, KnowsStays
<1>16. lastApplied'[i] <= L
  <2>1. lastApplied[i] <= c  BY <1>5 DEF CommitOK
  <2>2. lastApplied[i] \in Nat  BY <1>0 DEF TypeOK
  <2>3. lastApplied[i] <= L  BY <1>7, <2>1, <2>2
  <2> QED  BY <1>2, <2>3
<1> QED  BY <1>2, <1>5, <1>15, <1>16 DEF CommitOK, Knows

LEMMA CommitOKNext ==
  ASSUME NEW H, NEW H2, NEW A, NEW A2, Storing(H, H2, A, A2), CommitInv(H, A),
         NEW x \in Server
  PROVE  CommitOK(x, H2, A2)'
<1>0. TypeOK /\ TypeOK' /\ Known(H, H2) /\ CommitsSent(A) /\ CommitOK(x, H, A)
  BY StoringFacts DEF CommitInv
<1>1. PICK k \in Server : LogStep(k)  BY <1>0 DEF Known
<1>2. PICK c, y \in Nat : c = commitIndex[x] /\ y = lastApplied[x]
  BY <1>0 DEF TypeOK
<1>3. y <= c /\ Knows(x, c, H, A)  BY <1>0, <1>2, CommitMeansKnown
<1>4. log[x] \in Seq(Entry) /\ Begins(log[x], log[x])
  BY <1>0, VLogType, BeginsItself
<1>5. ASSUME Begins(log[x], log'[x]), NEW d \in Nat, d <= c,
             commitIndex'[x] = d, lastApplied'[x] <= d
      PROVE  CommitOK(x, H2, A2)'
  <2>1. Knows(x, d, H2, A2)'  BY <1>3, <1>5, KnowsStays
  <2> QED  BY <1>5, <2>1 DEF CommitOK, Knows
<1>6. ASSUME CommitsStay(x), Begins(log[x], log'[x])  PROVE CommitOK(x, H2, A2)'
  <2>1. commitIndex'[x] = c /\ lastApplied'[x] \in {y, c}  BY <1>2, <1>6 DEF CommitsStay
  <2>2. c <= c /\ lastApplied'[x] <= c  BY <1>3, <2>1
  <2> QED  BY <1>5, <1>6, <2>1, <2>2
<1>7. CASE x # k
  <2>1. log'[x] = log[x] /\ commitIndex'[x] = commitIndex[x] /\ lastApplied'[x] = lastApplied[x]
    BY <1>1, <1>7 DEF LogStep, LocalStep, OthersRest, Rests
  <2> QED  BY <1>4, <1>6, <2>1 DEF CommitsStay
<1>8. CASE x = k /\ Same(k)
  <2>1. log'[x] = log[x]  BY <1>8 DEF Same
  <2>2. CommitsStay(k) \/ (\E j \in Server : LeaderCommits(k, j))
        \/ (\E i \in Server : \E q : Takes(k, i, q))
        \/ (Cuts(k) /\ Restarts(k))
    BY <1>1 DEF LogStep
  <2>3. CASE \E j \in Server : LeaderCommits(k, j)
    BY <1>0, <1>8, <2>1, <2>3, LeaderCommitsKnown
  <2>4. CASE \E i \in Server : \E q : Takes(k, i, q)
    BY <1>0, <1>8, <2>4, TakesCommits
  <2>5. CASE Restarts(k)
    <3>1. commitIndex'[x] = y /\ lastApplied'[x] <= y
      <4>1. y <= y  OBVIOUS
      <4> QED  BY <1>2, <1>8, <2>5, <4>1 DEF Restarts
    <3> QED  BY <1>3, <1>4, <1>5, <2>1, <3>1
  <2> QED  BY <1>4, <1>6, <1>8, <2>1, <2>2, <2>3, <2>4, <2>5
<1>9. CASE x = k /\ Grows(k) /\ CommitsStay(k)
  BY <1>4, <1>6, <1>9 DEF Grows
<1>10. CASE x = k /\ Cuts(k) /\ (CommitsStay(k) \/ Restarts(k))
  <2>1. Begins(log[x], log'[x])  BY <1>10 DEF Cuts
  <2>2. CASE Restarts(k)
    <3>1. commitIndex'[x] = y /\ lastApplied'[x] <= y
      <4>1. y <= y  OBVIOUS
      <4> QED  BY <1>2, <1>10, <2>2, <4>1 DEF Restarts
    <3> QED  BY <1>3, <1>5, <2>1, <3>1
  <2> QED  BY <1>6, <1>10, <2>1, <2>2
<1>11. CASE x = k /\ \E i \in Server : \E q : Takes(k, i, q)
  BY <1>0, <1>11, TakesCommits
<1> QED  BY <1>1, <1>7, <1>8, <1>9, <1>10, <1>11 DEF LogStep

\* A leader sends the commit index it has.
LEMMA CommitsSentNext ==
  ASSUME NEW H, NEW H2, NEW A, NEW A2, Storing(H, H2, A, A2), CommitInv(H, A)
  PROVE  CommitsSent(A2)'
<1> SUFFICES ASSUME NEW i \in Server, NEW j \in Server, NEW q \in AppendRequestMsg,
                    Travels(q, i, j)', q.commit # 0
             PROVE  \E t \in Nat : \E n \in Nat :
                      q.commit <= n /\ t <= q.term /\ Chosen(A2, t, n)
  BY DEF CommitsSent, Chosen
<1>0. Known(H, H2) /\ CommitsSent(A) /\ CommitOK(i, H, A)
  BY StoringFacts DEF CommitInv
<1>1. CASE Travels(q, i, j)
  <2>1. PICK t \in Nat : \E n \in Nat : q.commit <= n /\ t <= q.term /\ Chosen(A, t, n)
    BY <1>0, <1>1 DEF CommitsSent
  <2>2. PICK n \in Nat : q.commit <= n /\ t <= q.term /\ Chosen(A, t, n)  BY <2>1
  <2>3. Chosen(A2, t, n)  BY <2>2, ChosenStays
  <2> QED  BY <2>2, <2>3
<1>2. CASE Sent(i, j, q)
  <2>1. q.commit = commitIndex[i] /\ q.term = currentTerm[i]
    BY <1>2 DEF Sent, SendsEntries, AsksForVote, VoteRequestMsg, AppendRequestMsg
  <2>2. PICK t \in Nat : \E n \in Nat :
          commitIndex[i] <= n /\ t <= Floor(i) /\ Chosen(A, t, n)
    BY <1>0, <2>1 DEF CommitOK
  <2>3. PICK n \in Nat : commitIndex[i] <= n /\ t <= Floor(i) /\ Chosen(A, t, n)
    BY <2>2
  <2>4. Chosen(A2, t, n)  BY <2>3, ChosenStays
  <2>5. t <= q.term
    <3>1. Floor(i) \in Nat /\ currentTerm[i] \in Nat /\ Floor(i) <= currentTerm[i]
      BY StoringFacts
    <3> QED  BY <2>1, <2>3, <3>1
  <2> QED  BY <2>1, <2>3, <2>4, <2>5
<1> QED  BY <1>0, <1>1, <1>2 DEF Known, SendsMade

LEMMA CommitInvNext ==
  ASSUME NEW H, NEW H2, NEW A, NEW A2, Storing(H, H2, A, A2), CommitInv(H, A)
  PROVE  CommitInv(H2, A2)'
<1>1. CommitsSent(A2)'  BY CommitsSentNext
<1>2. ASSUME NEW i \in Server  PROVE CommitOK(i, H2, A2)'  BY CommitOKNext
<1> QED  BY <1>1, <1>2 DEF CommitInv

-----------------------------------------------------------------------------
(* The invariant. *)

\* Histories that fit the state.
Kept(H, A) == LogInv(H) /\ CallsInv(H) /\ StoreInv(H, A) /\ CommitInv(H, A)
NothingIsLost == \E H : \E A : Kept(H, A)

LEMMA InitNothingIsLost == Init => NothingIsLost
<1> SUFFICES ASSUME Init  PROVE NothingIsLost
  OBVIOUS
<1>1. /\ log = [i \in Server |-> <<>>] /\ pend = [i \in Server |-> <<>>]
      /\ state = [i \in Server |-> FSM_FOLLOWER]
      /\ writes = [i \in Server |-> <<>>]
      /\ rpc = [i \in Server |-> Idle]
      /\ commitIndex = [i \in Server |-> 0] /\ lastApplied = [i \in Server |-> 0]
      /\ stale = {} /\ ballots = {} /\ elected = {}
  BY DEF Init, Started
<1>2. \A x, y \in Server : \A q : ~Travels(q, x, y)
  BY <1>1 DEF Travels, Idle
<1>3. PICK H : LogInv(H)  BY InitLogsMatch DEF LogsMatch
<1>4. PICK A : A = {}  BY Zenon
<1>5. <<>> \in Seq(Entry) /\ Len(<<>>) = 0  BY EmptySeq
<1>6. \A i \in Server : /\ VLog(i) = <<>> /\ Len(pend[i]) = 0 /\ Len(writes[i]) = 0
                        /\ Len(log[i]) = 0 /\ Len(VLog(i)) = 0
  <2>1. <<>> \o <<>> = <<>>  BY <1>5, ConcatEmptySeq
  <2> QED  BY <1>1, <1>5, <2>1 DEF VLog
<1>7. \A i, j \in Server : rpc[i][j] = None  BY <1>1 DEF Idle
<1>8. \A i \in Server : state[i] # FSM_LEADER /\ state[i] # FSM_CANDIDATE
  BY <1>1 DEF FSM_FOLLOWER, FSM_LEADER, FSM_CANDIDATE
<1>9. CallsInv(H)
  <2> SUFFICES ASSUME NEW i \in Server
               PROVE  LoneCall(i) /\ SeenOK(i) /\ PendingIsPrivate(i, H) /\ WaitingStands(i)
    BY DEF CallsInv
  <2>1. LoneCall(i)  BY <1>2, <1>8 DEF LoneCall
  <2>2. SeenOK(i)  BY <1>7 DEF SeenOK
  <2>3. PendingIsPrivate(i, H) /\ WaitingStands(i)
    BY <1>6 DEF PendingIsPrivate, WaitingStands
  <2> QED  BY <2>1, <2>2, <2>3
<1>10. StoreInv(H, A)
  <2>1. A \subseteq [peer: Server, term: Nat, index: Nat]  BY <1>4
  <2>2. WinnersComplete(H, A)  BY <1>1 DEF WinnersComplete
  <2>3. AppendKeeps(A)  BY <1>2 DEF AppendKeeps
  <2>4. ASSUME NEW i \in Server
        PROVE  /\ PeerStores(i, H, A) /\ LeaderIsComplete(i, H, A)
               /\ CandidateOK(i, H, A) /\ ProgressOK(i, H, A)
               /\ \A j \in Server : ReplyOK(i, j, H, A)
    <3>1. PeerStores(i, H, A)
      <4>1. Ascends(VLog(i), Floor(i))  BY <1>6 DEF Ascends
      <4> QED  BY <1>4, <1>6, <4>1 DEF PeerStores
    <3>2. LeaderIsComplete(i, H, A) /\ CandidateOK(i, H, A) /\ ProgressOK(i, H, A)
      BY <1>8 DEF LeaderIsComplete, CandidateOK, ProgressOK
    <3>3. ASSUME NEW j \in Server  PROVE ReplyOK(i, j, H, A)
      BY <1>7 DEF ReplyOK
    <3> QED  BY <3>1, <3>2, <3>3
  <2> QED  BY <2>1, <2>2, <2>3, <2>4 DEF StoreInv
<1>11. CommitInv(H, A)
  BY <1>1, <1>2 DEF CommitInv, CommitsSent, CommitOK
<1> QED  BY <1>3, <1>9, <1>10, <1>11 DEF NothingIsLost, Kept

LEMMA StepKeeps ==
  ASSUME Dependable, Sane, Sane', Next, NEW H, NEW A, Kept(H, A)
  PROVE  NothingIsLost'
<1>1. PICK H2 : LogInv(H2)' /\ HistoryGrows(H, H2)
  BY NextLogInv DEF Dependable, Sane, Kept
<1>2. Known(H, H2)
  <2>1. Stepping(H, H2)  BY <1>1 DEF Stepping, Kept
  <2> QED  BY <2>1, StepIsKnown
<1>3. PICK A2 : A2 = A \cup Gained'  OBVIOUS
<1>4. Storing(H, H2, A, A2)  BY <1>2, <1>3 DEF Storing, Kept
<1>5. /\ LogInv(H2)' /\ CallsInv(H2)' /\ StoreInv(H2, A2)' /\ CommitInv(H2, A2)'
  BY <1>1, <1>2, <1>4, CallsInvNext, StoreInvNext, CommitInvNext DEF Kept
<1> QED  BY <1>5 DEF NothingIsLost, Kept

LEMMA StutterKeeps ==
  ASSUME UNCHANGED vars, NEW H, NEW A, Kept(H, A)
  PROVE  Kept(H, A)'
<1>1. UNCHANGED <<diskTerm, diskVote, log, lastApplied, state, currentTerm, votedFor,
                  commitIndex, followLeaderId, armed, paused, voted, votes, nextIndex,
                  matchIndex, writes, pend, reading, rpc, stale, ballots, elected,
                  crashes, losses>>
  BY DEF vars
<1>2. \A x, y, q : Travels(q, x, y)' <=> Travels(q, x, y)  BY <1>1 DEF Travels
<1>3. \A x : VLog(x)' = VLog(x) /\ Floor(x)' = Floor(x)  BY <1>1 DEF VLog, Floor
<1>4. LogInv(H)'
  <2>1. LeadersHistory(H)'
    BY <1>1 DEF Kept, LogInv, LeadersHistory
  <2>2. AppendsOK(H)'  BY <1>1, <1>2 DEF Kept, LogInv, AppendsOK
  <2>3. ASSUME NEW i \in Server
        PROVE  PeerHistory(i, H)' /\ LeaderOK(i, H)' /\ WaitingAppendsOK(i)'
    <3>1. PeerHistory(i, H) /\ LeaderOK(i, H) /\ WaitingAppendsOK(i)
      BY DEF Kept, LogInv
    <3>2. PeerHistory(i, H)'  BY <1>1, <1>3, <3>1 DEF PeerHistory
    <3>3. LeaderOK(i, H)'  BY <1>1, <1>3, <3>1 DEF LeaderOK
    <3>4. WaitingAppendsOK(i)'  BY <1>1, <3>1 DEF WaitingAppendsOK
    <3> QED  BY <3>2, <3>3, <3>4
  <2> QED  BY <2>1, <2>2, <2>3 DEF Kept, LogInv
<1>5. CallsInv(H)'
  <2> SUFFICES ASSUME NEW i \in Server
               PROVE  /\ LoneCall(i)' /\ SeenOK(i)'
                      /\ PendingIsPrivate(i, H)' /\ WaitingStands(i)'
    BY DEF CallsInv
  <2>1. LoneCall(i) /\ SeenOK(i) /\ PendingIsPrivate(i, H) /\ WaitingStands(i)
    BY DEF Kept, CallsInv
  <2>2. LoneCall(i)'  BY <1>1, <1>2, <2>1 DEF LoneCall, Waiting
  <2>3. SeenOK(i)'  BY <1>1, <1>3, <2>1 DEF SeenOK
  <2>4. PendingIsPrivate(i, H)'
    BY <1>1, <1>2, <1>3, <2>1 DEF PendingIsPrivate
  <2>5. WaitingStands(i)'  BY <1>1, <2>1 DEF WaitingStands
  <2> QED  BY <2>2, <2>3, <2>4, <2>5
<1>6. \A u, n : Dead(A, u, n)' <=> Dead(A, u, n)  BY <1>3 DEF Dead
<1>7. /\ \A k, t, m : Covers(k, t, m, A)' <=> Covers(k, t, m, A)
      /\ \A l, t : Complete(l, t, H, A)' <=> Complete(l, t, H, A)
      /\ \A k, l, t : CompleteFor(k, l, t, H, A)' <=> CompleteFor(k, l, t, H, A)
  BY <1>3, <1>6 DEF Covers, CoversOld, CoversOwn, Complete, CompleteFor
<1>8. StoreInv(H, A)'
  <2>0. StoreInv(H, A)  BY DEF Kept
  <2>1. WinnersComplete(H, A)'
    BY <1>1, <1>7, <2>0 DEF StoreInv, WinnersComplete
  <2>2. AppendKeeps(A)'  BY <1>2, <1>7, <2>0 DEF StoreInv, AppendKeeps
  <2>3. ASSUME NEW i \in Server
        PROVE  /\ PeerStores(i, H, A)' /\ LeaderIsComplete(i, H, A)'
               /\ CandidateOK(i, H, A)' /\ ProgressOK(i, H, A)'
               /\ \A j \in Server : ReplyOK(i, j, H, A)'
    <3>0. /\ PeerStores(i, H, A) /\ LeaderIsComplete(i, H, A)
          /\ CandidateOK(i, H, A) /\ ProgressOK(i, H, A)
          /\ \A j \in Server : ReplyOK(i, j, H, A)
      BY <2>0 DEF StoreInv
    <3>1. PeerStores(i, H, A)'  BY <1>1, <1>3, <1>6, <3>0 DEF PeerStores
    <3>2. LeaderIsComplete(i, H, A)'
      BY <1>1, <1>6, <3>0 DEF LeaderIsComplete, Complete, CoversOwn
    <3>3. CandidateOK(i, H, A)'
      BY <1>1, <1>2, <1>6, <3>0 DEF CandidateOK, CompleteFor
    <3>4. ProgressOK(i, H, A)'
      BY <1>1, <1>3, <1>6, <3>0 DEF ProgressOK, Covers, CoversOld, CoversOwn, Holds
    <3>5. ASSUME NEW j \in Server  PROVE ReplyOK(i, j, H, A)'
      BY <1>1, <1>3, <1>6, <3>0 DEF ReplyOK, Covers, CoversOld, CoversOwn, Holds
    <3> QED  BY <3>1, <3>2, <3>3, <3>4, <3>5
  <2> QED  BY <2>0, <2>1, <2>2, <2>3 DEF StoreInv
<1>9. CommitInv(H, A)'
  <2>1. CommitsSent(A)'  BY <1>2 DEF Kept, CommitInv, CommitsSent
  <2>2. ASSUME NEW i \in Server  PROVE CommitOK(i, H, A)'
    BY <1>1, <1>3 DEF Kept, CommitInv, CommitOK
  <2> QED  BY <2>1, <2>2 DEF CommitInv
<1> QED  BY <1>4, <1>5, <1>8, <1>9 DEF Kept

LEMMA NextNothingIsLost ==
  ASSUME Dependable, Sane, Sane', NothingIsLost, [Next]_vars
  PROVE  NothingIsLost'
<1>1. PICK H : \E A : Kept(H, A)  BY DEF NothingIsLost
<1>2. PICK A : Kept(H, A)  BY <1>1
<1>3. CASE Next  BY <1>2, <1>3, StepKeeps
<1>4. CASE UNCHANGED vars
  <2>1. Kept(H, A)'  BY <1>2, <1>4, StutterKeeps
  <2> QED  BY <2>1 DEF NothingIsLost
<1> QED  BY <1>3, <1>4

-----------------------------------------------------------------------------
(* The theorems. *)

LEMMA SaneAlways ==
  ASSUME VoteResendRace = FALSE, ReadOvertaken = FALSE
  PROVE  Spec => []Sane
<1>1. TypeOK /\ ElectionInv /\ LogsMatch => Sane
  <2>1. ElectionInv => ElectionSafety  BY MajoritiesElectOne
  <2> QED  BY <2>1 DEF Sane, LogsMatch
<1> QED  BY <1>1, TypeCorrect, ElectionInvariant, LogsInvariant, PTL

\* What peers have accepted of the leader of a term, and may not have lost, is in
\* the log of every later leader, whatever is on its way and whoever restarts
\* (requestVoteHandler, appendEntryHandler, onAppendEntriesResponse).
THEOREM CommitsAreKept ==
  ASSUME Dependable
  PROVE  Spec => []NothingIsLost
<1>1. Sane /\ Sane' /\ NothingIsLost /\ [Next]_vars => NothingIsLost'
  BY NextNothingIsLost
<1>2. Spec => []Sane  BY SaneAlways DEF Dependable
<1> QED  BY <1>1, <1>2, InitNothingIsLost, PTL DEF Spec

\* The first c entries of a log that agrees with another that far.
LEMMA AgreedPrefix ==
  ASSUME NEW s \in Seq(Entry), NEW l \in Seq(Entry), NEW c \in Nat, Agree(s, l, c)
  PROVE  IsPrefixOf(SubSeq(s, 1, c), l)
<1>1. PICK a, b \in Nat : a = Len(s) /\ b = Len(l)  OBVIOUS
<1>2. c <= a /\ c <= b /\ \A m \in 1..c : s[m] = l[m]  BY <1>1 DEF Agree
<1>3. c \in 0..a /\ c \in 0..b  BY <1>2
<1>4. PICK p, r : p = SubSeq(s, 1, c) /\ r = SubSeq(l, 1, c)  OBVIOUS
<1>5. /\ p \in Seq(Entry) /\ Len(p) = c /\ \A m \in 1..c : p[m] = s[m]
      /\ r \in Seq(Entry) /\ Len(r) = c /\ \A m \in 1..c : r[m] = l[m]
  BY <1>1, <1>3, <1>4, PrefixParts
<1>6. p = r
  <2>1. \A m \in 1..Len(p) : p[m] = r[m]  BY <1>2, <1>5
  <2> QED  BY <1>5, <2>1, SeqEqual
<1>7. Len(p) <= Len(l) /\ SubSeq(l, 1, Len(p)) = p  BY <1>1, <1>2, <1>4, <1>5, <1>6
<1> QED  BY <1>4, <1>7 DEF IsPrefixOf

\* Of what two peers have stored of a common log one has no more than the other.
LEMMA AgreedPrefixes ==
  ASSUME NEW s \in Seq(Entry), NEW l \in Seq(Entry), NEW h \in Seq(Entry),
         NEW c \in Nat, NEW d \in Nat, c <= d, Agree(s, h, c), Agree(l, h, d)
  PROVE  IsPrefixOf(SubSeq(s, 1, c), SubSeq(l, 1, d))
<1>1. PICK a, b, e \in Nat : a = Len(s) /\ b = Len(l) /\ e = Len(h)  OBVIOUS
<1>2. c <= a /\ d <= b /\ (\A m \in 1..c : s[m] = h[m]) /\ (\A m \in 1..d : l[m] = h[m])
  BY <1>1 DEF Agree
<1>3. d \in 0..b  BY <1>2
<1>4. PICK p : p = SubSeq(l, 1, d)  OBVIOUS
<1>5. p \in Seq(Entry) /\ Len(p) = d /\ \A m \in 1..d : p[m] = l[m]
  BY <1>1, <1>3, <1>4, PrefixParts
<1>6. \A m \in 1..c : m \in 1..d  OBVIOUS
<1>7. \A m \in 1..c : s[m] = p[m]  BY <1>2, <1>5, <1>6
<1>8. Agree(s, p, c)  BY <1>1, <1>2, <1>5, <1>7 DEF Agree
<1>9. IsPrefixOf(SubSeq(s, 1, c), p)  BY <1>5, <1>8, AgreedPrefix
<1> QED  BY <1>4, <1>9

LEMMA NothingEndsAtZero ==
  ASSUME NEW s \in Seq(Entry), NEW l \in Seq(Entry)
  PROVE  Agree(s, l, 0)
<1>1. 0 <= Len(s) /\ 0 <= Len(l)  OBVIOUS
<1> QED  BY <1>1 DEF Agree

LEMMA LeadersComplete ==
  ASSUME TypeOK, Sane, NothingIsLost
  PROVE  LeaderCompleteness
<1> SUFFICES ASSUME NEW i \in Server, NEW l \in Server, state[l] = FSM_LEADER,
                    currentTerm[l] >= currentTerm[i]
             PROVE  IsPrefixOf(Committed(i), log[l])
  BY DEF LeaderCompleteness
<1>1. PICK H : \E A : Kept(H, A)  BY DEF NothingIsLost
<1>2. PICK A : Kept(H, A)  BY <1>1
<1>3. /\ CommitOK(i, H, A) /\ LeaderIsComplete(l, H, A) /\ LeaderOK(l, H) /\ IsHistory(H)
      /\ FloorsOK
  BY <1>2, FloorFacts DEF Kept, CommitInv, StoreInv, LogInv, IsHistory, Sane
<1>4. /\ log[i] \in Seq(Entry) /\ log[l] \in Seq(Entry) /\ VLog(l) \in Seq(Entry)
      /\ Begins(log[l], VLog(l))
  BY VLogType
<1>5. PICK c, u, v \in Nat : c = commitIndex[i] /\ u = currentTerm[i] /\ v = currentTerm[l]
  BY DEF TypeOK
<1>6. Agree(log[i], log[l], c)
  <2>1. CASE c = 0  BY <1>4, <2>1, NothingEndsAtZero
  <2>2. CASE c # 0
    <3>1. PICK t \in Nat : \E n \in Nat :
            c <= n /\ t <= Floor(i) /\ Chosen(A, t, n) /\ Agree(log[i], H[t], c)
      BY <1>3, <1>5, <2>2 DEF CommitOK
    <3>2. PICK n \in Nat :
            c <= n /\ t <= Floor(i) /\ Chosen(A, t, n) /\ Agree(log[i], H[t], c)
      BY <3>1
    <3>3. t <= v /\ n # 0
      <4>1. Floor(i) <= u /\ Floor(i) \in Nat  BY <1>3, <1>5 DEF FloorsOK
      <4>2. u <= v  BY <1>5
      <4> QED  BY <2>2, <3>2, <4>1, <4>2
    <3>4. H[t] \in Seq(Entry)  BY <1>3 DEF IsHistory
    <3>5. Agree(log[l], H[t], c)
      <4>1. CASE t < v
        <5>1. Complete(log[l], v, H, A)  BY <1>3, <1>5 DEF LeaderIsComplete
        <5>2. Agree(log[l], H[t], n)
          BY <3>2, <3>3, <4>1, <5>1, ChosenLives DEF Complete
        <5> QED  BY <1>4, <3>2, <3>4, <5>2, AgreeLess
      <4>2. CASE t = v
        <5>1. H[t] = VLog(l)  BY <1>3, <1>5, <4>2 DEF LeaderOK
        <5>2. PICK Q \in SUBSET Server :
                IsMajority(Q) /\ \A k \in Q : Accepted(k, t, n) \in A
          BY <3>2 DEF Chosen
        <5>3. PICK k \in Server : k \in Q  BY <5>2, MajoritiesMeet
        <5>4. CoversOwn(k, v, Len(log[l]), A)  BY <1>3, <1>5 DEF LeaderIsComplete
        <5>5. n <= Len(log[l])  BY <4>2, <5>2, <5>3, <5>4 DEF CoversOwn
        <5>6. PICK m \in Nat : m = Len(log[l])  BY <1>4
        <5>7. Agree(log[l], H[t], m)  BY <1>4, <5>1, <5>6 DEF Begins
        <5>8. c <= m  BY <3>2, <5>5, <5>6
        <5> QED  BY <1>4, <3>4, <5>7, <5>8, AgreeLess
      <4> QED  BY <3>3, <4>1, <4>2
    <3> QED  BY <3>2, <3>5 DEF Agree
  <2> QED  BY <2>1, <2>2
<1> QED  BY <1>4, <1>5, <1>6, AgreedPrefix DEF Committed

\* Two peers have what they know to be committed from one log.
LEMMA CommonLog ==
  ASSUME TypeOK, NEW H, NEW A, Kept(H, A), NEW i \in Server, NEW j \in Server
  PROVE  \E h \in Seq(Entry) :
           Agree(log[i], h, commitIndex[i]) /\ Agree(log[j], h, commitIndex[j])
<1>1. /\ CommitOK(i, H, A) /\ CommitOK(j, H, A) /\ IsHistory(H) /\ LeadersHistory(H)
      /\ StoreInv(H, A)
  BY DEF Kept, CommitInv, LogInv, IsHistory
<1>2. log[i] \in Seq(Entry) /\ log[j] \in Seq(Entry)  BY DEF TypeOK
<1>3. PICK c, d \in Nat : c = commitIndex[i] /\ d = commitIndex[j]  BY DEF TypeOK
<1>4. CASE c = 0
  <2>1. Agree(log[i], H[0], 0)
    <3>1. H[0] \in Seq(Entry)  BY <1>1 DEF IsHistory
    <3> QED  BY <1>2, <3>1, NothingEndsAtZero
  <2>2. \E h \in Seq(Entry) : Agree(log[j], h, d)
    <3>1. CASE d = 0  BY <1>2, <3>1, NothingEndsAtZero
    <3>2. CASE d # 0
      <4>1. PICK t \in Nat : Agree(log[j], H[t], d)  BY <1>1, <1>3, <3>2 DEF CommitOK
      <4>2. H[t] \in Seq(Entry)  BY <1>1 DEF IsHistory
      <4> QED  BY <4>1, <4>2
    <3> QED  BY <3>1, <3>2
  <2>3. PICK h \in Seq(Entry) : Agree(log[j], h, d)  BY <2>2
  <2>4. Agree(log[i], h, c)  BY <1>2, <1>4, NothingEndsAtZero
  <2> QED  BY <1>3, <2>3, <2>4
<1>5. CASE d = 0 /\ c # 0
  <2>1. PICK t \in Nat : Agree(log[i], H[t], c)  BY <1>1, <1>3, <1>5 DEF CommitOK
  <2>2. H[t] \in Seq(Entry)  BY <1>1 DEF IsHistory
  <2>3. Agree(log[j], H[t], d)  BY <1>2, <1>5, <2>2, NothingEndsAtZero
  <2> QED  BY <1>3, <2>1, <2>2, <2>3
<1>6. CASE c # 0 /\ d # 0
  <2>1. PICK t \in Nat : \E n \in Nat :
          c <= n /\ Chosen(A, t, n) /\ Agree(log[i], H[t], c)
    BY <1>1, <1>3, <1>6 DEF CommitOK
  <2>2. PICK n \in Nat : c <= n /\ Chosen(A, t, n) /\ Agree(log[i], H[t], c)
    BY <2>1
  <2>3. PICK u \in Nat : \E m \in Nat :
          d <= m /\ Chosen(A, u, m) /\ Agree(log[j], H[u], d)
    BY <1>1, <1>3, <1>6 DEF CommitOK
  <2>4. PICK m \in Nat : d <= m /\ Chosen(A, u, m) /\ Agree(log[j], H[u], d)
    BY <2>3
  <2>5. H[t] \in Seq(Entry) /\ H[u] \in Seq(Entry) /\ n # 0 /\ m # 0
    <3>1. H[t] \in Seq(Entry) /\ H[u] \in Seq(Entry)  BY <1>1 DEF IsHistory
    <3>2. c <= n /\ d <= m  BY <2>2, <2>4
    <3>3. n # 0 /\ m # 0  BY <1>6, <3>2
    <3> QED  BY <3>1, <3>3
  <2>6. ASSUME NEW x \in Nat, NEW y \in Nat, NEW a \in Nat \ {0}, NEW b \in Nat \ {0},
               x < y, Chosen(A, x, a), Chosen(A, y, b)
        PROVE  Agree(H[y], H[x], a)
    <3>1. PICK Q \in SUBSET Server : IsMajority(Q) /\ \A k \in Q : Accepted(k, y, b) \in A
      BY <2>6 DEF Chosen
    <3>2. PICK k \in Server : k \in Q  BY <3>1, MajoritiesMeet
    <3>3. PICK r : r = Accepted(k, y, b)  OBVIOUS
    <3>4. r \in A /\ r.peer = k /\ r.term = y /\ r.index = b
      BY <3>1, <3>2, <3>3 DEF Accepted
    <3>5. PeerStores(k, H, A)  BY <1>1 DEF StoreInv
    <3>6. b \in 1..Len(H[y])  BY <3>4, <3>5 DEF PeerStores
    <3>7. H[y] \in Seq(Entry)  BY <1>1 DEF IsHistory
    <3>8. H[y] # <<>>
      <4>1. Len(H[y]) # 0  BY <3>6, <3>7
      <4> QED  BY <4>1, EmptySeq
    <3>9. PICK e \in elected : e.term = y  BY <1>1, <3>8 DEF LeadersHistory
    <3>10. Complete(H[y], y, H, A)  BY <1>1, <3>9 DEF StoreInv, WinnersComplete
    <3> QED  BY <2>6, <3>10, ChosenLives DEF Complete
  <2>7. CASE t = u  BY <1>3, <2>2, <2>4, <2>5, <2>7
  <2>8. CASE t < u
    <3>1. Agree(H[u], H[t], n)  BY <2>2, <2>4, <2>5, <2>6, <2>8
    <3>2. Agree(H[u], H[t], c)  BY <2>2, <2>5, <3>1, AgreeLess
    <3>3. Agree(log[i], H[u], c)  BY <2>2, <3>2 DEF Agree
    <3> QED  BY <1>3, <2>4, <2>5, <3>3
  <2>9. CASE u < t
    <3>1. Agree(H[t], H[u], m)  BY <2>2, <2>4, <2>5, <2>6, <2>9
    <3>2. Agree(H[t], H[u], d)  BY <2>4, <2>5, <3>1, AgreeLess
    <3>3. Agree(log[j], H[t], d)  BY <2>4, <3>2 DEF Agree
    <3> QED  BY <1>3, <2>2, <2>5, <3>3
  <2> QED  BY <2>7, <2>8, <2>9
<1> QED  BY <1>4, <1>5, <1>6

LEMMA CommitsAgree ==
  ASSUME TypeOK, NothingIsLost
  PROVE  StateMachineSafety
<1> SUFFICES ASSUME NEW i \in Server, NEW j \in Server
             PROVE  \/ IsPrefixOf(Committed(i), Committed(j))
                    \/ IsPrefixOf(Committed(j), Committed(i))
  BY DEF StateMachineSafety
<1>1. PICK H : \E A : Kept(H, A)  BY DEF NothingIsLost
<1>2. PICK A : Kept(H, A)  BY <1>1
<1>3. PICK c, d \in Nat : c = commitIndex[i] /\ d = commitIndex[j]  BY DEF TypeOK
<1>4. PICK h \in Seq(Entry) : Agree(log[i], h, c) /\ Agree(log[j], h, d)
  BY <1>2, <1>3, CommonLog
<1>5. log[i] \in Seq(Entry) /\ log[j] \in Seq(Entry)  BY DEF TypeOK
<1>6. CASE c <= d
  BY <1>3, <1>4, <1>5, <1>6, AgreedPrefixes DEF Committed
<1>7. CASE d <= c
  BY <1>3, <1>4, <1>5, <1>7, AgreedPrefixes DEF Committed
<1> QED  BY <1>6, <1>7

\* A leader has in its log what any peer of its term or an earlier one knows to
\* be committed (the vote's log check, the commit rule of
\* onAppendEntriesResponse).
THEOREM LeadersHaveCommits ==
  ASSUME Dependable
  PROVE  Spec => []LeaderCompleteness
<1>1. TypeOK /\ Sane /\ NothingIsLost => LeaderCompleteness  BY LeadersComplete
<1>2. Spec => []Sane  BY SaneAlways DEF Dependable
<1> QED  BY <1>1, <1>2, TypeCorrect, CommitsAreKept, PTL

\* Peers commit the same entries, so their state machines apply the same
\* updates (commitIndex, _applyToStateMachine).
THEOREM CommitsAreTheSame ==
  ASSUME Dependable
  PROVE  Spec => []StateMachineSafety
<1>1. TypeOK /\ NothingIsLost => StateMachineSafety  BY CommitsAgree
<1> QED  BY <1>1, TypeCorrect, CommitsAreKept, PTL

-----------------------------------------------------------------------------
(* The refinement. *)

\* Peers have applied entries of one log.
LEMMA AppliedAgree ==
  ASSUME TypeOK, NothingIsLost, NEW i \in Server, NEW j \in Server
  PROVE  \/ IsPrefixOf(Applied(i), Applied(j))
         \/ IsPrefixOf(Applied(j), Applied(i))
<1>1. PICK H : \E A : Kept(H, A)  BY DEF NothingIsLost
<1>2. PICK A : Kept(H, A)  BY <1>1
<1>3. PICK c, d, x, y \in Nat : /\ c = commitIndex[i] /\ d = commitIndex[j]
                                /\ x = lastApplied[i] /\ y = lastApplied[j]
  BY DEF TypeOK
<1>4. x <= c /\ y <= d  BY <1>2, <1>3 DEF Kept, CommitInv, CommitOK
<1>5. PICK h \in Seq(Entry) : Agree(log[i], h, c) /\ Agree(log[j], h, d)
  BY <1>2, <1>3, CommonLog
<1>6. log[i] \in Seq(Entry) /\ log[j] \in Seq(Entry)  BY DEF TypeOK
<1>7. Agree(log[i], h, x) /\ Agree(log[j], h, y)
  BY <1>4, <1>5, <1>6, AgreeLess
<1>8. CASE x <= y
  BY <1>3, <1>6, <1>7, <1>8, AgreedPrefixes DEF Applied
<1>9. CASE y <= x
  BY <1>3, <1>6, <1>7, <1>9, AgreedPrefixes DEF Applied
<1> QED  BY <1>8, <1>9

\* What a peer has applied is in its log.
LEMMA AppliedStored ==
  ASSUME TypeOK, NothingIsLost, NEW k \in Server
  PROVE  lastApplied[k] <= commitIndex[k] /\ lastApplied[k] <= Len(log[k])
         /\ commitIndex[k] <= Len(log[k])
<1>1. PICK H : \E A : Kept(H, A)  BY DEF NothingIsLost
<1>2. PICK A : Kept(H, A)  BY <1>1
<1>3. CommitOK(k, H, A)  BY <1>2 DEF Kept, CommitInv
<1>4. PICK c, x \in Nat : c = commitIndex[k] /\ x = lastApplied[k]  BY DEF TypeOK
<1>5. PICK a \in Nat : a = Len(log[k])  BY DEF TypeOK
<1>6. x <= c  BY <1>3, <1>4 DEF CommitOK
<1>7. c <= a
  <2>1. CASE c = 0  BY <2>1
  <2>2. CASE c # 0
    <3>1. PICK t \in Nat : Agree(log[k], H[t], c)  BY <1>3, <1>4, <2>2 DEF CommitOK
    <3> QED  BY <1>5, <3>1 DEF Agree
  <2> QED  BY <2>1, <2>2
<1> QED  BY <1>4, <1>5, <1>6, <1>7

\* Both for all peers.
AppliedOK ==
  /\ \A k \in Server : lastApplied[k] <= Len(log[k])
  /\ \A i, j \in Server : \/ IsPrefixOf(Applied(i), Applied(j))
                          \/ IsPrefixOf(Applied(j), Applied(i))

LEMMA AllApplied == TypeOK /\ NothingIsLost => AppliedOK
  BY AppliedAgree, AppliedStored DEF AppliedOK

LEMMA AllAppliedNext ==
  ASSUME TypeOK', NothingIsLost'
  PROVE  AppliedOK'
<1>1. TypeOK' /\ NothingIsLost' => AppliedOK'  BY AllApplied, PTL
<1> QED  BY <1>1

\* A step applies more entries, and changes none that was applied.
LEMMA AppliedGrows ==
  ASSUME TypeOK, TypeOK', NothingIsLost, NothingIsLost', NEW k \in Server, LogStep(k)
  PROVE  IsPrefixOf(Applied(k), Applied(k)')
<1>1. PICK c, x, y \in Nat : /\ c = commitIndex[k] /\ x = lastApplied[k]
                             /\ y = lastApplied'[k]
  BY DEF TypeOK
<1>2. log[k] \in Seq(Entry) /\ log'[k] \in Seq(Entry)  BY DEF TypeOK
<1>3. PICK a, b \in Nat : a = Len(log[k]) /\ b = Len(log'[k])  BY <1>2
<1>4. x <= c /\ x <= a /\ c <= a  BY <1>1, <1>3, AppliedStored
<1>5. y <= b
  <2>1. lastApplied'[k] <= Len(log'[k])  BY AllAppliedNext DEF AppliedOK
  <2> QED  BY <1>1, <1>3, <2>1
<1>6. x <= y /\ \A z \in 1..x : log'[k][z] = log[k][z]
  <2>1. CASE Same(k)
    <3>1. y = x \/ y = c
      BY <1>1, <2>1 DEF LogStep, Same, CommitsStay, LeaderCommits, Restarts, Takes
    <3> QED  BY <1>4, <2>1, <3>1 DEF Same
  <2>2. CASE Grows(k) /\ CommitsStay(k)
    <3>1. y = x \/ y = c  BY <1>1, <2>2 DEF CommitsStay
    <3> QED  BY <1>4, <2>2, <3>1 DEF Grows
  <2>3. CASE Cuts(k) /\ (CommitsStay(k) \/ Restarts(k))
    <3>1. y = x \/ y = c  BY <1>1, <2>3 DEF CommitsStay, Restarts
    <3>2. \A z \in 1..a : log'[k][z] = log[k][z]
      BY <1>3, <2>3 DEF Cuts, Begins, Agree
    <3> QED  BY <1>4, <3>1, <3>2
  <2>4. ASSUME NEW i \in Server, NEW q, Takes(k, i, q)
        PROVE  x <= y /\ \A z \in 1..x : log'[k][z] = log[k][z]
    <3>1. /\ q \in AppendRequestMsg /\ PrevMatches(log[k], q) /\ commitIndex[k] <= q.prev
          /\ log'[k] = SubSeq(VLog(k), 1, q.prev) \o q.entries
          /\ lastApplied'[k] = lastApplied[k]
      BY <2>4 DEF Takes
    <3>2. PICK p \in Nat : p = q.prev  BY <3>1, SliceType
    <3>3. /\ VLog(k) \in Seq(Entry) /\ Begins(log[k], VLog(k))
      BY VLogType
    <3>4. PICK v \in Nat : v = Len(VLog(k))  BY <3>3
    <3>5. p <= a /\ a <= v /\ \A z \in 1..a : log[k][z] = VLog(k)[z]
      BY <1>3, <3>1, <3>2, <3>3, <3>4 DEF PrevMatches, Begins, Agree
    <3>6. p \in 0..v  BY <3>5
    <3>7. PICK s : s = SubSeq(VLog(k), 1, p)  OBVIOUS
    <3>8. s \in Seq(Entry) /\ Len(s) = p /\ \A z \in 1..p : s[z] = VLog(k)[z]
      BY <3>3, <3>4, <3>6, <3>7, PrefixParts
    <3>9. log'[k] = s \o q.entries /\ q.entries \in Seq(Entry)
      BY <3>1, <3>2, <3>7, SliceType
    <3>10. \A z \in 1..Len(s) : log'[k][z] = s[z]  BY <3>8, <3>9, ConcatParts
    <3>11. x <= p  BY <1>1, <1>4, <3>1, <3>2
    <3>12. ASSUME NEW z \in 1..x  PROVE log'[k][z] = log[k][z]
      <4>1. z \in 1..p /\ z \in 1..a  BY <3>5, <3>11
      <4> QED  BY <3>5, <3>8, <3>10, <4>1
    <3>13. y = x  BY <1>1, <3>1
    <3> QED  BY <3>12, <3>13
  <2> QED  BY <2>1, <2>2, <2>3, <2>4 DEF LogStep
<1>7. Agree(log[k], log'[k], x) /\ Agree(log'[k], log'[k], y)
  <2>1. x <= b  BY <1>5, <1>6
  <2> QED  BY <1>3, <1>4, <1>5, <1>6, <2>1 DEF Agree
<1>8. IsPrefixOf(SubSeq(log[k], 1, x), SubSeq(log'[k], 1, y))
  BY <1>2, <1>6, <1>7, AgreedPrefixes
<1> QED  BY <1>1, <1>8 DEF Applied

LEMMA NextFeeds ==
  ASSUME Dependable, Sane, Sane', NothingIsLost, NothingIsLost', Next
  PROVE  SM!Next
<1>0. TypeOK /\ TypeOK'  BY DEF Sane
<1>1. PICK H : \E A : Kept(H, A)  BY DEF NothingIsLost
<1>2. PICK A : Kept(H, A)  BY <1>1
<1>3. PICK H2 : LogInv(H2)' /\ HistoryGrows(H, H2)
  BY <1>2, NextLogInv DEF Dependable, Sane, Kept
<1>4. Stepping(H, H2)  BY <1>2, <1>3 DEF Stepping, Kept
<1>5. PICK k \in Server : LogStep(k)  BY <1>4, NextLogStep
<1>6. \A x \in Server : x # k => Applied(x)' = Applied(x)
  BY <1>5 DEF LogStep, LocalStep, OthersRest, Rests, Applied
<1>7. IsPrefixOf(Applied(k), Applied(k)')  BY <1>0, <1>5, AppliedGrows
<1>8. ASSUME NEW j \in Server
      PROVE  IsPrefixOf(Applied(j), Applied(k)') \/ IsPrefixOf(Applied(k)', Applied(j))
  <2>1. CASE j = k  BY <1>7, <2>1
  <2>2. CASE j # k
    <3>1. \/ IsPrefixOf(Applied(j)', Applied(k)')
          \/ IsPrefixOf(Applied(k)', Applied(j)')
      BY <1>0, AllAppliedNext DEF AppliedOK, IsPrefixOf
    <3>2. Applied(j)' = Applied(j)  BY <1>6, <2>2
    <3> QED  BY <3>1, <3>2
  <2> QED  BY <2>1, <2>2
<1>9. SM!Feed(k)
  <2>1. [i \in Server |-> Applied(i)]' =
          [[i \in Server |-> Applied(i)] EXCEPT ![k] = Applied(k)']
    BY <1>6
  <2> QED  BY <1>7, <1>8, <2>1 DEF SM!Feed, SM!Begins, IsPrefixOf
<1> QED  BY <1>9 DEF SM!Next

\* The peers feed their state machines the same updates in the same order, and
\* never one that could be replaced later (_applyToStateMachine).
THEOREM PeersFeedStateMachines ==
  ASSUME Dependable
  PROVE  Spec => FeedsStateMachines
<1>1. Init => SM!Init
  <2> SUFFICES ASSUME Init  PROVE SM!Init
    OBVIOUS
  <2>1. \A i \in Server : log[i] = <<>> /\ lastApplied[i] = 0
    BY DEF Init, Started
  <2>2. ASSUME NEW i \in Server  PROVE Applied(i) = <<>>
    <3>1. <<>> \in Seq(Entry) /\ Len(<<>>) = 0  BY EmptySeq
    <3>2. 0 \in 0..Len(<<>>)  BY <3>1
    <3>3. PICK s : s = SubSeq(<<>>, 1, 0)  OBVIOUS
    <3>4. s \in Seq(Entry) /\ Len(s) = 0  BY <3>1, <3>2, <3>3, PrefixParts
    <3>5. s = <<>>  BY <3>4, EmptySeq
    <3> QED  BY <2>1, <3>3, <3>5 DEF Applied
  <2> QED  BY <2>2 DEF SM!Init
<1>2. /\ Sane /\ Sane' /\ NothingIsLost /\ NothingIsLost' /\ [Next]_vars
      => [SM!Next]_([i \in Server |-> Applied(i)])
  <2>1. UNCHANGED vars => UNCHANGED [i \in Server |-> Applied(i)]
    BY DEF vars, Applied
  <2> QED  BY <2>1, NextFeeds
<1>3. Spec => []Sane  BY SaneAlways DEF Dependable
<1> QED  BY <1>1, <1>2, <1>3, CommitsAreKept, PTL DEF Spec, FeedsStateMachines, SM!Spec
=============================================================================
