------------------------------ MODULE ZmqRaft ------------------------------
(***************************************************************************)
(* The consensus core of a zmq-raft peer: elections, log replication and   *)
(* commitment over the peers' RPC sockets, with the asynchronous steps the *)
(* code really takes: a term or vote is assigned in memory at once and     *)
(* written to disk later, the continuation of a handler runs when that     *)
(* write ends, a leader's own appends are flushed in batches, and the      *)
(* router is paused while some of the handlers are under way.              *)
(*                                                                         *)
(* Cluster membership is fixed, has at least two peers, and the log has no *)
(* snapshot: the first entry has index 1.                                  *)
(***************************************************************************)
EXTENDS Integers, Sequences, FiniteSets

CONSTANTS
  Server,           \* the peers in the cluster configuration
  Value,            \* the payloads of client updates
  Checkpoint,       \* the payload of a CHECKPOINT entry
  None,             \* JavaScript's null and undefined
  PreventSpiral,    \* the option preventSpiralElections
  \* what the environment may do in this instance
  VoteResendRace,   \* a repeated RequestVote may be handled while the vote it
                    \* asks for is still being written
  AppendRace,       \* an AppendEntries may be handled while the term it was sent
                    \* in is in memory and still being written
  ReadOvertaken,    \* other events may overtake an AppendEntries handler that
                    \* waits for the term of a log entry to be read from a file
  StaleRequests,    \* requests of a disconnected socket may still be handled
  Electable,        \* bound: the peers whose election timeout may expire
  MaxTerm, MaxLog,  \* bounds: elections, entries proposed
  MaxCrashes, MaxLosses, \* bounds: process restarts, broken connections,
  MaxFaults         \* and both together

FSM_FOLLOWER  == "follower"
FSM_CANDIDATE == "candidate"
FSM_LEADER    == "leader"
DOWN          == "down"     \* the process has ended on an error

Entry == [term: Nat, val: Value \cup {Checkpoint}]

VoteRequestMsg ==
  [type: {"vote"}, term: Nat, lastIndex: Nat, lastTerm: Nat]
AppendRequestMsg ==
  [type: {"append"}, term: Nat, prev: Nat, prevTerm: Int, commit: Nat,
   entries: Seq(Entry)]
Request == VoteRequestMsg \cup AppendRequestMsg

\* conflict = 0 stands for an undefined conflictTermIndex
Reply == [term: Nat, ok: BOOLEAN, conflict: Nat]

\* A pending request of a ZmqRpcSocket.  "seen": its receiver has handled it
\* over the present connection (debouncing); "reply": what is on its way back.
Call == [req: Request, seen: BOOLEAN, reply: Reply \cup {None}]

\* A write queued in FilePersistence and the handler that waits for it.
Write ==
  [term: Nat, vote: Server \cup {None}, then: {"nothing", "election"},
   from: {None}, req: {None}]
  \cup
  [term: Nat, vote: Server \cup {None}, then: {"vote"},
   from: Server, req: VoteRequestMsg]
  \cup
  [term: Nat, vote: Server \cup {None}, then: {"append", "refuse"},
   from: Server, req: AppendRequestMsg]

ASSUME ServerAssumption == IsFiniteSet(Server) /\ Cardinality(Server) >= 2
ASSUME NoneAssumption == None \notin Server /\ None \notin Call
ASSUME OptionAssumption ==
  {PreventSpiral, VoteResendRace, AppendRace, ReadOvertaken, StaleRequests} \subseteq BOOLEAN
ASSUME ElectableAssumption == Electable \subseteq Server
ASSUME BoundAssumption == {MaxTerm, MaxLog, MaxCrashes, MaxLosses, MaxFaults} \subseteq Nat

VARIABLES
  \* on disk
  diskTerm, diskVote, log, lastApplied,
  \* in memory
  state, currentTerm, votedFor, commitIndex, followLeaderId,
  armed,            \* an election timeout is pending
  paused,           \* the router reads no messages
  voted, votes,     \* who has answered the candidate, and who has granted
  nextIndex, matchIndex,
  writes,           \* writes of term and vote under way, in order
  pend,             \* entries a leader has passed to the log, not yet flushed
  reading,          \* the AppendEntries handler waiting for a log read
  \* the network
  rpc,              \* rpc[i][j]: the pending request of i's socket to j
  stale,            \* requests still travelling from sockets that were reset
  \* history
  ballots,          \* votes that were cast: a reply granting, or a candidacy
  elected,          \* who became the leader of which term
  crashes, losses

disk      == <<diskTerm, diskVote, lastApplied>>
timing    == <<armed, paused>>
tally     == <<voted, votes>>
progress  == <<nextIndex, matchIndex>>
network   == <<rpc, stale>>
history   == <<ballots, elected>>
faults    == <<crashes, losses>>
vars == <<diskTerm, diskVote, log, lastApplied, state, currentTerm, votedFor,
          commitIndex, followLeaderId, armed, paused, voted, votes, nextIndex,
          matchIndex, writes, pend, reading, rpc, stale, ballots, elected,
          crashes, losses>>

-----------------------------------------------------------------------------
(* Helpers *)

Smaller(a, b) == IF a <= b THEN a ELSE b
Larger(a, b)  == IF a >= b THEN a ELSE b

Peers(i) == Server \ {i}

\* fault: half of the peers, rounded down, is enough
IsMajorityF(S) == Cardinality(S) >= Cardinality(Server) \div 2
IsMajority(S) == 2 * Cardinality(S) > Cardinality(Server)

\* fault: an empty log has no last term
LastTermOfF(l) == IF l = <<>> THEN -1 ELSE l[Len(l)].term
LastTermOf(l) == IF l = <<>> THEN 0 ELSE l[Len(l)].term

\* log.termAt(): the term at index n, 0 before the first entry, -1 (undefined)
\* after the last.
TermAt(l, n) == IF n = 0 THEN 0 ELSE IF n <= Len(l) THEN l[n].term ELSE -1

majorityHasVoted(i) == IsMajority(voted[i])

\* A candidate that no majority has answered yet holds on to its term.
HoldsTerm(i) == PreventSpiral /\ state[i] = FSM_CANDIDATE /\ ~majorityHasVoted(i)

Idle == [j \in Server |-> None]

\* _updateState cancels the RPCs of a candidate and of a leader.
Cancels(i) == state[i] \in {FSM_CANDIDATE, FSM_LEADER}
\* fault: sockets keep their requests through a transition
CancelPendingRpcsF(r, i) == r
CancelPendingRpcs(r, i) == IF Cancels(i) THEN [r EXCEPT ![i] = Idle] ELSE r

\* Requests that were sent and not yet handled may outlive their socket.
Orphans(i, S) ==
  IF StaleRequests
    THEN {[from |-> i, to |-> j, req |-> rpc[i][j].req] :
            j \in {k \in S : rpc[i][k] # None /\ ~rpc[i][k].seen}}
    ELSE {}
CancelledRequests(i) == IF Cancels(i) THEN Orphans(i, Server) ELSE {}

\* A reply reaches the socket only while the request it answers is pending;
\* only the first one is taken.
SendReply(r, i, j, q, a) ==
  IF r[i][j] # None /\ r[i][j].req = q /\ r[i][j].reply = None
    THEN [r EXCEPT ![i][j].reply = a]
    ELSE r

Answer(t, ok) == [term |-> t, ok |-> ok, conflict |-> 0]

\* Requests of type ty from i that j can read: the pending one, handled any
\* number of times when it is resent, and those of sockets that are gone.
Arriving(i, j, ty) ==
  {q \in (IF rpc[i][j] # None THEN {rpc[i][j].req} ELSE {})
         \cup {s.req : s \in {x \in stale : x.from = i /\ x.to = j}} :
     q.type = ty}

-----------------------------------------------------------------------------
(* _updateState: the memory changes at once and a write is queued when the  *)
(* term or the vote differs.  A handler whose new term and vote are already *)
(* in memory does not wait, even if an earlier write of them is under way.  *)

\* fault: a vote alone is not written
UnchangedF(i, t, v) == currentTerm[i] = t
Unchanged(i, t, v) == currentTerm[i] = t /\ votedFor[i] = v

UpdateState(i, st, t, v, then, from, req) ==
  /\ state' = [state EXCEPT ![i] = st]
  /\ currentTerm' = [currentTerm EXCEPT ![i] = t]
  /\ votedFor' = [votedFor EXCEPT ![i] = v]
  /\ writes' = IF Unchanged(i, t, v) THEN writes
               ELSE [writes EXCEPT ![i] = Append(@,
                       [term |-> t, vote |-> v, then |-> then, from |-> from,
                        req |-> req])]

\* The leader's view of its followers: all of them at the same index.
Everyone(n) == [j \in Server |-> n]
FollowersAt(i, next) ==
  /\ matchIndex' = [matchIndex EXCEPT ![i] = Everyone(0)]
  /\ nextIndex' = [nextIndex EXCEPT ![i] = Everyone(next)]

\* The tally is read by candidates only and the followers' progress by leaders
\* only, and both are reset on entering the role: forget them on leaving it.
ForgetRole(i) ==
  /\ FollowersAt(i, 1)
  /\ voted' = [voted EXCEPT ![i] = {}]
  /\ votes' = [votes EXCEPT ![i] = {}]

\* The election timer is re-armed by whoever calls _refreshElectionTimeout,
\* which looks at the state at that moment: a leader's is cleared instead.
RefreshElectionTimeout(i) == armed' = [armed EXCEPT ![i] = state[i] # FSM_LEADER]

LosesLeader(i) == followLeaderId' = [followLeaderId EXCEPT ![i] = None]

PausesRouter(i) == paused' = [paused EXCEPT ![i] = TRUE]
\* fault: the router is never resumed
ResumesRouterF(i) == UNCHANGED paused
ResumesRouter(i) == paused' = [paused EXCEPT ![i] = FALSE]
HoldsRouter(i) == PausesRouter(i) /\ armed' = [armed EXCEPT ![i] = FALSE]

\* The request comes from an earlier term than j's.
\* fault: the term of a request is not looked at
StaleTermF(j, q) == FALSE
StaleTerm(j, q) == q.term < currentTerm[j]

\* An error reported by the peer ends the process; nothing restarts it here.
Fail(i) ==
  /\ state' = [state EXCEPT ![i] = DOWN]
  /\ armed' = [armed EXCEPT ![i] = FALSE]
  /\ PausesRouter(i)
  /\ writes' = [writes EXCEPT ![i] = <<>>]
  /\ pend' = [pend EXCEPT ![i] = <<>>]
  /\ reading' = [reading EXCEPT ![i] = None]
  /\ rpc' = [rpc EXCEPT ![i] = Idle]
  /\ stale' = stale \cup Orphans(i, Server)
  /\ ForgetRole(i)
  /\ UNCHANGED <<log, lastApplied, currentTerm, votedFor, commitIndex,
                 followLeaderId, history, faults>>

\* becomeFollower(): the timer is refreshed before the state changes.
\* r is the state of the sockets at this point of the handler.
BecomeFollower(i, t, r) ==
  /\ LosesLeader(i)
  /\ RefreshElectionTimeout(i)
  /\ UpdateState(i, FSM_FOLLOWER, t, None, "nothing", None, None)
  /\ rpc' = CancelPendingRpcs(r, i)
  /\ stale' = stale \cup CancelledRequests(i)
  /\ ForgetRole(i)
  /\ UNCHANGED <<disk, log, commitIndex, paused, pend, reading, history>>

-----------------------------------------------------------------------------
(* Elections *)

\* onElectionTimeout() up to its write.
ElectionTimeout(i) ==
  /\ armed[i] /\ state[i] # DOWN /\ i \in Electable
  /\ ~HoldsTerm(i)
  /\ currentTerm[i] < MaxTerm
  /\ PausesRouter(i)
  /\ armed' = [armed EXCEPT ![i] = FALSE]
  /\ LosesLeader(i)
  /\ voted' = [voted EXCEPT ![i] = {i}]
  /\ votes' = [votes EXCEPT ![i] = {i}]
  /\ UpdateState(i, FSM_CANDIDATE, currentTerm[i] + 1, i, "election", None, None)
  /\ rpc' = CancelPendingRpcs(rpc, i)
  /\ stale' = stale \cup CancelledRequests(i)
  /\ UNCHANGED <<disk, log, commitIndex, progress, pend, reading, history,
                 faults>>

\* The head of the queue of writes reaches the disk.
WriteEnds(i) ==
  /\ diskTerm' = [diskTerm EXCEPT ![i] = Head(writes[i]).term]
  /\ diskVote' = [diskVote EXCEPT ![i] = Head(writes[i]).vote]

WriteLeavesQueue(i) == writes' = [writes EXCEPT ![i] = Tail(@)]

NothingPersisted(i) ==
  /\ writes[i] # <<>> /\ Head(writes[i]).then = "nothing"
  /\ WriteEnds(i) /\ WriteLeavesQueue(i)
  /\ UNCHANGED <<log, lastApplied, state, currentTerm, votedFor, commitIndex,
                 followLeaderId, timing, tally, progress, pend, reading,
                 network, history, faults>>

\* onElectionTimeout() after its write: it does not look at the state again.
\* A socket refuses a second request while one is pending, which is an error.
ElectionPersisted(i) ==
  /\ writes[i] # <<>> /\ Head(writes[i]).then = "election"
  /\ WriteEnds(i)
  /\ IF \E j \in Server : rpc[i][j] # None THEN Fail(i) ELSE
     LET t == Head(writes[i]).term
         req == [type |-> "vote", term |-> t, lastIndex |-> Len(log[i]),
                 lastTerm |-> LastTermOf(log[i])]
     IN /\ rpc' = [rpc EXCEPT ![i] = [j \in Server |->
                     IF j = i THEN None
                     ELSE [req |-> req, seen |-> FALSE, reply |-> None]]]
        /\ ballots' = ballots \cup {[voter |-> i, term |-> t, cand |-> i]}
        /\ RefreshElectionTimeout(i)
        /\ ResumesRouter(i)
        /\ WriteLeavesQueue(i)
        /\ UNCHANGED <<log, lastApplied, state, currentTerm, votedFor,
                       commitIndex, followLeaderId, tally, progress, pend,
                       reading, stale, elected, faults>>

\* The candidate's log is at least as up to date as j's.
\* fault: any log will do
UpToDateF(j, q) == TRUE
UpToDate(j, q) ==
  \/ q.lastTerm > LastTermOf(log[j])
  \/ q.lastTerm = LastTermOf(log[j]) /\ q.lastIndex >= Len(log[j])

\* fault: an earlier vote in the same term is forgotten
GrantsVoteF(i, j, q) == UpToDate(j, q)
GrantsVote(i, j, q) ==
  /\ votedFor[j] \in {None, i} \/ q.term > currentTerm[j]
  /\ UpToDate(j, q)

Cast(i, j, t) == ballots \cup {[voter |-> j, term |-> t, cand |-> i]}

\* requestVoteHandler() when the request changes nothing at j.
DenyVote(i, j, q) ==
  /\ \/ StaleTerm(j, q)
     \/ HoldsTerm(j)
     \/ q.term = currentTerm[j] /\ ~GrantsVote(i, j, q)
  /\ rpc' = SendReply(rpc, i, j, q, Answer(currentTerm[j], FALSE))
  /\ UNCHANGED <<disk, log, state, currentTerm, votedFor, commitIndex,
                 followLeaderId, timing, tally, progress, writes, pend,
                 reading, stale, history>>

\* requestVoteHandler() when the vote is granted or the term is higher.  The
\* reply waits for the write unless there is none to queue.
TakeTerm(i, j, q) ==
  LET grant == GrantsVote(i, j, q)
      vote  == IF grant THEN i ELSE None
      r     == CancelPendingRpcs(rpc, j)
  IN /\ ~StaleTerm(j, q) /\ ~HoldsTerm(j)
     /\ grant \/ q.term > currentTerm[j]
     /\ VoteResendRace \/ \A n \in 1..Len(writes[j]) :
          ~(writes[j][n].term = q.term /\ writes[j][n].vote = i)
     /\ LosesLeader(j)
     /\ RefreshElectionTimeout(j)
     /\ UpdateState(j, FSM_FOLLOWER, q.term, vote, "vote", i, q)
     /\ IF Unchanged(j, q.term, vote)
          THEN /\ rpc' = SendReply(r, i, j, q, Answer(q.term, grant))
               /\ ballots' = Cast(i, j, q.term)
          ELSE /\ rpc' = r
               /\ UNCHANGED ballots
     /\ stale' = stale \cup CancelledRequests(j)
     /\ ForgetRole(j)
     /\ UNCHANGED <<disk, log, commitIndex, paused, pend, reading, elected>>

VoteRequest(i, j) ==
  /\ ~paused[j] /\ state[j] # DOWN
  /\ \E q \in Arriving(i, j, "vote") : DenyVote(i, j, q) \/ TakeTerm(i, j, q)
  /\ UNCHANGED faults

\* requestVoteHandler() after its write: the reply.
VotePersisted(j) ==
  /\ writes[j] # <<>> /\ Head(writes[j]).then = "vote"
  /\ WriteEnds(j) /\ WriteLeavesQueue(j)
  /\ LET w == Head(writes[j])
         grant == w.vote = w.from
     IN /\ rpc' = SendReply(rpc, w.from, j, w.req, Answer(w.term, grant))
        /\ ballots' = IF grant THEN Cast(w.from, j, w.term) ELSE ballots
  /\ UNCHANGED <<log, lastApplied, state, currentTerm, votedFor, commitIndex,
                 followLeaderId, timing, tally, progress, pend, reading, stale,
                 elected, faults>>

\* Entries of earlier terms wait to be committed.
\* fault: they are left to the next update
NeedsCheckpointF(i) == FALSE
NeedsCheckpoint(i) ==
  LastTermOf(log[i]) # currentTerm[i] /\ commitIndex[i] < Len(log[i])

\* becomeLeader(): an empty AppendEntries to every peer, and the checkpoint.
BecomeLeader(i) ==
  LET req == [type |-> "append", term |-> currentTerm[i], prev |-> Len(log[i]),
              prevTerm |-> LastTermOf(log[i]), commit |-> commitIndex[i],
              entries |-> <<>>]
  IN /\ state' = [state EXCEPT ![i] = FSM_LEADER]
     /\ armed' = [armed EXCEPT ![i] = FALSE]
     /\ LosesLeader(i)
     /\ voted' = [voted EXCEPT ![i] = {}]
     /\ votes' = [votes EXCEPT ![i] = {}]
     /\ FollowersAt(i, Len(log[i]) + 1)
     /\ rpc' = [rpc EXCEPT ![i] = [j \in Server |->
                  IF j = i THEN None
                  ELSE [req |-> req, seen |-> FALSE, reply |-> None]]]
     /\ pend' = IF NeedsCheckpoint(i)
                THEN [pend EXCEPT ![i] = Append(@, [term |-> currentTerm[i],
                                                    val |-> Checkpoint])]
                ELSE pend
     /\ elected' = elected \cup {[leader |-> i, term |-> currentTerm[i]]}
     /\ UNCHANGED <<disk, log, currentTerm, votedFor, commitIndex, paused,
                    writes, reading, ballots>>

\* Resends of an answered RequestVote are not debounced.
LateResends(i, j) ==
  IF StaleRequests THEN {[from |-> i, to |-> j, req |-> rpc[i][j].req]} ELSE {}

\* onVoteResponse()
VoteResponse(i, j) ==
  /\ state[i] # DOWN
  /\ rpc[i][j] # None /\ rpc[i][j].req.type = "vote" /\ rpc[i][j].reply # None
  /\ LET a == rpc[i][j].reply
         higher == a.term > currentTerm[i]
         counts == state[i] = FSM_CANDIDATE
                   /\ (higher \/ rpc[i][j].req.term = currentTerm[i])
         nvoted == voted[i] \cup (IF counts THEN {j} ELSE {})
         nvotes == votes[i] \cup
                     (IF counts /\ ~higher /\ a.ok /\ j \notin voted[i]
                      THEN {j} ELSE {})
         holds == PreventSpiral /\ counts /\ ~IsMajority(nvoted)
         answered == [rpc EXCEPT ![i][j] = None]
     IN \/ /\ higher /\ ~holds
           /\ BecomeFollower(i, a.term, answered)
        \/ /\ ~higher /\ counts /\ IsMajority(nvotes)
           /\ BecomeLeader(i)
           /\ stale' = stale \cup Orphans(i, Peers(i) \ {j}) \cup LateResends(i, j)
        \/ /\ higher => holds
           /\ ~(~higher /\ counts /\ IsMajority(nvotes))
           /\ voted' = [voted EXCEPT ![i] = nvoted]
           /\ votes' = [votes EXCEPT ![i] = nvotes]
           /\ rpc' = answered
           /\ stale' = stale \cup LateResends(i, j)
           /\ UNCHANGED <<disk, log, state, currentTerm, votedFor, commitIndex,
                          followLeaderId, timing, progress, writes, pend,
                          reading, history>>
  /\ UNCHANGED faults

-----------------------------------------------------------------------------
(* Replication *)

\* An AppendEntries request is debounced: handled once per connection.
Unseen(i, j, q) == rpc[i][j] # None /\ rpc[i][j].req = q /\ ~rpc[i][j].seen

ArrivingAppends(i, j) ==
  {q \in Arriving(i, j, "append") :
     Unseen(i, j, q) \/ [from |-> i, to |-> j, req |-> q] \in stale}

\* fault: requests are not debounced
MarkSeenF(i, j, q) == rpc
MarkSeen(i, j, q) ==
  IF Unseen(i, j, q) THEN [rpc EXCEPT ![i][j].seen = TRUE] ELSE rpc

StillTravelling(i, j, q) ==
  IF Unseen(i, j, q) THEN stale ELSE stale \ {[from |-> i, to |-> j, req |-> q]}

\* The follower has the entry before those the leader sends.
\* fault: it has some entry there
PrevMatchesF(l, q) == q.prev <= Len(l)
PrevMatches(l, q) == q.prev <= Len(l) /\ TermAt(l, q.prev) = q.prevTerm

\* The end of appendEntryHandler(): log.appendEntries truncates after the
\* previous index whatever it appends, and comes after the peer's own pending
\* appends.  r: the sockets at this point of the handler.
FinishAppend(j, i, q, t, ok, r) ==
  LET kept == SubSeq(log[j] \o pend[j], 1, q.prev)
      nlog == IF ok THEN kept \o q.entries ELSE log[j]
      conflict == IF ~ok /\ Len(log[j]) < q.prev THEN Len(log[j]) + 1 ELSE 0
  IN /\ log' = [log EXCEPT ![j] = nlog]
     /\ pend' = IF ok THEN [pend EXCEPT ![j] = <<>>] ELSE pend
     /\ commitIndex' = IF ok /\ q.commit > commitIndex[j]
                       THEN [commitIndex EXCEPT ![j] = Smaller(q.commit, Len(nlog))]
                       ELSE commitIndex
     /\ rpc' = SendReply(r, i, j, q,
                         [term |-> t, ok |-> ok, conflict |-> conflict])
     /\ ResumesRouter(j)

\* appendEntryHandler() once the term at the previous index is known; t and v
\* are the term and vote it captured when it was called.  The handler begins by
\* holding the router and the timer, and does so once.
TermIsRead(j, i, q, t, v, r, begins) ==
  LET ok == PrevMatches(log[j], q)
      cancelled == CancelPendingRpcs(r, j)
  IN /\ UpdateState(j, FSM_FOLLOWER, t, v, IF ok THEN "append" ELSE "refuse", i, q)
     /\ IF Unchanged(j, t, v)
          THEN /\ FinishAppend(j, i, q, t, ok, cancelled)
               /\ armed' = [armed EXCEPT ![j] = TRUE]
          ELSE /\ rpc' = cancelled
               /\ IF begins THEN HoldsRouter(j) ELSE UNCHANGED timing
               /\ UNCHANGED <<log, pend, commitIndex>>
     /\ ForgetRole(j)

\* appendEntryHandler() for a leader of an earlier term.
RefuseAppend(i, j) ==
  /\ ~paused[j] /\ state[j] # DOWN
  /\ \E q \in ArrivingAppends(i, j) :
       /\ StaleTerm(j, q)
       /\ rpc' = SendReply(MarkSeen(i, j, q), i, j, q,
                           Answer(currentTerm[j], FALSE))
       /\ stale' = StillTravelling(i, j, q)
  /\ UNCHANGED <<disk, log, state, currentTerm, votedFor, commitIndex,
                 followLeaderId, timing, tally, progress, writes, pend,
                 reading, history, faults>>

CapturedVote(j, q) == IF q.term > currentTerm[j] THEN None ELSE votedFor[j]

\* Nothing is left to write of what the handler finds in memory, or it queues a
\* write of its own.
NoAppendRace(j, q) ==
  AppendRace \/ q.term > currentTerm[j] \/ writes[j] = <<>>

\* A peer refuses to truncate its log before the commit index.
CowardlyRefuses(j, q) == q.prev < commitIndex[j]

\* appendEntryHandler(), when nothing overtakes the read of the term at the
\* previous index (the read takes no time when that entry is the last one or
\* is not in the log).
AppendRequest(i, j) ==
  /\ ~paused[j] /\ state[j] # DOWN
  /\ \E q \in ArrivingAppends(i, j) :
       /\ ~StaleTerm(j, q)
       /\ ~CowardlyRefuses(j, q)
       /\ NoAppendRace(j, q)
       /\ followLeaderId' = [followLeaderId EXCEPT ![j] = i]
       /\ TermIsRead(j, i, q, q.term, CapturedVote(j, q), MarkSeen(i, j, q), TRUE)
       /\ stale' = StillTravelling(i, j, q) \cup CancelledRequests(j)
  /\ UNCHANGED <<disk, reading, history, faults>>

AppendRequestFails(i, j) ==
  /\ ~paused[j] /\ state[j] # DOWN
  /\ \E q \in ArrivingAppends(i, j) :
       ~StaleTerm(j, q) /\ CowardlyRefuses(j, q)
  /\ Fail(j)
  /\ UNCHANGED <<diskTerm, diskVote>>

\* appendEntryHandler(), when it waits for the log file.  Bound: for one request.
BeginRead(i, j) ==
  /\ ReadOvertaken /\ reading[j] = None
  /\ ~paused[j] /\ state[j] # DOWN
  /\ \E q \in ArrivingAppends(i, j) :
       /\ ~StaleTerm(j, q)
       /\ NoAppendRace(j, q)
       /\ 0 < q.prev /\ q.prev < Len(log[j])
       /\ followLeaderId' = [followLeaderId EXCEPT ![j] = i]
       /\ reading' = [reading EXCEPT ![j] =
            [from |-> i, req |-> q, term |-> q.term, vote |-> CapturedVote(j, q)]]
       /\ rpc' = MarkSeen(i, j, q)
       /\ stale' = StillTravelling(i, j, q)
  /\ HoldsRouter(j)
  /\ UNCHANGED <<disk, log, state, currentTerm, votedFor, commitIndex, tally,
                 progress, writes, pend, history, faults>>

EndRead(j) ==
  /\ reading[j] # None
  /\ LET h == reading[j]
     IN IF CowardlyRefuses(j, h.req)
        THEN Fail(j) /\ UNCHANGED <<diskTerm, diskVote>>
        ELSE /\ TermIsRead(j, h.from, h.req, h.term, h.vote, rpc, FALSE)
             /\ reading' = [reading EXCEPT ![j] = None]
             /\ stale' = stale \cup CancelledRequests(j)
             /\ UNCHANGED <<disk, followLeaderId, history, faults>>

\* appendEntryHandler() after its write.  The log refuses to truncate after an
\* index it does not have, which is an error.
AppendPersisted(j) ==
  /\ writes[j] # <<>> /\ Head(writes[j]).then \in {"append", "refuse"}
  /\ WriteEnds(j)
  /\ LET w == Head(writes[j])
     IN IF w.then = "append" => w.req.prev <= Len(log[j]) + Len(pend[j])
        THEN /\ FinishAppend(j, w.from, w.req, w.term, w.then = "append", rpc)
             /\ WriteLeavesQueue(j)
             /\ RefreshElectionTimeout(j)
             /\ UNCHANGED <<lastApplied, state, currentTerm, votedFor,
                            followLeaderId, tally, progress, reading, stale,
                            history, faults>>
        ELSE Fail(j)

\* sendAppendEntries(): a heartbeat when the follower has everything, else as
\* many entries as fit the message.
SendAppend(i, j) ==
  /\ state[i] = FSM_LEADER /\ i # j /\ rpc[i][j] = None
  /\ nextIndex[i][j] >= 1
  /\ LET prev == nextIndex[i][j] - 1
         available == Len(log[i]) - prev
     IN \E n \in (IF available > 0 THEN 1..available ELSE {0}) :
          rpc' = [rpc EXCEPT ![i][j] =
            [req |-> [type |-> "append", term |-> currentTerm[i], prev |-> prev,
                      prevTerm |-> TermAt(log[i], prev),
                      commit |-> commitIndex[i],
                      entries |-> SubSeq(log[i], prev + 1, prev + n)],
             seen |-> FALSE, reply |-> None]]
  /\ UNCHANGED <<disk, log, state, currentTerm, votedFor, commitIndex,
                 followLeaderId, timing, tally, progress, writes, pend,
                 reading, stale, history, faults>>

SentLastIndex(q) == q.prev + Len(q.entries)
SentLastTerm(q) == IF q.entries = <<>> THEN q.prevTerm ELSE LastTermOf(q.entries)

\* A majority stores what was sent, and its last entry is of this term.
\* fault: of any term
CommitsF(i, q, stored) == SentLastIndex(q) > commitIndex[i] /\ IsMajority(stored)
Commits(i, q, stored) ==
  /\ SentLastTerm(q) = currentTerm[i]
  /\ SentLastIndex(q) > commitIndex[i]
  /\ IsMajority(stored)

\* onAppendEntriesResponse()
AppendResponse(i, j) ==
  /\ state[i] # DOWN
  /\ rpc[i][j] # None /\ rpc[i][j].req.type = "append" /\ rpc[i][j].reply # None
  /\ LET a == rpc[i][j].reply
         q == rpc[i][j].req
         last == SentLastIndex(q)
         answered == [rpc EXCEPT ![i][j] = None]
         current == currentTerm[i] = q.term /\ state[i] = FSM_LEADER
         match == [matchIndex EXCEPT ![i][j] = last]
         stored == {i} \cup {k \in Peers(i) : match[i][k] >= last}
         back == IF a.conflict # 0 /\ a.conflict < q.prev THEN a.conflict ELSE q.prev
     IN \/ /\ a.term > currentTerm[i]
           /\ BecomeFollower(i, a.term, answered)
        \/ /\ a.term <= currentTerm[i] /\ current /\ a.ok
           /\ matchIndex' = match
           /\ nextIndex' = [nextIndex EXCEPT ![i][j] = last + 1]
           /\ commitIndex' =
                IF Commits(i, q, stored)
                THEN [commitIndex EXCEPT ![i] = last] ELSE commitIndex
           /\ rpc' = answered
           /\ UNCHANGED <<disk, log, state, currentTerm, votedFor,
                          followLeaderId, timing, tally, writes, pend, reading,
                          stale, history>>
        \/ /\ a.term <= currentTerm[i] /\ ~(current /\ a.ok)
           /\ nextIndex' = IF current THEN [nextIndex EXCEPT ![i][j] = back]
                           ELSE nextIndex
           /\ rpc' = answered
           /\ UNCHANGED <<disk, log, state, currentTerm, votedFor, commitIndex,
                          followLeaderId, timing, tally, matchIndex, writes,
                          pend, reading, stale, history>>
  /\ UNCHANGED faults

-----------------------------------------------------------------------------
(* The leader's own log, the state machine, and the environment *)

\* requestUpdateHandler() passes the update to log.appendState().
ClientUpdate(i, v) ==
  /\ state[i] = FSM_LEADER /\ ~paused[i]
  /\ Len(log[i]) + Len(pend[i]) < MaxLog
  /\ pend' = [pend EXCEPT ![i] =
                Append(@, [term |-> currentTerm[i], val |-> v])]
  /\ UNCHANGED <<disk, log, state, currentTerm, votedFor, commitIndex,
                 followLeaderId, timing, tally, progress, writes, reading,
                 network, history, faults>>

\* The log writes what has been passed to it, in one batch.
Flush(i) ==
  /\ pend[i] # <<>>
  /\ log' = [log EXCEPT ![i] = @ \o pend[i]]
  /\ pend' = [pend EXCEPT ![i] = <<>>]
  /\ UNCHANGED <<disk, state, currentTerm, votedFor, commitIndex,
                 followLeaderId, timing, tally, progress, writes, reading,
                 network, history, faults>>

\* _applyToStateMachine(); the state machine stores its last applied index.
Apply(i) ==
  /\ state[i] # DOWN /\ lastApplied[i] < commitIndex[i]
  /\ lastApplied' = [lastApplied EXCEPT ![i] = commitIndex[i]]
  /\ UNCHANGED <<diskTerm, diskVote, log, state, currentTerm, votedFor,
                 commitIndex, followLeaderId, timing, tally, progress, writes,
                 pend, reading, network, history, faults>>

\* The connection of i's socket to j breaks and is made again: the request is
\* resent under a new identity, and the answer to the old one is lost.
ConnectionLost(i, j) ==
  /\ losses < MaxLosses /\ crashes + losses < MaxFaults
  /\ rpc[i][j] # None /\ (rpc[i][j].seen \/ rpc[i][j].reply # None)
  /\ rpc' = [rpc EXCEPT ![i][j].seen = FALSE, ![i][j].reply = None]
  /\ losses' = losses + 1
  /\ UNCHANGED <<disk, log, state, currentTerm, votedFor, commitIndex,
                 followLeaderId, timing, tally, progress, writes, pend,
                 reading, stale, history, crashes>>

\* fault: everything in the log is taken for committed
RestartCommitF(i) == Len(log[i])
RestartCommit(i) == lastApplied[i]

\* The process ends and starts again from its files.  The write under way and
\* any prefix of the batch under way may have reached them.  The builder raises
\* the term to that of the last log entry and leaves the vote as it is.
Crash(i) ==
  /\ crashes < MaxCrashes /\ crashes + losses < MaxFaults /\ state[i] # DOWN
  /\ crashes' = crashes + 1
  /\ \E k \in 0..Len(pend[i]) :
       log' = [log EXCEPT ![i] = @ \o SubSeq(pend[i], 1, k)]
  /\ \E w \in {[term |-> diskTerm[i], vote |-> diskVote[i]]} \cup
              (IF writes[i] = <<>> THEN {}
               ELSE {[term |-> Head(writes[i]).term, vote |-> Head(writes[i]).vote]}) :
       LET t == Larger(w.term, LastTermOf(log'[i]))
       IN /\ diskTerm' = [diskTerm EXCEPT ![i] = t]
          /\ currentTerm' = [currentTerm EXCEPT ![i] = t]
          /\ diskVote' = [diskVote EXCEPT ![i] = w.vote]
          /\ votedFor' = [votedFor EXCEPT ![i] = w.vote]
  /\ state' = [state EXCEPT ![i] = FSM_FOLLOWER]
  /\ commitIndex' = [commitIndex EXCEPT ![i] = RestartCommit(i)]
  /\ LosesLeader(i)
  /\ armed' = [armed EXCEPT ![i] = TRUE]
  /\ ResumesRouter(i)
  /\ writes' = [writes EXCEPT ![i] = <<>>]
  /\ pend' = [pend EXCEPT ![i] = <<>>]
  /\ reading' = [reading EXCEPT ![i] = None]
  /\ ForgetRole(i)
  /\ stale' = stale \cup Orphans(i, Server)
  /\ rpc' = [k \in Server |-> IF k = i THEN Idle ELSE
               IF rpc[k][i] # None /\ rpc[k][i].reply = None
               THEN [rpc[k] EXCEPT ![i].seen = FALSE] ELSE rpc[k]]
  /\ UNCHANGED <<lastApplied, history, losses>>

-----------------------------------------------------------------------------
\* The peers have just been started from these files.
Started(terms, ballot, logs) ==
  /\ diskTerm = terms
  /\ diskVote = ballot
  /\ log = logs
  /\ lastApplied = [i \in Server |-> 0]
  /\ state = [i \in Server |-> FSM_FOLLOWER]
  /\ currentTerm = terms
  /\ votedFor = ballot
  /\ commitIndex = [i \in Server |-> 0]
  /\ followLeaderId = [i \in Server |-> None]
  /\ armed = [i \in Server |-> TRUE]
  /\ paused = [i \in Server |-> FALSE]
  /\ voted = [i \in Server |-> {}]
  /\ votes = [i \in Server |-> {}]
  /\ matchIndex = [i \in Server |-> Everyone(0)]
  /\ nextIndex = [i \in Server |-> Everyone(1)]
  /\ writes = [i \in Server |-> <<>>]
  /\ pend = [i \in Server |-> <<>>]
  /\ reading = [i \in Server |-> None]
  /\ rpc = [i \in Server |-> Idle]
  /\ stale = {}
  /\ ballots = {}
  /\ elected = {}
  /\ crashes = 0
  /\ losses = 0

Init == Started([i \in Server |-> 0], [i \in Server |-> None],
                [i \in Server |-> <<>>])

Next ==
  \/ \E i \in Server :
       \/ ElectionTimeout(i)
       \/ NothingPersisted(i)
       \/ ElectionPersisted(i)
       \/ VotePersisted(i)
       \/ AppendPersisted(i)
       \/ EndRead(i)
       \/ Flush(i)
       \/ Apply(i)
       \/ Crash(i)
       \/ \E v \in Value : ClientUpdate(i, v)
  \/ \E i, j \in Server :
       \/ VoteRequest(i, j)
       \/ VoteResponse(i, j)
       \/ RefuseAppend(i, j)
       \/ AppendRequest(i, j)
       \/ AppendRequestFails(i, j)
       \/ BeginRead(i, j)
       \/ SendAppend(i, j)
       \/ AppendResponse(i, j)
       \/ ConnectionLost(i, j)

Spec == Init /\ [][Next]_vars

-----------------------------------------------------------------------------
(* Type invariant *)

ReadingHandler == [from: Server, req: AppendRequestMsg, term: Nat,
                   vote: Server \cup {None}]

\* The state of the peers, their sockets and the requests between them.
TypeOK ==
  /\ diskTerm \in [Server -> Nat]
  /\ diskVote \in [Server -> Server \cup {None}]
  /\ log \in [Server -> Seq(Entry)]
  /\ lastApplied \in [Server -> Nat]
  /\ state \in [Server -> {FSM_FOLLOWER, FSM_CANDIDATE, FSM_LEADER, DOWN}]
  /\ currentTerm \in [Server -> Nat]
  /\ votedFor \in [Server -> Server \cup {None}]
  /\ commitIndex \in [Server -> Nat]
  /\ followLeaderId \in [Server -> Server \cup {None}]
  /\ armed \in [Server -> BOOLEAN]
  /\ paused \in [Server -> BOOLEAN]
  /\ voted \in [Server -> SUBSET Server]
  /\ votes \in [Server -> SUBSET Server]
  /\ nextIndex \in [Server -> [Server -> Nat]]
  /\ matchIndex \in [Server -> [Server -> Nat]]
  /\ writes \in [Server -> Seq(Write)]
  /\ pend \in [Server -> Seq(Entry)]
  /\ reading \in [Server -> ReadingHandler \cup {None}]
  /\ rpc \in [Server -> [Server -> Call \cup {None}]]
  /\ stale \subseteq [from: Server, to: Server, req: Request]
  /\ ballots \subseteq [voter: Server, term: Nat, cand: Server]
  /\ elected \subseteq [leader: Server, term: Nat]
  /\ crashes \in Nat
  /\ losses \in Nat

-----------------------------------------------------------------------------
(* Safety *)

\* A term has one leader (raft.js _updateState, raft_leader.js becomeLeader),
\* whatever restarts, resends and stale requests there are.
ElectionSafety ==
  \A e, f \in elected : e.term = f.term => e.leader = f.leader

\* A peer casts one vote in a term, across restarts: a reply that grants is
\* only sent once the vote is on disk (requestVoteHandler, _updateState).
OneBallotPerTerm ==
  \A b, c \in ballots :
    b.voter = c.voter /\ b.term = c.term => b.cand = c.cand

\* Logs that agree on the term of an entry agree up to it (appendEntryHandler:
\* the check of the previous entry, the truncation that follows).
LogMatching ==
  \A i, j \in Server : \A n \in 1..Smaller(Len(log[i]), Len(log[j])) :
    log[i][n].term = log[j][n].term => SubSeq(log[i], 1, n) = SubSeq(log[j], 1, n)

Committed(i) == SubSeq(log[i], 1, commitIndex[i])

IsPrefixOf(s, l) == Len(s) <= Len(l) /\ SubSeq(l, 1, Len(s)) = s

\* A leader has in its log what any peer of its term or an earlier one knows to
\* be committed (the vote's log check, the commit rule of
\* onAppendEntriesResponse).
LeaderCompleteness ==
  \A i, l \in Server :
    state[l] = FSM_LEADER /\ currentTerm[l] >= currentTerm[i]
      => IsPrefixOf(Committed(i), log[l])

\* Peers commit the same entries, so their state machines apply the same
\* updates (commitIndex, _applyToStateMachine).
StateMachineSafety ==
  \A i, j \in Server :
    \/ IsPrefixOf(Committed(i), Committed(j))
    \/ IsPrefixOf(Committed(j), Committed(i))

\* What a peer has pending on its sockets belongs to its present role and term,
\* so a reply cannot be taken for the answer to another question
\* (_cancelPendingRpcs in every transition).
PendingRpcMatchesRole ==
  \A i, j \in Server :
    rpc[i][j] # None =>
      /\ rpc[i][j].req.term = currentTerm[i]
      /\ state[i] = IF rpc[i][j].req.type = "vote" THEN FSM_CANDIDATE
                    ELSE FSM_LEADER

\* No peer ends on an error: a correct leader never asks a follower to truncate
\* what it knows to be committed, and no socket is asked twice.
NoPanic == \A i \in Server : state[i] # DOWN

\* ... as long as no connection breaks: a follower that knows a request by its
\* connection (bounceDuplicateRequestCache) handles each one once, whoever
\* restarts meanwhile.
PanicNeedsReconnect == losses = 0 => NoPanic

\* A peer that is not a leader and has no handler under way waits for an
\* election timeout (RAFT.md: "after an election timeout it becomes a
\* candidate").
FollowersWaitForElection ==
  \A i \in Server :
    state[i] \in {FSM_FOLLOWER, FSM_CANDIDATE} /\ ~paused[i] => armed[i]

-----------------------------------------------------------------------------
(* Action properties *)

\* A running peer's term does not go back.  This is not so when an AppendEntries
\* handler is overtaken: it assigns the term it has captured before it read the
\* log (raft_router.js:226, 267).
TermNeverRegresses ==
  [][\A i \in Server : currentTerm'[i] >= currentTerm[i] \/ crashes' # crashes]_vars

-----------------------------------------------------------------------------
(* Refinement *)

\* The entries the state machine of i has been fed.
Applied(i) == SubSeq(log[i], 1, lastApplied[i])

SM == INSTANCE StateMachines
        WITH Peer <- Server, applied <- [i \in Server |-> Applied(i)]

\* The peers feed their state machines the same updates in the same order, and
\* never one that could be replaced later (_applyToStateMachine).
FeedsStateMachines == SM!Spec

-----------------------------------------------------------------------------
(* Liveness *)

\* Disk writes, file reads, deliveries and replies happen eventually: sockets
\* resend until they are answered.  Timeouts, updates and faults need not.
Fairness ==
  /\ \A i \in Server :
       /\ WF_vars(NothingPersisted(i)) /\ WF_vars(ElectionPersisted(i))
       /\ WF_vars(VotePersisted(i)) /\ WF_vars(AppendPersisted(i))
       /\ WF_vars(EndRead(i)) /\ WF_vars(Flush(i)) /\ WF_vars(Apply(i))
  /\ \A i, j \in Server :
       /\ WF_vars(VoteRequest(i, j)) /\ WF_vars(VoteResponse(i, j))
       /\ WF_vars(RefuseAppend(i, j)) /\ WF_vars(AppendRequest(i, j))
       /\ WF_vars(SendAppend(i, j)) /\ WF_vars(AppendResponse(i, j))

FairSpec == Spec /\ Fairness

\* A paused router is resumed (every handler that pauses it).
PausedIsResumed == \A i \in Server : paused[i] ~> ~paused[i]

\* A leader that stays commits and applies every entry of its log, those of
\* earlier terms with a checkpoint (becomeLeader).
LeaderCommitsItsLog ==
  \A i \in Server : \A n \in 1..(MaxLog + MaxTerm) :
    (state[i] = FSM_LEADER /\ Len(log[i]) >= n) ~>
      (lastApplied[i] >= n \/ state[i] # FSM_LEADER)
=============================================================================
