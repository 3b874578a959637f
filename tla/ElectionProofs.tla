--------------------------- MODULE ElectionProofs ---------------------------
(***************************************************************************)
(* Type correctness of ZmqRaft in every cluster; and its elections are     *)
(* safe in every cluster in which no AppendEntries handler is overtaken    *)
(* and no vote is asked for again while it is being written: ElectionInv   *)
(* is inductive.                                                           *)
(***************************************************************************)
EXTENDS ElectionInvariant, FiniteSetTheorems, SequenceTheorems, TLAPS

RpcType == [Server -> [Server -> Call \cup {None}]]
StaleType == SUBSET [from: Server, to: Server, req: Request]
StateType == {FSM_FOLLOWER, FSM_CANDIDATE, FSM_LEADER, DOWN}
Option == Server \cup {None}

-----------------------------------------------------------------------------
(* The helpers keep the types. *)

\* The queue of writes: Append and Tail.
LEMMA QueueType ==
  ASSUME NEW S, NEW s \in Seq(S)
  PROVE  /\ \A e \in S : Append(s, e) \in Seq(S)
         /\ s # <<>> => Head(s) \in S /\ Tail(s) \in Seq(S)
  OBVIOUS

\* The last term and the term at an index of a log (LastTermOf, TermAt).
LEMMA TermType ==
  ASSUME NEW l \in Seq(Entry)
  PROVE  /\ LastTermOf(l) \in Nat
         /\ \A n \in Nat : TermAt(l, n) \in Int
<1>1. LastTermOf(l) \in Nat
  <2>1. CASE l = <<>>  BY <2>1 DEF LastTermOf
  <2>2. CASE l # <<>>
    <3>1. Len(l) \in 1..Len(l)  BY <2>2
    <3>2. l[Len(l)] \in Entry  BY <3>1
    <3> QED  BY <2>2, <3>2 DEF LastTermOf, Entry
  <2> QED  BY <2>1, <2>2
<1>2. ASSUME NEW n \in Nat  PROVE TermAt(l, n) \in Int
  <2>1. CASE n = 0  BY <2>1 DEF TermAt
  <2>2. CASE n # 0 /\ n <= Len(l)
    <3>1. l[n] \in Entry  BY <2>2
    <3> QED  BY <2>2, <3>1 DEF TermAt, Entry
  <2>3. CASE n # 0 /\ ~(n <= Len(l))  BY <2>3 DEF TermAt
  <2> QED  BY <2>1, <2>2, <2>3
<1> QED  BY <1>1, <1>2

\* Sockets after a reply was sent, requests were cancelled or one was handled.
LEMMA SendReplyType ==
  ASSUME NEW r \in RpcType, NEW i \in Server, NEW j \in Server, NEW q,
         NEW a \in Reply
  PROVE  SendReply(r, i, j, q, a) \in RpcType
<1>1. CASE r[i][j] # None /\ r[i][j].req = q /\ r[i][j].reply = None
  <2>1. r[i] \in [Server -> Call \cup {None}] /\ r[i][j] \in Call
    BY <1>1 DEF RpcType
  <2>2. [r[i][j] EXCEPT !.reply = a] \in Call  BY <2>1 DEF Call
  <2>3. [r[i] EXCEPT ![j].reply = a] \in [Server -> Call \cup {None}]
    BY <2>1, <2>2
  <2> QED  BY <1>1, <2>3 DEF SendReply, RpcType
<1>2. CASE ~(r[i][j] # None /\ r[i][j].req = q /\ r[i][j].reply = None)
  BY <1>2 DEF SendReply
<1> QED  BY <1>1, <1>2

LEMMA CancelType ==
  ASSUME NEW r \in RpcType, NEW i
  PROVE  CancelPendingRpcs(r, i) \in RpcType
  BY DEF RpcType, CancelPendingRpcs, Idle

LEMMA MarkSeenType ==
  ASSUME rpc \in RpcType, NEW i \in Server, NEW j \in Server, NEW q
  PROVE  MarkSeen(i, j, q) \in RpcType
<1>1. CASE Unseen(i, j, q)
  <2>1. rpc[i] \in [Server -> Call \cup {None}] /\ rpc[i][j] \in Call
    BY <1>1 DEF RpcType, Unseen
  <2>2. [rpc[i][j] EXCEPT !.seen = TRUE] \in Call  BY <2>1 DEF Call
  <2>3. [rpc[i] EXCEPT ![j].seen = TRUE] \in [Server -> Call \cup {None}]
    BY <2>1, <2>2
  <2> QED  BY <1>1, <2>3 DEF MarkSeen, RpcType
<1>2. CASE ~Unseen(i, j, q)
  BY <1>2 DEF MarkSeen
<1> QED  BY <1>1, <1>2

\* Requests left behind by a socket.
LEMMA OrphansType ==
  ASSUME rpc \in RpcType, NEW i \in Server, NEW S \in SUBSET Server
  PROVE  Orphans(i, S) \in StaleType
<1>1. ASSUME NEW j \in S, rpc[i][j] # None
      PROVE  rpc[i][j].req \in Request
  <2>1. rpc[i] \in [Server -> Call \cup {None}]  BY DEF RpcType
  <2>2. rpc[i][j] \in Call  BY <1>1, <2>1
  <2> QED  BY <2>2 DEF Call
<1> QED  BY <1>1 DEF Orphans, StaleType

LEMMA CancelledType ==
  ASSUME rpc \in RpcType, NEW i \in Server
  PROVE  CancelledRequests(i) \in StaleType
  BY OrphansType DEF CancelledRequests, StaleType

\* Requests that arrive.
LEMMA ArrivingType ==
  ASSUME TypeOK, NEW i \in Server, NEW j \in Server
  PROVE  /\ Arriving(i, j, "vote") \subseteq VoteRequestMsg
         /\ ArrivingAppends(i, j) \subseteq AppendRequestMsg
<1>1. ASSUME NEW ty, NEW q \in Arriving(i, j, ty)
      PROVE  q \in Request /\ q.type = ty
  <2>1. q.type = ty  BY <1>1 DEF Arriving
  <2>2. CASE rpc[i][j] # None /\ q = rpc[i][j].req
    <3>1. rpc[i] \in [Server -> Call \cup {None}]  BY DEF TypeOK
    <3>2. rpc[i][j] \in Call  BY <2>2, <3>1
    <3> QED  BY <2>1, <2>2, <3>2 DEF Call
  <2>3. CASE \E x \in stale : q = x.req
    BY <2>1, <2>3 DEF TypeOK
  <2> QED  BY <1>1, <2>2, <2>3 DEF Arriving
<1>2. Arriving(i, j, "vote") \subseteq VoteRequestMsg
  BY <1>1 DEF Request, VoteRequestMsg, AppendRequestMsg
<1>3. ArrivingAppends(i, j) \subseteq Arriving(i, j, "append")
  BY DEF ArrivingAppends
<1>4. Arriving(i, j, "append") \subseteq AppendRequestMsg
  BY <1>1 DEF Request, VoteRequestMsg, AppendRequestMsg
<1> QED  BY <1>2, <1>3, <1>4

\* A transition of the memory and its write (_updateState).
LEMMA UpdateStateType ==
  ASSUME TypeOK, NEW i \in Server, NEW st \in StateType, NEW t \in Nat,
         NEW v \in Option, NEW then, NEW from, NEW req,
         [term |-> t, vote |-> v, then |-> then, from |-> from, req |-> req]
           \in Write,
         UpdateState(i, st, t, v, then, from, req)
  PROVE  /\ state' \in [Server -> StateType]
         /\ currentTerm' \in [Server -> Nat]
         /\ votedFor' \in [Server -> Option]
         /\ writes' \in [Server -> Seq(Write)]
<1> DEFINE w == [term |-> t, vote |-> v, then |-> then, from |-> from, req |-> req]
<1>1. state' \in [Server -> StateType]  BY DEF TypeOK, StateType, UpdateState
<1>2. currentTerm' \in [Server -> Nat]  BY DEF TypeOK, UpdateState
<1>3. votedFor' \in [Server -> Option]  BY DEF TypeOK, Option, UpdateState
<1>4. writes' \in [Server -> Seq(Write)]
  <2>1. writes[i] \in Seq(Write)  BY DEF TypeOK
  <2>2. w \in Write  OBVIOUS
  <2> HIDE DEF w
  <2>3. Append(writes[i], w) \in Seq(Write)  BY <2>1, <2>2, QueueType
  <2>4. \/ writes' = writes
        \/ writes' = [writes EXCEPT ![i] = Append(writes[i], w)]
    BY DEF UpdateState, w
  <2> QED  BY <2>3, <2>4 DEF TypeOK
<1> QED  BY <1>1, <1>2, <1>3, <1>4

\* What is forgotten on leaving a role.
LEMMA ForgetRoleType ==
  ASSUME TypeOK, NEW i \in Server, ForgetRole(i)
  PROVE  /\ voted' \in [Server -> SUBSET Server]
         /\ votes' \in [Server -> SUBSET Server]
         /\ nextIndex' \in [Server -> [Server -> Nat]]
         /\ matchIndex' \in [Server -> [Server -> Nat]]
  BY DEF TypeOK, ForgetRole, FollowersAt, Everyone

\* The end of a process.
LEMMA FailType ==
  ASSUME TypeOK, NEW i \in Server, Fail(i),
         diskTerm' \in [Server -> Nat], diskVote' \in [Server -> Option]
  PROVE  TypeOK'
<1>1. rpc' \in RpcType  BY DEF TypeOK, Fail, RpcType, Idle
<1>2. stale' \in StaleType
  BY OrphansType DEF TypeOK, Fail, RpcType, StaleType
<1>3. /\ writes' \in [Server -> Seq(Write)]
      /\ pend' \in [Server -> Seq(Entry)]
      /\ reading' \in [Server -> ReadingHandler \cup {None}]
  BY DEF TypeOK, Fail
<1>4. /\ state' \in [Server -> StateType]
      /\ armed' \in [Server -> BOOLEAN]
      /\ paused' \in [Server -> BOOLEAN]
  BY DEF TypeOK, Fail, PausesRouter, StateType
<1>5. UNCHANGED <<log, lastApplied, currentTerm, votedFor, commitIndex,
                  followLeaderId, ballots, elected, crashes, losses>>
  BY DEF Fail, history, faults
<1>6. ForgetRole(i)  BY DEF Fail
<1> QED
  BY <1>1, <1>2, <1>3, <1>4, <1>5, <1>6, ForgetRoleType
  DEF TypeOK, RpcType, StaleType, StateType, Option

\* A step down to a follower of term t.
LEMMA BecomeFollowerType ==
  ASSUME TypeOK, NEW i \in Server, NEW t \in Nat, NEW r \in RpcType,
         BecomeFollower(i, t, r), UNCHANGED faults
  PROVE  TypeOK'
<1>1. rpc' \in RpcType  BY CancelType DEF BecomeFollower
<1>2. stale' \in StaleType
  BY CancelledType DEF TypeOK, BecomeFollower, RpcType, StaleType
<1>3. /\ state' \in [Server -> StateType]
      /\ currentTerm' \in [Server -> Nat]
      /\ votedFor' \in [Server -> Option]
      /\ writes' \in [Server -> Seq(Write)]
  <2>1. [term |-> t, vote |-> None, then |-> "nothing", from |-> None,
         req |-> None] \in Write
    BY DEF Write
  <2> QED  BY <2>1, UpdateStateType DEF BecomeFollower, StateType, Option
<1>4. /\ followLeaderId' \in [Server -> Option]
      /\ armed' \in [Server -> BOOLEAN]
  BY DEF TypeOK, BecomeFollower, LosesLeader, RefreshElectionTimeout, Option
<1>5. UNCHANGED <<diskTerm, diskVote, lastApplied, log, commitIndex, paused,
                  pend, reading, ballots, elected, crashes, losses>>
  BY DEF BecomeFollower, disk, history, faults
<1>6. ForgetRole(i)  BY DEF BecomeFollower
<1> QED
  BY <1>1, <1>2, <1>3, <1>4, <1>5, <1>6, ForgetRoleType
  DEF TypeOK, RpcType, StaleType, StateType, Option

-----------------------------------------------------------------------------
(* Every action keeps the types. *)

LEMMA ElectionTimeoutType ==
  ASSUME TypeOK, NEW i \in Server, ElectionTimeout(i)
  PROVE  TypeOK'
<1>1. rpc' \in RpcType
  BY CancelType DEF ElectionTimeout, TypeOK, RpcType
<1>2. stale' \in StaleType
  BY CancelledType DEF TypeOK, ElectionTimeout, RpcType, StaleType
<1>3. /\ state' \in [Server -> StateType]
      /\ currentTerm' \in [Server -> Nat]
      /\ votedFor' \in [Server -> Option]
      /\ writes' \in [Server -> Seq(Write)]
  <2>1. currentTerm[i] + 1 \in Nat  BY DEF TypeOK
  <2>2. [term |-> currentTerm[i] + 1, vote |-> i, then |-> "election",
         from |-> None, req |-> None] \in Write
    BY <2>1 DEF Write
  <2>3. UpdateState(i, FSM_CANDIDATE, currentTerm[i] + 1, i, "election", None, None)
    BY DEF ElectionTimeout
  <2> QED  BY <2>1, <2>2, <2>3, UpdateStateType DEF StateType, Option
<1>4. /\ followLeaderId' \in [Server -> Option]
      /\ armed' \in [Server -> BOOLEAN]
      /\ paused' \in [Server -> BOOLEAN]
      /\ voted' \in [Server -> SUBSET Server]
      /\ votes' \in [Server -> SUBSET Server]
  BY DEF TypeOK, ElectionTimeout, LosesLeader, PausesRouter, Option
<1>5. UNCHANGED <<diskTerm, diskVote, lastApplied, log, commitIndex, nextIndex,
                  matchIndex, pend, reading, ballots, elected, crashes, losses>>
  BY DEF ElectionTimeout, disk, progress, history, faults
<1> QED
  BY <1>1, <1>2, <1>3, <1>4, <1>5
  DEF TypeOK, RpcType, StaleType, StateType, Option

\* What is on disk, and in the queue, when a write ends.
LEMMA WriteEndsType ==
  ASSUME TypeOK, NEW i \in Server, writes[i] # <<>>, WriteEnds(i)
  PROVE  /\ Head(writes[i]) \in Write
         /\ Head(writes[i]).term \in Nat
         /\ Head(writes[i]).vote \in Option
         /\ diskTerm' \in [Server -> Nat]
         /\ diskVote' \in [Server -> Option]
         /\ [writes EXCEPT ![i] = Tail(@)] \in [Server -> Seq(Write)]
<1>1. Head(writes[i]) \in Write /\ Tail(writes[i]) \in Seq(Write)
  BY QueueType DEF TypeOK
<1>2. Head(writes[i]).term \in Nat /\ Head(writes[i]).vote \in Option
  BY <1>1 DEF Write, Option
<1> QED  BY <1>1, <1>2 DEF TypeOK, WriteEnds, Option

LEMMA NothingPersistedType ==
  ASSUME TypeOK, NEW i \in Server, NothingPersisted(i)
  PROVE  TypeOK'
  BY WriteEndsType
  DEF NothingPersisted, WriteLeavesQueue, TypeOK, timing, tally, progress,
      network, history, faults, Option

\* A vote that is cast.
LEMMA CastType ==
  ASSUME TypeOK, NEW i \in Server, NEW j \in Server, NEW t \in Nat
  PROVE  Cast(i, j, t) \subseteq [voter: Server, term: Nat, cand: Server]
<1>1. ballots \subseteq [voter: Server, term: Nat, cand: Server]
  BY DEF TypeOK
<1>2. [voter |-> j, term |-> t, cand |-> i] \in [voter: Server, term: Nat, cand: Server]
  OBVIOUS
<1> QED  BY <1>1, <1>2 DEF Cast

\* A fresh request to every peer.
LEMMA BroadcastType ==
  ASSUME rpc \in RpcType, NEW i \in Server, NEW req \in Request
  PROVE  [rpc EXCEPT ![i] = [j \in Server |->
            IF j = i THEN None
            ELSE [req |-> req, seen |-> FALSE, reply |-> None]]] \in RpcType
<1>1. [req |-> req, seen |-> FALSE, reply |-> None] \in Call
  BY DEF Call
<1> QED  BY <1>1 DEF RpcType

LEMMA ElectionPersistedType ==
  ASSUME TypeOK, NEW i \in Server, ElectionPersisted(i)
  PROVE  TypeOK'
<1>1. /\ diskTerm' \in [Server -> Nat]
      /\ diskVote' \in [Server -> Option]
      /\ Head(writes[i]).term \in Nat
      /\ [writes EXCEPT ![i] = Tail(@)] \in [Server -> Seq(Write)]
  BY WriteEndsType DEF ElectionPersisted
<1>2. CASE \E j \in Server : rpc[i][j] # None
  BY <1>1, <1>2, FailType DEF ElectionPersisted
<1>3. CASE ~\E j \in Server : rpc[i][j] # None
  <2> DEFINE t == Head(writes[i]).term
             req == [type |-> "vote", term |-> t, lastIndex |-> Len(log[i]),
                     lastTerm |-> LastTermOf(log[i])]
  <2>1. req \in Request
    <3>1. LastTermOf(log[i]) \in Nat /\ Len(log[i]) \in Nat
      BY TermType DEF TypeOK
    <3> QED  BY <1>1, <3>1 DEF Request, VoteRequestMsg
  <2>2. rpc' = [rpc EXCEPT ![i] = [j \in Server |->
                  IF j = i THEN None
                  ELSE [req |-> req, seen |-> FALSE, reply |-> None]]]
    BY <1>3 DEF ElectionPersisted
  <2> HIDE DEF req, t
  <2>3. rpc' \in RpcType
    <3>1. rpc \in RpcType  BY DEF TypeOK, RpcType
    <3> QED  BY <2>1, <2>2, <3>1, BroadcastType
  <2>4. ballots' \subseteq [voter: Server, term: Nat, cand: Server]
    <3>1. ballots' = Cast(i, i, t)  BY <1>3 DEF ElectionPersisted, Cast, t
    <3>2. t \in Nat  BY <1>1 DEF t
    <3> QED  BY <3>1, <3>2, CastType
  <2>5. /\ armed' \in [Server -> BOOLEAN]
        /\ paused' \in [Server -> BOOLEAN]
        /\ writes' \in [Server -> Seq(Write)]
    BY <1>1, <1>3
    DEF ElectionPersisted, RefreshElectionTimeout, ResumesRouter,
        WriteLeavesQueue, TypeOK
  <2>6. UNCHANGED <<log, lastApplied, state, currentTerm, votedFor, commitIndex,
                    followLeaderId, voted, votes, nextIndex, matchIndex, pend,
                    reading, stale, elected, crashes, losses>>
    BY <1>3 DEF ElectionPersisted, tally, progress, faults
  <2> QED  BY <1>1, <2>3, <2>4, <2>5, <2>6 DEF TypeOK, RpcType, Option
<1> QED  BY <1>2, <1>3

LEMMA VotePersistedType ==
  ASSUME TypeOK, NEW j \in Server, VotePersisted(j)
  PROVE  TypeOK'
<1> DEFINE w == Head(writes[j])
<1>1. /\ diskTerm' \in [Server -> Nat]
      /\ diskVote' \in [Server -> Option]
      /\ w \in Write /\ w.term \in Nat
      /\ writes' \in [Server -> Seq(Write)]
  BY WriteEndsType DEF VotePersisted, WriteLeavesQueue
<1>2. w.from \in Server
  BY <1>1 DEF VotePersisted, Write
<1>3. rpc' \in RpcType
  <2>1. Answer(w.term, w.vote = w.from) \in Reply
    BY <1>1 DEF Answer, Reply
  <2>2. rpc' = SendReply(rpc, w.from, j, w.req, Answer(w.term, w.vote = w.from))
    BY DEF VotePersisted
  <2> HIDE DEF w
  <2> QED  BY <1>2, <2>1, <2>2, SendReplyType DEF TypeOK, RpcType
<1>4. ballots' \subseteq [voter: Server, term: Nat, cand: Server]
  <2>1. ballots' \in {ballots, Cast(w.from, j, w.term)}
    BY DEF VotePersisted
  <2>2. ballots \subseteq [voter: Server, term: Nat, cand: Server]
    BY DEF TypeOK
  <2> HIDE DEF w
  <2> QED  BY <1>1, <1>2, <2>1, <2>2, CastType
<1>5. UNCHANGED <<log, lastApplied, state, currentTerm, votedFor, commitIndex,
                  followLeaderId, armed, paused, voted, votes, nextIndex,
                  matchIndex, pend, reading, stale, elected, crashes, losses>>
  BY DEF VotePersisted, timing, tally, progress, faults
<1> QED  BY <1>1, <1>3, <1>4, <1>5 DEF TypeOK, RpcType, Option

LEMMA DenyVoteType ==
  ASSUME TypeOK, NEW i \in Server, NEW j \in Server, NEW q \in VoteRequestMsg,
         DenyVote(i, j, q), UNCHANGED faults
  PROVE  TypeOK'
<1>1. rpc' \in RpcType
  <2>1. Answer(currentTerm[j], FALSE) \in Reply  BY DEF Answer, Reply, TypeOK
  <2>2. rpc' = SendReply(rpc, i, j, q, Answer(currentTerm[j], FALSE))
    BY DEF DenyVote
  <2> QED  BY <2>1, <2>2, SendReplyType DEF TypeOK, RpcType
<1>2. UNCHANGED <<diskTerm, diskVote, lastApplied, log, state, currentTerm,
                  votedFor, commitIndex, followLeaderId, armed, paused, voted,
                  votes, nextIndex, matchIndex, writes, pend, reading, stale,
                  ballots, elected, crashes, losses>>
  BY DEF DenyVote, disk, timing, tally, progress, history, faults
<1> QED  BY <1>1, <1>2 DEF TypeOK, RpcType

LEMMA TakeTermType ==
  ASSUME TypeOK, NEW i \in Server, NEW j \in Server, NEW q \in VoteRequestMsg,
         TakeTerm(i, j, q), UNCHANGED faults
  PROVE  TypeOK'
<1> DEFINE grant == GrantsVote(i, j, q)
           vote == IF grant THEN i ELSE None
           r == CancelPendingRpcs(rpc, j)
<1>1. /\ q.term \in Nat
      /\ vote \in Option
      /\ r \in RpcType
  BY CancelType DEF VoteRequestMsg, Option, TypeOK, RpcType
<1>2. /\ state' \in [Server -> StateType]
      /\ currentTerm' \in [Server -> Nat]
      /\ votedFor' \in [Server -> Option]
      /\ writes' \in [Server -> Seq(Write)]
  <2>1. UpdateState(j, FSM_FOLLOWER, q.term, vote, "vote", i, q)
    BY DEF TakeTerm
  <2> HIDE DEF vote
  <2>2. [term |-> q.term, vote |-> vote, then |-> "vote", from |-> i,
         req |-> q] \in Write
    BY <1>1 DEF Write, Option
  <2>3. FSM_FOLLOWER \in StateType  BY DEF StateType
  <2> QED  BY <1>1, <2>1, <2>2, <2>3, UpdateStateType
<1>3. rpc' \in RpcType
  <2>1. Answer(q.term, grant) \in Reply
    BY <1>1 DEF Answer, Reply, GrantsVote, UpToDate
  <2>2. rpc' \in {r, SendReply(r, i, j, q, Answer(q.term, grant))}
    BY DEF TakeTerm
  <2> HIDE DEF r, grant
  <2> QED  BY <1>1, <2>1, <2>2, SendReplyType
<1>4. ballots' \subseteq [voter: Server, term: Nat, cand: Server]
  <2>1. ballots' \in {ballots, Cast(i, j, q.term)}  BY DEF TakeTerm
  <2>2. ballots \subseteq [voter: Server, term: Nat, cand: Server]
    BY DEF TypeOK
  <2> QED  BY <1>1, <2>1, <2>2, CastType
<1>5. stale' \in StaleType
  BY CancelledType DEF TypeOK, TakeTerm, RpcType, StaleType
<1>6. /\ followLeaderId' \in [Server -> Option]
      /\ armed' \in [Server -> BOOLEAN]
  BY DEF TypeOK, TakeTerm, LosesLeader, RefreshElectionTimeout, Option
<1>7. UNCHANGED <<diskTerm, diskVote, lastApplied, log, commitIndex, paused,
                  pend, reading, elected, crashes, losses>>
  BY DEF TakeTerm, disk, faults
<1>8. ForgetRole(j)  BY DEF TakeTerm
<1> QED
  BY <1>2, <1>3, <1>4, <1>5, <1>6, <1>7, <1>8, ForgetRoleType
  DEF TypeOK, RpcType, StaleType, StateType, Option

LEMMA VoteRequestType ==
  ASSUME TypeOK, NEW i \in Server, NEW j \in Server, VoteRequest(i, j)
  PROVE  TypeOK'
<1>1. PICK q \in Arriving(i, j, "vote") : DenyVote(i, j, q) \/ TakeTerm(i, j, q)
  BY DEF VoteRequest
<1>2. q \in VoteRequestMsg  BY ArrivingType
<1>3. UNCHANGED faults  BY DEF VoteRequest
<1> QED  BY <1>1, <1>2, <1>3, DenyVoteType, TakeTermType

LEMMA BecomeLeaderType ==
  ASSUME TypeOK, NEW i \in Server, BecomeLeader(i), UNCHANGED faults,
         stale' \in StaleType
  PROVE  TypeOK'
<1> DEFINE req == [type |-> "append", term |-> currentTerm[i],
                   prev |-> Len(log[i]), prevTerm |-> LastTermOf(log[i]),
                   commit |-> commitIndex[i], entries |-> <<>>]
<1>1. /\ LastTermOf(log[i]) \in Int /\ Len(log[i]) \in Nat
      /\ currentTerm[i] \in Nat /\ commitIndex[i] \in Nat
  BY TermType DEF TypeOK
<1>2. rpc' \in RpcType
  <2>1. req \in Request  BY <1>1 DEF Request, AppendRequestMsg
  <2>2. rpc' = [rpc EXCEPT ![i] = [j \in Server |->
                  IF j = i THEN None
                  ELSE [req |-> req, seen |-> FALSE, reply |-> None]]]
    BY DEF BecomeLeader
  <2>3. rpc \in RpcType  BY DEF TypeOK, RpcType
  <2> HIDE DEF req
  <2> QED  BY <2>1, <2>2, <2>3, BroadcastType
<1>3. pend' \in [Server -> Seq(Entry)]
  <2> DEFINE e == [term |-> currentTerm[i], val |-> Checkpoint]
  <2>1. e \in Entry  BY <1>1 DEF Entry
  <2>2. \/ pend' = pend
        \/ pend' = [pend EXCEPT ![i] = Append(pend[i], e)]
    BY DEF BecomeLeader
  <2>3. pend \in [Server -> Seq(Entry)]  BY DEF TypeOK
  <2> HIDE DEF e
  <2>4. Append(pend[i], e) \in Seq(Entry)  BY <2>1, <2>3, QueueType
  <2> QED  BY <2>2, <2>3, <2>4
<1>4. elected' \subseteq [leader: Server, term: Nat]
  BY <1>1 DEF BecomeLeader, TypeOK
<1>5. /\ state' \in [Server -> StateType]
      /\ armed' \in [Server -> BOOLEAN]
      /\ followLeaderId' \in [Server -> Option]
      /\ voted' \in [Server -> SUBSET Server]
      /\ votes' \in [Server -> SUBSET Server]
  BY DEF TypeOK, BecomeLeader, LosesLeader, StateType, Option
<1>6. /\ nextIndex' \in [Server -> [Server -> Nat]]
      /\ matchIndex' \in [Server -> [Server -> Nat]]
  BY <1>1 DEF TypeOK, BecomeLeader, FollowersAt, Everyone
<1>7. UNCHANGED <<diskTerm, diskVote, lastApplied, log, currentTerm, votedFor,
                  commitIndex, paused, writes, reading, ballots, crashes, losses>>
  BY DEF BecomeLeader, disk, faults
<1> QED
  BY <1>2, <1>3, <1>4, <1>5, <1>6, <1>7
  DEF TypeOK, RpcType, StaleType, StateType, Option

\* A socket that has been answered.
LEMMA AnsweredType ==
  ASSUME rpc \in RpcType, NEW i \in Server, NEW j \in Server
  PROVE  [rpc EXCEPT ![i][j] = None] \in RpcType
<1>1. rpc[i] \in [Server -> Call \cup {None}]  BY DEF RpcType
<1>2. [rpc[i] EXCEPT ![j] = None] \in [Server -> Call \cup {None}]  BY <1>1
<1> QED  BY <1>2 DEF RpcType

\* A pending request and its reply.
LEMMA PendingType ==
  ASSUME TypeOK, NEW i \in Server, NEW j \in Server, rpc[i][j] # None
  PROVE  /\ rpc[i][j].req \in Request
         /\ rpc[i][j].reply # None => rpc[i][j].reply \in Reply
         /\ rpc[i][j].req.type = "append" => rpc[i][j].req \in AppendRequestMsg
<1>1. rpc[i] \in [Server -> Call \cup {None}]  BY DEF TypeOK
<1>2. rpc[i][j] \in Call  BY <1>1
<1> QED  BY <1>2 DEF Call, Request, VoteRequestMsg, AppendRequestMsg

LEMMA VoteResponseType ==
  ASSUME TypeOK, NEW i \in Server, NEW j \in Server, VoteResponse(i, j)
  PROVE  TypeOK'
<1> DEFINE a == rpc[i][j].reply
           answered == [rpc EXCEPT ![i][j] = None]
<1>1. a \in Reply /\ a.term \in Nat
  BY PendingType DEF VoteResponse, Reply
<1>2. rpc[i][j].req \in Request
  BY PendingType DEF VoteResponse
<1>3. rpc \in RpcType /\ answered \in RpcType
  BY AnsweredType DEF TypeOK, RpcType
<1>4. LateResends(i, j) \in StaleType
  BY <1>2 DEF LateResends, StaleType
<1>5. UNCHANGED faults  BY DEF VoteResponse
<1>6. CASE BecomeFollower(i, a.term, answered)
  <2> HIDE DEF a, answered
  <2> QED  BY <1>1, <1>3, <1>5, <1>6, BecomeFollowerType
<1>7. CASE /\ BecomeLeader(i)
           /\ stale' = stale \cup Orphans(i, Peers(i) \ {j}) \cup LateResends(i, j)
  <2>1. Orphans(i, Peers(i) \ {j}) \in StaleType
    BY <1>3, OrphansType DEF Peers
  <2>2. stale' \in StaleType
    BY <1>4, <1>7, <2>1 DEF TypeOK, StaleType
  <2> QED  BY <1>5, <1>7, <2>2, BecomeLeaderType
<1> DEFINE higher == a.term > currentTerm[i]
           counts == state[i] = FSM_CANDIDATE
                     /\ (higher \/ rpc[i][j].req.term = currentTerm[i])
           nvoted == voted[i] \cup (IF counts THEN {j} ELSE {})
           nvotes == votes[i] \cup
                       (IF counts /\ ~higher /\ a.ok /\ j \notin voted[i]
                        THEN {j} ELSE {})
           Counted == /\ voted' = [voted EXCEPT ![i] = nvoted]
                      /\ votes' = [votes EXCEPT ![i] = nvotes]
                      /\ rpc' = answered
                      /\ stale' = stale \cup LateResends(i, j)
                      /\ UNCHANGED <<disk, log, state, currentTerm, votedFor,
                                     commitIndex, followLeaderId, timing,
                                     progress, writes, pend, reading, history>>
<1>8. CASE Counted
  <2>1. nvoted \in SUBSET Server /\ nvotes \in SUBSET Server
    <3>1. voted[i] \in SUBSET Server /\ votes[i] \in SUBSET Server
      BY DEF TypeOK
    <3> HIDE DEF counts, higher, a
    <3> QED  BY <3>1
  <2>2. /\ voted' = [voted EXCEPT ![i] = nvoted]
        /\ votes' = [votes EXCEPT ![i] = nvotes]
        /\ rpc' = answered
        /\ stale' = stale \cup LateResends(i, j)
    BY <1>8
  <2>3. UNCHANGED <<diskTerm, diskVote, lastApplied, log, state, currentTerm,
                    votedFor, commitIndex, followLeaderId, armed, paused,
                    nextIndex, matchIndex, writes, pend, reading, ballots,
                    elected, crashes, losses>>
    BY <1>5, <1>8 DEF disk, timing, progress, history, faults
  <2> HIDE DEF nvoted, nvotes, answered, Counted
  <2>4. /\ voted' \in [Server -> SUBSET Server]
        /\ votes' \in [Server -> SUBSET Server]
    BY <2>1, <2>2 DEF TypeOK
  <2>5. stale' \in StaleType  BY <1>4, <2>2 DEF TypeOK, StaleType
  <2>6. rpc' \in RpcType  BY <1>3, <2>2
  <2> QED  BY <2>3, <2>4, <2>5, <2>6 DEF TypeOK, RpcType, StaleType
<1>9. \/ BecomeFollower(i, a.term, answered)
      \/ /\ BecomeLeader(i)
         /\ stale' = stale \cup Orphans(i, Peers(i) \ {j}) \cup LateResends(i, j)
      \/ Counted
  BY DEF VoteResponse
<1> QED  BY <1>6, <1>7, <1>8, <1>9

-----------------------------------------------------------------------------
(* Replication keeps the types. *)

\* Pieces and concatenations of logs.
LEMMA LogType ==
  ASSUME NEW l \in Seq(Entry), NEW m \in Seq(Entry), NEW n \in Nat
  PROVE  /\ l \o m \in Seq(Entry)
         /\ n <= Len(l) => SubSeq(l, 1, n) \in Seq(Entry)
<1>1. n <= Len(l) => SubSeq(l, 1, n) \in Seq(Entry)
  BY SubSeqProperties
<1> QED  BY <1>1

LEMMA FinishAppendType ==
  ASSUME TypeOK, NEW j \in Server, NEW i \in Server, NEW q \in AppendRequestMsg,
         NEW t \in Nat, NEW ok \in BOOLEAN, NEW r \in RpcType,
         ok => q.prev <= Len(log[j]) + Len(pend[j]),
         FinishAppend(j, i, q, t, ok, r)
  PROVE  /\ log' \in [Server -> Seq(Entry)]
         /\ pend' \in [Server -> Seq(Entry)]
         /\ commitIndex' \in [Server -> Nat]
         /\ rpc' \in RpcType
         /\ paused' \in [Server -> BOOLEAN]
<1> DEFINE kept == SubSeq(log[j] \o pend[j], 1, q.prev)
           nlog == IF ok THEN kept \o q.entries ELSE log[j]
           conflict == IF ~ok /\ Len(log[j]) < q.prev THEN Len(log[j]) + 1 ELSE 0
<1>1. /\ q.prev \in Nat /\ q.commit \in Nat /\ q.entries \in Seq(Entry)
      /\ log[j] \in Seq(Entry) /\ pend[j] \in Seq(Entry)
      /\ commitIndex[j] \in Nat
  BY DEF AppendRequestMsg, TypeOK
<1>2. nlog \in Seq(Entry)
  <2>1. CASE ok
    <3>1. log[j] \o pend[j] \in Seq(Entry)
          /\ Len(log[j] \o pend[j]) = Len(log[j]) + Len(pend[j])
      BY <1>1
    <3>2. kept \in Seq(Entry)  BY <1>1, <2>1, <3>1, LogType
    <3> HIDE DEF kept
    <3> QED  BY <1>1, <2>1, <3>2
  <2>2. CASE ~ok  BY <1>1, <2>2
  <2> QED  BY <2>1, <2>2
<1>3. conflict \in Nat  BY <1>1
<1>4. /\ log' = [log EXCEPT ![j] = nlog]
      /\ pend' = IF ok THEN [pend EXCEPT ![j] = <<>>] ELSE pend
      /\ commitIndex' = IF ok /\ q.commit > commitIndex[j]
                        THEN [commitIndex EXCEPT ![j] = Smaller(q.commit, Len(nlog))]
                        ELSE commitIndex
      /\ rpc' = SendReply(r, i, j, q, [term |-> t, ok |-> ok, conflict |-> conflict])
      /\ ResumesRouter(j)
  BY DEF FinishAppend
<1> HIDE DEF kept, nlog, conflict
<1>5. log' \in [Server -> Seq(Entry)]  BY <1>2, <1>4 DEF TypeOK
<1>6. pend' \in [Server -> Seq(Entry)]
  <2>1. <<>> \in Seq(Entry)  OBVIOUS
  <2>2. pend \in [Server -> Seq(Entry)]  BY DEF TypeOK
  <2> QED  BY <1>4, <2>1, <2>2
<1>7. commitIndex' \in [Server -> Nat]
  <2>1. Smaller(q.commit, Len(nlog)) \in Nat  BY <1>1, <1>2 DEF Smaller
  <2> QED  BY <1>4, <2>1 DEF TypeOK
<1>8. rpc' \in RpcType
  <2>1. [term |-> t, ok |-> ok, conflict |-> conflict] \in Reply
    BY <1>3 DEF Reply
  <2> QED  BY <1>4, <2>1, SendReplyType
<1>9. paused' \in [Server -> BOOLEAN]
  BY <1>4 DEF TypeOK, ResumesRouter
<1> QED  BY <1>5, <1>6, <1>7, <1>8, <1>9

\* What appendEntryHandler changes once it knows the term, other than the
\* variables its caller assigns.
LEMMA TermIsReadType ==
  ASSUME TypeOK, NEW j \in Server, NEW i \in Server, NEW q \in AppendRequestMsg,
         NEW t \in Nat, NEW v \in Option, NEW r \in RpcType,
         NEW begins \in BOOLEAN, TermIsRead(j, i, q, t, v, r, begins)
  PROVE  /\ state' \in [Server -> StateType]
         /\ currentTerm' \in [Server -> Nat]
         /\ votedFor' \in [Server -> Option]
         /\ writes' \in [Server -> Seq(Write)]
         /\ log' \in [Server -> Seq(Entry)]
         /\ pend' \in [Server -> Seq(Entry)]
         /\ commitIndex' \in [Server -> Nat]
         /\ rpc' \in RpcType
         /\ paused' \in [Server -> BOOLEAN]
         /\ armed' \in [Server -> BOOLEAN]
         /\ ForgetRole(j)
<1> DEFINE ok == PrevMatches(log[j], q)
           cancelled == CancelPendingRpcs(r, j)
           then == IF ok THEN "append" ELSE "refuse"
<1>1. ok \in BOOLEAN /\ (ok => q.prev <= Len(log[j]) + Len(pend[j]))
  <2>1. log[j] \in Seq(Entry) /\ pend[j] \in Seq(Entry) /\ q.prev \in Nat
    BY DEF TypeOK, AppendRequestMsg
  <2>2. ASSUME ok  PROVE q.prev <= Len(log[j]) + Len(pend[j])
    <3>1. q.prev <= Len(log[j])  BY <2>2 DEF PrevMatches
    <3>2. \A m, n, p \in Nat : p <= m => p <= m + n  OBVIOUS
    <3>3. Len(log[j]) \in Nat /\ Len(pend[j]) \in Nat  BY <2>1
    <3> QED  BY <2>1, <3>1, <3>2, <3>3
  <2>3. ok \in BOOLEAN  BY DEF PrevMatches
  <2> QED  BY <2>2, <2>3
<1>2. cancelled \in RpcType  BY CancelType
<1>3. UpdateState(j, FSM_FOLLOWER, t, v, then, i, q) /\ ForgetRole(j)
  BY DEF TermIsRead
<1>4. \/ /\ FinishAppend(j, i, q, t, ok, cancelled)
         /\ armed' = [armed EXCEPT ![j] = TRUE]
      \/ /\ rpc' = cancelled
         /\ HoldsRouter(j) \/ UNCHANGED timing
         /\ UNCHANGED <<log, pend, commitIndex>>
  BY DEF TermIsRead
<1>5. then \in {"append", "refuse"}  OBVIOUS
<1> HIDE DEF ok, cancelled, then
<1>6. /\ state' \in [Server -> StateType]
      /\ currentTerm' \in [Server -> Nat]
      /\ votedFor' \in [Server -> Option]
      /\ writes' \in [Server -> Seq(Write)]
  <2>1. [term |-> t, vote |-> v, then |-> then, from |-> i, req |-> q] \in Write
    BY <1>5 DEF Write, Option
  <2>2. FSM_FOLLOWER \in StateType  BY DEF StateType
  <2> QED  BY <1>3, <2>1, <2>2, UpdateStateType
<1>7. armed' \in [Server -> BOOLEAN]
  BY <1>4 DEF TypeOK, HoldsRouter, timing
<1>8. /\ log' \in [Server -> Seq(Entry)]
      /\ pend' \in [Server -> Seq(Entry)]
      /\ commitIndex' \in [Server -> Nat]
      /\ rpc' \in RpcType
      /\ paused' \in [Server -> BOOLEAN]
  <2>1. CASE FinishAppend(j, i, q, t, ok, cancelled)
    BY <1>1, <1>2, <2>1, FinishAppendType
  <2>2. CASE /\ rpc' = cancelled /\ (HoldsRouter(j) \/ UNCHANGED timing)
             /\ UNCHANGED <<log, pend, commitIndex>>
    BY <1>2, <2>2 DEF TypeOK, HoldsRouter, PausesRouter, timing
  <2> QED  BY <1>4, <2>1, <2>2
<1> QED  BY <1>3, <1>6, <1>7, <1>8

LEMMA RefuseAppendType ==
  ASSUME TypeOK, NEW i \in Server, NEW j \in Server, RefuseAppend(i, j)
  PROVE  TypeOK'
<1>1. PICK q \in ArrivingAppends(i, j) :
        /\ rpc' = SendReply(MarkSeen(i, j, q), i, j, q,
                            Answer(currentTerm[j], FALSE))
        /\ stale' = StillTravelling(i, j, q)
  BY DEF RefuseAppend
<1>2. rpc' \in RpcType
  <2>1. Answer(currentTerm[j], FALSE) \in Reply  BY DEF Answer, Reply, TypeOK
  <2>2. MarkSeen(i, j, q) \in RpcType  BY MarkSeenType DEF TypeOK, RpcType
  <2> QED  BY <1>1, <2>1, <2>2, SendReplyType
<1>3. stale' \in StaleType
  BY <1>1 DEF StillTravelling, TypeOK, StaleType
<1>4. UNCHANGED <<diskTerm, diskVote, lastApplied, log, state, currentTerm,
                  votedFor, commitIndex, followLeaderId, armed, paused, voted,
                  votes, nextIndex, matchIndex, writes, pend, reading, ballots,
                  elected, crashes, losses>>
  BY DEF RefuseAppend, disk, timing, tally, progress, history, faults
<1> QED  BY <1>2, <1>3, <1>4 DEF TypeOK, RpcType, StaleType

\* The term and the vote that an append request leads to.
LEMMA CapturedType ==
  ASSUME TypeOK, NEW j \in Server, NEW q \in AppendRequestMsg
  PROVE  q.term \in Nat /\ CapturedVote(j, q) \in Option
  BY DEF TypeOK, AppendRequestMsg, CapturedVote, Option

LEMMA AppendRequestType ==
  ASSUME TypeOK, NEW i \in Server, NEW j \in Server, AppendRequest(i, j)
  PROVE  TypeOK'
<1>1. PICK q \in ArrivingAppends(i, j) :
        /\ followLeaderId' = [followLeaderId EXCEPT ![j] = i]
        /\ TermIsRead(j, i, q, q.term, CapturedVote(j, q), MarkSeen(i, j, q), TRUE)
        /\ stale' = StillTravelling(i, j, q) \cup CancelledRequests(j)
  BY DEF AppendRequest
<1>2. q \in AppendRequestMsg  BY ArrivingType
<1>3. /\ MarkSeen(i, j, q) \in RpcType
      /\ q.term \in Nat /\ CapturedVote(j, q) \in Option
  BY <1>2, CapturedType, MarkSeenType DEF TypeOK, RpcType
<1>4. stale' \in StaleType
  <2>1. CancelledRequests(j) \in StaleType
    BY CancelledType DEF TypeOK, RpcType
  <2> QED  BY <1>1, <2>1 DEF StillTravelling, TypeOK, StaleType
<1>5. followLeaderId' \in [Server -> Option]
  BY <1>1 DEF TypeOK, Option
<1>6. UNCHANGED <<diskTerm, diskVote, lastApplied, reading, ballots, elected,
                  crashes, losses>>
  BY DEF AppendRequest, disk, history, faults
<1>7. /\ state' \in [Server -> StateType]
      /\ currentTerm' \in [Server -> Nat]
      /\ votedFor' \in [Server -> Option]
      /\ writes' \in [Server -> Seq(Write)]
      /\ log' \in [Server -> Seq(Entry)]
      /\ pend' \in [Server -> Seq(Entry)]
      /\ commitIndex' \in [Server -> Nat]
      /\ rpc' \in RpcType
      /\ paused' \in [Server -> BOOLEAN]
      /\ armed' \in [Server -> BOOLEAN]
      /\ ForgetRole(j)
  BY <1>1, <1>2, <1>3, TermIsReadType
<1> QED
  BY <1>4, <1>5, <1>6, <1>7, ForgetRoleType
  DEF TypeOK, RpcType, StaleType, StateType, Option

LEMMA AppendRequestFailsType ==
  ASSUME TypeOK, NEW i \in Server, NEW j \in Server, AppendRequestFails(i, j)
  PROVE  TypeOK'
  BY FailType DEF AppendRequestFails, TypeOK, Option

LEMMA BeginReadType ==
  ASSUME TypeOK, NEW i \in Server, NEW j \in Server, BeginRead(i, j)
  PROVE  TypeOK'
<1>1. PICK q \in ArrivingAppends(i, j) :
        /\ followLeaderId' = [followLeaderId EXCEPT ![j] = i]
        /\ reading' = [reading EXCEPT ![j] =
             [from |-> i, req |-> q, term |-> q.term, vote |-> CapturedVote(j, q)]]
        /\ rpc' = MarkSeen(i, j, q)
        /\ stale' = StillTravelling(i, j, q)
  BY DEF BeginRead
<1>2. q \in AppendRequestMsg  BY ArrivingType
<1>3. /\ rpc' \in RpcType
      /\ q.term \in Nat /\ CapturedVote(j, q) \in Option
  BY <1>1, <1>2, CapturedType, MarkSeenType DEF TypeOK, RpcType
<1>4. reading' \in [Server -> ReadingHandler \cup {None}]
  <2> DEFINE h == [from |-> i, req |-> q, term |-> q.term, vote |-> CapturedVote(j, q)]
  <2>1. h \in ReadingHandler  BY <1>2, <1>3 DEF ReadingHandler, Option
  <2> HIDE DEF h
  <2>2. reading' = [reading EXCEPT ![j] = h]  BY <1>1 DEF h
  <2> QED  BY <2>1, <2>2 DEF TypeOK
<1>5. stale' \in StaleType
  BY <1>1 DEF StillTravelling, TypeOK, StaleType
<1>6. /\ followLeaderId' \in [Server -> Option]
      /\ paused' \in [Server -> BOOLEAN]
      /\ armed' \in [Server -> BOOLEAN]
  BY <1>1 DEF TypeOK, BeginRead, HoldsRouter, PausesRouter, Option
<1>7. UNCHANGED <<diskTerm, diskVote, lastApplied, log, state, currentTerm,
                  votedFor, commitIndex, voted, votes, nextIndex, matchIndex,
                  writes, pend, ballots, elected, crashes, losses>>
  BY DEF BeginRead, disk, tally, progress, history, faults
<1> QED  BY <1>3, <1>4, <1>5, <1>6, <1>7 DEF TypeOK, RpcType, StaleType, Option

LEMMA EndReadType ==
  ASSUME TypeOK, NEW j \in Server, EndRead(j)
  PROVE  TypeOK'
<1> DEFINE h == reading[j]
<1>1. /\ h \in ReadingHandler
      /\ h.from \in Server /\ h.req \in AppendRequestMsg
      /\ h.term \in Nat /\ h.vote \in Option
  BY DEF TypeOK, EndRead, ReadingHandler, Option
<1>2. CASE Fail(j) /\ UNCHANGED <<diskTerm, diskVote>>
  BY <1>2, FailType DEF TypeOK, Option
<1>3. CASE /\ TermIsRead(j, h.from, h.req, h.term, h.vote, rpc, FALSE)
           /\ reading' = [reading EXCEPT ![j] = None]
           /\ stale' = stale \cup CancelledRequests(j)
           /\ UNCHANGED <<disk, followLeaderId, history, faults>>
  <2>1. rpc \in RpcType  BY DEF TypeOK, RpcType
  <2>2. stale' \in StaleType
    BY <1>3, <2>1, CancelledType DEF TypeOK, StaleType
  <2>3. reading' \in [Server -> ReadingHandler \cup {None}]
    BY <1>3 DEF TypeOK
  <2>4. UNCHANGED <<diskTerm, diskVote, lastApplied, followLeaderId, ballots,
                    elected, crashes, losses>>
    BY <1>3 DEF disk, history, faults
  <2> HIDE DEF h
  <2>5. /\ state' \in [Server -> StateType]
        /\ currentTerm' \in [Server -> Nat]
        /\ votedFor' \in [Server -> Option]
        /\ writes' \in [Server -> Seq(Write)]
        /\ log' \in [Server -> Seq(Entry)]
        /\ pend' \in [Server -> Seq(Entry)]
        /\ commitIndex' \in [Server -> Nat]
        /\ rpc' \in RpcType
        /\ paused' \in [Server -> BOOLEAN]
        /\ armed' \in [Server -> BOOLEAN]
        /\ ForgetRole(j)
    BY <1>1, <1>3, <2>1, TermIsReadType
  <2> QED
    BY <2>2, <2>3, <2>4, <2>5, ForgetRoleType
    DEF TypeOK, RpcType, StaleType, StateType, Option
<1> QED  BY <1>2, <1>3 DEF EndRead

LEMMA AppendPersistedType ==
  ASSUME TypeOK, NEW j \in Server, AppendPersisted(j)
  PROVE  TypeOK'
<1> DEFINE w == Head(writes[j])
           ok == w.then = "append"
<1>1. /\ diskTerm' \in [Server -> Nat]
      /\ diskVote' \in [Server -> Option]
      /\ w \in Write /\ w.term \in Nat
      /\ [writes EXCEPT ![j] = Tail(@)] \in [Server -> Seq(Write)]
  BY WriteEndsType DEF AppendPersisted
<1>2. CASE Fail(j)
  BY <1>1, <1>2, FailType
<1>3. CASE ~Fail(j)
  <2>1. /\ ok => w.req.prev <= Len(log[j]) + Len(pend[j])
        /\ FinishAppend(j, w.from, w.req, w.term, ok, rpc)
        /\ WriteLeavesQueue(j)
        /\ RefreshElectionTimeout(j)
        /\ UNCHANGED <<lastApplied, state, currentTerm, votedFor,
                       followLeaderId, tally, progress, reading, stale,
                       history, faults>>
    BY <1>3 DEF AppendPersisted
  <2>2. w.from \in Server /\ w.req \in AppendRequestMsg
    BY <1>1 DEF AppendPersisted, Write
  <2>3. ok \in BOOLEAN  OBVIOUS
  <2>4. rpc \in RpcType  BY DEF TypeOK, RpcType
  <2>5. /\ log' \in [Server -> Seq(Entry)]
        /\ pend' \in [Server -> Seq(Entry)]
        /\ commitIndex' \in [Server -> Nat]
        /\ rpc' \in RpcType
        /\ paused' \in [Server -> BOOLEAN]
    <3> DEFINE i == w.from
               q == w.req
               t == w.term
    <3>1. /\ i \in Server /\ q \in AppendRequestMsg /\ t \in Nat
          /\ ok => q.prev <= Len(log[j]) + Len(pend[j])
          /\ FinishAppend(j, i, q, t, ok, rpc)
      BY <1>1, <2>1, <2>2
    <3> HIDE DEF w, ok, i, q, t
    <3> QED  BY <2>3, <2>4, <3>1, FinishAppendType
  <2>6. /\ armed' \in [Server -> BOOLEAN]
        /\ writes' \in [Server -> Seq(Write)]
    BY <1>1, <2>1 DEF RefreshElectionTimeout, WriteLeavesQueue, TypeOK
  <2>7. UNCHANGED <<lastApplied, state, currentTerm, votedFor, followLeaderId,
                    voted, votes, nextIndex, matchIndex, reading, stale,
                    ballots, elected, crashes, losses>>
    BY <2>1 DEF tally, progress, history, faults
  <2> HIDE DEF w, ok
  <2> QED  BY <1>1, <2>5, <2>6, <2>7 DEF TypeOK, RpcType, Option
<1> QED  BY <1>2, <1>3

LEMMA SendAppendType ==
  ASSUME TypeOK, NEW i \in Server, NEW j \in Server, SendAppend(i, j)
  PROVE  TypeOK'
<1> DEFINE prev == nextIndex[i][j] - 1
           available == Len(log[i]) - prev
           req(n) == [type |-> "append", term |-> currentTerm[i], prev |-> prev,
                      prevTerm |-> TermAt(log[i], prev),
                      commit |-> commitIndex[i],
                      entries |-> SubSeq(log[i], prev + 1, prev + n)]
<1>1. PICK n \in (IF available > 0 THEN 1..available ELSE {0}) :
        rpc' = [rpc EXCEPT ![i][j] =
                  [req |-> req(n), seen |-> FALSE, reply |-> None]]
  BY DEF SendAppend
<1>2. /\ nextIndex[i][j] \in Nat /\ nextIndex[i][j] >= 1
      /\ log[i] \in Seq(Entry) /\ Len(log[i]) \in Nat
      /\ currentTerm[i] \in Nat /\ commitIndex[i] \in Nat
  BY DEF SendAppend, TypeOK
<1>3. prev \in Nat  BY <1>2
<1>4. TermAt(log[i], prev) \in Int
  <2> HIDE DEF prev
  <2> QED  BY <1>2, <1>3, TermType
<1>5. SubSeq(log[i], prev + 1, prev + n) \in Seq(Entry)
  <2> HIDE DEF prev
  <2>1. CASE available > 0
    <3>1. n \in 1..available  BY <1>1, <2>1
    <3>2. /\ prev + 1 \in Int /\ prev + n \in Int
          /\ \A k \in (prev + 1)..(prev + n) : k \in 1..Len(log[i])
      BY <1>2, <1>3, <3>1
    <3> QED  BY <1>2, <3>2, SubSeqProperties
  <2>2. CASE ~(available > 0)
    <3>1. n = 0  BY <1>1, <2>2
    <3>2. /\ prev + 1 \in Int /\ prev + n \in Int
          /\ \A k \in (prev + 1)..(prev + n) : FALSE
      BY <1>2, <1>3, <3>1
    <3> QED  BY <1>2, <3>2, SubSeqProperties
  <2> QED  BY <2>1, <2>2
<1>6. req(n) \in Request
  <2> HIDE DEF prev
  <2> QED  BY <1>2, <1>3, <1>4, <1>5 DEF Request, AppendRequestMsg
<1>7. rpc' \in RpcType
  <2> HIDE DEF req
  <2> DEFINE c == [req |-> req(n), seen |-> FALSE, reply |-> None]
  <2>1. c \in Call  BY <1>6 DEF Call
  <2>2. rpc' = [rpc EXCEPT ![i][j] = c]  BY <1>1
  <2> HIDE DEF c
  <2>3. rpc \in RpcType /\ rpc[i] \in [Server -> Call \cup {None}]
    BY DEF TypeOK, RpcType
  <2>4. [rpc[i] EXCEPT ![j] = c] \in [Server -> Call \cup {None}]
    BY <2>1, <2>3
  <2> QED  BY <2>2, <2>3, <2>4 DEF RpcType
<1>8. UNCHANGED <<diskTerm, diskVote, lastApplied, log, state, currentTerm,
                  votedFor, commitIndex, followLeaderId, armed, paused, voted,
                  votes, nextIndex, matchIndex, writes, pend, reading, stale,
                  ballots, elected, crashes, losses>>
  BY DEF SendAppend, disk, timing, tally, progress, history, faults
<1> QED  BY <1>7, <1>8 DEF TypeOK, RpcType

LEMMA AppendResponseType ==
  ASSUME TypeOK, NEW i \in Server, NEW j \in Server, AppendResponse(i, j)
  PROVE  TypeOK'
<1> DEFINE a == rpc[i][j].reply
           q == rpc[i][j].req
           last == SentLastIndex(q)
           answered == [rpc EXCEPT ![i][j] = None]
           current == currentTerm[i] = q.term /\ state[i] = FSM_LEADER
           match == [matchIndex EXCEPT ![i][j] = last]
           stored == {i} \cup {k \in Peers(i) : match[i][k] >= last}
           back == IF a.conflict # 0 /\ a.conflict < q.prev THEN a.conflict ELSE q.prev
<1>1. /\ a \in Reply /\ a.term \in Nat /\ a.conflict \in Nat
      /\ q \in AppendRequestMsg /\ q.prev \in Nat /\ q.entries \in Seq(Entry)
  BY PendingType DEF AppendResponse, Reply, AppendRequestMsg
<1>2. last \in Nat /\ back \in Nat
  <2> HIDE DEF a, q
  <2> QED  BY <1>1 DEF SentLastIndex
<1>3. rpc \in RpcType /\ answered \in RpcType
  BY AnsweredType DEF TypeOK, RpcType
<1>4. UNCHANGED faults  BY DEF AppendResponse
<1>5. CASE BecomeFollower(i, a.term, answered)
  <2> HIDE DEF a, answered
  <2> QED  BY <1>1, <1>3, <1>4, <1>5, BecomeFollowerType
<1>6. CASE /\ matchIndex' = match
           /\ nextIndex' = [nextIndex EXCEPT ![i][j] = last + 1]
           /\ commitIndex' = IF Commits(i, q, stored)
                             THEN [commitIndex EXCEPT ![i] = last] ELSE commitIndex
           /\ rpc' = answered
           /\ UNCHANGED <<disk, log, state, currentTerm, votedFor,
                          followLeaderId, timing, tally, writes, pend, reading,
                          stale, history>>
  <2>1. commitIndex' \in [Server -> Nat]
    <3> HIDE DEF last, stored, q
    <3> QED  BY <1>2, <1>6 DEF TypeOK
  <2>2. /\ matchIndex' \in [Server -> [Server -> Nat]]
        /\ nextIndex' \in [Server -> [Server -> Nat]]
    <3> HIDE DEF last
    <3>1. last + 1 \in Nat  BY <1>2
    <3> QED  BY <1>2, <1>6, <3>1 DEF TypeOK
  <2>3. UNCHANGED <<diskTerm, diskVote, lastApplied, log, state, currentTerm,
                    votedFor, followLeaderId, armed, paused, voted, votes,
                    writes, pend, reading, stale, ballots, elected, crashes,
                    losses>>
    BY <1>4, <1>6 DEF disk, timing, tally, history, faults
  <2>4. rpc' \in RpcType  BY <1>3, <1>6
  <2> QED  BY <2>1, <2>2, <2>3, <2>4 DEF TypeOK, RpcType
<1>7. CASE /\ nextIndex' = IF current THEN [nextIndex EXCEPT ![i][j] = back]
                           ELSE nextIndex
           /\ rpc' = answered
           /\ UNCHANGED <<disk, log, state, currentTerm, votedFor, commitIndex,
                          followLeaderId, timing, tally, matchIndex, writes,
                          pend, reading, stale, history>>
  <2>1. nextIndex' \in [Server -> [Server -> Nat]]
    <3> HIDE DEF back, current
    <3> QED  BY <1>2, <1>7 DEF TypeOK
  <2>2. UNCHANGED <<diskTerm, diskVote, lastApplied, log, state, currentTerm,
                    votedFor, commitIndex, followLeaderId, armed, paused, voted,
                    votes, matchIndex, writes, pend, reading, stale, ballots,
                    elected, crashes, losses>>
    BY <1>4, <1>7 DEF disk, timing, tally, history, faults
  <2>3. rpc' \in RpcType  BY <1>3, <1>7
  <2> QED  BY <2>1, <2>2, <2>3 DEF TypeOK, RpcType
<1> QED  BY <1>5, <1>6, <1>7 DEF AppendResponse

-----------------------------------------------------------------------------
(* The remaining actions, and the theorem. *)

LEMMA ClientUpdateType ==
  ASSUME TypeOK, NEW i \in Server, NEW v \in Value, ClientUpdate(i, v)
  PROVE  TypeOK'
<1> DEFINE e == [term |-> currentTerm[i], val |-> v]
<1>1. e \in Entry  BY DEF TypeOK, Entry
<1>2. pend' = [pend EXCEPT ![i] = Append(pend[i], e)]  BY DEF ClientUpdate
<1> HIDE DEF e
<1>3. pend' \in [Server -> Seq(Entry)]
  <2>1. pend[i] \in Seq(Entry)  BY DEF TypeOK
  <2>2. Append(pend[i], e) \in Seq(Entry)  BY <1>1, <2>1, QueueType
  <2> QED  BY <1>2, <2>2 DEF TypeOK
<1>4. UNCHANGED <<diskTerm, diskVote, lastApplied, log, state, currentTerm,
                  votedFor, commitIndex, followLeaderId, armed, paused, voted,
                  votes, nextIndex, matchIndex, writes, reading, rpc, stale,
                  ballots, elected, crashes, losses>>
  BY DEF ClientUpdate, disk, timing, tally, progress, network, history, faults
<1> QED  BY <1>3, <1>4 DEF TypeOK

LEMMA FlushType ==
  ASSUME TypeOK, NEW i \in Server, Flush(i)
  PROVE  TypeOK'
<1>1. log' \in [Server -> Seq(Entry)]
  <2> DEFINE l == log[i] \o pend[i]
  <2>1. l \in Seq(Entry)
    <3>1. log[i] \in Seq(Entry) /\ pend[i] \in Seq(Entry)  BY DEF TypeOK
    <3> QED  BY <3>1
  <2>2. log' = [log EXCEPT ![i] = l]  BY DEF Flush
  <2> HIDE DEF l
  <2> QED  BY <2>1, <2>2 DEF TypeOK
<1>2. pend' \in [Server -> Seq(Entry)]
  <2>1. <<>> \in Seq(Entry)  OBVIOUS
  <2> QED  BY <2>1 DEF Flush, TypeOK
<1>3. UNCHANGED <<diskTerm, diskVote, lastApplied, state, currentTerm,
                  votedFor, commitIndex, followLeaderId, armed, paused, voted,
                  votes, nextIndex, matchIndex, writes, reading, rpc, stale,
                  ballots, elected, crashes, losses>>
  BY DEF Flush, disk, timing, tally, progress, network, history, faults
<1> QED  BY <1>1, <1>2, <1>3 DEF TypeOK

LEMMA ApplyType ==
  ASSUME TypeOK, NEW i \in Server, Apply(i)
  PROVE  TypeOK'
<1>1. lastApplied' \in [Server -> Nat]  BY DEF TypeOK, Apply
<1>2. UNCHANGED <<diskTerm, diskVote, log, state, currentTerm, votedFor,
                  commitIndex, followLeaderId, armed, paused, voted, votes,
                  nextIndex, matchIndex, writes, pend, reading, rpc, stale,
                  ballots, elected, crashes, losses>>
  BY DEF Apply, timing, tally, progress, network, history, faults
<1> QED  BY <1>1, <1>2 DEF TypeOK

LEMMA ConnectionLostType ==
  ASSUME TypeOK, NEW i \in Server, NEW j \in Server, ConnectionLost(i, j)
  PROVE  TypeOK'
<1>1. rpc' \in RpcType
  <2> DEFINE c == [rpc[i][j] EXCEPT !.seen = FALSE, !.reply = None]
  <2>1. rpc \in RpcType /\ rpc[i] \in [Server -> Call \cup {None}]
    BY DEF TypeOK, RpcType
  <2>2. rpc[i][j] \in Call  BY <2>1 DEF ConnectionLost
  <2>3. c \in Call  BY <2>2 DEF Call
  <2>4. [rpc[i] EXCEPT ![j] = c] \in [Server -> Call \cup {None}]
    BY <2>1, <2>3
  <2>5. rpc' = [rpc EXCEPT ![i] = [rpc[i] EXCEPT ![j] = c]]
    BY <2>1 DEF ConnectionLost, RpcType
  <2> QED  BY <2>1, <2>4, <2>5 DEF RpcType
<1>2. losses' \in Nat
  <2>1. losses \in Nat  BY DEF TypeOK
  <2>2. losses' = losses + 1  BY DEF ConnectionLost
  <2> QED  BY <2>1, <2>2
<1>3. UNCHANGED <<diskTerm, diskVote, lastApplied, log, state, currentTerm,
                  votedFor, commitIndex, followLeaderId, armed, paused, voted,
                  votes, nextIndex, matchIndex, writes, pend, reading, stale,
                  ballots, elected, crashes>>
  BY DEF ConnectionLost, disk, timing, tally, progress, history
<1> QED  BY <1>1, <1>2, <1>3 DEF TypeOK, RpcType

LEMMA CrashType ==
  ASSUME TypeOK, NEW i \in Server, Crash(i)
  PROVE  TypeOK'
<1>1. log' \in [Server -> Seq(Entry)] /\ log'[i] \in Seq(Entry)
  <2>1. PICK k \in 0..Len(pend[i]) :
          log' = [log EXCEPT ![i] = log[i] \o SubSeq(pend[i], 1, k)]
    BY DEF Crash
  <2>2. log[i] \in Seq(Entry) /\ pend[i] \in Seq(Entry)  BY DEF TypeOK
  <2>3. k \in Nat /\ k <= Len(pend[i])  BY <2>1, <2>2
  <2> DEFINE l == log[i] \o SubSeq(pend[i], 1, k)
  <2>4. l \in Seq(Entry)
    <3>1. SubSeq(pend[i], 1, k) \in Seq(Entry)  BY <2>2, <2>3, LogType
    <3> QED  BY <2>2, <3>1, LogType
  <2>5. log' = [log EXCEPT ![i] = l]  BY <2>1
  <2> HIDE DEF l
  <2> QED  BY <2>4, <2>5 DEF TypeOK
<1>2. /\ diskTerm' \in [Server -> Nat]
      /\ currentTerm' \in [Server -> Nat]
      /\ diskVote' \in [Server -> Option]
      /\ votedFor' \in [Server -> Option]
  <2> DEFINE W == {[term |-> diskTerm[i], vote |-> diskVote[i]]} \cup
                  (IF writes[i] = <<>> THEN {}
                   ELSE {[term |-> Head(writes[i]).term, vote |-> Head(writes[i]).vote]})
  <2>1. PICK w \in W :
          LET t == Larger(w.term, LastTermOf(log'[i]))
          IN /\ diskTerm' = [diskTerm EXCEPT ![i] = t]
             /\ currentTerm' = [currentTerm EXCEPT ![i] = t]
             /\ diskVote' = [diskVote EXCEPT ![i] = w.vote]
             /\ votedFor' = [votedFor EXCEPT ![i] = w.vote]
    BY DEF Crash
  <2>2. w.term \in Nat /\ w.vote \in Option
    <3>1. CASE w = [term |-> diskTerm[i], vote |-> diskVote[i]]
      <4>1. diskTerm[i] \in Nat /\ diskVote[i] \in Option
        BY DEF TypeOK, Option
      <4> QED  BY <3>1, <4>1
    <3>2. CASE /\ writes[i] # <<>>
               /\ w = [term |-> Head(writes[i]).term, vote |-> Head(writes[i]).vote]
      <4>1. Head(writes[i]) \in Write  BY <3>2, QueueType DEF TypeOK
      <4>2. Head(writes[i]).term \in Nat /\ Head(writes[i]).vote \in Option
        BY <4>1 DEF Write, Option
      <4> QED  BY <3>2, <4>2
    <3> QED  BY <2>1, <3>1, <3>2
  <2>3. LastTermOf(log'[i]) \in Nat  BY <1>1, TermType
  <2> DEFINE t == Larger(w.term, LastTermOf(log'[i]))
  <2>4. t \in Nat  BY <2>2, <2>3 DEF Larger
  <2>5. /\ diskTerm' = [diskTerm EXCEPT ![i] = t]
        /\ currentTerm' = [currentTerm EXCEPT ![i] = t]
        /\ diskVote' = [diskVote EXCEPT ![i] = w.vote]
        /\ votedFor' = [votedFor EXCEPT ![i] = w.vote]
    BY <2>1
  <2> HIDE DEF t, W
  <2> QED  BY <2>2, <2>4, <2>5 DEF TypeOK, Option
<1>3. rpc' \in RpcType
  <2>1. rpc' = [k \in Server |-> IF k = i THEN Idle ELSE
                  IF rpc[k][i] # None /\ rpc[k][i].reply = None
                  THEN [rpc[k] EXCEPT ![i].seen = FALSE] ELSE rpc[k]]
    BY DEF Crash
  <2>2. ASSUME NEW k \in Server
        PROVE  rpc'[k] \in [Server -> Call \cup {None}]
    <3>1. rpc[k] \in [Server -> Call \cup {None}]  BY DEF TypeOK
    <3>2. CASE k = i  BY <2>1, <3>2 DEF Idle
    <3>3. CASE k # i /\ rpc[k][i] # None /\ rpc[k][i].reply = None
      <4> DEFINE c == [rpc[k][i] EXCEPT !.seen = FALSE]
      <4>1. rpc[k][i] \in Call  BY <3>1, <3>3
      <4>2. c \in Call  BY <4>1 DEF Call
      <4>3. rpc'[k] = [rpc[k] EXCEPT ![i] = c]  BY <2>1, <3>1, <3>3
      <4> HIDE DEF c
      <4> QED  BY <3>1, <4>2, <4>3
    <3>4. CASE k # i /\ ~(rpc[k][i] # None /\ rpc[k][i].reply = None)
      BY <2>1, <3>1, <3>4
    <3> QED  BY <3>2, <3>3, <3>4
  <2>3. rpc' = [k \in Server |-> rpc'[k]]  BY <2>1
  <2> QED  BY <2>2, <2>3 DEF RpcType
<1>4. stale' \in StaleType
  <2>1. Orphans(i, Server) \in StaleType
    BY OrphansType DEF TypeOK, RpcType
  <2> QED  BY <2>1 DEF Crash, TypeOK, StaleType
<1>5. /\ state' \in [Server -> StateType]
      /\ commitIndex' \in [Server -> Nat]
      /\ followLeaderId' \in [Server -> Option]
      /\ armed' \in [Server -> BOOLEAN]
      /\ paused' \in [Server -> BOOLEAN]
      /\ reading' \in [Server -> ReadingHandler \cup {None}]
      /\ crashes' \in Nat
  <2>1. /\ state' = [state EXCEPT ![i] = FSM_FOLLOWER]
        /\ commitIndex' = [commitIndex EXCEPT ![i] = RestartCommit(i)]
        /\ LosesLeader(i) /\ ResumesRouter(i)
        /\ armed' = [armed EXCEPT ![i] = TRUE]
        /\ reading' = [reading EXCEPT ![i] = None]
    BY DEF Crash
  <2>2. crashes' = crashes + 1  BY DEF Crash
  <2>3. crashes' \in Nat  BY <2>2 DEF TypeOK
  <2> QED
    BY <2>1, <2>3 DEF TypeOK, RestartCommit, LosesLeader, ResumesRouter, StateType, Option
<1>6. /\ writes' \in [Server -> Seq(Write)]
      /\ pend' \in [Server -> Seq(Entry)]
  BY DEF TypeOK, Crash
<1>7. ForgetRole(i) /\ UNCHANGED <<lastApplied, ballots, elected, losses>>
  BY DEF Crash, history
<1> QED
  BY <1>1, <1>2, <1>3, <1>4, <1>5, <1>6, <1>7, ForgetRoleType
  DEF TypeOK, RpcType, StaleType, StateType, Option

LEMMA InitType == Init => TypeOK
  BY DEF Init, Started, TypeOK, Idle, Everyone

LEMMA NextType ==
  ASSUME TypeOK, [Next]_vars
  PROVE  TypeOK'
<1>1. CASE UNCHANGED vars
  BY <1>1 DEF vars, TypeOK
<1>2. ASSUME NEW i \in Server,
             \/ ElectionTimeout(i)
             \/ NothingPersisted(i)
             \/ ElectionPersisted(i)
             \/ VotePersisted(i)
             \/ AppendPersisted(i)
             \/ EndRead(i)
             \/ Flush(i)
             \/ Apply(i)
             \/ Crash(i)
             \/ \E v \in Value : ClientUpdate(i, v)
      PROVE  TypeOK'
  BY <1>2, ElectionTimeoutType, NothingPersistedType, ElectionPersistedType,
     VotePersistedType, AppendPersistedType, EndReadType, FlushType, ApplyType,
     CrashType, ClientUpdateType
<1>3. ASSUME NEW i \in Server, NEW j \in Server,
             \/ VoteRequest(i, j)
             \/ VoteResponse(i, j)
             \/ RefuseAppend(i, j)
             \/ AppendRequest(i, j)
             \/ AppendRequestFails(i, j)
             \/ BeginRead(i, j)
             \/ SendAppend(i, j)
             \/ AppendResponse(i, j)
             \/ ConnectionLost(i, j)
      PROVE  TypeOK'
  BY <1>3, VoteRequestType, VoteResponseType, RefuseAppendType,
     AppendRequestType, AppendRequestFailsType, BeginReadType, SendAppendType,
     AppendResponseType, ConnectionLostType
<1> QED  BY <1>1, <1>2, <1>3 DEF Next

\* In every reachable state of every cluster, whatever its environment does,
\* the peers' memory, files, queues, sockets and requests have their types: the
\* handlers of raft_leader.js and raft_router.js never leave an index negative
\* or a malformed request on its way.
THEOREM TypeCorrect == Spec => []TypeOK
<1>1. Init => TypeOK  BY InitType
<1>2. TypeOK /\ [Next]_vars => TypeOK'  BY NextType
<1> QED  BY <1>1, <1>2, PTL DEF Spec

-----------------------------------------------------------------------------
(* The elections. *)

\* r has no call or reply about a vote that s does not have.
NoNewVotes(r, s) ==
  \A x, y \in Server :
    r[x][y] # None /\ r[x][y].req.type = "vote" =>
      /\ s[x][y] # None
      /\ r[x][y].req = s[x][y].req
      /\ r[x][y].reply \in {s[x][y].reply, None}

-----------------------------------------------------------------------------
(* The sockets. *)

LEMMA RpcWeakens ==
  ASSUME NEW r, NEW s, NEW B, NEW C, RpcOK(s, B), NoNewVotes(r, s), B \subseteq C
  PROVE  RpcOK(r, C)
  BY DEF RpcOK, NoNewVotes

LEMMA CancelWeakens ==
  ASSUME NEW r \in RpcType, NEW i
  PROVE  NoNewVotes(CancelPendingRpcs(r, i), r)
  BY DEF NoNewVotes, CancelPendingRpcs, Idle, RpcType

LEMMA IdleWeakens ==
  ASSUME NEW r \in RpcType, NEW i
  PROVE  NoNewVotes([r EXCEPT ![i] = Idle], r)
  BY DEF NoNewVotes, Idle, RpcType

LEMMA MarkSeenWeakens ==
  ASSUME rpc \in RpcType, NEW i \in Server, NEW j \in Server, NEW q
  PROVE  NoNewVotes(MarkSeen(i, j, q), rpc)
<1> SUFFICES ASSUME NEW x \in Server, NEW y \in Server, Unseen(i, j, q)
             PROVE  LET r == [rpc EXCEPT ![i][j].seen = TRUE]
                    IN r[x][y] # None =>
                         /\ rpc[x][y] # None
                         /\ r[x][y].req = rpc[x][y].req
                         /\ r[x][y].reply = rpc[x][y].reply
  BY DEF NoNewVotes, MarkSeen
<1>1. /\ rpc[i] \in [Server -> Call \cup {None}]
      /\ rpc[x] \in [Server -> Call \cup {None}]
      /\ rpc[i][j] \in Call
  BY DEF RpcType, Unseen
<1> DEFINE c == [rpc[i][j] EXCEPT !.seen = TRUE]
<1>2. c.req = rpc[i][j].req /\ c.reply = rpc[i][j].reply
  BY <1>1 DEF Call
<1>3. [rpc EXCEPT ![i][j].seen = TRUE][x][y] =
        IF x = i /\ y = j THEN c ELSE rpc[x][y]
  BY <1>1 DEF RpcType
<1> HIDE DEF c
<1> QED  BY <1>2, <1>3 DEF Unseen

LEMMA AnsweredWeakens ==
  ASSUME rpc \in RpcType, NEW i \in Server, NEW j \in Server
  PROVE  NoNewVotes([rpc EXCEPT ![i][j] = None], rpc)
<1> SUFFICES ASSUME NEW x \in Server, NEW y \in Server
             PROVE  [rpc EXCEPT ![i][j] = None][x][y] \in {rpc[x][y], None}
  BY DEF NoNewVotes
<1>1. /\ rpc[i] \in [Server -> Call \cup {None}]
      /\ rpc[x] \in [Server -> Call \cup {None}]
  BY DEF RpcType
<1> QED  BY <1>1 DEF RpcType

\* A reply about a vote is a denial or a ballot.
LEMMA ReplyKeepsRpcOK ==
  ASSUME NEW r \in RpcType, NEW B, RpcOK(r, B),
         NEW i \in Server, NEW j \in Server, NEW q, NEW a \in Reply,
         q.type = "vote" /\ a.ok => Ballot(j, q.term, i) \in B
  PROVE  RpcOK(SendReply(r, i, j, q, a), B)
<1>1. CASE r[i][j] # None /\ r[i][j].req = q /\ r[i][j].reply = None
  <2> DEFINE c == [r[i][j] EXCEPT !.reply = a]
             s == SendReply(r, i, j, q, a)
  <2>1. r[i] \in [Server -> Call \cup {None}] /\ r[i][j] \in Call
    BY <1>1 DEF RpcType
  <2>2. c.req = q /\ c.reply = a
    BY <1>1, <2>1 DEF Call
  <2>3. ASSUME NEW x \in Server, NEW y \in Server
        PROVE  s[x][y] = IF x = i /\ y = j THEN c ELSE r[x][y]
    <3>1. r[x] \in [Server -> Call \cup {None}]  BY DEF RpcType
    <3> QED  BY <1>1, <2>1, <3>1 DEF SendReply, RpcType
  <2> HIDE DEF c, s
  <2>4. ASSUME NEW x \in Server, NEW y \in Server,
               s[x][y] # None, s[x][y].req.type = "vote"
        PROVE  /\ Ballot(x, s[x][y].req.term, x) \in B
               /\ s[x][y].reply # None /\ s[x][y].reply.ok
                    => Ballot(y, s[x][y].req.term, x) \in B
    <3>1. CASE x = i /\ y = j
      <4>1. s[x][y] = c  BY <2>3, <3>1
      <4>2. q.type = "vote"  BY <2>2, <2>4, <4>1
      <4>3. Ballot(i, q.term, i) \in B  BY <1>1, <4>2 DEF RpcOK
      <4> QED  BY <2>2, <3>1, <4>1, <4>2, <4>3
    <3>2. CASE ~(x = i /\ y = j)
      <4>1. s[x][y] = r[x][y]  BY <2>3, <3>2
      <4> QED  BY <2>4, <4>1 DEF RpcOK
    <3> QED  BY <3>1, <3>2
  <2>5. RpcOK(s, B)  BY <2>4 DEF RpcOK
  <2> QED  BY <2>5 DEF s
<1>2. CASE ~(r[i][j] # None /\ r[i][j].req = q /\ r[i][j].reply = None)
  BY <1>2 DEF SendReply
<1> QED  BY <1>1, <1>2

-----------------------------------------------------------------------------
(* A peer's memory, queue and disk. *)

\* Nothing changes but that the process may have ended.
LEMMA PeerStays ==
  ASSUME NEW i \in Server, PeerOK(i),
         diskTerm'[i] = diskTerm[i], diskVote'[i] = diskVote[i],
         currentTerm'[i] = currentTerm[i], votedFor'[i] = votedFor[i],
         writes'[i] = writes[i], state'[i] # DOWN => state[i] # DOWN
  PROVE  PeerOK(i)'
  BY DEF PeerOK, MemoryIsLastWrite, WritesAscend, WritesMeanVotes

\* The process has ended, or has just been started from its disk.
LEMMA PeerIsReset ==
  ASSUME NEW i \in Server, writes'[i] = <<>>,
         state'[i] # DOWN =>
           currentTerm'[i] = diskTerm'[i] /\ votedFor'[i] = diskVote'[i]
  PROVE  PeerOK(i)'
  BY DEF PeerOK, MemoryIsLastWrite, WritesAscend, WritesMeanVotes

\* _updateState(): the memory and the queue go forward together.
LEMMA PeerUpdates ==
  ASSUME TypeOK, \A k \in Server : PeerOK(k),
         NEW i \in Server, NEW st, NEW t \in Nat, NEW v \in Option,
         NEW then, NEW from, NEW req,
         UpdateState(i, st, t, v, then, from, req),
         state[i] # DOWN, st # DOWN,
         Later(currentTerm[i], votedFor[i], t, v),
         then = "election" => v = i,
         then = "vote" => req.term = t,
         UNCHANGED <<diskTerm, diskVote>>
  PROVE  \A k \in Server : PeerOK(k)'
<1>1. ASSUME NEW k \in Server, k # i
      PROVE  PeerOK(k)'
  <2>1. /\ state'[k] = state[k] /\ currentTerm'[k] = currentTerm[k]
        /\ votedFor'[k] = votedFor[k] /\ writes'[k] = writes[k]
    BY <1>1 DEF UpdateState, TypeOK
  <2> QED  BY <2>1, PeerStays
<1> DEFINE w == [term |-> t, vote |-> v, then |-> then, from |-> from, req |-> req]
<1>2. /\ currentTerm'[i] = t /\ votedFor'[i] = v
      /\ diskTerm'[i] = diskTerm[i] /\ diskVote'[i] = diskVote[i]
  BY DEF UpdateState, TypeOK
<1>3. CASE Unchanged(i, t, v)
  <2>1. writes'[i] = writes[i]  BY <1>3 DEF UpdateState
  <2>2. currentTerm'[i] = currentTerm[i] /\ votedFor'[i] = votedFor[i]
    BY <1>2, <1>3 DEF Unchanged
  <2> QED  BY <1>1, <1>2, <2>1, <2>2, PeerStays
<1>4. CASE ~Unchanged(i, t, v)
  <2> DEFINE q == writes[i]
             n == Len(writes[i])
  <2>1. /\ q \in Seq(Write) /\ n \in Nat
        /\ writes'[i] = Append(q, w)
    BY <1>4 DEF UpdateState, TypeOK
  <2>2. /\ Len(writes'[i]) = n + 1 /\ writes'[i] # <<>>
        /\ writes'[i][n + 1] = w
        /\ \A m \in 1..n : writes'[i][m] = q[m]
    BY <2>1
  <2>3. w.term = t /\ w.vote = v /\ w.then = then /\ w.req = req
    OBVIOUS
  <2>4. MemoryIsLastWrite(i)'
    BY <1>2, <2>2, <2>3 DEF MemoryIsLastWrite
  <2>5. WritesMeanVotes(i)'
    <3>1. ASSUME NEW m \in 1..n + 1
          PROVE  m \in 1..n \/ m = n + 1
      BY <2>1
    <3>2. \A m \in 1..n :
            /\ q[m].then = "election" => q[m].vote = i
            /\ q[m].then = "vote" => q[m].req.term = q[m].term
      BY DEF PeerOK, WritesMeanVotes
    <3> HIDE DEF q, n, w
    <3>3. ASSUME NEW m \in 1..n + 1
          PROVE  /\ writes'[i][m].then = "election" => writes'[i][m].vote = i
                 /\ writes'[i][m].then = "vote"
                      => writes'[i][m].req.term = writes'[i][m].term
      BY <2>2, <2>3, <3>1, <3>2
    <3> QED  BY <2>2, <3>3 DEF WritesMeanVotes
  <2>6. WritesAscend(i)'
    <3>1. CASE n = 0
      <4>1. q = <<>>  BY <2>1, <3>1
      <4>2. Later(diskTerm[i], diskVote[i], t, v)
        BY <4>1 DEF PeerOK, MemoryIsLastWrite
      <4>3. \A a, b \in 1..1 : b # a + 1  OBVIOUS
      <4>4. n + 1 = 1  BY <3>1
      <4> HIDE DEF q, n, w
      <4> QED  BY <1>2, <2>2, <2>3, <4>2, <4>3, <4>4 DEF WritesAscend
    <3>2. CASE n # 0
      <4>1. q # <<>> /\ n \in 1..n /\ 1 \in 1..n  BY <2>1, <3>2
      <4>2. Later(q[n].term, q[n].vote, t, v)
        BY <4>1 DEF PeerOK, MemoryIsLastWrite
      <4>3. Later(diskTerm[i], diskVote[i], q[1].term, q[1].vote)
        BY <4>1 DEF PeerOK, WritesAscend
      <4>4. \A a, b \in 1..n : b = a + 1 =>
               Later(q[a].term, q[a].vote, q[b].term, q[b].vote)
        BY DEF PeerOK, WritesAscend
      <4>5. \A a, b \in 1..n + 1 : b = a + 1 =>
              a \in 1..n /\ (b \in 1..n \/ (a = n /\ b = n + 1))
        BY <2>1
      <4> HIDE DEF q, n, w
      <4>6. ASSUME NEW a \in 1..n + 1, NEW b \in 1..n + 1, b = a + 1
            PROVE  Later(writes'[i][a].term, writes'[i][a].vote,
                         writes'[i][b].term, writes'[i][b].vote)
        <5>1. CASE b \in 1..n
          BY <2>2, <4>4, <4>5, <4>6, <5>1
        <5>2. CASE a = n /\ b = n + 1
          BY <2>2, <2>3, <4>1, <4>2, <5>2
        <5> QED  BY <4>5, <4>6, <5>1, <5>2
      <4>7. Later(diskTerm'[i], diskVote'[i], writes'[i][1].term, writes'[i][1].vote)
        BY <1>2, <2>2, <4>1, <4>3
      <4> QED  BY <2>2, <4>6, <4>7 DEF WritesAscend
    <3> QED  BY <3>1, <3>2
  <2>7. PeerOK(i)'  BY <2>4, <2>5, <2>6 DEF PeerOK
  <2> QED  BY <1>1, <2>7
<1> QED  BY <1>3, <1>4

\* FilePersistence: the head of the queue reaches the disk.
LEMMA PeerWrites ==
  ASSUME TypeOK, \A k \in Server : PeerOK(k),
         NEW i \in Server, writes[i] # <<>>, WriteEnds(i), WriteLeavesQueue(i),
         UNCHANGED <<currentTerm, votedFor, state>>
  PROVE  \A k \in Server : PeerOK(k)'
<1>1. ASSUME NEW k \in Server, k # i
      PROVE  PeerOK(k)'
  <2>1. /\ diskTerm'[k] = diskTerm[k] /\ diskVote'[k] = diskVote[k]
        /\ writes'[k] = writes[k]
    BY <1>1 DEF WriteEnds, WriteLeavesQueue, TypeOK
  <2> QED  BY <2>1, PeerStays
<1> DEFINE q == writes[i]
           n == Len(writes[i])
<1>2. q \in Seq(Write) /\ n \in Nat /\ n > 0 /\ n \in 1..n /\ 1 \in 1..n
  BY DEF TypeOK
<1>3. /\ diskTerm'[i] = q[1].term /\ diskVote'[i] = q[1].vote
      /\ writes'[i] = Tail(q)
      /\ currentTerm'[i] = currentTerm[i] /\ votedFor'[i] = votedFor[i]
      /\ state'[i] = state[i]
  BY <1>2 DEF WriteEnds, WriteLeavesQueue, TypeOK
<1>4. /\ Len(writes'[i]) = n - 1 /\ n - 1 \in Nat
      /\ \A m \in 1..n - 1 : writes'[i][m] = q[m + 1] /\ m + 1 \in 1..n
      /\ writes'[i] \in Seq(Write)
  <2>1. /\ Tail(q) \in Seq(Write) /\ Len(Tail(q)) = n - 1
        /\ \A m \in 1..Len(Tail(q)) : Tail(q)[m] = q[m + 1]
    BY <1>2, HeadTailProperties
  <2>2. n - 1 \in Nat /\ \A m \in 1..n - 1 : m + 1 \in 1..n
    BY <1>2
  <2> HIDE DEF q, n
  <2> QED  BY <1>3, <2>1, <2>2
<1>5. writes'[i] = <<>> <=> n = 1
  <2>1. writes'[i] = <<>> <=> Len(writes'[i]) = 0  BY <1>4, EmptySeq
  <2> HIDE DEF q, n
  <2> QED  BY <1>2, <1>4, <2>1
<1>6. MemoryIsLastWrite(i)'
  <2>1. state[i] # DOWN => currentTerm[i] = q[n].term /\ votedFor[i] = q[n].vote
    BY DEF PeerOK, MemoryIsLastWrite
  <2> HIDE DEF q, n
  <2>2. n # 1 => writes'[i][n - 1] = q[n]
    <3>1. n # 1 => n - 1 \in 1..n - 1 /\ (n - 1) + 1 = n  BY <1>2
    <3> QED  BY <1>4, <3>1
  <2> QED  BY <1>3, <1>4, <1>5, <2>1, <2>2 DEF MemoryIsLastWrite
<1>7. WritesMeanVotes(i)'
  <2>1. \A m \in 1..n :
          /\ q[m].then = "election" => q[m].vote = i
          /\ q[m].then = "vote" => q[m].req.term = q[m].term
    BY DEF PeerOK, WritesMeanVotes
  <2> HIDE DEF q, n
  <2> QED  BY <1>4, <2>1 DEF WritesMeanVotes
<1>8. WritesAscend(i)'
  <2>1. \A a, b \in 1..n : b = a + 1 =>
          Later(q[a].term, q[a].vote, q[b].term, q[b].vote)
    BY DEF PeerOK, WritesAscend
  <2> HIDE DEF q, n
  <2>2. ASSUME NEW a \in 1..n - 1, NEW b \in 1..n - 1, b = a + 1
        PROVE  Later(writes'[i][a].term, writes'[i][a].vote,
                     writes'[i][b].term, writes'[i][b].vote)
    <3>1. b + 1 = (a + 1) + 1  BY <2>2
    <3> QED  BY <1>4, <2>1, <3>1
  <2>3. n # 1 => Later(diskTerm'[i], diskVote'[i],
                       writes'[i][1].term, writes'[i][1].vote)
    <3>1. n # 1 => 1 \in 1..n - 1 /\ 2 \in 1..n  BY <1>2
    <3>2. n # 1 => Later(q[1].term, q[1].vote, q[2].term, q[2].vote)
      BY <1>2, <2>1, <3>1
    <3>3. n # 1 => writes'[i][1] = q[2]  BY <1>4, <3>1
    <3> QED  BY <1>3, <3>2, <3>3
  <2> QED  BY <1>4, <1>5, <2>2, <2>3 DEF WritesAscend
<1>9. PeerOK(i)'  BY <1>6, <1>7, <1>8 DEF PeerOK
<1> QED  BY <1>1, <1>9

-----------------------------------------------------------------------------
(* The ballots. *)

\* The disks go forward.
DisksAdvance ==
  \A k \in Server : Later(diskTerm[k], diskVote[k], diskTerm'[k], diskVote'[k])

LEMMA SameDisks ==
  ASSUME TypeOK, UNCHANGED <<diskTerm, diskVote>>
  PROVE  DisksAdvance
  BY DEF DisksAdvance, Later, TypeOK

LEMMA WriteAdvances ==
  ASSUME TypeOK, NEW i \in Server, PeerOK(i), writes[i] # <<>>, WriteEnds(i)
  PROVE  /\ DisksAdvance
         /\ diskTerm'[i] = Head(writes[i]).term
         /\ diskVote'[i] = Head(writes[i]).vote
<1>1. writes[i][1] = Head(writes[i])
  BY DEF TypeOK
<1>2. Later(diskTerm[i], diskVote[i], Head(writes[i]).term, Head(writes[i]).vote)
  BY <1>1 DEF PeerOK, WritesAscend
<1>3. /\ diskTerm'[i] = Head(writes[i]).term
      /\ diskVote'[i] = Head(writes[i]).vote
  BY DEF TypeOK, WriteEnds
<1>4. ASSUME NEW k \in Server, k # i
      PROVE  Later(diskTerm[k], diskVote[k], diskTerm'[k], diskVote'[k])
  BY <1>4 DEF TypeOK, WriteEnds, Later
<1> QED  BY <1>2, <1>3, <1>4 DEF DisksAdvance

\* A ballot for what is on the disk of its voter is the only one of its term.
LEMMA BallotIsCast ==
  ASSUME TypeOK, TypeOK', BallotsStored, OneBallotPerTerm, DisksAdvance,
         NEW j \in Server,
         ballots' \subseteq ballots \cup {Ballot(j, diskTerm'[j], diskVote'[j])}
  PROVE  BallotsStored' /\ OneBallotPerTerm'
<1>1. ASSUME NEW b \in ballots'
      PROVE  \/ b.term < diskTerm'[b.voter]
             \/ b.term = diskTerm'[b.voter] /\ b.cand = diskVote'[b.voter]
  <2>1. CASE b \in ballots
    <3>1. b.voter \in Server /\ b.term \in Nat /\ b.cand \in Server
      BY <2>1 DEF TypeOK
    <3>2. \/ b.term < diskTerm[b.voter]
          \/ b.term = diskTerm[b.voter] /\ b.cand = diskVote[b.voter]
      BY <2>1 DEF BallotsStored
    <3>3. diskTerm[b.voter] \in Nat /\ diskTerm'[b.voter] \in Nat
      BY <3>1 DEF TypeOK
    <3>4. b.cand # None  BY <3>1, NoneAssumption
    <3> QED  BY <3>1, <3>2, <3>3, <3>4 DEF DisksAdvance, Later
  <2>2. CASE b = Ballot(j, diskTerm'[j], diskVote'[j])
    BY <2>2 DEF Ballot
  <2> QED  BY <2>1, <2>2
<1>2. BallotsStored'  BY <1>1 DEF BallotsStored
<1>3. ASSUME NEW b \in ballots', NEW c \in ballots',
             b.voter = c.voter, b.term = c.term
      PROVE  b.cand = c.cand
  <2>1. CASE b \in ballots /\ c \in ballots
    BY <1>3, <2>1 DEF OneBallotPerTerm
  <2>2. ASSUME NEW d \in ballots', d.voter = j, d.term = diskTerm'[j]
        PROVE  d.cand = diskVote'[j]
    <3>1. diskTerm'[j] \in Nat  BY DEF TypeOK
    <3> QED  BY <1>1, <2>2, <3>1
  <2>3. CASE b = Ballot(j, diskTerm'[j], diskVote'[j])
    BY <1>3, <2>2, <2>3 DEF Ballot
  <2>4. CASE c = Ballot(j, diskTerm'[j], diskVote'[j])
    BY <1>3, <2>2, <2>4 DEF Ballot
  <2> QED  BY <2>1, <2>3, <2>4
<1>4. OneBallotPerTerm'  BY <1>3 DEF OneBallotPerTerm
<1> QED  BY <1>2, <1>4

\* What a step that elects nobody and adds to no tally must show.
LEMMA StepKeepsElectionInv ==
  ASSUME TypeOK, TypeOK', ElectionInv,
         \A k \in Server : PeerOK(k)',
         \A k \in Server : reading'[k] \in {reading[k], None},
         DisksAdvance,
         ballots \subseteq ballots',
         NEW j \in Server,
         ballots' \subseteq ballots \cup {Ballot(j, diskTerm'[j], diskVote'[j])},
         RpcOK(rpc', ballots'),
         \A k \in Server : state'[k] = FSM_CANDIDATE =>
           \/ votes'[k] \subseteq {k}
           \/ /\ state[k] = FSM_CANDIDATE
              /\ votes'[k] = votes[k] /\ currentTerm'[k] = currentTerm[k],
         elected' = elected
  PROVE  ElectionInv'
<1>1. NoReading'  BY DEF ElectionInv, NoReading
<1>2. BallotsStored' /\ OneBallotPerTerm'
  BY BallotIsCast DEF ElectionInv
<1>3. RpcOK(rpc, ballots)'  OBVIOUS
<1>4. VotesAreBallots'  BY DEF ElectionInv, VotesAreBallots
<1>5. LeadersHaveMajorities'  BY DEF ElectionInv, LeadersHaveMajorities, IsMajority
<1> QED  BY <1>1, <1>2, <1>3, <1>4, <1>5 DEF ElectionInv

\* The variables that the elections are about.
votingVars == <<diskTerm, diskVote, currentTerm, votedFor, state, writes, votes,
                reading, ballots, elected>>

\* A step that touches the sockets at most.
LEMMA QuietStep ==
  ASSUME TypeOK, TypeOK', ElectionInv, UNCHANGED votingVars,
         RpcOK(rpc', ballots)
  PROVE  ElectionInv'
<1>1. PICK j \in Server : TRUE
  <2>1. Server # {}  BY ServerAssumption, FS_EmptySet
  <2> QED  BY <2>1
<1>2. /\ UNCHANGED <<diskTerm, diskVote>>
      /\ ballots' = ballots /\ elected' = elected /\ reading' = reading
      /\ votes' = votes /\ state' = state /\ currentTerm' = currentTerm
      /\ votedFor' = votedFor /\ writes' = writes
  BY DEF votingVars
<1>3. DisksAdvance  BY <1>2, SameDisks
<1>4. \A k \in Server : PeerOK(k)'
  BY <1>2, PeerStays DEF ElectionInv
<1>5. RpcOK(rpc', ballots')  BY <1>2
<1> QED  BY <1>1, <1>2, <1>3, <1>4, <1>5, StepKeepsElectionInv

-----------------------------------------------------------------------------
(* Steps that only touch the sockets. *)

\* What the invariant says of the sockets.
LEMMA SocketsOK ==
  ASSUME TypeOK, ElectionInv
  PROVE  rpc \in RpcType /\ RpcOK(rpc, ballots)
  BY DEF TypeOK, RpcType, ElectionInv

LEMMA DenyVoteStep ==
  ASSUME TypeOK, TypeOK', ElectionInv, NEW i \in Server, NEW j \in Server,
         NEW q \in VoteRequestMsg, DenyVote(i, j, q)
  PROVE  ElectionInv'
<1>1. Answer(currentTerm[j], FALSE) \in Reply /\ ~Answer(currentTerm[j], FALSE).ok
  BY DEF Answer, Reply, TypeOK
<1>2. RpcOK(rpc', ballots)
  BY <1>1, SocketsOK, ReplyKeepsRpcOK DEF DenyVote
<1>3. UNCHANGED votingVars
  BY DEF DenyVote, votingVars, disk, tally, history
<1> QED  BY <1>2, <1>3, QuietStep

LEMMA RefuseAppendStep ==
  ASSUME TypeOK, TypeOK', ElectionInv, NEW i \in Server, NEW j \in Server,
         RefuseAppend(i, j)
  PROVE  ElectionInv'
<1>1. PICK q \in ArrivingAppends(i, j) :
        rpc' = SendReply(MarkSeen(i, j, q), i, j, q, Answer(currentTerm[j], FALSE))
  BY DEF RefuseAppend
<1>2. Answer(currentTerm[j], FALSE) \in Reply /\ ~Answer(currentTerm[j], FALSE).ok
  BY DEF Answer, Reply, TypeOK
<1>3. MarkSeen(i, j, q) \in RpcType /\ RpcOK(MarkSeen(i, j, q), ballots)
  BY SocketsOK, MarkSeenType, MarkSeenWeakens, RpcWeakens
<1>4. RpcOK(rpc', ballots)
  BY <1>1, <1>2, <1>3, ReplyKeepsRpcOK
<1>5. UNCHANGED votingVars
  BY DEF RefuseAppend, votingVars, disk, tally, history
<1> QED  BY <1>4, <1>5, QuietStep

LEMMA SendAppendStep ==
  ASSUME TypeOK, TypeOK', ElectionInv, NEW i \in Server, NEW j \in Server,
         SendAppend(i, j)
  PROVE  ElectionInv'
<1>1. PICK c : c.req.type = "append" /\ rpc' = [rpc EXCEPT ![i][j] = c]
  BY DEF SendAppend
<1>2. NoNewVotes(rpc', rpc)
  <2> SUFFICES ASSUME NEW x \in Server, NEW y \in Server
               PROVE  rpc'[x][y] \in {rpc[x][y], c}
    BY <1>1 DEF NoNewVotes
  <2>1. rpc \in RpcType /\ rpc[i] \in [Server -> Call \cup {None}]
    BY SocketsOK DEF RpcType
  <2> QED  BY <1>1, <2>1 DEF RpcType
<1>3. RpcOK(rpc', ballots)  BY <1>2, SocketsOK, RpcWeakens
<1>4. UNCHANGED votingVars
  BY DEF SendAppend, votingVars, disk, tally, history
<1> QED  BY <1>3, <1>4, QuietStep

LEMMA ConnectionLostStep ==
  ASSUME TypeOK, TypeOK', ElectionInv, NEW i \in Server, NEW j \in Server,
         ConnectionLost(i, j)
  PROVE  ElectionInv'
<1>1. NoNewVotes(rpc', rpc)
  <2> DEFINE c == [rpc[i][j] EXCEPT !.seen = FALSE, !.reply = None]
  <2>1. rpc \in RpcType /\ rpc[i] \in [Server -> Call \cup {None}]
    BY SocketsOK DEF RpcType
  <2>2. rpc[i][j] \in Call  BY <2>1 DEF ConnectionLost
  <2>3. c.req = rpc[i][j].req /\ c.reply = None  BY <2>2 DEF Call
  <2>4. rpc' = [rpc EXCEPT ![i] = [rpc[i] EXCEPT ![j] = c]]
    BY <2>1 DEF ConnectionLost, RpcType
  <2>5. rpc[i][j] # None  BY DEF ConnectionLost
  <2> HIDE DEF c
  <2>6. ASSUME NEW x \in Server, NEW y \in Server
        PROVE  rpc'[x][y] = IF x = i /\ y = j THEN c ELSE rpc[x][y]
    <3>1. rpc[x] \in [Server -> Call \cup {None}]  BY <2>1 DEF RpcType
    <3> QED  BY <2>1, <2>4, <3>1 DEF RpcType
  <2> QED  BY <2>3, <2>5, <2>6 DEF NoNewVotes
<1>2. RpcOK(rpc', ballots)  BY <1>1, SocketsOK, RpcWeakens
<1>3. UNCHANGED votingVars
  BY DEF ConnectionLost, votingVars, disk, tally, history
<1> QED  BY <1>2, <1>3, QuietStep

LEMMA ClientStep ==
  ASSUME TypeOK, TypeOK', ElectionInv, NEW i \in Server,
         \/ \E v \in Value : ClientUpdate(i, v)
         \/ Flush(i)
         \/ Apply(i)
  PROVE  ElectionInv'
<1>1. UNCHANGED votingVars /\ rpc' = rpc
  BY DEF ClientUpdate, Flush, Apply, votingVars, disk, tally, network, history
<1> QED  BY <1>1, SocketsOK, QuietStep

-----------------------------------------------------------------------------
(* Steps of a peer that starts to follow. *)

\* All peers but i that were candidates are the same candidates.
LEMMA OtherCandidates ==
  ASSUME TypeOK, NEW i \in Server, NEW st, NEW t, NEW v, NEW then, NEW from,
         NEW req, UpdateState(i, st, t, v, then, from, req),
         st # FSM_CANDIDATE, ForgetRole(i)
  PROVE  \A k \in Server : state'[k] = FSM_CANDIDATE =>
           /\ state[k] = FSM_CANDIDATE
           /\ votes'[k] = votes[k] /\ currentTerm'[k] = currentTerm[k]
  BY DEF TypeOK, UpdateState, ForgetRole

LEMMA BecomeFollowerStep ==
  ASSUME TypeOK, TypeOK', ElectionInv, NEW i \in Server, NEW t \in Nat,
         NEW r \in RpcType, RpcOK(r, ballots), BecomeFollower(i, t, r),
         t > currentTerm[i], state[i] # DOWN
  PROVE  ElectionInv'
<1>1. /\ UpdateState(i, FSM_FOLLOWER, t, None, "nothing", None, None)
      /\ ForgetRole(i)
      /\ rpc' = CancelPendingRpcs(r, i)
      /\ UNCHANGED <<diskTerm, diskVote, reading, ballots, elected>>
  BY DEF BecomeFollower, disk, history
<1>2. Later(currentTerm[i], votedFor[i], t, None)
  BY DEF Later, TypeOK
<1>3. FSM_FOLLOWER # DOWN /\ FSM_FOLLOWER # FSM_CANDIDATE
  BY DEF FSM_FOLLOWER, FSM_CANDIDATE, DOWN
<1>4. None \in Option  BY DEF Option
<1>5. \A k \in Server : PeerOK(k)'
  BY <1>1, <1>2, <1>3, <1>4, PeerUpdates DEF ElectionInv
<1>6. DisksAdvance  BY <1>1, SameDisks
<1>7. RpcOK(rpc', ballots')  BY <1>1, CancelWeakens, RpcWeakens
<1>8. \A k \in Server : state'[k] = FSM_CANDIDATE =>
        /\ state[k] = FSM_CANDIDATE
        /\ votes'[k] = votes[k] /\ currentTerm'[k] = currentTerm[k]
  BY <1>1, <1>3, OtherCandidates
<1> QED  BY <1>1, <1>5, <1>6, <1>7, <1>8, StepKeepsElectionInv

LEMMA TakeTermStep ==
  ASSUME TypeOK, TypeOK', ElectionInv, VoteResendRace = FALSE,
         NEW i \in Server, NEW j \in Server, NEW q \in VoteRequestMsg,
         TakeTerm(i, j, q), state[j] # DOWN
  PROVE  ElectionInv'
<1> DEFINE grant == GrantsVote(i, j, q)
           vote == IF grant THEN i ELSE None
           r == CancelPendingRpcs(rpc, j)
<1>1. /\ ~StaleTerm(j, q)
      /\ grant \/ q.term > currentTerm[j]
      /\ \A n \in 1..Len(writes[j]) :
           ~(writes[j][n].term = q.term /\ writes[j][n].vote = i)
      /\ UpdateState(j, FSM_FOLLOWER, q.term, vote, "vote", i, q)
      /\ ForgetRole(j)
      /\ UNCHANGED <<diskTerm, diskVote, reading, elected>>
  BY DEF TakeTerm, disk
<1>2. /\ q.term \in Nat /\ q.type = "vote" /\ currentTerm[j] \in Nat
      /\ vote \in Option /\ grant \in BOOLEAN
  BY DEF VoteRequestMsg, TypeOK, Option, GrantsVote, UpToDate
<1>3. Later(currentTerm[j], votedFor[j], q.term, vote)
  <2>1. ~(q.term < currentTerm[j])  BY <1>1 DEF StaleTerm
  <2>2. q.term > currentTerm[j] \/ q.term = currentTerm[j]  BY <1>2, <2>1
  <2>3. CASE q.term > currentTerm[j]  BY <1>2, <2>3 DEF Later
  <2>4. CASE q.term = currentTerm[j]
    <3>1. grant  BY <1>1, <1>2, <2>4
    <3>2. votedFor[j] \in {None, i}
      BY <1>2, <2>4, <3>1 DEF GrantsVote
    <3> QED  BY <2>4, <3>1, <3>2 DEF Later
  <2> QED  BY <2>2, <2>3, <2>4
<1>4. FSM_FOLLOWER # DOWN /\ FSM_FOLLOWER # FSM_CANDIDATE
  BY DEF FSM_FOLLOWER, FSM_CANDIDATE, DOWN
<1>5. \A k \in Server : PeerOK(k)'
  <2> HIDE DEF vote
  <2> QED  BY <1>1, <1>2, <1>3, <1>4, PeerUpdates DEF ElectionInv
<1>6. DisksAdvance  BY <1>1, SameDisks
<1>7. \A k \in Server : state'[k] = FSM_CANDIDATE =>
        /\ state[k] = FSM_CANDIDATE
        /\ votes'[k] = votes[k] /\ currentTerm'[k] = currentTerm[k]
  BY <1>1, <1>4, OtherCandidates
<1>8. r \in RpcType /\ RpcOK(r, ballots)
  BY SocketsOK, CancelType, CancelWeakens, RpcWeakens
<1>9. CASE Unchanged(j, q.term, vote)
  <2>1. grant
    BY <1>1, <1>2, <1>9 DEF Unchanged
  <2>2. diskTerm[j] = q.term /\ diskVote[j] = i
    <3>1. currentTerm[j] = q.term /\ votedFor[j] = i
      BY <1>9, <2>1 DEF Unchanged
    <3>2. MemoryIsLastWrite(j)  BY DEF ElectionInv, PeerOK
    <3>3. writes[j] # <<>> => Len(writes[j]) \in 1..Len(writes[j])
      BY DEF TypeOK
    <3>4. writes[j] = <<>>
      BY <1>1, <3>1, <3>2, <3>3 DEF MemoryIsLastWrite
    <3> QED  BY <3>1, <3>2, <3>4 DEF MemoryIsLastWrite
  <2>3. /\ rpc' = SendReply(r, i, j, q, Answer(q.term, grant))
        /\ ballots' = Cast(i, j, q.term)
    BY <1>9 DEF TakeTerm
  <2>4. ballots' = ballots \cup {Ballot(j, q.term, i)}
    BY <2>3 DEF Cast, Ballot
  <2>5. ballots' = ballots \cup {Ballot(j, diskTerm'[j], diskVote'[j])}
    BY <1>1, <2>2, <2>4
  <2>6. RpcOK(rpc', ballots')
    <3>1. Answer(q.term, grant) \in Reply
      BY <1>2 DEF Answer, Reply
    <3>2. NoNewVotes(r, r)  BY DEF NoNewVotes
    <3> HIDE DEF r, grant
    <3>3. RpcOK(r, ballots')  BY <1>8, <2>4, <3>2, RpcWeakens
    <3>4. Ballot(j, q.term, i) \in ballots'  BY <2>4
    <3> QED  BY <1>8, <2>3, <3>1, <3>3, <3>4, ReplyKeepsRpcOK
  <2> QED  BY <1>1, <1>5, <1>6, <1>7, <2>5, <2>6, StepKeepsElectionInv
<1>10. CASE ~Unchanged(j, q.term, vote)
  <2>1. rpc' = r /\ ballots' = ballots
    BY <1>10 DEF TakeTerm
  <2> HIDE DEF r
  <2>2. RpcOK(rpc', ballots')  BY <1>8, <2>1
  <2> QED  BY <1>1, <1>5, <1>6, <1>7, <2>1, <2>2, StepKeepsElectionInv
<1> QED  BY <1>9, <1>10

LEMMA VoteRequestStep ==
  ASSUME TypeOK, TypeOK', ElectionInv, VoteResendRace = FALSE,
         NEW i \in Server, NEW j \in Server, VoteRequest(i, j)
  PROVE  ElectionInv'
<1>1. PICK q \in Arriving(i, j, "vote") : DenyVote(i, j, q) \/ TakeTerm(i, j, q)
  BY DEF VoteRequest
<1>2. q \in VoteRequestMsg  BY ArrivingType
<1>3. state[j] # DOWN  BY DEF VoteRequest
<1> QED  BY <1>1, <1>2, <1>3, DenyVoteStep, TakeTermStep

LEMMA AppendRequestStep ==
  ASSUME TypeOK, TypeOK', ElectionInv, NEW i \in Server, NEW j \in Server,
         AppendRequest(i, j)
  PROVE  ElectionInv'
<1>1. PICK q \in ArrivingAppends(i, j) :
        /\ ~StaleTerm(j, q)
        /\ TermIsRead(j, i, q, q.term, CapturedVote(j, q), MarkSeen(i, j, q), TRUE)
  BY DEF AppendRequest
<1>2. q \in AppendRequestMsg  BY ArrivingType
<1> DEFINE v == CapturedVote(j, q)
           t == q.term
           r == CancelPendingRpcs(MarkSeen(i, j, q), j)
           ok == PrevMatches(log[j], q)
           then == IF ok THEN "append" ELSE "refuse"
<1>3. t \in Nat /\ v \in Option /\ q.type = "append" /\ currentTerm[j] \in Nat
  BY <1>2, CapturedType DEF AppendRequestMsg, TypeOK
<1>4. state[j] # DOWN /\ UNCHANGED <<diskTerm, diskVote, reading, ballots, elected>>
  BY DEF AppendRequest, disk, history
<1>5. UpdateState(j, FSM_FOLLOWER, t, v, then, i, q) /\ ForgetRole(j)
  BY <1>1 DEF TermIsRead
<1>6. Later(currentTerm[j], votedFor[j], t, v)
  <2>1. ~(t < currentTerm[j])  BY <1>1 DEF StaleTerm
  <2>2. t > currentTerm[j] \/ t = currentTerm[j]  BY <1>3, <2>1
  <2>3. CASE t > currentTerm[j]  BY <1>3, <2>3 DEF Later
  <2>4. CASE t = currentTerm[j]
    BY <1>3, <2>4 DEF Later, CapturedVote
  <2> QED  BY <2>2, <2>3, <2>4
<1>7. FSM_FOLLOWER # DOWN /\ FSM_FOLLOWER # FSM_CANDIDATE
  BY DEF FSM_FOLLOWER, FSM_CANDIDATE, DOWN
<1>8. then # "election" /\ then # "vote"  OBVIOUS
<1>9. \A k \in Server : PeerOK(k)'
  <2> HIDE DEF v, t, then
  <2> QED  BY <1>3, <1>4, <1>5, <1>6, <1>7, <1>8, PeerUpdates DEF ElectionInv
<1>10. RpcOK(rpc', ballots')
  <2>1. MarkSeen(i, j, q) \in RpcType /\ RpcOK(MarkSeen(i, j, q), ballots)
    BY SocketsOK, MarkSeenType, MarkSeenWeakens, RpcWeakens
  <2>2. r \in RpcType /\ RpcOK(r, ballots)
    BY <2>1, CancelType, CancelWeakens, RpcWeakens
  <2>3. CASE FinishAppend(j, i, q, t, ok, r)
    <3> DEFINE a == [term |-> t, ok |-> ok,
                     conflict |-> IF ~ok /\ Len(log[j]) < q.prev
                                  THEN Len(log[j]) + 1 ELSE 0]
    <3>1. rpc' = SendReply(r, i, j, q, a)  BY <2>3 DEF FinishAppend
    <3>2. a \in Reply
      <4>1. Len(log[j]) \in Nat  BY DEF TypeOK
      <4>2. ok \in BOOLEAN  BY DEF PrevMatches
      <4> QED  BY <1>3, <4>1, <4>2 DEF Reply
    <3> HIDE DEF a, r
    <3> QED  BY <1>3, <1>4, <2>2, <3>1, <3>2, ReplyKeepsRpcOK
  <2>4. CASE rpc' = r  BY <1>4, <2>2, <2>4
  <2> QED  BY <1>1, <2>3, <2>4 DEF TermIsRead
<1>11. DisksAdvance  BY <1>4, SameDisks
<1>12. \A k \in Server : state'[k] = FSM_CANDIDATE =>
        /\ state[k] = FSM_CANDIDATE
        /\ votes'[k] = votes[k] /\ currentTerm'[k] = currentTerm[k]
  <2> HIDE DEF v, t, then
  <2> QED  BY <1>5, <1>7, OtherCandidates
<1> QED  BY <1>4, <1>9, <1>10, <1>11, <1>12, StepKeepsElectionInv

-----------------------------------------------------------------------------
(* The end of a process, and the ends of writes. *)

LEMMA FailStep ==
  ASSUME TypeOK, TypeOK', ElectionInv, NEW i \in Server, Fail(i), DisksAdvance,
         \A k \in Server : k # i =>
           diskTerm'[k] = diskTerm[k] /\ diskVote'[k] = diskVote[k]
  PROVE  ElectionInv'
<1>1. /\ state' = [state EXCEPT ![i] = DOWN]
      /\ writes' = [writes EXCEPT ![i] = <<>>]
      /\ reading' = [reading EXCEPT ![i] = None]
      /\ rpc' = [rpc EXCEPT ![i] = Idle]
      /\ ForgetRole(i)
      /\ UNCHANGED <<currentTerm, votedFor, ballots, elected>>
  BY DEF Fail, history
<1>2. \A k \in Server : PeerOK(k)'
  <2>1. PeerOK(i)'
    <3>1. writes'[i] = <<>> /\ state'[i] = DOWN  BY <1>1 DEF TypeOK
    <3> QED  BY <3>1, PeerIsReset
  <2>2. ASSUME NEW k \in Server, k # i
        PROVE  PeerOK(k)'
    <3>1. state'[k] = state[k] /\ writes'[k] = writes[k]
      BY <1>1, <2>2 DEF TypeOK
    <3> QED  BY <1>1, <2>2, <3>1, PeerStays DEF ElectionInv
  <2> QED  BY <2>1, <2>2
<1>3. RpcOK(rpc', ballots')
  BY <1>1, SocketsOK, IdleWeakens, RpcWeakens
<1>4. \A k \in Server : state'[k] = FSM_CANDIDATE =>
        /\ state[k] = FSM_CANDIDATE
        /\ votes'[k] = votes[k] /\ currentTerm'[k] = currentTerm[k]
  BY <1>1 DEF TypeOK, ForgetRole, FSM_CANDIDATE, DOWN
<1>5. \A k \in Server : reading'[k] \in {reading[k], None}
  BY <1>1 DEF TypeOK
<1> QED  BY <1>1, <1>2, <1>3, <1>4, <1>5, StepKeepsElectionInv

LEMMA AppendRequestFailsStep ==
  ASSUME TypeOK, TypeOK', ElectionInv, NEW i \in Server, NEW j \in Server,
         AppendRequestFails(i, j)
  PROVE  ElectionInv'
<1>1. Fail(j) /\ UNCHANGED <<diskTerm, diskVote>>
  BY DEF AppendRequestFails
<1> QED  BY <1>1, SameDisks, FailStep

\* When a write ends: the disk, the peers and the ballot that may be cast.
LEMMA WriteStep ==
  ASSUME TypeOK, TypeOK', ElectionInv, NEW i \in Server, writes[i] # <<>>,
         WriteEnds(i), WriteLeavesQueue(i),
         UNCHANGED <<currentTerm, votedFor, state, votes, elected, reading>>,
         ballots \subseteq ballots',
         ballots' \subseteq
           ballots \cup {Ballot(i, Head(writes[i]).term, Head(writes[i]).vote)},
         RpcOK(rpc', ballots')
  PROVE  ElectionInv'
<1>1. PeerOK(i)  BY DEF ElectionInv
<1>2. /\ DisksAdvance
      /\ diskTerm'[i] = Head(writes[i]).term
      /\ diskVote'[i] = Head(writes[i]).vote
  BY <1>1, WriteAdvances
<1>3. \A k \in Server : PeerOK(k)'
  BY PeerWrites DEF ElectionInv
<1>4. ballots' \subseteq ballots \cup {Ballot(i, diskTerm'[i], diskVote'[i])}
  BY <1>2
<1> QED  BY <1>2, <1>3, <1>4, StepKeepsElectionInv

LEMMA NothingPersistedStep ==
  ASSUME TypeOK, TypeOK', ElectionInv, NEW i \in Server, NothingPersisted(i)
  PROVE  ElectionInv'
<1>1. RpcOK(rpc', ballots')
  BY SocketsOK DEF NothingPersisted, network, history
<1> QED
  BY <1>1, WriteStep DEF NothingPersisted, tally, history

\* What the head of the queue says.
LEMMA HeadMeansVote ==
  ASSUME TypeOK, ElectionInv, NEW i \in Server, writes[i] # <<>>
  PROVE  /\ Head(writes[i]).then = "election" => Head(writes[i]).vote = i
         /\ Head(writes[i]).then = "vote"
              => Head(writes[i]).req.term = Head(writes[i]).term
<1>1. 1 \in 1..Len(writes[i]) /\ Head(writes[i]) = writes[i][1]
  BY DEF TypeOK
<1>2. WritesMeanVotes(i)  BY DEF ElectionInv, PeerOK
<1> QED  BY <1>1, <1>2 DEF WritesMeanVotes

LEMMA VotePersistedStep ==
  ASSUME TypeOK, TypeOK', ElectionInv, NEW j \in Server, VotePersisted(j)
  PROVE  ElectionInv'
<1> DEFINE w == Head(writes[j])
           grant == w.vote = w.from
           a == Answer(w.term, grant)
<1>1. /\ writes[j] # <<>> /\ w.then = "vote"
      /\ WriteEnds(j) /\ WriteLeavesQueue(j)
      /\ rpc' = SendReply(rpc, w.from, j, w.req, a)
      /\ ballots' = IF grant THEN Cast(w.from, j, w.term) ELSE ballots
      /\ UNCHANGED <<currentTerm, votedFor, state, votes, elected, reading>>
  BY DEF VotePersisted, tally
<1>2. w \in Write /\ w.term \in Nat  BY <1>1, WriteEndsType
<1>3. w.from \in Server /\ w.req.term = w.term
  BY <1>1, <1>2, HeadMeansVote DEF Write
<1>4. /\ ballots \subseteq ballots'
      /\ ballots' \subseteq ballots \cup {Ballot(j, w.term, w.vote)}
      /\ grant => Ballot(j, w.req.term, w.from) \in ballots'
  <2>1. CASE grant
    <3>1. ballots' = ballots \cup {Ballot(j, w.term, w.from)}
      BY <1>1, <2>1 DEF Cast, Ballot
    <3> QED  BY <1>3, <2>1, <3>1
  <2>2. CASE ~grant  BY <1>1, <2>2
  <2> QED  BY <2>1, <2>2
<1>5. a \in Reply /\ a.ok = grant
  BY <1>2 DEF Answer, Reply
<1>6. RpcOK(rpc', ballots')
  <2>1. NoNewVotes(rpc, rpc)  BY DEF NoNewVotes
  <2>2. RpcOK(rpc, ballots')  BY <1>4, <2>1, SocketsOK, RpcWeakens
  <2>3. a.ok => Ballot(j, w.req.term, w.from) \in ballots'  BY <1>4, <1>5
  <2>4. rpc \in RpcType  BY SocketsOK
  <2>5. rpc' = SendReply(rpc, w.from, j, w.req, a)  BY <1>1
  <2> HIDE DEF a, w
  <2> QED  BY <1>3, <1>5, <2>2, <2>3, <2>4, <2>5, ReplyKeepsRpcOK
<1> HIDE DEF grant, a
<1> QED  BY <1>1, <1>4, <1>6, WriteStep

LEMMA AppendPersistedStep ==
  ASSUME TypeOK, TypeOK', ElectionInv, NEW j \in Server, AppendPersisted(j)
  PROVE  ElectionInv'
<1> DEFINE w == Head(writes[j])
           ok == w.then = "append"
<1>1. writes[j] # <<>> /\ WriteEnds(j) /\ w.then \in {"append", "refuse"}
  BY DEF AppendPersisted
<1>2. w \in Write /\ w.term \in Nat  BY <1>1, WriteEndsType
<1>3. CASE Fail(j)
  <2>1. PeerOK(j)  BY DEF ElectionInv
  <2>2. DisksAdvance  BY <1>1, <2>1, WriteAdvances
  <2>3. \A k \in Server : k # j =>
          diskTerm'[k] = diskTerm[k] /\ diskVote'[k] = diskVote[k]
    BY <1>1 DEF WriteEnds, TypeOK
  <2> QED  BY <1>3, <2>2, <2>3, FailStep
<1>4. CASE ~Fail(j)
  <2>1. /\ FinishAppend(j, w.from, w.req, w.term, ok, rpc)
        /\ WriteLeavesQueue(j)
        /\ UNCHANGED <<currentTerm, votedFor, state, votes, elected, reading,
                       ballots>>
    BY <1>4 DEF AppendPersisted, tally, history
  <2>2. w.from \in Server /\ w.req.type = "append"
    BY <1>1, <1>2 DEF Write, AppendRequestMsg
  <2> DEFINE a == [term |-> w.term, ok |-> ok,
                   conflict |-> IF ~ok /\ Len(log[j]) < w.req.prev
                                THEN Len(log[j]) + 1 ELSE 0]
  <2>3. rpc' = SendReply(rpc, w.from, j, w.req, a)  BY <2>1 DEF FinishAppend
  <2>4. a \in Reply
    <3>1. Len(log[j]) + 1 \in Nat  BY DEF TypeOK
    <3> QED  BY <1>2, <3>1 DEF Reply
  <2>5. RpcOK(rpc', ballots)
    <3> HIDE DEF a, w
    <3> QED  BY <2>2, <2>3, <2>4, SocketsOK, ReplyKeepsRpcOK
  <2> QED  BY <1>1, <2>1, <2>5, WriteStep
<1> QED  BY <1>3, <1>4

-----------------------------------------------------------------------------
(* Candidates and leaders. *)

LEMMA ElectionTimeoutStep ==
  ASSUME TypeOK, TypeOK', ElectionInv, NEW i \in Server, ElectionTimeout(i)
  PROVE  ElectionInv'
<1> DEFINE t == currentTerm[i] + 1
<1>1. /\ UpdateState(i, FSM_CANDIDATE, t, i, "election", None, None)
      /\ votes' = [votes EXCEPT ![i] = {i}]
      /\ rpc' = CancelPendingRpcs(rpc, i)
      /\ state[i] # DOWN
      /\ UNCHANGED <<diskTerm, diskVote, reading, ballots, elected>>
  BY DEF ElectionTimeout, disk, history
<1>2. t \in Nat /\ i \in Option /\ Later(currentTerm[i], votedFor[i], t, i)
  <2>1. currentTerm[i] \in Nat  BY DEF TypeOK
  <2> QED  BY <2>1 DEF Option, Later
<1>3. FSM_CANDIDATE # DOWN  BY DEF FSM_CANDIDATE, DOWN
<1>4. \A k \in Server : PeerOK(k)'
  <2> HIDE DEF t
  <2> QED  BY <1>1, <1>2, <1>3, PeerUpdates DEF ElectionInv
<1>5. DisksAdvance  BY <1>1, SameDisks
<1>6. RpcOK(rpc', ballots')
  BY <1>1, SocketsOK, CancelWeakens, RpcWeakens
<1>7. \A k \in Server : state'[k] = FSM_CANDIDATE =>
        \/ votes'[k] \subseteq {k}
        \/ /\ state[k] = FSM_CANDIDATE
           /\ votes'[k] = votes[k] /\ currentTerm'[k] = currentTerm[k]
  <2> SUFFICES ASSUME NEW k \in Server, state'[k] = FSM_CANDIDATE, k # i
               PROVE  /\ state'[k] = state[k] /\ votes'[k] = votes[k]
                      /\ currentTerm'[k] = currentTerm[k]
    <3>1. votes'[i] = {i}  BY <1>1 DEF TypeOK
    <3> QED  BY <3>1
  <2>1. /\ state' = [state EXCEPT ![i] = FSM_CANDIDATE]
        /\ currentTerm' = [currentTerm EXCEPT ![i] = t]
    BY <1>1 DEF UpdateState
  <2> QED  BY <1>1, <2>1 DEF TypeOK
<1>8. /\ \A k \in Server : reading'[k] \in {reading[k], None}
      /\ elected' = elected /\ ballots \subseteq ballots'
      /\ ballots' \subseteq ballots \cup {Ballot(i, diskTerm'[i], diskVote'[i])}
  BY <1>1
<1> HIDE DEF t
<1> QED  BY <1>4, <1>5, <1>6, <1>7, <1>8, StepKeepsElectionInv

LEMMA ElectionPersistedStep ==
  ASSUME TypeOK, TypeOK', ElectionInv, NEW i \in Server, ElectionPersisted(i)
  PROVE  ElectionInv'
<1> DEFINE t == Head(writes[i]).term
<1>1. writes[i] # <<>> /\ WriteEnds(i) /\ Head(writes[i]).then = "election"
  BY DEF ElectionPersisted
<1>2. Head(writes[i]).vote = i  BY <1>1, HeadMeansVote
<1>3. CASE \E j \in Server : rpc[i][j] # None
  <2>1. Fail(i)  BY <1>3 DEF ElectionPersisted
  <2>2. PeerOK(i)  BY DEF ElectionInv
  <2>3. DisksAdvance  BY <1>1, <2>2, WriteAdvances
  <2>4. \A k \in Server : k # i =>
          diskTerm'[k] = diskTerm[k] /\ diskVote'[k] = diskVote[k]
    BY <1>1 DEF WriteEnds, TypeOK
  <2> QED  BY <2>1, <2>3, <2>4, FailStep
<1>4. CASE ~\E j \in Server : rpc[i][j] # None
  <2>1. PICK req : /\ req.term = t
                   /\ rpc' = [rpc EXCEPT ![i] = [j \in Server |->
                        IF j = i THEN None
                        ELSE [req |-> req, seen |-> FALSE, reply |-> None]]]
    BY <1>4 DEF ElectionPersisted
  <2>2. /\ ballots' = ballots \cup {Ballot(i, t, i)}
        /\ WriteLeavesQueue(i)
        /\ UNCHANGED <<currentTerm, votedFor, state, votes, elected, reading>>
    BY <1>4 DEF ElectionPersisted, Ballot, tally
  <2>3. RpcOK(rpc', ballots')
    <3> SUFFICES ASSUME NEW x \in Server, NEW y \in Server, rpc'[x][y] # None,
                        rpc'[x][y].req.type = "vote"
                 PROVE  /\ Ballot(x, rpc'[x][y].req.term, x) \in ballots'
                        /\ rpc'[x][y].reply # None /\ rpc'[x][y].reply.ok
                             => Ballot(y, rpc'[x][y].req.term, x) \in ballots'
      BY DEF RpcOK
    <3>1. CASE x = i
      <4>1. rpc'[x][y] = [req |-> req, seen |-> FALSE, reply |-> None]
        BY <2>1, <3>1, SocketsOK DEF RpcType
      <4> QED  BY <2>1, <2>2, <3>1, <4>1
    <3>2. CASE x # i
      <4>1. rpc'[x] = rpc[x]  BY <2>1, <3>2, SocketsOK DEF RpcType
      <4> QED  BY <2>2, <4>1, SocketsOK DEF RpcOK
    <3> QED  BY <3>1, <3>2
  <2>4. ballots' \subseteq ballots \cup {Ballot(i, t, Head(writes[i]).vote)}
    BY <1>2, <2>2
  <2> QED  BY <1>1, <2>2, <2>3, <2>4, WriteStep
<1> QED  BY <1>3, <1>4

\* A candidate that a majority has voted for.
LEMMA BecomeLeaderStep ==
  ASSUME TypeOK, TypeOK', ElectionInv, NEW i \in Server, BecomeLeader(i),
         state[i] # DOWN,
         NEW Q \in SUBSET Server, IsMajority(Q),
         \A k \in Q : Ballot(k, currentTerm[i], i) \in ballots
  PROVE  ElectionInv'
<1> DEFINE req == [type |-> "append", term |-> currentTerm[i],
                   prev |-> Len(log[i]), prevTerm |-> LastTermOf(log[i]),
                   commit |-> commitIndex[i], entries |-> <<>>]
           c == [req |-> req, seen |-> FALSE, reply |-> None]
           e == [leader |-> i, term |-> currentTerm[i]]
<1>1. /\ state' = [state EXCEPT ![i] = FSM_LEADER]
      /\ rpc' = [rpc EXCEPT ![i] = [j \in Server |-> IF j = i THEN None ELSE c]]
      /\ votes' = [votes EXCEPT ![i] = {}]
      /\ elected' = elected \cup {e}
      /\ UNCHANGED <<diskTerm, diskVote, currentTerm, votedFor, writes, reading,
                     ballots>>
  BY DEF BecomeLeader, disk
<1>2. NoReading'  BY <1>1 DEF ElectionInv, NoReading
<1>3. \A k \in Server : PeerOK(k)'
  <2>1. \A k \in Server : state'[k] # DOWN => state[k] # DOWN
    BY <1>1 DEF TypeOK
  <2> QED  BY <1>1, <2>1, PeerStays DEF ElectionInv
<1>4. BallotsStored' /\ OneBallotPerTerm'
  BY <1>1 DEF ElectionInv, BallotsStored, OneBallotPerTerm
<1>5. RpcOK(rpc, ballots)'
  <2>1. c.req.type = "append"  OBVIOUS
  <2> HIDE DEF c
  <2>2. NoNewVotes(rpc', rpc)
    BY <1>1, <2>1, SocketsOK DEF NoNewVotes, RpcType
  <2>3. RpcOK(rpc', ballots)  BY <2>2, SocketsOK, RpcWeakens
  <2> QED  BY <1>1, <2>3
<1>6. VotesAreBallots'
  <2>1. \A k \in Server : state'[k] = FSM_CANDIDATE =>
          state[k] = FSM_CANDIDATE /\ votes'[k] = votes[k]
    BY <1>1 DEF TypeOK, FSM_CANDIDATE, FSM_LEADER
  <2> QED  BY <1>1, <2>1 DEF ElectionInv, VotesAreBallots
<1>7. LeadersHaveMajorities'
  <2> SUFFICES ASSUME NEW f \in elected'
               PROVE  \E P \in SUBSET Server : IsMajority(P) /\
                        \A k \in P : Ballot(k, f.term, f.leader) \in ballots
    BY <1>1 DEF LeadersHaveMajorities, IsMajority
  <2>1. CASE f \in elected
    BY <2>1 DEF ElectionInv, LeadersHaveMajorities
  <2>2. CASE f = e
    BY <2>2
  <2> QED  BY <1>1, <2>1, <2>2
<1> QED  BY <1>2, <1>3, <1>4, <1>5, <1>6, <1>7 DEF ElectionInv

LEMMA VoteResponseStep ==
  ASSUME TypeOK, TypeOK', ElectionInv, NEW i \in Server, NEW j \in Server,
         VoteResponse(i, j)
  PROVE  ElectionInv'
<1> DEFINE a == rpc[i][j].reply
           q == rpc[i][j].req
           higher == a.term > currentTerm[i]
           counts == state[i] = FSM_CANDIDATE
                     /\ (higher \/ rpc[i][j].req.term = currentTerm[i])
           granted == counts /\ ~higher /\ a.ok /\ j \notin voted[i]
           nvotes == votes[i] \cup (IF granted THEN {j} ELSE {})
           answered == [rpc EXCEPT ![i][j] = None]
<1>1. /\ state[i] # DOWN /\ rpc[i][j] # None /\ q.type = "vote" /\ a # None
  BY DEF VoteResponse
<1>2. a \in Reply /\ a.term \in Nat  BY <1>1, PendingType DEF Reply
<1>3. answered \in RpcType /\ RpcOK(answered, ballots)
  <2>1. NoNewVotes(answered, rpc)  BY SocketsOK, AnsweredWeakens
  <2>2. answered \in RpcType  BY SocketsOK, AnsweredType
  <2> HIDE DEF answered
  <2> QED  BY <2>1, <2>2, SocketsOK, RpcWeakens
<1>4. /\ Ballot(i, q.term, i) \in ballots
      /\ a.ok => Ballot(j, q.term, i) \in ballots
  BY <1>1, SocketsOK DEF RpcOK
<1>5. ASSUME counts, ~higher
      PROVE  \A k \in nvotes : Ballot(k, currentTerm[i], i) \in ballots
  <2>1. state[i] = FSM_CANDIDATE /\ q.term = currentTerm[i]  BY <1>5
  <2>2. \A k \in votes[i] : Ballot(k, currentTerm[i], i) \in ballots
    BY <1>4, <2>1 DEF ElectionInv, VotesAreBallots
  <2>3. granted => Ballot(j, currentTerm[i], i) \in ballots
    BY <1>4, <2>1
  <2> HIDE DEF granted
  <2> QED  BY <2>2, <2>3
<1>6. nvotes \in SUBSET Server
  <2>1. votes[i] \in SUBSET Server  BY DEF TypeOK
  <2> HIDE DEF granted
  <2> QED  BY <2>1
<1>7. CASE higher /\ BecomeFollower(i, a.term, answered)
  <2> HIDE DEF answered, a
  <2> QED  BY <1>1, <1>2, <1>3, <1>7, BecomeFollowerStep
<1>8. CASE ~higher /\ counts /\ IsMajority(nvotes) /\ BecomeLeader(i)
  <2>1. \A k \in nvotes : Ballot(k, currentTerm[i], i) \in ballots
    BY <1>5, <1>8
  <2> HIDE DEF nvotes
  <2> QED  BY <1>1, <1>6, <1>8, <2>1, BecomeLeaderStep
<1>9. CASE /\ votes' = [votes EXCEPT ![i] = nvotes]
           /\ rpc' = answered
           /\ UNCHANGED <<disk, currentTerm, votedFor, state, writes, reading,
                          history>>
  <2>1. UNCHANGED <<diskTerm, diskVote, currentTerm, votedFor, state, writes,
                    reading, ballots, elected>>
    BY <1>9 DEF disk, history
  <2>2. NoReading'  BY <2>1 DEF ElectionInv, NoReading
  <2>3. \A k \in Server : PeerOK(k)'
    BY <2>1, PeerStays DEF ElectionInv
  <2>4. BallotsStored' /\ OneBallotPerTerm' /\ LeadersHaveMajorities'
    BY <2>1 DEF ElectionInv, BallotsStored, OneBallotPerTerm,
                LeadersHaveMajorities, IsMajority
  <2>5. RpcOK(rpc, ballots)'  BY <1>3, <1>9, <2>1
  <2>6. VotesAreBallots'
    <3> SUFFICES ASSUME NEW n \in Server, state[n] = FSM_CANDIDATE,
                        NEW k \in votes'[n]
                 PROVE  k = n \/ Ballot(k, currentTerm[n], n) \in ballots
      BY <2>1 DEF VotesAreBallots
    <3>1. CASE k \in votes[n]
      BY <3>1 DEF ElectionInv, VotesAreBallots
    <3>2. CASE k \notin votes[n]
      <4>1. n = i /\ k \in nvotes
        BY <1>9, <3>2 DEF TypeOK
      <4>2. counts /\ ~higher  BY <3>2, <4>1
      <4> QED  BY <1>5, <4>1, <4>2
    <3> QED  BY <3>1, <3>2
  <2> QED  BY <2>2, <2>3, <2>4, <2>5, <2>6 DEF ElectionInv
<1>10. \/ higher /\ BecomeFollower(i, a.term, answered)
       \/ ~higher /\ counts /\ IsMajority(nvotes) /\ BecomeLeader(i)
       \/ /\ votes' = [votes EXCEPT ![i] = nvotes]
          /\ rpc' = answered
          /\ UNCHANGED <<disk, currentTerm, votedFor, state, writes, reading,
                         history>>
  BY DEF VoteResponse
<1> QED  BY <1>7, <1>8, <1>9, <1>10

LEMMA AppendResponseStep ==
  ASSUME TypeOK, TypeOK', ElectionInv, NEW i \in Server, NEW j \in Server,
         AppendResponse(i, j)
  PROVE  ElectionInv'
<1> DEFINE a == rpc[i][j].reply
           answered == [rpc EXCEPT ![i][j] = None]
<1>1. state[i] # DOWN /\ rpc[i][j] # None /\ a # None
  BY DEF AppendResponse
<1>2. a \in Reply /\ a.term \in Nat  BY <1>1, PendingType DEF Reply
<1>3. answered \in RpcType /\ RpcOK(answered, ballots)
  <2>1. NoNewVotes(answered, rpc)  BY SocketsOK, AnsweredWeakens
  <2>2. answered \in RpcType  BY SocketsOK, AnsweredType
  <2> HIDE DEF answered
  <2> QED  BY <2>1, <2>2, SocketsOK, RpcWeakens
<1>4. \/ a.term > currentTerm[i] /\ BecomeFollower(i, a.term, answered)
      \/ rpc' = answered /\ UNCHANGED votingVars
  BY DEF AppendResponse, votingVars, disk, tally, history
<1>5. CASE a.term > currentTerm[i] /\ BecomeFollower(i, a.term, answered)
  <2> HIDE DEF answered, a
  <2> QED  BY <1>1, <1>2, <1>3, <1>5, BecomeFollowerStep
<1>6. CASE rpc' = answered /\ UNCHANGED votingVars
  <2> HIDE DEF answered
  <2> QED  BY <1>3, <1>6, QuietStep
<1> QED  BY <1>4, <1>5, <1>6

-----------------------------------------------------------------------------
(* A restart, and the theorems. *)

\* The process starts again from its disk, on which the write under way may be
\* and the term may have been raised to that of the last entry.
LEMMA CrashStep ==
  ASSUME TypeOK, TypeOK', ElectionInv, NEW i \in Server, Crash(i)
  PROVE  ElectionInv'
<1> DEFINE W == {[term |-> diskTerm[i], vote |-> diskVote[i]]} \cup
                (IF writes[i] = <<>> THEN {}
                 ELSE {[term |-> Head(writes[i]).term, vote |-> Head(writes[i]).vote]})
<1>1. PICK w \in W :
        LET t == Larger(w.term, LastTermOf(log'[i]))
        IN /\ diskTerm' = [diskTerm EXCEPT ![i] = t]
           /\ currentTerm' = [currentTerm EXCEPT ![i] = t]
           /\ diskVote' = [diskVote EXCEPT ![i] = w.vote]
           /\ votedFor' = [votedFor EXCEPT ![i] = w.vote]
  BY DEF Crash
<1> DEFINE t == Larger(w.term, LastTermOf(log'[i]))
<1>2. /\ diskTerm' = [diskTerm EXCEPT ![i] = t]
      /\ currentTerm' = [currentTerm EXCEPT ![i] = t]
      /\ diskVote' = [diskVote EXCEPT ![i] = w.vote]
      /\ votedFor' = [votedFor EXCEPT ![i] = w.vote]
  BY <1>1
<1>3. /\ Later(diskTerm[i], diskVote[i], w.term, w.vote)
      /\ w.term \in Nat /\ diskTerm[i] \in Nat
  <2>1. CASE w = [term |-> diskTerm[i], vote |-> diskVote[i]]
    <3>1. diskTerm[i] \in Nat  BY DEF TypeOK
    <3> QED  BY <2>1, <3>1 DEF Later
  <2>2. CASE /\ writes[i] # <<>>
             /\ w = [term |-> Head(writes[i]).term, vote |-> Head(writes[i]).vote]
    <3>1. writes[i][1] = Head(writes[i])  BY DEF TypeOK
    <3>2. Later(diskTerm[i], diskVote[i], Head(writes[i]).term, Head(writes[i]).vote)
      BY <2>2, <3>1 DEF ElectionInv, PeerOK, WritesAscend
    <3>3. Head(writes[i]) \in Write  BY <2>2, QueueType DEF TypeOK
    <3>4. Head(writes[i]).term \in Nat  BY <3>3 DEF Write
    <3>5. diskTerm[i] \in Nat  BY DEF TypeOK
    <3> QED  BY <2>2, <3>2, <3>4, <3>5
  <2> QED  BY <1>1, <2>1, <2>2
<1>4. t \in Nat /\ t >= w.term
  <2>1. log'[i] \in Seq(Entry)  BY DEF TypeOK
  <2>2. LastTermOf(log'[i]) \in Nat  BY <2>1, TermType
  <2> QED  BY <1>3, <2>2 DEF Larger
<1> HIDE DEF t, W
<1>5. Later(diskTerm[i], diskVote[i], t, w.vote)
  BY <1>3, <1>4 DEF Later
<1>6. /\ state' = [state EXCEPT ![i] = FSM_FOLLOWER]
      /\ writes' = [writes EXCEPT ![i] = <<>>]
      /\ reading' = [reading EXCEPT ![i] = None]
      /\ ForgetRole(i)
      /\ rpc' = [k \in Server |-> IF k = i THEN Idle ELSE
                   IF rpc[k][i] # None /\ rpc[k][i].reply = None
                   THEN [rpc[k] EXCEPT ![i].seen = FALSE] ELSE rpc[k]]
      /\ UNCHANGED <<ballots, elected>>
  BY DEF Crash, history
<1>7. DisksAdvance
  <2>1. ASSUME NEW k \in Server, k # i
        PROVE  Later(diskTerm[k], diskVote[k], diskTerm'[k], diskVote'[k])
    BY <1>2, <2>1 DEF TypeOK, Later
  <2>2. diskTerm'[i] = t /\ diskVote'[i] = w.vote  BY <1>2 DEF TypeOK
  <2> QED  BY <1>5, <2>1, <2>2 DEF DisksAdvance
<1>8. \A k \in Server : PeerOK(k)'
  <2>1. PeerOK(i)'
    <3>1. /\ writes'[i] = <<>>
          /\ currentTerm'[i] = diskTerm'[i] /\ votedFor'[i] = diskVote'[i]
      BY <1>2, <1>6 DEF TypeOK
    <3> QED  BY <3>1, PeerIsReset
  <2>2. ASSUME NEW k \in Server, k # i
        PROVE  PeerOK(k)'
    <3>1. /\ diskTerm'[k] = diskTerm[k] /\ diskVote'[k] = diskVote[k]
          /\ currentTerm'[k] = currentTerm[k] /\ votedFor'[k] = votedFor[k]
          /\ writes'[k] = writes[k] /\ state'[k] = state[k]
      BY <1>2, <1>6, <2>2 DEF TypeOK
    <3> QED  BY <3>1, PeerStays DEF ElectionInv
  <2> QED  BY <2>1, <2>2
<1>9. RpcOK(rpc', ballots')
  <2>1. NoNewVotes(rpc', rpc)
    <3> SUFFICES ASSUME NEW x \in Server, NEW y \in Server, rpc'[x][y] # None
                 PROVE  /\ rpc[x][y] # None
                        /\ rpc'[x][y].req = rpc[x][y].req
                        /\ rpc'[x][y].reply = rpc[x][y].reply
      BY DEF NoNewVotes
    <3>1. rpc[x] \in [Server -> Call \cup {None}]
      BY SocketsOK DEF RpcType
    <3>2. x # i  BY <1>6 DEF Idle
    <3>3. CASE y = i /\ rpc[x][i] # None /\ rpc[x][i].reply = None
      <4>1. rpc[x][y] \in Call  BY <3>1, <3>3
      <4>2. rpc'[x][y] = [rpc[x][y] EXCEPT !.seen = FALSE]
        BY <1>6, <3>1, <3>2, <3>3
      <4> QED  BY <3>3, <4>1, <4>2 DEF Call
    <3>4. CASE ~(y = i /\ rpc[x][i] # None /\ rpc[x][i].reply = None)
      <4>1. rpc'[x][y] = rpc[x][y]  BY <1>6, <3>1, <3>2, <3>4
      <4> QED  BY <4>1
    <3> QED  BY <3>3, <3>4
  <2> QED  BY <1>6, <2>1, SocketsOK, RpcWeakens
<1>10. \A k \in Server : state'[k] = FSM_CANDIDATE =>
         /\ state[k] = FSM_CANDIDATE
         /\ votes'[k] = votes[k] /\ currentTerm'[k] = currentTerm[k]
  BY <1>2, <1>6 DEF TypeOK, ForgetRole, FSM_CANDIDATE, FSM_FOLLOWER
<1>11. /\ \A k \in Server : reading'[k] \in {reading[k], None}
       /\ elected' = elected /\ ballots \subseteq ballots'
       /\ ballots' \subseteq ballots \cup {Ballot(i, diskTerm'[i], diskVote'[i])}
  BY <1>6 DEF TypeOK
<1> QED  BY <1>7, <1>8, <1>9, <1>10, <1>11, StepKeepsElectionInv

LEMMA InitElectionInv == Init => ElectionInv
<1> SUFFICES ASSUME Init  PROVE ElectionInv
  OBVIOUS
<1>1. /\ diskTerm = [i \in Server |-> 0] /\ diskVote = [i \in Server |-> None]
      /\ currentTerm = [i \in Server |-> 0] /\ votedFor = [i \in Server |-> None]
      /\ state = [i \in Server |-> FSM_FOLLOWER]
      /\ votes = [i \in Server |-> {}]
      /\ writes = [i \in Server |-> <<>>]
      /\ reading = [i \in Server |-> None]
      /\ rpc = [i \in Server |-> Idle]
      /\ ballots = {} /\ elected = {}
  BY DEF Init, Started
<1>2. \A i \in Server : PeerOK(i)
  BY <1>1 DEF PeerOK, MemoryIsLastWrite, WritesAscend, WritesMeanVotes
<1>3. NoReading /\ BallotsStored /\ OneBallotPerTerm /\ LeadersHaveMajorities
  BY <1>1 DEF NoReading, BallotsStored, OneBallotPerTerm, LeadersHaveMajorities
<1>4. RpcOK(rpc, ballots)
  BY <1>1 DEF RpcOK, Idle
<1>5. VotesAreBallots
  BY <1>1 DEF VotesAreBallots
<1> QED  BY <1>2, <1>3, <1>4, <1>5 DEF ElectionInv

LEMMA NextElectionInv ==
  ASSUME VoteResendRace = FALSE, ReadOvertaken = FALSE,
         TypeOK, ElectionInv, [Next]_vars
  PROVE  ElectionInv'
<1>1. TypeOK'  BY NextType
<1>2. CASE UNCHANGED vars
  BY <1>1, <1>2, SocketsOK, QuietStep DEF vars, votingVars
<1>3. ASSUME NEW i \in Server,
             \/ ElectionTimeout(i)
             \/ NothingPersisted(i)
             \/ ElectionPersisted(i)
             \/ VotePersisted(i)
             \/ AppendPersisted(i)
             \/ Flush(i)
             \/ Apply(i)
             \/ Crash(i)
             \/ \E v \in Value : ClientUpdate(i, v)
      PROVE  ElectionInv'
  BY <1>1, <1>3, ElectionTimeoutStep, NothingPersistedStep,
     ElectionPersistedStep, VotePersistedStep, AppendPersistedStep, ClientStep,
     CrashStep
<1>4. ASSUME NEW i \in Server, NEW j \in Server,
             \/ VoteRequest(i, j)
             \/ VoteResponse(i, j)
             \/ RefuseAppend(i, j)
             \/ AppendRequest(i, j)
             \/ AppendRequestFails(i, j)
             \/ SendAppend(i, j)
             \/ AppendResponse(i, j)
             \/ ConnectionLost(i, j)
      PROVE  ElectionInv'
  BY <1>1, <1>4, VoteRequestStep, VoteResponseStep, RefuseAppendStep,
     AppendRequestStep, AppendRequestFailsStep, SendAppendStep,
     AppendResponseStep, ConnectionLostStep
<1>5. ASSUME NEW i \in Server, NEW j \in Server, BeginRead(i, j)
      PROVE  FALSE
  BY <1>5 DEF BeginRead
<1>6. ASSUME NEW i \in Server, EndRead(i)
      PROVE  FALSE
  BY <1>6 DEF EndRead, ElectionInv, NoReading
<1> QED  BY <1>2, <1>3, <1>4, <1>5, <1>6 DEF Next

\* Two majorities have a peer in common, and it has one vote.
LEMMA MajoritiesElectOne == ElectionInv => ElectionSafety
<1> SUFFICES ASSUME ElectionInv, NEW e \in elected, NEW f \in elected,
                    e.term = f.term
             PROVE  e.leader = f.leader
  BY DEF ElectionSafety
<1>1. PICK P \in SUBSET Server : IsMajority(P) /\
        \A k \in P : Ballot(k, e.term, e.leader) \in ballots
  BY DEF ElectionInv, LeadersHaveMajorities
<1>2. PICK Q \in SUBSET Server : IsMajority(Q) /\
        \A k \in Q : Ballot(k, f.term, f.leader) \in ballots
  BY DEF ElectionInv, LeadersHaveMajorities
<1>3. P \cap Q # {}
  <2>1. IsFiniteSet(Server)  BY ServerAssumption
  <2>2. /\ Cardinality(P) \in Nat /\ Cardinality(Q) \in Nat
        /\ Cardinality(Server) \in Nat
    BY <2>1, FS_Subset, FS_CardinalityType
  <2>3. /\ 2 * Cardinality(P) > Cardinality(Server)
        /\ 2 * Cardinality(Q) > Cardinality(Server)
    BY <1>1, <1>2 DEF IsMajority
  <2>4. Cardinality(P) + Cardinality(Q) > Cardinality(Server)
    BY <2>2, <2>3
  <2> QED  BY <2>1, <2>4, FS_MajoritiesIntersect
<1>4. PICK k : k \in P /\ k \in Q  BY <1>3
<1>5. Ballot(k, e.term, e.leader) \in ballots /\ Ballot(k, f.term, f.leader) \in ballots
  BY <1>1, <1>2, <1>4
<1> QED  BY <1>5 DEF ElectionInv, OneBallotPerTerm, Ballot

\* What _updateState, requestVoteHandler and onElectionTimeout keep up between
\* memory, disk and votes, in any number of peers, with any number of restarts
\* (in the middle of a write as well), broken connections and stale requests.
THEOREM ElectionInvariant ==
  ASSUME VoteResendRace = FALSE, ReadOvertaken = FALSE
  PROVE  Spec => []ElectionInv
<1>1. Init => TypeOK /\ ElectionInv  BY InitType, InitElectionInv
<1>2. TypeOK /\ ElectionInv /\ [Next]_vars => (TypeOK /\ ElectionInv)'
  BY NextType, NextElectionInv
<1> QED  BY <1>1, <1>2, PTL DEF Spec

\* A peer casts one vote in a term (requestVoteHandler): the vote is on disk
\* when its reply is sent, and a peer starts from its disk.
THEOREM OneBallot ==
  ASSUME VoteResendRace = FALSE, ReadOvertaken = FALSE
  PROVE  Spec => []OneBallotPerTerm
<1>1. ElectionInv => OneBallotPerTerm  BY DEF ElectionInv
<1> QED  BY <1>1, ElectionInvariant, PTL

\* A term has one leader (onVoteResponse, becomeLeader).
THEOREM OneLeader ==
  ASSUME VoteResendRace = FALSE, ReadOvertaken = FALSE
  PROVE  Spec => []ElectionSafety
<1> QED  BY MajoritiesElectOne, ElectionInvariant, PTL
=============================================================================
