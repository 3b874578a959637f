------------------------------ MODULE LogProofs ------------------------------
(***************************************************************************)
(* What the queue of writes, the router and the sockets of a peer of       *)
(* ZmqRaft have to do with its role, and how the logs of its peers match,  *)
(* in every cluster in which no AppendEntries handler is overtaken and, for *)
(* the logs, no vote is asked for again while it is being written.         *)
(*                                                                         *)
(* QueueInv is inductive.  Its lemmas say what a step may do to the        *)
(* sockets, to the requests that travel and to the peers it is not a step  *)
(* of; the proofs about logs and commitment use them too.  FreshInv is     *)
(* inductive, and so is LogInv, in the sense that a history H that fits a  *)
(* state can be extended to one that fits the next.                        *)
(***************************************************************************)
EXTENDS LogInvariant, ElectionProofs

-----------------------------------------------------------------------------
(* The sockets. *)

\* Every call of r is one of s, as far as its request goes.
CallsFrom(r, s) ==
  \A x, y \in Server :
    r[x][y] # None => s[x][y] # None /\ r[x][y].req = s[x][y].req

LEMMA CallsFromTrans ==
  ASSUME NEW r, NEW s, NEW u, CallsFrom(r, s), CallsFrom(s, u)
  PROVE  CallsFrom(r, u)
  BY DEF CallsFrom

LEMMA CancelCalls ==
  ASSUME NEW r \in RpcType, NEW i
  PROVE  CallsFrom(CancelPendingRpcs(r, i), r)
  BY DEF CallsFrom, CancelPendingRpcs, Idle, RpcType

LEMMA IdleCalls ==
  ASSUME NEW r \in RpcType, NEW i
  PROVE  CallsFrom([r EXCEPT ![i] = Idle], r)
  BY DEF CallsFrom, Idle, RpcType

LEMMA AnsweredCalls ==
  ASSUME NEW r \in RpcType, NEW i \in Server, NEW j \in Server
  PROVE  CallsFrom([r EXCEPT ![i][j] = None], r)
<1> SUFFICES ASSUME NEW x \in Server, NEW y \in Server
             PROVE  [r EXCEPT ![i][j] = None][x][y] \in {r[x][y], None}
  BY DEF CallsFrom
<1>1. /\ r[i] \in [Server -> Call \cup {None}]
      /\ r[x] \in [Server -> Call \cup {None}]
  BY DEF RpcType
<1> QED  BY <1>1 DEF RpcType

LEMMA MarkSeenCalls ==
  ASSUME rpc \in RpcType, NEW i \in Server, NEW j \in Server, NEW q
  PROVE  CallsFrom(MarkSeen(i, j, q), rpc)
<1> SUFFICES ASSUME NEW x \in Server, NEW y \in Server, Unseen(i, j, q)
             PROVE  LET r == [rpc EXCEPT ![i][j].seen = TRUE]
                    IN r[x][y] # None =>
                         rpc[x][y] # None /\ r[x][y].req = rpc[x][y].req
  BY DEF CallsFrom, MarkSeen
<1>1. /\ rpc[i] \in [Server -> Call \cup {None}]
      /\ rpc[x] \in [Server -> Call \cup {None}]
      /\ rpc[i][j] \in Call
  BY DEF RpcType, Unseen
<1> DEFINE c == [rpc[i][j] EXCEPT !.seen = TRUE]
<1>2. c.req = rpc[i][j].req
  BY <1>1 DEF Call
<1>3. [rpc EXCEPT ![i][j].seen = TRUE][x][y] =
        IF x = i /\ y = j THEN c ELSE rpc[x][y]
  BY <1>1 DEF RpcType
<1> HIDE DEF c
<1> QED  BY <1>2, <1>3 DEF Unseen

LEMMA SendReplyCalls ==
  ASSUME NEW r \in RpcType, NEW i \in Server, NEW j \in Server, NEW q, NEW a
  PROVE  CallsFrom(SendReply(r, i, j, q, a), r)
<1>1. CASE r[i][j] # None /\ r[i][j].req = q /\ r[i][j].reply = None
  <2> DEFINE c == [r[i][j] EXCEPT !.reply = a]
  <2>1. r[i] \in [Server -> Call \cup {None}] /\ r[i][j] \in Call
    BY <1>1 DEF RpcType
  <2>2. c.req = r[i][j].req
    BY <2>1 DEF Call
  <2>3. ASSUME NEW x \in Server, NEW y \in Server
        PROVE  SendReply(r, i, j, q, a)[x][y] =
                 IF x = i /\ y = j THEN c ELSE r[x][y]
    <3>1. r[x] \in [Server -> Call \cup {None}]  BY DEF RpcType
    <3> QED  BY <1>1, <2>1, <3>1 DEF SendReply, RpcType
  <2> HIDE DEF c
  <2> QED  BY <1>1, <2>2, <2>3 DEF CallsFrom
<1>2. CASE ~(r[i][j] # None /\ r[i][j].req = q /\ r[i][j].reply = None)
  BY <1>2 DEF SendReply, CallsFrom
<1> QED  BY <1>1, <1>2

\* A peer that enters a transition leaves it without a call.
LEMMA CancelIdles ==
  ASSUME NEW r \in RpcType, NEW i \in Server, QueueOK(i), CallsFrom(r, rpc)
  PROVE  \A j \in Server : CancelPendingRpcs(r, i)[i][j] = None
<1>1. CASE Cancels(i)
  BY <1>1 DEF CancelPendingRpcs, Idle, RpcType
<1>2. CASE ~Cancels(i)
  BY <1>2 DEF CancelPendingRpcs, Cancels, QueueOK, CallsMatchRole, CallsFrom
<1> QED  BY <1>1, <1>2

-----------------------------------------------------------------------------
(* The requests that travel. *)

\* A request that is left behind had been sent.
StaleFrom(s) ==
  \A m \in s : m \in stale \/ (/\ rpc[m.from][m.to] # None
                               /\ m.req = rpc[m.from][m.to].req)

LEMMA OrphansFrom ==
  ASSUME NEW i \in Server, NEW S
  PROVE  StaleFrom(Orphans(i, S))
  BY DEF StaleFrom, Orphans

LEMMA CancelledFrom ==
  ASSUME NEW i \in Server
  PROVE  StaleFrom(stale \cup CancelledRequests(i))
<1>1. StaleFrom(Orphans(i, Server))  BY OrphansFrom
<1> QED  BY <1>1 DEF StaleFrom, CancelledRequests

LEMMA ArrivingTravels ==
  ASSUME TypeOK, NEW i \in Server, NEW j \in Server, NEW ty,
         NEW q \in Arriving(i, j, ty)
  PROVE  Travels(q, i, j)
<1>1. CASE rpc[i][j] # None /\ q = rpc[i][j].req
  BY <1>1 DEF Travels
<1>2. ASSUME NEW x \in stale, x.from = i, x.to = j, q = x.req
      PROVE  Travels(q, i, j)
  <2>1. x = [from |-> i, to |-> j, req |-> q]
    BY <1>2 DEF TypeOK
  <2> QED  BY <2>1 DEF Travels
<1> QED  BY <1>1, <1>2 DEF Arriving

\* No request is on its way after the step that was not before it.
NoNewTravel ==
  \A x, y \in Server : \A q : Travels(q, x, y)' => Travels(q, x, y)

WaitsForRequest == {"vote", "append", "refuse"}

\* A write that is new in the queue of k waits for a request that has arrived,
\* and for its previous entry if it is to append.
WritesFrom(k) ==
  \A n \in 1..Len(writes'[k]) : writes'[k][n].then \in WaitsForRequest =>
    \/ \E m \in 1..Len(writes[k]) : writes'[k][n] = writes[k][m]
    \/ /\ Travels(writes'[k][n].req, writes'[k][n].from, k)
       /\ writes'[k][n].then = "append" => PrevMatches(log[k], writes'[k][n].req)

LEMMA NothingSent ==
  ASSUME TypeOK', CallsFrom(rpc', rpc), StaleFrom(stale'),
         \A k \in Server : WritesFrom(k)
  PROVE  NoNewTravel
<1> SUFFICES ASSUME NEW x \in Server, NEW y \in Server, NEW q, Travels(q, x, y)'
             PROVE  Travels(q, x, y)
  BY DEF NoNewTravel
<1>1. CASE rpc'[x][y] # None /\ rpc'[x][y].req = q
  BY <1>1 DEF CallsFrom, Travels
<1>2. CASE [from |-> x, to |-> y, req |-> q] \in stale'
  BY <1>2 DEF StaleFrom, Travels
<1>3. ASSUME NEW n \in 1..Len(writes'[y]), writes'[y][n].then \in WaitsForRequest,
             writes'[y][n].from = x, writes'[y][n].req = q
      PROVE  Travels(q, x, y)
  <2>1. CASE Travels(writes'[y][n].req, writes'[y][n].from, y)
    BY <1>3, <2>1
  <2>2. ASSUME NEW m \in 1..Len(writes[y]), writes'[y][n] = writes[y][m]
        PROVE  Travels(q, x, y)
    BY <1>3, <2>2 DEF Travels, WaitsForRequest
  <2> QED  BY <1>3, <2>1, <2>2 DEF WritesFrom
<1> QED  BY <1>1, <1>2, <1>3 DEF Travels, WaitsForRequest

-----------------------------------------------------------------------------
(* One peer. *)

\* Whatever a step does, the peers it is not a step of keep what they have,
\* their sockets apart.
Rests(k) ==
  /\ diskTerm'[k] = diskTerm[k] /\ log'[k] = log[k] /\ pend'[k] = pend[k]
  /\ state'[k] = state[k] /\ currentTerm'[k] = currentTerm[k]
  /\ commitIndex'[k] = commitIndex[k] /\ lastApplied'[k] = lastApplied[k]
  /\ armed'[k] = armed[k] /\ paused'[k] = paused[k]
  /\ nextIndex'[k] = nextIndex[k] /\ matchIndex'[k] = matchIndex[k]
  /\ writes'[k] = writes[k]

OthersRest(i) == \A k \in Server : k # i => Rests(k)

\* The calls of k are those it had.
CallsKept(k) ==
  \A y \in Server :
    rpc'[k][y] # None => rpc[k][y] # None /\ rpc'[k][y].req = rpc[k][y].req

LEMMA QueueStays ==
  ASSUME NEW k \in Server, QueueOK(k), CallsKept(k),
         writes'[k] = writes[k], state'[k] = state[k],
         currentTerm'[k] = currentTerm[k], diskTerm'[k] = diskTerm[k],
         paused'[k] = paused[k], armed'[k] = armed[k]
  PROVE  QueueOK(k)'
<1>1. CallsMatchRole(k)'  BY DEF QueueOK, CallsMatchRole, CallsKept
<1>2. WritesAnswer(k)' /\ TermsAscend(k)' /\ RoleIsStored(k)'
  BY DEF QueueOK, WritesAnswer, TermsAscend, RoleIsStored
<1>3. PausedAlone(k)'
  BY DEF QueueOK, PausedAlone, CallsKept
<1> QED  BY <1>1, <1>2, <1>3 DEF QueueOK

\* The process has ended or has just been started.
LEMMA QueueResets ==
  ASSUME TypeOK', NEW i \in Server, writes'[i] = <<>>,
         \A j \in Server : rpc'[i][j] = None,
         diskTerm'[i] <= currentTerm'[i],
         \/ state'[i] = DOWN /\ paused'[i] /\ ~armed'[i]
         \/ state'[i] = FSM_FOLLOWER
  PROVE  QueueOK(i)'
  BY DEF QueueOK, PausedAlone, TermsAscend, RoleIsStored, WritesAnswer,
         CallsMatchRole, FSM_FOLLOWER, FSM_CANDIDATE, FSM_LEADER, DOWN

NonePausing(i) ==
  \A n \in 1..Len(writes[i]) : writes[i][n].then \notin PausingHandler

\* _updateState(): a transition that leaves the sockets without a call.
LEMMA QueueUpdates ==
  ASSUME TypeOK, TypeOK', NEW i \in Server, QueueOK(i), NonePausing(i),
         NEW st \in {FSM_FOLLOWER, FSM_CANDIDATE}, NEW t \in Nat, NEW v,
         NEW then, NEW from, NEW req,
         UpdateState(i, st, t, v, then, from, req),
         t >= currentTerm[i],
         st = FSM_CANDIDATE <=> then = "election",
         st = FSM_CANDIDATE => t > currentTerm[i],
         then \in WaitsForRequest => from # i,
         then \in {"append", "refuse"} => req.term = t,
         ~Unchanged(i, t, v) /\ then \in PausingHandler => paused'[i] /\ ~armed'[i],
         diskTerm'[i] = diskTerm[i],
         \A j \in Server : rpc'[i][j] = None
  PROVE  QueueOK(i)'
<1> DEFINE w == [term |-> t, vote |-> v, then |-> then, from |-> from, req |-> req]
           q == writes[i]
           n == Len(writes[i])
<1>1. /\ currentTerm'[i] = t /\ state'[i] = st
      /\ currentTerm[i] \in Nat /\ diskTerm[i] \in Nat
      /\ q \in Seq(Write) /\ n \in Nat
  BY DEF UpdateState, TypeOK
<1>2. CallsMatchRole(i)'  BY DEF CallsMatchRole
<1>3. CASE Unchanged(i, t, v)
  <2>1. writes'[i] = q  BY <1>3 DEF UpdateState
  <2>2. t = currentTerm[i] /\ st = FSM_FOLLOWER  BY <1>1, <1>3 DEF Unchanged
  <2>3. PausedAlone(i)'  BY <2>1 DEF PausedAlone, NonePausing
  <2>4. TermsAscend(i)' /\ WritesAnswer(i)'
    BY <1>1, <2>1, <2>2 DEF QueueOK, TermsAscend, WritesAnswer
  <2>5. RoleIsStored(i)'
    BY <1>1, <2>2 DEF RoleIsStored, FSM_FOLLOWER, FSM_CANDIDATE, FSM_LEADER, DOWN
  <2> QED  BY <1>2, <2>3, <2>4, <2>5 DEF QueueOK
<1>4. CASE ~Unchanged(i, t, v)
  <2>1. writes'[i] = Append(q, w)
    BY <1>4 DEF UpdateState, TypeOK
  <2>2. /\ Len(writes'[i]) = n + 1 /\ writes'[i] # <<>>
        /\ writes'[i][n + 1] = w
        /\ \A m \in 1..n : writes'[i][m] = q[m]
    BY <1>1, <2>1
  <2>3. /\ w.term = t /\ w.then = then /\ w.from = from /\ w.req = req
    OBVIOUS
  <2>4. \A m \in 1..n + 1 : m \in 1..n \/ m = n + 1
    BY <1>1
  <2>5. /\ diskTerm[i] <= currentTerm[i]
        /\ \A a \in 1..n :
             /\ diskTerm[i] <= q[a].term /\ q[a].term <= currentTerm[i]
             /\ q[a].term \in Nat
             /\ \A b \in 1..a : q[b].term <= q[a].term
    <3>1. \A a \in 1..n : q[a] \in Write  BY <1>1
    <3>2. \A a \in 1..n : q[a].term \in Nat  BY <3>1 DEF Write
    <3> QED  BY <3>2 DEF QueueOK, TermsAscend
  <2>6. \A a \in 1..n :
          /\ q[a].then \notin PausingHandler
          /\ q[a].then \in WaitsForRequest => q[a].from # i
          /\ q[a].then \in {"append", "refuse"} => q[a].req.term = q[a].term
    BY DEF NonePausing, QueueOK, WritesAnswer, WaitsForRequest
  <2> HIDE DEF w, q, n
  <2>7. PausedAlone(i)'
    <3> SUFFICES ASSUME NEW a \in 1..n + 1, writes'[i][a].then \in PausingHandler
                 PROVE  /\ a = n + 1
                        /\ writes'[i][a].term = t
                        /\ paused'[i] /\ ~armed'[i]
                        /\ st = IF writes'[i][a].then = "election"
                                THEN FSM_CANDIDATE ELSE FSM_FOLLOWER
      BY <1>1, <2>2 DEF PausedAlone
    <3>1. a = n + 1  BY <2>2, <2>4, <2>6
    <3>2. writes'[i][a].then = then /\ writes'[i][a].term = t
      BY <2>2, <2>3, <3>1
    <3>3. paused'[i] /\ ~armed'[i]
      BY <1>4, <3>2
    <3> QED  BY <3>1, <3>2, <3>3
  <2>8. TermsAscend(i)'
    <3>1. ASSUME NEW a \in 1..n + 1
          PROVE  /\ diskTerm[i] <= writes'[i][a].term
                 /\ writes'[i][a].term <= t
                 /\ \A b \in 1..a : writes'[i][b].term <= writes'[i][a].term
      <4>1. CASE a \in 1..n
        <5>1. \A b \in 1..a : b \in 1..n  BY <1>1, <4>1
        <5>2. /\ writes'[i][a] = q[a]
              /\ \A b \in 1..a : writes'[i][b] = q[b]
          BY <2>2, <4>1, <5>1
        <5>3. /\ diskTerm[i] <= q[a].term /\ q[a].term <= t
              /\ \A b \in 1..a : q[b].term <= q[a].term
          BY <1>1, <2>5, <4>1
        <5> QED  BY <5>2, <5>3
      <4>2. CASE a = n + 1
        <5>1. writes'[i][a].term = t  BY <2>2, <2>3, <4>2
        <5>2. \A b \in 1..n : writes'[i][b].term <= t
          <6>1. \A b \in 1..n : q[b].term <= t  BY <1>1, <2>5
          <6> QED  BY <2>2, <6>1
        <5>3. \A b \in 1..a : b \in 1..n \/ b = a  BY <2>4, <4>2
        <5>4. diskTerm[i] <= t /\ t <= t  BY <1>1, <2>5
        <5> QED  BY <5>1, <5>2, <5>3, <5>4
      <4> QED  BY <2>4, <4>1, <4>2
    <3>2. diskTerm[i] <= t  BY <1>1, <2>5
    <3> QED  BY <1>1, <2>2, <3>1, <3>2 DEF TermsAscend
  <2>9. WritesAnswer(i)'
    <3>1. ASSUME NEW a \in 1..n + 1
          PROVE  /\ writes'[i][a].then \in WaitsForRequest => writes'[i][a].from # i
                 /\ writes'[i][a].then \in {"append", "refuse"} =>
                      writes'[i][a].req.term = writes'[i][a].term
      BY <2>2, <2>3, <2>4, <2>6
    <3> QED  BY <2>2, <3>1 DEF WritesAnswer, WaitsForRequest
  <2>10. RoleIsStored(i)'
    BY <1>1, <2>2, <2>3
    DEF RoleIsStored, FSM_FOLLOWER, FSM_CANDIDATE, FSM_LEADER, DOWN
  <2> QED  BY <1>2, <2>7, <2>8, <2>9, <2>10 DEF QueueOK
<1> QED  BY <1>3, <1>4

\* FilePersistence: a write ends that no paused router waits for.
LEMMA QueuePops ==
  ASSUME TypeOK, NEW i \in Server, QueueOK(i), writes[i] # <<>>,
         WriteEnds(i), WriteLeavesQueue(i), CallsFrom(rpc', rpc),
         state'[i] = state[i], currentTerm'[i] = currentTerm[i],
         paused'[i] = paused[i], armed'[i] = armed[i]
  PROVE  QueueOK(i)'
<1> DEFINE q == writes[i]
           n == Len(writes[i])
<1>1. q \in Seq(Write) /\ n \in Nat /\ n > 0 /\ n \in 1..n /\ 1 \in 1..n
  BY DEF TypeOK
<1>2. /\ diskTerm'[i] = q[1].term /\ writes'[i] = Tail(q)
      /\ currentTerm[i] \in Nat /\ diskTerm[i] \in Nat
  BY <1>1 DEF WriteEnds, WriteLeavesQueue, TypeOK
<1>3. /\ Len(writes'[i]) = n - 1 /\ n - 1 \in Nat
      /\ \A m \in 1..n - 1 : writes'[i][m] = q[m + 1] /\ m + 1 \in 1..n
      /\ writes'[i] \in Seq(Write)
  <2>1. /\ Tail(q) \in Seq(Write) /\ Len(Tail(q)) = n - 1
        /\ \A m \in 1..Len(Tail(q)) : Tail(q)[m] = q[m + 1]
    BY <1>1, HeadTailProperties
  <2>2. n - 1 \in Nat /\ \A m \in 1..n - 1 : m + 1 \in 1..n
    BY <1>1
  <2> HIDE DEF q, n
  <2> QED  BY <1>2, <2>1, <2>2
<1>4. writes'[i] = <<>> <=> n = 1
  <2>1. writes'[i] = <<>> <=> Len(writes'[i]) = 0  BY <1>3, EmptySeq
  <2> HIDE DEF q, n
  <2> QED  BY <1>1, <1>3, <2>1
<1>5. CallsMatchRole(i)'  BY DEF QueueOK, CallsMatchRole, CallsFrom
<1>6. PausedAlone(i)'
  <2>1. \A a \in 1..n : q[a].then \in PausingHandler =>
          /\ a = n /\ q[a].term = currentTerm[i]
          /\ paused[i] /\ ~armed[i]
          /\ \A j \in Server : rpc[i][j] = None
          /\ state[i] = IF q[a].then = "election" THEN FSM_CANDIDATE
                        ELSE FSM_FOLLOWER
    BY DEF QueueOK, PausedAlone
  <2> HIDE DEF q, n
  <2>2. ASSUME NEW a \in 1..n - 1, writes'[i][a].then \in PausingHandler
        PROVE  /\ a = n - 1 /\ writes'[i][a].term = currentTerm[i]
               /\ paused[i] /\ ~armed[i]
               /\ \A j \in Server : rpc[i][j] = None
               /\ state[i] = IF writes'[i][a].then = "election" THEN FSM_CANDIDATE
                             ELSE FSM_FOLLOWER
    <3>1. a + 1 \in 1..n /\ writes'[i][a] = q[a + 1]  BY <1>3
    <3>2. a + 1 = n  BY <2>1, <2>2, <3>1
    <3>3. a = n - 1  BY <1>1, <3>2
    <3> QED  BY <2>1, <2>2, <3>1, <3>3
  <2> QED  BY <1>3, <2>2 DEF PausedAlone, CallsFrom
<1>7. TermsAscend(i)'
  <2>1. /\ diskTerm[i] <= currentTerm[i]
        /\ \A a \in 1..n :
             /\ diskTerm[i] <= q[a].term /\ q[a].term <= currentTerm[i]
             /\ \A b \in 1..a : q[b].term <= q[a].term
    BY DEF QueueOK, TermsAscend
  <2> HIDE DEF q, n
  <2>2. ASSUME NEW a \in 1..n - 1
        PROVE  /\ q[1].term <= writes'[i][a].term
               /\ writes'[i][a].term <= currentTerm[i]
               /\ \A b \in 1..a : writes'[i][b].term <= writes'[i][a].term
    <3>1. 1 \in 1..a + 1  BY <1>1
    <3>2. \A b \in 1..a : b \in 1..n - 1 /\ b + 1 \in 1..a + 1  BY <1>1
    <3> QED  BY <1>3, <2>1, <3>1, <3>2
  <2> QED  BY <1>1, <1>2, <1>3, <2>1, <2>2 DEF TermsAscend
<1>8. WritesAnswer(i)'
  <2>1. \A a \in 1..n :
          /\ q[a].then \in WaitsForRequest => q[a].from # i
          /\ q[a].then \in {"append", "refuse"} => q[a].req.term = q[a].term
    BY DEF QueueOK, WritesAnswer, WaitsForRequest
  <2> HIDE DEF q, n
  <2> QED  BY <1>3, <2>1 DEF WritesAnswer, WaitsForRequest
<1>9. RoleIsStored(i)'
  <2>1. /\ state[i] # DOWN /\ state[i] # FSM_LEADER
        /\ state[i] = FSM_CANDIDATE => q[n].then = "election" /\ currentTerm[i] >= 1
    BY DEF QueueOK, RoleIsStored
  <2> HIDE DEF q, n
  <2>2. n # 1 => writes'[i][n - 1] = q[n]
    <3>1. n # 1 => n - 1 \in 1..n - 1 /\ (n - 1) + 1 = n  BY <1>1
    <3> QED  BY <1>3, <3>1
  <2> QED  BY <1>3, <1>4, <2>1, <2>2 DEF RoleIsStored
<1> QED  BY <1>5, <1>6, <1>7, <1>8, <1>9 DEF QueueOK

-----------------------------------------------------------------------------
(* A step of one peer. *)

\* A step of i, as its queue and the network see it.
LocalStep(i) ==
  /\ OthersRest(i)
  /\ QueueOK(i)'
  /\ WritesFrom(i)
  /\ StaleFrom(stale')
  /\ \A k \in Server : reading'[k] \in {reading[k], None}
  /\ currentTerm'[i] >= currentTerm[i] \/ crashes' # crashes
  /\ diskTerm'[i] >= diskTerm[i]

\* A step that sends no request.
SilentStep(i) == LocalStep(i) /\ CallsFrom(rpc', rpc)

LEMMA LocalStepKeepsQueueInv ==
  ASSUME TypeOK, TypeOK', QueueInv, NEW i \in Server, LocalStep(i),
         \A k \in Server : k # i => CallsKept(k)
  PROVE  QueueInv'
<1>1. NoReading'
  BY DEF QueueInv, NoReading, LocalStep
<1>2. ASSUME NEW k \in Server, k # i
      PROVE  QueueOK(k)'
  BY <1>2, QueueStays DEF QueueInv, LocalStep, OthersRest, Rests
<1>3. ASSUME NEW s \in stale'
      PROVE  s.from # s.to
  <2>1. s.from \in Server /\ s.to \in Server  BY DEF TypeOK
  <2> QED  BY <2>1 DEF QueueInv, QueueOK, CallsMatchRole, LocalStep, StaleFrom
<1> QED  BY <1>1, <1>2, <1>3 DEF QueueInv, LocalStep

LEMMA SilentStepKeepsQueueInv ==
  ASSUME TypeOK, TypeOK', QueueInv, NEW i \in Server, SilentStep(i)
  PROVE  QueueInv' /\ NoNewTravel
<1>1. \A k \in Server : CallsKept(k)
  BY DEF SilentStep, CallsFrom, CallsKept
<1>2. ASSUME NEW k \in Server
      PROVE  WritesFrom(k)
  <2>1. k # i => writes'[k] = writes[k]
    BY DEF SilentStep, LocalStep, OthersRest, Rests
  <2> QED  BY <2>1 DEF WritesFrom, SilentStep, LocalStep
<1> QED  BY <1>1, <1>2, LocalStepKeepsQueueInv, NothingSent
         DEF SilentStep, LocalStep

LEMMA SameWritesFrom ==
  ASSUME NEW i \in Server, writes'[i] = writes[i] \/ writes'[i] = <<>>
  PROVE  WritesFrom(i)
  BY DEF WritesFrom

LEMMA UpdateWritesFrom ==
  ASSUME TypeOK, NEW i \in Server, NEW st, NEW t, NEW v, NEW then, NEW from,
         NEW req, UpdateState(i, st, t, v, then, from, req),
         then \in WaitsForRequest =>
           Travels(req, from, i) /\ (then = "append" => PrevMatches(log[i], req))
  PROVE  WritesFrom(i)
<1>1. CASE Unchanged(i, t, v)
  BY <1>1, SameWritesFrom DEF UpdateState
<1>2. CASE ~Unchanged(i, t, v)
  <2> DEFINE w == [term |-> t, vote |-> v, then |-> then, from |-> from, req |-> req]
             q == writes[i]
             n == Len(q)
  <2>1. q \in Seq(Write) /\ n \in Nat /\ writes'[i] = Append(q, w)
    BY <1>2 DEF UpdateState, TypeOK
  <2>2. /\ Len(writes'[i]) = n + 1
        /\ writes'[i][n + 1] = w
        /\ \A m \in 1..n : writes'[i][m] = q[m]
    BY <2>1
  <2>3. w.then = then /\ w.from = from /\ w.req = req
    OBVIOUS
  <2>4. \A m \in 1..n + 1 : m \in 1..n \/ m = n + 1
    BY <2>1
  <2> HIDE DEF w
  <2> QED  BY <2>2, <2>3, <2>4 DEF WritesFrom
<1> QED  BY <1>1, <1>2

LEMMA TailWritesFrom ==
  ASSUME TypeOK, NEW i \in Server, writes[i] # <<>>, WriteLeavesQueue(i)
  PROVE  WritesFrom(i)
<1> DEFINE q == writes[i]
           n == Len(q)
<1>1. q \in Seq(Write) /\ n \in Nat /\ writes'[i] = Tail(q)
  BY DEF WriteLeavesQueue, TypeOK
<1>2. /\ Len(writes'[i]) = n - 1
      /\ \A m \in 1..n - 1 : writes'[i][m] = q[m + 1] /\ m + 1 \in 1..n
  <2>1. Len(Tail(q)) = n - 1 /\ \A m \in 1..Len(Tail(q)) : Tail(q)[m] = q[m + 1]
    BY <1>1, HeadTailProperties
  <2>2. \A m \in 1..n - 1 : m + 1 \in 1..n
    BY <1>1
  <2> HIDE DEF q, n
  <2> QED  BY <1>1, <2>1, <2>2
<1> HIDE DEF n
<1> QED  BY <1>2 DEF WritesFrom, n

LEMMA Sockets ==
  ASSUME TypeOK
  PROVE  /\ rpc \in RpcType
         /\ CallsFrom(rpc, rpc) /\ StaleFrom(stale)
  BY DEF TypeOK, RpcType, CallsFrom, StaleFrom

LEMMA NoHandlerPauses ==
  ASSUME NEW i \in Server, QueueOK(i),
         \/ armed[i] \/ ~paused[i] \/ \E j \in Server : rpc[i][j] # None
  PROVE  NonePausing(i)
  BY DEF NonePausing, QueueOK, PausedAlone

-----------------------------------------------------------------------------
(* The steps that send nothing: transitions. *)

LEMMA BecomeFollowerIsSilent ==
  ASSUME TypeOK, TypeOK', QueueInv, NEW i \in Server, NEW t \in Nat,
         NEW r \in RpcType, CallsFrom(r, rpc), BecomeFollower(i, t, r),
         t > currentTerm[i], NonePausing(i)
  PROVE  SilentStep(i)
<1>1. /\ UpdateState(i, FSM_FOLLOWER, t, None, "nothing", None, None)
      /\ ForgetRole(i)
      /\ rpc' = CancelPendingRpcs(r, i)
      /\ stale' = stale \cup CancelledRequests(i)
      /\ RefreshElectionTimeout(i)
      /\ UNCHANGED <<diskTerm, log, commitIndex, lastApplied, paused, pend, reading>>
  BY DEF BecomeFollower, disk
<1>2. CallsFrom(rpc', rpc)  BY <1>1, CancelCalls, CallsFromTrans
<1>3. \A j \in Server : rpc'[i][j] = None
  BY <1>1, CancelIdles DEF QueueInv
<1>4. OthersRest(i)
  BY <1>1 DEF OthersRest, Rests, UpdateState, ForgetRole, FollowersAt,
              RefreshElectionTimeout, TypeOK
<1>5. FSM_FOLLOWER \in {FSM_FOLLOWER, FSM_CANDIDATE} /\ FSM_FOLLOWER # FSM_CANDIDATE
  BY DEF FSM_FOLLOWER, FSM_CANDIDATE
<1>6. QueueOK(i)'
  <2>1. /\ "nothing" \notin WaitsForRequest /\ "nothing" # "election"
        /\ "nothing" \notin {"append", "refuse"} /\ "nothing" \notin PausingHandler
    BY DEF WaitsForRequest, PausingHandler
  <2>2. t >= currentTerm[i]
    <3>1. currentTerm[i] \in Nat
      BY DEF TypeOK
    <3> QED  BY <3>1
  <2>3. QueueOK(i)  BY DEF QueueInv
  <2> QED  BY <1>1, <1>3, <1>5, <2>1, <2>2, <2>3, QueueUpdates
<1>7. WritesFrom(i)
  BY <1>1, UpdateWritesFrom DEF WaitsForRequest
<1>8. currentTerm'[i] >= currentTerm[i] /\ diskTerm'[i] >= diskTerm[i]
  BY <1>1 DEF UpdateState, TypeOK
<1>9. StaleFrom(stale')  BY <1>1, CancelledFrom
<1> QED  BY <1>1, <1>2, <1>4, <1>6, <1>7, <1>8, <1>9 DEF SilentStep, LocalStep

LEMMA ElectionTimeoutIsSilent ==
  ASSUME TypeOK, TypeOK', QueueInv, NEW i \in Server, ElectionTimeout(i)
  PROVE  SilentStep(i)
<1> DEFINE t == currentTerm[i] + 1
<1>1. /\ UpdateState(i, FSM_CANDIDATE, t, i, "election", None, None)
      /\ armed[i] /\ PausesRouter(i) /\ armed' = [armed EXCEPT ![i] = FALSE]
      /\ rpc' = CancelPendingRpcs(rpc, i)
      /\ stale' = stale \cup CancelledRequests(i)
      /\ UNCHANGED <<diskTerm, log, commitIndex, lastApplied, pend, reading,
                     nextIndex, matchIndex>>
  BY DEF ElectionTimeout, disk, progress
<1>2. t \in Nat /\ t > currentTerm[i] /\ t >= currentTerm[i] /\ QueueOK(i)
  <2>1. currentTerm[i] \in Nat  BY DEF TypeOK
  <2> QED  BY <2>1 DEF QueueInv
<1> HIDE DEF t
<1>3. CallsFrom(rpc', rpc)  BY <1>1, Sockets, CancelCalls
<1>4. \A j \in Server : rpc'[i][j] = None
  BY <1>1, <1>2, Sockets, CancelIdles
<1>5. OthersRest(i)
  BY <1>1 DEF OthersRest, Rests, UpdateState, PausesRouter, TypeOK
<1>6. paused'[i] /\ ~armed'[i]
  BY <1>1 DEF PausesRouter, TypeOK
<1>7. QueueOK(i)'
  <2>1. "election" \notin WaitsForRequest /\ "election" \notin {"append", "refuse"}
    BY DEF WaitsForRequest
  <2>2. FSM_CANDIDATE \in {FSM_FOLLOWER, FSM_CANDIDATE}
    OBVIOUS
  <2>3. NonePausing(i)  BY <1>1, <1>2, NoHandlerPauses
  <2>4. diskTerm'[i] = diskTerm[i]  BY <1>1
  <2> QED  BY <1>1, <1>2, <1>4, <1>6, <2>1, <2>2, <2>3, <2>4, QueueUpdates
<1>8. WritesFrom(i)
  BY <1>1, UpdateWritesFrom DEF WaitsForRequest
<1>9. currentTerm'[i] >= currentTerm[i] /\ diskTerm'[i] >= diskTerm[i]
  BY <1>1, <1>2 DEF UpdateState, TypeOK
<1>10. StaleFrom(stale')  BY <1>1, CancelledFrom
<1> QED  BY <1>1, <1>3, <1>5, <1>7, <1>8, <1>9, <1>10 DEF SilentStep, LocalStep

LEMMA TakeTermIsSilent ==
  ASSUME TypeOK, TypeOK', QueueInv, NEW i \in Server, NEW j \in Server,
         NEW q \in Arriving(i, j, "vote"), TakeTerm(i, j, q), ~paused[j]
  PROVE  SilentStep(j)
<1> DEFINE grant == GrantsVote(i, j, q)
           vote == IF grant THEN i ELSE None
           r == CancelPendingRpcs(rpc, j)
<1>1. /\ ~StaleTerm(j, q)
      /\ UpdateState(j, FSM_FOLLOWER, q.term, vote, "vote", i, q)
      /\ RefreshElectionTimeout(j)
      /\ ForgetRole(j)
      /\ stale' = stale \cup CancelledRequests(j)
      /\ UNCHANGED <<diskTerm, log, commitIndex, lastApplied, paused, pend, reading>>
  BY DEF TakeTerm, disk
<1>2. /\ q.term \in Nat /\ currentTerm[j] \in Nat
      /\ QueueOK(j)
  <2>1. q \in VoteRequestMsg  BY ArrivingType
  <2> QED  BY <2>1 DEF VoteRequestMsg, TypeOK, QueueInv
<1>3. q.term >= currentTerm[j]
  BY <1>1, <1>2 DEF StaleTerm
<1> HIDE DEF vote
<1>4. r \in RpcType /\ CallsFrom(r, rpc) /\ \A k \in Server : r[j][k] = None
  BY <1>2, Sockets, CancelCalls, CancelType, CancelIdles
<1>5. CallsFrom(rpc', r)
  <2> HIDE DEF r
  <2>1. CallsFrom(r, r)  BY DEF CallsFrom
  <2>2. rpc' = r \/ rpc' = SendReply(r, i, j, q, Answer(q.term, grant))
    BY DEF TakeTerm, r, vote
  <2> QED  BY <1>4, <2>1, <2>2, SendReplyCalls
<1> HIDE DEF r
<1>6. CallsFrom(rpc', rpc) /\ \A k \in Server : rpc'[j][k] = None
  <2>1. CallsFrom(rpc', rpc)  BY <1>4, <1>5, CallsFromTrans
  <2> QED  BY <1>4, <1>5, <2>1 DEF CallsFrom
<1>7. OthersRest(j)
  BY <1>1 DEF OthersRest, Rests, UpdateState, ForgetRole, FollowersAt,
              RefreshElectionTimeout, TypeOK
<1>8. Travels(q, i, j) /\ i # j
  <2>1. Travels(q, i, j)  BY ArrivingTravels
  <2>2. i # j
    <3>1. CASE rpc[i][j] # None  BY <3>1 DEF QueueInv, QueueOK, CallsMatchRole
    <3>2. CASE \E x \in stale : x.from = i /\ x.to = j
      BY <3>2 DEF QueueInv
    <3> QED  BY <3>1, <3>2 DEF Arriving
  <2> QED  BY <2>1, <2>2
<1>9. QueueOK(j)'
  <2>1. /\ "vote" # "election" /\ "vote" \notin {"append", "refuse"}
        /\ "vote" \notin PausingHandler
    BY DEF PausingHandler
  <2>2. FSM_FOLLOWER \in {FSM_FOLLOWER, FSM_CANDIDATE} /\ FSM_FOLLOWER # FSM_CANDIDATE
    BY DEF FSM_FOLLOWER, FSM_CANDIDATE
  <2>3. NonePausing(j)  BY <1>2, NoHandlerPauses
  <2>4. diskTerm'[j] = diskTerm[j]  BY <1>1
  <2> QED  BY <1>1, <1>2, <1>3, <1>6, <1>8, <2>1, <2>2, <2>3, <2>4, QueueUpdates
<1>10. WritesFrom(j)
  BY <1>1, <1>8, UpdateWritesFrom
<1>11. currentTerm'[j] >= currentTerm[j] /\ diskTerm'[j] >= diskTerm[j]
  BY <1>1, <1>3 DEF UpdateState, TypeOK
<1>12. StaleFrom(stale')  BY <1>1, CancelledFrom
<1> QED  BY <1>1, <1>6, <1>7, <1>9, <1>10, <1>11, <1>12 DEF SilentStep, LocalStep

-----------------------------------------------------------------------------
(* The steps that send nothing: requests and replies that arrive. *)

\* i neither changes its role nor its term.
Stays(i) ==
  /\ writes'[i] = writes[i] /\ state'[i] = state[i]
  /\ currentTerm'[i] = currentTerm[i] /\ diskTerm'[i] = diskTerm[i]
  /\ paused'[i] = paused[i] /\ armed'[i] = armed[i]

LEMMA SocketStepIsSilent ==
  ASSUME TypeOK, TypeOK', QueueInv, NEW i \in Server, CallsFrom(rpc', rpc),
         StaleFrom(stale'), Stays(i), OthersRest(i), reading' = reading
  PROVE  SilentStep(i)
<1>1. CallsKept(i)  BY DEF CallsFrom, CallsKept
<1>2. QueueOK(i)'  BY <1>1, QueueStays DEF QueueInv, Stays
<1>3. WritesFrom(i)  BY SameWritesFrom DEF Stays
<1>4. currentTerm'[i] >= currentTerm[i] /\ diskTerm'[i] >= diskTerm[i]
  BY DEF Stays, TypeOK
<1> QED  BY <1>2, <1>3, <1>4 DEF SilentStep, LocalStep

LEMMA VoteRequestIsSilent ==
  ASSUME TypeOK, TypeOK', QueueInv, NEW i \in Server, NEW j \in Server,
         VoteRequest(i, j)
  PROVE  SilentStep(j)
<1>1. PICK q \in Arriving(i, j, "vote") : DenyVote(i, j, q) \/ TakeTerm(i, j, q)
  BY DEF VoteRequest
<1>2. CASE DenyVote(i, j, q)
  <2>1. rpc' = SendReply(rpc, i, j, q, Answer(currentTerm[j], FALSE))
    BY <1>2 DEF DenyVote
  <2>2. CallsFrom(rpc', rpc)  BY <2>1, Sockets, SendReplyCalls
  <2>3. Stays(j) /\ OthersRest(j) /\ reading' = reading /\ stale' = stale
    BY <1>2 DEF DenyVote, Stays, Rests, OthersRest, disk, timing, progress
  <2>4. StaleFrom(stale')  BY <2>3, Sockets
  <2> QED  BY <2>2, <2>3, <2>4, SocketStepIsSilent
<1>3. CASE TakeTerm(i, j, q)
  BY <1>3, TakeTermIsSilent DEF VoteRequest
<1> QED  BY <1>1, <1>2, <1>3

LEMMA StillTravellingFrom ==
  ASSUME NEW i \in Server, NEW j \in Server, NEW q
  PROVE  /\ StaleFrom(StillTravelling(i, j, q))
         /\ StaleFrom(StillTravelling(i, j, q) \cup CancelledRequests(j))
<1>1. StaleFrom(stale \cup CancelledRequests(j))  BY CancelledFrom
<1>2. StillTravelling(i, j, q) \subseteq stale  BY DEF StillTravelling
<1> QED  BY <1>1, <1>2 DEF StaleFrom

LEMMA RefuseAppendIsSilent ==
  ASSUME TypeOK, TypeOK', QueueInv, NEW i \in Server, NEW j \in Server,
         RefuseAppend(i, j)
  PROVE  SilentStep(j)
<1>1. PICK q \in ArrivingAppends(i, j) :
        /\ rpc' = SendReply(MarkSeen(i, j, q), i, j, q,
                            Answer(currentTerm[j], FALSE))
        /\ stale' = StillTravelling(i, j, q)
  BY DEF RefuseAppend
<1>2. CallsFrom(rpc', rpc)
  <2>1. MarkSeen(i, j, q) \in RpcType /\ CallsFrom(MarkSeen(i, j, q), rpc)
    BY Sockets, MarkSeenType, MarkSeenCalls
  <2>2. CallsFrom(rpc', MarkSeen(i, j, q))  BY <1>1, <2>1, SendReplyCalls
  <2> QED  BY <2>1, <2>2, CallsFromTrans
<1>3. Stays(j) /\ OthersRest(j) /\ reading' = reading
  BY DEF RefuseAppend, Stays, Rests, OthersRest, disk, timing, progress
<1>4. StaleFrom(stale')  BY <1>1, StillTravellingFrom
<1> QED  BY <1>2, <1>3, <1>4, SocketStepIsSilent

LEMMA ConnectionLostIsSilent ==
  ASSUME TypeOK, TypeOK', QueueInv, NEW i \in Server, NEW j \in Server,
         ConnectionLost(i, j)
  PROVE  SilentStep(i)
<1> DEFINE c == [rpc[i][j] EXCEPT !.seen = FALSE, !.reply = None]
<1>1. /\ rpc[i][j] # None
      /\ rpc' = [rpc EXCEPT ![i][j].seen = FALSE, ![i][j].reply = None]
  BY DEF ConnectionLost
<1>2. rpc[i] \in [Server -> Call \cup {None}] /\ rpc[i][j] \in Call
  BY <1>1 DEF TypeOK
<1>3. c.req = rpc[i][j].req
  BY <1>2 DEF Call
<1>4. ASSUME NEW x \in Server, NEW y \in Server
      PROVE  rpc'[x][y] = IF x = i /\ y = j THEN c ELSE rpc[x][y]
  <2>1. rpc[x] \in [Server -> Call \cup {None}]  BY DEF TypeOK
  <2> QED  BY <1>1, <1>2, <2>1 DEF TypeOK
<1> HIDE DEF c
<1>5. CallsFrom(rpc', rpc)
  <2>1. rpc[i][j] # None  BY <1>1
  <2> QED  BY <1>3, <1>4, <2>1 DEF CallsFrom
<1>6. Stays(i) /\ OthersRest(i) /\ reading' = reading /\ stale' = stale
  BY DEF ConnectionLost, Stays, Rests, OthersRest, disk, timing, progress
<1>7. StaleFrom(stale')  BY <1>6, Sockets
<1> QED  BY <1>5, <1>6, <1>7, SocketStepIsSilent

\* appendEntryHandler() up to its write, or to its end.
LEMMA AppendRequestIsSilent ==
  ASSUME TypeOK, TypeOK', QueueInv, NEW i \in Server, NEW j \in Server,
         AppendRequest(i, j)
  PROVE  SilentStep(j)
<1>1. PICK q \in ArrivingAppends(i, j) :
        /\ ~StaleTerm(j, q)
        /\ TermIsRead(j, i, q, q.term, CapturedVote(j, q), MarkSeen(i, j, q), TRUE)
        /\ stale' = StillTravelling(i, j, q) \cup CancelledRequests(j)
  BY DEF AppendRequest
<1> DEFINE v == CapturedVote(j, q)
           t == q.term
           r == CancelPendingRpcs(MarkSeen(i, j, q), j)
           then == IF PrevMatches(log[j], q) THEN "append" ELSE "refuse"
<1>2. /\ t \in Nat /\ currentTerm[j] \in Nat /\ QueueOK(j) /\ q.term = t
      /\ q \in Arriving(i, j, "append")
  <2>1. q \in AppendRequestMsg  BY ArrivingType
  <2> QED  BY <2>1 DEF AppendRequestMsg, TypeOK, QueueInv, ArrivingAppends
<1>3. t >= currentTerm[j]
  BY <1>1, <1>2 DEF StaleTerm
<1>4. /\ r \in RpcType /\ CallsFrom(r, rpc) /\ \A k \in Server : r[j][k] = None
  <2>1. MarkSeen(i, j, q) \in RpcType /\ CallsFrom(MarkSeen(i, j, q), rpc)
    BY Sockets, MarkSeenType, MarkSeenCalls
  <2> QED  BY <1>2, <2>1, CancelCalls, CancelType, CancelIdles, CallsFromTrans
<1> HIDE DEF v, t, then
<1>5. /\ UpdateState(j, FSM_FOLLOWER, t, v, then, i, q)
      /\ ForgetRole(j)
      /\ \/ /\ Unchanged(j, t, v)
            /\ FinishAppend(j, i, q, t, PrevMatches(log[j], q), r)
            /\ armed' = [armed EXCEPT ![j] = TRUE]
         \/ /\ ~Unchanged(j, t, v)
            /\ rpc' = r
            /\ PausesRouter(j)
            /\ armed' = [armed EXCEPT ![j] = FALSE]
            /\ UNCHANGED <<log, pend, commitIndex>>
      /\ ~paused[j]
      /\ UNCHANGED <<diskTerm, lastApplied, reading>>
  <2>1. /\ ~paused[j] /\ UNCHANGED <<diskTerm, lastApplied, reading>>
    BY DEF AppendRequest, disk
  <2> QED  BY <1>1, <2>1 DEF TermIsRead, HoldsRouter, v, t, then
<1>6. CallsFrom(rpc', r)
  <2> HIDE DEF r
  <2>1. CallsFrom(r, r)  BY DEF CallsFrom
  <2>2. ASSUME FinishAppend(j, i, q, t, PrevMatches(log[j], q), r)
        PROVE  \E a : rpc' = SendReply(r, i, j, q, a)
    BY <2>2 DEF FinishAppend
  <2>3. \A a : CallsFrom(SendReply(r, i, j, q, a), r)
    BY <1>4, SendReplyCalls
  <2> QED  BY <1>5, <2>1, <2>2, <2>3
<1> HIDE DEF r
<1>7. CallsFrom(rpc', rpc) /\ \A k \in Server : rpc'[j][k] = None
  <2>1. CallsFrom(rpc', rpc)  BY <1>4, <1>6, CallsFromTrans
  <2> QED  BY <1>4, <1>6, <2>1 DEF CallsFrom
<1>8. OthersRest(j)
  <2> SUFFICES ASSUME NEW k \in Server, k # j
               PROVE  Rests(k)
    BY DEF OthersRest
  <2>1. /\ state'[k] = state[k] /\ currentTerm'[k] = currentTerm[k]
        /\ writes'[k] = writes[k]
    BY <1>5 DEF UpdateState, TypeOK
  <2>2. nextIndex'[k] = nextIndex[k] /\ matchIndex'[k] = matchIndex[k]
    BY <1>5 DEF ForgetRole, FollowersAt, TypeOK
  <2>3. /\ log'[k] = log[k] /\ pend'[k] = pend[k] /\ paused'[k] = paused[k]
        /\ commitIndex'[k] = commitIndex[k] /\ armed'[k] = armed[k]
    <3>1. CASE FinishAppend(j, i, q, t, PrevMatches(log[j], q), r)
      <4>1. armed'[k] = armed[k]  BY <1>5 DEF TypeOK
      <4> QED  BY <3>1, <4>1 DEF FinishAppend, ResumesRouter, TypeOK
    <3>2. CASE PausesRouter(j) /\ UNCHANGED <<log, pend, commitIndex>>
      <4>1. armed'[k] = armed[k]  BY <1>5 DEF TypeOK
      <4> QED  BY <3>2, <4>1 DEF PausesRouter, TypeOK
    <3> QED  BY <1>5, <3>1, <3>2
  <2> QED  BY <1>5, <2>1, <2>2, <2>3 DEF Rests
<1>9. Travels(q, i, j) /\ i # j
  <2>1. Travels(q, i, j)  BY <1>2, ArrivingTravels
  <2>2. i # j
    <3>1. CASE rpc[i][j] # None  BY <3>1 DEF QueueInv, QueueOK, CallsMatchRole
    <3>2. CASE \E x \in stale : x.from = i /\ x.to = j
      BY <3>2 DEF QueueInv
    <3> QED  BY <1>2, <3>1, <3>2 DEF Arriving
  <2> QED  BY <2>1, <2>2
<1>10. QueueOK(j)'
  <2>1. then # "election" /\ then # "vote" /\ then \in {"append", "refuse"}
    BY DEF then
  <2>2. FSM_FOLLOWER \in {FSM_FOLLOWER, FSM_CANDIDATE} /\ FSM_FOLLOWER # FSM_CANDIDATE
    BY DEF FSM_FOLLOWER, FSM_CANDIDATE
  <2>3. NonePausing(j)  BY <1>2, <1>5, NoHandlerPauses
  <2>4. diskTerm'[j] = diskTerm[j]  BY <1>5
  <2>5. ~Unchanged(j, t, v) => paused'[j] /\ ~armed'[j]
    BY <1>5 DEF PausesRouter, TypeOK
  <2> QED  BY <1>2, <1>3, <1>5, <1>7, <1>9, <2>1, <2>2, <2>3, <2>4, <2>5,
              QueueUpdates
<1>11. WritesFrom(j)
  <2>1. then = "append" => PrevMatches(log[j], q)  BY DEF then
  <2> QED  BY <1>5, <1>9, <2>1, UpdateWritesFrom
<1>12. currentTerm'[j] >= currentTerm[j] /\ diskTerm'[j] >= diskTerm[j]
  BY <1>3, <1>5 DEF UpdateState, TypeOK
<1>13. StaleFrom(stale')  BY <1>1, StillTravellingFrom
<1> QED  BY <1>5, <1>7, <1>8, <1>10, <1>11, <1>12, <1>13 DEF SilentStep, LocalStep

LEMMA AppendResponseIsSilent ==
  ASSUME TypeOK, TypeOK', QueueInv, NEW i \in Server, NEW j \in Server,
         AppendResponse(i, j)
  PROVE  SilentStep(i)
<1> DEFINE a == rpc[i][j].reply
           answered == [rpc EXCEPT ![i][j] = None]
<1>1. rpc[i][j] # None /\ a # None
  BY DEF AppendResponse
<1>2. a \in Reply /\ a.term \in Nat  BY <1>1, PendingType DEF Reply
<1>3. answered \in RpcType /\ CallsFrom(answered, rpc)
  BY Sockets, AnsweredCalls, AnsweredType
<1>4. CASE a.term > currentTerm[i] /\ BecomeFollower(i, a.term, answered)
  <2>1. NonePausing(i)  BY <1>1, NoHandlerPauses DEF QueueInv
  <2> HIDE DEF answered, a
  <2> QED  BY <1>2, <1>3, <1>4, <2>1, BecomeFollowerIsSilent
<1>5. CASE ~(a.term > currentTerm[i] /\ BecomeFollower(i, a.term, answered))
  <2>1. /\ rpc' = answered
        /\ UNCHANGED <<disk, log, state, currentTerm, timing, writes, pend,
                       reading, stale>>
        /\ \/ UNCHANGED matchIndex
           \/ matchIndex' = [matchIndex EXCEPT ![i][j] = SentLastIndex(rpc[i][j].req)]
        /\ \/ UNCHANGED nextIndex
           \/ \E n : nextIndex' = [nextIndex EXCEPT ![i][j] = n]
        /\ \/ UNCHANGED commitIndex
           \/ \E n : commitIndex' = [commitIndex EXCEPT ![i] = n]
    BY <1>5 DEF AppendResponse
  <2>2. Stays(i)  BY <2>1 DEF Stays, disk, timing
  <2>3. OthersRest(i)
    <3> SUFFICES ASSUME NEW k \in Server, k # i
                 PROVE  Rests(k)
      BY DEF OthersRest
    <3>1. nextIndex'[k] = nextIndex[k]
      <4>1. nextIndex \in [Server -> [Server -> Nat]]  BY DEF TypeOK
      <4> QED  BY <2>1, <4>1
    <3>2. matchIndex'[k] = matchIndex[k]
      <4>1. matchIndex \in [Server -> [Server -> Nat]]  BY DEF TypeOK
      <4> QED  BY <2>1, <4>1
    <3>3. commitIndex'[k] = commitIndex[k]
      <4>1. commitIndex \in [Server -> Nat]  BY DEF TypeOK
      <4> QED  BY <2>1, <4>1
    <3> QED  BY <2>1, <3>1, <3>2, <3>3 DEF Rests, disk, timing
  <2>4. StaleFrom(stale')  BY <2>1, Sockets
  <2> HIDE DEF answered
  <2> QED  BY <1>3, <2>1, <2>2, <2>3, <2>4, SocketStepIsSilent
<1> QED  BY <1>4, <1>5

\* What onVoteResponse() leaves to later resends.
LEMMA LateFrom ==
  ASSUME NEW i \in Server, NEW j \in Server, NEW S, rpc[i][j] # None
  PROVE  /\ StaleFrom(stale \cup LateResends(i, j))
         /\ StaleFrom(stale \cup Orphans(i, S) \cup LateResends(i, j))
<1>1. StaleFrom(Orphans(i, S))  BY OrphansFrom
<1>2. StaleFrom(LateResends(i, j))  BY DEF StaleFrom, LateResends
<1>3. StaleFrom(stale)  BY DEF StaleFrom
<1> QED  BY <1>1, <1>2, <1>3 DEF StaleFrom

\* onVoteResponse(), unless the candidate wins.
LEMMA VoteResponseIsSilent ==
  ASSUME TypeOK, TypeOK', QueueInv, NEW i \in Server, NEW j \in Server,
         VoteResponse(i, j), ~BecomeLeader(i)
  PROVE  SilentStep(i)
<1> DEFINE a == rpc[i][j].reply
           answered == [rpc EXCEPT ![i][j] = None]
<1>1. rpc[i][j] # None /\ a # None
  BY DEF VoteResponse
<1>2. a \in Reply /\ a.term \in Nat  BY <1>1, PendingType DEF Reply
<1>3. answered \in RpcType /\ CallsFrom(answered, rpc)
  BY Sockets, AnsweredCalls, AnsweredType
<1>4. CASE a.term > currentTerm[i] /\ BecomeFollower(i, a.term, answered)
  <2>1. NonePausing(i)  BY <1>1, NoHandlerPauses DEF QueueInv
  <2> HIDE DEF answered, a
  <2> QED  BY <1>2, <1>3, <1>4, <2>1, BecomeFollowerIsSilent
<1>5. CASE ~(a.term > currentTerm[i] /\ BecomeFollower(i, a.term, answered))
  <2>1. /\ rpc' = answered
        /\ stale' = stale \cup LateResends(i, j)
        /\ UNCHANGED <<disk, log, state, currentTerm, timing, writes, pend,
                       reading, progress, commitIndex>>
    BY <1>5 DEF VoteResponse
  <2>2. Stays(i) /\ OthersRest(i) /\ reading' = reading
    BY <2>1 DEF Stays, OthersRest, Rests, disk, timing, progress
  <2>3. StaleFrom(stale')  BY <1>1, <2>1, LateFrom
  <2> HIDE DEF answered
  <2> QED  BY <1>3, <2>1, <2>2, <2>3, SocketStepIsSilent
<1> QED  BY <1>4, <1>5

LEMMA ClientIsSilent ==
  ASSUME TypeOK, TypeOK', QueueInv, NEW i \in Server,
         Flush(i) \/ Apply(i) \/ \E v \in Value : ClientUpdate(i, v)
  PROVE  SilentStep(i)
<1>1. /\ UNCHANGED <<rpc, stale, writes, state, currentTerm, diskTerm, paused,
                     armed, reading, nextIndex, matchIndex, commitIndex>>
      /\ \A k \in Server : k # i =>
           /\ log'[k] = log[k] /\ pend'[k] = pend[k]
           /\ lastApplied'[k] = lastApplied[k]
  <2>1. CASE Flush(i)
    BY <2>1 DEF Flush, disk, timing, progress, network, TypeOK
  <2>2. CASE Apply(i)
    BY <2>2 DEF Apply, timing, progress, network, TypeOK
  <2>3. CASE \E v \in Value : ClientUpdate(i, v)
    BY <2>3 DEF ClientUpdate, disk, timing, progress, network, TypeOK
  <2> QED  BY <2>1, <2>2, <2>3
<1>2. Stays(i) /\ OthersRest(i)  BY <1>1 DEF Stays, OthersRest, Rests
<1>3. CallsFrom(rpc', rpc) /\ StaleFrom(stale')
  BY <1>1, Sockets
<1> QED  BY <1>1, <1>2, <1>3, SocketStepIsSilent

-----------------------------------------------------------------------------
(* The ends of processes and of writes. *)

LEMMA FailIsSilent ==
  ASSUME TypeOK, TypeOK', QueueInv, NEW i \in Server, Fail(i),
         diskTerm'[i] <= currentTerm[i], diskTerm'[i] >= diskTerm[i],
         \A k \in Server : k # i => diskTerm'[k] = diskTerm[k]
  PROVE  SilentStep(i)
<1>1. /\ state' = [state EXCEPT ![i] = DOWN]
      /\ armed' = [armed EXCEPT ![i] = FALSE]
      /\ PausesRouter(i)
      /\ writes' = [writes EXCEPT ![i] = <<>>]
      /\ pend' = [pend EXCEPT ![i] = <<>>]
      /\ reading' = [reading EXCEPT ![i] = None]
      /\ rpc' = [rpc EXCEPT ![i] = Idle]
      /\ stale' = stale \cup Orphans(i, Server)
      /\ ForgetRole(i)
      /\ UNCHANGED <<log, lastApplied, currentTerm, commitIndex>>
  BY DEF Fail
<1>2. OthersRest(i)
  BY <1>1 DEF OthersRest, Rests, PausesRouter, ForgetRole, FollowersAt, TypeOK
<1>3. CallsFrom(rpc', rpc)  BY <1>1, Sockets, IdleCalls
<1>4. QueueOK(i)'
  <2>1. /\ writes'[i] = <<>> /\ state'[i] = DOWN /\ paused'[i] /\ ~armed'[i]
        /\ currentTerm'[i] = currentTerm[i]
    BY <1>1 DEF PausesRouter, TypeOK
  <2>2. \A j \in Server : rpc'[i][j] = None
    BY <1>1 DEF Idle, TypeOK
  <2> QED  BY <2>1, <2>2, QueueResets
<1>5. WritesFrom(i)
  <2>1. writes'[i] = <<>>  BY <1>1 DEF TypeOK
  <2> QED  BY <2>1, SameWritesFrom
<1>6. StaleFrom(stale')
  <2>1. StaleFrom(Orphans(i, Server))  BY OrphansFrom
  <2> QED  BY <1>1, <2>1 DEF StaleFrom
<1>7. \A k \in Server : reading'[k] \in {reading[k], None}
  BY <1>1 DEF TypeOK
<1>8. currentTerm'[i] >= currentTerm[i]  BY <1>1 DEF TypeOK
<1> QED  BY <1>2, <1>3, <1>4, <1>5, <1>6, <1>7, <1>8 DEF SilentStep, LocalStep

LEMMA AppendRequestFailsIsSilent ==
  ASSUME TypeOK, TypeOK', QueueInv, NEW i \in Server, NEW j \in Server,
         AppendRequestFails(i, j)
  PROVE  SilentStep(j)
<1>1. Fail(j) /\ diskTerm' = diskTerm
  BY DEF AppendRequestFails
<1>2. diskTerm'[j] <= currentTerm[j] /\ diskTerm'[j] >= diskTerm[j]
  BY <1>1 DEF QueueInv, QueueOK, TermsAscend, TypeOK
<1> QED  BY <1>1, <1>2, FailIsSilent

\* The head of the queue of writes.
LEMMA HeadIsFirst ==
  ASSUME TypeOK, NEW i \in Server, QueueOK(i), writes[i] # <<>>
  PROVE  /\ Head(writes[i]) = writes[i][1] /\ 1 \in 1..Len(writes[i])
         /\ Head(writes[i]) \in Write
         /\ Head(writes[i]).term <= currentTerm[i]
         /\ Head(writes[i]).term >= diskTerm[i]
         /\ Head(writes[i]).then \in PausingHandler =>
              /\ Tail(writes[i]) = <<>> /\ Len(writes[i]) = 1
              /\ \A j \in Server : rpc[i][j] = None
              /\ Head(writes[i]).term = currentTerm[i]
              /\ state[i] = IF Head(writes[i]).then = "election"
                            THEN FSM_CANDIDATE ELSE FSM_FOLLOWER
<1>1. /\ Head(writes[i]) = writes[i][1] /\ 1 \in 1..Len(writes[i])
      /\ Head(writes[i]) \in Write
      /\ writes[i] \in Seq(Write)
  BY DEF TypeOK
<1>2. Head(writes[i]).term <= currentTerm[i] /\ Head(writes[i]).term >= diskTerm[i]
  <2>1. diskTerm[i] <= Head(writes[i]).term /\ Head(writes[i]).term <= currentTerm[i]
    BY <1>1 DEF QueueOK, TermsAscend
  <2>2. Head(writes[i]).term \in Nat /\ diskTerm[i] \in Nat
    BY <1>1 DEF Write, TypeOK
  <2> QED  BY <2>1, <2>2
<1>3. ASSUME Head(writes[i]).then \in PausingHandler
      PROVE  /\ Len(writes[i]) = 1
             /\ \A j \in Server : rpc[i][j] = None
             /\ Head(writes[i]).term = currentTerm[i]
             /\ state[i] = IF Head(writes[i]).then = "election"
                           THEN FSM_CANDIDATE ELSE FSM_FOLLOWER
  BY <1>1, <1>3 DEF QueueOK, PausedAlone
<1>4. Len(writes[i]) = 1 => Tail(writes[i]) = <<>>
  <2>1. Tail(writes[i]) \in Seq(Write) /\ Len(Tail(writes[i])) = Len(writes[i]) - 1
    BY <1>1, HeadTailProperties
  <2>2. Len(writes[i]) = 1 => Len(Tail(writes[i])) = 0  BY <2>1
  <2> QED  BY <2>1, <2>2, EmptySeq
<1> QED  BY <1>1, <1>2, <1>3, <1>4

LEMMA WriteTerm ==
  ASSUME TypeOK, NEW i \in Server, WriteEnds(i)
  PROVE  /\ diskTerm'[i] = Head(writes[i]).term
         /\ \A k \in Server : k # i => diskTerm'[k] = diskTerm[k]
  BY DEF WriteEnds, TypeOK

\* A write ends that nobody waits for, or a vote.
LEMMA WriteIsSilent ==
  ASSUME TypeOK, TypeOK', QueueInv, NEW i \in Server,
         NothingPersisted(i) \/ VotePersisted(i)
  PROVE  SilentStep(i)
<1>1. /\ writes[i] # <<>> /\ WriteEnds(i) /\ WriteLeavesQueue(i)
      /\ UNCHANGED <<log, lastApplied, state, currentTerm, commitIndex, armed,
                     paused, nextIndex, matchIndex, pend, reading, stale>>
  BY DEF NothingPersisted, VotePersisted, timing, progress, network
<1>2. CallsFrom(rpc', rpc)
  <2>1. CASE NothingPersisted(i)
    BY <2>1, Sockets DEF NothingPersisted, network
  <2>2. CASE VotePersisted(i)
    <3>1. Head(writes[i]) \in Write /\ Head(writes[i]).then = "vote"
      BY <1>1, <2>2, HeadIsFirst DEF QueueInv, VotePersisted
    <3>2. Head(writes[i]).from \in Server
      BY <3>1 DEF Write
    <3>3. \E a : rpc' = SendReply(rpc, Head(writes[i]).from, i, Head(writes[i]).req, a)
      BY <2>2 DEF VotePersisted
    <3> QED  BY <3>2, <3>3, Sockets, SendReplyCalls
  <2> QED  BY <2>1, <2>2
<1>3. OthersRest(i)
  <2>1. \A k \in Server : k # i => diskTerm'[k] = diskTerm[k] /\ writes'[k] = writes[k]
    BY <1>1 DEF WriteEnds, WriteLeavesQueue, TypeOK
  <2> QED  BY <1>1, <2>1 DEF OthersRest, Rests
<1>4. QueueOK(i)'
  BY <1>1, <1>2, QueuePops DEF QueueInv
<1>5. WritesFrom(i)  BY <1>1, TailWritesFrom
<1>6. StaleFrom(stale')  BY <1>1, Sockets
<1>7. currentTerm'[i] >= currentTerm[i] /\ diskTerm'[i] >= diskTerm[i]
  <2>1. diskTerm'[i] >= diskTerm[i]
    BY <1>1, HeadIsFirst, WriteTerm DEF QueueInv
  <2> QED  BY <1>1, <2>1 DEF TypeOK
<1> QED  BY <1>1, <1>2, <1>3, <1>4, <1>5, <1>6, <1>7 DEF SilentStep, LocalStep

\* appendEntryHandler() after its write.
LEMMA AppendPersistedIsSilent ==
  ASSUME TypeOK, TypeOK', QueueInv, NEW j \in Server, AppendPersisted(j)
  PROVE  SilentStep(j)
<1> DEFINE w == Head(writes[j])
<1>1. /\ writes[j] # <<>> /\ WriteEnds(j) /\ w.then \in {"append", "refuse"}
      /\ \/ /\ FinishAppend(j, w.from, w.req, w.term, w.then = "append", rpc)
            /\ WriteLeavesQueue(j)
            /\ RefreshElectionTimeout(j)
            /\ UNCHANGED <<lastApplied, state, currentTerm, progress, reading, stale>>
         \/ Fail(j)
  BY DEF AppendPersisted
<1>2. /\ w \in Write /\ w.term = currentTerm[j] /\ Tail(writes[j]) = <<>>
      /\ \A k \in Server : rpc[j][k] = None
      /\ state[j] = FSM_FOLLOWER
  <2>1. w.then \in PausingHandler /\ w.then # "election"
    BY <1>1 DEF PausingHandler
  <2> HIDE DEF w
  <2> QED  BY <1>1, <2>1, HeadIsFirst DEF QueueInv, w
<1>3. w.from \in Server
  BY <1>1, <1>2 DEF Write
<1>4. /\ diskTerm'[j] = currentTerm[j] /\ diskTerm'[j] >= diskTerm[j]
      /\ \A k \in Server : k # j => diskTerm'[k] = diskTerm[k]
  BY <1>1, <1>2, WriteTerm, HeadIsFirst DEF QueueInv
<1> HIDE DEF w
<1>5. CASE Fail(j)
  <2>1. diskTerm'[j] <= currentTerm[j]  BY <1>4 DEF TypeOK
  <2> QED  BY <1>4, <1>5, <2>1, FailIsSilent
<1>6. CASE /\ FinishAppend(j, w.from, w.req, w.term, w.then = "append", rpc)
           /\ WriteLeavesQueue(j)
           /\ RefreshElectionTimeout(j)
           /\ UNCHANGED <<lastApplied, state, currentTerm, progress, reading, stale>>
  <2>1. CallsFrom(rpc', rpc)
    <3>1. \E a : rpc' = SendReply(rpc, w.from, j, w.req, a)
      BY <1>6 DEF FinishAppend
    <3> QED  BY <1>3, <3>1, Sockets, SendReplyCalls
  <2>2. OthersRest(j)
    <3> SUFFICES ASSUME NEW k \in Server, k # j
                 PROVE  Rests(k)
      BY DEF OthersRest
    <3>1. writes'[k] = writes[k] /\ armed'[k] = armed[k]
      BY <1>6 DEF WriteLeavesQueue, RefreshElectionTimeout, TypeOK
    <3>2. /\ log'[k] = log[k] /\ pend'[k] = pend[k] /\ paused'[k] = paused[k]
          /\ commitIndex'[k] = commitIndex[k]
      BY <1>6 DEF FinishAppend, ResumesRouter, TypeOK
    <3> QED  BY <1>4, <1>6, <3>1, <3>2 DEF Rests, progress
  <2>3. writes'[j] = <<>>
    BY <1>2, <1>6 DEF WriteLeavesQueue, TypeOK
  <2>4. QueueOK(j)'
    <3>1. \A k \in Server : rpc'[j][k] = None  BY <1>2, <2>1 DEF CallsFrom
    <3>2. state'[j] = FSM_FOLLOWER /\ currentTerm'[j] = currentTerm[j]
      BY <1>2, <1>6
    <3>3. diskTerm'[j] <= currentTerm'[j]  BY <1>4, <3>2 DEF TypeOK
    <3> QED  BY <2>3, <3>1, <3>2, <3>3, QueueResets
  <2>5. WritesFrom(j)  BY <2>3, SameWritesFrom
  <2>6. StaleFrom(stale')  BY <1>6, Sockets
  <2>7. currentTerm'[j] >= currentTerm[j]  BY <1>6 DEF TypeOK
  <2> QED  BY <1>4, <1>6, <2>1, <2>2, <2>4, <2>5, <2>6, <2>7 DEF SilentStep, LocalStep
<1> QED  BY <1>1, <1>5, <1>6

\* A restart: the calls of the peer are gone, those to it are to be handled again.
LEMMA CrashIsSilent ==
  ASSUME TypeOK, TypeOK', QueueInv, NEW i \in Server, Crash(i)
  PROVE  SilentStep(i)
<1>1. /\ \E t : /\ diskTerm' = [diskTerm EXCEPT ![i] = t]
                /\ currentTerm' = [currentTerm EXCEPT ![i] = t]
      /\ \E l : log' = [log EXCEPT ![i] = l]
      /\ state' = [state EXCEPT ![i] = FSM_FOLLOWER]
      /\ commitIndex' = [commitIndex EXCEPT ![i] = RestartCommit(i)]
      /\ armed' = [armed EXCEPT ![i] = TRUE]
      /\ ResumesRouter(i)
      /\ writes' = [writes EXCEPT ![i] = <<>>]
      /\ pend' = [pend EXCEPT ![i] = <<>>]
      /\ reading' = [reading EXCEPT ![i] = None]
      /\ ForgetRole(i)
      /\ stale' = stale \cup Orphans(i, Server)
      /\ rpc' = [k \in Server |-> IF k = i THEN Idle ELSE
                   IF rpc[k][i] # None /\ rpc[k][i].reply = None
                   THEN [rpc[k] EXCEPT ![i].seen = FALSE] ELSE rpc[k]]
      /\ lastApplied' = lastApplied /\ crashes' = crashes + 1
  BY DEF Crash
<1>2. OthersRest(i)
  <2> SUFFICES ASSUME NEW k \in Server, k # i
               PROVE  Rests(k)
    BY DEF OthersRest
  <2>1. diskTerm'[k] = diskTerm[k] /\ currentTerm'[k] = currentTerm[k]
    BY <1>1 DEF TypeOK
  <2>2. log'[k] = log[k]  BY <1>1 DEF TypeOK
  <2> QED  BY <1>1, <2>1, <2>2
           DEF Rests, ResumesRouter, ForgetRole, FollowersAt, TypeOK
<1>3. CallsFrom(rpc', rpc)
  <2> SUFFICES ASSUME NEW x \in Server, NEW y \in Server, rpc'[x][y] # None
               PROVE  rpc[x][y] # None /\ rpc'[x][y].req = rpc[x][y].req
    BY DEF CallsFrom
  <2>1. rpc[x] \in [Server -> Call \cup {None}]
    BY DEF TypeOK
  <2>2. x # i  BY <1>1 DEF Idle
  <2>3. CASE y = i /\ rpc[x][i] # None /\ rpc[x][i].reply = None
    <3>1. rpc[x][y] \in Call  BY <2>1, <2>3
    <3>2. rpc'[x][y] = [rpc[x][y] EXCEPT !.seen = FALSE]
      BY <1>1, <2>1, <2>2, <2>3
    <3> QED  BY <2>3, <3>1, <3>2 DEF Call
  <2>4. CASE ~(y = i /\ rpc[x][i] # None /\ rpc[x][i].reply = None)
    <3>1. rpc'[x][y] = rpc[x][y]  BY <1>1, <2>1, <2>2, <2>4
    <3> QED  BY <3>1
  <2> QED  BY <2>3, <2>4
<1>4. QueueOK(i)'
  <2>1. writes'[i] = <<>> /\ state'[i] = FSM_FOLLOWER
    BY <1>1 DEF TypeOK
  <2>2. \A j \in Server : rpc'[i][j] = None
    BY <1>1 DEF Idle
  <2>3. diskTerm'[i] <= currentTerm'[i]
    <3>1. diskTerm'[i] = currentTerm'[i]  BY <1>1 DEF TypeOK
    <3> QED  BY <3>1 DEF TypeOK
  <2> QED  BY <2>1, <2>2, <2>3, QueueResets
<1>5. WritesFrom(i)
  <2>1. writes'[i] = <<>>  BY <1>1 DEF TypeOK
  <2> QED  BY <2>1, SameWritesFrom
<1>6. StaleFrom(stale')
  <2>1. StaleFrom(Orphans(i, Server))  BY OrphansFrom
  <2> QED  BY <1>1, <2>1 DEF StaleFrom
<1>7. \A k \in Server : reading'[k] \in {reading[k], None}
  BY <1>1 DEF TypeOK
<1>8. crashes' # crashes  BY <1>1 DEF TypeOK
<1>9. diskTerm'[i] >= diskTerm[i]
  <2>1. PICK w \in {[term |-> diskTerm[i], vote |-> diskVote[i]]} \cup
                   (IF writes[i] = <<>> THEN {}
                    ELSE {[term |-> Head(writes[i]).term, vote |-> Head(writes[i]).vote]}) :
          diskTerm' = [diskTerm EXCEPT ![i] = Larger(w.term, LastTermOf(log'[i]))]
    BY DEF Crash
  <2>2. diskTerm'[i] = Larger(w.term, LastTermOf(log'[i]))
    BY <2>1 DEF TypeOK
  <2>3. w.term \in Nat /\ w.term >= diskTerm[i]
    <3>1. CASE w = [term |-> diskTerm[i], vote |-> diskVote[i]]
      <4>1. diskTerm[i] \in Nat  BY DEF TypeOK
      <4> QED  BY <3>1, <4>1
    <3>2. CASE /\ writes[i] # <<>>
               /\ w = [term |-> Head(writes[i]).term, vote |-> Head(writes[i]).vote]
      <4>1. Head(writes[i]).term \in Nat /\ Head(writes[i]).term >= diskTerm[i]
        BY <3>2, HeadIsFirst DEF QueueInv, Write
      <4> QED  BY <3>2, <4>1
    <3> QED  BY <2>1, <3>1, <3>2
  <2>4. LastTermOf(log'[i]) \in Nat
    <3>1. log'[i] \in Seq(Entry)  BY DEF TypeOK
    <3> QED  BY <3>1, TermType
  <2>5. diskTerm[i] \in Nat  BY DEF TypeOK
  <2> QED  BY <2>2, <2>3, <2>4, <2>5 DEF Larger
<1> QED  BY <1>2, <1>3, <1>4, <1>5, <1>6, <1>7, <1>8, <1>9 DEF SilentStep, LocalStep

-----------------------------------------------------------------------------
(* The steps that send a request. *)

\* A request that was not on its way has just been given to a socket of i.
SentBy(i) ==
  \A x, y \in Server : \A q : Travels(q, x, y)' =>
    Travels(q, x, y) \/ (x = i /\ rpc'[x][y] # None /\ rpc'[x][y].req = q)

SendingStep(i) ==
  LocalStep(i) /\ \A k \in Server : k # i => CallsKept(k)

LEMMA SendingStepKeepsQueueInv ==
  ASSUME TypeOK, TypeOK', QueueInv, NEW i \in Server, SendingStep(i)
  PROVE  QueueInv' /\ SentBy(i)
<1>1. QueueInv'  BY LocalStepKeepsQueueInv DEF SendingStep
<1>2. ASSUME NEW x \in Server, NEW y \in Server, NEW q, Travels(q, x, y)'
      PROVE  Travels(q, x, y) \/ (x = i /\ rpc'[x][y] # None /\ rpc'[x][y].req = q)
  <2>1. CASE rpc'[x][y] # None /\ rpc'[x][y].req = q
    BY <2>1 DEF SendingStep, CallsKept, Travels
  <2>2. CASE [from |-> x, to |-> y, req |-> q] \in stale'
    BY <2>2 DEF SendingStep, LocalStep, StaleFrom, Travels
  <2>3. ASSUME NEW n \in 1..Len(writes'[y]), writes'[y][n].then \in WaitsForRequest,
               writes'[y][n].from = x, writes'[y][n].req = q
        PROVE  Travels(q, x, y)
    <3>1. CASE y = i
      <4>1. CASE Travels(writes'[y][n].req, writes'[y][n].from, y)
        BY <2>3, <4>1
      <4>2. ASSUME NEW m \in 1..Len(writes[y]), writes'[y][n] = writes[y][m]
            PROVE  Travels(q, x, y)
        BY <2>3, <4>2 DEF Travels, WaitsForRequest
      <4> QED  BY <2>3, <3>1, <4>1, <4>2 DEF WritesFrom, SendingStep, LocalStep
    <3>2. CASE y # i
      <4>1. writes'[y] = writes[y]
        BY <3>2 DEF SendingStep, LocalStep, OthersRest, Rests
      <4> QED  BY <2>3, <4>1 DEF Travels, WaitsForRequest
    <3> QED  BY <3>1, <3>2
  <2> QED  BY <1>2, <2>1, <2>2, <2>3 DEF Travels, WaitsForRequest
<1> QED  BY <1>1, <1>2 DEF SentBy

\* The calls of a peer that has just sent: in its role and term, to others.
CallsAreOwn(i, st, t) ==
  \A j \in Server : rpc'[i][j] # None =>
    /\ j # i
    /\ rpc'[i][j].req.term = t
    /\ st = IF rpc'[i][j].req.type = "vote" THEN FSM_CANDIDATE ELSE FSM_LEADER

LEMMA SendAppendSends ==
  ASSUME TypeOK, TypeOK', QueueInv, NEW i \in Server, NEW j \in Server,
         SendAppend(i, j)
  PROVE  SendingStep(i)
<1> DEFINE prev == nextIndex[i][j] - 1
<1>1. PICK n : rpc' = [rpc EXCEPT ![i][j] =
        [req |-> [type |-> "append", term |-> currentTerm[i], prev |-> prev,
                  prevTerm |-> TermAt(log[i], prev),
                  commit |-> commitIndex[i],
                  entries |-> SubSeq(log[i], prev + 1, prev + n)],
         seen |-> FALSE, reply |-> None]]
  BY DEF SendAppend
<1> DEFINE c == [req |-> [type |-> "append", term |-> currentTerm[i], prev |-> prev,
                          prevTerm |-> TermAt(log[i], prev),
                          commit |-> commitIndex[i],
                          entries |-> SubSeq(log[i], prev + 1, prev + n)],
                 seen |-> FALSE, reply |-> None]
<1>2. c.req.term = currentTerm[i] /\ c.req.type = "append"
  OBVIOUS
<1>3. rpc' = [rpc EXCEPT ![i][j] = c]
  BY <1>1
<1> HIDE DEF c
<1>4. ASSUME NEW x \in Server, NEW y \in Server
      PROVE  rpc'[x][y] = IF x = i /\ y = j THEN c ELSE rpc[x][y]
  <2>1. /\ rpc \in [Server -> [Server -> Call \cup {None}]]
        /\ rpc[x] \in [Server -> Call \cup {None}]
        /\ rpc[i] \in [Server -> Call \cup {None}]
    BY DEF TypeOK
  <2> HIDE <1>1
  <2> QED  BY <1>3, <2>1
<1>5. /\ state[i] = FSM_LEADER /\ i # j
      /\ UNCHANGED <<disk, log, state, currentTerm, commitIndex, timing, progress,
                     writes, pend, reading, stale>>
  BY DEF SendAppend
<1>6. OthersRest(i)
  BY <1>5 DEF OthersRest, Rests, disk, timing, progress
<1>7. \A k \in Server : k # i => CallsKept(k)
  BY <1>4 DEF CallsKept
<1>8. QueueOK(i)'
  <2>1. QueueOK(i) /\ writes[i] = <<>> /\ writes' = writes /\ state' = state
        /\ currentTerm' = currentTerm /\ diskTerm' = diskTerm /\ paused' = paused
        /\ armed' = armed
    BY <1>5 DEF QueueInv, QueueOK, RoleIsStored, disk, timing
  <2>2. CallsMatchRole(i)'
    BY <1>2, <1>4, <1>5, <2>1 DEF QueueOK, CallsMatchRole
  <2>3. PausedAlone(i)' /\ TermsAscend(i)' /\ RoleIsStored(i)' /\ WritesAnswer(i)'
    BY <2>1 DEF QueueOK, PausedAlone, TermsAscend, RoleIsStored, WritesAnswer
  <2> QED  BY <2>2, <2>3 DEF QueueOK
<1>9. WritesFrom(i) /\ StaleFrom(stale')
  BY <1>5, SameWritesFrom, Sockets
<1>10. /\ currentTerm'[i] >= currentTerm[i] /\ diskTerm'[i] >= diskTerm[i]
       /\ \A k \in Server : reading'[k] \in {reading[k], None}
  <2>1. currentTerm[i] \in Nat /\ diskTerm[i] \in Nat  BY DEF TypeOK
  <2> QED  BY <1>5, <2>1 DEF disk
<1> QED  BY <1>6, <1>7, <1>8, <1>9, <1>10 DEF SendingStep, LocalStep

\* becomeLeader(), called by onVoteResponse().
LEMMA BecomeLeaderSends ==
  ASSUME TypeOK, TypeOK', QueueInv, NEW i \in Server, NEW j \in Server,
         VoteResponse(i, j), BecomeLeader(i)
  PROVE  /\ SendingStep(i)
         /\ state[i] = FSM_CANDIDATE /\ writes[i] = <<>>
         /\ rpc[i][j].req.term = currentTerm[i]
<1> DEFINE req == [type |-> "append", term |-> currentTerm[i], prev |-> Len(log[i]),
                   prevTerm |-> LastTermOf(log[i]), commit |-> commitIndex[i],
                   entries |-> <<>>]
           c == [req |-> req, seen |-> FALSE, reply |-> None]
<1>1. /\ state' = [state EXCEPT ![i] = FSM_LEADER]
      /\ armed' = [armed EXCEPT ![i] = FALSE]
      /\ FollowersAt(i, Len(log[i]) + 1)
      /\ rpc' = [rpc EXCEPT ![i] = [k \in Server |-> IF k = i THEN None ELSE c]]
      /\ \A k \in Server : k # i => pend'[k] = pend[k]
      /\ UNCHANGED <<diskTerm, lastApplied, log, currentTerm, commitIndex, paused,
                     writes, reading>>
  BY DEF BecomeLeader, disk, TypeOK
<1>2. c.req.term = currentTerm[i] /\ c.req.type = "append"
  OBVIOUS
<1> HIDE DEF c
<1>3. rpc[i][j] # None /\ rpc[i][j].req.type = "vote" /\ QueueOK(i)
  BY DEF VoteResponse, QueueInv
<1>4. state[i] = FSM_CANDIDATE /\ rpc[i][j].req.term = currentTerm[i]
  BY <1>3 DEF QueueOK, CallsMatchRole
<1>5. writes[i] = <<>>
  <2>1. writes[i] # <<>> => Len(writes[i]) \in 1..Len(writes[i])
    BY DEF TypeOK
  <2>2. NonePausing(i)  BY <1>3, NoHandlerPauses
  <2> QED  BY <1>3, <1>4, <2>1, <2>2
           DEF QueueOK, RoleIsStored, NonePausing, PausingHandler
<1>6. OthersRest(i)
  BY <1>1 DEF OthersRest, Rests, FollowersAt, TypeOK
<1>7. \A k \in Server : k # i => CallsKept(k)
  <2>1. \A k \in Server : k # i => rpc'[k] = rpc[k]  BY <1>1 DEF TypeOK
  <2> QED  BY <2>1 DEF CallsKept
<1>8. QueueOK(i)'
  <2>1. state'[i] = FSM_LEADER /\ writes'[i] = <<>>
    BY <1>1, <1>5 DEF TypeOK
  <2>2. CallsMatchRole(i)'
    <3>1. \A k \in Server : rpc'[i][k] = IF k = i THEN None ELSE c
      BY <1>1 DEF TypeOK
    <3>2. c # None => c.req.term = currentTerm'[i]  BY <1>1, <1>2
    <3>3. FSM_LEADER = IF c.req.type = "vote" THEN FSM_CANDIDATE ELSE FSM_LEADER
      BY <1>2
    <3> QED  BY <2>1, <3>1, <3>2, <3>3 DEF CallsMatchRole
  <2>3. currentTerm[i] >= 1 /\ diskTerm[i] <= currentTerm[i]
    BY <1>3, <1>4 DEF QueueOK, RoleIsStored, TermsAscend
  <2>4. PausedAlone(i)' /\ WritesAnswer(i)'
    BY <2>1 DEF PausedAlone, WritesAnswer
  <2>5. TermsAscend(i)'
    BY <1>1, <2>1, <2>3 DEF TermsAscend
  <2>6. RoleIsStored(i)'
    BY <1>1, <2>1, <2>3 DEF RoleIsStored, FSM_LEADER, DOWN
  <2> QED  BY <2>2, <2>4, <2>5, <2>6 DEF QueueOK
<1>9. WritesFrom(i)  BY <1>1, SameWritesFrom
<1>10. StaleFrom(stale')
  <2>1. stale' \in {stale \cup Orphans(i, Peers(i) \ {j}) \cup LateResends(i, j),
                    stale \cup LateResends(i, j),
                    stale \cup CancelledRequests(i)}
    BY DEF VoteResponse, BecomeFollower
  <2> QED  BY <1>3, <2>1, LateFrom, CancelledFrom
<1>11. /\ currentTerm'[i] >= currentTerm[i] /\ diskTerm'[i] >= diskTerm[i]
       /\ \A k \in Server : reading'[k] \in {reading[k], None}
  <2>1. currentTerm[i] \in Nat /\ diskTerm[i] \in Nat  BY DEF TypeOK
  <2> QED  BY <1>1, <2>1
<1> QED  BY <1>4, <1>5, <1>6, <1>7, <1>8, <1>9, <1>10, <1>11
         DEF SendingStep, LocalStep

\* onElectionTimeout() after its write: no call is pending, so it does not fail.
LEMMA ElectionPersistedSends ==
  ASSUME TypeOK, TypeOK', QueueInv, NEW i \in Server, ElectionPersisted(i)
  PROVE  /\ SendingStep(i)
         /\ ~Fail(i)
         /\ Head(writes[i]).term = currentTerm[i]
         /\ state[i] = FSM_CANDIDATE
         /\ writes'[i] = <<>>
<1> DEFINE t == Head(writes[i]).term
           req == [type |-> "vote", term |-> t, lastIndex |-> Len(log[i]),
                   lastTerm |-> LastTermOf(log[i])]
           c == [req |-> req, seen |-> FALSE, reply |-> None]
<1>1. /\ writes[i] # <<>> /\ Head(writes[i]).then = "election" /\ WriteEnds(i)
      /\ QueueOK(i)
  BY DEF ElectionPersisted, QueueInv
<1>2. /\ Tail(writes[i]) = <<>> /\ t = currentTerm[i] /\ state[i] = FSM_CANDIDATE
      /\ \A j \in Server : rpc[i][j] = None
  BY <1>1, HeadIsFirst DEF PausingHandler
<1>3. /\ rpc' = [rpc EXCEPT ![i] = [j \in Server |-> IF j = i THEN None ELSE c]]
      /\ RefreshElectionTimeout(i) /\ ResumesRouter(i) /\ WriteLeavesQueue(i)
      /\ UNCHANGED <<log, lastApplied, state, currentTerm, commitIndex, progress,
                     pend, reading, stale>>
  BY <1>2 DEF ElectionPersisted
<1>4. c.req.term = t /\ c.req.type = "vote"
  OBVIOUS
<1> HIDE DEF c, t
<1>5. writes'[i] = <<>> /\ state'[i] = FSM_CANDIDATE /\ currentTerm'[i] = t
  BY <1>2, <1>3 DEF WriteLeavesQueue, TypeOK
<1>6. ~Fail(i)
  <2>1. Fail(i) => state'[i] = DOWN  BY DEF Fail, TypeOK
  <2> QED  BY <1>5, <2>1 DEF FSM_CANDIDATE, DOWN
<1>7. diskTerm'[i] = t /\ \A k \in Server : k # i => diskTerm'[k] = diskTerm[k]
  BY <1>1, WriteTerm DEF t
<1>8. OthersRest(i)
  <2>1. \A k \in Server : k # i =>
          /\ writes'[k] = writes[k] /\ armed'[k] = armed[k] /\ paused'[k] = paused[k]
    BY <1>3 DEF WriteLeavesQueue, RefreshElectionTimeout, ResumesRouter, TypeOK
  <2> QED  BY <1>3, <1>7, <2>1 DEF OthersRest, Rests, progress
<1>9. \A k \in Server : k # i => CallsKept(k)
  <2>1. \A k \in Server : k # i => rpc'[k] = rpc[k]  BY <1>3 DEF TypeOK
  <2> QED  BY <2>1 DEF CallsKept
<1>10. QueueOK(i)'
  <2>1. CallsMatchRole(i)'
    <3>1. \A k \in Server : rpc'[i][k] = IF k = i THEN None ELSE c
      BY <1>3 DEF TypeOK
    <3>2. FSM_CANDIDATE = IF c.req.type = "vote" THEN FSM_CANDIDATE ELSE FSM_LEADER
      BY <1>4
    <3>3. c # None => c.req.term = currentTerm'[i]  BY <1>4, <1>5
    <3> QED  BY <1>5, <3>1, <3>2, <3>3 DEF CallsMatchRole
  <2>2. t \in Nat /\ t >= 1
    BY <1>1, <1>2 DEF QueueOK, RoleIsStored, TypeOK
  <2>3. PausedAlone(i)' /\ WritesAnswer(i)'
    BY <1>5 DEF PausedAlone, WritesAnswer
  <2>4. TermsAscend(i)'
    BY <1>5, <1>7, <2>2 DEF TermsAscend
  <2>5. RoleIsStored(i)'
    BY <1>5, <2>2 DEF RoleIsStored, FSM_LEADER, FSM_CANDIDATE, DOWN
  <2> QED  BY <2>1, <2>3, <2>4, <2>5 DEF QueueOK
<1>11. WritesFrom(i)  BY <1>5, SameWritesFrom
<1>12. StaleFrom(stale')  BY <1>3, Sockets
<1>13. /\ currentTerm'[i] >= currentTerm[i] /\ diskTerm'[i] >= diskTerm[i]
       /\ \A k \in Server : reading'[k] \in {reading[k], None}
  <2>1. diskTerm'[i] >= diskTerm[i]
    BY <1>1, HeadIsFirst, WriteTerm
  <2>2. currentTerm[i] \in Nat  BY DEF TypeOK
  <2> QED  BY <1>3, <2>1, <2>2
<1> QED  BY <1>2, <1>5, <1>6, <1>8, <1>9, <1>10, <1>11, <1>12, <1>13
         DEF SendingStep, LocalStep, t

-----------------------------------------------------------------------------
(* The theorems. *)

LEMMA InitQueueInv == Init => QueueInv
<1> SUFFICES ASSUME Init  PROVE QueueInv
  OBVIOUS
<1>1. /\ diskTerm = [i \in Server |-> 0] /\ currentTerm = [i \in Server |-> 0]
      /\ state = [i \in Server |-> FSM_FOLLOWER]
      /\ writes = [i \in Server |-> <<>>]
      /\ reading = [i \in Server |-> None]
      /\ rpc = [i \in Server |-> Idle]
      /\ stale = {}
  BY DEF Init, Started
<1>2. \A i \in Server : QueueOK(i)
  BY <1>1 DEF QueueOK, PausedAlone, TermsAscend, RoleIsStored, WritesAnswer,
              CallsMatchRole, Idle, FSM_FOLLOWER, FSM_CANDIDATE, FSM_LEADER, DOWN
<1>3. NoReading  BY <1>1 DEF NoReading
<1> QED  BY <1>1, <1>2, <1>3 DEF QueueInv

\* Every step is a step of one peer, and it sends nothing or it is one of the
\* three that do.
LEMMA NextIsLocal ==
  ASSUME ReadOvertaken = FALSE, TypeOK, TypeOK', QueueInv, Next
  PROVE  \E i \in Server : SilentStep(i) \/ SendingStep(i)
<1>1. ASSUME NEW i \in Server,
             \/ ElectionTimeout(i)
             \/ NothingPersisted(i)
             \/ VotePersisted(i)
             \/ AppendPersisted(i)
             \/ Flush(i)
             \/ Apply(i)
             \/ Crash(i)
             \/ \E v \in Value : ClientUpdate(i, v)
      PROVE  SilentStep(i)
  BY <1>1, ElectionTimeoutIsSilent, WriteIsSilent, AppendPersistedIsSilent,
     ClientIsSilent, CrashIsSilent
<1>2. ASSUME NEW i \in Server, NEW j \in Server,
             VoteRequest(i, j) \/ RefuseAppend(i, j) \/ AppendRequest(i, j)
             \/ AppendRequestFails(i, j)
      PROVE  SilentStep(j)
  BY <1>2, VoteRequestIsSilent, RefuseAppendIsSilent, AppendRequestIsSilent,
     AppendRequestFailsIsSilent
<1>3. ASSUME NEW i \in Server, NEW j \in Server,
             AppendResponse(i, j) \/ ConnectionLost(i, j)
      PROVE  SilentStep(i)
  BY <1>3, AppendResponseIsSilent, ConnectionLostIsSilent
<1>4. ASSUME NEW i \in Server, NEW j \in Server,
             VoteResponse(i, j) \/ SendAppend(i, j)
      PROVE  SilentStep(i) \/ SendingStep(i)
  BY <1>4, VoteResponseIsSilent, BecomeLeaderSends, SendAppendSends
<1>5. ASSUME NEW i \in Server, ElectionPersisted(i)
      PROVE  SendingStep(i)
  BY <1>5, ElectionPersistedSends
<1>6. ASSUME NEW i \in Server, NEW j \in Server, BeginRead(i, j)
      PROVE  FALSE
  BY <1>6 DEF BeginRead
<1>7. ASSUME NEW i \in Server, EndRead(i)
      PROVE  FALSE
  BY <1>7 DEF EndRead, QueueInv, NoReading
<1> QED  BY <1>1, <1>2, <1>3, <1>4, <1>5, <1>6, <1>7 DEF Next

LEMMA NextQueueInv ==
  ASSUME ReadOvertaken = FALSE, TypeOK, QueueInv, [Next]_vars
  PROVE  /\ QueueInv'
         /\ \A i \in Server : currentTerm'[i] >= currentTerm[i] \/ crashes' # crashes
<1>1. TypeOK'  BY NextType
<1>2. CASE UNCHANGED vars
  <2>1. /\ UNCHANGED <<diskTerm, state, currentTerm, armed, paused, writes, reading,
                       rpc, stale>>
    BY <1>2 DEF vars
  <2>2. \A k \in Server : CallsKept(k)  BY <2>1 DEF CallsKept
  <2>3. \A k \in Server : QueueOK(k)'
    BY <2>1, <2>2, QueueStays DEF QueueInv
  <2>4. \A i \in Server : currentTerm'[i] >= currentTerm[i]
    BY <2>1 DEF TypeOK
  <2> QED  BY <2>1, <2>3, <2>4 DEF QueueInv, NoReading
<1>3. CASE Next
  <2>1. PICK i \in Server : SilentStep(i) \/ SendingStep(i)
    BY <1>1, <1>3, NextIsLocal
  <2>2. QueueInv'
    BY <1>1, <2>1, SilentStepKeepsQueueInv, SendingStepKeepsQueueInv
  <2>3. LocalStep(i)  BY <2>1 DEF SilentStep, SendingStep
  <2>4. ASSUME NEW k \in Server
        PROVE  currentTerm'[k] >= currentTerm[k] \/ crashes' # crashes
    <3>1. CASE k = i  BY <2>3, <3>1 DEF LocalStep
    <3>2. CASE k # i
      <4>1. currentTerm'[k] = currentTerm[k]
        BY <2>3, <3>2 DEF LocalStep, OthersRest, Rests
      <4> QED  BY <4>1 DEF TypeOK
    <3> QED  BY <3>1, <3>2
  <2> QED  BY <2>2, <2>4
<1> QED  BY <1>2, <1>3

\* What _updateState, the paused router and the cancelled calls keep up between
\* a peer's role, its queue of writes and its sockets.
THEOREM QueueInvariant ==
  ASSUME ReadOvertaken = FALSE
  PROVE  Spec => []QueueInv
<1>1. Init => TypeOK /\ QueueInv  BY InitType, InitQueueInv
<1>2. TypeOK /\ QueueInv /\ [Next]_vars => (TypeOK /\ QueueInv)'
  BY NextType, NextQueueInv
<1> QED  BY <1>1, <1>2, PTL DEF Spec

\* What a peer has pending on its sockets belongs to its present role and term
\* (_cancelPendingRpcs): a reply cannot answer another question.
THEOREM CallsMatchRoles ==
  ASSUME ReadOvertaken = FALSE
  PROVE  Spec => []PendingRpcMatchesRole
<1>1. QueueInv => PendingRpcMatchesRole
  BY DEF QueueInv, QueueOK, CallsMatchRole, PendingRpcMatchesRole
<1> QED  BY <1>1, QueueInvariant, PTL

-----------------------------------------------------------------------------
(* What a step does to roles, ballots and disks. *)

\* Nobody is elected; a candidacy or a leadership continues or is new.
RolesContinue ==
  /\ elected' = elected
  /\ \A k \in Server : state'[k] = FSM_CANDIDATE =>
       \/ state[k] = FSM_CANDIDATE /\ currentTerm'[k] = currentTerm[k]
       \/ currentTerm'[k] > currentTerm[k] /\ diskTerm'[k] = diskTerm[k]
  /\ \A k \in Server : state'[k] = FSM_LEADER =>
       state[k] = FSM_LEADER /\ currentTerm'[k] = currentTerm[k]

LEMMA SameRoles ==
  ASSUME UNCHANGED <<elected, state, currentTerm>>
  PROVE  RolesContinue
  BY DEF RolesContinue

LEMMA FollowerRole ==
  ASSUME TypeOK, NEW i \in Server, NEW st, NEW t, NEW v, NEW then, NEW from,
         NEW req, UpdateState(i, st, t, v, then, from, req), elected' = elected,
         \/ st = FSM_FOLLOWER
         \/ st = FSM_CANDIDATE /\ t > currentTerm[i] /\ diskTerm' = diskTerm
  PROVE  RolesContinue
  BY DEF RolesContinue, UpdateState, TypeOK, FSM_FOLLOWER, FSM_CANDIDATE, FSM_LEADER

LEMMA EndedRole ==
  ASSUME TypeOK, NEW i \in Server, NEW st \in {FSM_FOLLOWER, DOWN},
         state' = [state EXCEPT ![i] = st],
         \A k \in Server : k # i => currentTerm'[k] = currentTerm[k],
         elected' = elected
  PROVE  RolesContinue
  BY DEF RolesContinue, TypeOK, FSM_FOLLOWER, FSM_CANDIDATE, FSM_LEADER, DOWN

\* Who is elected, and when.
LEMMA RolesChange ==
  ASSUME ReadOvertaken = FALSE, TypeOK, TypeOK', QueueInv, Next
  PROVE  \/ RolesContinue
         \/ \E i, j \in Server : VoteResponse(i, j) /\ BecomeLeader(i)
<1>1. ASSUME NEW i \in Server, ElectionTimeout(i)
      PROVE  RolesContinue
  <2>1. currentTerm[i] + 1 > currentTerm[i]  BY DEF TypeOK
  <2>2. /\ UpdateState(i, FSM_CANDIDATE, currentTerm[i] + 1, i, "election", None, None)
        /\ elected' = elected /\ diskTerm' = diskTerm
    BY <1>1 DEF ElectionTimeout, history, disk
  <2> QED  BY <2>1, <2>2, FollowerRole
<1>2. ASSUME NEW i \in Server, Fail(i)
      PROVE  RolesContinue
  BY <1>2, EndedRole DEF Fail, history
<1>3. ASSUME NEW i \in Server,
             \/ NothingPersisted(i) \/ VotePersisted(i) \/ Flush(i) \/ Apply(i)
             \/ \E v \in Value : ClientUpdate(i, v)
      PROVE  RolesContinue
  BY <1>3, SameRoles
     DEF NothingPersisted, VotePersisted, Flush, Apply, ClientUpdate, history
<1>4. ASSUME NEW i \in Server, ElectionPersisted(i)
      PROVE  RolesContinue
  BY <1>2, <1>4, SameRoles DEF ElectionPersisted
<1>5. ASSUME NEW i \in Server, AppendPersisted(i)
      PROVE  RolesContinue
  BY <1>2, <1>5, SameRoles DEF AppendPersisted, history
<1>6. ASSUME NEW i \in Server, Crash(i)
      PROVE  RolesContinue
  <2>1. \A k \in Server : k # i => currentTerm'[k] = currentTerm[k]
    BY <1>6 DEF Crash, TypeOK
  <2>2. state' = [state EXCEPT ![i] = FSM_FOLLOWER] /\ elected' = elected
    BY <1>6 DEF Crash, history
  <2> QED  BY <2>1, <2>2, EndedRole
<1>7. ASSUME NEW i \in Server, NEW j \in Server,
             \/ RefuseAppend(i, j) \/ SendAppend(i, j) \/ ConnectionLost(i, j)
      PROVE  RolesContinue
  BY <1>7, SameRoles DEF RefuseAppend, SendAppend, ConnectionLost, history
<1>8. ASSUME NEW i \in Server, NEW t, NEW r, BecomeFollower(i, t, r)
      PROVE  RolesContinue
  BY <1>8, FollowerRole DEF BecomeFollower, history
<1>9. ASSUME NEW i \in Server, NEW j \in Server, VoteRequest(i, j)
      PROVE  RolesContinue
  <2>1. PICK q \in Arriving(i, j, "vote") : DenyVote(i, j, q) \/ TakeTerm(i, j, q)
    BY <1>9 DEF VoteRequest
  <2>2. CASE DenyVote(i, j, q)  BY <2>2, SameRoles DEF DenyVote, history
  <2>3. CASE TakeTerm(i, j, q)
    BY <2>3, FollowerRole DEF TakeTerm
  <2> QED  BY <2>1, <2>2, <2>3
<1>10. ASSUME NEW i \in Server, NEW j \in Server, VoteResponse(i, j), ~BecomeLeader(i)
      PROVE  RolesContinue
  BY <1>8, <1>10, SameRoles DEF VoteResponse, history
<1>11. ASSUME NEW i \in Server, NEW j \in Server, AppendRequest(i, j)
      PROVE  RolesContinue
  BY <1>11, FollowerRole DEF AppendRequest, TermIsRead, history
<1>12. ASSUME NEW i \in Server, NEW j \in Server, AppendRequestFails(i, j)
      PROVE  RolesContinue
  BY <1>2, <1>12 DEF AppendRequestFails
<1>13. ASSUME NEW i \in Server, NEW j \in Server, AppendResponse(i, j)
      PROVE  RolesContinue
  BY <1>8, <1>13, SameRoles DEF AppendResponse, history
<1>14. ASSUME NEW i \in Server, NEW j \in Server, BeginRead(i, j)
      PROVE  FALSE
  BY <1>14 DEF BeginRead
<1>15. ASSUME NEW i \in Server, EndRead(i)
      PROVE  FALSE
  BY <1>15 DEF EndRead, QueueInv, NoReading
<1> QED  BY <1>1, <1>3, <1>4, <1>5, <1>6, <1>7, <1>9, <1>10, <1>11, <1>12,
            <1>13, <1>14, <1>15 DEF Next

-----------------------------------------------------------------------------
(* FreshInv *)

LEMMA DisksRise ==
  ASSUME TypeOK, NEW i \in Server, LocalStep(i)
  PROVE  \A k \in Server : diskTerm'[k] >= diskTerm[k]
<1>1. ASSUME NEW k \in Server, k # i
      PROVE  diskTerm'[k] >= diskTerm[k]
  <2>1. diskTerm'[k] = diskTerm[k]
    BY <1>1 DEF LocalStep, OthersRest, Rests
  <2>2. diskTerm[k] \in Nat  BY DEF TypeOK
  <2> QED  BY <2>1, <2>2
<1> QED  BY <1>1 DEF LocalStep

\* A peer that has a call has stored its term.
LEMMA CallersHaveStored ==
  ASSUME TypeOK', NEW i \in Server, QueueOK(i)', PeerOK(i)',
         NEW j \in Server, rpc'[i][j] # None
  PROVE  /\ writes'[i] = <<>>
         /\ rpc'[i][j].req.term = diskTerm'[i]
<1>1. writes'[i] # <<>> => Len(writes'[i]) \in 1..Len(writes'[i])
  BY DEF TypeOK
<1>2. \A n \in 1..Len(writes'[i]) : writes'[i][n].then \notin PausingHandler
  BY DEF QueueOK, PausedAlone
<1>3. state'[i] \in {FSM_CANDIDATE, FSM_LEADER} /\ rpc'[i][j].req.term = currentTerm'[i]
  BY DEF QueueOK, CallsMatchRole
<1>4. writes'[i] = <<>>
  BY <1>1, <1>2, <1>3 DEF QueueOK, RoleIsStored, PausingHandler
<1>5. state'[i] # DOWN
  BY <1>3 DEF FSM_CANDIDATE, FSM_LEADER, DOWN
<1> QED  BY <1>3, <1>4, <1>5 DEF PeerOK, MemoryIsLastWrite

LEMMA TravelsIsTyped ==
  ASSUME TypeOK, NEW i \in Server, NEW j \in Server, NEW q, Travels(q, i, j)
  PROVE  q \in Request
<1>1. CASE rpc[i][j] # None /\ rpc[i][j].req = q
  <2>1. rpc[i] \in [Server -> Call \cup {None}]  BY DEF TypeOK
  <2>2. rpc[i][j] \in Call  BY <1>1, <2>1
  <2> QED  BY <1>1, <2>2 DEF Call
<1>2. CASE [from |-> i, to |-> j, req |-> q] \in stale
  BY <1>2 DEF TypeOK
<1>3. ASSUME NEW n \in 1..Len(writes[j]),
             writes[j][n].then \in {"vote", "append", "refuse"},
             writes[j][n].from = i, writes[j][n].req = q
      PROVE  q \in Request
  <2>1. writes[j] \in Seq(Write)  BY DEF TypeOK
  <2>2. writes[j][n] \in Write  BY <2>1
  <2> QED  BY <1>3, <2>2 DEF Write, Request
<1> QED  BY <1>1, <1>2, <1>3 DEF Travels

LEMMA BallotsAreFresh ==
  ASSUME ReadOvertaken = FALSE, TypeOK, TypeOK', QueueInv, ElectionInv,
         FreshInv, Next, NEW b \in ballots', b \notin ballots
  PROVE  b.cand \in Server /\ b.term <= diskTerm'[b.cand]
<1>1. PICK k \in Server : LocalStep(k)
  BY NextIsLocal DEF SilentStep, SendingStep
<1>2. \A c \in Server : diskTerm'[c] >= diskTerm[c] /\ diskTerm[c] \in Nat /\ diskTerm'[c] \in Nat
  BY <1>1, DisksRise DEF TypeOK
<1>3. ASSUME NEW i \in Server, ElectionPersisted(i)
      PROVE  b.cand \in Server /\ b.term <= diskTerm'[b.cand]
  <2>1. ~Fail(i) /\ writes[i] # <<>> /\ WriteEnds(i)
    BY <1>3, ElectionPersistedSends DEF ElectionPersisted
  <2>2. b = [voter |-> i, term |-> Head(writes[i]).term, cand |-> i]
    BY <1>3, <2>1 DEF ElectionPersisted
  <2>3. diskTerm'[i] = Head(writes[i]).term  BY <2>1, WriteTerm
  <2>4. diskTerm'[i] <= diskTerm'[i]  BY <1>2
  <2> QED  BY <2>2, <2>3, <2>4
<1>4. ASSUME NEW i \in Server, NEW j \in Server, VoteRequest(i, j)
      PROVE  b.cand \in Server /\ b.term <= diskTerm'[b.cand]
  <2>1. PICK q \in Arriving(i, j, "vote") : DenyVote(i, j, q) \/ TakeTerm(i, j, q)
    BY <1>4 DEF VoteRequest
  <2>2. b = [voter |-> j, term |-> q.term, cand |-> i]
    BY <2>1 DEF DenyVote, TakeTerm, Cast, history
  <2>3. Travels(q, i, j) /\ q \in VoteRequestMsg
    BY ArrivingTravels, ArrivingType
  <2>4. q.term <= diskTerm[i] /\ q.term \in Nat
    BY <2>3 DEF FreshInv, Request, VoteRequestMsg
  <2> QED  BY <1>2, <2>2, <2>4
<1>5. ASSUME NEW j \in Server, VotePersisted(j)
      PROVE  b.cand \in Server /\ b.term <= diskTerm'[b.cand]
  <2> DEFINE w == Head(writes[j])
  <2>1. /\ writes[j] # <<>> /\ w.then = "vote" /\ w = writes[j][1]
        /\ 1 \in 1..Len(writes[j]) /\ w \in Write
    BY <1>5, HeadIsFirst DEF VotePersisted, QueueInv
  <2>2. b = [voter |-> j, term |-> w.term, cand |-> w.from]
    BY <1>5 DEF VotePersisted, Cast
  <2>3. w.from \in Server /\ w.req \in VoteRequestMsg  BY <2>1 DEF Write
  <2>4. w.req.term = w.term
    BY <2>1 DEF ElectionInv, PeerOK, WritesMeanVotes
  <2>5. Travels(w.req, w.from, j)  BY <2>1 DEF Travels
  <2>6. w.req.term <= diskTerm[w.from] /\ w.req.term \in Nat
    BY <2>3, <2>5 DEF FreshInv, Request, VoteRequestMsg
  <2> HIDE DEF w
  <2> QED  BY <1>2, <2>2, <2>3, <2>4, <2>6
<1>6. ASSUME NEW i \in Server,
             \/ ElectionTimeout(i) \/ NothingPersisted(i) \/ AppendPersisted(i)
             \/ Flush(i) \/ Apply(i) \/ Crash(i) \/ \E v \in Value : ClientUpdate(i, v)
      PROVE  FALSE
  BY <1>6 DEF ElectionTimeout, NothingPersisted, AppendPersisted, Fail, Flush, Apply,
              Crash, ClientUpdate, history
<1>7. ASSUME NEW i \in Server, NEW j \in Server,
             \/ VoteResponse(i, j) \/ RefuseAppend(i, j) \/ AppendRequest(i, j)
             \/ AppendRequestFails(i, j) \/ SendAppend(i, j)
             \/ AppendResponse(i, j) \/ ConnectionLost(i, j)
      PROVE  FALSE
  BY <1>7 DEF VoteResponse, BecomeFollower, BecomeLeader, RefuseAppend, AppendRequest,
              AppendRequestFails, Fail, SendAppend, AppendResponse, ConnectionLost,
              history
<1>8. ASSUME NEW i \in Server, NEW j \in Server, BeginRead(i, j)
      PROVE  FALSE
  BY <1>8 DEF BeginRead
<1>9. ASSUME NEW i \in Server, EndRead(i)
      PROVE  FALSE
  BY <1>9 DEF EndRead, QueueInv, NoReading
<1> QED  BY <1>3, <1>4, <1>5, <1>6, <1>7, <1>8, <1>9 DEF Next

LEMMA FreshStep ==
  ASSUME ReadOvertaken = FALSE, TypeOK, TypeOK', QueueInv, QueueInv',
         ElectionInv, ElectionInv', FreshInv, Next
  PROVE  FreshInv'
<1>1. PICK k \in Server : SilentStep(k) \/ SendingStep(k)
  BY NextIsLocal
<1>2. \A c \in Server : diskTerm'[c] >= diskTerm[c] /\ diskTerm[c] \in Nat /\ diskTerm'[c] \in Nat
  <2>1. LocalStep(k)  BY <1>1 DEF SilentStep, SendingStep
  <2> QED  BY <2>1, DisksRise DEF TypeOK
<1>3. ASSUME NEW i \in Server, NEW j \in Server, NEW q \in Request, Travels(q, i, j)'
      PROVE  q.term <= diskTerm'[i]
  <2>1. q.term \in Nat  BY DEF Request, VoteRequestMsg, AppendRequestMsg
  <2>2. CASE Travels(q, i, j)
    <3>1. q.term <= diskTerm[i]  BY <2>2 DEF FreshInv
    <3> QED  BY <1>2, <2>1, <3>1
  <2>3. CASE rpc'[i][j] # None /\ rpc'[i][j].req = q
    <3>1. q.term = diskTerm'[i]
      BY <2>3, CallersHaveStored DEF QueueInv, ElectionInv
    <3> QED  BY <1>2, <3>1
  <2>4. CASE SilentStep(k)
    BY <1>3, <2>2, <2>4, SilentStepKeepsQueueInv DEF NoNewTravel
  <2>5. CASE SendingStep(k)
    BY <1>3, <2>2, <2>3, <2>5, SendingStepKeepsQueueInv DEF SentBy
  <2> QED  BY <1>1, <2>4, <2>5
<1>4. ASSUME NEW b \in ballots'
      PROVE  b.term <= diskTerm'[b.cand]
  <2>1. CASE b \in ballots
    <3>1. b.term <= diskTerm[b.cand] /\ b.term \in Nat /\ b.cand \in Server
      BY <2>1 DEF FreshInv, TypeOK
    <3> QED  BY <1>2, <3>1
  <2>2. CASE b \notin ballots
    BY <2>2, BallotsAreFresh
  <2> QED  BY <2>1, <2>2
<1>5. ASSUME NEW e \in elected
      PROVE  /\ e.term <= diskTerm[e.leader] /\ e.term <= diskTerm'[e.leader]
             /\ e.term \in Nat /\ e.leader \in Server
  <2>1. e.term <= diskTerm[e.leader] /\ e.term \in Nat /\ e.leader \in Server
    BY DEF FreshInv, TypeOK
  <2> QED  BY <1>2, <2>1
<1>6. CASE RolesContinue
  <2>1. ASSUME NEW i \in Server, state'[i] = FSM_CANDIDATE
        PROVE  Victory(i, currentTerm'[i]) \notin elected
    <3>1. CASE state[i] = FSM_CANDIDATE /\ currentTerm'[i] = currentTerm[i]
      BY <3>1 DEF FreshInv
    <3>2. CASE currentTerm'[i] > currentTerm[i]
      <4>1. diskTerm[i] <= currentTerm[i] /\ currentTerm[i] \in Nat /\ currentTerm'[i] \in Nat
        BY DEF QueueInv, QueueOK, TermsAscend, TypeOK
      <4>2. ~(currentTerm'[i] <= diskTerm[i])
        BY <1>2, <3>2, <4>1
      <4>3. Victory(i, currentTerm'[i]).term = currentTerm'[i] /\ Victory(i, currentTerm'[i]).leader = i
        BY DEF Victory
      <4> HIDE DEF Victory
      <4> QED  BY <1>5, <4>2, <4>3
    <3> QED  BY <1>6, <2>1, <3>1, <3>2 DEF RolesContinue
  <2>2. elected' = elected  BY <1>6 DEF RolesContinue
  <2> QED  BY <1>3, <1>4, <1>5, <2>1, <2>2 DEF FreshInv
<1>7. ASSUME NEW i \in Server, NEW j \in Server, VoteResponse(i, j), BecomeLeader(i)
      PROVE  FreshInv'
  <2>1. elected' = elected \cup {Victory(i, currentTerm[i])}
    BY <1>7 DEF BecomeLeader, Victory
  <2>2. /\ state' = [state EXCEPT ![i] = FSM_LEADER]
        /\ UNCHANGED <<currentTerm, diskTerm>>
    BY <1>7 DEF BecomeLeader, disk
  <2>3. currentTerm[i] = diskTerm'[i]
    <3>1. state[i] = FSM_CANDIDATE /\ writes[i] = <<>>
      BY <1>7, BecomeLeaderSends
    <3>2. state[i] # DOWN  BY <3>1 DEF FSM_CANDIDATE, DOWN
    <3> QED  BY <2>2, <3>1, <3>2 DEF ElectionInv, PeerOK, MemoryIsLastWrite
  <2>4. ASSUME NEW e \in elected'
        PROVE  e.term <= diskTerm'[e.leader]
    <3>1. CASE e \in elected  BY <1>5, <3>1
    <3>2. CASE e = Victory(i, currentTerm[i])
      <4>1. e.term = currentTerm[i] /\ e.leader = i  BY <3>2 DEF Victory
      <4> QED  BY <1>2, <2>3, <4>1
    <3> QED  BY <2>1, <3>1, <3>2
  <2>5. ASSUME NEW n \in Server, state'[n] = FSM_CANDIDATE
        PROVE  Victory(n, currentTerm'[n]) \notin elected'
    <3>1. n # i /\ state[n] = FSM_CANDIDATE
      BY <2>2, <2>5 DEF TypeOK, FSM_CANDIDATE, FSM_LEADER
    <3>2. Victory(n, currentTerm[n]) \notin elected  BY <3>1 DEF FreshInv
    <3>3. Victory(n, currentTerm[n]) # Victory(i, currentTerm[i])
      BY <3>1 DEF Victory
    <3> QED  BY <2>1, <2>2, <3>2, <3>3
  <2> QED  BY <1>3, <1>4, <2>4, <2>5 DEF FreshInv
<1> QED  BY <1>6, <1>7, RolesChange

-----------------------------------------------------------------------------
(* Logs and histories. *)

IsHistory(H) == H \in [Nat -> Seq(Entry)]

\* s is where l begins.
Begins(s, l) == Agree(s, l, Len(s))

LEMMA AgreeTrans ==
  ASSUME NEW a \in Seq(Entry), NEW b \in Seq(Entry), NEW c \in Seq(Entry),
         NEW n \in Nat, NEW m \in 0..n, Agree(a, b, n), Agree(b, c, m)
  PROVE  Agree(a, c, m)
  BY DEF Agree

LEMMA EntryTerm ==
  ASSUME NEW s \in Seq(Entry), NEW n \in 1..Len(s)
  PROVE  s[n] \in Entry /\ s[n].term \in Nat
<1>1. s[n] \in Entry  OBVIOUS
<1> QED  BY <1>1 DEF Entry

LEMMA ConcatParts ==
  ASSUME NEW l \in Seq(Entry), NEW m \in Seq(Entry)
  PROVE  /\ l \o m \in Seq(Entry)
         /\ Len(l \o m) = Len(l) + Len(m)
         /\ \A n \in 1..Len(l) : (l \o m)[n] = l[n]
         /\ \A n \in 1..Len(m) : (l \o m)[Len(l) + n] = m[n]
         /\ Begins(l, l \o m)
<1> DEFINE lm == l \o m
<1>1. /\ lm \in Seq(Entry)
      /\ Len(lm) = Len(l) + Len(m)
      /\ \A i \in 1..Len(l) + Len(m) :
           lm[i] = IF i <= Len(l) THEN l[i] ELSE m[i - Len(l)]
  BY ConcatProperties
<1>2. Len(l) \in Nat /\ Len(m) \in Nat  OBVIOUS
<1> HIDE DEF lm
<1>3. \A n \in 1..Len(l) : lm[n] = l[n]
  BY <1>1, <1>2
<1>4. ASSUME NEW n \in 1..Len(m)
      PROVE  lm[Len(l) + n] = m[n]
  <2>1. Len(l) + n \in 1..Len(l) + Len(m) /\ ~(Len(l) + n <= Len(l))
        /\ (Len(l) + n) - Len(l) = n
    BY <1>2
  <2> QED  BY <1>1, <2>1
<1>5. Begins(l, lm)  BY <1>1, <1>2, <1>3 DEF Begins, Agree
<1> QED  BY <1>1, <1>3, <1>4, <1>5 DEF lm

LEMMA PieceParts ==
  ASSUME NEW s \in Seq(Entry), NEW a \in Nat, NEW n \in Nat, a + n <= Len(s)
  PROVE  LET p == SubSeq(s, a + 1, a + n)
         IN /\ p \in Seq(Entry) /\ Len(p) = n
            /\ \A m \in 1..n : p[m] = s[a + m]
<1> DEFINE p == SubSeq(s, a + 1, a + n)
<1>1. \A m \in a + 1..a + n : m \in 1..Len(s)  OBVIOUS
<1>2. \A m \in a + 1..a + n : s[m] \in Entry  BY <1>1
<1>3. a + 1 \in Int /\ a + n \in Int  OBVIOUS
<1>4. /\ p \in Seq(Entry)
      /\ Len(p) = IF a + 1 <= a + n THEN a + n - (a + 1) + 1 ELSE 0
      /\ \A m \in 1..a + n - (a + 1) + 1 : p[m] = s[a + 1 + m - 1]
  BY <1>2, <1>3, SubSeqProperties
<1> HIDE DEF p
<1>5. Len(p) = n  BY <1>4
<1>6. \A m \in 1..n : m \in 1..a + n - (a + 1) + 1 /\ a + 1 + m - 1 = a + m
  OBVIOUS
<1>7. \A m \in 1..n : p[m] = s[a + m]  BY <1>4, <1>6
<1> QED  BY <1>4, <1>5, <1>7 DEF p

LEMMA PrefixParts ==
  ASSUME NEW s \in Seq(Entry), NEW n \in 0..Len(s)
  PROVE  LET p == SubSeq(s, 1, n)
         IN /\ p \in Seq(Entry) /\ Len(p) = n
            /\ \A m \in 1..n : p[m] = s[m]
<1> DEFINE p == SubSeq(s, 1, n)
<1>1. 0 + 1 = 1 /\ 0 + n = n /\ n \in Nat /\ 0 \in Nat /\ 0 + n <= Len(s)  OBVIOUS
<1>2. /\ p \in Seq(Entry) /\ Len(p) = n
      /\ \A m \in 1..n : p[m] = s[0 + m]
  BY <1>1, PieceParts
<1> HIDE DEF p
<1>3. \A m \in 1..n : 0 + m = m  OBVIOUS
<1>4. \A m \in 1..n : p[m] = s[m]  BY <1>2, <1>3
<1> QED  BY <1>2, <1>4 DEF p

LEMMA SoundBegins ==
  ASSUME NEW H, IsHistory(H), NEW s \in Seq(Entry), NEW l \in Seq(Entry),
         Begins(s, l), Sound(l, H)
  PROVE  Sound(s, H)
<1> SUFFICES ASSUME NEW n \in 1..Len(s)
             PROVE  Agree(s, H[s[n].term], n)
  BY DEF Sound
<1>1. s[n] = l[n] /\ n \in 1..Len(l)  BY DEF Begins, Agree
<1>2. Agree(l, H[s[n].term], n)  BY <1>1 DEF Sound
<1> QED  BY <1>2 DEF Begins, Agree

LEMMA AscendsBegins ==
  ASSUME NEW s \in Seq(Entry), NEW l \in Seq(Entry), NEW t,
         Begins(s, l), Ascends(l, t)
  PROVE  Ascends(s, t)
<1>1. \A n \in 1..Len(s) : n \in 1..Len(l) /\ s[n] = l[n] /\ 1..n \subseteq 1..Len(s)
  BY DEF Begins, Agree
<1> QED  BY <1>1 DEF Ascends

LEMMA AscendsLater ==
  ASSUME NEW s \in Seq(Entry), NEW t \in Nat, NEW u \in Nat, t <= u, Ascends(s, t)
  PROVE  Ascends(s, u)
<1>1. \A n \in 1..Len(s) : s[n].term \in Nat  BY EntryTerm
<1> QED  BY <1>1 DEF Ascends

\* The log of a peer with its appends.
LEMMA VLogType ==
  ASSUME TypeOK, NEW i \in Server
  PROVE  /\ VLog(i) \in Seq(Entry) /\ log[i] \in Seq(Entry) /\ pend[i] \in Seq(Entry)
         /\ Len(VLog(i)) = Len(log[i]) + Len(pend[i])
         /\ \A n \in 1..Len(log[i]) : VLog(i)[n] = log[i][n]
         /\ \A n \in 1..Len(pend[i]) : VLog(i)[Len(log[i]) + n] = pend[i][n]
         /\ Begins(log[i], VLog(i))
<1>1. log[i] \in Seq(Entry) /\ pend[i] \in Seq(Entry)  BY DEF TypeOK
<1> QED  BY <1>1, ConcatParts DEF VLog

LEMMA VLogTypeNext ==
  ASSUME TypeOK', NEW i \in Server
  PROVE  /\ VLog(i)' \in Seq(Entry) /\ log'[i] \in Seq(Entry) /\ pend'[i] \in Seq(Entry)
         /\ Len(VLog(i)') = Len(log'[i]) + Len(pend'[i])
         /\ \A n \in 1..Len(log'[i]) : VLog(i)'[n] = log'[i][n]
         /\ \A n \in 1..Len(pend'[i]) : VLog(i)'[Len(log'[i]) + n] = pend'[i][n]
         /\ Begins(log'[i], VLog(i)')
<1>1. log'[i] \in Seq(Entry) /\ pend'[i] \in Seq(Entry)  BY DEF TypeOK
<1> QED  BY <1>1, ConcatParts DEF VLog

\* What the leader of a term adds to its log.
LEMMA SoundGrows ==
  ASSUME NEW H, IsHistory(H), NEW t \in Nat, NEW l \in Seq(Entry), Begins(H[t], l),
         NEW s \in Seq(Entry), Sound(s, H)
  PROVE  Sound(s, [H EXCEPT ![t] = l])
<1> SUFFICES ASSUME NEW n \in 1..Len(s)
             PROVE  Agree(s, [H EXCEPT ![t] = l][s[n].term], n)
  BY DEF Sound
<1>1. s[n].term \in Nat  BY EntryTerm
<1>2. Agree(s, H[s[n].term], n)  BY DEF Sound
<1>3. CASE s[n].term = t
  <2>1. [H EXCEPT ![t] = l][s[n].term] = l  BY <1>1, <1>3 DEF IsHistory
  <2>2. H[t] \in Seq(Entry)  BY DEF IsHistory
  <2>3. Agree(s, l, n)
    BY <1>2, <1>3, <2>2 DEF Begins, Agree
  <2> QED  BY <2>1, <2>3
<1>4. CASE s[n].term # t
  BY <1>1, <1>2, <1>4 DEF IsHistory
<1> QED  BY <1>3, <1>4

LEMMA TermAtType ==
  ASSUME NEW s \in Seq(Entry), NEW n \in Nat
  PROVE  /\ TermAt(s, n) \in Int
         /\ n <= Len(s) => TermAt(s, n) \in Nat
  BY EntryTerm DEF TermAt

LEMMA TermAtBegins ==
  ASSUME NEW s \in Seq(Entry), NEW l \in Seq(Entry), NEW n \in Nat, n <= Len(s),
         Begins(s, l)
  PROVE  TermAt(s, n) = TermAt(l, n)
  BY DEF TermAt, Begins, Agree

LEMMA SliceType ==
  ASSUME NEW q \in AppendRequestMsg
  PROVE  /\ q.prev \in Nat /\ q.term \in Nat /\ q.entries \in Seq(Entry)
         /\ q.commit \in Nat
         /\ Len(q.entries) \in Nat /\ SentLastIndex(q) = q.prev + Len(q.entries)
         /\ SentLastIndex(q) \in Nat
  BY DEF AppendRequestMsg, SentLastIndex

LEMMA SliceGrows ==
  ASSUME NEW q \in AppendRequestMsg, NEW s \in Seq(Entry), NEW l \in Seq(Entry),
         Begins(s, l), SliceOf(q, s)
  PROVE  SliceOf(q, l)
<1>1. /\ q.prev \in Nat /\ Len(q.entries) \in Nat
      /\ SentLastIndex(q) = q.prev + Len(q.entries)
  BY SliceType
<1>2. q.prev <= Len(s) /\ Len(s) <= Len(l)
  BY <1>1 DEF SliceOf, Begins, Agree
<1>3. q.prevTerm = TermAt(l, q.prev)
  BY <1>1, <1>2, TermAtBegins DEF SliceOf
<1>4. ASSUME NEW m \in 1..Len(q.entries)
      PROVE  q.entries[m] = l[q.prev + m]
  <2>1. q.prev + m \in 1..Len(s)
    BY <1>1, <1>2 DEF SliceOf
  <2> QED  BY <2>1 DEF SliceOf, Begins, Agree
<1>5. SentLastIndex(q) <= Len(l)
  BY <1>1, <1>2 DEF SliceOf
<1> QED  BY <1>3, <1>4, <1>5 DEF SliceOf

-----------------------------------------------------------------------------
(* Steps that add nothing to the log of a leader. *)

\* What a step of k leaves to be shown for the other peers.
LEMMA OthersKeepLogs ==
  ASSUME TypeOK, TypeOK', NEW H, IsHistory(H), NEW k \in Server, OthersRest(k),
         elected \subseteq elected', NEW x \in Server, x # k, CallsKept(x),
         PeerHistory(x, H), LeaderOK(x, H), WaitingAppendsOK(x)
  PROVE  PeerHistory(x, H)' /\ LeaderOK(x, H)' /\ WaitingAppendsOK(x)'
<1>1. /\ log'[x] = log[x] /\ pend'[x] = pend[x] /\ state'[x] = state[x]
      /\ currentTerm'[x] = currentTerm[x] /\ nextIndex'[x] = nextIndex[x]
      /\ writes'[x] = writes[x]
  BY DEF OthersRest, Rests
<1>2. VLog(x)' = VLog(x)  BY <1>1 DEF VLog
<1>3. PeerHistory(x, H)'  BY <1>1, <1>2 DEF PeerHistory
<1>4. WaitingAppendsOK(x)'  BY <1>1 DEF WaitingAppendsOK
<1>5. LeaderOK(x, H)'
  BY <1>1, <1>2 DEF LeaderOK, CallsKept
<1> QED  BY <1>3, <1>4, <1>5

LEMMA StepKeepsLogInv ==
  ASSUME TypeOK, TypeOK', NEW H, LogInv(H), NEW k \in Server, OthersRest(k),
         elected' = elected, \A x \in Server : x # k => CallsKept(x),
         PeerHistory(k, H)', LeaderOK(k, H)', WaitingAppendsOK(k)', AppendsOK(H)'
  PROVE  LogInv(H)'
<1>1. \A x \in Server : PeerHistory(x, H)' /\ LeaderOK(x, H)' /\ WaitingAppendsOK(x)'
  BY OthersKeepLogs DEF LogInv, IsHistory
<1>2. LeadersHistory(H)'  BY DEF LogInv, LeadersHistory
<1> QED  BY <1>1, <1>2 DEF LogInv

LEMMA NothingNewAppends ==
  ASSUME NEW H, AppendsOK(H), NoNewTravel, elected \subseteq elected'
  PROVE  AppendsOK(H)'
  BY DEF AppendsOK, NoNewTravel

\* The entry before those of a waiting request stays while the log only grows.
LEMMA WaitingKept ==
  ASSUME TypeOK, TypeOK', NEW k \in Server, WaitingAppendsOK(k), WritesFrom(k),
         Begins(log[k], log'[k])
  PROVE  WaitingAppendsOK(k)'
<1> SUFFICES ASSUME NEW n \in 1..Len(writes'[k]), writes'[k][n].then = "append"
             PROVE  PrevMatches(log'[k], writes'[k][n].req)
  BY DEF WaitingAppendsOK
<1> DEFINE q == writes'[k][n].req
<1>1. PrevMatches(log[k], q)
  BY DEF WaitingAppendsOK, WritesFrom, WaitsForRequest
<1>2. q \in AppendRequestMsg
  <2>1. writes'[k] \in Seq(Write)  BY DEF TypeOK
  <2>2. writes'[k][n] \in Write  BY <2>1
  <2> QED  BY <2>2 DEF Write
<1>3. q.prev \in Nat  BY <1>2, SliceType
<1>4. log[k] \in Seq(Entry) /\ log'[k] \in Seq(Entry)  BY DEF TypeOK
<1>5. q.prev <= Len(log[k]) /\ Len(log[k]) <= Len(log'[k])
  BY <1>1 DEF PrevMatches, Begins, Agree
<1>6. TermAt(log'[k], q.prev) = TermAt(log[k], q.prev)
  BY <1>3, <1>4, <1>5, TermAtBegins
<1>7. Len(log[k]) \in Nat /\ Len(log'[k]) \in Nat  BY <1>4
<1> HIDE DEF q
<1>8. q.prev <= Len(log'[k]) /\ TermAt(log'[k], q.prev) = q.prevTerm
  BY <1>1, <1>3, <1>5, <1>6, <1>7 DEF PrevMatches
<1> QED  BY <1>8 DEF PrevMatches, q

LEMMA BeginsItself ==
  ASSUME NEW s \in Seq(Entry)
  PROVE  Begins(s, s)
  BY DEF Begins, Agree

\* A step of k that leaves its log alone.
CalmStep(k) ==
  /\ LocalStep(k)
  /\ log'[k] = log[k] /\ pend'[k] = pend[k]
  /\ currentTerm'[k] >= currentTerm[k]
  /\ state'[k] = FSM_LEADER => \A j \in Server : nextIndex'[k][j] <= Len(log[k]) + 1

LEMMA CalmStepKeepsLogInv ==
  ASSUME TypeOK, TypeOK', RolesContinue, NEW H, LogInv(H),
         NEW k \in Server, CalmStep(k),
         \A x \in Server : x # k => CallsKept(x),
         state'[k] = FSM_LEADER => \A j \in Server : rpc'[k][j] # None =>
           SentLastIndex(rpc'[k][j].req) <= Len(log[k]),
         AppendsOK(H)'
  PROVE  LogInv(H)'
<1>1. VLog(k)' = VLog(k)  BY DEF CalmStep, VLog
<1>2. elected' = elected  BY DEF RolesContinue
<1>3. VLog(k) \in Seq(Entry) /\ log[k] \in Seq(Entry)  BY VLogType
<1>4. PeerHistory(k, H)'
  <2>1. PeerHistory(k, H)  BY DEF LogInv
  <2>2. currentTerm[k] <= currentTerm'[k] /\ currentTerm[k] \in Nat /\ currentTerm'[k] \in Nat
    BY DEF CalmStep, TypeOK
  <2>3. Ascends(VLog(k), currentTerm'[k])
    BY <1>3, <2>1, <2>2, AscendsLater DEF PeerHistory
  <2> QED  BY <1>1, <1>2, <2>1, <2>3 DEF PeerHistory, CalmStep
<1>5. LeaderOK(k, H)'
  <2> SUFFICES ASSUME state'[k] = FSM_LEADER  PROVE LeaderOK(k, H)'
    BY DEF LeaderOK
  <2>1. state[k] = FSM_LEADER /\ currentTerm'[k] = currentTerm[k]  BY DEF RolesContinue
  <2>2. Victory(k, currentTerm[k]) \in elected /\ H[currentTerm[k]] = VLog(k)
    BY <2>1 DEF LogInv, LeaderOK
  <2>3. \A j \in Server : nextIndex'[k][j] <= Len(log'[k]) + 1
    BY DEF CalmStep
  <2>4. \A j \in Server : rpc'[k][j] # None =>
          SentLastIndex(rpc'[k][j].req) <= Len(log'[k])
    BY DEF CalmStep
  <2> QED  BY <1>1, <1>2, <2>1, <2>2, <2>3, <2>4 DEF LeaderOK
<1>6. WaitingAppendsOK(k)'
  <2>1. Begins(log[k], log'[k])  BY <1>3, BeginsItself DEF CalmStep
  <2> QED  BY <2>1, WaitingKept DEF LogInv, CalmStep, LocalStep
<1> QED  BY <1>2, <1>4, <1>5, <1>6, StepKeepsLogInv DEF CalmStep, LocalStep

LEMMA CalmSilentStep ==
  ASSUME TypeOK, TypeOK', QueueInv, RolesContinue, NEW H, LogInv(H),
         NEW k \in Server, SilentStep(k), CalmStep(k)
  PROVE  LogInv(H)'
<1>1. NoNewTravel  BY SilentStepKeepsQueueInv
<1>2. AppendsOK(H)'
  BY <1>1, NothingNewAppends DEF LogInv, RolesContinue
<1>3. \A x \in Server : CallsKept(x)  BY DEF SilentStep, CallsFrom, CallsKept
<1>4. ASSUME state'[k] = FSM_LEADER, NEW j \in Server, rpc'[k][j] # None
      PROVE  SentLastIndex(rpc'[k][j].req) <= Len(log[k])
  BY <1>3, <1>4 DEF RolesContinue, CallsKept, LogInv, LeaderOK
<1> QED  BY <1>2, <1>3, <1>4, CalmStepKeepsLogInv

\* A step of k after which its log is only what it was, or less, and it neither
\* leads nor waits for a write.
LEMMA CutStepKeepsLogInv ==
  ASSUME TypeOK, TypeOK', QueueInv, NEW H, LogInv(H), elected' = elected,
         NEW k \in Server, SilentStep(k), state'[k] # FSM_LEADER,
         writes'[k] = <<>>, pend'[k] = <<>>,
         Begins(log'[k], VLog(k)), Ascends(log'[k], currentTerm'[k])
  PROVE  LogInv(H)'
<1>1. NoNewTravel  BY SilentStepKeepsQueueInv
<1>2. AppendsOK(H)'  BY <1>1, NothingNewAppends DEF LogInv
<1>3. \A x \in Server : CallsKept(x)  BY DEF SilentStep, CallsFrom, CallsKept
<1>4. /\ VLog(k) \in Seq(Entry) /\ VLog(k)' = log'[k] /\ log'[k] \in Seq(Entry)
      /\ Len(pend'[k]) = 0
  <2>1. log'[k] \o <<>> = log'[k] /\ log'[k] \in Seq(Entry)
    BY ConcatEmptySeq DEF TypeOK
  <2> QED  BY <2>1, VLogType DEF VLog
<1>5. PeerHistory(k, H)'
  <2>1. Sound(VLog(k), H) /\ IsHistory(H)  BY DEF LogInv, PeerHistory, IsHistory
  <2>2. Sound(log'[k], H)  BY <1>4, <2>1, SoundBegins
  <2> QED  BY <1>4, <2>2 DEF PeerHistory
<1>6. LeaderOK(k, H)'  BY DEF LeaderOK
<1>7. WaitingAppendsOK(k)'  BY DEF WaitingAppendsOK
<1> QED  BY <1>2, <1>3, <1>5, <1>6, <1>7, StepKeepsLogInv DEF SilentStep, LocalStep

-----------------------------------------------------------------------------
(* The steps that leave the logs alone. *)

LEMMA IsCalm ==
  ASSUME RolesContinue, NEW H, LogInv(H), NEW k \in Server, LocalStep(k),
         log'[k] = log[k], pend'[k] = pend[k], crashes' = crashes,
         nextIndex'[k] = nextIndex[k] \/ state'[k] # FSM_LEADER
  PROVE  CalmStep(k)
<1>1. currentTerm'[k] >= currentTerm[k]  BY DEF LocalStep
<1>2. ASSUME state'[k] = FSM_LEADER, NEW j \in Server
      PROVE  nextIndex'[k][j] <= Len(log[k]) + 1
  BY <1>2 DEF RolesContinue, LogInv, LeaderOK
<1> QED  BY <1>1, <1>2 DEF CalmStep

LEMMA LocalActionsAreCalm ==
  ASSUME TypeOK, TypeOK', QueueInv, RolesContinue, NEW H, LogInv(H), NEW i \in Server,
         ElectionTimeout(i) \/ NothingPersisted(i) \/ VotePersisted(i) \/ Apply(i)
  PROVE  LogInv(H)'
<1>1. SilentStep(i)
  BY ElectionTimeoutIsSilent, WriteIsSilent, ClientIsSilent
<1>2. /\ log' = log /\ pend' = pend /\ crashes' = crashes
      /\ nextIndex' = nextIndex
  <2>1. CASE ElectionTimeout(i)
    BY <2>1 DEF ElectionTimeout, faults, progress
  <2>2. CASE NothingPersisted(i) \/ VotePersisted(i) \/ Apply(i)
    BY <2>2 DEF NothingPersisted, VotePersisted, Apply, faults, progress
  <2> QED  BY <2>1, <2>2
<1> QED  BY <1>1, <1>2, IsCalm, CalmSilentStep DEF SilentStep

LEMMA SocketActionsAreCalm ==
  ASSUME TypeOK, TypeOK', QueueInv, RolesContinue, NEW H, LogInv(H),
         NEW i \in Server, NEW j \in Server,
         VoteRequest(i, j) \/ RefuseAppend(i, j) \/ ConnectionLost(i, j)
  PROVE  LogInv(H)'
<1>1. CASE VoteRequest(i, j)
  <2>1. SilentStep(j)  BY <1>1, VoteRequestIsSilent
  <2>2. PICK q \in Arriving(i, j, "vote") : DenyVote(i, j, q) \/ TakeTerm(i, j, q)
    BY <1>1 DEF VoteRequest
  <2>3. log' = log /\ pend' = pend /\ crashes' = crashes
    BY <1>1, <2>2 DEF VoteRequest, DenyVote, TakeTerm, faults
  <2>4. nextIndex' = nextIndex \/ state'[j] = FSM_FOLLOWER
    BY <2>2 DEF DenyVote, TakeTerm, UpdateState, progress, TypeOK
  <2>5. nextIndex'[j] = nextIndex[j] \/ state'[j] # FSM_LEADER
    BY <2>4 DEF FSM_FOLLOWER, FSM_LEADER
  <2> QED  BY <2>1, <2>3, <2>5, IsCalm, CalmSilentStep DEF SilentStep
<1>2. CASE RefuseAppend(i, j)
  <2>1. SilentStep(j)  BY <1>2, RefuseAppendIsSilent
  <2>2. log' = log /\ pend' = pend /\ crashes' = crashes /\ nextIndex' = nextIndex
    BY <1>2 DEF RefuseAppend, faults, progress
  <2> QED  BY <2>1, <2>2, IsCalm, CalmSilentStep DEF SilentStep
<1>3. CASE ConnectionLost(i, j)
  <2>1. SilentStep(i)  BY <1>3, ConnectionLostIsSilent
  <2>2. log' = log /\ pend' = pend /\ crashes' = crashes /\ nextIndex' = nextIndex
    BY <1>3 DEF ConnectionLost, progress
  <2> QED  BY <2>1, <2>2, IsCalm, CalmSilentStep DEF SilentStep
<1> QED  BY <1>1, <1>2, <1>3

LEMMA NoLeaderWithoutRole ==
  ASSUME TypeOK, TypeOK', QueueInv, RolesContinue, NEW i \in Server, NEW j \in Server,
         VoteResponse(i, j)
  PROVE  ~BecomeLeader(i)
<1> SUFFICES ASSUME BecomeLeader(i)  PROVE FALSE
  OBVIOUS
<1>1. state[i] = FSM_CANDIDATE  BY BecomeLeaderSends
<1>2. state'[i] = FSM_LEADER  BY DEF BecomeLeader, TypeOK
<1> QED  BY <1>1, <1>2 DEF RolesContinue, FSM_CANDIDATE, FSM_LEADER

LEMMA VoteResponseIsCalm ==
  ASSUME TypeOK, TypeOK', QueueInv, RolesContinue, NEW H, LogInv(H),
         NEW i \in Server, NEW j \in Server, VoteResponse(i, j)
  PROVE  LogInv(H)'
<1>1. ~BecomeLeader(i)  BY NoLeaderWithoutRole
<1>2. SilentStep(i)  BY <1>1, VoteResponseIsSilent
<1>3. log' = log /\ pend' = pend /\ crashes' = crashes
  BY <1>1 DEF VoteResponse, BecomeFollower, faults
<1>4. nextIndex' = nextIndex \/ state'[i] = FSM_FOLLOWER
  <2>1. nextIndex' = nextIndex \/ state' = [state EXCEPT ![i] = FSM_FOLLOWER]
    BY <1>1 DEF VoteResponse, BecomeFollower, UpdateState, progress
  <2> QED  BY <2>1 DEF TypeOK
<1>5. nextIndex'[i] = nextIndex[i] \/ state'[i] # FSM_LEADER
  BY <1>4 DEF FSM_FOLLOWER, FSM_LEADER
<1> QED  BY <1>2, <1>3, <1>5, IsCalm, CalmSilentStep DEF SilentStep

LEMMA AppendResponseIsCalm ==
  ASSUME TypeOK, TypeOK', QueueInv, RolesContinue, NEW H, LogInv(H),
         NEW i \in Server, NEW j \in Server, AppendResponse(i, j)
  PROVE  LogInv(H)'
<1>1. SilentStep(i)  BY AppendResponseIsSilent
<1> DEFINE a == rpc[i][j].reply
           q == rpc[i][j].req
           back == IF a.conflict # 0 /\ a.conflict < q.prev THEN a.conflict ELSE q.prev
           next == nextIndex'
<1>2. log' = log /\ pend' = pend /\ crashes' = crashes
  BY DEF AppendResponse, BecomeFollower, faults
<1>3. \/ state'[i] # FSM_LEADER
      \/ nextIndex' = nextIndex
      \/ nextIndex' = [nextIndex EXCEPT ![i][j] = SentLastIndex(q) + 1]
      \/ nextIndex' = [nextIndex EXCEPT ![i][j] = back]
  <2>1. ASSUME BecomeFollower(i, a.term, [rpc EXCEPT ![i][j] = None])
        PROVE  state'[i] # FSM_LEADER
    BY <2>1 DEF BecomeFollower, UpdateState, TypeOK, FSM_FOLLOWER, FSM_LEADER
  <2> QED  BY <2>1 DEF AppendResponse
<1>4. ASSUME state'[i] = FSM_LEADER
      PROVE  \A y \in Server : nextIndex'[i][y] <= Len(log[i]) + 1
  <2>1. state[i] = FSM_LEADER  BY <1>4 DEF RolesContinue
  <2>2. rpc[i][j] # None /\ q.type = "append" /\ a # None  BY DEF AppendResponse
  <2>3. q \in AppendRequestMsg /\ a.conflict \in Nat
    <3>1. q \in AppendRequestMsg /\ a \in Reply  BY <2>2, PendingType
    <3> HIDE DEF q, a
    <3> QED  BY <3>1 DEF Reply
  <2>4. SentLastIndex(q) <= Len(log[i])  BY <2>1, <2>2 DEF LogInv, LeaderOK
  <2>5. /\ q.prev \in Nat /\ Len(q.entries) \in Nat
        /\ SentLastIndex(q) = q.prev + Len(q.entries)
    BY <2>3, SliceType
  <2>6. Len(log[i]) \in Nat  BY DEF TypeOK
  <2> HIDE DEF q, a
  <2>7. SentLastIndex(q) + 1 <= Len(log[i]) + 1 /\ back <= Len(log[i]) + 1
    BY <2>3, <2>4, <2>5, <2>6
  <2>8. \A y \in Server : nextIndex[i][y] <= Len(log[i]) + 1
    BY <2>1 DEF LogInv, LeaderOK
  <2>9. nextIndex \in [Server -> [Server -> Nat]]  BY DEF TypeOK
  <2> HIDE DEF back
  <2> QED  BY <1>3, <1>4, <2>7, <2>8, <2>9
<1>5. CalmStep(i)
  <2>1. currentTerm'[i] >= currentTerm[i]  BY <1>1, <1>2 DEF SilentStep, LocalStep
  <2> QED  BY <1>1, <1>2, <1>4, <2>1 DEF SilentStep, CalmStep
<1> QED  BY <1>1, <1>5, CalmSilentStep

LEMMA ElectionPersistedIsCalm ==
  ASSUME TypeOK, TypeOK', QueueInv, RolesContinue, NEW H, LogInv(H),
         NEW i \in Server, ElectionPersisted(i)
  PROVE  LogInv(H)'
<1>1. SendingStep(i) /\ ~Fail(i) /\ state[i] = FSM_CANDIDATE
  BY ElectionPersistedSends
<1>2. UNCHANGED <<log, pend, crashes, nextIndex, state>>
  BY <1>1 DEF ElectionPersisted, faults, progress
<1>3. CalmStep(i)  BY <1>1, <1>2, IsCalm DEF SendingStep
<1>4. SentBy(i) /\ QueueInv'  BY <1>1, SendingStepKeepsQueueInv
<1>5. AppendsOK(H)'
  <2> SUFFICES ASSUME NEW x \in Server, NEW y \in Server, NEW q \in AppendRequestMsg,
                      Travels(q, x, y)'
               PROVE  Victory(x, q.term) \in elected' /\ SliceOf(q, H[q.term])
    BY DEF AppendsOK
  <2>1. CASE Travels(q, x, y)
    BY <2>1 DEF LogInv, AppendsOK, RolesContinue
  <2>2. CASE x = i /\ rpc'[x][y] # None /\ rpc'[x][y].req = q
    <3>1. q.type = "append"  BY DEF AppendRequestMsg
    <3>2. state'[i] = FSM_LEADER
      BY <1>4, <2>2, <3>1 DEF QueueInv, QueueOK, CallsMatchRole
    <3> QED  BY <1>1, <1>2, <3>2 DEF FSM_CANDIDATE, FSM_LEADER
  <2> QED  BY <1>4, <2>1, <2>2 DEF SentBy
<1>6. state'[i] # FSM_LEADER  BY <1>1, <1>2 DEF FSM_CANDIDATE, FSM_LEADER
<1> QED  BY <1>1, <1>3, <1>5, <1>6, CalmStepKeepsLogInv DEF SendingStep

-----------------------------------------------------------------------------
(* A follower stores the entries of a request. *)

\* The log of a follower that has the entry before those of q, cut there, with
\* those of q: the leader's as far as it goes.
LEMMA AppendedBegins ==
  ASSUME NEW H, IsHistory(H), NEW s \in Seq(Entry), NEW l \in Seq(Entry),
         NEW q \in AppendRequestMsg, NEW g \in Seq(Entry), Begins(g, s),
         PrevMatches(g, q), Sound(s, H), Sound(l, H), SliceOf(q, l)
  PROVE  LET n == SubSeq(s, 1, q.prev) \o q.entries
         IN n \in Seq(Entry) /\ Len(n) = SentLastIndex(q) /\ Begins(n, l)
<1> DEFINE cut == SubSeq(s, 1, q.prev)
           n == cut \o q.entries
<1>1. /\ q.prev \in Nat /\ q.entries \in Seq(Entry) /\ Len(q.entries) \in Nat
      /\ SentLastIndex(q) = q.prev + Len(q.entries)
  BY SliceType
<1>2. /\ q.prev <= Len(g) /\ Len(g) <= Len(s) /\ Len(g) \in Nat /\ Len(s) \in Nat
      /\ SentLastIndex(q) <= Len(l) /\ Len(l) \in Nat
  BY DEF PrevMatches, Begins, Agree, SliceOf
<1>3. /\ cut \in Seq(Entry) /\ Len(cut) = q.prev
      /\ \A m \in 1..q.prev : cut[m] = s[m]
  <2>1. q.prev \in 0..Len(s)  BY <1>1, <1>2
  <2> QED  BY <2>1, PrefixParts
<1> HIDE DEF cut
<1>4. /\ n \in Seq(Entry) /\ Len(n) = q.prev + Len(q.entries)
      /\ \A m \in 1..q.prev : n[m] = cut[m]
      /\ \A m \in 1..Len(q.entries) : n[q.prev + m] = q.entries[m]
  <2>1. /\ n \in Seq(Entry) /\ Len(n) = Len(cut) + Len(q.entries)
        /\ \A m \in 1..Len(cut) : n[m] = cut[m]
        /\ \A m \in 1..Len(q.entries) : n[Len(cut) + m] = q.entries[m]
    BY <1>1, <1>3, ConcatParts
  <2> HIDE DEF n
  <2> QED  BY <1>3, <2>1
<1> HIDE DEF n
<1>5. ASSUME NEW m \in 1..q.prev
      PROVE  s[m] = l[m]
  <2>1. q.prev \in 1..Len(g) /\ q.prev \in 1..Len(s) /\ q.prev \in 1..Len(l)
    BY <1>1, <1>2
  <2>2. g[q.prev] = s[q.prev]  BY <2>1 DEF Begins, Agree
  <2>3. s[q.prev].term = l[q.prev].term
    BY <1>1, <2>1, <2>2 DEF PrevMatches, SliceOf, TermAt
  <2>4. Agree(s, H[s[q.prev].term], q.prev) /\ Agree(l, H[l[q.prev].term], q.prev)
    BY <2>1 DEF Sound
  <2> QED  BY <2>3, <2>4 DEF Agree
<1>6. ASSUME NEW m \in 1..Len(n)
      PROVE  n[m] = l[m]
  <2>1. CASE m \in 1..q.prev  BY <1>3, <1>4, <1>5, <2>1
  <2>2. CASE m \notin 1..q.prev
    <3>1. m - q.prev \in 1..Len(q.entries) /\ q.prev + (m - q.prev) = m
      BY <1>1, <1>4, <2>2
    <3> QED  BY <1>4, <3>1 DEF SliceOf
  <2> QED  BY <2>1, <2>2
<1>7. Begins(n, l)  BY <1>1, <1>2, <1>4, <1>6 DEF Begins, Agree
<1> QED  BY <1>1, <1>4, <1>7 DEF n, cut

LEMMA AcceptStepKeepsLogInv ==
  ASSUME TypeOK, TypeOK', QueueInv, NEW H, LogInv(H), elected' = elected,
         NEW i \in Server, NEW k \in Server, SilentStep(k), state'[k] = FSM_FOLLOWER,
         NEW q \in AppendRequestMsg, Travels(q, i, k), PrevMatches(log[k], q),
         log'[k] = SubSeq(VLog(k), 1, q.prev) \o q.entries, pend'[k] = <<>>,
         q.term = currentTerm'[k],
         \A n \in 1..Len(writes'[k]) : writes'[k][n].then # "append"
  PROVE  LogInv(H)' /\ Begins(log'[k], H[q.term])
<1>1. NoNewTravel  BY SilentStepKeepsQueueInv
<1>2. AppendsOK(H)'  BY <1>1, NothingNewAppends DEF LogInv
<1>3. \A x \in Server : CallsKept(x)  BY DEF SilentStep, CallsFrom, CallsKept
<1>4. VLog(k)' = log'[k] /\ Len(pend'[k]) = 0
  <2>1. log'[k] \o <<>> = log'[k]  BY ConcatEmptySeq DEF TypeOK
  <2> QED  BY <2>1 DEF VLog
<1>5. /\ IsHistory(H) /\ q.term \in Nat /\ H[q.term] \in Seq(Entry)
      /\ log[k] \in Seq(Entry) /\ VLog(k) \in Seq(Entry) /\ Begins(log[k], VLog(k))
      /\ log'[k] \in Seq(Entry)
  <2>1. IsHistory(H) /\ q.term \in Nat  BY SliceType DEF LogInv, IsHistory
  <2> QED  BY <2>1, VLogType, VLogTypeNext DEF IsHistory
<1>6. /\ Sound(VLog(k), H) /\ Sound(H[q.term], H) /\ SliceOf(q, H[q.term])
      /\ Ascends(H[q.term], q.term)
  BY <1>5 DEF LogInv, PeerHistory, LeadersHistory, AppendsOK
<1>7. Begins(log'[k], H[q.term])
  BY <1>5, <1>6, AppendedBegins
<1>8. PeerHistory(k, H)'
  <2>1. Sound(log'[k], H)  BY <1>5, <1>6, <1>7, SoundBegins
  <2>2. Ascends(log'[k], q.term)  BY <1>5, <1>6, <1>7, AscendsBegins
  <2> QED  BY <1>4, <2>1, <2>2 DEF PeerHistory
<1>9. LeaderOK(k, H)'  BY DEF LeaderOK, FSM_FOLLOWER, FSM_LEADER
<1>10. WaitingAppendsOK(k)'  BY DEF WaitingAppendsOK
<1>11. LogInv(H)'
  BY <1>2, <1>3, <1>8, <1>9, <1>10, StepKeepsLogInv DEF SilentStep, LocalStep
<1> QED  BY <1>7, <1>11

\* appendEntryHandler() at its end.
LEMMA FinishAppendKeepsLogInv ==
  ASSUME TypeOK, TypeOK', QueueInv, RolesContinue, NEW H, LogInv(H),
         NEW i \in Server, NEW k \in Server, SilentStep(k), state'[k] = FSM_FOLLOWER,
         NEW q \in AppendRequestMsg, Travels(q, i, k), NEW ok \in BOOLEAN, NEW t,
         ok => PrevMatches(log[k], q), NEW r,
         FinishAppend(k, i, q, t, ok, r),
         q.term = currentTerm'[k], crashes' = crashes,
         \A n \in 1..Len(writes'[k]) : writes'[k][n].then # "append"
  PROVE  LogInv(H)'
<1>0. FSM_FOLLOWER # FSM_LEADER  BY DEF FSM_FOLLOWER, FSM_LEADER
<1>1. CASE ok
  <2>1. log'[k] = SubSeq(VLog(k), 1, q.prev) \o q.entries /\ pend'[k] = <<>>
    BY <1>1 DEF FinishAppend, VLog, TypeOK
  <2> QED  BY <1>1, <2>1, AcceptStepKeepsLogInv DEF RolesContinue
<1>2. CASE ~ok
  <2>1. log'[k] = log[k] /\ pend'[k] = pend[k]
    BY <1>2 DEF FinishAppend, TypeOK
  <2> QED  BY <1>0, <2>1, IsCalm, CalmSilentStep DEF SilentStep
<1> QED  BY <1>1, <1>2

LEMMA AppendRequestKeepsLogInv ==
  ASSUME TypeOK, TypeOK', QueueInv, RolesContinue, NEW H, LogInv(H),
         NEW i \in Server, NEW j \in Server, AppendRequest(i, j)
  PROVE  LogInv(H)'
<1>1. SilentStep(j)  BY AppendRequestIsSilent
<1>2. PICK q \in ArrivingAppends(i, j) :
        TermIsRead(j, i, q, q.term, CapturedVote(j, q), MarkSeen(i, j, q), TRUE)
  BY DEF AppendRequest
<1> DEFINE v == CapturedVote(j, q)
           r == CancelPendingRpcs(MarkSeen(i, j, q), j)
<1>3. q \in Arriving(i, j, "append")  BY DEF ArrivingAppends
<1>4. q \in AppendRequestMsg /\ Travels(q, i, j)
  BY <1>3, ArrivingType, ArrivingTravels
<1>5. q.term \in Nat  BY <1>4, SliceType
<1>6. state'[j] = FSM_FOLLOWER /\ currentTerm'[j] = q.term /\ crashes' = crashes
  <2>1. /\ state' = [state EXCEPT ![j] = FSM_FOLLOWER]
        /\ currentTerm' = [currentTerm EXCEPT ![j] = q.term]
    BY <1>2 DEF TermIsRead, UpdateState
  <2>2. crashes' = crashes  BY DEF AppendRequest, faults
  <2> QED  BY <2>1, <2>2 DEF TypeOK
<1>7. CASE /\ Unchanged(j, q.term, v)
           /\ FinishAppend(j, i, q, q.term, PrevMatches(log[j], q), r)
  <2>1. writes'[j] = writes[j]
    BY <1>2, <1>7 DEF TermIsRead, UpdateState
  <2>2. NonePausing(j)
    BY NoHandlerPauses DEF AppendRequest, QueueInv
  <2>3. \A n \in 1..Len(writes'[j]) : writes'[j][n].then # "append"
    BY <2>1, <2>2 DEF NonePausing, PausingHandler
  <2>4. PrevMatches(log[j], q) \in BOOLEAN  BY DEF PrevMatches
  <2> HIDE DEF v, r
  <2> QED  BY <1>1, <1>4, <1>6, <1>7, <2>3, <2>4, FinishAppendKeepsLogInv
<1>8. CASE UNCHANGED <<log, pend>>
  <2>1. state'[j] # FSM_LEADER  BY <1>6 DEF FSM_FOLLOWER, FSM_LEADER
  <2> QED  BY <1>1, <1>6, <1>8, <2>1, IsCalm, CalmSilentStep DEF SilentStep
<1> QED  BY <1>2, <1>7, <1>8 DEF TermIsRead

LEMMA FailKeepsLogInv ==
  ASSUME TypeOK, TypeOK', QueueInv, RolesContinue, NEW H, LogInv(H),
         NEW i \in Server, Fail(i), SilentStep(i)
  PROVE  LogInv(H)'
<1>1. /\ state'[i] # FSM_LEADER /\ writes'[i] = <<>> /\ pend'[i] = <<>>
      /\ log'[i] = log[i] /\ currentTerm'[i] = currentTerm[i]
  BY DEF Fail, TypeOK, DOWN, FSM_LEADER
<1>2. /\ VLog(i) \in Seq(Entry) /\ log[i] \in Seq(Entry) /\ Begins(log[i], VLog(i))
  BY VLogType
<1>3. Ascends(log[i], currentTerm[i])
  BY <1>2, AscendsBegins DEF LogInv, PeerHistory
<1> QED  BY <1>1, <1>2, <1>3, CutStepKeepsLogInv DEF RolesContinue

LEMMA AppendPersistedKeepsLogInv ==
  ASSUME TypeOK, TypeOK', QueueInv, RolesContinue, NEW H, LogInv(H),
         NEW j \in Server, AppendPersisted(j)
  PROVE  LogInv(H)'
<1> DEFINE w == Head(writes[j])
<1>1. SilentStep(j)  BY AppendPersistedIsSilent
<1>2. /\ w = writes[j][1] /\ 1 \in 1..Len(writes[j]) /\ w \in Write
      /\ w.then \in {"append", "refuse"}
      /\ w.term = currentTerm[j] /\ Tail(writes[j]) = <<>>
  <2>1. writes[j] # <<>> /\ w.then \in {"append", "refuse"} /\ QueueOK(j)
    BY DEF AppendPersisted, QueueInv
  <2>2. w.then \in PausingHandler  BY <2>1 DEF PausingHandler
  <2> QED  BY <2>1, <2>2, HeadIsFirst
<1>3. /\ w.from \in Server /\ w.req \in AppendRequestMsg /\ w.req.term = w.term
      /\ state[j] = FSM_FOLLOWER
  <2>1. w.req.term = w.term /\ state[j] = FSM_FOLLOWER
    BY <1>2 DEF QueueInv, QueueOK, WritesAnswer, PausedAlone, PausingHandler
  <2> HIDE DEF w
  <2> QED  BY <1>2, <2>1 DEF Write
<1>4. Travels(w.req, w.from, j)
  BY <1>2 DEF Travels
<1>5. w.then = "append" => PrevMatches(log[j], w.req)
  BY <1>2 DEF LogInv, WaitingAppendsOK
<1>6. CASE Fail(j)  BY <1>1, <1>6, FailKeepsLogInv
<1>7. CASE /\ FinishAppend(j, w.from, w.req, w.term, w.then = "append", rpc)
           /\ WriteLeavesQueue(j)
           /\ UNCHANGED <<state, currentTerm, faults>>
  <2>1. writes'[j] = <<>>
    <3>1. writes' = [writes EXCEPT ![j] = Tail(writes[j])]
      BY <1>7 DEF WriteLeavesQueue
    <3>2. writes'[j] = Tail(writes[j])
      BY <3>1 DEF TypeOK
    <3> QED  BY <1>2, <3>2
  <2>2. \A n \in 1..Len(writes'[j]) : writes'[j][n].then # "append"  BY <2>1
  <2>3. state'[j] = FSM_FOLLOWER /\ w.req.term = currentTerm'[j] /\ crashes' = crashes
    BY <1>2, <1>3, <1>7 DEF faults
  <2>4. (w.then = "append") \in BOOLEAN  OBVIOUS
  <2> HIDE DEF w
  <2> QED  BY <1>1, <1>3, <1>4, <1>5, <1>7, <2>2, <2>3, <2>4, FinishAppendKeepsLogInv
<1> QED  BY <1>6, <1>7 DEF AppendPersisted

-----------------------------------------------------------------------------
(* A crash, a flush, and the steps of a leader. *)

LEMMA LastTermBounds ==
  ASSUME NEW s \in Seq(Entry), NEW u, Ascends(s, u)
  PROVE  Ascends(s, LastTermOf(s))
<1>1. CASE s = <<>>  BY <1>1 DEF Ascends
<1>2. CASE s # <<>>
  <2>1. Len(s) \in 1..Len(s)  BY <1>2, EmptySeq
  <2>2. \A n \in 1..Len(s) : n \in 1..Len(s) /\ n \in 1..Len(s)  OBVIOUS
  <2> QED  BY <1>2, <2>1 DEF Ascends, LastTermOf
<1> QED  BY <1>1, <1>2

LEMMA CrashCuts ==
  ASSUME TypeOK, NEW i \in Server, Crash(i)
  PROVE  /\ log'[i] \in Seq(Entry)
         /\ Begins(log[i], log'[i]) /\ Begins(log'[i], VLog(i))
<1>1. PICK k \in 0..Len(pend[i]) : log' = [log EXCEPT ![i] = @ \o SubSeq(pend[i], 1, k)]
  BY DEF Crash
<1> DEFINE s == SubSeq(pend[i], 1, k)
<1>2. /\ VLog(i) \in Seq(Entry) /\ log[i] \in Seq(Entry) /\ pend[i] \in Seq(Entry)
      /\ Len(VLog(i)) = Len(log[i]) + Len(pend[i])
      /\ \A n \in 1..Len(log[i]) : VLog(i)[n] = log[i][n]
      /\ \A n \in 1..Len(pend[i]) : VLog(i)[Len(log[i]) + n] = pend[i][n]
  BY VLogType
<1>3. s \in Seq(Entry) /\ Len(s) = k /\ \A n \in 1..k : s[n] = pend[i][n]
  BY <1>2, PrefixParts
<1>4. log'[i] = log[i] \o s  BY <1>1 DEF TypeOK
<1> HIDE DEF s
<1>5. /\ log'[i] \in Seq(Entry) /\ Len(log'[i]) = Len(log[i]) + k
      /\ \A n \in 1..Len(log[i]) : log'[i][n] = log[i][n]
      /\ \A n \in 1..k : log'[i][Len(log[i]) + n] = s[n]
  <2> DEFINE l == log[i] \o s
  <2>1. /\ l \in Seq(Entry) /\ Len(l) = Len(log[i]) + Len(s)
        /\ \A n \in 1..Len(log[i]) : l[n] = log[i][n]
        /\ \A n \in 1..Len(s) : l[Len(log[i]) + n] = s[n]
    BY <1>2, <1>3, ConcatParts
  <2> HIDE DEF l
  <2>2. log'[i] = l  BY <1>4 DEF l
  <2> QED  BY <1>3, <2>1, <2>2
<1>6. Begins(log'[i], VLog(i))
  <2>1. Len(log[i]) \in Nat /\ Len(pend[i]) \in Nat /\ k \in Nat /\ k <= Len(pend[i])
    BY <1>2
  <2>2. ASSUME NEW n \in 1..Len(log'[i])
        PROVE  log'[i][n] = VLog(i)[n]
    <3>1. CASE n \in 1..Len(log[i])  BY <1>2, <1>5, <3>1
    <3>2. CASE n \notin 1..Len(log[i])
      <4>1. PICK m \in 1..k : n = Len(log[i]) + m /\ m \in 1..Len(pend[i])
        <5>1. /\ n - Len(log[i]) \in 1..k /\ n - Len(log[i]) \in 1..Len(pend[i])
              /\ n = Len(log[i]) + (n - Len(log[i]))
          BY <1>5, <2>1, <3>2
        <5> QED  BY <5>1
      <4>2. s[m] = pend[i][m]  BY <1>3
      <4>3. log'[i][Len(log[i]) + m] = s[m]  BY <1>5
      <4>4. VLog(i)[Len(log[i]) + m] = pend[i][m]  BY <1>2, <4>1
      <4> QED  BY <4>1, <4>2, <4>3, <4>4
    <3> QED  BY <3>1, <3>2
  <2>3. Len(log'[i]) <= Len(VLog(i))  BY <1>2, <1>5, <2>1
  <2>4. Len(log'[i]) <= Len(log'[i])  BY <1>2, <1>5, <2>1
  <2> QED  BY <2>2, <2>3, <2>4 DEF Begins, Agree
<1>7. Begins(log[i], log'[i])
  <2>1. Len(log[i]) \in Nat /\ k \in Nat  BY <1>2
  <2> QED  BY <1>5, <2>1 DEF Begins, Agree
<1> QED  BY <1>5, <1>6, <1>7

LEMMA CrashKeepsLogInv ==
  ASSUME TypeOK, TypeOK', QueueInv, NEW H, LogInv(H), NEW i \in Server, Crash(i)
  PROVE  LogInv(H)'
<1>1. SilentStep(i)  BY CrashIsSilent
<1>2. /\ state'[i] # FSM_LEADER /\ writes'[i] = <<>> /\ pend'[i] = <<>>
      /\ elected' = elected
  BY DEF Crash, TypeOK, FSM_FOLLOWER, FSM_LEADER, history
<1>3. /\ log'[i] \in Seq(Entry) /\ Begins(log'[i], VLog(i))
      /\ VLog(i) \in Seq(Entry)
  BY CrashCuts, VLogType
<1>4. Ascends(log'[i], currentTerm'[i])
  <2>1. Ascends(VLog(i), currentTerm[i])  BY DEF LogInv, PeerHistory
  <2>2. Ascends(log'[i], currentTerm[i])
    BY <1>3, <2>1, AscendsBegins
  <2>3. Ascends(log'[i], LastTermOf(log'[i]))  BY <1>3, <2>2, LastTermBounds
  <2>4. LastTermOf(log'[i]) \in Nat  BY <1>3, TermType
  <2>5. currentTerm'[i] \in Nat  BY DEF TypeOK
  <2>6. LastTermOf(log'[i]) <= currentTerm'[i]
    <3>1. PICK w \in {[term |-> diskTerm[i], vote |-> diskVote[i]]} \cup
                       (IF writes[i] = <<>> THEN {}
                        ELSE {[term |-> Head(writes[i]).term, vote |-> Head(writes[i]).vote]}) :
            currentTerm' = [currentTerm EXCEPT ![i] = Larger(w.term, LastTermOf(log'[i]))]
      BY DEF Crash
    <3>2. currentTerm'[i] = Larger(w.term, LastTermOf(log'[i]))
      BY <3>1 DEF TypeOK
    <3>3. w.term \in Nat
      <4>1. CASE w = [term |-> diskTerm[i], vote |-> diskVote[i]]
        <5>1. w.term = diskTerm[i]  BY <4>1
        <5> QED  BY <5>1 DEF TypeOK
      <4>2. CASE writes[i] # <<>> /\
                 w = [term |-> Head(writes[i]).term, vote |-> Head(writes[i]).vote]
        <5>1. w.term = Head(writes[i]).term  BY <4>2
        <5>2. Head(writes[i]) \in Write  BY <4>2, HeadIsFirst DEF QueueInv
        <5> QED  BY <5>1, <5>2 DEF Write
      <4> QED  BY <3>1, <4>1, <4>2
    <3> QED  BY <2>4, <3>2, <3>3 DEF Larger
  <2> QED  BY <1>3, <2>3, <2>4, <2>5, <2>6, AscendsLater
<1> QED  BY <1>1, <1>2, <1>3, <1>4, CutStepKeepsLogInv

LEMMA FlushKeepsLogInv ==
  ASSUME TypeOK, TypeOK', QueueInv, NEW H, LogInv(H), NEW i \in Server, Flush(i)
  PROVE  LogInv(H)'
<1>1. SilentStep(i)  BY ClientIsSilent
<1>2. /\ log'[i] = VLog(i) /\ pend'[i] = <<>>
      /\ UNCHANGED <<elected, state, currentTerm, nextIndex, rpc, writes>>
  BY DEF Flush, history, progress, network, TypeOK, VLog
<1>3. /\ VLog(i) \in Seq(Entry) /\ log[i] \in Seq(Entry) /\ log'[i] \in Seq(Entry)
      /\ Begins(log[i], VLog(i))
  BY <1>2, VLogType
<1>4. VLog(i)' = VLog(i) /\ Len(pend'[i]) = 0
  <2>1. log'[i] \o <<>> = log'[i]  BY <1>3, ConcatEmptySeq
  <2> QED  BY <1>2, <2>1 DEF VLog
<1>5. NoNewTravel  BY <1>1, SilentStepKeepsQueueInv
<1>6. AppendsOK(H)'  BY <1>2, <1>5, NothingNewAppends DEF LogInv
<1>7. \A x \in Server : CallsKept(x)  BY <1>2 DEF CallsKept
<1>8. PeerHistory(i, H)'
  BY <1>2, <1>4 DEF LogInv, PeerHistory
<1>9. WaitingAppendsOK(i)'
  BY <1>1, <1>2, <1>3, WaitingKept DEF LogInv, SilentStep, LocalStep
<1>10. LeaderOK(i, H)'
  <2> SUFFICES ASSUME state[i] = FSM_LEADER  PROVE LeaderOK(i, H)'
    BY <1>2 DEF LeaderOK
  <2>1. Len(log[i]) <= Len(log'[i]) /\ Len(log[i]) \in Nat /\ Len(log'[i]) \in Nat
    BY <1>2, <1>3 DEF Begins, Agree
  <2>2. LeaderOK(i, H)  BY DEF LogInv
  <2>3. ASSUME NEW j \in Server
        PROVE  nextIndex[i][j] <= Len(log'[i]) + 1
    <3>1. nextIndex[i] \in [Server -> Nat]  BY DEF TypeOK
    <3>2. nextIndex[i][j] \in Nat /\ nextIndex[i][j] <= Len(log[i]) + 1
      BY <2>2, <3>1 DEF LeaderOK
    <3> QED  BY <2>1, <3>2
  <2>4. ASSUME NEW j \in Server, rpc[i][j] # None
        PROVE  SentLastIndex(rpc[i][j].req) <= Len(log'[i])
    <3>1. rpc[i][j].req.type = "append" /\ rpc[i][j].req \in Request
      BY <2>4, PendingType
         DEF QueueInv, QueueOK, CallsMatchRole, FSM_CANDIDATE, FSM_LEADER, Request,
             VoteRequestMsg, AppendRequestMsg
    <3>2. rpc[i][j].req \in AppendRequestMsg  BY <2>4, <3>1, PendingType
    <3>3. SentLastIndex(rpc[i][j].req) \in Nat  BY <3>2, SliceType
    <3>4. SentLastIndex(rpc[i][j].req) <= Len(log[i])  BY <2>2, <2>4 DEF LeaderOK
    <3> QED  BY <2>1, <3>3, <3>4
  <2> QED  BY <1>2, <1>4, <2>2, <2>3, <2>4 DEF LeaderOK
<1> QED  BY <1>1, <1>2, <1>6, <1>7, <1>8, <1>9, <1>10, StepKeepsLogInv
         DEF SilentStep, LocalStep

LEMMA SendAppendKeepsLogInv ==
  ASSUME TypeOK, TypeOK', QueueInv, RolesContinue, NEW H, LogInv(H),
         NEW i \in Server, NEW j \in Server, SendAppend(i, j)
  PROVE  LogInv(H)'
<1> DEFINE prev == nextIndex[i][j] - 1
           available == Len(log[i]) - prev
<1>1. PICK n \in (IF available > 0 THEN 1..available ELSE {0}) :
        rpc' = [rpc EXCEPT ![i][j] =
          [req |-> [type |-> "append", term |-> currentTerm[i], prev |-> prev,
                    prevTerm |-> TermAt(log[i], prev), commit |-> commitIndex[i],
                    entries |-> SubSeq(log[i], prev + 1, prev + n)],
           seen |-> FALSE, reply |-> None]]
  BY DEF SendAppend
<1> DEFINE ents == SubSeq(log[i], prev + 1, prev + n)
           req == [type |-> "append", term |-> currentTerm[i], prev |-> prev,
                   prevTerm |-> TermAt(log[i], prev), commit |-> commitIndex[i],
                   entries |-> ents]
           c == [req |-> req, seen |-> FALSE, reply |-> None]
<1>2. SendingStep(i) /\ SentBy(i)  BY SendAppendSends, SendingStepKeepsQueueInv
<1>3. UNCHANGED <<log, pend, crashes, nextIndex, state, currentTerm, elected>>
  BY DEF SendAppend, faults, progress, history
<1>4. CalmStep(i)  BY <1>2, <1>3, IsCalm DEF SendingStep
<1>5. /\ state[i] = FSM_LEADER /\ nextIndex[i][j] >= 1
      /\ H[currentTerm[i]] = VLog(i) /\ Victory(i, currentTerm[i]) \in elected
      /\ nextIndex[i][j] <= Len(log[i]) + 1
  BY DEF SendAppend, LogInv, LeaderOK
<1>6. /\ VLog(i) \in Seq(Entry) /\ log[i] \in Seq(Entry) /\ Begins(log[i], VLog(i))
      /\ Len(log[i]) \in Nat
  <2>1. /\ VLog(i) \in Seq(Entry) /\ log[i] \in Seq(Entry)
        /\ Begins(log[i], VLog(i))
    BY VLogType
  <2> QED  BY <2>1
<1>7. prev \in Nat /\ prev <= Len(log[i]) /\ n \in Nat /\ prev + n <= Len(log[i])
  <2>1. nextIndex[i] \in [Server -> Nat]  BY DEF TypeOK
  <2>2. nextIndex[i][j] \in Nat  BY <2>1
  <2> QED  BY <1>5, <1>6, <2>2
<1> HIDE DEF prev
<1>8. /\ ents \in Seq(Entry) /\ Len(ents) = n
      /\ \A m \in 1..n : ents[m] = log[i][prev + m]
  BY <1>6, <1>7, PieceParts
<1>9. /\ req.prev = prev /\ req.prevTerm = TermAt(log[i], prev) /\ req.entries = ents
      /\ req.term = currentTerm[i]
      /\ c.req = req
  OBVIOUS
<1>10. ASSUME NEW x \in Server, NEW y \in Server
       PROVE  rpc'[x][y] = IF x = i /\ y = j THEN c ELSE rpc[x][y]
  <2>1. rpc[x] \in [Server -> Call \cup {None}] /\ rpc[i] \in [Server -> Call \cup {None}]
        /\ rpc \in [Server -> [Server -> Call \cup {None}]]
    BY DEF TypeOK
  <2>2. rpc' = [rpc EXCEPT ![i][j] = c]  BY <1>1
  <2> HIDE DEF c
  <2> QED  BY <2>1, <2>2
<1> HIDE DEF ents, c, req
<1>11. SentLastIndex(req) = prev + n  BY <1>8, <1>9 DEF SentLastIndex
<1>12. SliceOf(req, VLog(i))
  <2>1. prev + n <= Len(VLog(i))  BY <1>6, <1>7 DEF Begins, Agree
  <2>2. TermAt(log[i], prev) = TermAt(VLog(i), prev)  BY <1>6, <1>7, TermAtBegins
  <2>3. ASSUME NEW m \in 1..n
        PROVE  ents[m] = VLog(i)[prev + m]
    <3>1. prev + m \in 1..Len(log[i])  BY <1>6, <1>7
    <3> QED  BY <1>6, <1>8, <3>1 DEF Begins, Agree
  <2> QED  BY <1>8, <1>9, <1>11, <2>1, <2>2, <2>3 DEF SliceOf
<1>13. AppendsOK(H)'
  <2> SUFFICES ASSUME NEW x \in Server, NEW y \in Server, NEW q \in AppendRequestMsg,
                      Travels(q, x, y)'
               PROVE  Victory(x, q.term) \in elected /\ SliceOf(q, H[q.term])
    BY <1>3 DEF AppendsOK
  <2>1. CASE Travels(q, x, y)
    BY <2>1 DEF LogInv, AppendsOK
  <2>2. CASE x = i /\ y = j /\ q = req
    BY <1>5, <1>9, <1>12, <2>2
  <2>3. CASE x = i /\ rpc'[x][y] # None /\ rpc'[x][y].req = q
    BY <1>9, <1>10, <2>1, <2>2, <2>3 DEF Travels
  <2> QED  BY <1>2, <2>1, <2>3 DEF SentBy
<1>14. ASSUME NEW y \in Server, rpc'[i][y] # None
       PROVE  SentLastIndex(rpc'[i][y].req) <= Len(log[i])
  <2>1. CASE y = j  BY <1>7, <1>9, <1>10, <1>11, <2>1
  <2>2. CASE y # j  BY <1>5, <1>10, <1>14, <2>2 DEF LogInv, LeaderOK
  <2> QED  BY <2>1, <2>2
<1> QED  BY <1>2, <1>4, <1>13, <1>14, CalmStepKeepsLogInv DEF SendingStep

\* A history that fits the next state: it has what H has, and more only of the
\* terms of leaders.
HistoryGrows(H, H2) ==
  \A u \in Nat :
    /\ Begins(H[u], H2[u])
    /\ \/ H2[u] = H[u]
       \/ \E i \in Server : state'[i] = FSM_LEADER /\ currentTerm'[i] = u

LEMMA HistoryStays ==
  ASSUME NEW H, IsHistory(H)
  PROVE  HistoryGrows(H, H)
<1>1. \A u \in Nat : H[u] \in Seq(Entry)  BY DEF IsHistory
<1> QED  BY <1>1, BeginsItself DEF HistoryGrows

LEMMA HistoryExtends ==
  ASSUME NEW H, IsHistory(H), NEW t \in Nat, NEW l \in Seq(Entry), Begins(H[t], l),
         NEW i \in Server, state'[i] = FSM_LEADER, currentTerm'[i] = t
  PROVE  HistoryGrows(H, [H EXCEPT ![t] = l])
<1> SUFFICES ASSUME NEW u \in Nat
             PROVE  /\ Begins(H[u], [H EXCEPT ![t] = l][u])
                    /\ \/ [H EXCEPT ![t] = l][u] = H[u]
                       \/ u = t
  BY DEF HistoryGrows
<1>1. H[u] \in Seq(Entry)  BY DEF IsHistory
<1>2. [H EXCEPT ![t] = l][u] = IF u = t THEN l ELSE H[u]  BY DEF IsHistory
<1> QED  BY <1>1, <1>2, BeginsItself

\* The leader of term t appends to its log, or is new and has nothing in H yet:
\* the history of the term becomes its log.
LEMMA LeaderGrowsHistory ==
  ASSUME TypeOK, TypeOK', NEW H, LogInv(H), ElectionSafety',
         elected \subseteq elected', NEW i \in Server, OthersRest(i),
         NEW t \in Nat, t = currentTerm[i], currentTerm'[i] = t,
         Victory(i, t) \in elected', NEW l \in Seq(Entry), VLog(i)' = l,
         Begins(H[t], l), Begins(VLog(i), l),
         \A n \in 1..Len(l) : n \in 1..Len(VLog(i)) \/ l[n].term = t,
         \A n \in 1..Len(pend'[i]) : (n \in 1..Len(pend[i]) /\ pend'[i][n] = pend[i][n])
                                     \/ pend'[i][n].term = t,
         \A x \in Server : x # i => CallsKept(x),
         WaitingAppendsOK(i)',
         \A j \in Server : nextIndex'[i][j] <= Len(log'[i]) + 1,
         \A j \in Server : rpc'[i][j] # None =>
           SentLastIndex(rpc'[i][j].req) <= Len(log'[i]),
         \A x, y \in Server : \A q \in AppendRequestMsg : Travels(q, x, y)' =>
           Travels(q, x, y) \/ (x = i /\ q.term = t /\ SliceOf(q, l))
  PROVE  LogInv([H EXCEPT ![t] = l])'
<1> DEFINE H2 == [H EXCEPT ![t] = l]
<1>1. IsHistory(H) /\ IsHistory(H2)  BY DEF LogInv, IsHistory
<1>2. /\ \A u \in Nat : H2[u] = IF u = t THEN l ELSE H[u]
      /\ \A u \in Nat : H[u] \in Seq(Entry)
  BY <1>1 DEF IsHistory
<1>3. VLog(i) \in Seq(Entry)  BY VLogType
<1>4. \A s \in Seq(Entry) : Sound(s, H) => Sound(s, H2)
  BY <1>1, SoundGrows
<1> HIDE DEF H2
<1>5. Sound(l, H2) /\ Ascends(l, t)
  <2>1. Sound(VLog(i), H2)  BY <1>3, <1>4 DEF LogInv, PeerHistory
  <2>2. Ascends(VLog(i), t)  BY DEF LogInv, PeerHistory
  <2>3. ASSUME NEW n \in 1..Len(l)
        PROVE  Agree(l, H2[l[n].term], n)
    <3>1. CASE n \in 1..Len(VLog(i))
      <4>1. VLog(i)[n] = l[n]  BY <3>1 DEF Begins, Agree
      <4>2. Agree(VLog(i), H2[l[n].term], n)  BY <2>1, <3>1, <4>1 DEF Sound
      <4> QED  BY <3>1, <4>2 DEF Begins, Agree
    <3>2. CASE l[n].term = t
      <4>1. H2[l[n].term] = l  BY <1>2, <3>2
      <4> QED  BY <4>1 DEF Agree
    <3> QED  BY <3>1, <3>2
  <2>4. ASSUME NEW n \in 1..Len(l)
        PROVE  l[n].term <= t /\ \A m \in 1..n : l[m].term <= l[n].term
    <3>1. \A m \in 1..Len(VLog(i)) : VLog(i)[m] = l[m] /\ l[m].term <= t
      BY <2>2 DEF Begins, Agree, Ascends
    <3>2. \A m \in 1..Len(l) : l[m].term <= t
      <4>1. t <= t  OBVIOUS
      <4> QED  BY <3>1, <4>1
    <3>3. CASE n \in 1..Len(VLog(i))
      <4>1. \A m \in 1..n : m \in 1..Len(VLog(i))  BY <1>3, <3>3
      <4> QED  BY <2>2, <3>1, <3>3, <4>1 DEF Ascends
    <3>4. CASE l[n].term = t
      <4>1. \A m \in 1..n : m \in 1..Len(l)  OBVIOUS
      <4> QED  BY <3>2, <3>4, <4>1
    <3> QED  BY <3>2, <3>3, <3>4
  <2> QED  BY <2>3, <2>4 DEF Sound, Ascends
<1>6. LeadersHistory(H2)'
  <2>1. ASSUME NEW u \in Nat
        PROVE  /\ H2[u] # <<>> => \E e \in elected' : e.term = u
               /\ Sound(H2[u], H2) /\ Ascends(H2[u], u)
    <3>1. CASE u = t
      <4>1. Victory(i, t).term = t  BY DEF Victory
      <4> QED  BY <1>2, <1>5, <3>1, <4>1
    <3>2. CASE u # t
      <4>1. H2[u] = H[u] /\ H[u] \in Seq(Entry)  BY <1>2, <3>2
      <4>2. /\ H[u] # <<>> => \E e \in elected : e.term = u
            /\ Sound(H[u], H) /\ Ascends(H[u], u)
        BY DEF LogInv, LeadersHistory
      <4> QED  BY <1>4, <4>1, <4>2
    <3> QED  BY <3>1, <3>2
  <2> QED  BY <2>1 DEF LeadersHistory
<1>7. PeerHistory(i, H2)'
  <2>1. ASSUME NEW n \in 1..Len(pend'[i])
        PROVE  Victory(i, pend'[i][n].term) \in elected'
    <3>1. CASE n \in 1..Len(pend[i]) /\ pend'[i][n] = pend[i][n]
      BY <3>1 DEF LogInv, PeerHistory
    <3>2. CASE pend'[i][n].term = t  BY <3>2
    <3> QED  BY <3>1, <3>2
  <2> QED  BY <1>5, <2>1 DEF PeerHistory
<1>8. ASSUME NEW x \in Server, x # i
      PROVE  PeerHistory(x, H2)' /\ LeaderOK(x, H2)' /\ WaitingAppendsOK(x)'
  <2>1. PeerHistory(x, H)' /\ LeaderOK(x, H)' /\ WaitingAppendsOK(x)'
    BY <1>1, <1>8, OthersKeepLogs DEF LogInv
  <2>2. PeerHistory(x, H2)'
    <3>1. VLog(x)' \in Seq(Entry)  BY VLogTypeNext
    <3>2. Sound(VLog(x)', H2)  BY <1>4, <2>1, <3>1 DEF PeerHistory
    <3> QED  BY <2>1, <3>2 DEF PeerHistory
  <2>3. LeaderOK(x, H2)'
    <3> SUFFICES ASSUME state'[x] = FSM_LEADER  PROVE LeaderOK(x, H2)'
      BY DEF LeaderOK
    <3>1. Victory(x, currentTerm'[x]) \in elected'  BY <2>1 DEF LeaderOK
    <3>2. currentTerm'[x] # t
      <4> SUFFICES ASSUME currentTerm'[x] = t  PROVE FALSE
        OBVIOUS
      <4>1. /\ Victory(x, t).term = Victory(i, t).term
            /\ Victory(x, t).leader = x /\ Victory(i, t).leader = i
        BY DEF Victory
      <4> QED  BY <1>8, <3>1, <4>1 DEF ElectionSafety
    <3>3. currentTerm'[x] \in Nat  BY DEF TypeOK
    <3>4. H2[currentTerm'[x]] = H[currentTerm'[x]]  BY <1>2, <3>2, <3>3
    <3> QED  BY <2>1, <3>4 DEF LeaderOK
  <2> QED  BY <2>1, <2>2, <2>3
<1>9. ASSUME NEW x \in Server, NEW y \in Server, NEW q \in AppendRequestMsg,
             Travels(q, x, y)
      PROVE  Victory(x, q.term) \in elected' /\ SliceOf(q, H2[q.term])
  <2>1. Victory(x, q.term) \in elected /\ SliceOf(q, H[q.term])
    BY <1>9 DEF LogInv, AppendsOK
  <2>2. q.term \in Nat  BY SliceType
  <2>3. CASE q.term = t
    <3>1. SliceOf(q, l)  BY <1>2, <2>1, <2>3, SliceGrows
    <3> QED  BY <1>2, <2>1, <2>3, <3>1
  <2>4. CASE q.term # t  BY <1>2, <2>1, <2>2, <2>4
  <2> QED  BY <2>1, <2>3, <2>4
<1>10. AppendsOK(H2)'
  <2> SUFFICES ASSUME NEW x \in Server, NEW y \in Server, NEW q \in AppendRequestMsg,
                      Travels(q, x, y)'
               PROVE  Victory(x, q.term) \in elected' /\ SliceOf(q, H2[q.term])
    BY DEF AppendsOK
  <2>1. CASE Travels(q, x, y)  BY <1>9, <2>1
  <2>2. CASE x = i /\ q.term = t /\ SliceOf(q, l)  BY <1>2, <2>2
  <2> QED  BY <2>1, <2>2
<1>11. LeaderOK(i, H2)'  BY <1>2 DEF LeaderOK
<1>12. \A x \in Server : PeerHistory(x, H2)' /\ LeaderOK(x, H2)' /\ WaitingAppendsOK(x)'
  BY <1>7, <1>8, <1>11
<1> QED  BY <1>1, <1>6, <1>10, <1>12 DEF LogInv, IsHistory, H2

\* A log and an entry more.
LEMMA AppendParts ==
  ASSUME NEW s \in Seq(Entry), NEW e \in Entry
  PROVE  /\ Append(s, e) \in Seq(Entry) /\ Len(Append(s, e)) = Len(s) + 1
         /\ \A n \in 1..Len(s) : Append(s, e)[n] = s[n]
         /\ Append(s, e)[Len(s) + 1] = e
         /\ Begins(s, Append(s, e))
<1>1. /\ Append(s, e) \in Seq(Entry) /\ Len(Append(s, e)) = Len(s) + 1
      /\ \A n \in 1..Len(s) : Append(s, e)[n] = s[n]
      /\ Append(s, e)[Len(s) + 1] = e
      /\ Len(s) \in Nat
  OBVIOUS
<1>2. Begins(s, Append(s, e))
  BY <1>1 DEF Begins, Agree
<1> QED  BY <1>1, <1>2

\* What a leader passes to its log.
LEMMA PendingGrows ==
  ASSUME TypeOK, NEW i \in Server, NEW e \in Entry, log'[i] = log[i],
         pend'[i] = Append(pend[i], e)
  PROVE  /\ VLog(i)' = Append(VLog(i), e)
         /\ \A n \in 1..Len(VLog(i)') : n \in 1..Len(VLog(i)) \/ VLog(i)'[n] = e
         /\ \A n \in 1..Len(pend'[i]) :
              (n \in 1..Len(pend[i]) /\ pend'[i][n] = pend[i][n]) \/ pend'[i][n] = e
<1>1. VLog(i) \in Seq(Entry) /\ log[i] \in Seq(Entry) /\ pend[i] \in Seq(Entry)
  BY VLogType
<1>2. VLog(i)' = Append(VLog(i), e)
  <2>1. log[i] \o Append(pend[i], e) = Append(log[i] \o pend[i], e)
    <3> DEFINE l == log[i]
               p == pend[i]
    <3>1. l \in Seq(Entry) /\ p \in Seq(Entry)  BY <1>1
    <3> HIDE DEF l, p
    <3>2. l \o Append(p, e) = Append(l \o p, e)
      <4>1. Append(p, e) = p \o <<e>> /\ <<e>> \in Seq(Entry)
        BY <3>1, AppendIsConcat
      <4>2. Append(l \o p, e) = (l \o p) \o <<e>>
        <5>1. l \o p \in Seq(Entry)  BY <3>1, ConcatProperties
        <5> DEFINE u == l \o p
        <5> HIDE DEF u
        <5>2. Append(u, e) = u \o <<e>>  BY <5>1, AppendIsConcat DEF u
        <5> QED  BY <5>2 DEF u
      <4> QED  BY <3>1, <4>1, <4>2, ConcatAssociative
    <3> QED  BY <3>2 DEF l, p
  <2> QED  BY <2>1 DEF VLog
<1>3. ASSUME NEW s \in Seq(Entry), NEW n \in 1..Len(Append(s, e))
      PROVE  \/ n \in 1..Len(s) /\ Append(s, e)[n] = s[n]
             \/ Append(s, e)[n] = e
  <2>1. n \in 1..Len(s) \/ n = Len(s) + 1  BY AppendParts
  <2> QED  BY <2>1, AppendParts
<1> QED  BY <1>1, <1>2, <1>3

LEMMA ClientUpdateKeepsLogInv ==
  ASSUME TypeOK, TypeOK', QueueInv, NEW H, LogInv(H), ElectionSafety',
         NEW i \in Server, NEW v \in Value, ClientUpdate(i, v)
  PROVE  \E H2 : LogInv(H2)' /\ HistoryGrows(H, H2)
<1>1. SilentStep(i)  BY ClientIsSilent
<1>2. PICK t \in Nat : t = currentTerm[i]  BY DEF TypeOK
<1>3. PICK e \in Entry : e = [term |-> t, val |-> v]  BY DEF Entry
<1>4. PICK l \in Seq(Entry) : l = VLog(i)'  BY VLogTypeNext
<1>5. /\ state[i] = FSM_LEADER
      /\ pend'[i] = Append(pend[i], e) /\ log'[i] = log[i]
      /\ UNCHANGED <<elected, state, currentTerm, nextIndex, rpc, writes, log>>
  BY <1>2, <1>3 DEF ClientUpdate, history, progress, network, TypeOK
<1>6. Victory(i, t) \in elected /\ H[t] = VLog(i)
  BY <1>2, <1>5 DEF LogInv, LeaderOK
<1>7. /\ Begins(VLog(i), l)
      /\ \A n \in 1..Len(l) : n \in 1..Len(VLog(i)) \/ l[n] = e
      /\ \A n \in 1..Len(pend'[i]) :
           (n \in 1..Len(pend[i]) /\ pend'[i][n] = pend[i][n]) \/ pend'[i][n] = e
  <2>1. /\ VLog(i)' = Append(VLog(i), e)
        /\ \A n \in 1..Len(VLog(i)') : n \in 1..Len(VLog(i)) \/ VLog(i)'[n] = e
        /\ \A n \in 1..Len(pend'[i]) :
             (n \in 1..Len(pend[i]) /\ pend'[i][n] = pend[i][n]) \/ pend'[i][n] = e
    BY <1>5, PendingGrows
  <2>2. Begins(VLog(i), Append(VLog(i), e))  BY VLogType, AppendParts
  <2> QED  BY <1>4, <2>1, <2>2
<1>8. e.term = t  BY <1>3
<1>9. \A x \in Server : CallsKept(x)  BY <1>5 DEF CallsKept
<1>10. NoNewTravel  BY <1>1, SilentStepKeepsQueueInv
<1>11. WaitingAppendsOK(i)'  BY <1>5 DEF LogInv, WaitingAppendsOK
<1>12. /\ \A j \in Server : nextIndex'[i][j] <= Len(log'[i]) + 1
       /\ \A j \in Server : rpc'[i][j] # None =>
            SentLastIndex(rpc'[i][j].req) <= Len(log'[i])
  BY <1>5 DEF LogInv, LeaderOK
<1>13. /\ OthersRest(i) /\ currentTerm'[i] = t /\ Victory(i, t) \in elected'
       /\ elected \subseteq elected' /\ Begins(H[t], l)
  BY <1>1, <1>2, <1>5, <1>6, <1>7 DEF SilentStep, LocalStep
<1>14. /\ \A n \in 1..Len(l) : n \in 1..Len(VLog(i)) \/ l[n].term = t
       /\ \A n \in 1..Len(pend'[i]) :
            (n \in 1..Len(pend[i]) /\ pend'[i][n] = pend[i][n]) \/ pend'[i][n].term = t
  BY <1>7, <1>8
<1>15. \A x, y \in Server : \A q \in AppendRequestMsg : Travels(q, x, y)' =>
         Travels(q, x, y) \/ (x = i /\ q.term = t /\ SliceOf(q, l))
  BY <1>10 DEF NoNewTravel
<1>16. VLog(i)' = l /\ Begins(VLog(i), l) /\ \A x \in Server : x # i => CallsKept(x)
  BY <1>4, <1>7, <1>9
<1>17. LogInv([H EXCEPT ![t] = l])'
  BY <1>2, <1>11, <1>12, <1>13, <1>14, <1>15, <1>16, LeaderGrowsHistory
<1>18. HistoryGrows(H, [H EXCEPT ![t] = l])
  <2>1. state'[i] = FSM_LEADER /\ currentTerm'[i] = t  BY <1>2, <1>5
  <2> QED  BY <1>13, <2>1, HistoryExtends DEF LogInv, IsHistory
<1> QED  BY <1>17, <1>18

\* A new leader has nothing in the history of its term, and asks for nothing
\* but the end of its log.
LEMMA BecomeLeaderKeepsLogInv ==
  ASSUME TypeOK, TypeOK', QueueInv, FreshInv, NEW H, LogInv(H), ElectionSafety',
         NEW i \in Server, NEW j \in Server, VoteResponse(i, j), BecomeLeader(i)
  PROVE  \E H2 : LogInv(H2)' /\ HistoryGrows(H, H2)
<1>1. SendingStep(i) /\ SentBy(i) /\ state[i] = FSM_CANDIDATE
  BY BecomeLeaderSends, SendingStepKeepsQueueInv
<1>2. PICK t \in Nat : t = currentTerm[i]  BY DEF TypeOK
<1>3. PICK e \in Entry : e = [term |-> t, val |-> Checkpoint]  BY DEF Entry
<1>4. PICK l \in Seq(Entry) : l = VLog(i)'  BY VLogTypeNext
<1> DEFINE req == [type |-> "append", term |-> currentTerm[i], prev |-> Len(log[i]),
                   prevTerm |-> LastTermOf(log[i]), commit |-> commitIndex[i],
                   entries |-> <<>>]
           c == [req |-> req, seen |-> FALSE, reply |-> None]
<1>5. /\ \/ pend'[i] = Append(pend[i], e)
         \/ pend'[i] = pend[i]
      /\ elected' = elected \cup {Victory(i, t)}
      /\ rpc' = [rpc EXCEPT ![i] = [k \in Server |-> IF k = i THEN None ELSE c]]
      /\ UNCHANGED <<currentTerm, writes, log>>
      /\ FollowersAt(i, Len(log[i]) + 1)
  BY <1>2, <1>3 DEF BecomeLeader, TypeOK, Victory
<1>6. e.term = t  BY <1>3
<1>7. /\ VLog(i) \in Seq(Entry) /\ log[i] \in Seq(Entry)
      /\ Begins(log[i], VLog(i)) /\ Len(log[i]) \in Nat
  <2>1. VLog(i) \in Seq(Entry) /\ log[i] \in Seq(Entry) /\ Begins(log[i], VLog(i))
    BY VLogType
  <2> QED  BY <2>1
<1>8. /\ Begins(VLog(i), l)
      /\ \A n \in 1..Len(l) : n \in 1..Len(VLog(i)) \/ l[n].term = t
      /\ \A n \in 1..Len(pend'[i]) :
           (n \in 1..Len(pend[i]) /\ pend'[i][n] = pend[i][n]) \/ pend'[i][n].term = t
  <2>1. CASE pend'[i] = Append(pend[i], e)
    <3>1. log'[i] = log[i]  BY <1>5
    <3>2. /\ Begins(VLog(i), l)
          /\ \A n \in 1..Len(l) : n \in 1..Len(VLog(i)) \/ l[n] = e
          /\ \A n \in 1..Len(pend'[i]) :
               (n \in 1..Len(pend[i]) /\ pend'[i][n] = pend[i][n]) \/ pend'[i][n] = e
      <4>1. /\ VLog(i)' = Append(VLog(i), e)
            /\ \A n \in 1..Len(VLog(i)') : n \in 1..Len(VLog(i)) \/ VLog(i)'[n] = e
            /\ \A n \in 1..Len(pend'[i]) :
                 (n \in 1..Len(pend[i]) /\ pend'[i][n] = pend[i][n]) \/ pend'[i][n] = e
        BY <2>1, <3>1, PendingGrows
      <4>2. Begins(VLog(i), Append(VLog(i), e))  BY <1>7, AppendParts
      <4> QED  BY <1>4, <4>1, <4>2
    <3> QED  BY <1>6, <3>2
  <2>2. CASE pend'[i] = pend[i]
    <3>1. l = VLog(i)  BY <1>4, <1>5, <2>2 DEF VLog
    <3> QED  BY <1>7, <2>2, <3>1, BeginsItself
  <2> QED  BY <1>5, <2>1, <2>2
<1>9. H[t] = <<>>
  <2> SUFFICES ASSUME NEW f \in elected, f.term = t  PROVE FALSE
    BY DEF LogInv, LeadersHistory
  <2>1. Victory(i, t) \in elected' /\ f \in elected'  BY <1>5
  <2>2. Victory(i, t).term = t /\ Victory(i, t).leader = i  BY DEF Victory
  <2>3. f.leader = i  BY <2>1, <2>2 DEF ElectionSafety
  <2>4. f = Victory(i, t)  BY <2>3 DEF Victory, TypeOK
  <2> QED  BY <1>1, <1>2, <2>4 DEF FreshInv
<1>10. Begins(H[t], l)
  BY <1>9 DEF Begins, Agree
<1>11. WaitingAppendsOK(i)'  BY <1>5 DEF LogInv, WaitingAppendsOK
<1>12. /\ req.prev = Len(log[i]) /\ req.prevTerm = LastTermOf(log[i])
       /\ req.entries = <<>> /\ req.term = t /\ c.req = req
  BY <1>2
<1>13. \A x, y \in Server : x # i => rpc'[x][y] = rpc[x][y]
  BY <1>5 DEF TypeOK
<1>14. \A y \in Server : rpc'[i][y] # None => rpc'[i][y] = c
  BY <1>5 DEF TypeOK
<1> HIDE DEF req, c
<1>15. SentLastIndex(req) = Len(log[i])
  BY <1>7, <1>12 DEF SentLastIndex
<1>16. SliceOf(req, l)
  <2>1. Len(log[i]) <= Len(VLog(i)) /\ Len(VLog(i)) <= Len(l)
    BY <1>7, <1>8 DEF Begins, Agree
  <2>2. Len(VLog(i)) \in Nat /\ Len(l) \in Nat  BY <1>7
  <2>3. SentLastIndex(req) <= Len(l)  BY <1>7, <1>15, <2>1, <2>2
  <2>4. TermAt(log[i], Len(log[i])) = LastTermOf(log[i])
    <3>1. Len(log[i]) = 0 <=> log[i] = <<>>  BY <1>7, EmptySeq
    <3> QED  BY <1>7, <3>1 DEF TermAt, LastTermOf
  <2>5. TermAt(log[i], Len(log[i])) = TermAt(VLog(i), Len(log[i]))
    BY <1>7, TermAtBegins
  <2>6. TermAt(VLog(i), Len(log[i])) = TermAt(l, Len(log[i]))
    BY <1>7, <1>8, <2>1, TermAtBegins
  <2> QED  BY <1>12, <2>3, <2>4, <2>5, <2>6 DEF SliceOf
<1>17. \A y \in Server : rpc'[i][y] # None =>
         SentLastIndex(rpc'[i][y].req) <= Len(log'[i])
  BY <1>5, <1>7, <1>12, <1>14, <1>15
<1>18. \A y \in Server : nextIndex'[i][y] <= Len(log'[i]) + 1
  <2>1. nextIndex'[i] = Everyone(Len(log[i]) + 1)
    BY <1>5 DEF FollowersAt, TypeOK
  <2> QED  BY <1>5, <1>7, <2>1 DEF Everyone
<1>19. \A x, y \in Server : \A q \in AppendRequestMsg : Travels(q, x, y)' =>
         Travels(q, x, y) \/ (x = i /\ q.term = t /\ SliceOf(q, l))
  BY <1>1, <1>12, <1>14, <1>16 DEF SentBy
<1>20. /\ OthersRest(i) /\ currentTerm'[i] = t /\ Victory(i, t) \in elected'
       /\ elected \subseteq elected'
       /\ \A x \in Server : x # i => CallsKept(x)
  BY <1>1, <1>2, <1>5 DEF SendingStep, LocalStep
<1>21. LogInv([H EXCEPT ![t] = l])'
  BY <1>2, <1>4, <1>8, <1>10, <1>11, <1>17, <1>18, <1>19, <1>20,
     LeaderGrowsHistory
<1>22. HistoryGrows(H, [H EXCEPT ![t] = l])
  <2>1. state'[i] = FSM_LEADER  BY DEF BecomeLeader, TypeOK
  <2> QED  BY <1>10, <1>20, <2>1, HistoryExtends DEF LogInv, IsHistory
<1> QED  BY <1>21, <1>22

-----------------------------------------------------------------------------
(* The theorems. *)

LEMMA NextLogInv ==
  ASSUME ReadOvertaken = FALSE, TypeOK, TypeOK', QueueInv, FreshInv,
         ElectionSafety', Next, NEW H, LogInv(H)
  PROVE  \E H2 : LogInv(H2)' /\ HistoryGrows(H, H2)
<1>1. ASSUME NEW i \in Server, Crash(i) \/ Flush(i)
      PROVE  LogInv(H)'
  BY <1>1, CrashKeepsLogInv, FlushKeepsLogInv
<1>2. ASSUME NEW i \in Server, \E v \in Value : ClientUpdate(i, v)
      PROVE  \E H2 : LogInv(H2)' /\ HistoryGrows(H, H2)
  BY <1>2, ClientUpdateKeepsLogInv
<1>3. ASSUME NEW i \in Server, NEW j \in Server, VoteResponse(i, j), BecomeLeader(i)
      PROVE  \E H2 : LogInv(H2)' /\ HistoryGrows(H, H2)
  BY <1>3, BecomeLeaderKeepsLogInv
<1>4. ASSUME RolesContinue
      PROVE  LogInv(H)' \/ \E H2 : LogInv(H2)' /\ HistoryGrows(H, H2)
  <2>1. ASSUME NEW i \in Server,
               ElectionTimeout(i) \/ NothingPersisted(i) \/ VotePersisted(i) \/ Apply(i)
        PROVE  LogInv(H)'
    BY <1>4, <2>1, LocalActionsAreCalm
  <2>2. ASSUME NEW i \in Server, NEW j \in Server,
               VoteRequest(i, j) \/ RefuseAppend(i, j) \/ ConnectionLost(i, j)
        PROVE  LogInv(H)'
    BY <1>4, <2>2, SocketActionsAreCalm
  <2>3. ASSUME NEW i \in Server, NEW j \in Server,
               VoteResponse(i, j) \/ AppendResponse(i, j)
        PROVE  LogInv(H)'
    BY <1>4, <2>3, VoteResponseIsCalm, AppendResponseIsCalm
  <2>4. ASSUME NEW i \in Server, ElectionPersisted(i) \/ AppendPersisted(i)
        PROVE  LogInv(H)'
    BY <1>4, <2>4, ElectionPersistedIsCalm, AppendPersistedKeepsLogInv
  <2>5. ASSUME NEW i \in Server, NEW j \in Server,
               AppendRequest(i, j) \/ SendAppend(i, j)
        PROVE  LogInv(H)'
    BY <1>4, <2>5, AppendRequestKeepsLogInv, SendAppendKeepsLogInv
  <2>6. ASSUME NEW i \in Server, NEW j \in Server, AppendRequestFails(i, j)
        PROVE  LogInv(H)'
    BY <1>4, <2>6, FailKeepsLogInv, AppendRequestFailsIsSilent DEF AppendRequestFails
  <2>7. ASSUME NEW i \in Server, NEW j \in Server, BeginRead(i, j)
        PROVE  FALSE
    BY <2>7 DEF BeginRead
  <2>8. ASSUME NEW i \in Server, EndRead(i)
        PROVE  FALSE
    BY <2>8 DEF EndRead, QueueInv, NoReading
  <2> QED  BY <1>1, <1>2, <2>1, <2>2, <2>3, <2>4, <2>5, <2>6, <2>7, <2>8 DEF Next
<1>5. LogInv(H)' => \E H2 : LogInv(H2)' /\ HistoryGrows(H, H2)
  BY HistoryStays DEF LogInv, IsHistory
<1> QED  BY <1>3, <1>4, <1>5, RolesChange

\* The invariant of the logs, with a history for each state.
LogsMatch == QueueInv /\ FreshInv /\ \E H : LogInv(H)

LEMMA InitLogsMatch == Init => LogsMatch
<1> SUFFICES ASSUME Init  PROVE LogsMatch
  OBVIOUS
<1>1. /\ log = [i \in Server |-> <<>>] /\ pend = [i \in Server |-> <<>>]
      /\ state = [i \in Server |-> FSM_FOLLOWER]
      /\ writes = [i \in Server |-> <<>>]
      /\ rpc = [i \in Server |-> Idle]
      /\ stale = {} /\ ballots = {} /\ elected = {}
  BY DEF Init, Started
<1>2. \A x, y \in Server : \A q : ~Travels(q, x, y)
  BY <1>1 DEF Travels, Idle
<1>3. FreshInv
  BY <1>1, <1>2 DEF FreshInv, FSM_FOLLOWER, FSM_CANDIDATE
<1>4. PICK H : H = [t \in Nat |-> <<>>]
  OBVIOUS
<1>5. <<>> \in Seq(Entry) /\ Len(<<>>) = 0  BY EmptySeq
<1>6. \A i \in Server : VLog(i) = <<>>
  <2>1. <<>> \o <<>> = <<>>  BY <1>5, ConcatEmptySeq
  <2> QED  BY <1>1, <2>1 DEF VLog
<1>7. \A t : Sound(<<>>, H) /\ Ascends(<<>>, t)
  BY <1>5 DEF Sound, Ascends
<1>8. H \in [Nat -> Seq(Entry)] /\ LeadersHistory(H)
  BY <1>4, <1>5, <1>7 DEF LeadersHistory
<1>9. ASSUME NEW i \in Server
      PROVE  PeerHistory(i, H) /\ LeaderOK(i, H) /\ WaitingAppendsOK(i)
  <2>1. state[i] # FSM_LEADER  BY <1>1 DEF FSM_FOLLOWER, FSM_LEADER
  <2>2. LeaderOK(i, H)  BY <2>1 DEF LeaderOK
  <2>3. Len(pend[i]) = 0 /\ Len(writes[i]) = 0  BY <1>1, <1>5
  <2>4. PeerHistory(i, H) /\ WaitingAppendsOK(i)
    BY <1>6, <1>7, <2>3 DEF PeerHistory, WaitingAppendsOK
  <2> QED  BY <2>2, <2>4
<1>10. AppendsOK(H)  BY <1>2 DEF AppendsOK
<1>11. LogInv(H)  BY <1>8, <1>9, <1>10 DEF LogInv
<1> QED  BY <1>3, <1>11, InitQueueInv DEF LogsMatch

LEMMA NextLogsMatch ==
  ASSUME ReadOvertaken = FALSE, VoteResendRace = FALSE, TypeOK, ElectionInv,
         ElectionInv', LogsMatch, [Next]_vars
  PROVE  LogsMatch'
<1>1. TypeOK'  BY NextType
<1>2. CASE Next
  <2>1. QueueInv'  BY <1>2, NextQueueInv DEF LogsMatch
  <2>2. FreshInv'  BY <1>1, <1>2, <2>1, FreshStep DEF LogsMatch
  <2>3. ElectionSafety'
    <3>1. ElectionInv' => ElectionSafety'  BY MajoritiesElectOne, PTL
    <3> QED  BY <3>1
  <2>4. PICK H : LogInv(H)  BY DEF LogsMatch
  <2>5. \E H2 : LogInv(H2)'
    BY <1>1, <1>2, <2>3, <2>4, NextLogInv DEF LogsMatch
  <2> QED  BY <2>1, <2>2, <2>5 DEF LogsMatch
<1>3. CASE UNCHANGED vars
  <2>1. UNCHANGED <<log, pend, state, currentTerm, diskTerm, nextIndex, writes, rpc,
                    stale, ballots, elected>>
    BY <1>3 DEF vars
  <2>2. \A x, y \in Server : \A q : Travels(q, x, y)' <=> Travels(q, x, y)
    BY <2>1 DEF Travels
  <2>3. QueueInv'  BY <1>3, NextQueueInv DEF LogsMatch
  <2>4. FreshInv'  BY <2>1, <2>2 DEF LogsMatch, FreshInv
  <2>5. PICK H : LogInv(H)  BY DEF LogsMatch
  <2>6. AppendsOK(H)'  BY <2>1, <2>2, <2>5 DEF LogInv, AppendsOK
  <2>7. ASSUME NEW x \in Server
        PROVE  PeerHistory(x, H)' /\ LeaderOK(x, H)' /\ WaitingAppendsOK(x)'
    <3>1. VLog(x)' = VLog(x)  BY <2>1 DEF VLog
    <3>2. PeerHistory(x, H) /\ LeaderOK(x, H) /\ WaitingAppendsOK(x)
      BY <2>5 DEF LogInv
    <3>3. PeerHistory(x, H)'  BY <2>1, <3>1, <3>2 DEF PeerHistory
    <3>4. LeaderOK(x, H)'  BY <2>1, <3>1, <3>2 DEF LeaderOK
    <3>5. WaitingAppendsOK(x)'  BY <2>1, <3>2 DEF WaitingAppendsOK
    <3> QED  BY <3>3, <3>4, <3>5
  <2>8. LeadersHistory(H)'  BY <2>1, <2>5 DEF LogInv, LeadersHistory
  <2>9. LogInv(H)'  BY <2>5, <2>6, <2>7, <2>8 DEF LogInv
  <2> QED  BY <2>3, <2>4, <2>9 DEF LogsMatch
<1> QED  BY <1>2, <1>3

\* Two logs with histories in common agree up to an entry of the same term.
LEMMA HistoriesMatch ==
  ASSUME TypeOK, LogsMatch
  PROVE  LogMatching
<1> SUFFICES ASSUME NEW i \in Server, NEW j \in Server,
                    NEW n \in 1..Smaller(Len(log[i]), Len(log[j])),
                    log[i][n].term = log[j][n].term
             PROVE  SubSeq(log[i], 1, n) = SubSeq(log[j], 1, n)
  BY DEF LogMatching
<1>1. PICK H : LogInv(H)  BY DEF LogsMatch
<1>2. /\ log[i] \in Seq(Entry) /\ log[j] \in Seq(Entry)
      /\ n \in 1..Len(log[i]) /\ n \in 1..Len(log[j])
  <2>1. log[i] \in Seq(Entry) /\ log[j] \in Seq(Entry)  BY DEF TypeOK
  <2> QED  BY <2>1 DEF Smaller
<1>3. ASSUME NEW k \in Server
      PROVE  Sound(log[k], H)
  BY <1>1, VLogType, SoundBegins DEF LogInv, PeerHistory, IsHistory
<1>4. /\ Agree(log[i], H[log[i][n].term], n)
      /\ Agree(log[j], H[log[i][n].term], n)
  BY <1>2, <1>3 DEF Sound
<1>5. \A m \in 1..n : log[i][m] = log[j][m]
  BY <1>4 DEF Agree
<1> DEFINE a == SubSeq(log[i], 1, n)
           b == SubSeq(log[j], 1, n)
<1>6. /\ a \in Seq(Entry) /\ Len(a) = n /\ \A m \in 1..n : a[m] = log[i][m]
      /\ b \in Seq(Entry) /\ Len(b) = n /\ \A m \in 1..n : b[m] = log[j][m]
  <2>1. n \in 0..Len(log[i]) /\ n \in 0..Len(log[j])  BY <1>2
  <2> QED  BY <1>2, <2>1, PrefixParts
<1> HIDE DEF a, b
<1>7. a = b
  <2>1. \A m \in 1..Len(a) : a[m] = b[m]  BY <1>5, <1>6
  <2> QED  BY <1>6, <2>1, SeqEqual
<1> QED  BY <1>7 DEF a, b

\* Every entry came from the leader of its term, with all that was before it
\* (appendEntryHandler, becomeLeader, log.appendState).
THEOREM LogsInvariant ==
  ASSUME VoteResendRace = FALSE, ReadOvertaken = FALSE
  PROVE  Spec => []LogsMatch
<1>1. TypeOK /\ ElectionInv /\ ElectionInv' /\ LogsMatch /\ [Next]_vars => LogsMatch'
  BY NextLogsMatch
<1> QED  BY <1>1, InitLogsMatch, TypeCorrect, ElectionInvariant, PTL DEF Spec

\* Logs that agree on the term of an entry agree up to it (appendEntryHandler:
\* the check of the previous entry, the truncation that follows).
THEOREM LogsAgree ==
  ASSUME VoteResendRace = FALSE, ReadOvertaken = FALSE
  PROVE  Spec => []LogMatching
<1>1. TypeOK /\ LogsMatch => LogMatching  BY HistoriesMatch
<1> QED  BY <1>1, TypeCorrect, LogsInvariant, PTL
=============================================================================
