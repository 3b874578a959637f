---------------------------- MODULE LogInvariant ----------------------------
(***************************************************************************)
(* Why the logs of ZmqRaft match and why nothing committed is lost: what   *)
(* the queue of writes, the sockets and the logs have to do with each      *)
(* other.  Two histories are needed.  H[t] is the log of the leader of     *)
(* term t, as it was when it last led in t, appends under way included.    *)
(* A holds what a peer has accepted for good: [peer, term, index] stands   *)
(* for the entry of term t at that index, stored by a peer that will never *)
(* again act in an earlier term.                                           *)
(***************************************************************************)
EXTENDS ElectionInvariant

-----------------------------------------------------------------------------
(* The queue of writes, the router and the sockets *)

PausingHandler == {"append", "refuse", "election"}

\* The handlers that pause the router are alone: their write is the last one in
\* the queue, no timer is armed and no request is pending.
PausedAlone(i) ==
  \A n \in 1..Len(writes[i]) : writes[i][n].then \in PausingHandler =>
    /\ n = Len(writes[i])
    /\ writes[i][n].term = currentTerm[i]
    /\ paused[i] /\ ~armed[i]
    /\ \A j \in Server : rpc[i][j] = None
    /\ state[i] = IF writes[i][n].then = "election" THEN FSM_CANDIDATE
                  ELSE FSM_FOLLOWER

TermsAscend(i) ==
  /\ diskTerm[i] <= currentTerm[i]
  /\ \A n \in 1..Len(writes[i]) :
       /\ diskTerm[i] <= writes[i][n].term
       /\ writes[i][n].term <= currentTerm[i]
       /\ \A m \in 1..n : writes[i][m].term <= writes[i][n].term

\* A role that a write has to precede is only taken after that write.
RoleIsStored(i) ==
  /\ state[i] = DOWN => writes[i] = <<>> /\ paused[i] /\ ~armed[i]
  /\ state[i] = FSM_LEADER => writes[i] = <<>>
  /\ state[i] = FSM_CANDIDATE =>
       writes[i] = <<>> \/ writes[i][Len(writes[i])].then = "election"
  /\ state[i] \in {FSM_CANDIDATE, FSM_LEADER} => currentTerm[i] >= 1

\* A write keeps the request whose handler waits for it.
WritesAnswer(i) ==
  \A n \in 1..Len(writes[i]) :
    /\ writes[i][n].then \in {"vote", "append", "refuse"} => writes[i][n].from # i
    /\ writes[i][n].then \in {"append", "refuse"} =>
         writes[i][n].req.term = writes[i][n].term

CallsMatchRole(i) ==
  \A j \in Server : rpc[i][j] # None =>
    /\ j # i
    /\ rpc[i][j].req.term = currentTerm[i]
    /\ state[i] = IF rpc[i][j].req.type = "vote" THEN FSM_CANDIDATE
                  ELSE FSM_LEADER

QueueOK(i) ==
  /\ PausedAlone(i)
  /\ TermsAscend(i)
  /\ RoleIsStored(i)
  /\ WritesAnswer(i)
  /\ CallsMatchRole(i)

QueueInv ==
  /\ NoReading
  /\ \A i \in Server : QueueOK(i)
  /\ \A s \in stale : s.from # s.to

-----------------------------------------------------------------------------
(* Requests and ballots are as old as the term their sender has stored *)

\* i has sent q to j, and j may still act on it.
Travels(q, i, j) ==
  \/ rpc[i][j] # None /\ rpc[i][j].req = q
  \/ [from |-> i, to |-> j, req |-> q] \in stale
  \/ \E n \in 1..Len(writes[j]) :
       /\ writes[j][n].then \in {"vote", "append", "refuse"}
       /\ writes[j][n].from = i
       /\ writes[j][n].req = q

Victory(i, t) == [leader |-> i, term |-> t]

FreshInv ==
  /\ \A i, j \in Server : \A q \in Request : Travels(q, i, j) => q.term <= diskTerm[i]
  /\ \A b \in ballots : b.term <= diskTerm[b.cand]
  /\ \A e \in elected : e.term <= diskTerm[e.leader]
  /\ \A i \in Server :
       state[i] = FSM_CANDIDATE => Victory(i, currentTerm[i]) \notin elected

-----------------------------------------------------------------------------
(* Logs *)

\* The log with the appends that are under way.
VLog(i) == log[i] \o pend[i]

\* s and l both have n entries, the same ones.
Agree(s, l, n) ==
  /\ n <= Len(s) /\ n <= Len(l)
  /\ \A m \in 1..n : s[m] = l[m]

\* Every entry comes, with all that is before it, from the leader of its term.
Sound(s, H) == \A n \in 1..Len(s) : Agree(s, H[s[n].term], n)

Ascends(s, t) ==
  /\ \A n \in 1..Len(s) : s[n].term <= t
  /\ \A n \in 1..Len(s) : \A m \in 1..n : s[m].term <= s[n].term

\* The entries of q and the one before them are those of l.
SliceOf(q, l) ==
  /\ SentLastIndex(q) <= Len(l)
  /\ q.prevTerm = TermAt(l, q.prev)
  /\ \A m \in 1..Len(q.entries) : q.entries[m] = l[q.prev + m]

LeadersHistory(H) ==
  \A t \in Nat :
    /\ H[t] # <<>> => \E e \in elected : e.term = t
    /\ Sound(H[t], H)
    /\ Ascends(H[t], t)

PeerHistory(i, H) ==
  /\ Sound(VLog(i), H)
  /\ Ascends(VLog(i), currentTerm[i])
  /\ \A n \in 1..Len(pend[i]) : Victory(i, pend[i][n].term) \in elected

\* A leader has sent nothing that is not in its log.
LeaderOK(i, H) ==
  state[i] = FSM_LEADER =>
    /\ Victory(i, currentTerm[i]) \in elected
    /\ H[currentTerm[i]] = VLog(i)
    /\ \A j \in Server : nextIndex[i][j] <= Len(log[i]) + 1
    /\ \A j \in Server : rpc[i][j] # None => SentLastIndex(rpc[i][j].req) <= Len(log[i])

AppendsOK(H) ==
  \A i, j \in Server : \A q \in AppendRequestMsg :
    Travels(q, i, j) => Victory(i, q.term) \in elected /\ SliceOf(q, H[q.term])

\* The follower that waits to append still has the entry before.
WaitingAppendsOK(j) ==
  \A n \in 1..Len(writes[j]) :
    writes[j][n].then = "append" => PrevMatches(log[j], writes[j][n].req)

LogInv(H) ==
  /\ H \in [Nat -> Seq(Entry)]
  /\ LeadersHistory(H)
  /\ \A i \in Server : PeerHistory(i, H) /\ LeaderOK(i, H) /\ WaitingAppendsOK(i)
  /\ AppendsOK(H)
=============================================================================
