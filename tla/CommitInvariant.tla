-------------------------- MODULE CommitInvariant --------------------------
(***************************************************************************)
(* Why no leader lacks what was committed before it: an entry that a       *)
(* majority may still store is in the log of every later leader, and       *)
(* nothing that a leader sends takes it away from a peer that stores it.   *)
(* A is the second history, see LogInvariant.                              *)
(***************************************************************************)
EXTENDS LogInvariant

-----------------------------------------------------------------------------
(* Requests and replies *)

Waiting(w, i) == w.then \in {"append", "refuse"} /\ w.from = i

\* Of the AppendEntries requests of one term one is on its way to a peer, and
\* that one is pending as long as its sender leads and has not got the reply.
LoneCall(i) ==
  /\ \A k \in Server : \A p, q \in AppendRequestMsg :
       Travels(p, i, k) /\ Travels(q, i, k) /\ p.term = q.term => p = q
  /\ state[i] = FSM_LEADER => \A k \in Server :
       /\ \A q \in AppendRequestMsg : q.term = currentTerm[i] =>
            [from |-> i, to |-> k, req |-> q] \notin stale
       /\ \A n \in 1..Len(writes[k]) :
            Waiting(writes[k][n], i) /\ writes[k][n].req.term = currentTerm[i] =>
              rpc[i][k] # None /\ rpc[i][k].reply = None

\* The term a peer will not go back from: without restarts the one in memory.
Floor(i) == IF MaxCrashes = 0 THEN currentTerm[i] ELSE diskTerm[i]

\* Only a request whose term is stored can be answered and handled once more.
SeenOK(i) ==
  \A j \in Server :
    rpc[i][j] # None /\ rpc[i][j].req.type = "append" /\ rpc[i][j].reply # None =>
      rpc[i][j].seen \/ rpc[i][j].req.term <= Floor(j)

\* What a leader has not flushed is nowhere else.
PendingIsPrivate(i, H) ==
  \A x \in 1..Len(pend[i]) :
    LET y == Len(log[i]) + x
        Has(l) == y <= Len(l) /\ l[y].term = pend[i][x].term
    IN /\ \A k \in Peers(i) : ~Has(VLog(k))
       /\ \A t \in Nat : Victory(i, t) \notin elected => ~Has(H[t])
       /\ \A k \in Server : \A q \in AppendRequestMsg :
            Travels(q, i, k) /\ y <= SentLastIndex(q) => ~Has(H[q.term])

\* A request that waits to be refused does not come to match, and one that waits
\* to be stored takes nothing away that is known to be committed.
WaitingStands(j) ==
  \A n \in 1..Len(writes[j]) :
    /\ writes[j][n].then = "refuse" => ~PrevMatches(log[j], writes[j][n].req)
    /\ writes[j][n].then = "append" => commitIndex[j] <= writes[j][n].req.prev

CallsInv(H) ==
  \A i \in Server :
    LoneCall(i) /\ SeenOK(i) /\ PendingIsPrivate(i, H) /\ WaitingStands(i)

-----------------------------------------------------------------------------
(* What has been accepted *)

Accepted(k, t, n) == [peer |-> k, term |-> t, index |-> n]

\* A majority has left term t without the entry of t at index n.
Dead(A, t, n) ==
  \E Q \in SUBSET Server :
    IsMajority(Q) /\ \A k \in Q : Floor(k) > t /\ Accepted(k, t, n) \notin A

Chosen(A, t, n) ==
  \E Q \in SUBSET Server : IsMajority(Q) /\ \A k \in Q : Accepted(k, t, n) \in A

\* l has every entry of an earlier term than t that may be chosen.
Complete(l, t, H, A) ==
  \A u \in Nat : \A n \in Nat \ {0} : u < t => Dead(A, u, n) \/ Agree(l, H[u], n)

\* l has every entry of an earlier term than t that k has accepted, if it may be
\* chosen.
CompleteFor(k, l, t, H, A) ==
  \A u \in Nat : \A n \in Nat \ {0} :
    u < t /\ Accepted(k, u, n) \in A => Dead(A, u, n) \/ Agree(l, H[u], n)

\* A log cut off after index m still has what k has accepted of earlier terms
\* than t, or may accept before it acts in t, ...
CoversOld(k, t, m, A) ==
  \A u \in Nat : \A n \in Nat \ {0} : u < t =>
    \/ n <= m
    \/ Dead(A, u, n)
    \/ t <= Floor(k) /\ Accepted(k, u, n) \notin A

\* ... and of term t.
CoversOwn(k, t, m, A) == \A n \in Nat : Accepted(k, t, n) \in A => n <= m

Covers(k, t, m, A) == CoversOld(k, t, m, A) /\ CoversOwn(k, t, m, A)

\* k has accepted all entries of term t up to m.
Holds(k, t, m, H, A) ==
  /\ m <= Len(H[t])
  /\ \A n \in 1..m : H[t][n].term = t => Accepted(k, t, n) \in A

\* What k has accepted is in its log, unless it can no longer be chosen.
PeerStores(k, H, A) ==
  /\ Ascends(VLog(k), Floor(k))
  /\ \A n \in 1..Len(log[k]) : log[k][n].term = Floor(k) =>
       \/ Accepted(k, Floor(k), n) \in A
       \/ Floor(k) < currentTerm[k] /\ Victory(k, Floor(k)) \in elected
  /\ \A a \in A : a.peer = k =>
       /\ a.term <= Floor(k)
       /\ a.index \in 1..Len(H[a.term])
       /\ H[a.term][a.index].term = a.term
       /\ \/ Agree(log[k], H[a.term], a.index)
          \/ a.term < Floor(k) /\ Dead(A, a.term, a.index)

\* A leader has in its log what may have been chosen before it and what has been
\* accepted of its own.
LeaderIsComplete(i, H, A) ==
  state[i] = FSM_LEADER =>
    /\ Complete(log[i], currentTerm[i], H, A)
    /\ \A k \in Server : CoversOwn(k, currentTerm[i], Len(log[i]), A)

\* So had the winner of each term.
WinnersComplete(H, A) == \A e \in elected : Complete(H[e.term], e.term, H, A)

\* A candidate has what its electors had when they voted.
CandidateOK(i, H, A) ==
  state[i] = FSM_CANDIDATE =>
    \A k \in Server :
      /\ \/ Ballot(k, currentTerm[i], i) \in ballots
         \/ \E n \in 1..Len(writes[k]) :
              /\ writes[k][n].then = "vote" /\ writes[k][n].from = i
              /\ writes[k][n].vote = i /\ writes[k][n].term = currentTerm[i]
         => CompleteFor(k, log[i], currentTerm[i], H, A)
      /\ \A q \in VoteRequestMsg : Travels(q, i, k) /\ q.term = currentTerm[i] =>
           q.lastIndex <= Len(log[i]) /\ q.lastTerm = TermAt(log[i], q.lastIndex)

\* A request takes nothing away that may be chosen.
AppendKeeps(A) ==
  \A i, j \in Server : \A q \in AppendRequestMsg :
    Travels(q, i, j) => Covers(j, q.term, SentLastIndex(q), A)

\* Where the leader goes on after a refusal.
Back(q, a) == IF a.conflict # 0 /\ a.conflict < q.prev THEN a.conflict ELSE q.prev

\* What a reply says of its sender.
ReplyOK(i, j, H, A) ==
  LET q == rpc[i][j].req
      a == rpc[i][j].reply
  IN rpc[i][j] # None /\ q.type = "append" /\ a # None /\ a.term <= q.term =>
       /\ q.term <= Floor(j)
       /\ a.ok => Holds(j, q.term, SentLastIndex(q), H, A)
       /\ ~a.ok => /\ Covers(j, q.term, Back(q, a) - 1, A)
                   /\ Floor(j) = q.term => ~PrevMatches(log[j], q)

\* A leader's view of its followers.
ProgressOK(i, H, A) ==
  state[i] = FSM_LEADER =>
    \A k \in Peers(i) :
      /\ rpc[i][k] = None => Covers(k, currentTerm[i], nextIndex[i][k] - 1, A)
      /\ Holds(k, currentTerm[i], matchIndex[i][k], H, A)

StoreInv(H, A) ==
  /\ A \subseteq [peer: Server, term: Nat, index: Nat]
  /\ WinnersComplete(H, A)
  /\ AppendKeeps(A)
  /\ \A i \in Server : /\ PeerStores(i, H, A)
                       /\ LeaderIsComplete(i, H, A)
                       /\ CandidateOK(i, H, A)
                       /\ ProgressOK(i, H, A)
                       /\ \A j \in Server : ReplyOK(i, j, H, A)

-----------------------------------------------------------------------------
(* What is known to be committed has been chosen. *)

CommitOK(i, H, A) ==
  /\ lastApplied[i] <= commitIndex[i]
  /\ commitIndex[i] # 0 =>
       \E t \in Nat : \E n \in Nat :
         /\ commitIndex[i] <= n /\ t <= Floor(i)
         /\ Chosen(A, t, n) /\ Agree(log[i], H[t], commitIndex[i])

CommitsSent(A) ==
  \A i, j \in Server : \A q \in AppendRequestMsg : Travels(q, i, j) /\ q.commit # 0 =>
    \E t \in Nat : \E n \in Nat : q.commit <= n /\ t <= q.term /\ Chosen(A, t, n)

CommitInv(H, A) == CommitsSent(A) /\ \A i \in Server : CommitOK(i, H, A)
=============================================================================
