------------------------- MODULE ElectionInvariant -------------------------
(***************************************************************************)
(* Why the elections of ZmqRaft are safe: an inductive invariant about     *)
(* what each peer has in memory, in the queue of its writes and on disk,   *)
(* and about the votes that have left it.                                  *)
(***************************************************************************)
EXTENDS ZmqRaft

\* A peer may go from term t1 and vote v1 to term t2 and vote v2.
Later(t1, v1, t2, v2) ==
  t1 < t2 \/ (t1 = t2 /\ (v1 = None \/ v1 = v2))

Ballot(k, t, c) == [voter |-> k, term |-> t, cand |-> c]

\* Memory holds what the disk will hold once the queue is empty.
MemoryIsLastWrite(i) ==
  state[i] # DOWN =>
    IF writes[i] = <<>>
      THEN currentTerm[i] = diskTerm[i] /\ votedFor[i] = diskVote[i]
      ELSE /\ currentTerm[i] = writes[i][Len(writes[i])].term
           /\ votedFor[i] = writes[i][Len(writes[i])].vote

\* The disk goes forward with every write of the queue.
WritesAscend(i) ==
  /\ writes[i] # <<>> =>
       Later(diskTerm[i], diskVote[i], writes[i][1].term, writes[i][1].vote)
  /\ \A n \in 1..Len(writes[i]) : \A m \in 1..Len(writes[i]) :
       m = n + 1 => Later(writes[i][n].term, writes[i][n].vote,
                          writes[i][m].term, writes[i][m].vote)

\* What a write stands for.
WritesMeanVotes(i) ==
  \A n \in 1..Len(writes[i]) :
    /\ writes[i][n].then = "election" => writes[i][n].vote = i
    /\ writes[i][n].then = "vote" => writes[i][n].req.term = writes[i][n].term

PeerOK(i) == MemoryIsLastWrite(i) /\ WritesAscend(i) /\ WritesMeanVotes(i)

\* A vote that has left a peer is on its disk, unless the term is over.
BallotsStored ==
  \A b \in ballots :
    \/ b.term < diskTerm[b.voter]
    \/ b.term = diskTerm[b.voter] /\ b.cand = diskVote[b.voter]

\* A candidate asks for votes after its own, and a granting reply is a ballot.
RpcOK(r, B) ==
  \A x, y \in Server :
    r[x][y] # None /\ r[x][y].req.type = "vote" =>
      /\ Ballot(x, r[x][y].req.term, x) \in B
      /\ r[x][y].reply # None /\ r[x][y].reply.ok
           => Ballot(y, r[x][y].req.term, x) \in B

\* A candidate counts ballots, its own apart.
VotesAreBallots ==
  \A i \in Server : state[i] = FSM_CANDIDATE =>
    \A k \in votes[i] : k = i \/ Ballot(k, currentTerm[i], i) \in ballots

LeadersHaveMajorities ==
  \A e \in elected : \E Q \in SUBSET Server :
    IsMajority(Q) /\ \A k \in Q : Ballot(k, e.term, e.leader) \in ballots

NoReading == \A i \in Server : reading[i] = None

\* The inductive invariant of the elections, when no AppendEntries handler is
\* overtaken and no vote is asked for again while it is being written
\* (requestVoteHandler, onElectionTimeout, _updateState, FilePersistence).
ElectionInv ==
  /\ NoReading
  /\ \A i \in Server : PeerOK(i)
  /\ BallotsStored
  /\ OneBallotPerTerm
  /\ RpcOK(rpc, ballots)
  /\ VotesAreBallots
  /\ LeadersHaveMajorities
=============================================================================
