----------------------------- MODULE MCZmqRaft -----------------------------
(* ZmqRaft on small instances, from empty files or from the files that an   *)
(* earlier part of the cluster's life has left behind, or with a leader.    *)
EXTENDS ElectionInvariant, TLC

\* Peers and payloads are interchangeable, but for who stands for election.
Symmetry == Permutations(Electable) \cup Permutations(Server \ Electable)
            \cup Permutations(Value)

Update(t) == [term |-> t, val |-> CHOOSE v \in Value : TRUE]

\* All three peers were stopped in term t with these logs.  Peer w won t with
\* the vote of the second peer; the remaining peer cast no vote in t.
Stopped(t, w, l1, l2, l3) ==
  \E p \in [1..3 -> Server] :
    /\ \A x, y \in 1..3 : x # y => p[x] # p[y]
    /\ p[1] \in Electable /\ p[3] \in Electable
    /\ Started([i \in Server |-> t],
               [i \in Server |-> IF i \in {p[w], p[2]} THEN p[w] ELSE None],
               [i \in Server |-> CASE i = p[1] -> l1
                                   [] i = p[2] -> l2
                                   [] i = p[3] -> l3])

\* The leader of term 1 had one entry and the leader of term 2 another one;
\* neither had replicated its own.
DivergedInit == Stopped(2, 3, <<Update(1)>>, <<>>, <<Update(2)>>)
DivergedSpec == DivergedInit /\ [][Next]_vars

\* The leader of term 1 was stopped before it could replicate its entry.
AloneInit == Stopped(1, 1, <<Update(1)>>, <<>>, <<>>)
AloneFairSpec == AloneInit /\ [][Next]_vars /\ Fairness

\* Peer i has been elected in term 1 by all, all have answered its first
\* AppendEntries, and nothing has been proposed yet.
Led(i) ==
  /\ diskTerm = [j \in Server |-> 1] /\ currentTerm = diskTerm
  /\ diskVote = [j \in Server |-> i] /\ votedFor = diskVote
  /\ log = [j \in Server |-> <<>>] /\ pend = log /\ writes = log
  /\ lastApplied = [j \in Server |-> 0] /\ commitIndex = lastApplied
  /\ state = [j \in Server |-> IF j = i THEN FSM_LEADER ELSE FSM_FOLLOWER]
  /\ followLeaderId = [j \in Server |-> IF j = i THEN None ELSE i]
  /\ armed = [j \in Server |-> j # i]
  /\ paused = [j \in Server |-> FALSE]
  /\ voted = [j \in Server |-> {}] /\ votes = voted
  /\ matchIndex = [j \in Server |-> Everyone(0)]
  /\ nextIndex = [j \in Server |-> Everyone(1)]
  /\ reading = [j \in Server |-> None]
  /\ rpc = [j \in Server |-> Idle]
  /\ stale = {}
  /\ ballots = {[voter |-> j, term |-> 1, cand |-> i] : j \in Server}
  /\ elected = {[leader |-> i, term |-> 1]}
  /\ crashes = 0
  /\ losses = 0

\* What goes wrong comes after the first term: the state that the first update of
\* a client finds, or that of peers that were stopped before there was one.
FaultsInit == (\E i \in Electable : Led(i)) \/ Stopped(1, 1, <<>>, <<>>, <<>>)
FaultsSpec == FaultsInit /\ [][Next]_vars
=============================================================================
