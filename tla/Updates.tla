------------------------------ MODULE Updates ------------------------------
(***************************************************************************)
(* How an update of a client gets into the log once.  The client sends the *)
(* update with the id of its request, to the leader if it knows one; when  *)
(* it is told that the peer does not lead, or hears nothing, it asks       *)
(* another, with the same id.  A leader keeps a table of the updates it    *)
(* has accepted; the log knows the ids of its entries until they expire.   *)
(*                                                                         *)
(* Elections, replication and commitment are those of ZmqRaft in large     *)
(* steps: a leader is elected by a majority at once, and a follower is     *)
(* given the whole log.                                                    *)
(***************************************************************************)
EXTENDS Integers, Sequences, FiniteSets, FiniteSetsExt, SequencesExt

CONSTANTS
  Peer, Id, None,
  Ttl, Margin,      \* requestIdTtl, requestIdTtlAcceptMargin
  Elected,          \* whether who stands for election is elected: TRUE, FALSE or both
  SlowDisk,         \* a write may last from one leadership of a peer to the next
  MaxTerm, MaxAsks, MaxFaults   \* bounds: terms, messages under way, what goes wrong

ASSUME PeerAssumption == IsFiniteSet(Peer) /\ None \notin Id
ASSUME TtlAssumption == Ttl \in Nat /\ Margin \in 0..Ttl
ASSUME ElectionAssumption == Elected \subseteq BOOLEAN /\ SlowDisk \in BOOLEAN

VARIABLES
  \* the cluster: persistent
  term, log,
  \* and in memory
  leads, follow,    \* follow[p]: followLeaderId
  commit, applied,
  \* the log of p
  writing,          \* entries that wait to be written
  written,          \* entries that are, and their promises not yet resolved
  rids,             \* rids[p][id]: the index of id, or 0
  \* the server
  requests,         \* updateRequests
  \* the client
  pc, leader, result,
  asks, answers,    \* messages under way
  age,              \* the time since the ids were made
  faults

cluster == <<term, log, leads, follow, commit, applied, writing, written, rids>>
client  == <<pc, leader, result>>
network == <<asks, answers>>
vars == <<cluster, requests, client, network, age, faults>>

-----------------------------------------------------------------------------
(* What the log knows of requests *)

Forgotten == age > Ttl
\* fault: the margin is added, not taken off
SaneF == age <= Ttl + Margin
\* checkRequestSanity
Sane == age <= Ttl - Margin

\* The ids of the entries of l from index i on are added to r.
AddRids(r, l, i) ==
  [id \in Id |->
     LET at == {j \in i..Len(l) : l[j].id = id}
     IN IF at = {} \/ Forgotten THEN r[id] ELSE Max(at)]
\* _truncate
DropRids(r, i) == [id \in Id |-> IF r[id] >= i THEN 0 ELSE r[id]]

LastTerm(l) == IF l = <<>> THEN 0 ELSE Last(l).term

-----------------------------------------------------------------------------
(* Answers: nothing reaches the client over a connection it has closed. *)

Answer(id, p, kind, val) == [id |-> id, from |-> p, kind |-> kind, val |-> val]
Accept(id, p)       == Answer(id, p, "accept", 0)
Done(id, p, i)      == Answer(id, p, "index", i)
NotLeader(id, p, l) == Answer(id, p, "notLeader", l)
Expired(id, p)      == Answer(id, p, "expired", 0)

NoRequest == [index |-> -1, live |-> FALSE]
Pending(p, id) == requests[p][id] # NoRequest

\* _clearClientRequests: whoever waits for p is told that it does not lead.
Cleared(p) == {NotLeader(id, p, None) : id \in {i \in Id : requests[p][i].live}}

-----------------------------------------------------------------------------
(* The cluster *)

Majority(Q) == 2 * Cardinality(Q) > Cardinality(Peer)
\* Bound: no more peers vote than must.
Voters == {Q \in SUBSET Peer : Cardinality(Q) = 1 + Cardinality(Peer) \div 2}

UpToDate(p, q) ==
  \/ LastTerm(log[p]) > LastTerm(log[q])
  \/ LastTerm(log[p]) = LastTerm(log[q]) /\ Len(log[p]) >= Len(log[q])

\* The peers of Q that lead step down.
StepDown(Q) ==
  LET led == {q \in Q : leads[q]} IN
    /\ requests' = [q \in Peer |-> IF q \in led THEN [id \in Id |-> NoRequest] ELSE requests[q]]
    /\ answers' = answers \union UNION {Cleared(q) : q \in led}

\* p stands for election and is elected, or is not.
Stand(p, Q, elected) ==
  /\ ~leads[p] /\ p \in Q
  /\ \A q \in Q : term[q] < MaxTerm - (IF elected THEN 0 ELSE 1)
  /\ writing[p] = <<>> \/ SlowDisk
  /\ elected => \A q \in Q : UpToDate(p, q)
  /\ LET t == 1 + Max({term[q] : q \in Q}) IN
       /\ term' = [q \in Peer |-> IF q \in Q THEN t ELSE term[q]]
       \* becomeLeader
       /\ writing' = IF elected /\ commit[p] < Len(log[p])
                       THEN [writing EXCEPT ![p] = Append(@, [id |-> None, term |-> t])]
                       ELSE writing
  /\ leads' = [q \in Peer |-> IF q \in Q THEN q = p /\ elected ELSE leads[q]]
  /\ follow' = [q \in Peer |-> IF q \in Q THEN None ELSE follow[q]]
  /\ StepDown(Q)
  /\ UNCHANGED <<log, commit, applied, written, rids, client, asks, age, faults>>

\* A follower is given the log of the leader, once its own writes have ended.
Differ(l, m) == {i \in 1..Min({Len(l), Len(m)}) : l[i] # m[i]}
Replicate(p, q) ==
  /\ leads[p] /\ q # p /\ term[q] <= term[p] /\ writing[q] = <<>>
  /\ LET keeps == Differ(log[p], log[q]) = {} /\ Len(log[q]) >= Len(log[p])
         from  == IF Differ(log[p], log[q]) = {} THEN Len(log[q]) + 1
                  ELSE Min(Differ(log[p], log[q]))
     IN /\ log' = IF keeps THEN log ELSE [log EXCEPT ![q] = log[p]]
        /\ rids' = IF keeps THEN rids
                   ELSE [rids EXCEPT ![q] = AddRids(DropRids(@, from), log[p], from)]
  /\ term' = [term EXCEPT ![q] = term[p]]
  /\ follow' = [follow EXCEPT ![q] = p]
  /\ leads' = [leads EXCEPT ![q] = FALSE]
  /\ commit' = [commit EXCEPT ![q] = Max({@, Min({commit[p], Len(log[p])})})]
  /\ StepDown({q})
  /\ UNCHANGED <<applied, writing, written, client, asks, age, faults>>

Has(q, p, i) == term[q] = term[p] /\ Len(log[q]) >= i /\ log[q][i] = log[p][i]
Commit(p, i) ==
  /\ leads[p] /\ i \in commit[p] + 1 .. Len(log[p]) /\ log[p][i].term = term[p]
  /\ Majority({q \in Peer : Has(q, p, i)})
  /\ commit' = [commit EXCEPT ![p] = i]
  /\ UNCHANGED <<term, log, leads, follow, applied, writing, written, rids, requests,
                 client, network, age, faults>>

Told(p, n) == {id \in Id : requests[p][id].index \in 1..n}
\* fault: all are told the index of the last entry that is applied
AnswersF(p, n) == {Done(id, p, n) : id \in {i \in Told(p, n) : requests[p][i].live}}
Answers(p, n) ==
  {Done(id, p, requests[p][id].index) : id \in {i \in Told(p, n) : requests[p][i].live}}

\* _applyToStateMachine
Apply(p) ==
  /\ applied[p] < commit[p]
  /\ applied' = [applied EXCEPT ![p] = commit[p]]
  /\ requests' = [requests EXCEPT ![p] =
                     [id \in Id |-> IF id \in Told(p, commit[p]) THEN NoRequest ELSE @[id]]]
  /\ answers' = answers \union Answers(p, commit[p])
  /\ UNCHANGED <<term, log, leads, follow, commit, writing, written, rids, client, asks,
                 age, faults>>

\* _writeEntries
Write(p) ==
  /\ writing[p] # <<>>
  /\ log' = [log EXCEPT ![p] = @ \o writing[p]]
  /\ rids' = [rids EXCEPT ![p] = AddRids(@, log'[p], Len(log[p]) + 1)]
  /\ written' = [written EXCEPT ![p] =
                   @ \o [i \in 1..Len(writing[p]) |->
                           [entry |-> writing[p][i], index |-> Len(log[p]) + i]]]
  /\ writing' = [writing EXCEPT ![p] = <<>>]
  /\ UNCHANGED <<term, leads, follow, commit, applied, requests, client, network, age, faults>>

\* fault: an entry that is applied already waits to be applied
ResolvedF(p, id, i) ==
  requests' = [requests EXCEPT ![p][id].index = IF Pending(p, id) THEN i ELSE @]
  /\ UNCHANGED answers
\* What requestUpdateHandler does when the entry of id is written.
Resolved(p, id, i) ==
  IF i <= applied[p]
    THEN /\ requests' = [requests EXCEPT ![p][id] = NoRequest]
         /\ answers' = answers \union (IF requests[p][id].live THEN {Done(id, p, i)} ELSE {})
    ELSE /\ requests' = [requests EXCEPT ![p][id].index = IF Pending(p, id) THEN i ELSE @]
         /\ UNCHANGED answers
Resolve(p) ==
  /\ written[p] # <<>>
  /\ LET w == Head(written[p]) IN
       IF w.entry.id # None /\ leads[p] /\ term[p] = w.entry.term
         THEN Resolved(p, w.entry.id, w.index)
         ELSE UNCHANGED <<requests, answers>>
  /\ written' = [written EXCEPT ![p] = Tail(@)]
  /\ UNCHANGED <<term, log, leads, follow, commit, applied, writing, rids, client, asks,
                 age, faults>>

-----------------------------------------------------------------------------
(* requestUpdateHandler *)

Reply(m, a) == answers' = answers \union (IF m.live THEN {a} ELSE {})
Insert(m, i) == requests' = [requests EXCEPT ![m.to][m.id] = [index |-> i, live |-> m.live]]

New(m) ==
  /\ Insert(m, 0)
  /\ Reply(m, Accept(m.id, m.to))
  /\ writing' = [writing EXCEPT ![m.to] = Append(@, [id |-> m.id, term |-> term[m.to]])]

Handle(m) ==
  LET p == m.to
      i == rids[p][m.id]
  IN IF ~leads[p]
       THEN Reply(m, NotLeader(m.id, p, follow[p])) /\ UNCHANGED <<requests, writing>>
     ELSE IF Pending(p, m.id)
       THEN Reply(m, Accept(m.id, p)) /\ UNCHANGED <<requests, writing>>
     ELSE IF i = 0
       THEN IF Sane THEN New(m)
            ELSE Reply(m, Expired(m.id, p)) /\ UNCHANGED <<requests, writing>>
     ELSE IF i <= applied[p]
       THEN Reply(m, Done(m.id, p, i)) /\ UNCHANGED <<requests, writing>>
     ELSE Insert(m, i) /\ Reply(m, Accept(m.id, p)) /\ UNCHANGED writing

RequestUpdate(m) ==
  /\ asks' = asks \ {m}
  /\ Handle(m)
  /\ UNCHANGED <<term, log, leads, follow, commit, applied, written, rids, client, age, faults>>

\* The cleaning of the request ids.  Bound: it is done in all peers at once.
Forget ==
  /\ Forgotten /\ \E p \in Peer, id \in Id : rids[p][id] # 0
  /\ rids' = [p \in Peer |-> [id \in Id |-> 0]]
  /\ UNCHANGED <<term, log, leads, follow, commit, applied, writing, written, requests,
                 client, network, age, faults>>

-----------------------------------------------------------------------------
(* The client *)

Urls == IF leader = None THEN Peer ELSE {leader}

\* setLeader: the connections to the other peers are closed.
Closes(l) == IF l = None THEN {} ELSE Peer \ {l}
SetLeader(l, a) ==
  /\ leader' = l
  /\ asks' = {IF m.to \in Closes(l) THEN [m EXCEPT !.live = FALSE] ELSE m : m \in asks}
  /\ answers' = {m \in a : m.from \notin Closes(l)}
  /\ requests' = [p \in Peer |->
                    IF p \in Closes(l)
                      THEN [id \in Id |-> [requests[p][id] EXCEPT !.live = FALSE]]
                      ELSE requests[p]]

\* request, send
Send(id, p) ==
  /\ pc[id] = "request" /\ p \in Urls /\ Cardinality(asks) < MaxAsks
  /\ asks' = asks \union {[id |-> id, to |-> p, live |-> TRUE]}
  /\ pc' = [pc EXCEPT ![id] = "waiting"]
  /\ UNCHANGED <<cluster, requests, leader, result, answers, age, faults>>

\* The handler is found by the id: it takes an answer to any of its requests.
Receive(m) ==
  LET id == m.id IN
  /\ pc' = [pc EXCEPT ![id] =
              IF @ # "waiting" \/ m.kind = "accept" THEN @
              ELSE IF m.kind = "index" THEN "done"
              ELSE IF m.kind = "expired" THEN "expired"
              ELSE IF m.val = None THEN "config" ELSE "request"]
  /\ result' = [result EXCEPT ![id] = IF pc[id] = "waiting" /\ m.kind = "index" THEN m.val ELSE @]
  /\ IF pc[id] = "waiting" /\ m.kind = "notLeader"
       THEN SetLeader(m.val, answers \ {m})
       ELSE answers' = answers \ {m} /\ UNCHANGED <<asks, requests, leader>>
  /\ UNCHANGED <<cluster, age, faults>>

FaultUnless(cause) ==
  IF cause THEN UNCHANGED faults ELSE faults < MaxFaults /\ faults' = faults + 1

\* The client has heard nothing, and will not if nothing is under way.
Awaited(id) ==
  \/ \E m \in asks : m.id = id /\ m.live
  \/ \E m \in answers : m.id = id
  \/ \E p \in Peer : requests[p][id].live
Timeout(id) ==
  /\ pc[id] = "waiting" /\ FaultUnless(~Awaited(id))
  /\ pc' = [pc EXCEPT ![id] = "request"]
  /\ SetLeader(None, answers)
  /\ UNCHANGED <<cluster, result, age>>

\* requestConfig
Config(id, p) ==
  /\ pc[id] = "config" /\ p \in Urls
  /\ pc' = [pc EXCEPT ![id] = IF leads[p] THEN "request" ELSE @]
  /\ SetLeader(IF leads[p] THEN p ELSE follow[p], answers)
  /\ UNCHANGED <<cluster, result, age, faults>>
ConfigTimeout(id) ==
  /\ pc[id] = "config" /\ leader # None /\ FaultUnless(FALSE)
  /\ SetLeader(None, answers)
  /\ UNCHANGED <<cluster, pc, result, age>>

Lose(m) ==
  /\ FaultUnless(FALSE)
  /\ asks' = asks \ {m}
  /\ UNCHANGED <<cluster, requests, client, answers, age>>

Tick ==
  /\ age <= Ttl
  /\ age' = age + 1
  /\ UNCHANGED <<cluster, requests, client, network, faults>>

-----------------------------------------------------------------------------

Symmetry == Permutations(Peer)

Init ==
  /\ \E p \in Peer :
       leads = [q \in Peer |-> q = p] /\ follow = [q \in Peer |-> IF q = p THEN None ELSE p]
  /\ term = [p \in Peer |-> 1]
  /\ log = [p \in Peer |-> <<>>] /\ commit = [p \in Peer |-> 0] /\ applied = [p \in Peer |-> 0]
  /\ writing = [p \in Peer |-> <<>>] /\ written = [p \in Peer |-> <<>>]
  /\ rids = [p \in Peer |-> [id \in Id |-> 0]]
  /\ requests = [p \in Peer |-> [id \in Id |-> NoRequest]]
  /\ pc = [id \in Id |-> "request"] /\ leader = None /\ result = [id \in Id |-> 0]
  /\ asks = {} /\ answers = {} /\ age = 0 /\ faults = 0

Next ==
  \/ \E p \in Peer : \/ \E Q \in Voters, e \in Elected : Stand(p, Q, e)
                     \/ \E q \in Peer : Replicate(p, q)
                     \/ \E i \in 1..Len(log[p]) : Commit(p, i)
                     \/ Apply(p) \/ Write(p) \/ Resolve(p)
  \/ \E m \in asks : RequestUpdate(m) \/ Lose(m)
  \/ \E m \in answers : Receive(m)
  \/ \E id \in Id : \/ \E p \in Peer : Send(id, p) \/ Config(id, p)
                    \/ Timeout(id) \/ ConfigTimeout(id)
  \/ Forget \/ Tick

Spec == Init /\ [][Next]_vars

-----------------------------------------------------------------------------

\* An update is applied once (zmq_raft_client.js:426: "to ensure idempotent
\* updates").
AppliedOnce ==
  \A p \in Peer : \A i, j \in 1..commit[p] :
    log[p][i].id = log[p][j].id /\ log[p][i].id # None => i = j

\* Whoever waits for an update is told when it is applied: the entry is in the
\* log and is not applied yet, or will be written (raft_server.js:192-226;
\* raft.js:594-601).
WillBeTold ==
  \A p \in Peer, id \in Id : Pending(p, id) =>
    LET i == requests[p][id].index IN
      IF i = 0 THEN \/ \E k \in 1..Len(writing[p]) : writing[p][k].id = id
                    \/ \E k \in 1..Len(written[p]) : written[p][k].entry.id = id
      ELSE i \in applied[p] + 1 .. Len(log[p]) /\ log[p][i].id = id

\* The index a client is told is that of its entry
\* (zmq_raft_client.js:411).
RightIndex ==
  \A id \in Id : pc[id] = "done" =>
    \E p \in Peer : result[id] \in 1..commit[p] /\ log[p][result[id]].id = id
=============================================================================
