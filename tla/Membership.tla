----------------------------- MODULE Membership -----------------------------
(***************************************************************************)
(* Changes of the membership of a cluster (ClusterConfiguration, ConfigUpdate *)
(* and the configuration entries of the log).  A change goes through a     *)
(* joint configuration of old and new peers; each peer uses the latest     *)
(* configuration it has written or received, committed or not, and stores  *)
(* it in its state file, apart from the log.                               *)
(*                                                                         *)
(* Elections, replication and commitment are those of ZmqRaft in large     *)
(* steps, as in Updates; what is in small steps here is the writing of a   *)
(* configuration: first to the state file, then to the log.                *)
(***************************************************************************)
EXTENDS Integers, Sequences, FiniteSets, FiniteSetsExt, SequencesExt

CONSTANTS
  Peer, None,
  Old,         \* the peers of the cluster at first
  Targets,     \* the sets of peers a client asks for
  LosesConfig, \* a log may lose a configuration its peer goes on using
  MaxTerm, MaxLog, MaxChanges, MaxRestarts   \* bounds

ASSUME ClusterAssumption == Old \subseteq Peer /\ Targets \subseteq SUBSET Peer
ASSUME PeerAssumption == IsFiniteSet(Peer)
ASSUME LosesAssumption == LosesConfig \in BOOLEAN
ASSUME NoneAssumption ==
  LET Config == [old : SUBSET Peer, new : SUBSET Peer, id : Nat] IN
  None \notin Config \union [step : {"file", "log"}, term : Nat]
    \union [step : {"entries"}, log : Seq([term : Nat, config : Config \union {None}]), commit : Nat]

VARIABLES
  up, leads, term, log, commit,
  config,    \* config[p]: the configuration p uses, and the id of its request
  index,     \* peersIndex: where it is in the log, or 0
  disk,      \* config and index in the state file
  task,      \* what p writes while its router is paused
  changes, restarts   \* history

memory == <<up, leads, commit, config, index, task>>
history == <<changes, restarts>>
vars == <<memory, term, log, disk, history>>

-----------------------------------------------------------------------------
(* ClusterConfiguration: new is empty unless the configuration is joint.   *)

Members(c) == c.old \union c.new
IsTransitional(c) == c.new # {}

Majority(Q, S) == 2 * Cardinality(Q \intersect S) > Cardinality(S)

\* fault: only the old peers are asked
HasWonVotingF(c, Q) == Majority(Q, c.old)
\* hasWonVoting
HasWonVoting(c, Q) == Majority(Q, c.old) /\ (IsTransitional(c) => Majority(Q, c.new))

\* fault: only the new peers count
MajorityHasF(c, Q) == Majority(Q, IF IsTransitional(c) THEN c.new ELSE c.old)
\* majorityHasLogIndex
MajorityHas(c, Q) == Majority(Q, c.old) /\ (IsTransitional(c) => Majority(Q, c.new))

\* join
Joined(c, S, id) == [old |-> c.old, new |-> S, id |-> id]
\* serializeNC
NewOnly(c, id) == [old |-> c.new, new |-> {}, id |-> id]

-----------------------------------------------------------------------------

Entry(t, c) == [term |-> t, config |-> c]
LastTerm(l) == IF l = <<>> THEN 0 ELSE Last(l).term

UpToDate(p, q) ==
  \/ LastTerm(log[p]) > LastTerm(log[q])
  \/ LastTerm(log[p]) = LastTerm(log[q]) /\ Len(log[p]) >= Len(log[q])

Paused(p) == task[p] # None
\* _peerIdInCluster
Knows(q, p) == p \in Members(config[q])

\* p is elected by the peers of Q, in the first term that is new to them.
Elect(p, Q) ==
  LET t == 1 + Max({term[q] : q \in Q}) IN
  /\ p \in Q /\ ~leads[p] /\ Knows(p, p) /\ HasWonVoting(config[p], Q)
  /\ \A q \in Q : up[q] /\ ~Paused(q) /\ Knows(q, p) /\ UpToDate(p, q)
  /\ t <= MaxTerm
  /\ term' = [q \in Peer |-> IF q \in Q THEN t ELSE term[q]]
  /\ leads' = [q \in Peer |-> IF q \in Q THEN q = p ELSE leads[q]]
  /\ LET checks == commit[p] < Len(log[p]) IN
       /\ checks => Len(log[p]) < MaxLog
       /\ log' = IF checks THEN [log EXCEPT ![p] = Append(@, Entry(t, None))] ELSE log
  /\ UNCHANGED <<up, commit, config, index, disk, task, history>>

\* A response has a higher term.
StepDown(p, q) ==
  /\ leads[p] /\ Knows(p, q) /\ term[q] > term[p]
  /\ leads' = [leads EXCEPT ![p] = FALSE]
  /\ term' = [term EXCEPT ![p] = term[q]]
  /\ UNCHANGED <<up, log, commit, config, index, disk, task, history>>

\* RequestUpdate
Update(p) ==
  /\ leads[p] /\ ~Paused(p) /\ Len(log[p]) < MaxLog
  /\ log' = [log EXCEPT ![p] = Append(@, Entry(term[p], None))]
  /\ UNCHANGED <<memory, term, disk, history>>

-----------------------------------------------------------------------------
(* A leader writes a configuration. *)

\* _updateConfig, and the writing begins.
BeginConfig(p, c) ==
  /\ config' = [config EXCEPT ![p] = c]
  /\ index' = [index EXCEPT ![p] = 0]
  /\ task' = [task EXCEPT ![p] = [step |-> "file", term |-> term[p]]]
  /\ changes' = c.id

\* configUpdateHandler
ConfigUpdate(p, S) ==
  /\ leads[p] /\ ~Paused(p) /\ changes < MaxChanges /\ Len(log[p]) < MaxLog
  /\ ~IsTransitional(config[p]) /\ S # config[p].old
  /\ BeginConfig(p, Joined(config[p], S, changes + 1))
  /\ UNCHANGED <<up, leads, term, log, commit, disk, restarts>>

\* The state file has the configuration, and no index.
ConfigStored(p) ==
  /\ Paused(p) /\ task[p].step = "file"
  /\ disk' = [disk EXCEPT ![p] = [config |-> config[p], index |-> 0]]
  /\ task' = [task EXCEPT ![p].step = "log"]
  /\ UNCHANGED <<up, leads, commit, config, index, term, log, history>>

\* appendConfig.  The index goes to the state file, unless the peer stops first;
\* only a restart tells the difference.
ConfigAppended(p) ==
  /\ Paused(p) /\ task[p].step = "log"
  /\ log' = [log EXCEPT ![p] = Append(@, Entry(task[p].term, config[p]))]
  /\ index' = [index EXCEPT ![p] = Len(log'[p])]
  /\ \/ disk' = [disk EXCEPT ![p].index = index'[p]]
     \/ restarts < MaxRestarts /\ UNCHANGED disk
  /\ task' = [task EXCEPT ![p] = None]
  /\ UNCHANGED <<up, leads, commit, config, term, history>>

Has(q, p, i) == term[q] = term[p] /\ Len(log[q]) >= i /\ log[q][i] = log[p][i]

\* onAppendEntriesResponse: a leader that has left the cluster steps down; a
\* joint configuration that is committed is followed by the new one.
Commit(p, i) ==
  /\ leads[p] /\ i \in commit[p] + 1 .. Len(log[p]) /\ log[p][i].term = term[p]
  /\ MajorityHas(config[p], {q \in Members(config[p]) : q = p \/ Has(q, p, i)})
  /\ commit' = [commit EXCEPT ![p] = i]
  /\ leads' = [leads EXCEPT ![p] = Knows(p, p)]
  /\ IF Knows(p, p) /\ IsTransitional(config[p]) /\ index[p] \in 1..i
       THEN Len(log[p]) < MaxLog /\ BeginConfig(p, NewOnly(config[p], changes + 1))
       ELSE UNCHANGED <<config, index, task, changes>>
  /\ UNCHANGED <<up, term, log, disk, restarts>>

-----------------------------------------------------------------------------
(* appendEntryHandler *)

Agree(p, q) == {i \in 1..Min({Len(log[p]), Len(log[q])}) : log[p][i] = log[q][i]}
Prev(p, q) == Max({0} \union Agree(p, q))

\* lastConfigOffsetOf
ConfigsAfter(l, i) == {j \in i + 1 .. Len(l) : l[j].config # None}

\* fault: the offset in the request is taken for the index in the log
NewIndexF(p, q) ==
  LET new == ConfigsAfter(log[p], Prev(p, q)) IN
  IF new = {} \/ (index[q] # 0 /\ Max(new) <= index[q]) THEN 0 ELSE Max(new) - Prev(p, q)
\* The index of the configuration to be used from now on, or 0
NewIndex(p, q) ==
  LET new == ConfigsAfter(log[p], Prev(p, q)) IN
  IF new = {} \/ (index[q] # 0 /\ Max(new) <= index[q]) THEN 0 ELSE Max(new)

Hears(q, p) ==
  /\ leads[p] /\ q # p /\ Knows(p, q) /\ Knows(q, p)
  /\ up[q] /\ ~Paused(q) /\ term[q] <= term[p]
  /\ Prev(p, q) >= commit[q]
  /\ LosesConfig \/ ConfigsAfter(log[q], Prev(p, q)) = {}
  /\ term' = [term EXCEPT ![q] = term[p]]
  /\ leads' = [leads EXCEPT ![q] = FALSE]

\* What q has in its log when it has taken a request of p, with what p had
\* committed: the rest of a log is cut off, even when there are no entries to add.
Entries(p) ==
  [step |-> "entries", log |-> log[p], commit |-> Min({commit[p], Len(log[p])})]

Appended(q, t) ==
  /\ log' = [log EXCEPT ![q] = t.log]
  /\ commit' = [commit EXCEPT ![q] = Max({@, t.commit})]

\* Without a new configuration
AppendEntries(p, q) ==
  /\ Hears(q, p) /\ NewIndex(p, q) = 0
  /\ Appended(q, Entries(p))
  /\ UNCHANGED <<up, config, index, disk, task, history>>

\* With one, which is written to the state file first
AppendConfigEntries(p, q) ==
  /\ Hears(q, p)
  /\ LET i == NewIndex(p, q)
         j == Max({0} \union ConfigsAfter(log[p], Prev(p, q)))
     IN /\ i # 0
        /\ config' = [config EXCEPT ![q] = log[p][j].config]
        /\ index' = [index EXCEPT ![q] = i]
        /\ disk' = [disk EXCEPT ![q] = [config |-> log[p][j].config, index |-> i]]
  /\ task' = [task EXCEPT ![q] = Entries(p)]
  /\ UNCHANGED <<up, log, commit, history>>

EntriesAppended(q) ==
  /\ Paused(q) /\ task[q].step = "entries"
  /\ Appended(q, task[q])
  /\ task' = [task EXCEPT ![q] = None]
  /\ UNCHANGED <<up, leads, config, index, term, disk, history>>

-----------------------------------------------------------------------------
(* A peer starts again: the builder looks for an entry whose index was not  *)
(* stored; the peer does not start if there is none, or none at the index   *)
(* that was.                                                               *)

Logged(p) == {i \in 1..Len(log[p]) : log[p][i].config = disk[p].config}
Found(p) ==
  IF disk[p].index = 0 /\ disk[p].config.id # 0 /\ Logged(p) # {} THEN Max(Logged(p))
  ELSE disk[p].index

Restart(p) ==
  /\ up[p] /\ restarts < MaxRestarts /\ restarts' = restarts + 1
  /\ LosesConfig \/ ~(Paused(p) /\ task[p].step = "entries")
  /\ up' = [up EXCEPT ![p] = (Found(p) = 0 => disk[p].config.id = 0) /\ Found(p) <= Len(log[p])]
  /\ config' = [config EXCEPT ![p] = disk[p].config]
  /\ index' = [index EXCEPT ![p] = Found(p)]
  /\ disk' = [disk EXCEPT ![p].index = Found(p)]
  /\ leads' = [leads EXCEPT ![p] = FALSE]
  /\ task' = [task EXCEPT ![p] = None]
  /\ UNCHANGED <<term, log, commit, changes>>

-----------------------------------------------------------------------------

First == [old |-> Old, new |-> {}, id |-> 0]

Init ==
  /\ up = [p \in Peer |-> TRUE] /\ leads = [p \in Peer |-> FALSE]
  /\ term = [p \in Peer |-> 0]
  /\ log = [p \in Peer |-> <<>>] /\ commit = [p \in Peer |-> 0]
  /\ config = [p \in Peer |-> First] /\ index = [p \in Peer |-> 0]
  /\ disk = [p \in Peer |-> [config |-> First, index |-> 0]]
  /\ task = [p \in Peer |-> None]
  /\ changes = 0 /\ restarts = 0

Next ==
  \E p \in Peer :
    \/ \E Q \in SUBSET Peer : Elect(p, Q)
    \/ Update(p) \/ \E S \in Targets : ConfigUpdate(p, S)
    \/ ConfigStored(p) \/ ConfigAppended(p)
    \/ \E i \in 1..Len(log[p]) : Commit(p, i)
    \/ \E q \in Peer : StepDown(p, q) \/ AppendEntries(p, q) \/ AppendConfigEntries(p, q)
    \/ EntriesAppended(p) \/ Restart(p)

Spec == Init /\ [][Next]_vars

-----------------------------------------------------------------------------

\* A term has one leader, whatever configurations the voters used.
ElectionSafety ==
  \A p, q \in Peer : leads[p] /\ leads[q] /\ term[p] = term[q] => p = q

\* Peers that have committed an entry have the same one.
StateMachineSafety ==
  \A p, q \in Peer : \A i \in 1..Min({commit[p], commit[q]}) : log[p][i] = log[q][i]

\* "`peersIndex` - a LOG INDEX of the RAFT log CONFIGURATION entry containing
\* the current cluster peer membership state" (raft_persistence.js:35), in
\* memory, while no configuration is being written.
ConfigIsLogged ==
  \A p \in Peer : up[p] /\ index[p] # 0 /\ ~Paused(p) =>
    index[p] <= Len(log[p]) /\ log[p][index[p]].config = config[p]
=============================================================================
