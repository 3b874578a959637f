-------------------------- MODULE SnapshotInstall --------------------------
(***************************************************************************)
(* A leader whose log begins after what a follower has sends it its        *)
(* snapshot (InstallSnapshot), one chunk after the other, each under a     *)
(* shared lock.  The follower writes the chunks to a temporary file, says  *)
(* where to go on if one is missing, and installs the snapshot in its log. *)
(*                                                                         *)
(* The leader, its snapshots and their locks are those of SnapshotStream:  *)
(* here its reader is the follower.  What AppendEntries does is one step,  *)
(* and so is an election; what a follower writes is written before it      *)
(* hears more, since its router is paused.                                 *)
(***************************************************************************)
EXTENDS SnapshotStream

CONSTANT SlowRead   \* a read may last from one leadership to the next

ASSUME ReadAssumption == SlowRead \in BOOLEAN

VARIABLES
  sending,   \* sending[t]: what the call of sendInstallSnapshot in term t is at
  next, match, \* nextIndex and matchIndex of the follower
  rpc,       \* the pending request to the follower
  buffer,    \* _followerBuffers
  wire,      \* copies of requests on their way
  answer,    \* the reply on its way, over the connection in use
  log,       \* of the follower, with the data of its snapshot
  known,     \* the follower's term
  tmp        \* _tmpSnapshot, _tmpSnapshotBytesWritten

link == <<rpc, wire, answer>>
peer == <<sending, next, match, link, buffer, log, known, tmp>>
allvars == <<vars, peer>>

Term == 1..MaxStepDowns + 1
CurrentTerm == stepDowns + 1
Leads(t) == leader /\ t = CurrentTerm

LastIndex == Len(Size) + 1   \* of the leader
FirstIndex == current + 1

Chunk(s, at) == <<s, at>>
Whole(s) == IF s = 0 THEN <<>> ELSE [n \in 1..Size[s] |-> Chunk(s, n - 1)]

\* What there is, where None says that there is none
Contents == Snapshot \X Nat
Reading == [snap: Snapshot, at: Nat, step: {"lock", "read"}]
Message == [term: Term, snap: Snapshot, at: Nat, is: Contents, live: BOOLEAN]
Reply == [reposition: Nat \union {None}]
Temporary == [snap: Snapshot, written: Nat, data: Seq(Contents \union {None})]

ASSUME NoneAssumption ==
  /\ None \notin Nat /\ None \notin Contents /\ None \notin Reading
  /\ None \notin Message /\ None \notin Reply /\ None \notin Temporary

-----------------------------------------------------------------------------
(* sendInstallSnapshot                                                     *)

\* In the locks the calls are known by their terms.
Caller(t) == -t

Send(t, s, at) ==
  /\ sending' = [sending EXCEPT ![t] = [snap |-> s, at |-> Smaller(at, Size[s]), step |-> "lock"]]
  /\ locks' = Locked(Unlocked(locks, Caller(t)), s, Caller(t))

Holder(t) == sending[t] # None /\ Caller(t) \in locks[sending[t].snap].shared

Ends(t) == sending' = [sending EXCEPT ![t] = None] /\ locks' = Unlocked(locks, Caller(t))

\* The callback of lockShared: the snapshot is open, or it was replaced.
BeginRead(t) ==
  /\ Holder(t) /\ sending[t].step = "lock"
  /\ IF ~Replaced(sending[t].snap)
       THEN sending' = [sending EXCEPT ![t].step = "read"] /\ UNCHANGED locks
       ELSE IF Leads(t) THEN Send(t, current, 0) ELSE Ends(t)
  /\ UNCHANGED <<leader, current, install, next, match, link, buffer, log, known, tmp>>

\* The chunk is in the buffer, and in a request if the peer still leads.
EndRead(t) ==
  /\ sending[t] # None /\ sending[t].step = "read"
  /\ Ends(t)
  /\ LET s == sending[t].snap
         at == sending[t].at
         m == [term |-> t, snap |-> s, at |-> at, is |-> Chunk(s, at), live |-> TRUE]
     IN /\ buffer' = Chunk(s, at)
        /\ IF Leads(t)
             THEN rpc' = m /\ wire' = wire \union {m}
             ELSE UNCHANGED <<rpc, wire>>
  /\ UNCHANGED <<leader, current, install, next, match, answer, log, known, tmp>>

\* fault: the position that the follower asks for is not looked at
PositionF(m, reposition) == m.at + 1

\* The next chunk, unless the follower asks for another one
Position(m, reposition) == IF reposition = None THEN m.at + 1 ELSE reposition

Done(m) == m.at + 1 >= Size[m.snap]

\* fault: any reply to the last chunk counts for the snapshot
CompleteF(m, reposition) == Done(m)

\* The follower has the whole snapshot.
Complete(m, reposition) == Done(m) /\ reposition = None

Received ==
  /\ answer # None
  /\ rpc' = None /\ answer' = None
  /\ IF Complete(rpc, answer.reposition)
       THEN /\ match' = rpc.snap
            /\ next' = rpc.snap + 1
            /\ UNCHANGED <<sending, locks>>
       ELSE /\ Send(CurrentTerm, rpc.snap, Position(rpc, answer.reposition))
            /\ UNCHANGED <<next, match>>
  /\ UNCHANGED <<leader, current, install, wire, buffer, log, known, tmp>>

-----------------------------------------------------------------------------
(* sendAppendEntries and its response                                      *)

Idle == leader /\ rpc = None /\ sending[CurrentTerm] = None

SendSnapshotTo ==
  /\ Idle /\ next < FirstIndex
  /\ Send(CurrentTerm, current, 0)
  /\ UNCHANGED <<leader, current, install, next, match, link, buffer, log, known, tmp>>

\* The entries of the follower up to log.same are those of the leader.
Conflict == IF log.last < next - 1 THEN log.last + 1 ELSE next - 1
AppendEntries ==
  /\ Idle /\ next >= FirstIndex /\ match # LastIndex
  /\ known' = CurrentTerm
  /\ IF next - 1 <= log.same
       THEN /\ log' = [log EXCEPT !.last = LastIndex, !.same = LastIndex, !.commit = LastIndex]
            /\ match' = LastIndex
            /\ next' = LastIndex + 1
       ELSE /\ next' = IF Conflict < FirstIndex THEN FirstIndex - 1 ELSE Conflict
            /\ UNCHANGED <<log, match>>
  /\ UNCHANGED <<leader, current, install, locks, sending, link, buffer, tmp>>

-----------------------------------------------------------------------------
(* installSnapshotHandler                                                  *)

NewTmp(s) == [snap |-> s, written |-> 0, data |-> [n \in 1..Size[s] |-> None]]
TmpFor(m) == IF tmp = None \/ tmp.snap # m.snap THEN NewTmp(m.snap) ELSE tmp

\* fault: chunks are written wherever they belong
ExpectedF(m, t) == TRUE
Expected(m, t) == t.written = m.at

\* log.installSnapshot: what follows the snapshot is kept if the log has its
\* last entry.
Installed(s, data) ==
  IF s >= log.snap /\ s <= log.same
    THEN [log EXCEPT !.snap = s, !.data = data]
    ELSE [log EXCEPT !.snap = s, !.data = data, !.last = s, !.same = s]

Replies(m, reposition) ==
  answer' = IF m.live THEN [reposition |-> reposition] ELSE answer

Write(m, t) ==
  LET data == [t.data EXCEPT ![m.at + 1] = m.is]
  IN IF Done(m)
       THEN tmp' = None /\ log' = Installed(m.snap, data)
       ELSE tmp' = [t EXCEPT !.data = data, !.written = m.at + 1] /\ UNCHANGED log

Handle(m) ==
  /\ wire' = wire \ {m}
  /\ known' = IF m.term < known THEN known ELSE m.term
  /\ IF m.term < known THEN Replies(m, None) /\ UNCHANGED <<tmp, log>>
     ELSE IF ~Expected(m, TmpFor(m))
       THEN /\ tmp' = TmpFor(m)
            /\ Replies(m, TmpFor(m).written)
            /\ UNCHANGED log
     ELSE Write(m, TmpFor(m)) /\ Replies(m, None)
  /\ UNCHANGED <<server, sending, next, match, rpc, buffer>>

-----------------------------------------------------------------------------
(* What goes wrong                                                         *)

\* What was sent over a connection that is closed may still arrive.
Old(copies) == SUBSET {[m EXCEPT !.live = FALSE] : m \in copies}

\* _cancelPendingRpcs
StepDownPeer ==
  /\ StepDown
  /\ rpc' = None /\ answer' = None
  /\ wire' \in Old(wire)
  /\ UNCHANGED <<sending, next, match, buffer, log, known, tmp>>

\* becomeLeader, in the next term
BecomeLeaderPeer ==
  /\ BecomeLeader
  /\ SlowRead \/ ~\E t \in Term : Holder(t)
  /\ next' = LastIndex + 1 /\ match' = 0
  /\ UNCHANGED <<sending, link, buffer, log, known, tmp>>

\* The request is sent again, from the buffer it was read into, over a new
\* connection.  The follower may have been restarted.
Reconnect ==
  /\ rpc # None /\ losses < MaxLosses /\ losses' = losses + 1
  /\ \E restart \in BOOLEAN, old \in Old(wire) :
       /\ tmp' = IF restart THEN None ELSE tmp
       /\ restart => old = {}
       /\ wire' = old \union {[rpc EXCEPT !.is = buffer]}
  /\ answer' = None
  /\ UNCHANGED <<server, stepDowns, late, sending, next, match, rpc, buffer, log, known>>

\* The follower's own log is compacted.
Compact(s) ==
  /\ s \in log.snap + 1 .. log.commit
  /\ log' = [log EXCEPT !.snap = s, !.data = Whole(s)]
  /\ UNCHANGED <<server, sending, next, match, link, buffer, known, tmp>>

-----------------------------------------------------------------------------

\* The reader of the snapshots is a client, or it is a follower, whose log is
\* empty or has entries of an earlier leader.  A client's peer has no follower here.
ByPeer == client.phase = "none"

InstallInit ==
  /\ \E byPeer \in BOOLEAN :
       IF byPeer
         THEN InitWith(<<>>, "none") ELSE Init
  /\ sending = [t \in Term |-> None]
  /\ next = LastIndex + 1 /\ match = 0
  /\ rpc = None /\ wire = {} /\ answer = None /\ buffer = None
  /\ \E last \in {0, LastIndex} :
       log = [snap |-> 0, data |-> <<>>, last |-> last, same |-> 0, commit |-> 0]
  /\ ByPeer \/ log.last = 0
  /\ known = 0 /\ tmp = None

Transfer(t) == BeginRead(t) \/ EndRead(t)
Local == RequestInstall \/ BeginInstall \/ EndInstall

PeerStep ==
  \/ /\ \/ \E t \in Term : Transfer(t)
        \/ Received \/ SendSnapshotTo \/ AppendEntries
     /\ UNCHANGED <<transfers, entries, requests, replies, client, received, bounds>>
  \/ /\ \/ \E m \in wire : Handle(m)
        \/ \E s \in Snapshot : Compact(s)
     /\ UNCHANGED <<requests, replies, client, received, bounds>>
  \/ Reconnect /\ UNCHANGED <<requests, replies, client, received>>
  \/ StepDownPeer \/ BecomeLeaderPeer
  \/ Local /\ UNCHANGED peer

InstallNext ==
  \/ ByPeer /\ PeerStep
  \/ ~ByPeer /\ Next /\ UNCHANGED peer

\* Files are read, heartbeats are due, and what is sent over a connection that
\* stays open arrives.
PeerFairness ==
  /\ \A t \in Term : WF_peer(ByPeer /\ Transfer(t))
  /\ WF_peer(ByPeer /\ Received)
  /\ WF_peer(ByPeer /\ (SendSnapshotTo \/ AppendEntries))
  /\ WF_peer(ByPeer /\ \E m \in wire : Handle(m))

InstallSpec == InstallInit /\ [][InstallNext]_allvars /\ Fairness /\ PeerFairness
-----------------------------------------------------------------------------
\* A leader reads a chunk for a follower from a snapshot that is open, although it
\* may have been replaced while the lock was waited for, and the leadership lost
\* (raft_leader.js:414-431, filelog.js:748-757).
OpenWhileSent ==
  \A t \in Term :
    sending[t] # None /\ sending[t].step = "read" =>
      sending[t].snap = current /\ Caller(t) \in locks[current].shared

\* Nobody reads a snapshot file that was closed, neither a stream for a client nor a
\* leader that fills a buffer for a follower
\* (raft_server.js:394-411, raft_leader.js:414-431, filelog.js:748-757).
SnapshotsOpen == OpenWhileRead /\ OpenWhileSent

\* The snapshot that a follower installed is the leader's, whole and in order,
\* although it was interrupted, repeated, replaced and begun anew
\* (raft_router.js:342-372, filelog.js:745-774).
InstalledIsWhole == log.data = Whole(log.snap)

\* Installing a snapshot keeps what is committed, and the leader counts no entry
\* that the follower does not have (filelog.js:749-774, raft_leader.js:456-471).
MatchedIsKept ==
  /\ log.commit <= log.same /\ log.same <= log.last
  /\ leader => match <= log.same

\* A follower that needs a snapshot catches up with a leader that stays: the
\* transfer begins anew when the snapshot is replaced, and goes on at the position
\* the follower asks for (raft_leader.js:423-428, 468-471).
FollowerCatchesUp == ByPeer ~> match = LastIndex \/ ~leader
=============================================================================
