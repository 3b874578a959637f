--------------------------- MODULE SnapshotStream ---------------------------
(***************************************************************************)
(* A client reads the snapshot of a peer (RequestEntries): raft_server.js  *)
(* streams it in chunks, a few ahead of the confirmations, under a shared  *)
(* lock of the snapshot; filelog.js installs newer snapshots under its     *)
(* exclusive lock; peer_client.js checks the order and, through            *)
(* zmq_raft_client.js, goes on after a timeout with a new request.         *)
(*                                                                         *)
(* Snapshot s includes the log up to index s.  A chunk is one unit long.   *)
(* The locks behave as FairLock does.  Chunks of entries that follow the   *)
(* snapshot are one last empty reply.                                      *)
(***************************************************************************)
EXTENDS Integers, Sequences, FiniteSets

CONSTANTS
  Size,          \* Size[s]: the dataSize of snapshot s
  Pipelines,     \* requestEntriesSnapshotPipelines
  HighWatermark, \* requestEntriesHighWatermak
  Queued,        \* TRUE: a request may be read while another one with its key
                 \* waits for the lock
  None,
  MaxAttempts,   \* bounds of the client's requests,
  MaxLosses,     \* of lost messages
  MaxStepDowns   \* and of terms that end

ASSUME SizeAssumption == Size \in Seq(Nat) /\ Size # <<>>
ASSUME WindowAssumption == {Pipelines, HighWatermark} \subseteq Nat /\ Queued \in BOOLEAN
ASSUME BoundAssumption == MaxAttempts \in Nat \ {0} /\ {MaxLosses, MaxStepDowns} \subseteq Nat

Snapshot == 1..Len(Size)
Key == 1..MaxAttempts
MaxTransfers == MaxAttempts * (1 + Size[1] + Size[Len(Size)])

VARIABLES
  leader,     \* this.state is FSM_LEADER
  current,    \* log.snapshot; an earlier one is closed
  install,    \* what installSnapshot is at
  locks,      \* locks[s]: the shared calls over snapshot s whose promises are
              \* pending, apart from those that wait for the installation
  transfers,  \* what sendSnapshot keeps for each call, numbered
  entries,    \* entries[k]: the transfer in entriesRequests for key k, or 0
  requests,   \* what the client has sent, in order
  replies,    \* what the peer has sent, in order
  client,     \* the request that the client waits for
  received,   \* the chunks given to the receiver since the last whole snapshot
  losses, stepDowns,
  late        \* history: an entry expired while a confirmation or a chunk was due

server == <<leader, current, install, locks, transfers, entries>>
bounds == <<losses, stepDowns, late>>
vars == <<server, requests, replies, client, received, bounds>>

Request(k, prev, offset, stop) == [key |-> k, prev |-> prev, offset |-> offset, stop |-> stop]

\* A leader that has been sent these requests, and a client in that phase
InitWith(sent, phase) ==
  /\ leader = TRUE
  /\ current = 1
  /\ install = "idle"
  /\ locks = [s \in Snapshot |-> [shared |-> {}, waiting |-> {}]]
  /\ transfers = <<>>
  /\ entries = [k \in Key |-> 0]
  /\ requests = sent
  /\ replies = <<>>
  /\ client = [key |-> 1, prev |-> 0, offset |-> None, byte |-> 0, phase |-> phase]
  /\ received = <<>>
  /\ losses = 0 /\ stepDowns = 0 /\ late = FALSE

Init == InitWith(<<Request(1, 0, None, FALSE)>>, "waiting")
-----------------------------------------------------------------------------
(* The transfers of the peer.  Its queue of chunks is those read and not     *)
(* yet confirmed; the ones up to sent were sent.                             *)

NotLeaderReply(k) == [key |-> k, status |-> "not leader", index |-> 0, from |-> 0, length |-> 0, size |-> 0]
LastReply(k) == [NotLeaderReply(k) EXCEPT !.status = "last"]
ChunkReply(t, from, length) ==
  [key |-> t.key, status |-> "snapshot", index |-> t.snap, from |-> from, length |-> length,
   size |-> Size[t.snap]]

Smaller(x, y) == IF x < y THEN x ELSE y

\* pipe(): sends what the window allows ...
Piped(t) == [t EXCEPT !.sent = Smaller(t.read, t.confirmed + Pipelines)]
Chunks(t) == [n \in 1..(Piped(t).sent - t.sent) |-> ChunkReply(t, t.sent + n - 1, 1)]

\* ... and ends the request when no confirmation but the last one is due.
Finished(t) == t.sent = Size[t.snap] /\ t.read - t.confirmed <= 1

\* The installation has asked for the exclusive lock of s.
Exclusive(s) ==
  \/ install = "waiting" /\ s = current
  \/ install = "replacing" /\ s = current - 1

\* The locks when i calls lockShared
Locked(q, s, i) ==
  IF Exclusive(s) THEN [q EXCEPT ![s].waiting = @ \union {i}]
                  ELSE [q EXCEPT ![s].shared = @ \union {i}]

\* ... and when the calls of a set end, over whatever snapshots they waited for
Without(q, ended) ==
  [s \in Snapshot |-> [shared |-> q[s].shared \ ended, waiting |-> q[s].waiting \ ended]]
Unlocked(q, i) == Without(q, {i})

\* Transfer i becomes t, which has new chunks or confirmations: pipe().
Pipe(i, t, unlock) ==
  LET p == Piped(t)
      closed == Finished(p)
  IN  /\ transfers' = [transfers EXCEPT ![i] = IF closed THEN [p EXCEPT !.stream = "closed"] ELSE p]
      /\ replies' = replies \o Chunks(t)
      /\ entries' = IF closed THEN [entries EXCEPT ![t.key] = 0] ELSE entries
      /\ locks' = IF closed \/ unlock THEN Unlocked(locks, i) ELSE locks

\* fault: the stream that was paused is not resumed
ResumeF(t) ==
  IF t.stream = "flowing" /\ t.read > Piped(t).sent THEN [t EXCEPT !.stream = "paused"] ELSE t

\* Pushes the stream back while a chunk waits, pulls it again when none does.
Flow(t) ==
  IF t.stream = "closed" THEN t
  ELSE [t EXCEPT !.stream = IF t.read > Piped(t).sent THEN "paused" ELSE "flowing"]

\* ondata(): the stream has read a chunk.
Data(i) ==
  LET t == transfers[i]
  IN  /\ t.stream = "flowing" /\ t.read < Size[t.snap]
      /\ Pipe(i, Flow([t EXCEPT !.read = @ + 1]), FALSE)
      /\ UNCHANGED <<leader, current, install, requests, client, received, bounds>>

\* onend()
End(i) ==
  LET t == transfers[i]
  IN  /\ t.stream = "flowing" /\ t.read = Size[t.snap]
      /\ Pipe(i, [t EXCEPT !.stream = "closed"], TRUE)
      /\ UNCHANGED <<leader, current, install, requests, client, received, bounds>>

\* fault: the lock is kept until the stream has ended
CancelledF(i) ==
  [transfers |-> [transfers EXCEPT ![i].stream = "closed"],
   entries   |-> [entries EXCEPT ![transfers[i].key] = 0],
   locks     |-> locks]

\* cancel(): whatever the key of i leads to is forgotten.
Cancelled(i) ==
  [transfers |-> [transfers EXCEPT ![i].stream = "closed"],
   entries   |-> [entries EXCEPT ![transfers[i].key] = 0],
   locks     |-> Unlocked(locks, i)]

\* ensureRequestEntriesTimeout: an entry that was not refreshed in time
Expire(k) ==
  /\ entries[k] # 0
  /\ LET t == transfers[entries[k]]
         c == Cancelled(entries[k])
     IN  /\ late' = (late \/ t.sent > t.confirmed \/ t.stream = "flowing")
         /\ transfers' = c.transfers /\ entries' = c.entries /\ locks' = c.locks
  /\ UNCHANGED <<leader, current, install, requests, replies, client, received, losses, stepDowns>>

\* lockAndSendSnapshot() for a request without an entry, from state c
LockSnapshot(m, c) ==
  /\ transfers' = Append(c.transfers,
       [key |-> m.key, snap |-> current, offset |-> m.offset, confirmed |-> 0, sent |-> 0,
        read |-> 0, stream |-> "waiting"])
  /\ locks' = Locked(c.locks, current, Len(transfers) + 1)
  /\ entries' = c.entries
  /\ UNCHANGED replies

\* requestEntriesHandler past its entry: the request is a new one
NewTransfer(m, c) ==
  \/ /\ \/ m.stop
        \/ Cardinality({k \in Key : c.entries[k] # 0}) > HighWatermark
     /\ transfers' = c.transfers /\ entries' = c.entries /\ locks' = c.locks
     /\ UNCHANGED replies
  \/ /\ ~m.stop /\ Cardinality({k \in Key : c.entries[k] # 0}) <= HighWatermark
     /\ IF m.prev < current
        THEN LockSnapshot(m, c)
        ELSE /\ transfers' = c.transfers /\ entries' = c.entries /\ locks' = c.locks
             /\ replies' = Append(replies, LastReply(m.key))

Confirms(t, m) ==
  /\ t.read > t.confirmed /\ m.prev < t.snap
  /\ m.offset # None => m.offset = t.confirmed + 1

\* requestEntriesHandler
HandleRequest ==
  LET m == Head(requests)
      i == entries[m.key]
      Waiting == \E j \in 1..Len(transfers) : transfers[j].key = m.key /\ transfers[j].stream = "waiting"
  IN  /\ requests # <<>>
      /\ Queued \/ ~Waiting
      /\ requests' = Tail(requests)
      /\ CASE ~leader -> /\ replies' = Append(replies, NotLeaderReply(m.key))
                         /\ UNCHANGED <<transfers, entries, locks>>
           [] leader /\ i = 0 ->
                NewTransfer(m, [transfers |-> transfers, entries |-> entries, locks |-> locks])
           [] leader /\ i # 0 /\ m.stop ->
                LET c == Cancelled(i)
                IN  /\ transfers' = c.transfers /\ entries' = c.entries /\ locks' = c.locks
                    /\ UNCHANGED replies
           [] leader /\ i # 0 /\ ~m.stop /\ ~Confirms(transfers[i], m) ->
                NewTransfer(m, Cancelled(i))
           [] leader /\ i # 0 /\ ~m.stop /\ Confirms(transfers[i], m) ->
                Pipe(i, Flow([transfers[i] EXCEPT !.confirmed = @ + 1]), FALSE)
      /\ UNCHANGED <<leader, current, install, client, received, bounds>>

\* fault: the snapshot that was locked is read although it was replaced meanwhile
ReplacedF(s) == FALSE

Replaced(s) == s # current   \* snapshot.isClosed

\* The callback of lockShared in lockAndSendSnapshot, and sendSnapshot
SendSnapshot(i) ==
  LET t == transfers[i]
      s == t.snap
      offset == IF t.offset = None THEN 0 ELSE t.offset
      Close == transfers' = [transfers EXCEPT ![i].stream = "closed"]
  IN  /\ t.stream = "waiting"
      /\ i \in locks[s].shared
      /\ CASE ~leader -> /\ replies' = Append(replies, NotLeaderReply(t.key))
                         /\ Close /\ locks' = Unlocked(locks, i)
                         /\ UNCHANGED entries
           [] leader /\ Replaced(s) ->
                /\ transfers' = [transfers EXCEPT ![i].snap = current]
                /\ locks' = Locked(locks, current, i)
                /\ UNCHANGED <<replies, entries>>
           [] leader /\ ~Replaced(s) /\ offset > Size[s] ->
                /\ replies' = Append(replies, ChunkReply(t, Size[s], 0))
                /\ Close /\ UNCHANGED <<locks, entries>>   \* unlockSnapshot is not called
           [] leader /\ ~Replaced(s) /\ offset <= Size[s] ->
                /\ transfers' = [transfers EXCEPT ![i] =
                     [@ EXCEPT !.confirmed = offset, !.sent = offset, !.read = offset,
                               !.stream = "flowing"]]
                /\ entries' = [entries EXCEPT ![t.key] = i]
                /\ UNCHANGED <<locks, replies>>
      /\ UNCHANGED <<leader, current, install, requests, client, received, bounds>>

\* _clearClientRequests
StepDown ==
  /\ leader /\ stepDowns < MaxStepDowns /\ stepDowns' = stepDowns + 1
  /\ leader' = FALSE
  /\ LET known == {i \in 1..Len(transfers) : entries[transfers[i].key] = i}
     IN  /\ transfers' = [i \in 1..Len(transfers) |->
              IF i \in known THEN [transfers[i] EXCEPT !.stream = "closed"] ELSE transfers[i]]
         /\ locks' = Without(locks, known)
  /\ entries' = [k \in Key |-> 0]
  /\ UNCHANGED <<current, install, requests, replies, client, received, losses, late>>

BecomeLeader ==
  /\ ~leader /\ leader' = TRUE
  /\ UNCHANGED <<current, install, locks, transfers, entries, requests, replies, client, received, bounds>>
-----------------------------------------------------------------------------
(* installSnapshot, which holds the log's own queue all along                *)

RequestInstall ==
  /\ install = "idle" /\ current < Len(Size)
  /\ install' = "waiting"
  /\ UNCHANGED <<leader, current, locks, transfers, entries, requests, replies, client, received, bounds>>

BeginInstall ==
  /\ install = "waiting" /\ locks[current].shared = {}
  /\ install' = "replacing"
  /\ current' = current + 1
  /\ UNCHANGED <<leader, locks, transfers, entries, requests, replies, client, received, bounds>>

EndInstall ==
  /\ install = "replacing"
  /\ install' = "idle"
  /\ locks' = [locks EXCEPT ![current - 1] = [shared |-> @.shared \union @.waiting, waiting |-> {}]]
  /\ UNCHANGED <<leader, current, transfers, entries, requests, replies, client, received, bounds>>
-----------------------------------------------------------------------------
(* The client                                                                *)

\* A new request, with the requestEntriesState of the one that ended
Attempt(c) ==
  /\ c.key < MaxAttempts
  /\ client' = [c EXCEPT !.key = @ + 1, !.phase = "waiting",
                         !.byte = IF c.offset = None THEN 0 ELSE c.offset]
  /\ requests' = Append(requests, Request(c.key + 1, c.prev, c.offset, FALSE))

Timeout ==
  /\ client.phase = "waiting" /\ Attempt(client)
  /\ UNCHANGED <<server, replies, received, bounds>>

\* The receiver returned false and the client asks for more later.
Continue ==
  /\ client.phase = "paused" /\ Attempt(client)
  /\ UNCHANGED <<server, replies, received, bounds>>

\* fault: the state of the request has the offset of the last chunk
AfterChunkF(m) ==
  LET byte == m.from + m.length
  IN  IF byte = m.size THEN [client EXCEPT !.byte = byte, !.prev = m.index, !.offset = None]
                       ELSE [client EXCEPT !.byte = byte, !.offset = m.from]
\* The state of the request once the chunk was taken
AfterChunk(m) ==
  LET byte == m.from + m.length
  IN  IF byte = m.size THEN [client EXCEPT !.byte = byte, !.prev = m.index, !.offset = None]
                       ELSE [client EXCEPT !.byte = byte, !.offset = byte]

InOrder(m) == client.byte = m.from

\* What the receiver is called with
Given(m) == [snap |-> m.index, from |-> m.from]

\* onresponse with a snapshot chunk.  The receiver may ask to stop.
ReceiveChunk(m) ==
  LET c == AfterChunk(m)
  IN  \/ /\ ~InOrder(m)
         /\ client' = [client EXCEPT !.phase = "failed"]
         /\ UNCHANGED <<requests, received>>
      \/ /\ InOrder(m)
         /\ received' = Append(IF client.offset = None THEN <<>> ELSE received, Given(m))
         /\ \E stop \in BOOLEAN :
              /\ requests' = Append(requests, Request(c.key, c.prev, c.offset, stop))
              /\ client' = [c EXCEPT !.phase = IF stop THEN "paused" ELSE @]

Receive ==
  LET m == Head(replies)
  IN  /\ replies # <<>> /\ replies' = Tail(replies)
      /\ IF m.key # client.key \/ client.phase # "waiting"
         THEN UNCHANGED <<client, requests, received>>
         ELSE CASE m.status = "snapshot" -> ReceiveChunk(m)
                [] m.status = "last" -> /\ client' = [client EXCEPT !.phase = "done"]
                                        /\ UNCHANGED <<requests, received>>
                [] m.status = "not leader" -> /\ client' = [client EXCEPT !.phase = "paused"]
                                              /\ UNCHANGED <<requests, received>>
      /\ UNCHANGED <<server, bounds>>

LoseMessage ==
  /\ losses < MaxLosses /\ losses' = losses + 1
  /\ \/ requests # <<>> /\ requests' = Tail(requests) /\ UNCHANGED replies
     \/ replies # <<>> /\ replies' = Tail(replies) /\ UNCHANGED requests
  /\ UNCHANGED <<server, client, received, stepDowns, late>>
-----------------------------------------------------------------------------
Next ==
  \/ \E i \in 1..Len(transfers) : Data(i) \/ End(i) \/ SendSnapshot(i)
  \/ \E k \in Key : Expire(k)
  \/ HandleRequest \/ StepDown \/ BecomeLeader
  \/ RequestInstall \/ BeginInstall \/ EndInstall
  \/ Timeout \/ Continue \/ Receive \/ LoseMessage

\* The peer's event loop runs, streams are read, its timer cleans up, and
\* messages that are not lost arrive.
Fairness ==
  /\ \A i \in 1..MaxTransfers : WF_vars(i <= Len(transfers) /\ (Data(i) \/ End(i) \/ SendSnapshot(i)))
  /\ \A k \in Key : WF_vars(Expire(k))
  /\ WF_vars(HandleRequest) /\ WF_vars(BeginInstall) /\ WF_vars(EndInstall) /\ WF_vars(Receive)
-----------------------------------------------------------------------------
Holds(i) == i \in locks[transfers[i].snap].shared

\* No stream reads a snapshot file that was closed, in whatever order requests,
\* installations, the loss of the lock's callers and of the leadership come
\* (raft_server.js:394-411, filelog.js:748-757).
OpenWhileRead ==
  \A i \in 1..Len(transfers) :
    transfers[i].stream \in {"flowing", "paused"} => transfers[i].snap = current /\ Holds(i)

\* A transfer that keeps the lock of the snapshot is known to the timer and to a
\* leader that steps down, which release it (raft_server.js:503-512, 530-549).
CleanedUp ==
  \A i \in 1..Len(transfers) :
    Holds(i) /\ transfers[i].stream # "waiting" => entries[transfers[i].key] = i

\* Every transfer ends and gives the snapshot back, whatever becomes of the client
\* (PROTO.md:501: "Without it, the pipeline is being cleaned up after
\* REQUEST_ENTRIES_TTL").
PipelineCleanedUp ==
  \A i \in 1..MaxTransfers :
    (i <= Len(transfers) /\ Holds(i)) ~> ~(i <= Len(transfers) /\ Holds(i))

\* Reading clients do not keep a snapshot from being installed, and the log from
\* being written (filelog.js:748 waits for them inside the log's own queue).
InstallProceeds == install = "waiting" ~> install = "idle"

\* Unless the snapshot is replaced, what the receiver was given is its beginning
\* in order, although it came in pieces from several transfers and requests
\* (zmq_raft_peer_client.js:399-404: the state of a request that failed "can be
\* used for the request continuation"; the check at 474-476).
Assembled ==
  current = 1 => \A n \in 1..Len(received) : received[n] = [snap |-> 1, from |-> n - 1]

\* A client that waits is answered, unless something was lost or expired or the
\* leader changed, from whatever offset it asks for
\* (zmq_raft_peer_client.js:428-429: "a hint for the server to start responding
\* with snapshot chunks starting from this byte offset").
ReadAnswered ==
  client.phase = "waiting" ~> client.phase # "waiting" \/ late \/ losses > 0 \/ stepDowns > 0
=============================================================================
