---------------------------- MODULE Subscription ----------------------------
(***************************************************************************)
(* How log entries reach those who follow the log.  The peer that leads    *)
(* broadcasts what its state machine applies, and a heartbeat when there   *)
(* is nothing to apply.  A follower takes entries from the broadcast while *)
(* they go on from what it has; if some are missing it asks the leader for *)
(* them, and keeps what is broadcast meanwhile.  It stops listening when   *)
(* its reader does not keep up.                                            *)
(*                                                                         *)
(* There are two kinds of followers: the ZmqRaftSubscriber, which looks    *)
(* for the leader and follows it, and the ForeverEntriesStream of a        *)
(* ZmqRaftPeerSub, which ends when its peer does not lead.  The data of    *)
(* entry i are i.                                                          *)
(***************************************************************************)
EXTENDS Integers, Sequences, FiniteSets, FiniteSetsExt, SequencesExt

CONSTANTS
  Peer,
  None,
  Kind,        \* the kinds of followers: "subscriber", "forever"
  HighWater,   \* the entries a Readable stream holds before push() says stop
  SnapIndex,   \* the last entry that is in a snapshot only
  MaxLog, MaxPush, MaxQueue,        \* bounds: the log, what is applied at once,
  MaxFaults               \* messages that wait, and what goes wrong

ASSUME KindAssumption == Kind \subseteq {"subscriber", "forever"} /\ Kind # {}
ASSUME SizeAssumption == HighWater \in Nat \ {0} /\ SnapIndex \in 0..MaxLog

VARIABLES
  \* the cluster
  committed,   \* entries that are committed
  leads,       \* leads[p]: the heartbeat interval is not null
  applied,     \* lastApplied of the state machine of p
  applying,    \* how many entries p has applied and not broadcast yet
  \* the follower
  kind,
  url,         \* the peer it listens to
  queue,       \* what it has not received yet
  subs,        \* _subscriberTimeout: "new" (undefined), "on", "off" (null)
  armed,       \* the timeout is running
  asking,      \* _pendingRequestPubUrl
  last,        \* lastLogIndex of a subscriber, sentIndex of a forever stream
  ahead,       \* broadcasts that do not follow what it has
  rpc,         \* the stream of missing entries: _pendingMissing, _rlStream
  isLeader, heard,      \* of a ZmqRaftPeerSub: isLeader, lastLogIndex
  \* its Readable stream
  pushed, unread, reading, ended,
  \* bounds
  faults

cluster  == <<committed, leads, applied, applying>>
socket   == <<url, queue, subs, armed, asking>>
readable == <<pushed, unread, reading, ended>>
missing  == <<last, ahead, rpc>>
client   == <<isLeader, heard>>
vars == <<cluster, kind, socket, missing, client, readable, faults>>

-----------------------------------------------------------------------------
(* The broadcast state machine *)

Message == [last : 0..MaxLog, n : 0..MaxPush]

\* Only a socket that is subscribed is sent to; a full queue drops messages.
Listening(p) == url = p /\ (kind = "subscriber" => subs = "on")
Broadcast(p, m) ==
  queue' = IF Listening(p) /\ Len(queue) < MaxQueue THEN Append(queue, m) ELSE queue

Commit ==
  /\ committed < MaxLog /\ \E p \in Peer : leads[p]
  /\ committed' = committed + 1
  /\ UNCHANGED <<leads, applied, applying, kind, socket, missing, client, readable, faults>>

\* applyEntries, before and after the last applied index is persisted.  Bound:
\* a peer lags as far as it can until it is elected.
BeginApply(p, n) ==
  /\ leads[p] /\ applying[p] = 0 /\ applied[p] + n <= committed
  /\ applied' = [applied EXCEPT ![p] = @ + n]
  /\ applying' = [applying EXCEPT ![p] = n]
  /\ UNCHANGED <<committed, leads, kind, socket, missing, client, readable, faults>>

EndApply(p) ==
  /\ applying[p] > 0
  /\ applying' = [applying EXCEPT ![p] = 0]
  /\ IF leads[p]
       THEN Broadcast(p, [last |-> applied[p], n |-> applying[p]])
       ELSE UNCHANGED queue
  /\ UNCHANGED <<committed, leads, applied, kind, url, subs, armed, asking, missing,
                 client, readable, faults>>

\* _refreshBroadcaster.  Bound: a heartbeat is sent when none is waiting.
Heartbeat(p) ==
  /\ leads[p] /\ applying[p] = 0 /\ Listening(p)
  /\ \A j \in 1..Len(queue) : queue[j].n > 0
  /\ Len(queue) < MaxQueue
  /\ Broadcast(p, [last |-> applied[p], n |-> 0])
  /\ UNCHANGED <<cluster, kind, url, subs, armed, asking, missing, client, readable, faults>>

\* What happens without a cause is counted.
FaultUnless(cause) ==
  IF cause THEN UNCHANGED faults ELSE faults < MaxFaults /\ faults' = faults + 1

\* For a while the leader before may not know of the one that is elected.
Elected(p) ==
  /\ ~leads[p]
  /\ leads' = [leads EXCEPT ![p] = TRUE]
  /\ FaultUnless(~\E q \in Peer : leads[q])
  /\ UNCHANGED <<committed, applied, applying, kind, socket, missing, client, readable>>

Recedes(p) == \E q \in Peer \ {p} : leads[q]
StepDown(p) ==
  /\ leads[p]
  /\ leads' = [leads EXCEPT ![p] = FALSE]
  /\ FaultUnless(Recedes(p))
  /\ UNCHANGED <<committed, applied, applying, kind, socket, missing, client, readable>>

-----------------------------------------------------------------------------
(* Readable streams *)

More(n) == unread + n < HighWater

Push(entries) ==
  /\ pushed' = pushed \o entries
  /\ unread' = unread + Len(entries)
  /\ reading' = IF entries = <<>> THEN reading ELSE FALSE
Stopped(entries) == entries # <<>> /\ ~More(Len(entries))

Upto(i, j) == [k \in 1..j - i + 1 |-> i + k - 1]

\* The reader takes an entry.
Consume ==
  /\ unread > 0
  /\ unread' = unread - 1
  /\ UNCHANGED <<cluster, kind, socket, missing, client, pushed, reading, ended, faults>>

-----------------------------------------------------------------------------
(* The stream of missing entries: RequestEntriesStream and the requests it *)
(* makes, to the leader or to the only peer of the client *)

NoRpc == [pc |-> "none", prev |-> 0, count |-> 0, to |-> 0, from |-> None, paused |-> FALSE]

\* A count of 0 stands for all there are.
Request(prev, count) == [NoRpc EXCEPT !.pc = "asking", !.prev = prev, !.count = count]

\* requestEntriesHandler: where the answer of p ends.
LastFor(p) ==
  IF rpc.count = 0 THEN applied[p] ELSE Min({rpc.prev + rpc.count, applied[p]})

Served(p) ==
  rpc' = [rpc EXCEPT !.pc = "streaming", !.to = LastFor(p), !.from = p]

\* The client of a subscriber goes on with another server: what it asks for
\* is where it is.
Again ==
  /\ rpc.pc = "streaming" /\ kind = "subscriber"
  /\ FaultUnless(~leads[rpc.from])
  /\ rpc' = [rpc EXCEPT !.pc = "asking", !.from = None]
  /\ UNCHANGED <<cluster, kind, socket, last, ahead, client, readable>>

Flowing == rpc.pc = "streaming" /\ ~rpc.paused /\ leads[rpc.from]

-----------------------------------------------------------------------------
(* ZmqRaftSubscriber *)

\* fault: what is broadcast again is pushed again
NewF(m, l) == Upto(m.last - m.n + 1, m.last)
New(m, l) == Upto(l + 1, m.last)
Fits(m, l) == m.last - l <= m.n

\* _requestMissingEntries
Missing(r, s, l, count) == IF r.pc # "none" \/ s = "off" THEN r ELSE Request(l, count)

\* _handleBroadcast
Hear ==
  /\ kind = "subscriber" /\ queue # <<>> /\ subs = "on"
  /\ LET m == Head(queue) IN
       /\ queue' = Tail(queue)
       /\ IF Fits(m, last)
            THEN /\ Push(New(m, last))
                 /\ last' = Max({last, m.last})
                 /\ subs' = IF Stopped(New(m, last)) THEN "off" ELSE "on"
                 /\ UNCHANGED <<ahead, rpc>>
            ELSE /\ ahead' = IF m.n > 0 THEN Append(ahead, m) ELSE ahead
                 /\ rpc' = Missing(rpc, subs, last, m.last - m.n - last)
                 /\ UNCHANGED <<last, subs, pushed, unread, reading>>
  /\ armed' = (subs' = "on")
  /\ UNCHANGED <<cluster, kind, url, asking, client, ended, faults>>

\* _flushAhead goes on to the first gap.
FlushTo ==
  FoldLeft(LAMBDA s, m :
             IF s.rest # <<>> \/ ~Fits(m, s.last)
               THEN [s EXCEPT !.rest = Append(@, m)]
               ELSE [s EXCEPT !.entries = @ \o New(m, s.last), !.last = Max({@, m.last})],
           [last |-> last, entries |-> <<>>, rest |-> <<>>], ahead)
FlushAhead ==
  LET f == FlushTo IN
    /\ Push(f.entries)
    /\ last' = f.last
    /\ ahead' = f.rest
    /\ subs' = IF Stopped(f.entries) /\ subs = "on" THEN "off" ELSE subs
    /\ armed' = (armed /\ subs' = "on")
    /\ rpc' = IF f.rest = <<>> THEN NoRpc
              ELSE Missing(NoRpc, subs', f.last, f.rest[1].last - f.rest[1].n - f.last)

\* A chunk of a snapshot is taken for an array of entries, since requestEntries
\* hands on another status than the one received: the stream is destroyed.
Chunk == rpc.prev < SnapIndex

\* An answer that ends before what was asked for is out of order.
Answer(p) ==
  /\ kind = "subscriber" /\ rpc.pc = "asking" /\ leads[p]
  /\ ended' = IF Chunk THEN "error" ELSE ended
  /\ IF Chunk \/ applied[p] < rpc.prev
       THEN FlushAhead
       ELSE Served(p) /\ UNCHANGED <<last, ahead, subs, armed, pushed, unread, reading>>
  /\ UNCHANGED <<cluster, kind, url, queue, asking, client, faults>>

Advance == [rpc EXCEPT !.prev = @ + 1, !.count = IF @ = 0 THEN 0 ELSE @ - 1]

Data ==
  /\ kind = "subscriber" /\ Flowing /\ rpc.prev < rpc.to
  /\ LET i == rpc.prev + 1
         entries == IF i > last THEN <<i>> ELSE <<>>
     IN /\ Push(entries)
        /\ last' = Max({last, i})
        /\ subs' = IF Stopped(entries) /\ subs = "on" THEN "off" ELSE subs
        /\ armed' = (armed /\ subs' = "on")
        /\ rpc' = [Advance EXCEPT !.paused = Stopped(entries)]
  /\ UNCHANGED <<cluster, kind, url, queue, asking, ahead, client, ended, faults>>

DataEnd ==
  /\ kind = "subscriber" /\ Flowing /\ rpc.prev = rpc.to
  /\ FlushAhead
  /\ UNCHANGED <<cluster, kind, url, queue, asking, client, ended, faults>>

\* fault: a stream of missing entries is not resumed
ReadF ==
  /\ kind = "subscriber" /\ ~reading /\ More(0)
  /\ reading' = TRUE
  /\ subs' = "on"
  /\ armed' = IF subs = "off" THEN TRUE ELSE armed
  /\ asking' = (asking \/ subs = "new")
  /\ UNCHANGED <<cluster, kind, url, queue, missing, client, pushed, unread, ended, faults>>
\* _read
Read ==
  /\ kind = "subscriber" /\ ~reading /\ More(0)
  /\ reading' = TRUE
  /\ subs' = "on"
  /\ armed' = IF subs = "off" THEN TRUE ELSE armed
  /\ asking' = (asking \/ subs = "new")
  /\ rpc' = [rpc EXCEPT !.paused = FALSE]
  /\ UNCHANGED <<cluster, kind, url, queue, last, ahead, client, pushed, unread, ended, faults>>

\* _requestPublisherUrl, connect
Connect(p) ==
  /\ asking /\ leads[p]
  /\ asking' = FALSE
  /\ url' = p
  /\ \/ UNCHANGED queue
     \/ url # p /\ queue' = <<>>
  /\ armed' = (subs = "on")
  /\ UNCHANGED <<cluster, kind, subs, missing, client, readable, faults>>

\* The timeout is long enough for the heartbeats of a peer that leads, unless
\* they are late.
Hears == url # None /\ leads[url]
Silent == FaultUnless(~Hears /\ queue = <<>>)

Timeout ==
  /\ kind = "subscriber" /\ armed /\ Silent
  /\ armed' = FALSE
  /\ asking' = TRUE
  /\ UNCHANGED <<cluster, kind, url, queue, subs, missing, client, readable>>

-----------------------------------------------------------------------------
(* ZmqRaftPeerSub and its ForeverEntriesStream: subs is "on" while the     *)
(* stream is flowing, but the client listens all the time *)

Ends(how) == ended' = how

\* _recvMissingEntries
RecvMissing == IF rpc.pc # "none" THEN rpc ELSE Request(last, 0)

\* _pushEntries
Follows(m, l) == m.last - m.n = l
\* _stopFlow
StopFlow(entries, r, a) ==
  IF Stopped(entries) /\ subs = "on"
    THEN subs' = "off" /\ rpc' = [r EXCEPT !.paused = r.pc # "none"] /\ ahead' = <<>>
    ELSE rpc' = r /\ ahead' = a /\ UNCHANGED subs

\* handleBroadcast and the handler of "pulse"
Pulse ==
  /\ kind = "forever" /\ queue # <<>> /\ ended = None
  /\ LET m == Head(queue)
         follows == rpc.pc = "none" /\ Follows(m, last)
     IN /\ queue' = Tail(queue)
        /\ heard' = m.last /\ isLeader' = TRUE /\ armed' = TRUE
        /\ IF subs = "on" /\ follows
             THEN /\ Push(New(m, last))
                  /\ last' = m.last
                  /\ StopFlow(New(m, last), rpc, ahead)
             ELSE /\ IF subs = "on" /\ m.last > last
                       THEN /\ ahead' = IF m.n > 0 THEN Append(ahead, m) ELSE ahead
                            /\ rpc' = RecvMissing
                       ELSE UNCHANGED <<ahead, rpc>>
                  /\ UNCHANGED <<last, subs, pushed, unread, reading>>
  /\ UNCHANGED <<cluster, kind, url, asking, ended, faults>>

\* fault: the stream has no handler of "timeout"
PulseTimeoutF ==
  /\ kind = "forever" /\ armed /\ ended = None /\ Silent
  /\ armed' = FALSE /\ isLeader' = FALSE
  /\ UNCHANGED <<cluster, kind, url, queue, subs, asking, missing, heard, readable>>
PulseTimeout ==
  /\ kind = "forever" /\ armed /\ ended = None /\ Silent
  /\ armed' = FALSE /\ isLeader' = FALSE
  /\ rpc' = RecvMissing
  /\ UNCHANGED <<cluster, kind, url, queue, subs, asking, last, ahead, heard, readable>>

ForeverAnswer ==
  /\ kind = "forever" /\ rpc.pc = "asking" /\ ended = None
  /\ IF ~leads[url] THEN Ends("end") /\ UNCHANGED rpc
     ELSE IF Chunk \/ applied[url] < rpc.prev THEN Ends("error") /\ rpc' = NoRpc
     ELSE Served(url) /\ UNCHANGED ended
  /\ UNCHANGED <<cluster, kind, socket, last, ahead, client, pushed, unread, reading, faults>>

\* The stream of a peer that does not lead any more stops without a word.
ForeverTimeout ==
  /\ kind = "forever" /\ rpc.pc = "streaming" /\ ended = None
  /\ FaultUnless(~leads[url])
  /\ Ends("error")
  /\ rpc' = NoRpc
  /\ UNCHANGED <<cluster, kind, socket, last, ahead, client, pushed, unread, reading>>

ForeverData ==
  /\ kind = "forever" /\ Flowing /\ rpc.prev < rpc.to /\ ended = None
  /\ LET i == rpc.prev + 1
         entries == IF i > last THEN <<i>> ELSE <<>>
     IN /\ Push(entries)
        /\ last' = Max({last, i})
        /\ StopFlow(entries, Advance, ahead)
  /\ UNCHANGED <<cluster, kind, url, queue, armed, asking, client, ended, faults>>

\* At the end what is ahead and follows is pushed, the rest is dropped; so is
\* what comes after the broadcast that fills the reader, as the flow stops there.
FlushForever ==
  FoldLeft(LAMBDA s, m : IF Stopped(s.entries) \/ ~Follows(m, s.last) THEN s
                         ELSE [entries |-> s.entries \o New(m, s.last), last |-> m.last],
           [last |-> last, entries |-> <<>>], ahead)
ForeverDataEnd ==
  /\ kind = "forever" /\ Flowing /\ rpc.prev = rpc.to /\ ended = None
  /\ Push(FlushForever.entries)
  /\ last' = FlushForever.last
  /\ StopFlow(FlushForever.entries, NoRpc, <<>>)
  /\ UNCHANGED <<cluster, kind, url, queue, armed, asking, client, ended, faults>>

ForeverRead ==
  /\ kind = "forever" /\ ~reading /\ More(0) /\ ended = None
  /\ reading' = TRUE
  /\ subs' = "on"
  /\ rpc' = IF rpc.pc # "none" THEN [rpc EXCEPT !.paused = FALSE]
            ELSE IF ~isLeader \/ last < heard THEN RecvMissing ELSE rpc
  /\ UNCHANGED <<cluster, kind, url, queue, armed, asking, last, ahead, client, pushed,
                 unread, ended, faults>>

-----------------------------------------------------------------------------

Init ==
  /\ committed = SnapIndex
  /\ LET p == CHOOSE p \in Peer : TRUE IN
       /\ leads = [q \in Peer |-> q = p]
       /\ applied = [q \in Peer |-> SnapIndex]
       /\ kind \in Kind
       /\ url = IF kind = "forever" THEN p ELSE None
  /\ applying = [p \in Peer |-> 0]
  /\ queue = <<>> /\ armed = (kind = "forever") /\ asking = FALSE
  /\ subs = IF kind = "forever" THEN "off" ELSE "new"
  /\ last = 0 /\ ahead = <<>> /\ rpc = NoRpc
  /\ isLeader = FALSE /\ heard = 0
  /\ pushed = <<>> /\ unread = 0 /\ reading = FALSE /\ ended = None
  /\ faults = 0

Publisher ==
  \/ Commit
  \/ \E p \in Peer : \/ \E n \in 1..MaxPush : BeginApply(p, n)
                     \/ EndApply(p) \/ Heartbeat(p) \/ Elected(p) \/ StepDown(p)

Subscriber ==
  \/ Hear \/ Data \/ DataEnd \/ Read \/ Timeout \/ Again
  \/ \E p \in Peer : Answer(p) \/ Connect(p)

Forever ==
  \/ Pulse \/ PulseTimeout \/ ForeverAnswer \/ ForeverTimeout \/ ForeverData
  \/ ForeverDataEnd \/ ForeverRead

Next == Publisher \/ Subscriber \/ Forever \/ Consume

Spec == Init /\ [][Next]_vars

\* Heartbeats are sent, messages and timeouts arrive, a leader is elected and
\* applies what is committed, and the reader reads on.
Fairness ==
  /\ WF_vars(Commit) /\ WF_vars(Consume)
  /\ \A p \in Peer :
       /\ WF_vars(\E n \in 1..MaxPush : BeginApply(p, n)) /\ WF_vars(EndApply(p))
       /\ WF_vars(Heartbeat(p))
       /\ WF_vars(~(\E q \in Peer : leads[q]) /\ Elected(p))
       /\ WF_vars(Recedes(p) /\ StepDown(p))
       /\ WF_vars(Answer(p)) /\ WF_vars(Connect(p))
  /\ WF_vars(Hear) /\ WF_vars(Data) /\ WF_vars(DataEnd) /\ WF_vars(Read)
  /\ WF_vars(Timeout) /\ WF_vars(Again)
  /\ WF_vars(Pulse) /\ WF_vars(PulseTimeout) /\ WF_vars(ForeverAnswer)
  /\ WF_vars(ForeverTimeout) /\ WF_vars(ForeverData) /\ WF_vars(ForeverDataEnd)
  /\ WF_vars(ForeverRead)
FairSpec == Spec /\ Fairness

-----------------------------------------------------------------------------
(* Properties *)

TypeOK ==
  /\ committed \in 0..MaxLog /\ applied \in [Peer -> 0..MaxLog]
  /\ queue \in Seq(Message) /\ ahead \in Seq(Message)
  /\ rpc.pc \in {"none", "asking", "streaming"}
  /\ subs \in {"new", "on", "off"}

\* What is pushed is the log: in order, with no gap, and nothing twice, from
\* broadcasts of any leader and streams of missing entries that overlap
\* (zmq_raft_subscriber.js:267-420; zmq_raft_peer_sub.js:405-536).
InOrder == pushed = Upto(1, Len(pushed)) /\ last = Len(pushed)

\* A reader that reads on is given every entry that is committed, whatever is
\* lost, whoever leads, and however often it has been too slow
\* (zmq_raft_subscriber.js:343-455); that of a forever stream, if its peer stays
\* the leader (zmq_raft_peer_sub.js:467-490).
Delivered ==
  kind = "subscriber" \/ <>[]Hears
    => \A i \in 1..MaxLog : (committed >= i) ~> (Len(pushed) >= i \/ ended # None)

\* A forever stream that has heard from its peer since the last timeout ends
\* when the peer does not lead any more (zmq_raft_peer_sub.js:318-335, 439-447).
HeardEnds == kind = "forever" /\ armed /\ ~Hears ~> Hears \/ ended # None

\* A stream of a peer that does not lead ends (zmq_raft_peer_sub.js:339).
ForeverEnds == kind = "forever" => (<>[](~Hears) => <>(ended # None))

\* A follower that begins with a snapshot does not fail
\* (zmq_raft_peer_sub.js:348).
SnapshotRead == ended # "error"
=============================================================================
