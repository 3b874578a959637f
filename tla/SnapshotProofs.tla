--------------------------- MODULE SnapshotProofs ---------------------------
(***************************************************************************)
(* Snapshots are read only while they are open, by clients and for         *)
(* followers, and what a follower installs is a whole snapshot, whatever   *)
(* the sizes of the snapshots and the numbers of requests, lost messages   *)
(* and terms.                                                              *)
(***************************************************************************)
EXTENDS SnapshotInstall, SequenceTheorems, TLAPS

Stream == {"waiting", "flowing", "paused", "closed"}
Status == {"not leader", "last", "snapshot"}
Phase == {"none", "waiting", "paused", "failed", "done"}

TransferType ==
  [key: Key, snap: Snapshot, offset: Int \union {None}, confirmed: Int, sent: Int, read: Int,
   stream: Stream]
RequestType == [key: Key, prev: Int, offset: Int \union {None}, stop: BOOLEAN]
ReplyType == [key: Key, status: Status, index: Int, from: Int, length: Int, size: Int]
ClientType == [key: Key, prev: Int, offset: Int \union {None}, byte: Int, phase: Phase]
GivenType == [snap: Int, from: Int]
LockType == [shared: SUBSET Int, waiting: SUBSET Int]

\* Call i over snapshot s is in the queue of its lock, and in front of the
\* installation.
Called(lk, i, s) == i \in lk[s].shared \union lk[s].waiting
Open(lk, i, s) == s = current /\ i \in lk[s].shared

\* Only calls over the snapshot that is replaced wait for the installation.
LocksOK(lk) ==
  /\ lk \in [Snapshot -> LockType]
  /\ \A s \in Snapshot : lk[s].waiting # {} => Exclusive(s)

\* An entry leads to a transfer with its key that has got the lock.
EntriesOK(tr, en) ==
  /\ en \in [Key -> Nat]
  /\ \A k \in Key : en[k] # 0 =>
       en[k] \in 1..Len(tr) /\ tr[en[k]].key = k /\ tr[en[k]].stream # "waiting"

TransfersOK(tr, lk) ==
  /\ tr \in Seq(TransferType)
  /\ \A i \in 1..Len(tr) :
       /\ tr[i].stream = "waiting" => Called(lk, i, tr[i].snap)
       /\ tr[i].stream \in {"flowing", "paused"} => Open(lk, i, tr[i].snap)

TablesOK(tr, en, lk) == LocksOK(lk) /\ EntriesOK(tr, en) /\ TransfersOK(tr, lk)

\* The installation of the next snapshot
InstallOK ==
  /\ current \in Snapshot /\ install \in {"idle", "waiting", "replacing"}
  /\ install = "waiting" => current < Len(Size)
  /\ install = "replacing" => current > 1

ClientsOK ==
  /\ requests \in Seq(RequestType) /\ replies \in Seq(ReplyType)
  /\ client \in ClientType
  /\ received \in Seq(GivenType)

BoundsOK == losses \in Nat /\ stepDowns \in 0..MaxStepDowns /\ late \in BOOLEAN

StreamInv ==
  /\ leader \in BOOLEAN
  /\ InstallOK /\ TablesOK(transfers, entries, locks)
  /\ ClientsOK /\ BoundsOK

-----------------------------------------------------------------------------

PeerType ==
  /\ sending \in [Term -> Reading \union {None}]
  /\ next \in Int /\ match \in Int
  /\ rpc \in Message \union {None} /\ wire \subseteq Message /\ answer \in Reply \union {None}
  /\ buffer \in Contents \union {None}
  /\ log \in [snap: 0..Len(Size), data: Seq(Contents \union {None}), last: Int, same: Int,
              commit: Int]
  /\ known \in Int /\ tmp \in Temporary \union {None}

\* The calls of sendInstallSnapshot are those of terms up to the current one, and
\* have called lockShared once.
SendingOK(snd, lk) ==
  \A t \in Term : snd[t] # None =>
    /\ t <= CurrentTerm /\ (t = CurrentTerm => leader) /\ snd[t].snap <= current
    /\ Called(lk, Caller(t), snd[t].snap)
    /\ snd[t].step = "read" => Open(lk, Caller(t), snd[t].snap)
    /\ \A s \in Snapshot : Caller(t) \notin lk[s].shared \/ Caller(t) \notin lk[s].waiting

\* A leader waits for one reply, which one copy of the request may give, and then
\* it reads nothing.
LinkOK ==
  /\ answer # None => rpc # None
  /\ rpc # None => leader /\ sending[CurrentTerm] = None /\ rpc.live /\ rpc.snap <= current
                   /\ buffer # None
  /\ \A m \in wire : m.live => rpc # None /\ answer = None /\ \A n \in wire : n.live => n = m

\* While a client reads the snapshot nothing is sent to the follower.
Alone == ~ByPeer => (\A t \in Term : sending[t] = None) /\ rpc = None

PeerInv == PeerType /\ SendingOK(sending, locks) /\ LinkOK /\ Alone

\* The call of term t reads nothing any more.
Overtaken(t) ==
  \/ sending[t] = None
  \/ sending[t].step = "lock" /\ (sending[t].snap # current \/ Caller(t) \in locks[current].waiting)

\* What is sent, or sent again, is what was read.
ChunksOK ==
  /\ rpc # None => rpc.is = Chunk(rpc.snap, rpc.at) /\ buffer = rpc.is
  /\ leader => \A t \in Term : t < CurrentTerm => Overtaken(t)
  /\ \A m \in wire : m.is = Chunk(m.snap, m.at)

\* The temporary snapshot has what was written.
TmpOK ==
  tmp # None =>
    /\ Len(tmp.data) = Size[tmp.snap]
    /\ \A n \in 1..Size[tmp.snap] : n <= tmp.written => tmp.data[n] = Chunk(tmp.snap, n - 1)

ChunkInv == ChunksOK /\ TmpOK /\ InstalledIsWhole

-----------------------------------------------------------------------------
(* The locks and the tables of transfers. *)

LEMMA SnapshotType == 1 \in Snapshot /\ Size \in [Snapshot -> Nat] /\ Len(Size) \in Nat
  BY SizeAssumption DEF Snapshot

LEMMA WithoutNone ==
  ASSUME NEW lk \in [Snapshot -> LockType]
  PROVE  Without(lk, {}) = lk
<1>1. ASSUME NEW s \in Snapshot
      PROVE  [shared |-> lk[s].shared \ {}, waiting |-> lk[s].waiting \ {}] = lk[s]
  <2>1. lk[s] \in LockType  BY SMT
  <2>2. lk[s] = [shared |-> lk[s].shared, waiting |-> lk[s].waiting]
    BY <2>1 DEF LockType
  <2>3. lk[s].shared \ {} = lk[s].shared /\ lk[s].waiting \ {} = lk[s].waiting  BY Zenon
  <2> QED  BY <2>2, <2>3
<1> QED  BY <1>1 DEF Without

\* What is left when the calls of a set end.
LEMMA WithoutType ==
  ASSUME NEW lk, LocksOK(lk), NEW ended
  PROVE  /\ LocksOK(Without(lk, ended))
         /\ \A s \in Snapshot, i \in Int : i \notin ended =>
              /\ i \in Without(lk, ended)[s].shared <=> i \in lk[s].shared
              /\ i \in Without(lk, ended)[s].waiting <=> i \in lk[s].waiting
         /\ \A s \in Snapshot : \A i \in ended : ~Called(Without(lk, ended), i, s)
<1>1. ASSUME NEW s \in Snapshot
      PROVE  /\ Without(lk, ended)[s] \in LockType
             /\ Without(lk, ended)[s].shared = lk[s].shared \ ended
             /\ Without(lk, ended)[s].waiting = lk[s].waiting \ ended
  BY DEF LocksOK, Without, LockType
<1>2. Without(lk, ended) \in [Snapshot -> LockType]  BY <1>1 DEF Without
<1> QED  BY <1>1, <1>2 DEF LocksOK, Called

\* A call of lockShared.
LEMMA LockedType ==
  ASSUME NEW lk, LocksOK(lk), NEW s \in Snapshot, NEW i \in Int
  PROVE  /\ LocksOK(Locked(lk, s, i))
         /\ Called(Locked(lk, s, i), i, s)
         /\ \A z \in Snapshot :
              /\ lk[z].shared \subseteq Locked(lk, s, i)[z].shared
              /\ lk[z].waiting \subseteq Locked(lk, s, i)[z].waiting
         /\ \A z \in Snapshot, j \in Int : j # i =>
              /\ j \in Locked(lk, s, i)[z].shared => j \in lk[z].shared
              /\ j \in Locked(lk, s, i)[z].waiting => j \in lk[z].waiting
<1>1. lk \in [Snapshot -> LockType]  BY DEF LocksOK
<1>2. CASE Exclusive(s)
  <2> DEFINE e == [lk[s] EXCEPT !.waiting = @ \union {i}]
  <2>1. Locked(lk, s, i) = [lk EXCEPT ![s] = e]  BY <1>1, <1>2 DEF Locked
  <2>2. lk[s] \in LockType  BY <1>1
  <2>3. e \in LockType /\ e.shared = lk[s].shared /\ e.waiting = lk[s].waiting \union {i}
    BY <2>2 DEF LockType
  <2> QED  BY <1>1, <1>2, <2>1, <2>3 DEF LocksOK, Called
<1>3. CASE ~Exclusive(s)
  <2> DEFINE e == [lk[s] EXCEPT !.shared = @ \union {i}]
  <2>1. Locked(lk, s, i) = [lk EXCEPT ![s] = e]  BY <1>1, <1>3 DEF Locked
  <2>2. lk[s] \in LockType  BY <1>1
  <2>3. e \in LockType /\ e.waiting = lk[s].waiting /\ e.shared = lk[s].shared \union {i}
    BY <2>2 DEF LockType
  <2> QED  BY <1>1, <2>1, <2>3 DEF LocksOK, Called
<1> QED  BY <1>2, <1>3

\* One that has not called it yet is in one queue.
LEMMA LockedOnce ==
  ASSUME NEW lk, LocksOK(lk), NEW s \in Snapshot, NEW i \in Int,
         \A z \in Snapshot : ~Called(lk, i, z)
  PROVE  \A z \in Snapshot :
           i \notin Locked(lk, s, i)[z].shared \/ i \notin Locked(lk, s, i)[z].waiting
<1>1. lk \in [Snapshot -> LockType]  BY DEF LocksOK
<1>2. lk[s] \in LockType  BY <1>1
<1>3. CASE Exclusive(s)
  <2>1. Locked(lk, s, i)[s].shared = lk[s].shared  BY <1>1, <1>2, <1>3 DEF Locked, LockType
  <2>2. \A z \in Snapshot : z # s => Locked(lk, s, i)[z] = lk[z]  BY <1>1, <1>3 DEF Locked
  <2> QED  BY <2>1, <2>2 DEF Called
<1>4. CASE ~Exclusive(s)
  <2>1. Locked(lk, s, i)[s].waiting = lk[s].waiting  BY <1>1, <1>2, <1>4 DEF Locked, LockType
  <2>2. \A z \in Snapshot : z # s => Locked(lk, s, i)[z] = lk[z]  BY <1>1, <1>4 DEF Locked
  <2> QED  BY <2>1, <2>2 DEF Called
<1> QED  BY <1>3, <1>4

\* Transfers that go on keep their locks, those of the calls that end are closed.
LEMMA TablesStep ==
  ASSUME NEW tr, NEW en, NEW lk, TablesOK(tr, en, lk),
         NEW tr2 \in Seq(TransferType), NEW en2 \in [Key -> Nat], NEW ended,
         Len(tr2) = Len(tr),
         \A k \in Key : en2[k] \in {0, en[k]},
         \A j \in 1..Len(tr) :
           /\ tr2[j].key = tr[j].key /\ tr2[j].snap = tr[j].snap
           /\ \/ tr2[j].stream = "closed"
              \/ /\ j \notin ended
                 /\ \/ tr2[j].stream = tr[j].stream
                    \/ {tr2[j].stream, tr[j].stream} \subseteq {"flowing", "paused"}
  PROVE  TablesOK(tr2, en2, Without(lk, ended))
<1>1. LocksOK(Without(lk, ended))  BY WithoutType DEF TablesOK
<1>2. EntriesOK(tr2, en2)
  <2>1. ASSUME NEW k \in Key, en2[k] # 0
        PROVE  en2[k] \in 1..Len(tr2) /\ tr2[en2[k]].key = k /\ tr2[en2[k]].stream # "waiting"
    <3>1. /\ en2[k] = en[k] /\ en[k] \in 1..Len(tr)
          /\ tr[en[k]].key = k /\ tr[en[k]].stream # "waiting"
      BY <2>1 DEF TablesOK, EntriesOK
    <3> QED  BY <3>1
  <2> QED  BY <2>1 DEF EntriesOK
<1>3. ASSUME NEW i \in 1..Len(tr2)
      PROVE  /\ tr2[i].stream = "waiting" => Called(Without(lk, ended), i, tr2[i].snap)
             /\ tr2[i].stream \in {"flowing", "paused"} => Open(Without(lk, ended), i, tr2[i].snap)
  <2>1. i \in 1..Len(tr) /\ i \in Int
    <3>1. Len(tr2) \in Nat  OBVIOUS
    <3> QED  BY <3>1
  <2>2. tr[i].snap \in Snapshot
    <3>1. tr \in Seq(TransferType)  BY DEF TablesOK, TransfersOK
    <3>2. tr[i] \in TransferType  BY <2>1, <3>1
    <3> QED  BY <3>2 DEF TransferType
  <2>3. /\ tr[i].stream = "waiting" => Called(lk, i, tr[i].snap)
        /\ tr[i].stream \in {"flowing", "paused"} => Open(lk, i, tr[i].snap)
    BY <2>1 DEF TablesOK, TransfersOK
  <2>4. CASE i \in ended  BY <2>1, <2>4
  <2>5. CASE i \notin ended
    <3>1. LocksOK(lk)  BY DEF TablesOK
    <3>2. /\ i \in Without(lk, ended)[tr[i].snap].shared <=> i \in lk[tr[i].snap].shared
          /\ i \in Without(lk, ended)[tr[i].snap].waiting <=> i \in lk[tr[i].snap].waiting
      BY <2>1, <2>2, <2>5, <3>1, WithoutType
    <3> QED  BY <2>1, <2>3, <3>2 DEF Called, Open
  <2> QED  BY <2>4, <2>5
<1> QED  BY <1>1, <1>2, <1>3 DEF TablesOK, TransfersOK

\* A call of lockShared disturbs no transfer.
LEMMA TablesLocked ==
  ASSUME NEW tr, NEW en, NEW lk, TablesOK(tr, en, lk), NEW s \in Snapshot, NEW i \in Int
  PROVE  TablesOK(tr, en, Locked(lk, s, i))
<1>1. LocksOK(lk)  BY DEF TablesOK
<1>2. ASSUME NEW j \in 1..Len(tr)
      PROVE  /\ tr[j].stream = "waiting" => Called(Locked(lk, s, i), j, tr[j].snap)
             /\ tr[j].stream \in {"flowing", "paused"} => Open(Locked(lk, s, i), j, tr[j].snap)
  <2>1. tr \in Seq(TransferType) /\ tr[j] \in TransferType
    BY DEF TablesOK, TransfersOK
  <2> tr[j].snap \in Snapshot  BY <2>1 DEF TransferType
  <2>2. /\ lk[tr[j].snap].shared \subseteq Locked(lk, s, i)[tr[j].snap].shared
        /\ lk[tr[j].snap].waiting \subseteq Locked(lk, s, i)[tr[j].snap].waiting
    BY <1>1, <2>1, LockedType
  <2> QED  BY <2>2 DEF TablesOK, TransfersOK, Called, Open
<1>3. LocksOK(Locked(lk, s, i))  BY <1>1, LockedType
<1> QED  BY <1>2, <1>3 DEF TablesOK, TransfersOK

\* lockAndSendSnapshot: a new transfer calls it.
LEMMA TablesAppend ==
  ASSUME NEW tr, NEW en, NEW lk, TablesOK(tr, en, lk), InstallOK,
         NEW t \in TransferType, t.stream = "waiting", t.snap = current
  PROVE  TablesOK(Append(tr, t), en, Locked(lk, current, Len(tr) + 1))
<1> DEFINE n == Len(tr) + 1
           tr2 == Append(tr, t)
           lk2 == Locked(lk, current, n)
<1>1. /\ tr \in Seq(TransferType) /\ Len(tr) \in Nat /\ n \in Int /\ current \in Snapshot
      /\ LocksOK(lk)
  BY DEF TablesOK, TransfersOK, InstallOK
<1>2. /\ tr2 \in Seq(TransferType) /\ Len(tr2) = n
      /\ \A j \in 1..Len(tr) : tr2[j] = tr[j]
      /\ tr2[n] = t
  BY <1>1
<1>3. TablesOK(tr, en, lk2)  BY <1>1, TablesLocked
<1>4. Called(lk2, n, current)  BY <1>1, LockedType
<1>5. ASSUME NEW i \in 1..n
      PROVE  /\ tr2[i].stream = "waiting" => Called(lk2, i, tr2[i].snap)
             /\ tr2[i].stream \in {"flowing", "paused"} => Open(lk2, i, tr2[i].snap)
  <2>1. CASE i = n  BY <2>1, <1>2, <1>4
  <2>2. CASE i \in 1..Len(tr)
    BY <2>2, <1>2, <1>3 DEF TablesOK, TransfersOK
  <2> QED  BY <1>1, <2>1, <2>2
<1>6. EntriesOK(tr2, en)
  BY <1>1, <1>2, <1>3 DEF TablesOK, EntriesOK
<1> HIDE DEF n, tr2, lk2
<1>7. TransfersOK(tr2, lk2)  BY <1>2, <1>5 DEF TransfersOK
<1>8. LocksOK(lk2)  BY <1>3 DEF TablesOK
<1>9. TablesOK(tr2, en, lk2)  BY <1>6, <1>7, <1>8 DEF TablesOK
<1> QED  BY <1>9 DEF tr2, lk2, n

-----------------------------------------------------------------------------
(* Transfers to clients. *)

\* A step that leaves the installation alone keeps the invariant if it keeps the
\* tables.
LEMMA StreamStep ==
  ASSUME StreamInv, leader' \in BOOLEAN, UNCHANGED <<current, install>>,
         TablesOK(transfers', entries', locks'), ClientsOK', BoundsOK'
  PROVE  StreamInv'
<1>1. InstallOK'  BY DEF StreamInv, InstallOK
<1>2. LocksOK(locks)'  BY DEF TablesOK, LocksOK, Exclusive
<1>3. EntriesOK(transfers, entries)'  BY DEF TablesOK, EntriesOK
<1>4. TransfersOK(transfers, locks)'  BY DEF TablesOK, TransfersOK, Called, Open
<1> QED  BY <1>1, <1>2, <1>3, <1>4 DEF StreamInv, TablesOK

LEMMA TransferTyped ==
  ASSUME StreamInv, NEW i \in 1..Len(transfers)
  PROVE  /\ transfers \in Seq(TransferType) /\ Len(transfers) \in Nat /\ i \in Int
         /\ transfers[i] \in TransferType
         /\ transfers[i].key \in Key /\ transfers[i].snap \in Snapshot
         /\ transfers[i].stream \in Stream
<1>1. transfers \in Seq(TransferType)  BY DEF StreamInv, TablesOK, TransfersOK
<1>2. transfers[i] \in TransferType  BY <1>1
<1> QED  BY <1>1, <1>2 DEF TransferType

\* Transfer i becomes t.
LEMMA ChangedTransfer ==
  ASSUME StreamInv, NEW i \in 1..Len(transfers), NEW t \in TransferType,
         NEW en \in [Key -> Nat], NEW ended \in SUBSET {i},
         t.key = transfers[i].key, t.snap = transfers[i].snap,
         \/ t.stream = "closed"
         \/ ended = {} /\ {t.stream, transfers[i].stream} \subseteq {"flowing", "paused"},
         \A k \in Key : en[k] \in {0, entries[k]}
  PROVE  TablesOK([transfers EXCEPT ![i] = t], en, Without(locks, ended))
<1> DEFINE tr == [transfers EXCEPT ![i] = t]
<1>1. transfers \in Seq(TransferType)  BY TransferTyped
<1>2. tr \in Seq(TransferType) /\ Len(tr) = Len(transfers)  BY <1>1
<1>3. \A j \in 1..Len(transfers) : tr[j] = IF j = i THEN t ELSE transfers[j]  BY <1>1
<1>4. TablesOK(transfers, entries, locks)  BY DEF StreamInv
<1>5. ASSUME NEW j \in 1..Len(transfers)
      PROVE  /\ tr[j].key = transfers[j].key /\ tr[j].snap = transfers[j].snap
             /\ \/ tr[j].stream = "closed"
                \/ /\ j \notin ended
                   /\ \/ tr[j].stream = transfers[j].stream
                      \/ {tr[j].stream, transfers[j].stream} \subseteq {"flowing", "paused"}
  <2>1. CASE j = i  BY <1>3, <2>1
  <2>2. CASE j # i  BY <1>3, <2>2
  <2> QED  BY <2>1, <2>2
<1> HIDE DEF tr
<1>6. TablesOK(tr, en, Without(locks, ended))  BY <1>2, <1>4, <1>5, TablesStep
<1> QED  BY <1>6 DEF tr

LEMMA PipedType ==
  ASSUME NEW t \in TransferType
  PROVE  /\ Piped(t) \in TransferType
         /\ Piped(t).key = t.key /\ Piped(t).snap = t.snap /\ Piped(t).stream = t.stream
         /\ Chunks(t) \in Seq(ReplyType)
<1>1. Pipelines \in Nat  BY WindowAssumption
<1>2. Smaller(t.read, t.confirmed + Pipelines) \in Int  BY <1>1 DEF Smaller, TransferType
<1>3. /\ Piped(t) \in TransferType
      /\ Piped(t).key = t.key /\ Piped(t).snap = t.snap /\ Piped(t).stream = t.stream
      /\ Piped(t).sent \in Int
  BY <1>2 DEF Piped, TransferType
<1>4. ASSUME NEW from \in Int, NEW length \in Int
      PROVE  ChunkReply(t, from, length) \in ReplyType
  <2>1. t.key \in Key /\ t.snap \in Snapshot  BY DEF TransferType
  <2>2. t.snap \in Int /\ Size[t.snap] \in Int  BY <2>1, SnapshotType DEF Snapshot
  <2> QED  BY <2>1, <2>2 DEF ChunkReply, ReplyType, Status
<1>5. t.sent \in Int  BY DEF TransferType
<1> DEFINE k == Piped(t).sent - t.sent
<1>6. PICK n \in Nat : 1..k = 1..n
  <2>1. k \in Int  BY <1>3, <1>5
  <2>2. CASE k \in Nat  BY <2>2
  <2>3. CASE k \notin Nat
    <3>1. 1..k = 1..0  BY <2>1, <2>3
    <3> QED  BY <3>1
  <2> QED  BY <2>2, <2>3
<1>7. \A m \in 1..n : ChunkReply(t, t.sent + m - 1, 1) \in ReplyType  BY <1>4, <1>5
<1>8. Chunks(t) = [m \in 1..n |-> ChunkReply(t, t.sent + m - 1, 1)]
  BY <1>6 DEF Chunks
<1> HIDE DEF k
<1>9. Chunks(t) \in Seq(ReplyType)  BY <1>7, <1>8, IsASeq
<1> QED  BY <1>3, <1>9

\* pipe(), for a transfer that reads or has ended.
LEMMA PipeStep ==
  ASSUME StreamInv, NEW i \in 1..Len(transfers), NEW t \in TransferType,
         NEW unlock \in BOOLEAN, Pipe(i, t, unlock),
         t.key = transfers[i].key, t.snap = transfers[i].snap,
         \/ t.stream = "closed"
         \/ ~unlock /\ {t.stream, transfers[i].stream} \subseteq {"flowing", "paused"}
  PROVE  TablesOK(transfers', entries', locks') /\ replies' \in Seq(ReplyType)
<1> DEFINE p == Piped(t)
           closed == Finished(p)
           t2 == IF closed THEN [p EXCEPT !.stream = "closed"] ELSE p
           ended == IF closed \/ unlock THEN {i} ELSE {}
<1>1. /\ p \in TransferType /\ p.key = t.key /\ p.snap = t.snap /\ p.stream = t.stream
      /\ Chunks(t) \in Seq(ReplyType)
  BY PipedType
<1>2. /\ transfers' = [transfers EXCEPT ![i] = t2]
      /\ entries' = IF closed THEN [entries EXCEPT ![t.key] = 0] ELSE entries
      /\ locks' = IF closed \/ unlock THEN Unlocked(locks, i) ELSE locks
      /\ replies' = replies \o Chunks(t)
  BY DEF Pipe
<1>3. /\ t2 \in TransferType /\ t2.key = t.key /\ t2.snap = t.snap
      /\ closed => t2.stream = "closed"
      /\ ~closed => t2.stream = t.stream
  BY <1>1 DEF TransferType, Stream
<1>4. entries \in [Key -> Nat] /\ locks \in [Snapshot -> LockType]
  BY DEF StreamInv, TablesOK, EntriesOK, LocksOK
<1>5. entries' \in [Key -> Nat] /\ \A k \in Key : entries'[k] \in {0, entries[k]}
  BY <1>2, <1>4
<1>6. locks' = Without(locks, ended)
  BY <1>2, <1>4, WithoutNone DEF Unlocked
<1>7. \/ t2.stream = "closed"
      \/ ended = {} /\ {t2.stream, transfers[i].stream} \subseteq {"flowing", "paused"}
  BY <1>3
<1>8. ended \in SUBSET {i}  OBVIOUS
<1>9. replies' \in Seq(ReplyType)
  <2>1. replies \in Seq(ReplyType)  BY DEF StreamInv, ClientsOK
  <2> QED  BY <1>1, <1>2, <2>1
<1> HIDE DEF p, closed, t2, ended
<1>10. TablesOK([transfers EXCEPT ![i] = t2], entries', Without(locks, ended))
  BY <1>3, <1>5, <1>7, <1>8, ChangedTransfer
<1> QED  BY <1>2, <1>6, <1>9, <1>10

LEMMA FlowType ==
  ASSUME NEW t \in TransferType
  PROVE  /\ Flow(t) \in TransferType
         /\ Flow(t).key = t.key /\ Flow(t).snap = t.snap
         /\ t.stream = "closed" => Flow(t).stream = "closed"
         /\ t.stream # "closed" => Flow(t).stream \in {"flowing", "paused"}
  BY DEF Flow, TransferType, Stream

LEMMA DataStep ==
  ASSUME StreamInv, NEW i \in 1..Len(transfers), Data(i)
  PROVE  StreamInv'
<1> DEFINE t == [transfers[i] EXCEPT !.read = @ + 1]
<1>1. transfers[i] \in TransferType  BY TransferTyped
<1>2. t \in TransferType /\ t.key = transfers[i].key /\ t.snap = transfers[i].snap
      /\ t.stream = transfers[i].stream
  BY <1>1 DEF TransferType
<1>3. transfers[i].stream = "flowing" /\ Pipe(i, Flow(t), FALSE)
      /\ UNCHANGED <<leader, current, install, requests, client, received, bounds>>
  BY DEF Data
<1> HIDE DEF t
<1>4. /\ Flow(t) \in TransferType /\ Flow(t).key = transfers[i].key
      /\ Flow(t).snap = transfers[i].snap /\ Flow(t).stream \in {"flowing", "paused"}
  BY <1>2, <1>3, FlowType
<1>5. TablesOK(transfers', entries', locks') /\ replies' \in Seq(ReplyType)
  BY <1>3, <1>4, PipeStep
<1>6. ClientsOK' /\ BoundsOK'
  BY <1>3, <1>5 DEF StreamInv, ClientsOK, BoundsOK, bounds
<1> QED  BY <1>3, <1>5, <1>6, StreamStep DEF StreamInv

LEMMA EndStep ==
  ASSUME StreamInv, NEW i \in 1..Len(transfers), End(i)
  PROVE  StreamInv'
<1> DEFINE t == [transfers[i] EXCEPT !.stream = "closed"]
<1>1. transfers[i] \in TransferType  BY TransferTyped
<1>2. t \in TransferType /\ t.key = transfers[i].key /\ t.snap = transfers[i].snap
      /\ t.stream = "closed"
  BY <1>1 DEF TransferType, Stream
<1>3. Pipe(i, t, TRUE)
      /\ UNCHANGED <<leader, current, install, requests, client, received, bounds>>
  BY DEF End
<1> HIDE DEF t
<1>5. TablesOK(transfers', entries', locks') /\ replies' \in Seq(ReplyType)
  BY <1>2, <1>3, PipeStep
<1>6. ClientsOK' /\ BoundsOK'
  BY <1>3, <1>5 DEF StreamInv, ClientsOK, BoundsOK, bounds
<1> QED  BY <1>3, <1>5, <1>6, StreamStep DEF StreamInv

\* cancel() of the transfer an entry leads to.
LEMMA CancelStep ==
  ASSUME StreamInv, NEW k \in Key, entries[k] # 0
  PROVE  /\ entries[k] \in 1..Len(transfers)
         /\ TablesOK(Cancelled(entries[k]).transfers, Cancelled(entries[k]).entries,
                     Cancelled(entries[k]).locks)
         /\ Len(Cancelled(entries[k]).transfers) = Len(transfers)
<1> DEFINE i == entries[k]
           t == [transfers[i] EXCEPT !.stream = "closed"]
           en == [entries EXCEPT ![transfers[i].key] = 0]
<1>1. i \in 1..Len(transfers) /\ entries \in [Key -> Nat]
  BY DEF StreamInv, TablesOK, EntriesOK
<1>2. transfers \in Seq(TransferType) /\ transfers[i] \in TransferType
  BY <1>1, TransferTyped
<1>3. t \in TransferType /\ t.key = transfers[i].key /\ t.snap = transfers[i].snap
      /\ t.stream = "closed"
  BY <1>2 DEF TransferType, Stream
<1>4. en \in [Key -> Nat] /\ \A x \in Key : en[x] \in {0, entries[x]}  BY <1>1
<1>5. Cancelled(i).transfers = [transfers EXCEPT ![i] = t]
  BY <1>1, <1>2 DEF Cancelled
<1>6. Cancelled(i).entries = en /\ Cancelled(i).locks = Without(locks, {i})
  BY DEF Cancelled, Unlocked
<1>7. Len([transfers EXCEPT ![i] = t]) = Len(transfers)  BY <1>1, <1>2, <1>3
<1> HIDE DEF i, t, en
<1>8. {i} \in SUBSET {i}  OBVIOUS
<1>9. TablesOK([transfers EXCEPT ![i] = t], en, Without(locks, {i}))
  BY <1>1, <1>3, <1>4, <1>8, ChangedTransfer
<1>10. /\ TablesOK(Cancelled(i).transfers, Cancelled(i).entries, Cancelled(i).locks)
       /\ Len(Cancelled(i).transfers) = Len(transfers)
  BY <1>5, <1>6, <1>7, <1>9
<1> QED  BY <1>1, <1>10 DEF i

LEMMA ExpireStep ==
  ASSUME StreamInv, NEW k \in Key, Expire(k)
  PROVE  StreamInv'
<1>1. entries[k] # 0  BY DEF Expire
<1>2. /\ transfers' = Cancelled(entries[k]).transfers
      /\ entries' = Cancelled(entries[k]).entries /\ locks' = Cancelled(entries[k]).locks
  BY DEF Expire
<1>3. /\ UNCHANGED <<leader, current, install, requests, replies, client, received, losses,
                     stepDowns>>
      /\ late' = (late \/ transfers[entries[k]].sent > transfers[entries[k]].confirmed
                       \/ transfers[entries[k]].stream = "flowing")
  BY DEF Expire
<1>4. TablesOK(transfers', entries', locks')  BY <1>1, <1>2, CancelStep
<1>5. late' \in BOOLEAN  BY <1>3
<1>6. ClientsOK' /\ BoundsOK'
  BY <1>3, <1>5 DEF StreamInv, ClientsOK, BoundsOK
<1> QED  BY <1>3, <1>4, <1>6, StreamStep DEF StreamInv

\* What a request finds: the tables, or those with a transfer cancelled.
StateOK(c) == TablesOK(c.transfers, c.entries, c.locks) /\ Len(c.transfers) = Len(transfers)

LEMMA ReplyTyped ==
  ASSUME NEW k \in Key
  PROVE  NotLeaderReply(k) \in ReplyType /\ LastReply(k) \in ReplyType
<1>1. NotLeaderReply(k) \in ReplyType  BY DEF NotLeaderReply, ReplyType, Status
<1>2. LastReply(k) = [NotLeaderReply(k) EXCEPT !.status = "last"]  BY DEF LastReply
<1> QED  BY <1>1, <1>2 DEF ReplyType, Status

LEMMA NewTransferStep ==
  ASSUME StreamInv, NEW m \in RequestType, NEW c, StateOK(c), NewTransfer(m, c)
  PROVE  TablesOK(transfers', entries', locks') /\ replies' \in Seq(ReplyType)
<1> DEFINE Kept == transfers' = c.transfers /\ entries' = c.entries /\ locks' = c.locks
<1>1. replies \in Seq(ReplyType)  BY DEF StreamInv, ClientsOK
<1>2. TablesOK(c.transfers, c.entries, c.locks)  BY DEF StateOK
<1>3. CASE Kept /\ UNCHANGED replies  BY <1>1, <1>2, <1>3
<1>4. CASE Kept /\ replies' = Append(replies, LastReply(m.key))
  <2>1. LastReply(m.key) \in ReplyType  BY ReplyTyped DEF RequestType
  <2>2. Append(replies, LastReply(m.key)) \in Seq(ReplyType)  BY <1>1, <2>1
  <2> QED  BY <1>2, <1>4, <2>2
<1>5. CASE LockSnapshot(m, c)
  <2> DEFINE t == [key |-> m.key, snap |-> current, offset |-> m.offset, confirmed |-> 0,
                   sent |-> 0, read |-> 0, stream |-> "waiting"]
  <2>1. InstallOK /\ current \in Snapshot  BY DEF StreamInv, InstallOK
  <2>2. t \in TransferType /\ t.stream = "waiting" /\ t.snap = current
    BY <2>1 DEF RequestType, TransferType, Stream
  <2>3. /\ transfers' = Append(c.transfers, t) /\ entries' = c.entries
        /\ locks' = Locked(c.locks, current, Len(c.transfers) + 1) /\ UNCHANGED replies
    BY <1>5 DEF LockSnapshot, StateOK
  <2> HIDE DEF t
  <2>4. TablesOK(Append(c.transfers, t), c.entries, Locked(c.locks, current, Len(c.transfers) + 1))
    BY <1>2, <2>1, <2>2, TablesAppend
  <2> QED  BY <1>1, <2>3, <2>4
<1> QED  BY <1>3, <1>4, <1>5 DEF NewTransfer

LEMMA RequestStep ==
  ASSUME StreamInv, HandleRequest
  PROVE  StreamInv'
<1> DEFINE m == Head(requests)
           i == entries[m.key]
<1>1. requests \in Seq(RequestType) /\ replies \in Seq(ReplyType)  BY DEF StreamInv, ClientsOK
<1>2. m \in RequestType /\ Tail(requests) \in Seq(RequestType)
  BY <1>1 DEF HandleRequest
<1>3. m.key \in Key  BY <1>2 DEF RequestType
<1>4. /\ requests' = Tail(requests)
      /\ UNCHANGED <<leader, current, install, client, received, bounds>>
  BY DEF HandleRequest
<1>t. TablesOK(transfers, entries, locks)  BY DEF StreamInv
<1>5. TablesOK(transfers', entries', locks') /\ replies' \in Seq(ReplyType)
  <2>1. CASE ~leader
    <3>1. replies' = Append(replies, NotLeaderReply(m.key))
          /\ UNCHANGED <<transfers, entries, locks>>
      BY <2>1 DEF HandleRequest
    <3>2. NotLeaderReply(m.key) \in ReplyType  BY <1>3, ReplyTyped
    <3>3. Append(replies, NotLeaderReply(m.key)) \in Seq(ReplyType)  BY <1>1, <3>2
    <3> QED  BY <1>t, <3>1, <3>3
  <2>2. CASE leader /\ i = 0
    <3> DEFINE c == [transfers |-> transfers, entries |-> entries, locks |-> locks]
    <3>1. NewTransfer(m, c)  BY <2>2 DEF HandleRequest
    <3>2. StateOK(c)  BY <1>t DEF StateOK
    <3> HIDE DEF c
    <3> QED  BY <1>2, <3>1, <3>2, NewTransferStep
  <2>3. CASE leader /\ i # 0 /\ m.stop
    <3>1. /\ transfers' = Cancelled(i).transfers /\ entries' = Cancelled(i).entries
          /\ locks' = Cancelled(i).locks /\ UNCHANGED replies
      BY <2>3 DEF HandleRequest
    <3>2. TablesOK(Cancelled(i).transfers, Cancelled(i).entries, Cancelled(i).locks)
      BY <1>3, <2>3, CancelStep
    <3> QED  BY <1>1, <3>1, <3>2
  <2>4. CASE leader /\ i # 0 /\ ~m.stop /\ ~Confirms(transfers[i], m)
    <3>1. NewTransfer(m, Cancelled(i))  BY <2>4 DEF HandleRequest
    <3>2. StateOK(Cancelled(i))  BY <1>3, <2>4, CancelStep DEF StateOK
    <3> QED  BY <1>2, <3>1, <3>2, NewTransferStep
  <2>5. CASE leader /\ i # 0 /\ ~m.stop /\ Confirms(transfers[i], m)
    <3> DEFINE t == [transfers[i] EXCEPT !.confirmed = @ + 1]
    <3>1. Pipe(i, Flow(t), FALSE)  BY <2>5 DEF HandleRequest
    <3>2. i \in 1..Len(transfers) /\ transfers[i].stream # "waiting"
      BY <1>t, <1>3, <2>5 DEF TablesOK, EntriesOK
    <3>3. transfers[i] \in TransferType  BY <3>2, TransferTyped
    <3>4. t \in TransferType /\ t.key = transfers[i].key /\ t.snap = transfers[i].snap
          /\ t.stream = transfers[i].stream
      BY <3>3 DEF TransferType
    <3>5. transfers[i].stream \in {"flowing", "paused", "closed"}
      BY <3>2, <3>3 DEF TransferType, Stream
    <3> HIDE DEF i, t
    <3>6. /\ Flow(t) \in TransferType
          /\ Flow(t).key = transfers[i].key /\ Flow(t).snap = transfers[i].snap
          /\ \/ Flow(t).stream = "closed"
             \/ {Flow(t).stream, transfers[i].stream} \subseteq {"flowing", "paused"}
      BY <3>4, <3>5, FlowType
    <3> QED  BY <3>1, <3>2, <3>6, PipeStep
  <2> QED  BY <2>1, <2>2, <2>3, <2>4, <2>5 DEF StreamInv
<1>6. ClientsOK' /\ BoundsOK'
  BY <1>2, <1>4, <1>5 DEF StreamInv, ClientsOK, BoundsOK, bounds
<1> QED  BY <1>4, <1>5, <1>6, StreamStep DEF StreamInv

\* Transfer i becomes t, which waits or reads under its lock.
LEMMA TablesExcept ==
  ASSUME NEW tr, NEW en, NEW lk, TablesOK(tr, en, lk),
         NEW i \in 1..Len(tr), NEW t \in TransferType, NEW en2 \in [Key -> Nat],
         t.key = tr[i].key,
         t.stream = "waiting" => tr[i].stream = "waiting" /\ Called(lk, i, t.snap),
         t.stream \in {"flowing", "paused"} => Open(lk, i, t.snap),
         \A k \in Key : en2[k] = en[k] \/ (en2[k] = i /\ t.key = k /\ t.stream # "waiting")
  PROVE  TablesOK([tr EXCEPT ![i] = t], en2, lk)
<1> DEFINE tr2 == [tr EXCEPT ![i] = t]
<1>1. tr \in Seq(TransferType)  BY DEF TablesOK, TransfersOK
<1>2. /\ tr2 \in Seq(TransferType) /\ Len(tr2) = Len(tr)
      /\ \A j \in 1..Len(tr) : tr2[j] = IF j = i THEN t ELSE tr[j]
  BY <1>1
<1> HIDE DEF tr2
<1>3. ASSUME NEW j \in 1..Len(tr2)
      PROVE  /\ tr2[j].stream = "waiting" => Called(lk, j, tr2[j].snap)
             /\ tr2[j].stream \in {"flowing", "paused"} => Open(lk, j, tr2[j].snap)
  <2>1. CASE j = i  BY <1>2, <2>1
  <2>2. CASE j # i  BY <1>2, <2>2 DEF TablesOK, TransfersOK
  <2> QED  BY <2>1, <2>2
<1>4. ASSUME NEW k \in Key, en2[k] # 0
      PROVE  en2[k] \in 1..Len(tr2) /\ tr2[en2[k]].key = k /\ tr2[en2[k]].stream # "waiting"
  <2>1. CASE en2[k] = i /\ t.key = k /\ t.stream # "waiting"  BY <1>2, <2>1
  <2>2. CASE en2[k] = en[k]
    <3>1. en[k] \in 1..Len(tr) /\ tr[en[k]].key = k /\ tr[en[k]].stream # "waiting"
      BY <1>4, <2>2 DEF TablesOK, EntriesOK
    <3>2. CASE en[k] = i  BY <1>2, <2>2, <3>1, <3>2
    <3>3. CASE en[k] # i  BY <1>2, <2>2, <3>1, <3>3
    <3> QED  BY <3>2, <3>3
  <2> QED  BY <2>1, <2>2
<1>5. LocksOK(lk) /\ EntriesOK(tr2, en2) /\ TransfersOK(tr2, lk)
  BY <1>2, <1>3, <1>4 DEF TablesOK, EntriesOK, TransfersOK
<1> QED  BY <1>5 DEF TablesOK, tr2

LEMMA SendSnapshotStep ==
  ASSUME StreamInv, NEW i \in 1..Len(transfers), SendSnapshot(i)
  PROVE  StreamInv'
<1> DEFINE t == transfers[i]
           s == t.snap
           offset == IF t.offset = None THEN 0 ELSE t.offset
           closed == [transfers[i] EXCEPT !.stream = "closed"]
<1>t. /\ TablesOK(transfers, entries, locks) /\ InstallOK
      /\ replies \in Seq(ReplyType)
      /\ locks \in [Snapshot -> LockType] /\ entries \in [Key -> Nat]
  BY DEF StreamInv, ClientsOK, TablesOK, LocksOK, EntriesOK
<1>1. /\ t \in TransferType /\ s \in Snapshot /\ t.key \in Key /\ i \in Int
      /\ transfers \in Seq(TransferType)
  BY TransferTyped
<1>2. t.stream = "waiting" /\ i \in locks[s].shared
  BY DEF SendSnapshot
<1>3. UNCHANGED <<leader, current, install, requests, client, received, bounds>>
  BY DEF SendSnapshot
<1>4. closed \in TransferType /\ closed.key = t.key /\ closed.snap = s /\ closed.stream = "closed"
  BY <1>1 DEF TransferType, Stream
<1>5. [transfers EXCEPT ![i].stream = "closed"] = [transfers EXCEPT ![i] = closed]
  BY <1>1
<1>n. offset \in Int /\ Size[s] \in Int /\ s \in Int /\ leader \in BOOLEAN
  <2>1. offset \in Int  BY <1>1 DEF TransferType
  <2>2. Size[s] \in Int /\ s \in Int  BY <1>1, SnapshotType DEF Snapshot
  <2> QED  BY <2>1, <2>2 DEF StreamInv
<1>6. TablesOK(transfers', entries', locks') /\ replies' \in Seq(ReplyType)
  <2>1. CASE ~leader
    <3>1. /\ replies' = Append(replies, NotLeaderReply(t.key))
          /\ transfers' = [transfers EXCEPT ![i] = closed]
          /\ locks' = Without(locks, {i}) /\ entries' = entries
      BY <1>5, <2>1 DEF SendSnapshot, Unlocked
    <3>2. NotLeaderReply(t.key) \in ReplyType  BY <1>1, ReplyTyped
    <3>3. Append(replies, NotLeaderReply(t.key)) \in Seq(ReplyType)  BY <1>t, <3>2
    <3> HIDE DEF closed, t, s
    <3>4. {i} \in SUBSET {i} /\ \A k \in Key : entries[k] \in {0, entries[k]}  OBVIOUS
    <3>5. TablesOK([transfers EXCEPT ![i] = closed], entries, Without(locks, {i}))
      BY <1>t, <1>4, <3>4, ChangedTransfer DEF t, s
    <3> QED  BY <3>1, <3>3, <3>5
  <2>2. CASE leader /\ Replaced(s)
    <3> DEFINE again == [transfers[i] EXCEPT !.snap = current]
               lk == Locked(locks, current, i)
    <3>1. /\ transfers' = [transfers EXCEPT ![i].snap = current]
          /\ locks' = lk /\ UNCHANGED <<replies, entries>>
      BY <2>2 DEF SendSnapshot
    <3>2. [transfers EXCEPT ![i].snap = current] = [transfers EXCEPT ![i] = again]
      BY <1>1
    <3>3. current \in Snapshot  BY <1>t DEF InstallOK
    <3>4. again \in TransferType /\ again.key = t.key /\ again.stream = "waiting"
          /\ again.snap = current
      BY <1>1, <1>2, <3>3 DEF TransferType
    <3>5. TablesOK(transfers, entries, lk)  BY <1>t, <1>1, <3>3, TablesLocked
    <3>6. Called(lk, i, current)  BY <1>t, <1>1, <3>3, LockedType DEF TablesOK
    <3> HIDE DEF again, lk
    <3>7. TablesOK([transfers EXCEPT ![i] = again], entries, lk)
      BY <1>t, <1>2, <3>4, <3>5, <3>6, TablesExcept
    <3> QED  BY <1>t, <3>1, <3>2, <3>7
  <2>3. CASE leader /\ ~Replaced(s) /\ offset > Size[s]
    <3>1. /\ replies' = Append(replies, ChunkReply(t, Size[s], 0))
          /\ transfers' = [transfers EXCEPT ![i] = closed]
          /\ UNCHANGED <<locks, entries>>
      <4> HIDE DEF closed, offset, s
      <4>1. ~(offset <= Size[s])  BY <1>n, <2>3
      <4> QED  BY <1>5, <2>3, <4>1 DEF SendSnapshot, offset, s
    <3>3. ChunkReply(t, Size[s], 0) \in ReplyType
      BY <1>1, <1>n DEF ChunkReply, ReplyType, Status
    <3>4. Append(replies, ChunkReply(t, Size[s], 0)) \in Seq(ReplyType)  BY <1>t, <3>3
    <3> HIDE DEF closed
    <3>5. TablesOK([transfers EXCEPT ![i] = closed], entries, locks)
      BY <1>t, <1>4, TablesExcept
    <3> QED  BY <3>1, <3>4, <3>5
  <2>4. CASE leader /\ ~Replaced(s) /\ offset <= Size[s]
    <3> DEFINE reads == [transfers[i] EXCEPT !.confirmed = offset, !.sent = offset, !.read = offset,
                                             !.stream = "flowing"]
    <3>1. /\ transfers' = [transfers EXCEPT ![i] = reads]
          /\ entries' = [entries EXCEPT ![t.key] = i] /\ UNCHANGED <<locks, replies>>
      BY <1>1, <2>4 DEF SendSnapshot
    <3> HIDE DEF offset
    <3>3. reads \in TransferType /\ reads.key = t.key /\ reads.stream = "flowing" /\ reads.snap = s
      BY <1>1, <1>n DEF TransferType, Stream
    <3>4. s = current  BY <2>4 DEF Replaced
    <3>5. Open(locks, i, s)  BY <1>2, <3>4 DEF Open
    <3>6. entries' \in [Key -> Nat] /\ \A k \in Key : entries'[k] = entries[k] \/ (entries'[k] = i /\ t.key = k)
      BY <1>t, <1>1, <3>1
    <3> HIDE DEF reads
    <3>7. TablesOK([transfers EXCEPT ![i] = reads], entries', locks)
      BY <1>t, <3>3, <3>5, <3>6, TablesExcept
    <3> QED  BY <1>t, <3>1, <3>7
  <2> QED  BY <1>n, <2>1, <2>2, <2>3, <2>4
<1>7. ClientsOK' /\ BoundsOK'
  BY <1>3, <1>6 DEF StreamInv, ClientsOK, BoundsOK, bounds
<1> QED  BY <1>3, <1>6, <1>7, StreamStep DEF StreamInv

LEMMA StepDownStep ==
  ASSUME StreamInv, StepDown
  PROVE  StreamInv'
<1> DEFINE ended == {i \in 1..Len(transfers) : entries[transfers[i].key] = i}
           tr == [i \in 1..Len(transfers) |->
                    IF i \in ended THEN [transfers[i] EXCEPT !.stream = "closed"] ELSE transfers[i]]
<1>1. transfers \in Seq(TransferType) /\ TablesOK(transfers, entries, locks)
  BY DEF StreamInv, TablesOK, TransfersOK
<1>2. /\ transfers' = tr /\ entries' = [k \in Key |-> 0] /\ locks' = Without(locks, ended)
      /\ leader' = FALSE /\ stepDowns < MaxStepDowns /\ stepDowns' = stepDowns + 1
      /\ UNCHANGED <<current, install, requests, replies, client, received, losses, late>>
  BY DEF StepDown
<1> HIDE DEF ended
<1>3. ASSUME NEW i \in 1..Len(transfers)
      PROVE  /\ tr[i] \in TransferType
             /\ tr[i].key = transfers[i].key /\ tr[i].snap = transfers[i].snap
             /\ tr[i].stream = "closed" \/ (i \notin ended /\ tr[i].stream = transfers[i].stream)
  <2>1. transfers[i] \in TransferType  BY <1>1
  <2> QED  BY <2>1 DEF TransferType, Stream
<1>4. tr \in Seq(TransferType) /\ Len(tr) = Len(transfers)
  <2>1. Len(transfers) \in Nat  BY <1>1
  <2>2. \A i \in 1..Len(transfers) :
          (IF i \in ended THEN [transfers[i] EXCEPT !.stream = "closed"] ELSE transfers[i])
            \in TransferType
    BY <1>3
  <2> QED  BY <2>1, <2>2, IsASeq
<1> HIDE DEF tr
<1>5. entries' \in [Key -> Nat] /\ \A k \in Key : entries'[k] \in {0, entries[k]}
  BY <1>2
<1>6. TablesOK(tr, entries', Without(locks, ended))
  BY <1>1, <1>3, <1>4, <1>5, TablesStep
<1>7. TablesOK(transfers', entries', locks')  BY <1>2, <1>6
<1>8. ClientsOK' /\ BoundsOK'
  BY <1>2, BoundAssumption DEF StreamInv, ClientsOK, BoundsOK
<1> QED  BY <1>2, <1>7, <1>8, StreamStep

LEMMA BecomeLeaderStep ==
  ASSUME StreamInv, BecomeLeader
  PROVE  StreamInv'
<1>1. /\ leader' = TRUE
      /\ UNCHANGED <<current, install, locks, transfers, entries, requests, replies, client,
                     received, bounds>>
  BY DEF BecomeLeader
<1>2. TablesOK(transfers', entries', locks') /\ ClientsOK' /\ BoundsOK'
  BY <1>1 DEF StreamInv, ClientsOK, BoundsOK, bounds
<1> QED  BY <1>1, <1>2, StreamStep

-----------------------------------------------------------------------------
(* The installation of a newer snapshot. *)

\* What the installation changes in the locks
LEMMA InstallStep ==
  ASSUME StreamInv, RequestInstall \/ BeginInstall \/ EndInstall
  PROVE  StreamInv'
<1>1. /\ UNCHANGED <<leader, transfers, entries, requests, replies, client, received, bounds>>
      /\ transfers \in Seq(TransferType)
  BY DEF RequestInstall, BeginInstall, EndInstall, StreamInv, TablesOK, TransfersOK
<1>2. ClientsOK' /\ BoundsOK' /\ leader' \in BOOLEAN
  BY <1>1 DEF StreamInv, ClientsOK, BoundsOK, bounds
<1>3. EntriesOK(transfers, entries)'
  BY <1>1 DEF StreamInv, TablesOK, EntriesOK
<1>4. InstallOK'
  BY DEF StreamInv, InstallOK, RequestInstall, BeginInstall, EndInstall, Snapshot
<1>5. LocksOK(locks)' /\ TransfersOK(transfers, locks)'
  <2>1. CASE RequestInstall
    <3>1. install = "idle" /\ install' = "waiting" /\ UNCHANGED <<current, locks>>
      BY <2>1 DEF RequestInstall
    <3>2. \A s \in Snapshot : Exclusive(s) => Exclusive(s)'  BY <3>1 DEF Exclusive
    <3> QED
      BY <1>1, <3>1, <3>2 DEF StreamInv, TablesOK, LocksOK, TransfersOK, Called, Open
  <2>2. CASE BeginInstall
    <3>1. /\ install = "waiting" /\ install' = "replacing" /\ current' = current + 1
          /\ UNCHANGED locks /\ locks[current].shared = {} /\ current \in Int
      BY <2>2 DEF BeginInstall, StreamInv, InstallOK, Snapshot
    <3>2. \A s \in Snapshot : Exclusive(s) => Exclusive(s)'  BY <3>1 DEF Exclusive
    <3>3. LocksOK(locks)'  BY <3>1, <3>2 DEF StreamInv, TablesOK, LocksOK
    <3>4. \A i \in 1..Len(transfers) : transfers[i].stream \notin {"flowing", "paused"}
      BY <3>1 DEF StreamInv, TablesOK, TransfersOK, Open
    <3> QED
      BY <1>1, <3>1, <3>3, <3>4 DEF StreamInv, TablesOK, TransfersOK, Called
  <2>3. CASE EndInstall
    <3> DEFINE old == current - 1
    <3>1. /\ install = "replacing" /\ install' = "idle" /\ UNCHANGED current
          /\ current \in Snapshot /\ old \in Snapshot /\ old # current
          /\ locks \in [Snapshot -> LockType]
      BY <2>3 DEF EndInstall, StreamInv, InstallOK, Snapshot, TablesOK, LocksOK
    <3>2. locks' = [locks EXCEPT ![old] = [shared |-> locks[old].shared \union locks[old].waiting,
                                           waiting |-> {}]]
      BY <2>3 DEF EndInstall
    <3>3. \A s \in Snapshot : s # old => locks[s].waiting = {}
      BY <3>1 DEF StreamInv, TablesOK, LocksOK, Exclusive
    <3>4. [shared |-> locks[old].shared \union locks[old].waiting, waiting |-> {}] \in LockType
      BY <3>1 DEF LockType
    <3>5. /\ locks' \in [Snapshot -> LockType]
          /\ \A s \in Snapshot : s # old => locks'[s] = locks[s]
          /\ locks'[old].shared = locks[old].shared \union locks[old].waiting
          /\ locks'[old].waiting = {}
      BY <3>1, <3>2, <3>4
    <3> HIDE DEF old
    <3>6. LocksOK(locks)'  BY <3>3, <3>5 DEF LocksOK
    <3>7. ASSUME NEW i \in 1..Len(transfers)
          PROVE  /\ transfers[i].stream = "waiting" => Called(locks', i, transfers[i].snap)
                 /\ transfers[i].stream \in {"flowing", "paused"} => Open(locks', i, transfers[i].snap)
      <4>1. transfers[i].snap \in Snapshot  BY TransferTyped
      <4>2. /\ transfers[i].stream = "waiting" => Called(locks, i, transfers[i].snap)
            /\ transfers[i].stream \in {"flowing", "paused"} => Open(locks, i, transfers[i].snap)
        BY DEF StreamInv, TablesOK, TransfersOK
      <4>3. CASE transfers[i].snap = old  BY <3>1, <3>5, <4>2, <4>3 DEF Called, Open
      <4>4. CASE transfers[i].snap # old  BY <3>1, <3>5, <4>1, <4>2, <4>4 DEF Called, Open
      <4> QED  BY <4>3, <4>4
    <3> QED  BY <1>1, <3>1, <3>6, <3>7 DEF TransfersOK, Called, Open
  <2> QED  BY <2>1, <2>2, <2>3
<1> QED  BY <1>2, <1>3, <1>4, <1>5 DEF StreamInv, TablesOK

-----------------------------------------------------------------------------
(* The client. *)

\* A step of the client, or a lost message
LEMMA ClientStep ==
  ASSUME StreamInv, UNCHANGED server, ClientsOK', BoundsOK'
  PROVE  StreamInv'
<1>1. TablesOK(transfers', entries', locks') /\ leader' \in BOOLEAN /\ UNCHANGED <<current, install>>
  BY DEF StreamInv, server
<1> QED  BY <1>1, StreamStep

LEMMA AttemptType ==
  ASSUME StreamInv, NEW c \in ClientType, Attempt(c)
  PROVE  client' \in ClientType /\ requests' \in Seq(RequestType)
<1>1. /\ c.key < MaxAttempts
      /\ client' = [c EXCEPT !.key = @ + 1, !.phase = "waiting",
                             !.byte = IF c.offset = None THEN 0 ELSE c.offset]
      /\ requests' = Append(requests, Request(c.key + 1, c.prev, c.offset, FALSE))
  BY DEF Attempt
<1>2. /\ c.key \in Key /\ c.key + 1 \in Key /\ c.prev \in Int /\ c.offset \in Int \union {None}
      /\ (IF c.offset = None THEN 0 ELSE c.offset) \in Int
  BY <1>1, BoundAssumption DEF ClientType, Key
<1>3. client' \in ClientType  BY <1>1, <1>2 DEF ClientType, Phase
<1> DEFINE r == Request(c.key + 1, c.prev, c.offset, FALSE)
<1>4. r \in RequestType  BY <1>2 DEF Request, RequestType
<1>5. requests \in Seq(RequestType)  BY DEF StreamInv, ClientsOK
<1>6. requests' = Append(requests, r)  BY <1>1
<1> HIDE DEF r
<1>7. requests' \in Seq(RequestType)  BY <1>4, <1>5, <1>6
<1> QED  BY <1>3, <1>7

LEMMA AttemptStep ==
  ASSUME StreamInv, Timeout \/ Continue
  PROVE  StreamInv'
<1>1. Attempt(client) /\ UNCHANGED <<server, replies, received, bounds>>
  BY DEF Timeout, Continue
<1>2. client \in ClientType  BY DEF StreamInv, ClientsOK
<1>3. client' \in ClientType /\ requests' \in Seq(RequestType)  BY <1>1, <1>2, AttemptType
<1>4. ClientsOK' /\ BoundsOK'
  BY <1>1, <1>3 DEF StreamInv, ClientsOK, BoundsOK, bounds
<1> QED  BY <1>1, <1>4, ClientStep

LEMMA ChunkStep ==
  ASSUME StreamInv, NEW m \in ReplyType, ReceiveChunk(m)
  PROVE  /\ client' \in ClientType /\ requests' \in Seq(RequestType)
         /\ received' \in Seq(GivenType)
<1> DEFINE c == AfterChunk(m)
<1>1. /\ client \in ClientType /\ requests \in Seq(RequestType)
      /\ received \in Seq(GivenType)
  BY DEF StreamInv, ClientsOK
<1>2. m.from \in Int /\ m.index \in Int /\ m.length \in Int  BY DEF ReplyType
<1>3. CASE /\ client' = [client EXCEPT !.phase = "failed"]
           /\ UNCHANGED <<requests, received>>
  <2>1. [client EXCEPT !.phase = "failed"] \in ClientType  BY <1>1 DEF ClientType, Phase
  <2> QED  BY <1>1, <1>3, <2>1
<1>4. CASE /\ received' = Append(IF client.offset = None THEN <<>> ELSE received, Given(m))
           /\ \E stop \in BOOLEAN :
                /\ requests' = Append(requests, Request(c.key, c.prev, c.offset, stop))
                /\ client' = [c EXCEPT !.phase = IF stop THEN "paused" ELSE @]
  <2>1. c \in ClientType
    <3> DEFINE byte == m.from + m.length
    <3>1. byte \in Int  BY <1>2
    <3>2. c = IF byte = m.size THEN [client EXCEPT !.byte = byte, !.prev = m.index, !.offset = None]
                               ELSE [client EXCEPT !.byte = byte, !.offset = byte]
      BY DEF AfterChunk
    <3> HIDE DEF byte, c
    <3>3. /\ [client EXCEPT !.byte = byte, !.prev = m.index, !.offset = None] \in ClientType
          /\ [client EXCEPT !.byte = byte, !.offset = byte] \in ClientType
      BY <1>1, <1>2, <3>1 DEF ClientType
    <3> QED  BY <3>2, <3>3
  <2> HIDE DEF c
  <2>2. PICK stop \in BOOLEAN :
          /\ requests' = Append(requests, Request(c.key, c.prev, c.offset, stop))
          /\ client' = [c EXCEPT !.phase = IF stop THEN "paused" ELSE @]
    BY <1>4
  <2>3. Request(c.key, c.prev, c.offset, stop) \in RequestType
    BY <2>1 DEF Request, RequestType, ClientType
  <2>4. requests' \in Seq(RequestType)  BY <1>1, <2>2, <2>3
  <2>5. client' \in ClientType  BY <2>1, <2>2 DEF ClientType, Phase
  <2>6. Given(m) \in GivenType  BY <1>2 DEF Given, GivenType
  <2>7. (IF client.offset = None THEN <<>> ELSE received) \in Seq(GivenType)
    BY <1>1
  <2> QED  BY <1>4, <2>4, <2>5, <2>6, <2>7
<1> QED  BY <1>3, <1>4 DEF ReceiveChunk

LEMMA ReceiveStep ==
  ASSUME StreamInv, Receive
  PROVE  StreamInv'
<1> DEFINE m == Head(replies)
<1>1. /\ client \in ClientType /\ requests \in Seq(RequestType)
      /\ received \in Seq(GivenType) /\ replies \in Seq(ReplyType)
  BY DEF StreamInv, ClientsOK
<1>2. m \in ReplyType /\ Tail(replies) \in Seq(ReplyType)
  <2>1. replies # <<>>  BY DEF Receive
  <2> QED  BY <1>1, <2>1
<1>3. replies' = Tail(replies) /\ UNCHANGED <<server, bounds>>  BY DEF Receive
<1>4. m.status \in Status  BY <1>2 DEF ReplyType
<1>5. /\ client' \in ClientType /\ requests' \in Seq(RequestType)
      /\ received' \in Seq(GivenType)
  <2>1. CASE UNCHANGED <<client, requests, received>>  BY <1>1, <2>1
  <2>2. CASE ReceiveChunk(m)  BY <1>2, <2>2, ChunkStep
  <2>3. CASE /\ client' = [client EXCEPT !.phase = "done"] \/ client' = [client EXCEPT !.phase = "paused"]
             /\ UNCHANGED <<requests, received>>
    <3>1. /\ [client EXCEPT !.phase = "done"] \in ClientType
          /\ [client EXCEPT !.phase = "paused"] \in ClientType
      BY <1>1 DEF ClientType, Phase
    <3> QED  BY <1>1, <2>3, <3>1
  <2> QED  BY <1>4, <2>1, <2>2, <2>3 DEF Receive, Status
<1>6. ClientsOK' /\ BoundsOK'
  BY <1>2, <1>3, <1>5 DEF StreamInv, ClientsOK, BoundsOK, bounds
<1> QED  BY <1>3, <1>6, ClientStep

LEMMA LoseStep ==
  ASSUME StreamInv, LoseMessage
  PROVE  StreamInv'
<1>1. requests \in Seq(RequestType) /\ replies \in Seq(ReplyType)  BY DEF StreamInv, ClientsOK
<1>2. requests' \in Seq(RequestType) /\ replies' \in Seq(ReplyType)
  <2>1. CASE requests # <<>> /\ requests' = Tail(requests) /\ UNCHANGED replies  BY <1>1, <2>1
  <2>2. CASE replies # <<>> /\ replies' = Tail(replies) /\ UNCHANGED requests  BY <1>1, <2>2
  <2> QED  BY <2>1, <2>2 DEF LoseMessage
<1>3. ClientsOK' /\ BoundsOK' /\ UNCHANGED server
  BY <1>2 DEF StreamInv, ClientsOK, BoundsOK, LoseMessage
<1> QED  BY <1>3, ClientStep

LEMMA StreamInit ==
  ASSUME NEW sent \in Seq(RequestType), NEW phase \in Phase, InitWith(sent, phase)
  PROVE  StreamInv
<1>1. /\ leader = TRUE /\ current = 1 /\ install = "idle" /\ transfers = <<>>
      /\ locks = [s \in Snapshot |-> [shared |-> {}, waiting |-> {}]]
      /\ entries = [k \in Key |-> 0] /\ requests = sent /\ replies = <<>> /\ received = <<>>
      /\ client = [key |-> 1, prev |-> 0, offset |-> None, byte |-> 0, phase |-> phase]
      /\ losses = 0 /\ stepDowns = 0 /\ late = FALSE
  BY DEF InitWith
<1>2. InstallOK  BY <1>1, SnapshotType DEF InstallOK
<1>3. LocksOK(locks)  BY <1>1 DEF LocksOK, LockType
<1>4. EntriesOK(transfers, entries) /\ TransfersOK(transfers, locks)
  BY <1>1 DEF EntriesOK, TransfersOK
<1>5. client \in ClientType  BY <1>1, BoundAssumption DEF ClientType, Key
<1>6. ClientsOK  BY <1>1, <1>5 DEF ClientsOK
<1>7. BoundsOK
  <2>1. MaxStepDowns \in Nat  BY BoundAssumption
  <2>2. 0 \in 0..MaxStepDowns /\ 0 \in Nat  BY <2>1
  <2>3. late \in BOOLEAN  BY <1>1
  <2> QED  BY <1>1, <2>2, <2>3, Zenon DEF BoundsOK
<1> QED  BY <1>1, <1>2, <1>3, <1>4, <1>6, <1>7 DEF StreamInv, TablesOK

\* Every step with a client keeps the invariant.
LEMMA NextStep ==
  ASSUME StreamInv, Next
  PROVE  StreamInv'
<1>1. CASE \E i \in 1..Len(transfers) : Data(i) \/ End(i) \/ SendSnapshot(i)
  BY <1>1, DataStep, EndStep, SendSnapshotStep
<1>2. CASE \E k \in Key : Expire(k)  BY <1>2, ExpireStep
<1>3. CASE HandleRequest  BY <1>3, RequestStep
<1>4. CASE StepDown  BY <1>4, StepDownStep
<1>5. CASE BecomeLeader  BY <1>5, BecomeLeaderStep
<1>6. CASE RequestInstall \/ BeginInstall \/ EndInstall  BY <1>6, InstallStep
<1>7. CASE Timeout \/ Continue  BY <1>7, AttemptStep
<1>8. CASE Receive  BY <1>8, ReceiveStep
<1>9. CASE LoseMessage  BY <1>9, LoseStep
<1> QED  BY <1>1, <1>2, <1>3, <1>4, <1>5, <1>6, <1>7, <1>8, <1>9 DEF Next

-----------------------------------------------------------------------------
(* The calls of sendInstallSnapshot and the locks. *)

LEMMA TermType ==
  /\ Term \subseteq Nat
  /\ \A t \in Term : Caller(t) \in Int /\ (\A n : Caller(t) \notin 1..n)
  /\ \A t, u \in Term : Caller(t) = Caller(u) => t = u
<1>1. MaxStepDowns \in Nat  BY BoundAssumption
<1> QED  BY <1>1 DEF Term, Caller

LEMMA TermInt == \A t \in Term : t \in Int
<1>1. MaxStepDowns \in Nat  BY BoundAssumption
<1> QED  BY <1>1 DEF Term

LEMMA CurrentTermType ==
  ASSUME StreamInv
  PROVE  CurrentTerm \in Term /\ current \in Snapshot /\ current \in Nat
<1>1. stepDowns \in 0..MaxStepDowns /\ MaxStepDowns \in Nat
  BY BoundAssumption DEF StreamInv, BoundsOK
<1> QED  BY <1>1 DEF CurrentTerm, Term, StreamInv, InstallOK, Snapshot

\* Without the call of term t
LEMMA CallEnds ==
  ASSUME StreamInv, PeerInv, NEW t \in Term
  PROVE  /\ TablesOK(transfers, entries, Unlocked(locks, Caller(t)))
         /\ SendingOK([sending EXCEPT ![t] = None], Unlocked(locks, Caller(t)))
         /\ [sending EXCEPT ![t] = None] \in [Term -> Reading \union {None}]
         /\ \A s \in Snapshot : ~Called(Unlocked(locks, Caller(t)), Caller(t), s)
<1> DEFINE c == Caller(t)
           lk == Without(locks, {c})
           snd == [sending EXCEPT ![t] = None]
<1>1. Unlocked(locks, c) = lk  BY DEF Unlocked
<1>2. /\ TablesOK(transfers, entries, locks) /\ LocksOK(locks)
      /\ transfers \in Seq(TransferType) /\ Len(transfers) \in Nat
      /\ entries \in [Key -> Nat]
  BY DEF StreamInv, TablesOK, TransfersOK, EntriesOK
<1>3. c \in Int /\ c \notin 1..Len(transfers)  BY TermType
<1>4. /\ \A s \in Snapshot, i \in Int : i # c =>
           /\ i \in lk[s].shared <=> i \in locks[s].shared
           /\ i \in lk[s].waiting <=> i \in locks[s].waiting
      /\ \A s \in Snapshot : ~Called(lk, c, s)
  <2>1. \A i \in Int : i # c => i \notin {c}  OBVIOUS
  <2>2. c \in {c}  OBVIOUS
  <2> QED  BY <1>2, <2>1, <2>2, WithoutType
<1>5. TablesOK(transfers, entries, lk)
  <2>1. \A j \in 1..Len(transfers) : j \notin {c}  BY <1>3
  <2>2. \A k \in Key : entries[k] \in {0, entries[k]}  OBVIOUS
  <2> QED  BY <1>2, <2>1, <2>2, TablesStep
<1>6. /\ sending \in [Term -> Reading \union {None}]
      /\ snd \in [Term -> Reading \union {None}]
      /\ snd[t] = None /\ \A u \in Term : u # t => snd[u] = sending[u]
  BY DEF PeerInv, PeerType
<1> HIDE DEF c, lk, snd
<1>7. ASSUME NEW u \in Term, snd[u] # None
      PROVE  /\ u <= CurrentTerm /\ (u = CurrentTerm => leader) /\ snd[u].snap <= current
             /\ Called(lk, Caller(u), snd[u].snap)
             /\ snd[u].step = "read" => Open(lk, Caller(u), snd[u].snap)
             /\ \A s \in Snapshot : Caller(u) \notin lk[s].shared \/ Caller(u) \notin lk[s].waiting
  <2>1. u # t /\ snd[u] = sending[u]  BY <1>6, <1>7
  <2>2. Caller(u) # c /\ Caller(u) \in Int  BY <2>1, TermType DEF c
  <2>3. snd[u] \in Reading  BY <1>6, <1>7
  <2>4. snd[u].snap \in Snapshot  BY <2>3 DEF Reading
  <2>5. /\ u <= CurrentTerm /\ (u = CurrentTerm => leader) /\ snd[u].snap <= current
        /\ Called(locks, Caller(u), snd[u].snap)
        /\ snd[u].step = "read" => Open(locks, Caller(u), snd[u].snap)
        /\ \A s \in Snapshot :
             Caller(u) \notin locks[s].shared \/ Caller(u) \notin locks[s].waiting
    BY <1>7, <2>1 DEF PeerInv, SendingOK
  <2> QED  BY <1>4, <2>2, <2>4, <2>5 DEF Called, Open
<1>8. SendingOK(snd, lk)  BY <1>7 DEF SendingOK
<1> QED  BY <1>1, <1>4, <1>5, <1>6, <1>8 DEF c, snd

\* sendInstallSnapshot in the current term.
LEMMA CallStarts ==
  ASSUME StreamInv, PeerInv, leader, NEW s \in Snapshot, s <= current, NEW at \in Int, at >= 0,
         Send(CurrentTerm, s, at)
  PROVE  /\ TablesOK(transfers, entries, locks')
         /\ SendingOK(sending', locks')
         /\ sending' \in [Term -> Reading \union {None}]
         /\ \A u \in Term : u # CurrentTerm => sending'[u] = sending[u]
         /\ \A u \in Term, z \in Snapshot : u # CurrentTerm =>
              (Caller(u) \in locks[z].waiting => Caller(u) \in locks'[z].waiting)
<1> DEFINE t == CurrentTerm
           c == Caller(t)
           lk == Unlocked(locks, c)
           r == [snap |-> s, at |-> Smaller(at, Size[s]), step |-> "lock"]
<1>1. t \in Term /\ c \in Int  BY CurrentTermType, TermType
<1>2. /\ TablesOK(transfers, entries, lk) /\ SendingOK([sending EXCEPT ![t] = None], lk)
      /\ \A z \in Snapshot : ~Called(lk, c, z)
  BY <1>1, CallEnds
<1>3. LocksOK(lk)  BY <1>2 DEF TablesOK
<1>4. sending' = [sending EXCEPT ![t] = r] /\ locks' = Locked(lk, s, c)  BY DEF Send
<1>5. sending \in [Term -> Reading \union {None}]  BY DEF PeerInv, PeerType
<1>6. r \in Reading /\ r # None
  <2>1. Size[s] \in Nat  BY SnapshotType
  <2>2. Smaller(at, Size[s]) \in Nat  BY <2>1 DEF Smaller
  <2>3. r \in Reading  BY <2>2 DEF Reading
  <2> HIDE DEF r
  <2> QED  BY <2>3, NoneAssumption
<1>7. r.snap = s /\ r.step = "lock"  OBVIOUS
<1> HIDE DEF r
<1>8. /\ sending' \in [Term -> Reading \union {None}] /\ sending'[t] = r
      /\ \A u \in Term : u # t => sending'[u] = sending[u]
  BY <1>1, <1>4, <1>5, <1>6
<1> HIDE DEF t, c, lk
<1>9. TablesOK(transfers, entries, locks')  BY <1>1, <1>2, <1>4, TablesLocked
<1>10. /\ Called(locks', c, s)
       /\ \A z \in Snapshot : lk[z].shared \subseteq locks'[z].shared
                              /\ lk[z].waiting \subseteq locks'[z].waiting
       /\ \A z \in Snapshot, j \in Int : j # c =>
            /\ j \in locks'[z].shared => j \in lk[z].shared
            /\ j \in locks'[z].waiting => j \in lk[z].waiting
  BY <1>1, <1>3, <1>4, LockedType
<1>11. \A z \in Snapshot : c \notin locks'[z].shared \/ c \notin locks'[z].waiting
  BY <1>1, <1>2, <1>3, <1>4, LockedOnce
<1>12. ASSUME NEW u \in Term, sending'[u] # None
       PROVE  /\ u <= CurrentTerm /\ (u = CurrentTerm => leader) /\ sending'[u].snap <= current
              /\ Called(locks', Caller(u), sending'[u].snap)
              /\ sending'[u].step = "read" => Open(locks', Caller(u), sending'[u].snap)
              /\ \A z \in Snapshot :
                   Caller(u) \notin locks'[z].shared \/ Caller(u) \notin locks'[z].waiting
  <2>1. CASE u = t
    <3>1. u <= CurrentTerm  BY <2>1, TermType DEF t
    <3> QED  BY <1>7, <1>8, <1>10, <1>11, <2>1, <3>1 DEF c
  <2>2. CASE u # t
    <3> DEFINE snd == [sending EXCEPT ![t] = None]
    <3>1. snd[u] = sending[u] /\ sending'[u] = sending[u]  BY <1>5, <1>8, <2>2
    <3>2. /\ u <= CurrentTerm /\ (u = CurrentTerm => leader) /\ sending[u].snap <= current
          /\ Called(lk, Caller(u), sending[u].snap)
          /\ sending[u].step = "read" => Open(lk, Caller(u), sending[u].snap)
          /\ \A z \in Snapshot : Caller(u) \notin lk[z].shared \/ Caller(u) \notin lk[z].waiting
      BY <1>2, <1>12, <3>1 DEF SendingOK
    <3>3. sending[u] \in Reading  BY <1>5, <1>12, <3>1
    <3>4. sending[u].snap \in Snapshot  BY <3>3 DEF Reading
    <3>5. Caller(u) # c /\ Caller(u) \in Int  BY <1>1, <2>2, TermType DEF c
    <3>6. /\ Called(locks', Caller(u), sending[u].snap)
          /\ sending[u].step = "read" => Open(locks', Caller(u), sending[u].snap)
      BY <1>10, <3>2, <3>4 DEF Called, Open
    <3>7. \A z \in Snapshot :
            Caller(u) \notin locks'[z].shared \/ Caller(u) \notin locks'[z].waiting
      BY <1>10, <3>2, <3>5
    <3> QED  BY <3>1, <3>2, <3>6, <3>7
  <2> QED  BY <2>1, <2>2
<1>13. SendingOK(sending', locks')  BY <1>12 DEF SendingOK
<1>14. ASSUME NEW u \in Term, NEW z \in Snapshot, u # t, Caller(u) \in locks[z].waiting
       PROVE  Caller(u) \in locks'[z].waiting
  <2>1. Caller(u) # c /\ Caller(u) \in Int  BY <1>1, <1>14, TermType DEF c
  <2>2. LocksOK(locks)  BY DEF StreamInv, TablesOK
  <2>3. Caller(u) \notin {c}  BY <2>1
  <2>4. Caller(u) \in Without(locks, {c})[z].waiting  BY <1>14, <2>1, <2>2, <2>3, WithoutType
  <2> QED  BY <1>10, <2>4 DEF lk, Unlocked
<1> QED  BY <1>8, <1>9, <1>13, <1>14 DEF t

-----------------------------------------------------------------------------
(* Sending a snapshot to a follower, and handling it. *)

\* A step between the leader and the follower in one term.
LEMMA PeerKeeps ==
  ASSUME StreamInv, PeerInv, ByPeer,
         UNCHANGED <<leader, current, install, transfers, entries, requests, replies, client,
                     received, stepDowns>>,
         TablesOK(transfers, entries, locks'), BoundsOK',
         PeerType', SendingOK(sending', locks'), LinkOK'
  PROVE  StreamInv' /\ PeerInv'
<1>1. TablesOK(transfers', entries', locks') /\ ClientsOK' /\ leader' \in BOOLEAN
  BY DEF StreamInv, ClientsOK
<1>2. StreamInv'  BY <1>1, StreamStep
<1>3. SendingOK(sending, locks)'
  BY DEF SendingOK, Called, Open, CurrentTerm
<1>4. Alone'  BY DEF Alone, ByPeer
<1> QED  BY <1>2, <1>3, <1>4 DEF PeerInv

\* What the first group of steps leaves alone
Apart == UNCHANGED <<transfers, entries, requests, replies, client, received, bounds>>

LEMMA PeerTyped ==
  ASSUME PeerInv
  PROVE  /\ sending \in [Term -> Reading \union {None}]
         /\ \A t \in Term : sending[t] # None =>
              /\ sending[t] \in Reading /\ sending[t].snap \in Snapshot /\ sending[t].at \in Nat
              /\ sending[t].step \in {"lock", "read"}
         /\ rpc # None =>
              /\ rpc \in Message /\ rpc.snap \in Snapshot /\ rpc.at \in Nat /\ rpc.term \in Term
              /\ rpc.is \in Contents
<1>1. sending \in [Term -> Reading \union {None}] /\ rpc \in Message \union {None}
  BY DEF PeerInv, PeerType
<1>2. ASSUME NEW t \in Term, sending[t] # None
      PROVE  /\ sending[t] \in Reading /\ sending[t].snap \in Snapshot /\ sending[t].at \in Nat
             /\ sending[t].step \in {"lock", "read"}
  <2>1. sending[t] \in Reading  BY <1>1, <1>2
  <2> QED  BY <2>1 DEF Reading
<1>3. ASSUME rpc # None
      PROVE  /\ rpc \in Message /\ rpc.snap \in Snapshot /\ rpc.at \in Nat /\ rpc.term \in Term
             /\ rpc.is \in Contents
  <2>1. rpc \in Message  BY <1>1, <1>3
  <2> QED  BY <2>1 DEF Message
<1> QED  BY <1>1, <1>2, <1>3

LEMMA BeginReadStep ==
  ASSUME StreamInv, PeerInv, ByPeer, NEW t \in Term, BeginRead(t), Apart
  PROVE  StreamInv' /\ PeerInv'
<1> DEFINE s == sending[t].snap
<1>1. /\ sending[t] # None /\ Caller(t) \in locks[s].shared /\ sending[t].step = "lock"
      /\ UNCHANGED <<leader, current, install, next, match, link, buffer, log, known, tmp>>
  BY DEF BeginRead, Holder
<1>2. UNCHANGED <<transfers, entries, requests, replies, client, received, losses, stepDowns, late>>
  BY DEF Apart, bounds
<1>3. /\ sending \in [Term -> Reading \union {None}] /\ sending[t] \in Reading
      /\ s \in Snapshot
  BY <1>1, PeerTyped
<1>4. BoundsOK'  BY <1>2 DEF StreamInv, BoundsOK
<1>5. TablesOK(transfers, entries, locks)  BY DEF StreamInv
<1>6. /\ TablesOK(transfers, entries, locks') /\ SendingOK(sending', locks')
      /\ sending' \in [Term -> Reading \union {None}]
      /\ sending[CurrentTerm] = None => sending'[CurrentTerm] = None
  <2>1. CASE ~Replaced(s)
    <3> DEFINE r == [sending[t] EXCEPT !.step = "read"]
    <3>1. sending' = [sending EXCEPT ![t].step = "read"] /\ UNCHANGED locks
      BY <2>1 DEF BeginRead
    <3>2. [sending EXCEPT ![t].step = "read"] = [sending EXCEPT ![t] = r]
      BY <1>3
    <3>3. r \in Reading /\ r.snap = s /\ r.step = "read"  BY <1>3 DEF Reading
    <3> HIDE DEF r
    <3>4. /\ sending' \in [Term -> Reading \union {None}] /\ sending'[t] = r
          /\ \A u \in Term : u # t => sending'[u] = sending[u]
      BY <1>3, <3>1, <3>2, <3>3
    <3>5. s = current  BY <2>1 DEF Replaced
    <3>6. SendingOK(sending, locks)  BY DEF PeerInv
    <3>7. ASSUME NEW u \in Term, sending'[u] # None
          PROVE  /\ u <= CurrentTerm /\ (u = CurrentTerm => leader) /\ sending'[u].snap <= current
                 /\ Called(locks, Caller(u), sending'[u].snap)
                 /\ sending'[u].step = "read" => Open(locks, Caller(u), sending'[u].snap)
                 /\ \A z \in Snapshot :
                      Caller(u) \notin locks[z].shared \/ Caller(u) \notin locks[z].waiting
      <4>1. CASE u = t  BY <1>1, <3>3, <3>4, <3>5, <3>6, <4>1 DEF SendingOK, Open
      <4>2. CASE u # t
        <5>1. sending'[u] = sending[u]  BY <3>4, <4>2
        <5> QED  BY <3>6, <3>7, <5>1 DEF SendingOK
      <4> QED  BY <4>1, <4>2
    <3>8. SendingOK(sending', locks)  BY <3>7 DEF SendingOK
    <3>9. sending[CurrentTerm] = None => sending'[CurrentTerm] = None
      BY <1>1, <3>4, CurrentTermType
    <3> QED  BY <1>5, <3>1, <3>4, <3>8, <3>9
  <2>2. CASE Replaced(s) /\ Leads(t)
    <3>1. Send(CurrentTerm, current, 0) /\ leader  BY <2>2 DEF BeginRead, Leads
    <3>2. current \in Snapshot /\ current <= current  BY CurrentTermType
    <3>3. sending[CurrentTerm] # None  BY <1>1, <2>2 DEF Leads
    <3> QED  BY <3>1, <3>2, <3>3, CallStarts
  <2>3. CASE Replaced(s) /\ ~Leads(t)
    <3>1. sending' = [sending EXCEPT ![t] = None] /\ locks' = Unlocked(locks, Caller(t))
      BY <2>3 DEF BeginRead, Ends
    <3>2. sending[CurrentTerm] = None => sending'[CurrentTerm] = None
      BY <1>3, <3>1, CurrentTermType
    <3> QED  BY <3>1, <3>2, CallEnds
  <2> QED  BY <2>1, <2>2, <2>3
<1>7. PeerType'  BY <1>1, <1>6 DEF PeerInv, PeerType, link
<1>8. LinkOK'
  <2>1. CurrentTerm' = CurrentTerm  BY <1>2 DEF CurrentTerm
  <2> QED  BY <1>1, <1>6, <2>1 DEF PeerInv, LinkOK, link
<1> QED  BY <1>1, <1>2, <1>4, <1>6, <1>7, <1>8, PeerKeeps

LEMMA EndReadStep ==
  ASSUME StreamInv, PeerInv, ByPeer, NEW t \in Term, EndRead(t), Apart
  PROVE  StreamInv' /\ PeerInv'
<1> DEFINE s == sending[t].snap
           at == sending[t].at
           m == [term |-> t, snap |-> s, at |-> at, is |-> Chunk(s, at), live |-> TRUE]
<1>1. /\ sending[t] # None
      /\ sending' = [sending EXCEPT ![t] = None] /\ locks' = Unlocked(locks, Caller(t))
      /\ buffer' = Chunk(s, at)
      /\ UNCHANGED <<leader, current, install, next, match, answer, log, known, tmp>>
      /\ Leads(t) => rpc' = m /\ wire' = wire \union {m}
      /\ ~Leads(t) => UNCHANGED <<rpc, wire>>
  BY DEF EndRead, Ends
<1>2. UNCHANGED <<transfers, entries, requests, replies, client, received, losses, stepDowns, late>>
  BY DEF Apart, bounds
<1>3. BoundsOK'  BY <1>2 DEF StreamInv, BoundsOK
<1>4. s \in Snapshot /\ at \in Nat  BY <1>1, PeerTyped
<1>5. Chunk(s, at) \in Contents  BY <1>4 DEF Chunk, Contents
<1>6. /\ TablesOK(transfers, entries, locks') /\ SendingOK(sending', locks')
      /\ sending' \in [Term -> Reading \union {None}]
  BY <1>1, CallEnds
<1>7. m \in Message /\ m # None
  <2>1. m \in Message  BY <1>4, <1>5 DEF Message
  <2> HIDE DEF m
  <2> QED  BY <2>1, NoneAssumption
<1>8. m.live /\ m.snap = s  OBVIOUS
<1> HIDE DEF m
<1>9. PeerType'  BY <1>1, <1>5, <1>6, <1>7 DEF PeerInv, PeerType
<1>10. LinkOK'
  <2>1. CurrentTerm' = CurrentTerm /\ CurrentTerm \in Term  BY <1>2, CurrentTermType DEF CurrentTerm
  <2>2. Chunk(s, at) # None  BY <1>5, NoneAssumption
  <2>3. sending \in [Term -> Reading \union {None}]  BY PeerTyped
  <2>4. CASE Leads(t)
    <3>1. leader /\ t = CurrentTerm  BY <2>4 DEF Leads
    <3>2. rpc = None /\ answer = None /\ \A n \in wire : ~n.live
      BY <1>1, <3>1 DEF PeerInv, LinkOK
    <3>3. s <= current  BY <1>1 DEF PeerInv, SendingOK
    <3>4. rpc' = m /\ wire' = wire \union {m} /\ UNCHANGED <<answer, leader, current>>
          /\ buffer' # None /\ sending'[CurrentTerm] = None
      BY <1>1, <2>2, <2>3, <2>4, <3>1
    <3> QED  BY <1>7, <1>8, <2>1, <3>1, <3>2, <3>3, <3>4 DEF LinkOK
  <2>5. CASE ~Leads(t)
    <3>1. sending[CurrentTerm] = None => sending'[CurrentTerm] = None
      BY <1>1, <2>1, <2>3
    <3> QED  BY <1>1, <2>1, <2>2, <2>5, <3>1 DEF PeerInv, LinkOK
  <2> QED  BY <2>4, <2>5
<1> QED  BY <1>1, <1>2, <1>3, <1>6, <1>9, <1>10, PeerKeeps

LEMMA PositionType ==
  ASSUME NEW m \in Message, NEW p \in Nat \union {None}
  PROVE  Position(m, p) \in Nat
  BY DEF Position, Message

LEMMA ReceivedStep ==
  ASSUME StreamInv, PeerInv, ByPeer, Received, Apart
  PROVE  StreamInv' /\ PeerInv'
<1>1. /\ answer # None /\ rpc' = None /\ answer' = None
      /\ UNCHANGED <<leader, current, install, wire, buffer, log, known, tmp>>
      /\ \/ /\ match' = rpc.snap /\ next' = rpc.snap + 1
            /\ UNCHANGED <<sending, locks>>
         \/ /\ Send(CurrentTerm, rpc.snap, Position(rpc, answer.reposition))
            /\ UNCHANGED <<next, match>>
  BY DEF Received
<1>2. UNCHANGED <<transfers, entries, requests, replies, client, received, losses, stepDowns, late>>
  BY DEF Apart, bounds
<1>3. BoundsOK'  BY <1>2 DEF StreamInv, BoundsOK
<1>4. /\ rpc # None /\ leader /\ rpc.snap <= current
      /\ \A m \in wire : ~m.live
  BY <1>1 DEF PeerInv, LinkOK
<1>5. rpc \in Message /\ rpc.snap \in Snapshot /\ rpc.snap \in Int
  BY <1>4, PeerTyped DEF Snapshot
<1>6. answer.reposition \in Nat \union {None}
  <2>1. answer \in Reply  BY <1>1 DEF PeerInv, PeerType
  <2> QED  BY <2>1 DEF Reply
<1>7. /\ TablesOK(transfers, entries, locks') /\ SendingOK(sending', locks')
      /\ sending' \in [Term -> Reading \union {None}]
      /\ next' \in Int /\ match' \in Int
  <2>1. CASE /\ match' = rpc.snap /\ next' = rpc.snap + 1 /\ UNCHANGED <<sending, locks>>
    BY <1>5, <2>1 DEF StreamInv, PeerInv, PeerType
  <2>2. CASE Send(CurrentTerm, rpc.snap, Position(rpc, answer.reposition))
             /\ UNCHANGED <<next, match>>
    <3>1. Position(rpc, answer.reposition) \in Nat  BY <1>5, <1>6, PositionType
    <3>2. Position(rpc, answer.reposition) \in Int /\ Position(rpc, answer.reposition) >= 0
      BY <3>1
    <3>3. next' \in Int /\ match' \in Int  BY <2>2 DEF PeerInv, PeerType
    <3> QED  BY <1>4, <1>5, <2>2, <3>2, <3>3, CallStarts
  <2> QED  BY <1>1, <2>1, <2>2
<1>8. PeerType'  BY <1>1, <1>7 DEF PeerInv, PeerType
<1>9. LinkOK'  BY <1>1, <1>4 DEF LinkOK
<1> QED  BY <1>1, <1>2, <1>3, <1>7, <1>8, <1>9, PeerKeeps

LEMMA SendToStep ==
  ASSUME StreamInv, PeerInv, ByPeer, SendSnapshotTo, Apart
  PROVE  StreamInv' /\ PeerInv'
<1>1. /\ leader /\ rpc = None /\ Send(CurrentTerm, current, 0)
      /\ UNCHANGED <<leader, current, install, next, match, rpc, wire, answer, buffer, log, known, tmp>>
  BY DEF SendSnapshotTo, Idle, link
<1>2. UNCHANGED <<transfers, entries, requests, replies, client, received, losses, stepDowns, late>>
  BY DEF Apart, bounds
<1>3. BoundsOK'  BY <1>2 DEF StreamInv, BoundsOK
<1>4. current \in Snapshot /\ current <= current  BY CurrentTermType
<1>5. /\ TablesOK(transfers, entries, locks') /\ SendingOK(sending', locks')
      /\ sending' \in [Term -> Reading \union {None}]
  BY <1>1, <1>4, CallStarts
<1>6. PeerType'  BY <1>1, <1>5 DEF PeerInv, PeerType
<1>7. LinkOK'  BY <1>1 DEF PeerInv, LinkOK
<1> QED  BY <1>1, <1>2, <1>3, <1>5, <1>6, <1>7, PeerKeeps

LEMMA AppendEntriesStep ==
  ASSUME StreamInv, PeerInv, ByPeer, AppendEntries, Apart
  PROVE  StreamInv' /\ PeerInv'
<1>1. UNCHANGED <<leader, current, install, locks, sending, rpc, wire, answer, buffer, tmp>>
  BY DEF AppendEntries, link
<1>2. UNCHANGED <<transfers, entries, requests, replies, client, received, losses, stepDowns, late>>
  BY DEF Apart, bounds
<1>3. BoundsOK'  BY <1>2 DEF StreamInv, BoundsOK
<1>4. TablesOK(transfers, entries, locks') /\ SendingOK(sending', locks')
  BY <1>1 DEF StreamInv, PeerInv
<1>5. /\ CurrentTerm \in Int /\ LastIndex \in Int /\ FirstIndex \in Int
      /\ log \in [snap: 0..Len(Size), data: Seq(Contents \union {None}), last: Int, same: Int,
                  commit: Int]
      /\ next \in Int /\ match \in Int
  <2>1. CurrentTerm \in Int  BY CurrentTermType, TermInt
  <2>2. LastIndex \in Int /\ FirstIndex \in Int
    BY CurrentTermType, SnapshotType DEF LastIndex, FirstIndex
  <2> QED  BY <2>1, <2>2 DEF PeerInv, PeerType
<1>6. Conflict \in Int  BY <1>5 DEF Conflict
<1>7. /\ log' = [log EXCEPT !.last = LastIndex, !.same = LastIndex, !.commit = LastIndex]
         \/ log' = log
      /\ match' \in {match, LastIndex}
      /\ next' \in {LastIndex + 1, FirstIndex - 1, Conflict}
      /\ known' = CurrentTerm
  BY DEF AppendEntries
<1>8. log' \in [snap: 0..Len(Size), data: Seq(Contents \union {None}), last: Int, same: Int,
                commit: Int]
  BY <1>5, <1>7
<1>9. match' \in Int /\ next' \in Int /\ known' \in Int  BY <1>5, <1>6, <1>7
<1>10. PeerType'  BY <1>1, <1>8, <1>9 DEF PeerInv, PeerType
<1>11. LinkOK'  BY <1>1, <1>2 DEF PeerInv, LinkOK, CurrentTerm
<1> QED  BY <1>1, <1>2, <1>3, <1>4, <1>10, <1>11, PeerKeeps

\* Writing at an index of a sequence
LEMMA ExceptType ==
  ASSUME NEW S, NEW q \in Seq(S), NEW v \in S, NEW i \in Nat
  PROVE  [q EXCEPT ![i] = v] \in Seq(S) /\ Len([q EXCEPT ![i] = v]) = Len(q)
<1>1. CASE i \in 1..Len(q)  BY <1>1
<1>2. CASE i \notin 1..Len(q)
  <2>1. [q EXCEPT ![i] = v] = q  BY <1>2
  <2> QED  BY <2>1
<1> QED  BY <1>1, <1>2

LEMMA TemporaryType ==
  ASSUME NEW s \in Snapshot
  PROVE  /\ NewTmp(s) \in Temporary /\ NewTmp(s) # None
         /\ NewTmp(s).snap = s /\ NewTmp(s).written = 0
         /\ Len(NewTmp(s).data) = Size[s] /\ DOMAIN NewTmp(s).data = 1..Size[s]
<1> DEFINE d == [n \in 1..Size[s] |-> None]
<1>1. Size[s] \in Nat  BY SnapshotType
<1>2. d \in Seq(Contents \union {None}) /\ Len(d) = Size[s]
  <2>1. \A n \in 1..Size[s] : None \in Contents \union {None}  OBVIOUS
  <2>2. d \in Seq(Contents \union {None})  BY <1>1, <2>1, IsASeq
  <2> QED  BY <1>1, <2>2
<1>3. DOMAIN d = 1..Size[s]  OBVIOUS
<1> HIDE DEF d
<1>4. NewTmp(s) = [snap |-> s, written |-> 0, data |-> d]  BY DEF NewTmp, d
<1>5. NewTmp(s) \in Temporary  BY <1>2, <1>4 DEF Temporary
<1>6. NewTmp(s) # None  BY <1>5, NoneAssumption
<1> QED  BY <1>2, <1>3, <1>4, <1>5, <1>6

\* The temporary snapshot that a chunk is for.
LEMMA TmpForType ==
  ASSUME PeerInv, NEW m \in Message
  PROVE  /\ TmpFor(m) \in Temporary /\ TmpFor(m) # None
         /\ TmpFor(m).snap = m.snap /\ TmpFor(m).written \in Nat
         /\ TmpFor(m).data \in Seq(Contents \union {None})
<1>1. m.snap \in Snapshot  BY DEF Message
<1>2. TmpFor(m) \in Temporary /\ TmpFor(m) # None /\ TmpFor(m).snap = m.snap
  <2>1. CASE tmp = None \/ tmp.snap # m.snap
    BY <1>1, <2>1, TemporaryType DEF TmpFor
  <2>2. CASE ~(tmp = None \/ tmp.snap # m.snap)
    BY <2>2 DEF TmpFor, PeerInv, PeerType
  <2> QED  BY <2>1, <2>2
<1> QED  BY <1>2 DEF Temporary

LogType ==
  [snap: 0..Len(Size), data: Seq(Contents \union {None}), last: Int, same: Int, commit: Int]

LEMMA InstalledType ==
  ASSUME log \in LogType, NEW s \in Snapshot, NEW data \in Seq(Contents \union {None})
  PROVE  /\ Installed(s, data) \in LogType
         /\ Installed(s, data).snap = s /\ Installed(s, data).data = data
<1>1. s \in 0..Len(Size) /\ s \in Int  BY SnapshotType DEF Snapshot
<1>2. CASE s >= log.snap /\ s <= log.same
  <2>1. Installed(s, data) = [log EXCEPT !.snap = s, !.data = data]  BY <1>2 DEF Installed
  <2> QED  BY <1>1, <2>1 DEF LogType
<1>3. CASE ~(s >= log.snap /\ s <= log.same)
  <2>1. Installed(s, data) = [log EXCEPT !.snap = s, !.data = data, !.last = s, !.same = s]
    BY <1>3 DEF Installed
  <2> QED  BY <1>1, <2>1 DEF LogType
<1> QED  BY <1>2, <1>3

\* What the handler of installSnapshot does with a chunk.
LEMMA HandledType ==
  ASSUME PeerInv, NEW m \in wire, Handle(m)
  PROVE  /\ m \in Message /\ m.snap \in Snapshot /\ m.at \in Nat /\ m.is \in Contents
         /\ wire' = wire \ {m} /\ known' \in Int
         /\ log' \in LogType /\ tmp' \in Temporary \union {None}
         /\ answer' = answer \/ (m.live /\ answer' \in Reply)
         /\ UNCHANGED <<leader, current, install, locks, transfers, entries, sending, next, match,
                        rpc, buffer>>
<1>1. m \in Message  BY DEF PeerInv, PeerType
<1>2. m.snap \in Snapshot /\ m.at \in Nat /\ m.is \in Contents /\ m.term \in Int
  BY <1>1, TermInt DEF Message
<1>3. /\ wire' = wire \ {m} /\ known' = IF m.term < known THEN known ELSE m.term
      /\ UNCHANGED <<leader, current, install, locks, transfers, entries, sending, next, match,
                     rpc, buffer>>
  BY DEF Handle, server
<1>4. known' \in Int  BY <1>2, <1>3 DEF PeerInv, PeerType
<1> DEFINE t == TmpFor(m)
           data == [t.data EXCEPT ![m.at + 1] = m.is]
<1>5. /\ t \in Temporary /\ t.snap = m.snap /\ t.written \in Nat
      /\ t.data \in Seq(Contents \union {None})
  BY <1>1, TmpForType
<1>6. data \in Seq(Contents \union {None})
  <2>1. m.is \in Contents \union {None} /\ m.at + 1 \in Nat  BY <1>2
  <2> QED  BY <1>5, <2>1, ExceptType
<1>7. log \in LogType /\ tmp \in Temporary \union {None}  BY DEF PeerInv, PeerType, LogType
<1>8. \/ UNCHANGED <<tmp, log>>
      \/ tmp' = t /\ UNCHANGED log
      \/ tmp' = None /\ log' = Installed(m.snap, data)
      \/ tmp' = [t EXCEPT !.data = data, !.written = m.at + 1] /\ UNCHANGED log
  BY DEF Handle, Write
<1>9. \/ answer' = answer
      \/ m.live /\ answer' = [reposition |-> None]
      \/ m.live /\ answer' = [reposition |-> t.written]
  BY DEF Handle, Replies
<1> HIDE DEF t, data
<1>10. log' \in LogType /\ tmp' \in Temporary \union {None}
  <2>1. Installed(m.snap, data) \in LogType  BY <1>2, <1>6, <1>7, InstalledType
  <2>2. [t EXCEPT !.data = data, !.written = m.at + 1] \in Temporary
    <3>1. m.at + 1 \in Nat  BY <1>2
    <3> QED  BY <1>5, <1>6, <3>1 DEF Temporary
  <2> QED  BY <1>5, <1>7, <1>8, <2>1, <2>2
<1>11. answer' = answer \/ (m.live /\ answer' \in Reply)
  BY <1>5, <1>9 DEF Reply
<1> QED  BY <1>1, <1>2, <1>3, <1>4, <1>10, <1>11

LEMMA HandleStep ==
  ASSUME StreamInv, PeerInv, ByPeer, NEW m \in wire, Handle(m),
         UNCHANGED <<requests, replies, client, received, bounds>>
  PROVE  StreamInv' /\ PeerInv'
<1>1. /\ m \in Message
      /\ wire' = wire \ {m} /\ known' \in Int
      /\ log' \in LogType /\ tmp' \in Temporary \union {None}
      /\ answer' = answer \/ (m.live /\ answer' \in Reply)
      /\ UNCHANGED <<leader, current, install, locks, transfers, entries, sending, next, match,
                     rpc, buffer>>
  BY HandledType
<1>2. UNCHANGED <<losses, stepDowns, late>>  BY DEF bounds
<1>3. BoundsOK'  BY <1>2 DEF StreamInv, BoundsOK
<1>4. TablesOK(transfers, entries, locks') /\ SendingOK(sending', locks')
  BY <1>1 DEF StreamInv, PeerInv
<1>5. PeerType'  BY <1>1 DEF PeerInv, PeerType, LogType
<1>6. LinkOK'
  <2>1. CurrentTerm' = CurrentTerm  BY <1>2 DEF CurrentTerm
  <2>2. LinkOK  BY DEF PeerInv
  <2>3. CASE answer' = answer  BY <1>1, <2>1, <2>2, <2>3 DEF LinkOK
  <2>4. CASE m.live /\ answer' \in Reply
    <3>1. rpc # None /\ \A n \in wire : n.live => n = m  BY <2>2, <2>4 DEF LinkOK
    <3> QED  BY <1>1, <2>1, <2>2, <3>1 DEF LinkOK
  <2> QED  BY <1>1, <2>3, <2>4
<1> QED  BY <1>1, <1>2, <1>3, <1>4, <1>5, <1>6, PeerKeeps

LEMMA WholeType ==
  ASSUME NEW s \in Snapshot
  PROVE  /\ Whole(s) \in Seq(Contents \union {None})
         /\ Whole(s) = [n \in 1..Size[s] |-> Chunk(s, n - 1)]
<1>1. Size[s] \in Nat /\ s # 0  BY SnapshotType DEF Snapshot
<1>2. \A n \in 1..Size[s] : Chunk(s, n - 1) \in Contents \union {None}
  <2>1. ASSUME NEW n \in 1..Size[s]  PROVE n - 1 \in Nat  BY <1>1
  <2> QED  BY <2>1 DEF Chunk, Contents
<1>3. Whole(s) = [n \in 1..Size[s] |-> Chunk(s, n - 1)]  BY <1>1 DEF Whole
<1>4. [n \in 1..Size[s] |-> Chunk(s, n - 1)] \in Seq(Contents \union {None})
  BY <1>1, <1>2, IsASeq
<1> QED  BY <1>3, <1>4

LEMMA CompactStep ==
  ASSUME StreamInv, PeerInv, ByPeer, NEW s \in Snapshot, Compact(s),
         UNCHANGED <<requests, replies, client, received, bounds>>
  PROVE  StreamInv' /\ PeerInv'
<1>1. /\ log' = [log EXCEPT !.snap = s, !.data = Whole(s)]
      /\ UNCHANGED <<leader, current, install, locks, transfers, entries, sending, next, match,
                     rpc, wire, answer, buffer, known, tmp>>
  BY DEF Compact, server, link
<1>2. UNCHANGED <<losses, stepDowns, late>>  BY DEF bounds
<1>3. BoundsOK'  BY <1>2 DEF StreamInv, BoundsOK
<1>4. TablesOK(transfers, entries, locks') /\ SendingOK(sending', locks')
  BY <1>1 DEF StreamInv, PeerInv
<1>5. log' \in LogType
  <2>1. log \in LogType  BY DEF PeerInv, PeerType, LogType
  <2>2. s \in 0..Len(Size)  BY SnapshotType DEF Snapshot
  <2> QED  BY <1>1, <2>1, <2>2, WholeType DEF LogType
<1>6. PeerType'  BY <1>1, <1>5 DEF PeerInv, PeerType, LogType
<1>7. LinkOK'  BY <1>1, <1>2 DEF PeerInv, LinkOK, CurrentTerm
<1> QED  BY <1>1, <1>2, <1>3, <1>4, <1>6, <1>7, PeerKeeps

\* Copies sent over a connection that is closed.
LEMMA OldType ==
  ASSUME PeerInv, NEW old \in Old(wire)
  PROVE  /\ old \subseteq Message /\ \A n \in old : ~n.live
         /\ \A n \in old : \E m \in wire : m \in Message /\ n = [m EXCEPT !.live = FALSE]
<1>1. old \subseteq {[m EXCEPT !.live = FALSE] : m \in wire}  BY DEF Old
<1>2. wire \subseteq Message  BY DEF PeerInv, PeerType
<1>3. ASSUME NEW n \in old
      PROVE  /\ n \in Message /\ ~n.live
             /\ \E m \in wire : m \in Message /\ n = [m EXCEPT !.live = FALSE]
  <2>1. PICK m \in wire : n = [m EXCEPT !.live = FALSE]  BY <1>1
  <2>2. m \in Message  BY <1>2
  <2> QED  BY <2>1, <2>2 DEF Message
<1> QED  BY <1>3

LEMMA ReconnectStep ==
  ASSUME StreamInv, PeerInv, ByPeer, Reconnect, UNCHANGED <<requests, replies, client, received>>
  PROVE  StreamInv' /\ PeerInv'
<1>1. /\ rpc # None /\ losses' = losses + 1 /\ answer' = None
      /\ UNCHANGED <<leader, current, install, locks, transfers, entries, stepDowns, late, sending,
                     next, match, rpc, buffer, log, known>>
  BY DEF Reconnect, server
<1>2. PICK old \in Old(wire) :
        /\ tmp' = None \/ tmp' = tmp
        /\ wire' = old \union {[rpc EXCEPT !.is = buffer]}
  BY DEF Reconnect
<1> DEFINE m == [rpc EXCEPT !.is = buffer]
<1>3. BoundsOK'  BY <1>1 DEF StreamInv, BoundsOK
<1>4. TablesOK(transfers, entries, locks') /\ SendingOK(sending', locks')
  BY <1>1 DEF StreamInv, PeerInv
<1>5. /\ rpc \in Message /\ buffer \in Contents /\ leader /\ sending[CurrentTerm] = None /\ rpc.live
      /\ rpc.snap <= current /\ buffer # None
  BY <1>1 DEF PeerInv, PeerType, LinkOK
<1>6. m \in Message  BY <1>5 DEF Message
<1>7. old \subseteq Message /\ \A n \in old : ~n.live  BY OldType
<1> HIDE DEF m
<1>8. wire' = old \union {m}  BY <1>2 DEF m
<1>9. PeerType'  BY <1>1, <1>2, <1>6, <1>7, <1>8 DEF PeerInv, PeerType
<1>10. LinkOK'
  <2>1. CurrentTerm' = CurrentTerm  BY <1>1 DEF CurrentTerm
  <2> QED  BY <1>1, <1>5, <1>7, <1>8, <2>1 DEF LinkOK
<1> QED  BY <1>1, <1>3, <1>4, <1>9, <1>10, PeerKeeps

LEMMA StepDownPeerStep ==
  ASSUME StreamInv, PeerInv, ByPeer, StepDownPeer
  PROVE  StreamInv' /\ PeerInv'
<1> DEFINE ended == {i \in 1..Len(transfers) : entries[transfers[i].key] = i}
<1>1. /\ locks' = Without(locks, ended) /\ leader' = FALSE /\ stepDowns' = stepDowns + 1
      /\ rpc' = None /\ answer' = None
      /\ UNCHANGED <<current, client, sending, next, match, buffer, log, known, tmp>>
  BY DEF StepDownPeer, StepDown
<1>2. StreamInv'  BY StepDownStep DEF StepDownPeer
<1>3. PICK old \in Old(wire) : wire' = old  BY DEF StepDownPeer
<1>4. wire' \subseteq Message /\ \A n \in wire' : ~n.live  BY <1>3, OldType
<1>5. PeerType'  BY <1>1, <1>4 DEF PeerInv, PeerType
<1>6. LinkOK'  BY <1>1, <1>4 DEF LinkOK
<1>7. \A t \in Term : Caller(t) \in Int /\ Caller(t) \notin ended  BY TermType
<1> HIDE DEF ended
<1>8. \A s \in Snapshot, t \in Term :
        /\ Caller(t) \in locks'[s].shared <=> Caller(t) \in locks[s].shared
        /\ Caller(t) \in locks'[s].waiting <=> Caller(t) \in locks[s].waiting
  <2>1. LocksOK(locks)  BY DEF StreamInv, TablesOK
  <2> QED  BY <1>1, <1>7, <2>1, WithoutType
<1>9. CurrentTerm' = CurrentTerm + 1 /\ CurrentTerm \in Int
  BY <1>1, CurrentTermType, TermInt DEF CurrentTerm
<1>10. ASSUME NEW t \in Term, sending[t] # None
       PROVE  /\ t <= CurrentTerm' /\ t # CurrentTerm' /\ sending[t].snap <= current
              /\ Called(locks', Caller(t), sending[t].snap)
              /\ sending[t].step = "read" => Open(locks', Caller(t), sending[t].snap)
              /\ \A s \in Snapshot :
                   Caller(t) \notin locks'[s].shared \/ Caller(t) \notin locks'[s].waiting
  <2>1. sending[t].snap \in Snapshot /\ t \in Int  BY <1>10, PeerTyped, TermInt
  <2>2. /\ t <= CurrentTerm /\ sending[t].snap <= current
        /\ Called(locks, Caller(t), sending[t].snap)
        /\ sending[t].step = "read" => Open(locks, Caller(t), sending[t].snap)
        /\ \A s \in Snapshot :
             Caller(t) \notin locks[s].shared \/ Caller(t) \notin locks[s].waiting
    BY <1>10 DEF PeerInv, SendingOK
  <2>3. t <= CurrentTerm' /\ t # CurrentTerm'  BY <1>9, <2>1, <2>2
  <2> QED  BY <1>8, <2>1, <2>2, <2>3 DEF Called, Open
<1>11. SendingOK(sending, locks)'  BY <1>1, <1>10 DEF SendingOK, Called, Open
<1>12. Alone'  BY <1>1 DEF Alone, ByPeer
<1> QED  BY <1>2, <1>5, <1>6, <1>11, <1>12 DEF PeerInv

LEMMA BecomeLeaderPeerStep ==
  ASSUME StreamInv, PeerInv, ByPeer, BecomeLeaderPeer
  PROVE  StreamInv' /\ PeerInv'
<1>1. /\ ~leader /\ leader' = TRUE /\ next' = LastIndex + 1 /\ match' = 0
      /\ UNCHANGED <<current, locks, stepDowns, client, sending, rpc, wire, answer, buffer, log,
                     known, tmp>>
  BY DEF BecomeLeaderPeer, BecomeLeader, link, bounds
<1>2. StreamInv'  BY BecomeLeaderStep DEF BecomeLeaderPeer
<1>3. LastIndex + 1 \in Int  BY SnapshotType DEF LastIndex
<1>4. PeerType'  BY <1>1, <1>3 DEF PeerInv, PeerType
<1>5. LinkOK'  BY <1>1 DEF PeerInv, LinkOK
<1>6. CurrentTerm' = CurrentTerm  BY <1>1 DEF CurrentTerm
<1>7. SendingOK(sending, locks)'  BY <1>1, <1>6 DEF PeerInv, SendingOK, Called, Open
<1>8. Alone'  BY <1>1 DEF Alone, ByPeer
<1> QED  BY <1>2, <1>4, <1>5, <1>7, <1>8 DEF PeerInv

LEMMA LocalStep ==
  ASSUME StreamInv, PeerInv, ByPeer, Local, UNCHANGED peer
  PROVE  StreamInv' /\ PeerInv'
<1>1. UNCHANGED <<leader, client, stepDowns, sending, next, match, rpc, wire, answer, buffer, log,
                  known, tmp>>
  BY DEF Local, RequestInstall, BeginInstall, EndInstall, peer, link, bounds
<1>2. StreamInv'  BY InstallStep DEF Local
<1>3. PeerType'  BY <1>1 DEF PeerInv, PeerType
<1>4. CurrentTerm' = CurrentTerm  BY <1>1 DEF CurrentTerm
<1>5. current \in Int /\ current' >= current /\ current' \in Int
  <2>1. current \in Int  BY CurrentTermType DEF Snapshot
  <2>2. current' \in {current, current + 1}  BY DEF Local, RequestInstall, BeginInstall, EndInstall
  <2> QED  BY <2>1, <2>2
<1>6. LinkOK'
  <2>1. rpc # None => rpc.snap \in Int  BY PeerTyped DEF Snapshot
  <2> QED  BY <1>1, <1>4, <1>5, <2>1 DEF PeerInv, LinkOK
<1>7. ASSUME NEW t \in Term, sending[t] # None
      PROVE  /\ t <= CurrentTerm /\ (t = CurrentTerm => leader) /\ sending[t].snap <= current'
             /\ Called(locks', Caller(t), sending[t].snap)
             /\ sending[t].step = "read" =>
                  sending[t].snap = current' /\ Caller(t) \in locks'[current'].shared
             /\ \A s \in Snapshot :
                  Caller(t) \notin locks'[s].shared \/ Caller(t) \notin locks'[s].waiting
  <2> DEFINE s == sending[t].snap
  <2>1. s \in Snapshot /\ s \in Int  BY <1>7, PeerTyped DEF Snapshot
  <2>2. /\ t <= CurrentTerm /\ (t = CurrentTerm => leader) /\ s <= current
        /\ Called(locks, Caller(t), s)
        /\ sending[t].step = "read" => s = current /\ Caller(t) \in locks[current].shared
        /\ \A z \in Snapshot :
             Caller(t) \notin locks[z].shared \/ Caller(t) \notin locks[z].waiting
    BY <1>7 DEF PeerInv, SendingOK, Open
  <2>3. s <= current'  BY <1>5, <2>1, <2>2
  <2> HIDE DEF s
  <2>4. CASE RequestInstall
    BY <2>2, <2>3, <2>4 DEF RequestInstall, Called, s
  <2>5. CASE BeginInstall
    <3>1. UNCHANGED locks /\ locks[current].shared = {}  BY <2>5 DEF BeginInstall
    <3> QED  BY <2>2, <2>3, <3>1 DEF Called, s
  <2>6. CASE EndInstall
    <3> DEFINE old == current - 1
    <3>1. /\ UNCHANGED current /\ install = "replacing"
          /\ locks \in [Snapshot -> LockType] /\ old # current
          /\ locks' = [locks EXCEPT ![old] = [shared |-> locks[old].shared \union locks[old].waiting,
                                              waiting |-> {}]]
      BY <1>5, <2>6 DEF EndInstall, StreamInv, TablesOK, LocksOK
    <3> HIDE DEF old
    <3>2. \A z \in Snapshot : z # old => locks'[z] = locks[z]  BY <3>1
    <3>3. old \in Snapshot =>
            /\ locks'[old].shared = locks[old].shared \union locks[old].waiting
            /\ locks'[old].waiting = {}
      BY <3>1
    <3>4. current \in Snapshot  BY CurrentTermType
    <3>5. Called(locks', Caller(t), s)
      BY <2>1, <2>2, <3>2, <3>3 DEF Called
    <3>6. \A z \in Snapshot :
            Caller(t) \notin locks'[z].shared \/ Caller(t) \notin locks'[z].waiting
      BY <2>2, <3>2, <3>3
    <3>7. locks'[current] = locks[current]  BY <3>1, <3>2, <3>4
    <3> QED  BY <2>2, <2>3, <3>1, <3>5, <3>6, <3>7 DEF s
  <2> QED  BY <2>4, <2>5, <2>6 DEF Local
<1>8. SendingOK(sending, locks)'  BY <1>1, <1>4, <1>7 DEF SendingOK, Called, Open
<1>9. Alone'  BY <1>1 DEF Alone, ByPeer
<1> QED  BY <1>2, <1>3, <1>6, <1>8, <1>9 DEF PeerInv

\* A client reads the snapshot.
LEMMA AloneStep ==
  ASSUME StreamInv, PeerInv, ~ByPeer, Next, UNCHANGED peer
  PROVE  StreamInv' /\ PeerInv'
<1>1. StreamInv'  BY NextStep
<1>2. UNCHANGED <<sending, next, match, rpc, wire, answer, buffer, log, known, tmp>>
  BY DEF peer, link
<1>3. (\A t \in Term : sending[t] = None) /\ rpc = None  BY DEF PeerInv, Alone
<1>4. PeerType'  BY <1>2 DEF PeerInv, PeerType
<1>5. SendingOK(sending, locks)'  BY <1>2, <1>3 DEF SendingOK
<1>6. LinkOK'  BY <1>2, <1>3 DEF PeerInv, LinkOK
<1>7. Alone'  BY <1>2, <1>3 DEF Alone
<1> QED  BY <1>1, <1>4, <1>5, <1>6, <1>7 DEF PeerInv

LEMMA InstallNextStep ==
  ASSUME StreamInv, PeerInv, InstallNext
  PROVE  StreamInv' /\ PeerInv'
<1>1. CASE ~ByPeer /\ Next /\ UNCHANGED peer  BY <1>1, AloneStep
<1>2. CASE ByPeer /\ PeerStep
  <2>1. CASE \E t \in Term : Transfer(t) /\ Apart
    BY <1>2, <2>1, BeginReadStep, EndReadStep DEF Transfer
  <2>2. CASE (Received \/ SendSnapshotTo \/ AppendEntries) /\ Apart
    BY <1>2, <2>2, ReceivedStep, SendToStep, AppendEntriesStep
  <2>3. CASE /\ (\E m \in wire : Handle(m)) \/ (\E s \in Snapshot : Compact(s))
             /\ UNCHANGED <<requests, replies, client, received, bounds>>
    BY <1>2, <2>3, HandleStep, CompactStep
  <2>4. CASE Reconnect /\ UNCHANGED <<requests, replies, client, received>>
    BY <1>2, <2>4, ReconnectStep
  <2>5. CASE StepDownPeer  BY <1>2, <2>5, StepDownPeerStep
  <2>6. CASE BecomeLeaderPeer  BY <1>2, <2>6, BecomeLeaderPeerStep
  <2>7. CASE Local /\ UNCHANGED peer  BY <1>2, <2>7, LocalStep
  <2> QED  BY <1>2, <2>1, <2>2, <2>3, <2>4, <2>5, <2>6, <2>7 DEF PeerStep, Apart
<1> QED  BY <1>1, <1>2 DEF InstallNext

LEMMA InstallInitially ==
  ASSUME InstallInit
  PROVE  StreamInv /\ PeerInv
<1>1. PICK last \in {0, LastIndex} :
        log = [snap |-> 0, data |-> <<>>, last |-> last, same |-> 0, commit |-> 0]
  BY DEF InstallInit
<1>2. /\ sending = [t \in Term |-> None] /\ next = LastIndex + 1 /\ match = 0
      /\ rpc = None /\ wire = {} /\ answer = None /\ buffer = None /\ known = 0 /\ tmp = None
  BY DEF InstallInit
<1>3. LastIndex \in Int /\ LastIndex + 1 \in Int /\ 0 \in 0..Len(Size)
  BY SnapshotType DEF LastIndex
<1>4. log \in LogType  BY <1>1, <1>3 DEF LogType
<1>5. PeerType  BY <1>2, <1>3, <1>4 DEF PeerType, LogType
<1>6. SendingOK(sending, locks) /\ LinkOK /\ Alone
  BY <1>2, CurrentTermType DEF SendingOK, LinkOK, Alone
<1>7. StreamInv
  <2>1. Request(1, 0, None, FALSE) \in RequestType
    BY BoundAssumption DEF Request, RequestType, Key
  <2>2. <<Request(1, 0, None, FALSE)>> \in Seq(RequestType) /\ <<>> \in Seq(RequestType)
    <3> DEFINE r == Request(1, 0, None, FALSE)
    <3> HIDE DEF r
    <3>1. r \in RequestType  BY <2>1 DEF r
    <3>2. <<r>> \in Seq(RequestType) /\ <<>> \in Seq(RequestType)  BY <3>1
    <3> QED  BY <3>2 DEF r
  <2>3. {"waiting", "none"} \subseteq Phase  BY DEF Phase
  <2>4. \/ InitWith(<<Request(1, 0, None, FALSE)>>, "waiting")
        \/ InitWith(<<>>, "none")
    BY DEF InstallInit, Init
  <2> QED  BY <2>2, <2>3, <2>4, StreamInit
<1> QED  BY <1>5, <1>6, <1>7 DEF PeerInv


-----------------------------------------------------------------------------
(* What is read, sent and installed. *)

LEMMA OvertakenKept ==
  ASSUME NEW u \in Term, Overtaken(u), UNCHANGED <<sending[u], current>>,
         Caller(u) \in locks[current].waiting => Caller(u) \in locks'[current].waiting
  PROVE  Overtaken(u)'
  BY DEF Overtaken

\* The calls of other terms wait on when one ends.
LEMMA OvertakenEnds ==
  ASSUME StreamInv, PeerInv, NEW t \in Term, NEW u \in Term, u # t, Overtaken(u),
         UNCHANGED current, Ends(t)
  PROVE  Overtaken(u)'
<1>1. sending' = [sending EXCEPT ![t] = None] /\ locks' = Without(locks, {Caller(t)})
  BY DEF Ends, Unlocked
<1>2. sending'[u] = sending[u]  BY <1>1, PeerTyped
<1>3. Caller(u) \in Int /\ Caller(u) \notin {Caller(t)}  BY TermType
<1>4. LocksOK(locks) /\ current \in Snapshot  BY CurrentTermType DEF StreamInv, TablesOK
<1>5. Caller(u) \in locks[current].waiting => Caller(u) \in locks'[current].waiting
  BY <1>1, <1>3, <1>4, WithoutType
<1> QED  BY <1>2, <1>5, OvertakenKept

\* ... and when one begins in the current term.
LEMMA OvertakenStarts ==
  ASSUME StreamInv, PeerInv, leader, NEW s \in Snapshot, s <= current, NEW at \in Nat,
         Send(CurrentTerm, s, at), NEW u \in Term, u < CurrentTerm, Overtaken(u), UNCHANGED current
  PROVE  Overtaken(u)'
<1>1. u # CurrentTerm  BY TermInt, CurrentTermType
<1>2. at \in Int /\ at >= 0  OBVIOUS
<1>3. sending'[u] = sending[u]  BY <1>1, <1>2, CallStarts
<1>4. current \in Snapshot  BY CurrentTermType
<1>5. Caller(u) \in locks[current].waiting => Caller(u) \in locks'[current].waiting
  BY <1>1, <1>2, <1>4, CallStarts
<1> QED  BY <1>3, <1>5, OvertakenKept

LEMMA BeginReadChunks ==
  ASSUME StreamInv, PeerInv, ChunkInv, NEW t \in Term, BeginRead(t), Apart
  PROVE  ChunkInv'
<1> DEFINE s == sending[t].snap
<1>1. /\ sending[t] # None /\ Caller(t) \in locks[s].shared /\ sending[t].step = "lock"
      /\ UNCHANGED <<leader, current, rpc, wire, buffer, log, tmp, stepDowns>>
  BY DEF BeginRead, Holder, link, Apart, bounds
<1>2. s \in Snapshot  BY <1>1, PeerTyped
<1>3. CurrentTerm' = CurrentTerm /\ CurrentTerm \in Int  BY <1>1, CurrentTermType, TermInt DEF CurrentTerm
<1>4. ASSUME leader, NEW u \in Term, u < CurrentTerm
      PROVE  Overtaken(u)'
  <2>1. Overtaken(u)  BY <1>4 DEF ChunkInv, ChunksOK
  <2>2. CASE ~Replaced(s)
    <3>1. s = current /\ sending' = [sending EXCEPT ![t].step = "read"] /\ UNCHANGED locks
      BY <2>2 DEF Replaced, BeginRead
    <3>2. Caller(t) \notin locks[current].waiting
      BY <1>1, <1>2, <3>1 DEF PeerInv, SendingOK
    <3>3. u # t  BY <1>1, <2>1, <3>1, <3>2 DEF Overtaken
    <3>4. sending'[u] = sending[u]  BY <3>1, <3>3, PeerTyped
    <3> QED  BY <1>1, <2>1, <3>1, <3>4, OvertakenKept
  <2>3. CASE Replaced(s) /\ Leads(t)
    <3>1. Send(CurrentTerm, current, 0) /\ current \in Snapshot /\ current <= current
      BY <2>3, CurrentTermType DEF BeginRead, Leads
    <3>2. 0 \in Nat  OBVIOUS
    <3> QED  BY <1>1, <1>4, <2>1, <3>1, <3>2, OvertakenStarts
  <2>4. CASE Replaced(s) /\ ~Leads(t)
    <3>1. Ends(t)  BY <2>4 DEF BeginRead
    <3>2. CASE u = t
      <4>1. sending'[u] = None  BY <3>1, <3>2, PeerTyped DEF Ends
      <4> QED  BY <4>1 DEF Overtaken
    <3>3. CASE u # t  BY <1>1, <2>1, <3>1, <3>3, OvertakenEnds
    <3> QED  BY <3>2, <3>3
  <2> QED  BY <2>2, <2>3, <2>4
<1>5. ChunksOK'  BY <1>1, <1>3, <1>4 DEF ChunkInv, ChunksOK
<1> QED  BY <1>1, <1>5 DEF ChunkInv, TmpOK, InstalledIsWhole

LEMMA EndReadChunks ==
  ASSUME StreamInv, PeerInv, ChunkInv, NEW t \in Term, EndRead(t), Apart
  PROVE  ChunkInv'
<1> DEFINE s == sending[t].snap
           at == sending[t].at
           m == [term |-> t, snap |-> s, at |-> at, is |-> Chunk(s, at), live |-> TRUE]
<1>1. /\ sending[t] # None /\ sending[t].step = "read" /\ Ends(t) /\ buffer' = Chunk(s, at)
      /\ Leads(t) => rpc' = m /\ wire' = wire \union {m}
      /\ ~Leads(t) => UNCHANGED <<rpc, wire>>
      /\ UNCHANGED <<leader, current, log, tmp, stepDowns>>
  BY DEF EndRead, Apart, bounds
<1>2. CurrentTerm' = CurrentTerm /\ CurrentTerm \in Int  BY <1>1, CurrentTermType, TermInt DEF CurrentTerm
<1>3. t <= CurrentTerm /\ t \in Int  BY <1>1, TermInt DEF PeerInv, SendingOK
<1>4. ~Overtaken(t)  BY <1>1 DEF Overtaken
<1>5. leader => Leads(t)  BY <1>2, <1>3, <1>4 DEF ChunkInv, ChunksOK, Leads
<1>6. ASSUME leader, NEW u \in Term, u < CurrentTerm
      PROVE  Overtaken(u)'
  <2>1. Overtaken(u)  BY <1>6 DEF ChunkInv, ChunksOK
  <2>2. u # t  BY <1>4, <2>1
  <2> QED  BY <1>1, <2>1, <2>2, OvertakenEnds
<1>7. m.is = Chunk(m.snap, m.at)  OBVIOUS
<1>8. m.is = Chunk(s, at)  OBVIOUS
<1> HIDE DEF m
<1>9. (rpc' # None => rpc'.is = Chunk(rpc'.snap, rpc'.at) /\ buffer' = rpc'.is)
      /\ \A n \in wire' : n.is = Chunk(n.snap, n.at)
  <2>1. CASE Leads(t)
    BY <1>1, <1>7, <1>8, <2>1 DEF ChunkInv, ChunksOK
  <2>2. CASE ~Leads(t)
    <3>1. rpc = None  BY <1>5, <2>2 DEF PeerInv, LinkOK
    <3> QED  BY <1>1, <2>2, <3>1 DEF ChunkInv, ChunksOK
  <2> QED  BY <2>1, <2>2
<1>10. ChunksOK'  BY <1>1, <1>2, <1>6, <1>9 DEF ChunksOK
<1> QED  BY <1>1, <1>10 DEF ChunkInv, TmpOK, InstalledIsWhole

LEMMA SendChunks ==
  ASSUME StreamInv, PeerInv, ChunkInv, Received \/ SendSnapshotTo \/ AppendEntries, Apart
  PROVE  ChunkInv'
<1>1. /\ UNCHANGED <<leader, current, wire, buffer, tmp, stepDowns>>
      /\ log'.snap = log.snap /\ log'.data = log.data
      /\ rpc' = None \/ rpc' = rpc
  <2>1. log \in LogType  BY DEF PeerInv, PeerType, LogType
  <2>2. CASE Received \/ SendSnapshotTo
    BY <2>2 DEF Received, SendSnapshotTo, link, Apart, bounds
  <2>3. CASE AppendEntries
    <3>1. UNCHANGED <<leader, current, wire, buffer, tmp, stepDowns, rpc>>
      BY <2>3 DEF AppendEntries, link, Apart, bounds
    <3>2. log' = [log EXCEPT !.last = LastIndex, !.same = LastIndex, !.commit = LastIndex]
          \/ log' = log
      BY <2>3 DEF AppendEntries
    <3>3. log'.snap = log.snap /\ log'.data = log.data  BY <2>1, <3>2 DEF LogType
    <3> QED  BY <3>1, <3>3
  <2> QED  BY <2>2, <2>3
<1>2. CurrentTerm' = CurrentTerm /\ CurrentTerm \in Int  BY <1>1, CurrentTermType, TermInt DEF CurrentTerm
<1>3. \/ UNCHANGED <<sending, locks>>
      \/ /\ leader
         /\ \E s \in Snapshot, at \in Nat : s <= current /\ Send(CurrentTerm, s, at)
  <2>1. CASE Received
    <3>1. /\ rpc # None /\ leader /\ rpc.snap <= current
      BY <2>1 DEF Received, PeerInv, LinkOK
    <3>2. rpc \in Message /\ rpc.snap \in Snapshot  BY <3>1, PeerTyped
    <3>3. answer.reposition \in Nat \union {None}
      <4>1. answer \in Reply  BY <2>1 DEF Received, PeerInv, PeerType
      <4> QED  BY <4>1 DEF Reply
    <3>4. Position(rpc, answer.reposition) \in Nat  BY <3>2, <3>3, PositionType
    <3>5. \/ UNCHANGED <<sending, locks>>
          \/ Send(CurrentTerm, rpc.snap, Position(rpc, answer.reposition))
      BY <2>1 DEF Received
    <3> QED  BY <3>1, <3>2, <3>4, <3>5
  <2>2. CASE SendSnapshotTo
    <3>1. leader /\ Send(CurrentTerm, current, 0)  BY <2>2 DEF SendSnapshotTo, Idle
    <3>2. current \in Snapshot /\ current <= current /\ 0 \in Nat  BY CurrentTermType
    <3> QED  BY <3>1, <3>2
  <2>3. CASE AppendEntries  BY <2>3 DEF AppendEntries
  <2> QED  BY <2>1, <2>2, <2>3
<1>4. ASSUME leader, NEW u \in Term, u < CurrentTerm
      PROVE  Overtaken(u)'
  <2>1. Overtaken(u)  BY <1>4 DEF ChunkInv, ChunksOK
  <2>2. CASE UNCHANGED <<sending, locks>>  BY <1>1, <2>1, <2>2, OvertakenKept
  <2>3. CASE \E s \in Snapshot, at \in Nat : s <= current /\ Send(CurrentTerm, s, at)
    BY <1>1, <1>4, <2>1, <2>3, OvertakenStarts
  <2> QED  BY <1>3, <2>2, <2>3
<1>5. ChunksOK'  BY <1>1, <1>2, <1>4 DEF ChunkInv, ChunksOK
<1> QED  BY <1>1, <1>5 DEF ChunkInv, TmpOK, InstalledIsWhole

\* A chunk that is expected goes where it belongs, the last one completes the
\* snapshot.
LEMMA WrittenType ==
  ASSUME PeerInv, ChunkInv, NEW m \in Message, m.is = Chunk(m.snap, m.at)
  PROVE  LET t == TmpFor(m)
             data == [t.data EXCEPT ![m.at + 1] = m.is]
         IN  /\ Len(t.data) = Size[m.snap]
             /\ \A n \in 1..Size[m.snap] : n <= t.written => t.data[n] = Chunk(m.snap, n - 1)
             /\ Expected(m, t) =>
                  /\ data \in Seq(Contents \union {None})
                  /\ Len(data) = Size[m.snap]
                  /\ \A n \in 1..Size[m.snap] : n <= m.at + 1 => data[n] = Chunk(m.snap, n - 1)
<1> DEFINE t == TmpFor(m)
           data == [t.data EXCEPT ![m.at + 1] = m.is]
<1>1. /\ t \in Temporary /\ t.snap = m.snap /\ t.written \in Nat
      /\ t.data \in Seq(Contents \union {None})
  BY TmpForType
<1>2. m.snap \in Snapshot /\ m.at \in Nat /\ m.is \in Contents  BY DEF Message
<1>3. Size[m.snap] \in Nat  BY <1>2, SnapshotType
<1>4. /\ Len(t.data) = Size[m.snap]
      /\ \A n \in 1..Size[m.snap] : n <= t.written => t.data[n] = Chunk(m.snap, n - 1)
  <2>1. CASE tmp = None \/ tmp.snap # m.snap
    <3>1. t = NewTmp(m.snap)  BY <2>1 DEF TmpFor
    <3>2. Len(t.data) = Size[m.snap] /\ t.written = 0  BY <1>2, <3>1, TemporaryType
    <3> HIDE DEF t
    <3>3. \A n \in 1..Size[m.snap] : ~(n <= t.written)  BY <1>3, <3>2
    <3> QED  BY <3>2, <3>3
  <2>2. CASE ~(tmp = None \/ tmp.snap # m.snap)
    <3>1. t = tmp /\ tmp # None /\ tmp.snap = m.snap  BY <2>2 DEF TmpFor
    <3> HIDE DEF t
    <3> QED  BY <3>1 DEF ChunkInv, TmpOK
  <2> QED  BY <2>1, <2>2
<1> HIDE DEF t
<1>5. ASSUME Expected(m, t)
      PROVE  /\ data \in Seq(Contents \union {None})
             /\ Len(data) = Size[m.snap]
             /\ \A n \in 1..Size[m.snap] : n <= m.at + 1 => data[n] = Chunk(m.snap, n - 1)
  <2>1. t.written = m.at  BY <1>5 DEF Expected
  <2>2. m.is \in Contents \union {None} /\ m.at + 1 \in Nat  BY <1>2
  <2>3. data \in Seq(Contents \union {None}) /\ Len(data) = Len(t.data)
    <3>1. t.data \in Seq(Contents \union {None})  BY <1>1
    <3> DEFINE q == t.data
               v == m.is
               i == m.at + 1
               S == Contents \union {None}
    <3> HIDE DEF q, v, i, S
    <3>2. q \in Seq(S) /\ v \in S /\ i \in Nat  BY <2>2, <3>1 DEF q, v, i, S
    <3>3. [q EXCEPT ![i] = v] \in Seq(S) /\ Len([q EXCEPT ![i] = v]) = Len(q)
      BY <3>2, ExceptType, Zenon
    <3> QED  BY <3>3 DEF q, v, i, S
  <2>4. ASSUME NEW n \in 1..Size[m.snap], n <= m.at + 1
        PROVE  data[n] = Chunk(m.snap, n - 1)
    <3>1. DOMAIN t.data = 1..Size[m.snap] /\ n \in Int  BY <1>1, <1>3, <1>4
    <3>2. CASE n = m.at + 1
      <4>1. data[n] = m.is  BY <3>1, <3>2
      <4>2. n - 1 = m.at  BY <1>2, <3>1, <3>2
      <4> QED  BY <4>1, <4>2
    <3>3. CASE n # m.at + 1
      <4>1. data[n] = t.data[n]  BY <3>1, <3>3
      <4>2. n <= t.written  BY <1>2, <2>1, <2>4, <3>1, <3>3
      <4> QED  BY <1>4, <4>1, <4>2
    <3> QED  BY <3>2, <3>3
  <2> QED  BY <1>4, <2>3, <2>4
<1> QED  BY <1>4, <1>5 DEF t

LEMMA HandleChunks ==
  ASSUME StreamInv, PeerInv, ChunkInv, NEW m \in wire, Handle(m), UNCHANGED bounds
  PROVE  ChunkInv'
<1> DEFINE t == TmpFor(m)
           data == [t.data EXCEPT ![m.at + 1] = m.is]
<1>1. /\ m \in Message /\ m.snap \in Snapshot /\ m.at \in Nat /\ wire' = wire \ {m}
      /\ UNCHANGED <<leader, current, locks, sending, rpc, buffer>>
  BY HandledType
<1>2. UNCHANGED stepDowns  BY DEF bounds
<1>3. m.is = Chunk(m.snap, m.at)  BY DEF ChunkInv, ChunksOK
<1>4. /\ t.snap = m.snap /\ Len(t.data) = Size[m.snap]
      /\ \A n \in 1..Size[m.snap] : n <= t.written => t.data[n] = Chunk(m.snap, n - 1)
      /\ Expected(m, t) =>
           /\ data \in Seq(Contents \union {None})
           /\ Len(data) = Size[m.snap]
           /\ \A n \in 1..Size[m.snap] : n <= m.at + 1 => data[n] = Chunk(m.snap, n - 1)
  BY <1>1, <1>3, WrittenType, TmpForType
<1>5. t \in Temporary  BY <1>1, TmpForType
<1>6. \/ UNCHANGED <<tmp, log>>
      \/ tmp' = t /\ UNCHANGED log
      \/ /\ Expected(m, t) /\ Done(m)
         /\ tmp' = None /\ log' = Installed(m.snap, data)
      \/ /\ Expected(m, t)
         /\ tmp' = [t EXCEPT !.data = data, !.written = m.at + 1] /\ UNCHANGED log
  BY DEF Handle, Write
<1> HIDE DEF t, data
<1>7. ChunksOK'
  <2>1. CurrentTerm' = CurrentTerm  BY <1>2 DEF CurrentTerm
  <2> QED  BY <1>1, <2>1 DEF ChunkInv, ChunksOK, Overtaken
<1>8. TmpOK'
  <2>1. CASE UNCHANGED tmp  BY <2>1 DEF ChunkInv, TmpOK
  <2>2. CASE tmp' = t  BY <1>4, <2>2 DEF TmpOK
  <2>3. CASE tmp' = None  BY <2>3 DEF TmpOK
  <2>4. CASE Expected(m, t) /\ tmp' = [t EXCEPT !.data = data, !.written = m.at + 1]
    <3>1. tmp'.snap = m.snap /\ tmp'.data = data /\ tmp'.written = m.at + 1
      BY <1>4, <1>5, <2>4 DEF Temporary
    <3> QED  BY <1>4, <2>4, <3>1 DEF TmpOK
  <2> QED  BY <1>6, <2>1, <2>2, <2>3, <2>4
<1>9. InstalledIsWhole'
  <2>1. CASE UNCHANGED log  BY <2>1 DEF ChunkInv, InstalledIsWhole
  <2>2. CASE Expected(m, t) /\ Done(m) /\ log' = Installed(m.snap, data)
    <3>1. log \in LogType  BY DEF PeerInv, PeerType, LogType
    <3>2. data \in Seq(Contents \union {None}) /\ Len(data) = Size[m.snap]  BY <1>4, <2>2
    <3>3. log'.snap = m.snap /\ log'.data = data  BY <1>1, <2>2, <3>1, <3>2, InstalledType
    <3>4. Size[m.snap] \in Nat /\ m.at + 1 >= Size[m.snap]
      BY <1>1, <2>2, SnapshotType DEF Done
    <3>5. \A n \in 1..Size[m.snap] : n <= m.at + 1  BY <1>1, <3>4
    <3>6. \A n \in 1..Size[m.snap] : data[n] = Chunk(m.snap, n - 1)  BY <1>4, <2>2, <3>5
    <3>7. data = [n \in 1..Size[m.snap] |-> Chunk(m.snap, n - 1)]  BY <3>2, <3>4, <3>6
    <3>8. data = Whole(m.snap)  BY <1>1, <3>7, WholeType
    <3> QED  BY <3>3, <3>8 DEF InstalledIsWhole, Whole
  <2> QED  BY <1>6, <2>1, <2>2
<1> QED  BY <1>7, <1>8, <1>9 DEF ChunkInv

LEMMA CompactChunks ==
  ASSUME StreamInv, PeerInv, ChunkInv, NEW s \in Snapshot, Compact(s), UNCHANGED bounds
  PROVE  ChunkInv'
<1>1. /\ log' = [log EXCEPT !.snap = s, !.data = Whole(s)]
      /\ UNCHANGED <<leader, current, locks, sending, rpc, wire, buffer, tmp, stepDowns>>
  BY DEF Compact, server, link, bounds
<1>2. log \in LogType  BY DEF PeerInv, PeerType, LogType
<1>3. log'.snap = s /\ log'.data = Whole(s)  BY <1>1, <1>2 DEF LogType
<1>4. InstalledIsWhole'  BY <1>3 DEF InstalledIsWhole, Whole
<1>5. CurrentTerm' = CurrentTerm  BY <1>1 DEF CurrentTerm
<1>6. ChunksOK'  BY <1>1, <1>5 DEF ChunkInv, ChunksOK, Overtaken
<1> QED  BY <1>1, <1>4, <1>6 DEF ChunkInv, TmpOK

\* The request is sent again from the buffer, which nothing was read into since.
LEMMA ReconnectChunks ==
  ASSUME StreamInv, PeerInv, ChunkInv, Reconnect
  PROVE  ChunkInv'
<1>1. /\ rpc # None /\ tmp' \in {None, tmp}
      /\ UNCHANGED <<leader, current, locks, sending, rpc, buffer, log, stepDowns>>
  BY DEF Reconnect, server
<1>2. PICK old \in Old(wire) : wire' = old \union {[rpc EXCEPT !.is = buffer]}
  BY DEF Reconnect
<1>3. rpc \in Message /\ rpc.is = Chunk(rpc.snap, rpc.at) /\ buffer = rpc.is
  BY <1>1, PeerTyped DEF ChunkInv, ChunksOK
<1> DEFINE m == [rpc EXCEPT !.is = buffer]
<1>4. m.is = Chunk(m.snap, m.at)  BY <1>3 DEF Message
<1>5. ASSUME NEW n \in old  PROVE n.is = Chunk(n.snap, n.at)
  <2>1. PICK o \in wire : o \in Message /\ n = [o EXCEPT !.live = FALSE]  BY OldType
  <2>2. o.is = Chunk(o.snap, o.at)  BY DEF ChunkInv, ChunksOK
  <2> QED  BY <2>1, <2>2 DEF Message
<1> HIDE DEF m
<1>6. CurrentTerm' = CurrentTerm  BY <1>1 DEF CurrentTerm
<1>7. \A n \in wire' : n.is = Chunk(n.snap, n.at)  BY <1>2, <1>4, <1>5 DEF m
<1>8. ChunksOK'  BY <1>1, <1>6, <1>7 DEF ChunkInv, ChunksOK, Overtaken
<1>9. TmpOK'  BY <1>1 DEF ChunkInv, TmpOK
<1> QED  BY <1>1, <1>8, <1>9 DEF ChunkInv, InstalledIsWhole

LEMMA StepDownChunks ==
  ASSUME StreamInv, PeerInv, ChunkInv, StepDownPeer
  PROVE  ChunkInv'
<1>1. leader' = FALSE /\ rpc' = None /\ UNCHANGED <<buffer, log, tmp>>
  BY DEF StepDownPeer, StepDown
<1>2. PICK old \in Old(wire) : wire' = old  BY DEF StepDownPeer
<1>3. ASSUME NEW n \in old  PROVE n.is = Chunk(n.snap, n.at)
  <2>1. PICK o \in wire : o \in Message /\ n = [o EXCEPT !.live = FALSE]  BY OldType
  <2>2. o.is = Chunk(o.snap, o.at)  BY DEF ChunkInv, ChunksOK
  <2> QED  BY <2>1, <2>2 DEF Message
<1>4. ChunksOK'  BY <1>1, <1>2, <1>3 DEF ChunksOK
<1> QED  BY <1>1, <1>4 DEF ChunkInv, TmpOK, InstalledIsWhole

\* Nobody who reads a chunk is left over from an earlier term.
LEMMA BecomeLeaderChunks ==
  ASSUME ~SlowRead, StreamInv, PeerInv, ChunkInv, BecomeLeaderPeer
  PROVE  ChunkInv'
<1>1. /\ ~leader /\ (\A t \in Term : ~Holder(t))
      /\ UNCHANGED <<current, locks, sending, rpc, wire, buffer, log, tmp, stepDowns>>
  BY DEF BecomeLeaderPeer, BecomeLeader, link, bounds
<1>2. rpc = None  BY <1>1 DEF PeerInv, LinkOK
<1>3. ASSUME NEW t \in Term  PROVE Overtaken(t)'
  <2>1. CASE sending[t] = None  BY <1>1, <2>1 DEF Overtaken
  <2>2. CASE sending[t] # None
    <3>1. Caller(t) \notin locks[sending[t].snap].shared  BY <1>1, <2>2 DEF Holder
    <3>2. /\ Called(locks, Caller(t), sending[t].snap)
          /\ sending[t].step = "read" => Open(locks, Caller(t), sending[t].snap)
          /\ sending[t].step \in {"lock", "read"}
      BY <2>2, PeerTyped DEF PeerInv, SendingOK
    <3>3. sending[t].step = "lock" /\ Caller(t) \in locks[sending[t].snap].waiting
      BY <3>1, <3>2 DEF Called, Open
    <3> QED  BY <1>1, <3>3 DEF Overtaken
  <2> QED  BY <2>1, <2>2
<1>4. ChunksOK'  BY <1>1, <1>2, <1>3 DEF ChunkInv, ChunksOK
<1> QED  BY <1>1, <1>4 DEF ChunkInv, TmpOK, InstalledIsWhole

\* A call that waits for its lock goes on waiting until the snapshot is replaced.
LEMMA LocalChunks ==
  ASSUME StreamInv, PeerInv, ChunkInv, Local, UNCHANGED peer
  PROVE  ChunkInv'
<1>1. UNCHANGED <<leader, stepDowns, sending, rpc, wire, buffer, log, tmp>>
  BY DEF Local, RequestInstall, BeginInstall, EndInstall, peer, link, bounds
<1>2. CurrentTerm' = CurrentTerm  BY <1>1 DEF CurrentTerm
<1>3. current \in Snapshot /\ current \in Int  BY CurrentTermType DEF Snapshot
<1>4. ASSUME NEW t \in Term, Overtaken(t)  PROVE Overtaken(t)'
  <2>1. CASE sending[t] = None  BY <1>1, <2>1 DEF Overtaken
  <2>2. CASE sending[t] # None
    <3>1. sending[t].snap <= current  BY <2>2 DEF PeerInv, SendingOK
    <3>2. sending[t].snap \in Int  BY <2>2, PeerTyped DEF Snapshot
    <3>3. CASE RequestInstall  BY <1>1, <1>4, <3>3 DEF RequestInstall, Overtaken
    <3>4. CASE BeginInstall
      <4>1. sending[t].snap # current'  BY <1>3, <3>1, <3>2, <3>4 DEF BeginInstall
      <4> QED  BY <1>1, <1>4, <2>2, <4>1 DEF Overtaken
    <3>5. CASE EndInstall
      <4> DEFINE old == current - 1
      <4>1. /\ UNCHANGED current /\ locks \in [Snapshot -> LockType] /\ old # current
            /\ locks' = [locks EXCEPT ![old] = [shared |-> locks[old].shared \union locks[old].waiting,
                                                waiting |-> {}]]
        BY <1>3, <3>5 DEF EndInstall, StreamInv, TablesOK, LocksOK
      <4> HIDE DEF old
      <4>2. locks'[current] = locks[current]  BY <1>3, <4>1
      <4> QED  BY <1>1, <1>4, <4>1, <4>2 DEF Overtaken
    <3> QED  BY <3>3, <3>4, <3>5 DEF Local
  <2> QED  BY <2>1, <2>2
<1>5. ChunksOK'  BY <1>1, <1>2, <1>4 DEF ChunkInv, ChunksOK
<1> QED  BY <1>1, <1>5 DEF ChunkInv, TmpOK, InstalledIsWhole

LEMMA AloneChunks ==
  ASSUME PeerInv, ChunkInv, ~ByPeer, UNCHANGED peer
  PROVE  ChunkInv'
<1>1. UNCHANGED <<sending, rpc, wire, buffer, log, tmp>>  BY DEF peer, link
<1>2. (\A t \in Term : sending[t] = None) /\ rpc = None  BY DEF PeerInv, Alone
<1>3. \A t \in Term : Overtaken(t)'  BY <1>1, <1>2 DEF Overtaken
<1>4. ChunksOK'  BY <1>1, <1>2, <1>3 DEF ChunkInv, ChunksOK
<1> QED  BY <1>1, <1>4 DEF ChunkInv, TmpOK, InstalledIsWhole

LEMMA ChunkNextStep ==
  ASSUME ~SlowRead, StreamInv, PeerInv, ChunkInv, InstallNext
  PROVE  ChunkInv'
<1>1. CASE ~ByPeer /\ UNCHANGED peer  BY <1>1, AloneChunks
<1>2. CASE PeerStep
  <2>1. CASE \E t \in Term : Transfer(t) /\ Apart
    BY <2>1, BeginReadChunks, EndReadChunks DEF Transfer
  <2>2. CASE (Received \/ SendSnapshotTo \/ AppendEntries) /\ Apart  BY <2>2, SendChunks
  <2>3. CASE /\ (\E m \in wire : Handle(m)) \/ (\E s \in Snapshot : Compact(s))
             /\ UNCHANGED bounds
    BY <2>3, HandleChunks, CompactChunks
  <2>4. CASE Reconnect  BY <2>4, ReconnectChunks
  <2>5. CASE StepDownPeer  BY <2>5, StepDownChunks
  <2>6. CASE BecomeLeaderPeer  BY <2>6, BecomeLeaderChunks
  <2>7. CASE Local /\ UNCHANGED peer  BY <2>7, LocalChunks
  <2> QED  BY <1>2, <2>1, <2>2, <2>3, <2>4, <2>5, <2>6, <2>7 DEF PeerStep, Apart
<1> QED  BY <1>1, <1>2 DEF InstallNext

-----------------------------------------------------------------------------
(* What a client is given. *)

\* Unless the snapshot is replaced, everything is about the first one, and no chunk
\* begins at its end.
FirstTransfer ==
  {t \in TransferType :
     /\ t.snap = 1 /\ (t.offset # None => t.offset \in 0..Size[1])
     /\ 0 <= t.confirmed /\ 0 <= t.sent /\ t.sent <= t.read /\ t.read <= Size[1]}
FirstRequest == {m \in RequestType : m.offset # None => m.offset \in 0..Size[1]}
FirstReply ==
  {m \in ReplyType :
     m.status = "snapshot" =>
       m.index = 1 /\ m.size = Size[1] /\ m.length = 1 /\ 0 <= m.from /\ m.from < Size[1]}

\* A client that has no offset has begun nothing, or has the whole snapshot.
ClientFits ==
  /\ \A n \in 1..Len(received) : received[n] = [snap |-> 1, from |-> n - 1]
  /\ client.offset = None => client.byte \in {0, Size[1]}
  /\ client.offset # None =>
       /\ client.offset = client.byte /\ client.byte = Len(received) /\ client.byte <= Size[1]

Pieces ==
  /\ transfers \in Seq(FirstTransfer)
  /\ requests \in Seq(FirstRequest) /\ replies \in Seq(FirstReply)
  /\ ClientFits

PiecesInv == current = 1 => Pieces

LEMMA FirstSize ==
  /\ Size[1] \in Nat /\ 0 \in 0..Size[1]
  /\ FirstTransfer \subseteq TransferType
<1>1. Size[1] \in Nat  BY SnapshotType
<1>2. 0 \in 0..Size[1]  BY <1>1
<1> QED  BY <1>1, <1>2 DEF FirstTransfer

LEMMA OffsetFits ==
  ASSUME StreamInv, Pieces, client.offset # None
  PROVE  client.offset \in 0..Size[1]
<1>1. client.offset = Len(received) /\ Len(received) \in Nat /\ client.offset <= Size[1]
  BY DEF Pieces, ClientFits, StreamInv, ClientsOK
<1> QED  BY <1>1, FirstSize

LEMMA FirstClosed ==
  ASSUME NEW t \in FirstTransfer, NEW stream \in Stream
  PROVE  [t EXCEPT !.stream = stream] \in FirstTransfer
  BY DEF FirstTransfer, TransferType

LEMMA FirstFlow ==
  ASSUME NEW t \in FirstTransfer
  PROVE  Flow(t) \in FirstTransfer
<1>1. \A stream \in Stream : [t EXCEPT !.stream = stream] \in FirstTransfer  BY FirstClosed
<1>2. Flow(t) \in {t, [t EXCEPT !.stream = "paused"], [t EXCEPT !.stream = "flowing"]}
  BY DEF Flow
<1> QED  BY <1>1, <1>2 DEF Stream

LEMMA FirstPiped ==
  ASSUME NEW t \in FirstTransfer
  PROVE  Piped(t) \in FirstTransfer /\ Chunks(t) \in Seq(FirstReply)
<1>1. /\ t \in TransferType /\ t.snap = 1 /\ 0 <= t.confirmed
      /\ 0 <= t.sent /\ t.sent <= t.read /\ t.read <= Size[1]
      /\ t.sent \in Int /\ t.read \in Int /\ t.confirmed \in Int /\ t.key \in Key
  BY DEF FirstTransfer, TransferType
<1>2. Pipelines \in Nat /\ Size[1] \in Nat  BY WindowAssumption, SnapshotType
<1> DEFINE last == Smaller(t.read, t.confirmed + Pipelines)
<1>3. last \in Int /\ 0 <= last /\ last <= t.read  BY <1>1, <1>2 DEF Smaller
<1>4. Piped(t) = [t EXCEPT !.sent = last]  BY DEF Piped
<1> HIDE DEF last
<1>5. Piped(t) \in FirstTransfer  BY <1>3, <1>4 DEF FirstTransfer, TransferType
<1>6. Piped(t).sent = last  BY <1>1, <1>4 DEF TransferType
<1> DEFINE k == last - t.sent
<1>7. PICK n \in Nat : 1..k = 1..n
  <2>1. k \in Int  BY <1>1, <1>3
  <2>2. CASE k \in Nat  BY <2>2
  <2>3. CASE k \notin Nat
    <3>1. 1..k = 1..0  BY <2>1, <2>3
    <3> QED  BY <3>1
  <2> QED  BY <2>2, <2>3
<1>8. ASSUME NEW m \in 1..n
      PROVE  ChunkReply(t, t.sent + m - 1, 1) \in FirstReply
  <2> DEFINE from == t.sent + m - 1
  <2>1. m \in 1..k  BY <1>7
  <2>2. from \in Int /\ 0 <= from /\ from < Size[1]  BY <1>1, <1>2, <1>3, <2>1
  <2> HIDE DEF from
  <2>3. ChunkReply(t, from, 1) =
          [key |-> t.key, status |-> "snapshot", index |-> 1, from |-> from, length |-> 1,
           size |-> Size[1]]
    BY <1>1 DEF ChunkReply
  <2>4. ChunkReply(t, from, 1) \in ReplyType
    <3>1. t.key \in Key /\ t.snap \in Int /\ Size[t.snap] \in Int  BY <1>1, <1>2
    <3> QED  BY <2>2, <3>1 DEF ChunkReply, ReplyType, Status
  <2>5. /\ ChunkReply(t, from, 1).index = 1 /\ ChunkReply(t, from, 1).size = Size[1]
        /\ ChunkReply(t, from, 1).length = 1 /\ ChunkReply(t, from, 1).from = from
    BY <2>3
  <2>6. ChunkReply(t, from, 1) \in FirstReply  BY <2>2, <2>4, <2>5 DEF FirstReply
  <2> QED  BY <2>6 DEF from
<1>9. Chunks(t) = [m \in 1..n |-> ChunkReply(t, t.sent + m - 1, 1)]
  BY <1>6, <1>7 DEF Chunks
<1>10. Chunks(t) \in Seq(FirstReply)  BY <1>8, <1>9, IsASeq
<1> QED  BY <1>5, <1>10

LEMMA FirstPipe ==
  ASSUME Pieces, NEW i \in 1..Len(transfers), NEW t \in FirstTransfer, NEW unlock,
         Pipe(i, t, unlock)
  PROVE  transfers' \in Seq(FirstTransfer) /\ replies' \in Seq(FirstReply)
<1> DEFINE p == Piped(t)
           t2 == IF Finished(p) THEN [p EXCEPT !.stream = "closed"] ELSE p
<1>1. transfers' = [transfers EXCEPT ![i] = t2] /\ replies' = replies \o Chunks(t)
  BY DEF Pipe
<1>2. p \in FirstTransfer /\ Chunks(t) \in Seq(FirstReply)  BY FirstPiped
<1>3. t2 \in FirstTransfer
  <2>1. "closed" \in Stream  BY DEF Stream
  <2> QED  BY <1>2, <2>1, FirstClosed
<1> HIDE DEF t2, p
<1>4. transfers \in Seq(FirstTransfer) /\ replies \in Seq(FirstReply)  BY DEF Pieces
<1>5. transfers' \in Seq(FirstTransfer)  BY <1>1, <1>3, <1>4
<1> QED  BY <1>1, <1>2, <1>4, <1>5

LEMMA FirstCancelled ==
  ASSUME Pieces, NEW i \in 1..Len(transfers)
  PROVE  Cancelled(i).transfers \in Seq(FirstTransfer)
<1> DEFINE t == [transfers[i] EXCEPT !.stream = "closed"]
<1>1. transfers \in Seq(FirstTransfer) /\ transfers[i] \in FirstTransfer  BY DEF Pieces
<1>2. t \in FirstTransfer
  <2>1. "closed" \in Stream  BY DEF Stream
  <2> QED  BY <1>1, <2>1, FirstClosed
<1>3. Cancelled(i).transfers = [transfers EXCEPT ![i] = t]  BY <1>1 DEF Cancelled
<1> HIDE DEF t
<1> QED  BY <1>1, <1>2, <1>3

\* The other replies
LEMMA FirstOther ==
  ASSUME NEW k \in Key
  PROVE  NotLeaderReply(k) \in FirstReply /\ LastReply(k) \in FirstReply
<1>1. NotLeaderReply(k).status = "not leader"  BY DEF NotLeaderReply
<1>2. LastReply(k).status = "last"  BY DEF LastReply, NotLeaderReply
<1> QED  BY <1>1, <1>2, ReplyTyped DEF FirstReply

LEMMA NewTransferPieces ==
  ASSUME Pieces, current = 1, NEW m \in FirstRequest, NEW c,
         c.transfers \in Seq(FirstTransfer), NewTransfer(m, c)
  PROVE  transfers' \in Seq(FirstTransfer) /\ replies' \in Seq(FirstReply)
<1>1. replies \in Seq(FirstReply) /\ m \in RequestType /\ m.key \in Key
  BY DEF Pieces, FirstRequest, RequestType
<1>2. CASE transfers' = c.transfers /\ UNCHANGED replies  BY <1>1, <1>2
<1>3. CASE transfers' = c.transfers /\ replies' = Append(replies, LastReply(m.key))
  <2>1. LastReply(m.key) \in FirstReply  BY <1>1, FirstOther
  <2> QED  BY <1>1, <1>3, <2>1
<1>4. CASE LockSnapshot(m, c)
  <2> DEFINE t == [key |-> m.key, snap |-> current, offset |-> m.offset, confirmed |-> 0,
                   sent |-> 0, read |-> 0, stream |-> "waiting"]
  <2>1. t \in TransferType  BY <1>1, SnapshotType DEF RequestType, TransferType, Stream
  <2>2. t \in FirstTransfer
    <3>1. t.snap = 1 /\ t.offset = m.offset /\ t.confirmed = 0 /\ t.sent = 0 /\ t.read = 0
      OBVIOUS
    <3> HIDE DEF t
    <3>2. m.offset # None => m.offset \in 0..Size[1]  BY DEF FirstRequest
    <3>3. Size[1] >= 0  BY FirstSize
    <3> QED  BY <2>1, <3>1, <3>2, <3>3 DEF FirstTransfer
  <2>3. transfers' = Append(c.transfers, t) /\ UNCHANGED replies  BY <1>4 DEF LockSnapshot
  <2> HIDE DEF t
  <2> QED  BY <1>1, <2>2, <2>3
<1> QED  BY <1>2, <1>3, <1>4 DEF NewTransfer

LEMMA RequestPieces ==
  ASSUME StreamInv, Pieces, current = 1, HandleRequest
  PROVE  Pieces'
<1> DEFINE m == Head(requests)
           i == entries[m.key]
<1>1. requests \in Seq(FirstRequest) /\ replies \in Seq(FirstReply)
      /\ transfers \in Seq(FirstTransfer)
  BY DEF Pieces
<1>2. m \in FirstRequest /\ Tail(requests) \in Seq(FirstRequest)
  BY <1>1 DEF HandleRequest
<1>3. m.key \in Key  BY <1>2 DEF FirstRequest, RequestType
<1>4. requests' = Tail(requests) /\ UNCHANGED <<client, received>>  BY DEF HandleRequest
<1>5. i # 0 => i \in 1..Len(transfers)  BY <1>3 DEF StreamInv, TablesOK, EntriesOK
<1>6. transfers' \in Seq(FirstTransfer) /\ replies' \in Seq(FirstReply)
  <2>1. CASE ~leader
    <3>1. replies' = Append(replies, NotLeaderReply(m.key)) /\ UNCHANGED transfers
      BY <2>1 DEF HandleRequest
    <3>2. NotLeaderReply(m.key) \in FirstReply  BY <1>3, FirstOther
    <3> QED  BY <1>1, <3>1, <3>2
  <2>2. CASE leader /\ i = 0
    <3> DEFINE c == [transfers |-> transfers, entries |-> entries, locks |-> locks]
    <3>1. NewTransfer(m, c)  BY <2>2 DEF HandleRequest
    <3>2. c.transfers \in Seq(FirstTransfer)  BY <1>1
    <3> HIDE DEF c
    <3> QED  BY <1>2, <3>1, <3>2, NewTransferPieces
  <2>3. CASE leader /\ i # 0 /\ m.stop
    <3>1. transfers' = Cancelled(i).transfers /\ UNCHANGED replies  BY <2>3 DEF HandleRequest
    <3> QED  BY <1>1, <1>5, <2>3, <3>1, FirstCancelled
  <2>4. CASE leader /\ i # 0 /\ ~m.stop /\ ~Confirms(transfers[i], m)
    <3>1. NewTransfer(m, Cancelled(i))  BY <2>4 DEF HandleRequest
    <3>2. Cancelled(i).transfers \in Seq(FirstTransfer)  BY <1>5, <2>4, FirstCancelled
    <3> QED  BY <1>2, <3>1, <3>2, NewTransferPieces
  <2>5. CASE leader /\ i # 0 /\ ~m.stop /\ Confirms(transfers[i], m)
    <3> DEFINE t == [transfers[i] EXCEPT !.confirmed = @ + 1]
    <3>1. Pipe(i, Flow(t), FALSE)  BY <2>5 DEF HandleRequest
    <3>2. transfers[i] \in FirstTransfer  BY <1>1, <1>5, <2>5
    <3>3. t \in FirstTransfer
      <4>1. transfers[i].confirmed \in Int /\ 0 <= transfers[i].confirmed
        BY <3>2 DEF FirstTransfer, TransferType
      <4>2. transfers[i].confirmed + 1 \in Int /\ 0 <= transfers[i].confirmed + 1  BY <4>1
      <4> QED  BY <3>2, <4>2 DEF FirstTransfer, TransferType
    <3> HIDE DEF i, t
    <3> QED  BY <1>5, <2>5, <3>1, <3>3, FirstFlow, FirstPipe
  <2> QED  BY <2>1, <2>2, <2>3, <2>4, <2>5 DEF StreamInv
<1>7. ClientFits'  BY <1>4 DEF Pieces, ClientFits
<1> QED  BY <1>2, <1>4, <1>6, <1>7 DEF Pieces

\* A step of the peer that leaves the requests alone
LEMMA PeerPieces ==
  ASSUME Pieces, transfers' \in Seq(FirstTransfer), replies' \in Seq(FirstReply),
         UNCHANGED <<requests, client, received>>
  PROVE  Pieces'
  BY DEF Pieces, ClientFits

LEMMA ReadPieces ==
  ASSUME Pieces, NEW i \in 1..Len(transfers), Data(i) \/ End(i)
  PROVE  Pieces'
<1>1. transfers[i] \in FirstTransfer  BY DEF Pieces
<1>2. CASE Data(i)
  <2> DEFINE t == [transfers[i] EXCEPT !.read = @ + 1]
  <2>1. /\ Pipe(i, Flow(t), FALSE) /\ transfers[i].read < Size[transfers[i].snap]
        /\ UNCHANGED <<requests, client, received>>
    BY <1>2 DEF Data
  <2>2. t \in FirstTransfer
    <3>1. /\ transfers[i].snap = 1 /\ transfers[i].read \in Int /\ transfers[i].sent \in Int
          /\ transfers[i].sent <= transfers[i].read /\ Size[1] \in Int
      BY <1>1, FirstSize DEF FirstTransfer, TransferType
    <3>2. /\ transfers[i].read + 1 \in Int /\ transfers[i].sent <= transfers[i].read + 1
          /\ transfers[i].read + 1 <= Size[1]
      BY <2>1, <3>1
    <3> QED  BY <1>1, <3>2 DEF FirstTransfer, TransferType
  <2> HIDE DEF t
  <2> QED  BY <2>1, <2>2, FirstFlow, FirstPipe, PeerPieces
<1>3. CASE End(i)
  <2> DEFINE t == [transfers[i] EXCEPT !.stream = "closed"]
  <2>1. Pipe(i, t, TRUE) /\ UNCHANGED <<requests, client, received>>  BY <1>3 DEF End
  <2>2. "closed" \in Stream  BY DEF Stream
  <2>3. t \in FirstTransfer  BY <1>1, <2>2, FirstClosed
  <2> HIDE DEF t
  <2> QED  BY <2>1, <2>3, FirstPipe, PeerPieces
<1> QED  BY <1>2, <1>3

LEMMA SendPieces ==
  ASSUME Pieces, current = 1, NEW i \in 1..Len(transfers), SendSnapshot(i)
  PROVE  Pieces'
<1> DEFINE t == transfers[i]
           offset == IF t.offset = None THEN 0 ELSE t.offset
           closes == [t EXCEPT !.stream = "closed"]
           reads == [t EXCEPT !.confirmed = offset, !.sent = offset, !.read = offset,
                              !.stream = "flowing"]
<1>1. /\ transfers \in Seq(FirstTransfer) /\ t \in FirstTransfer
      /\ replies \in Seq(FirstReply)
  BY DEF Pieces
<1>2. t.snap = 1 /\ t.key \in Key /\ (t.offset # None => t.offset \in 0..Size[1])
  BY <1>1 DEF FirstTransfer, TransferType
<1>3. offset \in Int /\ 0 <= offset /\ offset <= Size[1] /\ Size[1] \in Int
  BY <1>2, FirstSize
<1>4. UNCHANGED <<requests, client, received>>  BY DEF SendSnapshot
<1>5. CASE ~leader
  <2>1. replies' = Append(replies, NotLeaderReply(t.key)) /\ transfers' = [transfers EXCEPT ![i] = closes]
    <3>1. transfers' = [transfers EXCEPT ![i].stream = "closed"]  BY <1>5 DEF SendSnapshot
    <3> QED  BY <1>1, <1>5, <3>1 DEF SendSnapshot
  <2>2. NotLeaderReply(t.key) \in FirstReply  BY <1>2, FirstOther
  <2>3. closes \in FirstTransfer
    <3>1. "closed" \in Stream  BY DEF Stream
    <3> QED  BY <1>1, <3>1, FirstClosed
  <2> HIDE DEF t, closes
  <2>4. transfers' \in Seq(FirstTransfer) /\ replies' \in Seq(FirstReply)
    BY <1>1, <2>1, <2>2, <2>3
  <2> QED  BY <1>4, <2>4, PeerPieces
<1>6. CASE leader
  <2>1. ~Replaced(t.snap) /\ ~(offset > Size[t.snap])  BY <1>2, <1>3 DEF Replaced
  <2>2. transfers' = [transfers EXCEPT ![i] = reads] /\ UNCHANGED replies
    <3>1. offset <= Size[t.snap]  BY <1>2, <1>3
    <3>2. transfers' = [transfers EXCEPT ![i] =
                     [@ EXCEPT !.confirmed = offset, !.sent = offset, !.read = offset,
                               !.stream = "flowing"]]
          /\ UNCHANGED replies
      BY <1>6, <2>1, <3>1 DEF SendSnapshot
    <3> QED  BY <1>1, <3>2
  <2>3. reads \in FirstTransfer
    <3>1. t \in TransferType  BY <1>1 DEF FirstTransfer
    <3> HIDE DEF offset, t
    <3>2. /\ reads \in TransferType /\ reads.snap = t.snap /\ reads.offset = t.offset
          /\ reads.confirmed = offset /\ reads.sent = offset /\ reads.read = offset
      BY <1>3, <3>1 DEF TransferType, Stream
    <3> HIDE DEF reads
    <3>3. offset <= offset  BY <1>3
    <3> QED  BY <1>2, <1>3, <3>2, <3>3 DEF FirstTransfer
  <2> HIDE DEF reads
  <2>4. transfers' \in Seq(FirstTransfer)  BY <1>1, <2>2, <2>3
  <2> QED  BY <1>1, <1>4, <2>2, <2>4, PeerPieces
<1> QED  BY <1>5, <1>6 DEF SendSnapshot

LEMMA StepDownPieces ==
  ASSUME Pieces, StepDown
  PROVE  Pieces'
<1> DEFINE ended == {i \in 1..Len(transfers) : entries[transfers[i].key] = i}
<1>1. /\ transfers' = [i \in 1..Len(transfers) |->
           IF i \in ended THEN [transfers[i] EXCEPT !.stream = "closed"] ELSE transfers[i]]
      /\ UNCHANGED <<requests, replies, client, received>>
  BY DEF StepDown
<1> HIDE DEF ended
<1>2. transfers \in Seq(FirstTransfer) /\ Len(transfers) \in Nat /\ replies \in Seq(FirstReply)
  BY DEF Pieces
<1>3. "closed" \in Stream  BY DEF Stream
<1>4. \A i \in 1..Len(transfers) :
        (IF i \in ended THEN [transfers[i] EXCEPT !.stream = "closed"] ELSE transfers[i])
          \in FirstTransfer
  <2> TAKE i \in 1..Len(transfers)
  <2>1. transfers[i] \in FirstTransfer  BY <1>2
  <2> QED  BY <1>3, <2>1, FirstClosed
<1>5. transfers' \in Seq(FirstTransfer)  BY <1>1, <1>2, <1>4, IsASeq
<1> QED  BY <1>1, <1>2, <1>5, PeerPieces

LEMMA AttemptPieces ==
  ASSUME StreamInv, Pieces, Timeout \/ Continue
  PROVE  Pieces'
<1>1. Attempt(client) /\ UNCHANGED <<server, replies, received, bounds>>
  BY DEF Timeout, Continue
<1>2. /\ client' = [client EXCEPT !.key = @ + 1, !.phase = "waiting",
                                  !.byte = IF client.offset = None THEN 0 ELSE client.offset]
      /\ requests' = Append(requests, Request(client.key + 1, client.prev, client.offset, FALSE))
      /\ UNCHANGED <<transfers, replies, received>>
  BY <1>1 DEF Attempt, server
<1>3. client \in ClientType /\ requests' \in Seq(RequestType)
  BY <1>1, AttemptType DEF StreamInv, ClientsOK
<1>4. /\ client'.offset = client.offset
      /\ client'.byte = IF client.offset = None THEN 0 ELSE client.offset
  BY <1>2, <1>3 DEF ClientType
<1>5. ClientFits'  BY <1>2, <1>4 DEF Pieces, ClientFits
<1> DEFINE r == Request(client.key + 1, client.prev, client.offset, FALSE)
<1>6. r \in FirstRequest
  <2>1. r.offset = client.offset  BY DEF Request
  <2>2. r \in RequestType
    <3>1. client.key < MaxAttempts  BY <1>1 DEF Attempt
    <3>2. /\ client.key + 1 \in Key /\ client.prev \in Int
          /\ client.offset \in Int \union {None}
      BY <1>3, <3>1, BoundAssumption DEF ClientType, Key
    <3> QED  BY <3>2 DEF Request, RequestType
  <2>3. client.offset # None => client.offset \in 0..Size[1]  BY <1>3, OffsetFits
  <2> HIDE DEF r
  <2> QED  BY <2>1, <2>2, <2>3 DEF FirstRequest
<1>7. requests' = Append(requests, r)  BY <1>2
<1> HIDE DEF r
<1>8. requests \in Seq(FirstRequest)  BY DEF Pieces
<1>9. requests' \in Seq(FirstRequest)  BY <1>6, <1>7, <1>8
<1> QED  BY <1>2, <1>5, <1>9 DEF Pieces

\* A chunk in order goes on where the one before it has ended.
LEMMA ChunkPieces ==
  ASSUME StreamInv, Pieces, NEW m \in FirstReply, m.status = "snapshot", ReceiveChunk(m)
  PROVE  ClientFits' /\ requests' \in Seq(FirstRequest)
<1> DEFINE c == AfterChunk(m)
           before == IF client.offset = None THEN <<>> ELSE received
           byte == m.from + 1
<1>1. /\ m.index = 1 /\ m.size = Size[1] /\ m.length = 1
      /\ m.from \in Int /\ 0 <= m.from /\ m.from < Size[1] /\ Size[1] \in Int
  BY FirstSize DEF FirstReply, ReplyType
<1>2. client \in ClientType /\ received \in Seq(GivenType) /\ requests \in Seq(FirstRequest)
  BY DEF StreamInv, ClientsOK, Pieces
<1>3. CASE client' = [client EXCEPT !.phase = "failed"] /\ UNCHANGED <<requests, received>>
  <2>1. client'.offset = client.offset /\ client'.byte = client.byte
    BY <1>2, <1>3 DEF ClientType
  <2> QED  BY <1>2, <1>3, <2>1 DEF Pieces, ClientFits
<1>4. CASE /\ InOrder(m) /\ received' = Append(before, Given(m))
           /\ \E stop \in BOOLEAN :
                /\ requests' = Append(requests, Request(c.key, c.prev, c.offset, stop))
                /\ client' = [c EXCEPT !.phase = IF stop THEN "paused" ELSE @]
  <2>1. client.byte = m.from  BY <1>4 DEF InOrder
  <2>2. /\ before \in Seq(GivenType) /\ Len(before) = m.from
        /\ \A n \in 1..Len(before) : before[n] = [snap |-> 1, from |-> n - 1]
    <3>1. CASE client.offset = None
      <4>1. client.byte = 0  BY <1>1, <2>1, <3>1 DEF Pieces, ClientFits
      <4> QED  BY <2>1, <3>1, <4>1
    <3>2. CASE client.offset # None  BY <1>2, <2>1, <3>2 DEF Pieces, ClientFits
    <3> QED  BY <3>1, <3>2
  <2>3. byte \in Int /\ byte <= Size[1]  BY <1>1
  <2>4. c = IF byte = Size[1]
            THEN [client EXCEPT !.byte = byte, !.prev = 1, !.offset = None]
            ELSE [client EXCEPT !.byte = byte, !.offset = byte]
    BY <1>1 DEF AfterChunk
  <2>5. PICK stop \in BOOLEAN :
          /\ requests' = Append(requests, Request(c.key, c.prev, c.offset, stop))
          /\ client' = [c EXCEPT !.phase = IF stop THEN "paused" ELSE @]
    BY <1>4
  <2>6. Given(m) = [snap |-> 1, from |-> m.from]  BY <1>1 DEF Given
  <2>7. [snap |-> 1, from |-> m.from] \in GivenType  BY <1>1 DEF GivenType
  <2> HIDE DEF before
  <2>8. received' \in Seq(GivenType) /\ Len(received') = byte
        /\ \A n \in 1..Len(received') : received'[n] = [snap |-> 1, from |-> n - 1]
    <3>1. received' = Append(before, [snap |-> 1, from |-> m.from])  BY <1>4, <2>6
    <3> DEFINE g == [snap |-> 1, from |-> m.from]
    <3>2. g = [snap |-> 1, from |-> byte - 1]
      <4>1. byte - 1 = m.from  BY <1>1
      <4> QED  BY <4>1
    <3> HIDE DEF g
    <3>3. received' = Append(before, g)  BY <3>1 DEF g
    <3>4. g \in GivenType  BY <2>7 DEF g
    <3>5. /\ received' \in Seq(GivenType) /\ Len(received') = byte
          /\ received'[byte] = g /\ \A n \in 1..Len(before) : received'[n] = before[n]
      BY <1>1, <2>2, <3>3, <3>4
    <3>6. ASSUME NEW n \in 1..byte
          PROVE  received'[n] = [snap |-> 1, from |-> n - 1]
      <4>1. CASE n = byte  BY <3>2, <3>5, <4>1
      <4>2. CASE n # byte
        <5>1. n \in 1..Len(before)  BY <1>1, <2>2, <4>2
        <5> QED  BY <2>2, <3>5, <5>1
      <4> QED  BY <4>1, <4>2
    <3> QED  BY <3>5, <3>6
  <2> HIDE DEF byte
  <2>9. /\ c \in ClientType /\ c.byte = byte
        /\ byte = Size[1] => c.offset = None
        /\ byte # Size[1] => c.offset = byte
    <3> HIDE DEF c
    <3>1. 1 \in Int  OBVIOUS
    <3>2. CASE byte = Size[1]
      <4>1. c = [client EXCEPT !.byte = byte, !.prev = 1, !.offset = None]  BY <2>4, <3>2
      <4>2. c \in ClientType  BY <1>2, <2>3, <3>1, <4>1 DEF ClientType
      <4>3. c.byte = byte /\ c.offset = None  BY <1>2, <4>1 DEF ClientType
      <4> QED  BY <3>2, <4>2, <4>3
    <3>3. CASE byte # Size[1]
      <4>1. c = [client EXCEPT !.byte = byte, !.offset = byte]  BY <2>4, <3>3
      <4> QED  BY <1>2, <2>3, <3>3, <4>1 DEF ClientType
    <3> QED  BY <3>2, <3>3
  <2> HIDE DEF c
  <2>10. client'.byte = byte /\ client'.offset = c.offset  BY <2>5, <2>9 DEF ClientType
  <2>11. byte \notin {None}  BY <1>1, <2>3, NoneAssumption DEF byte
  <2>12. ClientFits'  BY <2>3, <2>8, <2>9, <2>10, <2>11 DEF ClientFits
  <2> DEFINE r == Request(c.key, c.prev, c.offset, stop)
  <2>13. r \in FirstRequest
    <3>1. r \in RequestType /\ r.offset = c.offset  BY <2>9 DEF Request, RequestType, ClientType
    <3>2. c.offset # None => c.offset \in 0..Size[1]
      <4>1. byte \in 0..Size[1]  BY <1>1 DEF byte
      <4> QED  BY <2>9, <4>1
    <3> HIDE DEF r
    <3> QED  BY <3>1, <3>2 DEF FirstRequest
  <2>14. requests' = Append(requests, r)  BY <2>5
  <2> HIDE DEF r
  <2> QED  BY <1>2, <2>12, <2>13, <2>14
<1> QED  BY <1>3, <1>4 DEF ReceiveChunk

LEMMA ReceivePieces ==
  ASSUME StreamInv, Pieces, Receive
  PROVE  Pieces'
<1> DEFINE m == Head(replies)
<1>1. replies \in Seq(FirstReply) /\ replies # <<>> /\ requests \in Seq(FirstRequest)
      /\ replies' = Tail(replies) /\ UNCHANGED transfers
  BY DEF Pieces, Receive, server
<1>2. m \in FirstReply /\ replies' \in Seq(FirstReply)  BY <1>1
<1>3. client \in ClientType /\ m.status \in Status
  BY <1>2 DEF StreamInv, ClientsOK, FirstReply, ReplyType
<1>4. ClientFits' /\ requests' \in Seq(FirstRequest)
  <2>1. CASE UNCHANGED <<client, requests, received>>
    BY <1>1, <2>1 DEF Pieces, ClientFits
  <2>2. CASE m.status = "snapshot" /\ ReceiveChunk(m)  BY <1>2, <2>2, ChunkPieces
  <2>3. CASE /\ \/ client' = [client EXCEPT !.phase = "done"]
                \/ client' = [client EXCEPT !.phase = "paused"]
             /\ UNCHANGED <<requests, received>>
    <3>1. client'.offset = client.offset /\ client'.byte = client.byte
      BY <1>3, <2>3 DEF ClientType
    <3> QED  BY <1>1, <2>3, <3>1 DEF Pieces, ClientFits
  <2> QED  BY <1>3, <2>1, <2>2, <2>3 DEF Receive, Status
<1> QED  BY <1>1, <1>2, <1>4 DEF Pieces

LEMMA LosePieces ==
  ASSUME Pieces, LoseMessage
  PROVE  Pieces'
<1>1. requests \in Seq(FirstRequest) /\ replies \in Seq(FirstReply)
      /\ UNCHANGED <<transfers, client, received>>
  BY DEF Pieces, LoseMessage, server
<1>2. requests' \in Seq(FirstRequest) /\ replies' \in Seq(FirstReply)
  <2>1. CASE requests # <<>> /\ requests' = Tail(requests) /\ UNCHANGED replies  BY <1>1, <2>1
  <2>2. CASE replies # <<>> /\ replies' = Tail(replies) /\ UNCHANGED requests  BY <1>1, <2>2
  <2> QED  BY <2>1, <2>2 DEF LoseMessage
<1> QED  BY <1>1, <1>2 DEF Pieces, ClientFits

\* The first snapshot is the current one until another one is installed.
LEMMA PiecesStep ==
  ASSUME StreamInv, PiecesInv, InstallNext
  PROVE  PiecesInv'
<1> SUFFICES ASSUME current' = 1 PROVE Pieces'  BY DEF PiecesInv
<1>1. current = 1 /\ Pieces
  <2>1. current \in Int /\ current >= 1  BY DEF StreamInv, InstallOK, Snapshot
  <2>2. current' \in {current, current + 1}
    <3>1. CASE ByPeer /\ PeerStep
      BY <3>1 DEF PeerStep, Transfer, BeginRead, EndRead, Received, SendSnapshotTo, AppendEntries,
                  Handle, Compact, Reconnect, StepDownPeer, StepDown, BecomeLeaderPeer, BecomeLeader,
                  Local, RequestInstall, BeginInstall, EndInstall, server
    <3>2. CASE Next
      BY <3>2 DEF Next, Data, End, SendSnapshot, Expire, HandleRequest, StepDown, BecomeLeader,
                  RequestInstall, BeginInstall, EndInstall, Timeout, Continue, Receive,
                  LoseMessage, server
    <3> QED  BY <3>1, <3>2 DEF InstallNext
  <2> QED  BY <2>1, <2>2 DEF PiecesInv
<1>2. CASE UNCHANGED <<transfers, requests, replies, client, received>>
  BY <1>1, <1>2 DEF Pieces, ClientFits
<1>3. CASE StepDown  BY <1>1, <1>3, StepDownPieces
<1>4. CASE Next
  <2>1. CASE \E i \in 1..Len(transfers) : Data(i) \/ End(i) \/ SendSnapshot(i)
    BY <1>1, <2>1, ReadPieces, SendPieces
  <2>2. CASE \E k \in Key : Expire(k)
    <3>1. PICK k \in Key : Expire(k)  BY <2>2
    <3>2. /\ entries[k] # 0 /\ transfers' = Cancelled(entries[k]).transfers
          /\ UNCHANGED <<requests, replies, client, received>>
      BY <3>1 DEF Expire
    <3>3. entries[k] \in 1..Len(transfers)  BY <3>2, CancelStep
    <3>4. transfers' \in Seq(FirstTransfer) /\ replies' \in Seq(FirstReply)
      BY <1>1, <3>2, <3>3, FirstCancelled DEF Pieces
    <3> QED  BY <1>1, <3>2, <3>4, PeerPieces
  <2>3. CASE HandleRequest  BY <1>1, <2>3, RequestPieces
  <2>4. CASE BecomeLeader \/ RequestInstall \/ BeginInstall \/ EndInstall
    BY <1>2, <2>4 DEF BecomeLeader, RequestInstall, BeginInstall, EndInstall
  <2>5. CASE Timeout \/ Continue  BY <1>1, <2>5, AttemptPieces
  <2>6. CASE Receive  BY <1>1, <2>6, ReceivePieces
  <2>7. CASE LoseMessage  BY <1>1, <2>7, LosePieces
  <2> QED  BY <1>3, <1>4, <2>1, <2>2, <2>3, <2>4, <2>5, <2>6, <2>7 DEF Next
<1>5. CASE PeerStep
  BY <1>2, <1>3, <1>5 DEF PeerStep, Handle, Compact, Reconnect, StepDownPeer, BecomeLeaderPeer,
       BecomeLeader, Local, RequestInstall, BeginInstall, EndInstall, server
<1> QED  BY <1>4, <1>5 DEF InstallNext

LEMMA PiecesInitially ==
  ASSUME InstallInit
  PROVE  PiecesInv
<1>1. /\ transfers = <<>> /\ replies = <<>> /\ received = <<>>
      /\ requests = <<>> \/ requests = <<Request(1, 0, None, FALSE)>>
      /\ client.offset = None /\ client.byte = 0
  <2>1. InitWith(<<>>, "none") \/ InitWith(<<Request(1, 0, None, FALSE)>>, "waiting")
    BY DEF InstallInit, Init
  <2>2. CASE InitWith(<<>>, "none")
    <3>1. client = [key |-> 1, prev |-> 0, offset |-> None, byte |-> 0, phase |-> "none"]
      BY <2>2 DEF InitWith
    <3> QED  BY <2>2, <3>1 DEF InitWith
  <2>3. CASE InitWith(<<Request(1, 0, None, FALSE)>>, "waiting")
    <3>1. client = [key |-> 1, prev |-> 0, offset |-> None, byte |-> 0, phase |-> "waiting"]
      BY <2>3 DEF InitWith
    <3> QED  BY <2>3, <3>1 DEF InitWith
  <2> QED  BY <2>1, <2>2, <2>3
<1>2. requests \in Seq(FirstRequest)
  <2> DEFINE r == Request(1, 0, None, FALSE)
  <2>1. r \in RequestType /\ r.offset = None  BY BoundAssumption DEF Request, RequestType, Key
  <2> HIDE DEF r
  <2>2. r \in FirstRequest  BY <2>1 DEF FirstRequest
  <2>3. <<r>> \in Seq(FirstRequest) /\ <<>> \in Seq(FirstRequest)  BY <2>2
  <2> QED  BY <1>1, <2>3 DEF r
<1>3. ClientFits  BY <1>1 DEF ClientFits
<1> QED  BY <1>1, <1>2, <1>3 DEF PiecesInv, Pieces

-----------------------------------------------------------------------------

LEMMA Unchanged ==
  ASSUME StreamInv, PeerInv, UNCHANGED allvars
  PROVE  StreamInv' /\ PeerInv' /\ (ChunkInv => ChunkInv')
<1>1. /\ UNCHANGED <<leader, current, install, locks, transfers, entries>>
      /\ UNCHANGED <<requests, replies, client, received, losses, stepDowns, late>>
      /\ UNCHANGED <<sending, next, match, rpc, wire, answer, buffer, log, known, tmp>>
  BY DEF allvars, vars, server, bounds, peer, link
<1>2. StreamInv'
  <2>1. BoundsOK' /\ ClientsOK' /\ leader' \in BOOLEAN
    BY <1>1 DEF StreamInv, BoundsOK, ClientsOK
  <2>2. TablesOK(transfers', entries', locks')  BY <1>1 DEF StreamInv
  <2> QED  BY <1>1, <2>1, <2>2, StreamStep
<1>3. CurrentTerm' = CurrentTerm  BY <1>1 DEF CurrentTerm
<1>4. PeerType'  BY <1>1 DEF PeerInv, PeerType
<1>5. SendingOK(sending, locks)'  BY <1>1, <1>3 DEF PeerInv, SendingOK, Called, Open
<1>6. LinkOK' /\ Alone'  BY <1>1, <1>3 DEF PeerInv, LinkOK, Alone, ByPeer
<1>7. ChunkInv => ChunkInv'
  BY <1>1, <1>3 DEF ChunkInv, ChunksOK, Overtaken, TmpOK, InstalledIsWhole
<1> QED  BY <1>2, <1>4, <1>5, <1>6, <1>7 DEF PeerInv

\* The types of both parts, who holds or waits for which lock, and what the leader
\* waits for, in every reachable state of requestEntriesHandler with its clients
\* and of sendInstallSnapshot with its follower (raft_server.js:291-549,
\* raft_leader.js:397-480, filelog.js:745-774).
THEOREM SnapshotInvariant == InstallSpec => [](StreamInv /\ PeerInv)
<1>1. InstallInit => StreamInv /\ PeerInv  BY InstallInitially
<1>2. StreamInv /\ PeerInv /\ [InstallNext]_allvars => (StreamInv /\ PeerInv)'
  BY InstallNextStep, Unchanged
<1> QED  BY <1>1, <1>2, PTL DEF InstallSpec

\* Nobody reads a snapshot file that was closed, whatever the sizes of the snapshots,
\* the window, and the numbers of requests, lost messages and terms:
\* lockAndSendSnapshot asks for the lock of the new snapshot when the one that it
\* waited for was replaced (raft_server.js:394-411, filelog.js:748-757), and so does
\* a leader, even for a read that outlasts its term (raft_leader.js:414-431).
THEOREM SnapshotsAreOpen == InstallSpec => []SnapshotsOpen
<1>1. StreamInv => OpenWhileRead
  BY DEF StreamInv, TablesOK, TransfersOK, Open, OpenWhileRead, Holds
<1>2. PeerInv => OpenWhileSent
  BY DEF PeerInv, SendingOK, Open, OpenWhileSent
<1>3. StreamInv /\ PeerInv => SnapshotsOpen  BY <1>1, <1>2 DEF SnapshotsOpen
<1> QED  BY <1>3, SnapshotInvariant, PTL

\* If no read of a chunk lasts from one leadership of a peer to the next, the
\* snapshot that a follower has in its log is the leader's, whole and in order, over
\* any number of broken connections, restarts of the follower, replaced snapshots
\* and terms (raft_router.js:342-372, raft_leader.js:397-480, filelog.js:745-774).
THEOREM WholeSnapshots ==
  ASSUME ~SlowRead
  PROVE  InstallSpec => []InstalledIsWhole
<1>1. InstallInit => ChunkInv
  <2> SUFFICES ASSUME InstallInit PROVE ChunkInv  OBVIOUS
  <2>1. PICK last \in {0, LastIndex} :
          log = [snap |-> 0, data |-> <<>>, last |-> last, same |-> 0, commit |-> 0]
    BY DEF InstallInit
  <2>2. log.snap = 0 /\ log.data = <<>>  BY <2>1
  <2>3. /\ sending = [t \in Term |-> None] /\ rpc = None /\ wire = {} /\ tmp = None
    BY DEF InstallInit
  <2> QED  BY <2>2, <2>3 DEF ChunkInv, ChunksOK, Overtaken, TmpOK, InstalledIsWhole, Whole
<1>2. StreamInv /\ PeerInv /\ ChunkInv /\ [InstallNext]_allvars => ChunkInv'
  BY ChunkNextStep, Unchanged
<1>3. ChunkInv => InstalledIsWhole  BY DEF ChunkInv
<1> QED  BY <1>1, <1>2, <1>3, SnapshotInvariant, PTL DEF InstallSpec

\* Until the first snapshot is replaced, a client's receiver is given its beginning in
\* order, although the chunks come from several transfers and requests, after
\* timeouts and stops, and replies to earlier requests are under way
\* (zmq_raft_peer_client.js:399-404, 446-531).
THEOREM PiecesAreAssembled == InstallSpec => []Assembled
<1>1. InstallInit => PiecesInv  BY PiecesInitially
<1>2. StreamInv /\ PiecesInv /\ [InstallNext]_allvars => PiecesInv'
  <2>1. CASE InstallNext  BY <2>1, PiecesStep
  <2>2. CASE UNCHANGED allvars
    BY <2>2 DEF allvars, vars, server, PiecesInv, Pieces, ClientFits
  <2> QED  BY <2>1, <2>2
<1>3. PiecesInv => Assembled  BY DEF PiecesInv, Pieces, ClientFits, Assembled
<1> QED  BY <1>1, <1>2, <1>3, SnapshotInvariant, PTL DEF InstallSpec
=============================================================================
