------------------------------ MODULE FileLog ------------------------------
(***************************************************************************)
(* The file log of a peer: a directory tree of index files of a bounded    *)
(* number of slots each, the snapshot before them, and the map from the    *)
(* request ids of updates to the indexes of their entries.                 *)
(*                                                                         *)
(* Writes are jobs that run one after another (synchronize), each in       *)
(* several steps between which readers run and the process may die: what   *)
(* follows an index is cut off file by file, from the last one backwards,  *)
(* then entries are written up to the end of a file, and a new file is     *)
(* created for the rest.  Readers go from file to file and hold a shared   *)
(* lock on the file they read from; cutting a file needs it exclusively.   *)
(* What a single index file does in the course of one write is the module  *)
(* IndexFile; here its slots are filled one by one, and cleared at once.   *)
(***************************************************************************)
EXTENDS Integers, Sequences, FiniteSets, FiniteSetsExt

CONSTANTS
  Capacity,    \* the slots of an index file
  DataSize,    \* the entries that fit in the data section of an index file
  Directory,   \* the indexes that share a directory
  Term, Id,    \* terms and request ids of the entries
  Zero,        \* the request id of an entry that is no client's update
  None,        \* undefined and null
  Reader,      \* the readers
  TornCreate, TornInstall, \* the process may die while a new file is created,
               \* and while a snapshot replaces the whole log
  SnapIndex,               \* bound: where snapshots end
  MaxStart, MaxIndex, MaxBatch, \* bounds: the log at first, the log, a write,
  MaxWrites, MaxInstalls, MaxCrashes \* and what happens how often

Entry == [term : Term, id : Id \cup {Zero}]

ASSUME SizeAssumption ==
  /\ Capacity \in Nat \ {0} /\ DataSize \in 1..Capacity
  /\ Directory \in Nat \ {0} /\ Directory % Capacity = 0
ASSUME SymbolAssumption == Zero \notin Id /\ None \notin Id /\ Term \subseteq Nat \ {0}
ASSUME OptionAssumption == {TornCreate, TornInstall} \subseteq BOOLEAN

VARIABLES
  \* on disk
  disk,        \* disk[b]: the entries in the slots of the file of index b
  torn,        \* files whose header has not been written
  diskSnap,    \* the snapshot file
  \* in memory
  status,      \* of the process: "open", "down", "refused" to open the log
  snap, firstIndex, lastIndex, lastTerm,
  last,        \* lastIndexFile$: the index of the last file
  at,          \* at[b]: nextAt$, the slots of file b in use
  names,       \* indexFileNames$: cached listings of directories
  rdb,         \* requestDb$
  expired,     \* request ids that are no longer fresh
  appendQueue, \* entries passed to appendEntry
  uncommitted, \* entries of a LogWriter that are not in the index yet
  job,         \* the job that runs
  excl,        \* the file a job asks for, or holds, exclusively
  read,        \* read[r]: what a reader is doing
  \* bounds and history
  acks, installs, crashes

onDisk  == <<disk, torn, diskSnap>>
extent  == <<firstIndex, lastIndex, lastTerm>>
files   == <<last, at, names>>
request == <<rdb, expired>>
input   == <<appendQueue, uncommitted>>
bounds  == <<acks, installs, crashes>>
vars == <<disk, torn, diskSnap, status, snap, firstIndex, lastIndex, lastTerm,
          last, at, names, rdb, expired, appendQueue, uncommitted, job, excl,
          read, acks, installs, crashes>>

-----------------------------------------------------------------------------
(* Index files *)

Base == 1..MaxIndex + 1
Snapshot == [index : Nat, term : Nat]

\* The last file of a directory ends where the directory does.
Slots(b) == Capacity - (b % Capacity)
LastAllowed(b) == b + Slots(b) - 1
allowed(b, i) == i \in b..LastAllowed(b)
includes(b, i) == b <= i /\ i < b + at[b]
Prefix(i) == i \div Directory

Closest(S, i) == CHOOSE b \in S : b <= i /\ \A c \in S : c <= i => c <= b

Listing(p) == {b \in DOMAIN disk : Prefix(b) = p}

\* The file that holds entry i on disk, and the entry.
FileAt(i) ==
  LET aligned == i - (i % Capacity)
  IN IF aligned \in DOMAIN disk THEN aligned
     ELSE CHOOSE b \in DOMAIN disk : aligned < b /\ b <= i
EntryAt(i) == disk[FileAt(i)][i - FileAt(i) + 1]
Stored(i) == \E b \in DOMAIN disk : b <= i /\ i < b + Len(disk[b])

\* _indexBaseNameOf: the greatest name in the listing that is not after i.
NameOf(i, listing) ==
  IF i \notin 1..lastIndex \/ ~\E b \in listing : b <= i
    THEN None
    ELSE Closest(listing, i)

Listed(i) == IF names[Prefix(i)] = None THEN Listing(Prefix(i)) ELSE names[Prefix(i)]
Cached(i) == [names EXCEPT ![Prefix(i)] = Listed(i)]
\* fault: the cached listing is kept when a file is created
PruneNamesF(b) == names
PruneNames(b) == [names EXCEPT ![Prefix(b)] = None]
NoNames == [p \in 0..Prefix(MaxIndex + Capacity) |-> None]

Hot(i) == last # None /\ includes(last, i)

\* _indexFileOf: the file to be locked for index i, None if there is none.
IndexFileOf(i) == IF Hot(i) THEN last ELSE NameOf(i, Listed(i))
Lookup(i) == IF Hot(i) THEN names ELSE IF i \in 1..lastIndex THEN Cached(i) ELSE names

\* readTermAt and the hot paths of termAt
termAt(i) ==
  IF i = lastIndex THEN lastTerm
  ELSE IF i = snap.index THEN snap.term
  ELSE IF i < firstIndex \/ i > lastIndex THEN None
  ELSE EntryAt(i).term

Fresh(id) == id # Zero /\ id \notin expired

Unlocked(b) == \A r \in Reader : ~(read[r].pc = "reading" /\ read[r].base = b)

-----------------------------------------------------------------------------
(* Jobs *)

NoFile == <<>>
NoRead == [pc |-> "idle", index |-> 0, to |-> 0, base |-> 0, upto |-> 0,
           stream |-> FALSE, seen |-> <<>>]

\* fault: request ids of entries that are cut off are remembered
ForgetFromF(map, i) == map
ForgetFrom(map, i) ==
  LET kept == {id \in DOMAIN map : map[id] < i} IN [id \in kept |-> map[id]]

\* Request ids of n entries from index i on are added to the map.
Remember(map, entries, i) ==
  LET new == {k \in 1..Len(entries) : Fresh(entries[k].id)}
      ids == {entries[k].id : k \in new}
  IN [id \in DOMAIN map \cup ids |->
        IF id \in ids
          THEN i - 1 + CHOOSE k \in new : entries[k].id = id /\
                         \A l \in new : entries[l].id = id => l <= k
          ELSE map[id]]

Job(kind, i, entries) ==
  [kind |-> kind, pc |-> "truncate", index |-> i, all |-> entries, done |-> 0,
   file |-> last]

Ready == status = "open" /\ job = None /\ last # None

\* The next index of a job that writes.
At == job.index + job.done
Left == SubSeq(job.all, job.done + 1, Len(job.all))

\* The callback of synchronize: _writeEntries up to the first wait.
Begin(kind, i, entries) ==
  /\ job' = Job(kind, i, entries)
  /\ rdb' = IF i <= lastIndex THEN ForgetFrom(rdb, i) ELSE rdb
  /\ UNCHANGED <<onDisk, status, snap, extent, files, expired, excl, read,
                 bounds>>

\* A peer uses a LogWriter only before it takes part in the cluster: no other
\* entries are appended meanwhile.
LogWriting == uncommitted # <<>> \/ (job # None /\ job.kind \in {"note", "commit"})

appendEntry(e) ==
  /\ status = "open" /\ ~LogWriting
  /\ Len(appendQueue) < MaxBatch
  /\ lastIndex + Len(appendQueue) < MaxIndex
  /\ appendQueue' = Append(appendQueue, e)
  /\ UNCHANGED <<onDisk, status, snap, extent, files, request, uncommitted, job,
                 excl, read, bounds>>

\* All entries that were queued before the job runs are written as one batch.
FlushQueue ==
  /\ Ready /\ appendQueue # <<>>
  /\ lastIndex + Len(appendQueue) <= MaxIndex
  /\ Begin("write", lastIndex + 1, appendQueue)
  /\ appendQueue' = <<>>
  /\ UNCHANGED uncommitted

appendEntries(entries, i) ==
  /\ Ready /\ uncommitted = <<>> /\ appendQueue = <<>>
  /\ i \in firstIndex..lastIndex + 1
  /\ i + Len(entries) - 1 <= MaxIndex
  /\ Begin("write", i, entries)
  /\ UNCHANGED input

\* _writeEntryUncommitted: a LogWriter is given the entries of a stream, from
\* some index of the log on.
WriteEntry(e, i) ==
  /\ Ready /\ appendQueue = <<>>
  /\ i \in firstIndex..lastIndex + Len(uncommitted) + 1
  /\ uncommitted # <<>> => i = lastIndex + Len(uncommitted) + 1
  /\ i <= MaxIndex
  /\ Begin("note", Min({i, lastIndex + 1}), Append(uncommitted, e))
  /\ UNCHANGED input

\* LogWriter.commit
Commit ==
  /\ Ready /\ uncommitted # <<>>
  /\ job' = [Job("commit", lastIndex + 1, uncommitted) EXCEPT !.pc = "write"]
  /\ UNCHANGED <<onDisk, status, snap, extent, files, request, input, excl, read,
                 bounds>>

Failed == job' = None /\ excl' = None

(* _truncate *)

\* The last file keeps an entry, or is the first file and becomes empty.
CutsLast(i) == allowed(last, i - 1) \/ (i = firstIndex /\ i = last)

Truncated ==
  /\ job # None /\ job.pc = "truncate"
  /\ job.index = lastIndex + 1
  /\ job' = [job EXCEPT !.pc = "write", !.file = last]
  /\ UNCHANGED <<onDisk, status, snap, extent, files, request, input, excl, read,
                 bounds>>

LockLast ==
  /\ job # None /\ job.pc = "truncate"
  /\ job.index <= lastIndex /\ CutsLast(job.index)
  /\ job' = [job EXCEPT !.pc = "cut"]
  /\ excl' = last
  /\ UNCHANGED <<onDisk, status, snap, extent, files, request, input, read,
                 bounds>>

\* fault: a file is cut while it is being read
MayChangeF(b) == TRUE
\* fault: a job waits for readers that wait for it
MayChangeW(b) == \A r \in Reader : read[r].pc # "idle" => read[r].base # b
MayChange(b) == Unlocked(b)

TermBefore(i) == IF allowed(last, i - 1) THEN EntryAt(i - 1).term ELSE snap.term

\* fault: the entry before the index is lost
KeptSlotsF == job.index - 1 - last
KeptSlots == job.index - last

CutLast ==
  /\ job # None /\ job.pc = "cut" /\ MayChange(last)
  /\ lastIndex' = job.index - 1
  /\ lastTerm' = TermBefore(job.index)
  /\ at' = [at EXCEPT ![last] = KeptSlots]
  /\ disk' = [disk EXCEPT ![last] = SubSeq(@, 1, KeptSlots)]
  /\ excl' = None
  /\ job' = [job EXCEPT !.pc = "truncate"]
  /\ UNCHANGED <<torn, diskSnap, status, snap, firstIndex, last, names, request,
                 input, read, bounds>>

\* No entry of the last file remains.  The one before it takes its place.
LeaveLast ==
  /\ job # None /\ job.pc = "truncate"
  /\ job.index <= lastIndex /\ ~CutsLast(job.index)
  /\ LET prev == IndexFileOf(last - 1) IN
       IF prev = None \/ ~includes(prev, LastAllowed(prev))
         THEN /\ Failed
              /\ names' = Lookup(last - 1)
              /\ UNCHANGED <<extent, last>>
         ELSE /\ names' = Lookup(last - 1)
              /\ lastIndex' = LastAllowed(prev)
              /\ lastTerm' = EntryAt(LastAllowed(prev)).term
              /\ last' = prev
              /\ excl' = last
              /\ job' = [job EXCEPT !.pc = "drop"]
              /\ UNCHANGED firstIndex
  /\ UNCHANGED <<onDisk, status, snap, at, request, input, read, bounds>>

\* destroy: the slots are cleared, then the file is deleted.
ClearDropped ==
  /\ job # None /\ job.pc = "drop" /\ MayChange(excl)
  /\ disk' = [disk EXCEPT ![excl] = <<>>]
  /\ at' = [at EXCEPT ![excl] = 0]
  /\ job' = [job EXCEPT !.pc = "unlink"]
  /\ UNCHANGED <<torn, diskSnap, status, snap, extent, last, names, request,
                 input, excl, read, bounds>>

Without(f, b) == [c \in DOMAIN f \ {b} |-> f[c]]

UnlinkDropped ==
  /\ job # None /\ job.pc = "unlink"
  /\ disk' = Without(disk, excl)
  /\ at' = Without(at, excl)
  /\ names' = PruneNames(excl)
  /\ read' = [r \in Reader |->
                IF read[r].pc = "locking" /\ read[r].base = excl THEN NoRead ELSE read[r]]
  /\ job' = [job EXCEPT !.pc = "truncate"]
  /\ excl' = None
  /\ UNCHANGED <<torn, diskSnap, status, snap, extent, last, request, input,
                 bounds>>

(* writev *)

\* How many of the entries that are left go into the file of the job.
Fits ==
  LET pos == At - job.file
  IN Min({Len(Left), Slots(job.file) - pos, DataSize - pos})

InBounds == At - job.file \in 0..Slots(job.file)

\* An entry of a LogWriter finds room in the file: nothing is committed.
Noting ==
  job.kind = "note" /\ At + Len(Left) - job.file <= Min({Slots(job.file), DataSize})

Writing == job # None /\ job.pc = "write" /\ InBounds /\ ~Noting

NoteEntry ==
  /\ job # None /\ job.pc = "write" /\ InBounds /\ Noting
  /\ uncommitted' = Left
  /\ rdb' = Remember(rdb, <<Left[Len(Left)]>>, At + Len(Left) - 1)
  /\ last' = job.file
  /\ job' = None
  /\ UNCHANGED <<onDisk, status, snap, extent, at, names, expired, appendQueue,
                 excl, read, bounds>>

\* A slot of the index is filled.
FillSlot ==
  /\ Writing
  /\ Len(disk[job.file]) < At - job.file + Fits
  /\ disk' = [disk EXCEPT ![job.file] =
                Append(@, Left[Len(@) - (At - job.file) + 1])]
  /\ UNCHANGED <<torn, diskSnap, status, snap, extent, files, request, input,
                 job, excl, read, bounds>>

\* _createNewIndexFile, called in the same step: there are entries left.
CreateNext(from) ==
  /\ job' = [from EXCEPT !.pc = "create", !.file = LastAllowed(job.file) + 1]
  /\ names' = PruneNames(LastAllowed(job.file) + 1)
  /\ UNCHANGED acks

Done ==
  /\ job' = None
  /\ acks' = acks + 1
  /\ UNCHANGED names

\* The entries of a LogWriter were added to the map when they were noted.
PieceWritten ==
  /\ Len(disk[job.file]) = At - job.file + Fits
  /\ last' = job.file
  /\ IF Fits > 0
       THEN /\ at' = [at EXCEPT ![job.file] = Len(disk[job.file])]
            /\ lastIndex' = At + Fits - 1
            /\ lastTerm' = Left[Fits].term
            /\ rdb' = IF job.kind = "write"
                        THEN Remember(rdb, SubSeq(Left, 1, Fits), At) ELSE rdb
       ELSE UNCHANGED <<at, lastIndex, lastTerm, rdb>>
  /\ uncommitted' = IF job.kind = "write" THEN uncommitted ELSE <<>>
  /\ IF Fits < Len(Left)
       THEN CreateNext([job EXCEPT !.done = @ + Fits])
       ELSE Done
  /\ UNCHANGED excl

\* The next index is not in the file: the data section of the file before it
\* was full before its slots were.
OutOfBounds ==
  /\ Failed
  /\ UNCHANGED <<last, at, lastIndex, lastTerm, rdb, uncommitted, names, acks>>

Written ==
  /\ job # None /\ job.pc = "write"
  /\ IF InBounds THEN ~Noting /\ PieceWritten ELSE OutOfBounds
  /\ UNCHANGED <<onDisk, status, snap, firstIndex, expired, appendQueue, read,
                 installs, crashes>>

CreateFile ==
  /\ job # None /\ job.pc = "create"
  /\ disk' = [b \in DOMAIN disk \cup {job.file} |->
                IF b \in DOMAIN disk THEN disk[b] ELSE NoFile]
  /\ at' = [b \in DOMAIN at \cup {job.file} |-> IF b \in DOMAIN at THEN at[b] ELSE 0]
  /\ job' = [job EXCEPT !.pc = "write"]
  /\ UNCHANGED <<torn, diskSnap, status, snap, extent, last, names, request,
                 input, excl, read, bounds>>

(* installSnapshot *)

Install(pc, s) == [Job("install", s.index + 1, <<s>>) EXCEPT !.pc = pc]

\* The snapshot ends with an entry of the log: compaction.
CompactLog(s) ==
  /\ termAt(s.index) = s.term
  /\ snap' = s
  /\ firstIndex' = s.index + 1
  /\ job' = Install("compact", s)

\* It does not.
DiscardLog(s) ==
  /\ termAt(s.index) # s.term
  /\ job' = Install("replace", s)
  /\ UNCHANGED <<snap, firstIndex>>

installSnapshot(s) ==
  /\ Ready /\ uncommitted = <<>> /\ appendQueue = <<>>
  /\ installs < MaxInstalls
  /\ installs' = installs + 1
  /\ CompactLog(s) \/ DiscardLog(s)
  /\ UNCHANGED <<onDisk, status, lastIndex, lastTerm, files, request, input,
                 excl, read, acks, crashes>>

SnapshotReplaced ==
  /\ job # None /\ job.pc = "compact"
  /\ diskSnap' = snap
  /\ job' = None
  /\ UNCHANGED <<disk, torn, status, snap, extent, files, request, input, excl,
                 read, bounds>>

\* The snapshot file is replaced, and createNewLogDirectory begins.
LogForgotten ==
  /\ job # None /\ job.pc = "replace"
  /\ LET s == job.all[1] IN
       /\ diskSnap' = s /\ snap' = s
       /\ firstIndex' = s.index + 1 /\ lastIndex' = s.index /\ lastTerm' = s.term
  /\ last' = None
  /\ rdb' = NoFile
  /\ job' = [job EXCEPT !.pc = "rename"]
  /\ UNCHANGED <<disk, torn, status, at, names, expired, input, excl, read,
                 bounds>>

\* The files are closed when nobody reads from them, and the directory is
\* renamed.  A reader that waits for one of them fails.
LogRenamed ==
  /\ job # None /\ job.pc = "rename"
  /\ \A b \in DOMAIN disk : Unlocked(b)
  /\ disk' = NoFile /\ at' = NoFile /\ torn' = {}
  /\ read' = [r \in Reader |-> NoRead]
  /\ job' = [job EXCEPT !.pc = "mklog"]
  /\ UNCHANGED <<diskSnap, status, snap, extent, last, names, request, input,
                 excl, bounds>>

LogCreated ==
  /\ job # None /\ job.pc = "mklog"
  /\ disk' = [b \in {firstIndex} |-> NoFile]
  /\ at' = [b \in {firstIndex} |-> 0]
  /\ last' = firstIndex
  /\ names' = NoNames
  /\ job' = None
  /\ UNCHANGED <<torn, diskSnap, status, snap, extent, request, input, excl,
                 read, bounds>>

-----------------------------------------------------------------------------
(* The life of the process *)

Expire(id) ==
  /\ status = "open" /\ id \in DOMAIN rdb \ expired
  /\ expired' = expired \cup {id}
  /\ UNCHANGED <<onDisk, status, snap, extent, files, rdb, input, job, excl,
                 read, bounds>>

\* The interval function of _readRequestsFromLogs.
CleanUp(ids) ==
  /\ status = "open"
  /\ ids # {} /\ ids \subseteq expired \cap DOMAIN rdb
  /\ rdb' = [id \in DOMAIN rdb \ ids |-> rdb[id]]
  /\ UNCHANGED <<onDisk, status, snap, extent, files, expired, input, job, excl,
                 read, bounds>>

\* What is in memory is lost.
Crash ==
  /\ status = "open" /\ crashes < MaxCrashes
  /\ (job # None /\ job.pc = "rename") => TornInstall
  /\ crashes' = crashes + 1
  /\ status' = "down"
  /\ LET new == IF TornCreate /\ job # None /\ job.pc = "create" THEN {job.file} ELSE {}
     IN /\ torn' = torn \cup new
        /\ disk' = [b \in DOMAIN disk \cup new |-> IF b \in new THEN NoFile ELSE disk[b]]
  /\ job' = None /\ excl' = None
  /\ read' = [r \in Reader |-> NoRead]
  /\ appendQueue' = <<>> /\ uncommitted' = <<>>
  /\ rdb' = NoFile /\ names' = NoNames /\ at' = NoFile
  /\ UNCHANGED <<diskSnap, snap, extent, last, expired, acks, installs>>

(* initializeLogFile *)

FirstFile == Min(DOMAIN disk)
FinalFile == Max(DOMAIN disk)
Holds(b, i) == b <= i /\ i < b + Len(disk[b])

\* _findRealLastIndexFile: an empty file at the end is deleted, if the file
\* before it is found by its name and ends where the empty one begins.
EmptyEnd == FinalFile # FirstFile /\ disk[FinalFile] = <<>>
Before(b) == {c \in Listing(Prefix(b - 1)) : c < b}
RealLast == IF EmptyEnd THEN Closest(Before(FinalFile), FinalFile - 1) ELSE FinalFile
Opens ==
  /\ {FirstFile, FinalFile} \cap torn = {}
  /\ diskSnap.index + 1 >= FirstFile
  /\ EmptyEnd => \E b \in Before(FinalFile) \ torn : Holds(b, FinalFile - 1)
  /\ LET end == RealLast + Len(disk[RealLast]) - 1
     IN end = diskSnap.index \/ Holds(RealLast, end)

\* _readRequestsFromLogs goes back until it has met more expired requests than
\* a file has slots.
ReadBack(i) ==
  \A j \in i + 1..MaxIndex : Stored(j) =>
    LET met == {k \in j..MaxIndex : Stored(k) /\ EntryAt(k).id \in expired}
    IN Cardinality(met) <= Slots(FileAt(j))
RequestsFromLogs ==
  LET found == {i \in FirstFile..MaxIndex :
                  Stored(i) /\ Fresh(EntryAt(i).id) /\ ReadBack(i)}
  IN [id \in {EntryAt(i).id : i \in found} |->
        Max({i \in found : EntryAt(i).id = id})]

Opened ==
  LET end == RealLast + Len(disk[RealLast]) - 1
  IN /\ status' = "open"
     /\ snap' = diskSnap
     /\ firstIndex' = Max({FirstFile, diskSnap.index + 1})
     /\ lastIndex' = end
     /\ lastTerm' = IF end = diskSnap.index THEN diskSnap.term ELSE EntryAt(end).term
     /\ last' = RealLast
     /\ disk' = IF EmptyEnd THEN Without(disk, FinalFile) ELSE disk
     /\ at' = [b \in DOMAIN disk' |-> Len(disk[b])]
     /\ rdb' = RequestsFromLogs
     /\ UNCHANGED torn

\* There are no files: the log begins after the snapshot.
OpenedNew ==
  /\ status' = "open"
  /\ snap' = diskSnap
  /\ firstIndex' = diskSnap.index + 1
  /\ lastIndex' = diskSnap.index /\ lastTerm' = diskSnap.term
  /\ last' = diskSnap.index + 1
  /\ disk' = [b \in {diskSnap.index + 1} |-> NoFile]
  /\ at' = [b \in {diskSnap.index + 1} |-> 0]
  /\ rdb' = NoFile
  /\ UNCHANGED torn

Open ==
  /\ status = "down"
  /\ IF DOMAIN disk = {} THEN OpenedNew
     ELSE IF Opens THEN Opened
     ELSE status' = "refused" /\ UNCHANGED <<disk, torn, snap, extent, last, at, rdb>>
  /\ UNCHANGED <<diskSnap, names, expired, input, job, excl, read, bounds>>

-----------------------------------------------------------------------------
(* Readers: getEntries and LogStream *)

\* The next piece of a range that ends with index m begins at i: its file is
\* found, or the reader fails.
Seeks(r, i, m, stream) ==
  /\ names' = Lookup(i)
  /\ read' = [read EXCEPT ![r] =
                IF IndexFileOf(i) = None THEN NoRead
                ELSE [NoRead EXCEPT !.pc = "locking", !.index = i, !.to = m,
                                    !.stream = stream, !.base = IndexFileOf(i)]]

StartRead(r, i, m, stream) ==
  /\ status = "open" /\ read[r].pc = "idle"
  /\ firstIndex <= i /\ i <= m /\ m <= lastIndex
  /\ Seeks(r, i, m, stream)
  /\ UNCHANGED <<onDisk, status, snap, extent, last, at, request, input, job,
                 excl, bounds>>

\* The last entry of the piece: a call of getEntries wants what the file can
\* hold, a stream takes what it has.
PieceEnd(r) ==
  LET b == read[r].base
  IN IF read[r].stream THEN Min({b + at[b] - 1, read[r].to}) ELSE Min({LastAllowed(b), read[r].to})

Closing == job # None /\ job.pc = "rename"

\* The shared lock is granted: the positions of the entries are looked up and
\* they are being read.
Granted(r) ==
  /\ read[r].pc = "locking" /\ excl # read[r].base /\ ~Closing
  /\ LET b == read[r].base IN
       read' = [read EXCEPT ![r] =
         IF b \in DOMAIN at /\ includes(b, read[r].index) /\ includes(b, PieceEnd(r))
           THEN [@ EXCEPT !.pc = "reading", !.upto = PieceEnd(r),
                          !.seen = SubSeq(disk[b], read[r].index - b + 1, PieceEnd(r) - b + 1)]
           ELSE NoRead]
  /\ UNCHANGED <<onDisk, status, snap, extent, files, request, input, job, excl,
                 bounds>>

Ends(r, next) ==
  next > read[r].to \/ (read[r].stream /\ next \notin firstIndex..lastIndex)

\* The piece is complete.  A stream ends early if the log does by now.
PieceRead(r) ==
  /\ read[r].pc = "reading"
  /\ LET next == read[r].upto + 1 IN
       IF Ends(r, next)
         THEN read' = [read EXCEPT ![r] = NoRead] /\ UNCHANGED names
         ELSE Seeks(r, next, read[r].to, read[r].stream)
  /\ UNCHANGED <<onDisk, status, snap, extent, last, at, request, input, job,
                 excl, bounds>>

-----------------------------------------------------------------------------

\* The log has been opened and has the given entries.
Holding(entries) ==
  /\ LET bases == {i \in 1..Max({Len(entries), 1}) : i = 1 \/ i % Capacity = 0}
     IN /\ disk = [b \in bases |->
                     SubSeq(entries, b, Min({LastAllowed(b), Len(entries)}))]
        /\ last = Max(bases)
        /\ at = [b \in bases |-> Len(disk[b])]
  /\ torn = {}
  /\ diskSnap = [index |-> 0, term |-> 0]
  /\ status = "open" /\ snap = diskSnap
  /\ firstIndex = 1 /\ lastIndex = Len(entries)
  /\ lastTerm = IF entries = <<>> THEN 0 ELSE entries[Len(entries)].term
  /\ names = NoNames
  /\ rdb = NoFile /\ expired = {}
  /\ appendQueue = <<>> /\ uncommitted = <<>>
  /\ job = None /\ excl = None
  /\ read = [r \in Reader |-> NoRead]
  /\ acks = 0 /\ installs = 0 /\ crashes = 0

\* A few entries of the first term are already there.
Init == Holding([i \in 1..MaxStart |-> [term |-> Min(Term), id |-> Zero]])

\* A client's update is in the log at most once (raft_server.js looks it up).
NewId(e, i) ==
  /\ \A j \in 1..i - 1 : Stored(j) => e.id \notin {EntryAt(j).id} \ {Zero}
  /\ \A k \in 1..Len(uncommitted) : e.id \notin {uncommitted[k].id} \ {Zero}
  /\ \A k \in 1..Len(appendQueue) : e.id \notin {appendQueue[k].id} \ {Zero}
  /\ (job # None /\ job.kind # "install") =>
       \A k \in 1..Len(job.all) : e.id \notin {job.all[k].id} \ {Zero}

\* Bound: every write has a term of its own.
NewEntry == [term : {Min(Term) + 1 + acks} \cap Term, id : Id \cup {Zero}]
Batch == UNION {[1..n -> NewEntry] : n \in 0..MaxBatch}

GoesOn(entries, i) ==
  /\ \A k \in 1..Len(entries) : NewId(entries[k], i)
  /\ \A k, l \in 1..Len(entries) :
       k < l => entries[l].id \notin {entries[k].id} \ {Zero}

Input ==
  \/ ~LogWriting /\ acks < MaxWrites /\
       \E e \in NewEntry : NewId(e, lastIndex + 1) /\ appendEntry(e)
  \/ Ready /\ acks < MaxWrites /\
       \/ \E entries \in Batch, i \in firstIndex..lastIndex + 1 :
            GoesOn(entries, i) /\ appendEntries(entries, i)
       \/ \E e \in NewEntry, i \in firstIndex..lastIndex + Len(uncommitted) + 1 :
            NewId(e, i) /\ WriteEntry(e, i)
  \/ Commit
  \/ Ready /\ \E s \in [index : SnapIndex \ (0..snap.index - 1), term : Term] :
       installSnapshot(s)

JobStep ==
  \/ FlushQueue
  \/ Truncated \/ LockLast \/ CutLast \/ LeaveLast \/ ClearDropped \/ UnlinkDropped
  \/ NoteEntry \/ FillSlot \/ Written \/ CreateFile
  \/ SnapshotReplaced \/ LogForgotten \/ LogRenamed \/ LogCreated

ReadStep(r) == Granted(r) \/ PieceRead(r)

Next ==
  \/ Input \/ JobStep
  \/ \E r \in Reader :
       \/ ReadStep(r)
       \* bound: the whole log is read, by a process that has not been restarted
       \/ crashes = 0 /\ \E stream \in BOOLEAN : StartRead(r, firstIndex, lastIndex, stream)
  \/ \E id \in Id : Expire(id)
  \/ \E ids \in SUBSET Id : CleanUp(ids)
  \/ Crash \/ Open

Spec == Init /\ [][Next]_vars

\* Jobs go on, locks are fair, files are read, and readers take what is read.
Fairness == WF_vars(JobStep) /\ \A r \in Reader : WF_vars(ReadStep(r))
FairSpec == Spec /\ Fairness

-----------------------------------------------------------------------------
(* Properties *)

TypeOK ==
  /\ \A b \in DOMAIN disk : b \in Base /\ Len(disk[b]) <= Slots(b) /\ disk[b] \in Seq(Entry)
  /\ torn \subseteq Base
  /\ {snap, diskSnap} \subseteq Snapshot
  /\ status \in {"open", "down", "refused"}
  /\ {firstIndex, lastIndex, lastTerm} \subseteq Nat
  /\ last \in Base \cup {None}
  /\ \A b \in DOMAIN at : at[b] \in 0..Slots(b)
  /\ DOMAIN rdb \subseteq Id
  /\ {appendQueue, uncommitted} \subseteq Seq(Entry)
  /\ excl \in Base \cup {None}
  /\ \A r \in Reader : read[r].pc \in {"idle", "locking", "reading"}

Settled == status = "open" /\ job = None

\* The file that has an index is found, by the last file or by the names of the
\* files in a directory listing that may have been read long ago
\* (filelog.js:945-998).
Located(i) == IndexFileOf(i) # None /\ includes(IndexFileOf(i), i)

\* A log that was closed by a crash can be opened, entries can be appended to
\* an open one, and what the peer is told of it is what its files hold: the
\* last entry, its term, and every index between, each of which is found, whatever
\* was cut, went on in a new file, or was interrupted
\* (filelog.js:428-536, 745-782, 945-998, 1234-1301).
LogIntact ==
  /\ status # "refused"
  /\ Settled =>
       /\ firstIndex = snap.index + 1 /\ lastIndex + 1 >= firstIndex
       /\ \A i \in firstIndex..lastIndex : Stored(i) /\ (last # None => Located(i))
       /\ ~Stored(lastIndex + 1)
       /\ lastTerm = IF lastIndex >= firstIndex THEN EntryAt(lastIndex).term ELSE snap.term

\* A request id leads to its entry, and an update that is in the log is known
\* by its id while that is fresh: after a cut, a restart or a compaction, too
\* (filelog.js:450-466, 494-497, 1016-1085).
RequestsKnown ==
  Settled =>
    /\ \A id \in DOMAIN rdb :
         IF rdb[id] <= lastIndex THEN Stored(rdb[id]) /\ EntryAt(rdb[id]).id = id
         ELSE /\ rdb[id] - lastIndex \in DOMAIN uncommitted
              /\ uncommitted[rdb[id] - lastIndex].id = id
    /\ \A i \in firstIndex..lastIndex :
         Fresh(EntryAt(i).id) => EntryAt(i).id \in DOMAIN rdb

\* Entries are not cut off or overwritten while they are read
\* (filelog.js:505, 528, 603-687; logstream.js:66-90).
ReadUndisturbed ==
  \A r \in Reader : read[r].pc = "reading" =>
    LET b == read[r].base IN
      /\ b \in DOMAIN disk /\ read[r].upto - b < Len(disk[b])
      /\ read[r].seen = SubSeq(disk[b], read[r].index - b + 1, read[r].upto - b + 1)

\* Jobs end, and readers are answered: they do not wait for one another for
\* ever, although a job that cuts a file waits for its readers, and readers
\* that come later wait for the job (filelog.js:505-531; lock.js).
Answered ==
  /\ (job # None) ~> (job = None)
  /\ \A r \in Reader : (read[r].pc # "idle") ~> (read[r].pc = "idle")

\* The files of the log, and the job that changes them, are a DurableLog.
StoredEnd == Max({diskSnap.index} \cup {b + Len(disk[b]) - 1 : b \in DOMAIN disk})
Replacing == job # None /\ job.kind = "install" /\ job.pc \in {"rename", "mklog"}
StoredEntries ==
  IF Replacing THEN <<>>
  ELSE [k \in 1..StoredEnd - diskSnap.index |-> EntryAt(diskSnap.index + k)]
Kept == job.index - 1 - diskSnap.index
Goal ==
  IF job = None \/ job.kind = "install" THEN None
  ELSE [keep |-> Kept,
        is |-> SubSeq(StoredEntries, 1, Min({Kept, Len(StoredEntries)})) \o job.all]

Durable == INSTANCE DurableLog
  WITH Idle <- None, base <- diskSnap.index, entries <- StoredEntries, goal <- Goal

Durability == Durable!Spec
=============================================================================
