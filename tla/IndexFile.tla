----------------------------- MODULE IndexFile -----------------------------
(***************************************************************************)
(* One index file of the log: a table with the end of every entry, and the *)
(* data behind it.  The number of entries is not written anywhere: it is   *)
(* the number of offsets before the first one that is zero.                *)
(*                                                                         *)
(* Writes are on the disk for certain after the next fdatasync only; a     *)
(* crash keeps the first few of those that wait for it, or, if the disk    *)
(* reorders them, any of them.  Entries are sequences of bytes, each of    *)
(* which knows its entry and its place in it.                              *)
(***************************************************************************)
EXTENDS Integers, Sequences, FiniteSets, FiniteSetsExt, SequencesExt

CONSTANTS
  Capacity,    \* the slots of the table
  MaxData,     \* MAX_DATASIZE
  None,        \* no operation
  Reordered,   \* the disk may keep a write and lose an earlier one
  MaxBatch, MaxSize, MaxOps, MaxCrashes \* bounds: the entries of a write, the
               \* bytes of an entry, and what happens how often

ASSUME CapacityAssumption == Capacity \in Nat \ {0} /\ MaxData \in Nat \ {0}
ASSUME ReorderedAssumption == Reordered \in BOOLEAN

VARIABLES
  table, data, \* on disk: the offsets of the slots, and the bytes
  pending,     \* writes that have not been synchronized, in their order
  status,      \* "open", "down", or "refused" to open
  offsets,     \* the table in memory
  nextAt,      \* nextAt$
  op,          \* the operation that is being done
  held,        \* history: the entry each slot in memory stands for
  ops, crashes \* bounds

disk   == <<table, data, pending>>
memory == <<offsets, nextAt, held>>
vars   == <<table, data, pending, status, offsets, nextAt, op, held, ops, crashes>>

-----------------------------------------------------------------------------
(* The table and the data *)

Slot  == 0..Capacity - 1
Entry == [stamp : (1..MaxOps) \X (1..MaxBatch), size : 1..MaxSize]
Byte  == ((1..MaxOps) \X (1..MaxBatch)) \X (1..MaxSize)
NoEntry == [stamp |-> <<0, 0>>, size |-> 0]
NoByte  == <<<<0, 0>>, 0>>

Bytes(e) == [k \in 1..e.size |-> <<e.stamp, k>>]

\* Entry k of a table begins where the one before it ends.
Start(tab, k) == IF k > 0 THEN tab[k - 1] ELSE 0

\* What is on disk when the given pending writes are.
After(base, to, written) ==
  [k \in DOMAIN base |->
     LET ws == {j \in written : pending[j].to = to /\ pending[j].at = k}
     IN IF ws = {} THEN base[k] ELSE pending[Max(ws)].is]

Survivors == IF Reordered THEN SUBSET (1..Len(pending)) ELSE {1..n : n \in 0..Len(pending)}

\* readIndexFile: the first zero is where to go on; offsets must increase.
NextFree(tab) == Min({k \in Slot : tab[k] = 0} \cup {Capacity})
Sane(tab) == \A k \in 0..NextFree(tab) - 1 : tab[k] > Start(tab, k)

\* fault: stale offsets after the last entry written are left there
DirtyF(k) == {}
\* clear: the slots from k on that are not zero.
Dirty(k) == {s \in Slot : k <= s /\ \A j \in k..s : offsets[j] # 0}

Zeroed(S) == [k \in Slot |-> IF k \in S THEN 0 ELSE offsets[k]]
Ordered(S) == SetToSortSeq(S, <)
TableWrites(S, tab) == [j \in 1..Cardinality(S) |->
                          [to |-> "table", at |-> Ordered(S)[j], is |-> tab[Ordered(S)[j]]]]
DataWrites(bytes, position) ==
  [j \in 1..Len(bytes) |-> [to |-> "data", at |-> position + j, is |-> bytes[j]]]

-----------------------------------------------------------------------------
(* Writing *)

Op(kind, i, entries) ==
  [kind |-> kind, pc |-> "data", index |-> i, entries |-> entries, n |-> 0,
   old |-> held, oldNext |-> nextAt]

Idle == status = "open" /\ op = None /\ ops < MaxOps

\* The slots from i on are zeroed, in memory and on disk.
Cut(o, i) ==
  LET S == i..nextAt - 1 IN
    /\ nextAt' = i
    /\ offsets' = Zeroed(S)
    /\ pending' = pending \o TableWrites(S, Zeroed(S))
    /\ op' = [o EXCEPT !.pc = "cut"]

Begin(o) ==
  /\ ops' = ops + 1
  /\ IF o.index < nextAt
       THEN Cut(o, o.index)
       ELSE op' = o /\ UNCHANGED <<pending, offsets, nextAt>>
  /\ UNCHANGED <<table, data, status, held, crashes>>

truncate(i) ==
  /\ Idle /\ i \in 0..nextAt - 1
  /\ Begin(Op("truncate", i, <<>>))

\* An entry that is not committed may follow others that are not.
write(e, i, uncommitted) ==
  /\ Idle
  /\ i \in 0..nextAt \/ (uncommitted /\ i \in 1..Capacity /\ offsets[i - 1] # 0)
  /\ Begin(Op(IF uncommitted THEN "note" ELSE "write", i, <<e>>))

writev(entries, i) ==
  /\ Idle /\ i \in 0..nextAt
  /\ Begin(Op("write", i, entries))

commit ==
  /\ Idle /\ Dirty(nextAt) # {}
  /\ ops' = ops + 1
  /\ op' = [Op("commit", nextAt, <<>>) EXCEPT !.pc = "commit", !.n = Cardinality(Dirty(nextAt))]
  /\ UNCHANGED <<disk, status, memory, crashes>>

\* fdatasync
Sync ==
  /\ table' = After(table, "table", DOMAIN pending)
  /\ data' = After(data, "data", DOMAIN pending)
  /\ pending' = <<>>

CutSynced ==
  /\ op # None /\ op.pc = "cut"
  /\ Sync
  /\ op' = IF op.kind = "truncate" THEN None ELSE [op EXCEPT !.pc = "data"]
  /\ UNCHANGED <<status, memory, ops, crashes>>

\* writeBuffersUpTo: as many entries as there are slots and room for their data.
End(entries, n, position) == position + FoldLeft(LAMBDA sum, e : sum + e.size, 0, SubSeq(entries, 1, n))
Fitting(o, position) ==
  Max({n \in 0..Min({Len(o.entries), Capacity - o.index}) :
         n = 0 \/ End(o.entries, n, position) <= MaxData})

Position(o) == Start(offsets, o.index)

WriteData ==
  /\ op # None /\ op.pc = "data"
  /\ LET n == Fitting(op, Position(op))
         New(k) == op.entries[k - op.index + 1]
         written == op.index..op.index + n - 1
     IN /\ pending' = pending \o DataWrites(FlattenSeq([k \in 1..n |-> Bytes(op.entries[k])]), Position(op))
        /\ offsets' = [k \in Slot |-> IF k \in written
                                        THEN End(op.entries, k - op.index + 1, Position(op))
                                        ELSE offsets[k]]
        /\ held' = [k \in Slot |-> IF k \in written THEN New(k) ELSE held[k]]
        /\ op' = IF n = 0 THEN None ELSE [op EXCEPT !.pc = "clear", !.n = n]
  /\ UNCHANGED <<table, data, status, nextAt, ops, crashes>>

\* clearAndWriteIfDirty
ClearDirty ==
  /\ op # None /\ op.pc = "clear"
  /\ LET S == Dirty(op.index + op.n) IN
       /\ offsets' = Zeroed(S)
       /\ pending' = pending \o TableWrites(S, Zeroed(S))
       /\ op' = [op EXCEPT !.pc = IF S = {} THEN "commit" ELSE "cleared"]
  /\ UNCHANGED <<table, data, status, nextAt, held, ops, crashes>>

ClearSynced ==
  /\ op # None /\ op.pc = "cleared"
  /\ Sync
  /\ op' = [op EXCEPT !.pc = "commit"]
  /\ UNCHANGED <<status, memory, ops, crashes>>

\* commitwrite.  An entry that is only noted has its offset in memory.
CommitWrite ==
  /\ op # None /\ op.pc = "commit"
  /\ IF op.kind = "note"
       THEN op' = None /\ UNCHANGED pending
       ELSE /\ pending' = pending \o TableWrites(op.index..op.index + op.n - 1, offsets)
            /\ op' = [op EXCEPT !.pc = "sync"]
  /\ UNCHANGED <<table, data, status, memory, ops, crashes>>

Committed ==
  /\ op # None /\ op.pc = "sync"
  /\ Sync
  /\ nextAt' = op.index + op.n
  /\ op' = None
  /\ UNCHANGED <<status, offsets, held, ops, crashes>>

-----------------------------------------------------------------------------
(* Crash and recovery *)

Crash ==
  /\ status = "open" /\ crashes < MaxCrashes
  /\ \E S \in Survivors :
       /\ table' = After(table, "table", S)
       /\ data' = After(data, "data", S)
  /\ pending' = <<>>
  /\ status' = "down" /\ op' = None
  /\ crashes' = crashes + 1
  /\ UNCHANGED <<memory, ops>>

\* The whole table is read, with what may follow its first zero.
Open ==
  /\ status = "down"
  /\ IF Sane(table)
       THEN /\ status' = "open"
            /\ offsets' = table
            /\ nextAt' = NextFree(table)
            /\ held' = [k \in Slot |->
                          IF k < NextFree(table)
                            THEN [stamp |-> data[Start(table, k) + 1][1],
                                  size |-> table[k] - Start(table, k)]
                            ELSE NoEntry]
       ELSE status' = "refused" /\ UNCHANGED memory
  /\ UNCHANGED <<disk, op, ops, crashes>>

-----------------------------------------------------------------------------
(* Reading *)

getByteOffset(k) == Start(offsets, k)
getByteSize(k, count) == IF count = 0 THEN 0 ELSE offsets[k + count - 1] - Start(offsets, k)

\* read, readb
readBytes(k, count) ==
  LET now == After(data, "data", DOMAIN pending)
  IN [j \in 1..getByteSize(k, count) |-> now[getByteOffset(k) + j]]

\* splitb: the entries in a buffer, which may end with a part of one.
splitb(k, count, buffer) ==
  LET ends(n) == offsets[k + n - 1] - getByteOffset(k)
      whole == {n \in 1..count : ends(n) <= Len(buffer)}
  IN [n \in 1..Cardinality(whole) |->
        SubSeq(buffer, (IF n = 1 THEN 0 ELSE ends(n - 1)) + 1, ends(n))]

\* countEntriesFitSize: a binary search between 1 and count.  fault: the
\* middle is rounded down, and the search may end one short
MiddleF(lo, hi) == (lo + hi) \div 2
Middle(lo, hi) == (lo + hi + 1) \div 2
Search(k, maxlength, lohi) ==
  LET c == Middle(lohi[1], lohi[2])
  IN IF lohi[1] >= lohi[2] THEN lohi
     ELSE IF getByteSize(k, c) > maxlength THEN <<lohi[1], c - 1>> ELSE <<c, lohi[2]>>
countEntriesFitSize(k, count, maxlength) ==
  IF getByteSize(k, count) <= maxlength THEN count
  ELSE LET end == FoldLeft(LAMBDA lohi, n : Search(k, maxlength, lohi),
                           <<1, count - 1>>, [n \in 1..count |-> n])
           c == Middle(end[1], end[2])
       IN IF getByteSize(k, c) > maxlength THEN 0 ELSE c

\* bufferEntryExtractor: chunks of a file are turned into entries.  The next
\* entry begins at offset in the buffer list[start]; bufsLength are the bytes of
\* the buffers from there to list[i], and end, counted as they are, its end.
Extractor(k) ==
  [list |-> <<>>, i |-> 0, start |-> 1, offset |-> 0, bufsLength |-> 0, index |-> k,
   end |-> offsets[k] - Start(offsets, k), given |-> <<>>, error |-> FALSE]

Paste(entry, pos, bytes) ==
  [j \in DOMAIN entry |-> IF j - pos \in DOMAIN bytes THEN bytes[j - pos] ELSE entry[j]]

\* The parts of an entry are copied backwards, from the first bytes of list[i].
Joined(x, sourceEnd) ==
  LET pos == x.end - x.offset - sourceEnd
      back == FoldRight(LAMBDA buf, s : [pos |-> s.pos - Len(buf), entry |-> Paste(s.entry, s.pos - Len(buf), buf)],
                        SubSeq(x.list, x.start + 1, x.i - 1),
                        [pos |-> pos,
                         entry |-> Paste([j \in 1..x.end - x.offset |-> NoByte], pos,
                                         SubSeq(x.list[x.i], 1, sourceEnd))])
      first == x.list[x.start]
  IN Paste(back.entry, 0, SubSeq(first, x.offset + 1, Len(first)))

\* fault: the buffers before the last are still counted
BeginsF(x, length, sourceEnd) ==
  IF sourceEnd = length THEN [start |-> x.i + 1, bufsLength |-> 0, offset |-> 0]
  ELSE [start |-> x.i, bufsLength |-> x.bufsLength, offset |-> sourceEnd]
\* Where the entry after the one that ends in a buffer of this length begins
Begins(x, length, sourceEnd) ==
  IF sourceEnd = length THEN [start |-> x.i + 1, bufsLength |-> 0, offset |-> 0]
  ELSE [start |-> x.i, bufsLength |-> length, offset |-> sourceEnd]

Give(x, endIndex) ==
  LET buffer == x.list[x.i]
      sourceEnd == IF x.i = x.start THEN x.end ELSE Len(buffer) + x.end - x.bufsLength
      begins == Begins(x, IF x.i = x.start THEN x.bufsLength ELSE Len(buffer), sourceEnd)
  IN begins @@
     [index |-> x.index + 1,
      end   |-> IF x.index + 1 = endIndex THEN 0
                ELSE offsets[x.index + 1] - offsets[x.index] + begins.offset,
      given |-> Append(x.given, IF x.i = x.start THEN SubSeq(buffer, x.offset + 1, x.end)
                                ELSE Joined(x, sourceEnd))] @@ x

RECURSIVE scan(_, _)
scan(x, endIndex) ==
  IF x.index = endIndex THEN x
  ELSE IF x.end <= x.bufsLength THEN scan(Give(x, endIndex), endIndex)
  ELSE IF x.i < Len(x.list)
    THEN scan([x EXCEPT !.i = @ + 1, !.bufsLength = @ + Len(x.list[x.i + 1])], endIndex)
  ELSE x

\* The buffers that are done with are removed from the list.
Splice(x) == [x EXCEPT !.list = SubSeq(@, x.start, Len(@)), !.i = @ - x.start + 1, !.start = 1]

\* transform: bytes that are left over are too many, and flush: or too few.
Transform(x, chunk, endIndex) ==
  IF x.error THEN x
  ELSE LET y == Splice(scan([x EXCEPT !.list = Append(@, chunk)], endIndex))
       IN [y EXCEPT !.error = y.index = endIndex /\ y.list # <<>>]
Flush(x, endIndex) == [x EXCEPT !.error = @ \/ x.index # endIndex]
extractEntries(k, count, chunks) ==
  Flush(FoldLeft(LAMBDA x, chunk : Transform(x, chunk, k + count), Extractor(k), chunks), k + count)

-----------------------------------------------------------------------------

Init ==
  /\ table = [k \in Slot |-> 0] /\ offsets = table
  /\ data = [k \in 1..MaxData |-> NoByte]
  /\ pending = <<>>
  /\ status = "open" /\ nextAt = 0 /\ op = None
  /\ held = [k \in Slot |-> NoEntry]
  /\ ops = 0 /\ crashes = 0

\* Bound: the sizes of a batch alternate.
Batch == {[j \in 1..n |-> [stamp |-> <<ops + 1, j>>, size |-> 1 + ((j + s) % MaxSize)]] :
            n \in 1..MaxBatch, s \in 0..MaxSize - 1}

Next ==
  \/ \E i \in Slot : truncate(i)
  \/ \E b \in Batch, i \in 0..Capacity :
       Len(b) = 1 /\ \E uncommitted \in BOOLEAN : write(b[1], i, uncommitted)
  \/ \E b \in Batch, i \in 0..Capacity : Len(b) > 1 /\ writev(b, i)
  \/ commit
  \/ CutSynced \/ WriteData \/ ClearDirty \/ ClearSynced \/ CommitWrite \/ Committed
  \/ Crash \/ Open

Spec == Init /\ [][Next]_vars

-----------------------------------------------------------------------------
(* Properties *)

TypeOK ==
  /\ table \in [Slot -> 0..MaxData] /\ offsets \in [Slot -> 0..MaxData]
  /\ data \in [1..MaxData -> Byte \cup {NoByte}]
  /\ status \in {"open", "down", "refused"}
  /\ nextAt \in 0..Capacity
  /\ held \in [Slot -> Entry \cup {NoEntry}]

Holds(tab, dat, k, e) ==
  /\ tab[k] = Start(tab, k) + e.size
  /\ \A j \in 1..e.size : dat[Start(tab, k) + j] = Bytes(e)[j]

\* Whenever the process dies, the file can be opened and has the entries that
\* were committed; during an operation, those that it keeps and either some of
\* those it cuts off or some of those it writes, without a gap
\* (indexfile.js:479-666, 918-957; ACID.md:101).
Survives ==
  status = "open" =>
    \A S \in Survivors :
      LET tab == After(table, "table", S)
          dat == After(data, "data", S)
          n == NextFree(tab)
      IN /\ Sane(tab)
         /\ IF op = None
              THEN n = nextAt /\ \A k \in 0..n - 1 : Holds(tab, dat, k, held[k])
              ELSE /\ n >= op.index \/ n = nextAt
                   /\ \/ /\ n <= op.oldNext
                         /\ \A k \in 0..n - 1 : Holds(tab, dat, k, op.old[k])
                      \/ /\ n <= op.index + op.n
                         /\ \A k \in 0..n - 1 : Holds(tab, dat, k, held[k])

\* The same, unless the offsets of several entries are being written where a
\* crash left some that an interrupted truncation should have cleared.
Overwrites ==
  /\ op # None /\ op.pc = "sync"
  /\ \E k \in op.index + 1..op.index + op.n - 1 : table[k] # 0
SurvivesCrash == ~Overwrites => Survives

\* Every way of reading gives the entries that were written: a range at once,
\* its pieces, and as many as fit in a buffer of any size
\* (indexfile.js:196-374).
Written(k, count) == [j \in 1..count |-> Bytes(held[k + j - 1])]
ReadsBack ==
  status = "open" /\ op = None =>
    \A k \in 0..nextAt - 1 : \A count \in 1..nextAt - k :
      LET expected == Written(k, count)
          bytes == readBytes(k, count)
      IN /\ splitb(k, count, bytes) = expected
         /\ \A max \in 0..MaxData :
              LET c == countEntriesFitSize(k, count, max)
              IN /\ c \in 0..count /\ getByteSize(k, c) <= max
                 /\ c < count => getByteSize(k, c + 1) > max
                 /\ splitb(k, count, SubSeq(bytes, 1, Min({max, Len(bytes)}))) = SubSeq(expected, 1, c)

\* A stream gives the entries that were written wherever its chunks end, keeps
\* none of their bytes, and fails if there are too few or too many bytes
\* (indexfile.js:446-476, 959-1087).
Chunks(bytes) ==
  {LET ends == Ordered(cuts \cup {Len(bytes)})
   IN [j \in 1..Len(ends) |-> SubSeq(bytes, (IF j = 1 THEN 0 ELSE ends[j - 1]) + 1, ends[j])] :
     cuts \in SUBSET (1..Len(bytes) - 1)}
StreamsBack ==
  status = "open" /\ op = None =>
    \A k \in 0..nextAt - 1 : \A count \in 1..nextAt - k :
      LET expected == Written(k, count)
          bytes == readBytes(k, count)
      IN /\ \A chunks \in Chunks(bytes) :
              LET x == extractEntries(k, count, chunks)
              IN x.given = expected /\ ~x.error /\ x.list = <<>>
         /\ \A chunks \in Chunks(Append(bytes, NoByte)) :
              LET x == extractEntries(k, count, chunks) IN x.given = expected /\ x.error
         /\ \A n \in 1..Len(bytes) - 1 : \A chunks \in Chunks(SubSeq(bytes, 1, n)) :
              LET x == extractEntries(k, count, chunks) IN IsPrefix(x.given, expected) /\ x.error
=============================================================================
