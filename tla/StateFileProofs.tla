-------------------------- MODULE StateFileProofs --------------------------
(* Theorems about StateFile, for all sets of properties and of values. *)
EXTENDS StateFile, TLAPS

\* What holds between the steps of an update (file_persistence.js:210-303):
\* the file that updates are appended to is whole and holds the properties of
\* the object, and a file that has been replaced is known by what replaced it.
FileInv ==
  /\ request = None <=> pc \in {"down", "idle"}
  /\ file.now \in file.maybe
  /\ pc = "appending" \/ (pc = "idle" /\ ~full) => ~file.torn /\ mem = file.now
  /\ pc = "syncing" => ~file.torn /\ mem = file.now /\ Merge(file.now, request) = file.now
  /\ pc = "renamed" => file = Holds(Merge(mem, request))

Inv == TypeOK /\ MemoryStored /\ FileInv

-----------------------------------------------------------------------------
(* Facts about the operators *)

\* A merged object is an object, and merging twice changes nothing more.
LEMMA MergeFacts ==
  ASSUME NEW s \in State, NEW r \in Update
  PROVE  Merge(s, r) \in State /\ Merge(Merge(s, r), r) = Merge(s, r)
BY DEF Merge, State, Update

\* The default values make an object.
LEMMA DefaultType == Default \in State /\ Created \subseteq State
BY InitialAssumption DEF Default, State, Created

\* A file that holds one object is a file.
LEMMA HoldsType ==
  ASSUME NEW s \in State, NEW torn \in BOOLEAN
  PROVE  /\ Holds(s) \in File /\ [Holds(s) EXCEPT !.torn = torn] \in File
         /\ Holds(s).now = s /\ Holds(s).maybe = {s} /\ ~Holds(s).torn
         /\ [Holds(s) EXCEPT !.torn = torn].now = s
         /\ [Holds(s) EXCEPT !.torn = torn].maybe = {s}
         /\ [Holds(s) EXCEPT !.torn = torn].torn = torn
BY DEF Holds, File

\* A record is appended to a whole file.
LEMMA WrittenFacts ==
  ASSUME NEW f \in File, NEW r \in Update, ~f.torn
  PROVE  /\ Written(f, r) \in File /\ ~Written(f, r).torn
         /\ Written(f, r).now = Merge(f.now, r)
         /\ Written(f, r).maybe = f.maybe \union {Merge(f.now, r)}
<1>1. f.now \in State /\ f.maybe \subseteq State /\ f.torn \in BOOLEAN
  BY DEF File
<1>2. Merge(f.now, r) \in State
  BY <1>1, MergeFacts
<1> QED BY <1>1, <1>2 DEF Written, File

\* A file that has reached the disk can be read as one object only.
LEMMA SyncedFacts ==
  ASSUME NEW f \in File
  PROVE  /\ Synced(f) \in File /\ Synced(f).now = f.now
         /\ Synced(f).torn = f.torn /\ Synced(f).maybe = {f.now}
BY DEF Synced, File

\* A write that fails may leave a part of a record.
LEMMA TornFacts ==
  ASSUME NEW f \in File, NEW torn \in BOOLEAN, NEW g, g = [f EXCEPT !.torn = @ \/ torn]
  PROVE  g \in File /\ g.now = f.now /\ g.maybe = f.maybe
BY DEF File

-----------------------------------------------------------------------------
(* The invariant *)

\* The files of a new peer satisfy the invariant.
LEMMA InvInit == Init => Inv
<1> SUFFICES ASSUME Init PROVE Inv OBVIOUS
<1>1. Default \in State /\ Created \subseteq State
  BY DefaultType
<1>2. Holds(Default) \in File /\ Holds(Default).now = Default /\ Holds(Default).maybe = {Default}
  BY <1>1, HoldsType
<1> QED BY <1>1, <1>2 DEF Init, Inv, TypeOK, MemoryStored, FileInv

\* Every step keeps the invariant.
LEMMA InvNext == Inv /\ [Next]_vars => Inv'
<1> SUFFICES ASSUME Inv, [Next]_vars PROVE Inv' OBVIOUS
<1>t. /\ file \in File /\ file.now \in State /\ file.maybe \subseteq State /\ file.torn \in BOOLEAN
      /\ old \subseteq State /\ mem \in State /\ Default \in State /\ Created \subseteq State
      /\ Survivors \subseteq State
  BY DefaultType DEF Inv, TypeOK, File, Survivors
<1>r. pc \notin {"down", "idle"} => request \in Update
  BY DEF Inv, TypeOK, FileInv
<1>1. ASSUME Open PROVE Inv'
  BY <1>1, <1>t DEF Open, disk, Inv, TypeOK, MemoryStored, FileInv, Survivors
<1>2. ASSUME CleanupTempFiles PROVE Inv'
  BY <1>2 DEF CleanupTempFiles, Inv, TypeOK, MemoryStored, FileInv, Survivors
<1>3. ASSUME NEW r \in Update, Append(r) PROVE Inv'
  BY <1>3, NoneAssumption DEF Append, disk, Inv, TypeOK, MemoryStored, FileInv, Survivors
<1>4. ASSUME NEW r \in Update, Rotate(r) PROVE Inv'
  BY <1>4, NoneAssumption DEF Rotate, Inv, TypeOK, MemoryStored, FileInv, Survivors
<1>5. ASSUME AppendWritten PROVE Inv'
  <2>1. /\ pc = "appending" /\ pc' = "syncing" /\ request' = request
        /\ ~file.torn /\ mem = file.now /\ request \in Update /\ request # None
        /\ file' = Written(file, request) /\ mem' = Merge(mem, request)
        /\ full' \in BOOLEAN /\ old' = old /\ tmp' = tmp /\ cleaning' = cleaning
    BY <1>5, <1>r, NoneAssumption DEF AppendWritten, Inv, FileInv
  <2>2. /\ file' \in File /\ file'.now = mem' /\ mem' \in file'.maybe
        /\ Merge(mem', request) = mem' /\ mem' \in State /\ ~file'.torn
    BY <2>1, <1>t, WrittenFacts, MergeFacts
  <2> QED BY <2>1, <2>2 DEF Inv, TypeOK, MemoryStored, FileInv, Survivors
<1>6. ASSUME AppendFails PROVE Inv'
  <2>1. PICK torn \in BOOLEAN : file' = [file EXCEPT !.torn = @ \/ torn]
    BY <1>6 DEF AppendFails
  <2>2. file' \in File /\ file'.now = file.now /\ file'.maybe = file.maybe
    BY <2>1, <1>t, TornFacts
  <2> QED BY <1>6, <2>2 DEF AppendFails, Fails, Ends, Inv, TypeOK, MemoryStored, FileInv, Survivors
<1>7. ASSUME AppendSynced PROVE Inv'
  <2>1. /\ pc = "syncing" /\ pc' = "idle" /\ request' = None
        /\ file' = Synced(file) /\ old' \in {old, {}}
        /\ tmp' = tmp /\ mem' = mem /\ full' = full /\ cleaning' = cleaning
    BY <1>7 DEF AppendSynced, Ends
  <2>2. mem = file.now /\ ~file.torn
    BY <2>1 DEF Inv, FileInv
  <2>3. file' \in File /\ file'.now = file.now /\ file'.torn = file.torn /\ file'.maybe = {file.now}
    BY <2>1, <1>t, SyncedFacts
  <2> QED BY <2>1, <2>2, <2>3 DEF Inv, TypeOK, MemoryStored, FileInv, Survivors
<1>8. ASSUME SyncFails PROVE Inv'
  BY <1>8 DEF SyncFails, Fails, Ends, disk, Inv, TypeOK, MemoryStored, FileInv, Survivors
<1>9. ASSUME TmpSynced PROVE Inv'
  BY <1>9 DEF TmpSynced, disk, Inv, TypeOK, MemoryStored, FileInv, Survivors
<1>10. ASSUME Rename PROVE Inv'
  <2>1. /\ pc = "synced" /\ pc' = "renamed" /\ request' = request /\ request \in Update
        /\ tmp' = FALSE /\ old' = Survivors /\ file' = Holds(Merge(mem, request))
        /\ mem' = mem /\ full' = full /\ cleaning' = cleaning
    BY <1>10, <1>r DEF Rename
  <2>2. PICK s \in State : s = Merge(mem, request)
    BY <2>1, <1>t, MergeFacts
  <2>3. /\ Holds(s) \in File /\ Holds(s).now = s /\ Holds(s).maybe = {s}
    BY <2>2, HoldsType
  <2>4. file' \in File /\ file'.now \in file'.maybe
    BY <2>1, <2>2, <2>3
  <2> QED BY <2>1, <2>4, <1>t, NoneAssumption DEF Inv, TypeOK, MemoryStored, FileInv, Survivors
<1>11. ASSUME DirSynced PROVE Inv'
  <2>1. /\ pc = "renamed" /\ pc' = "idle" /\ request' = None /\ request \in Update
        /\ old' = {} /\ mem' = Merge(mem, request)
        /\ file' = file /\ tmp' = tmp /\ full' = full /\ cleaning' = cleaning
    BY <1>11, <1>r DEF DirSynced, Ends
  <2>2. file = Holds(Merge(mem, request)) /\ mem' \in State
    BY <2>1, <1>t, MergeFacts DEF Inv, FileInv
  <2>3. file.now = mem' /\ file.maybe = {mem'} /\ ~file.torn
    BY <2>1, <2>2, HoldsType
  <2> QED BY <2>1, <2>2, <2>3 DEF Inv, TypeOK, MemoryStored, FileInv, Survivors
<1>12. ASSUME RotateFails PROVE Inv'
  BY <1>12 DEF RotateFails, Fails, Ends, disk, Inv, TypeOK, MemoryStored, FileInv, Survivors
<1>13. ASSUME Exit PROVE Inv'
  BY <1>13, <1>t DEF Exit, Stop, Inv, TypeOK, MemoryStored, FileInv, Survivors
<1>14. ASSUME Crash PROVE Inv'
  <2>1. PICK s \in Survivors, torn \in BOOLEAN :
          /\ file' = [Holds(s) EXCEPT !.torn = torn]
          /\ old' \in {{}, IF s \in old THEN Created \intersect {s} ELSE {}}
    BY <1>14 DEF Crash
  <2>2. s \in State /\ old' \subseteq State
    BY <2>1, <1>t
  <2>3. file' \in File /\ file'.now \in file'.maybe
    BY <2>1, <2>2, HoldsType
  <2> QED BY <1>14, <2>2, <2>3, <1>t DEF Crash, Stop, Inv, TypeOK, MemoryStored, FileInv
<1>15. ASSUME UNCHANGED vars PROVE Inv'
  BY <1>15 DEF vars, disk, Inv, TypeOK, MemoryStored, FileInv, Survivors
<1> QED
  BY <1>1, <1>2, <1>3, <1>4, <1>5, <1>6, <1>7, <1>8, <1>9, <1>10, <1>11, <1>12, <1>13,
     <1>14, <1>15 DEF Next

\* The invariant holds in every state.
LEMMA Invariant == Spec => []Inv
BY InvInit, InvNext, PTL DEF Spec

\* The variables have their types.
THEOREM Typed == Spec => []TypeOK
<1>1. Inv => TypeOK BY DEF Inv
<1> QED BY Invariant, <1>1, PTL

\* What the object holds in memory may be read after a crash, whichever of
\* its updates failed (file_persistence.js:250-303).
THEOREM MemoryIsStored == Spec => []MemoryStored
<1>1. Inv => MemoryStored BY DEF Inv
<1> QED BY Invariant, <1>1, PTL

-----------------------------------------------------------------------------
(* The file implements AtomicStore. *)

\* A new file holds the default values.
LEMMA StoreInit == Init => Store!Init
<1> SUFFICES ASSUME Init PROVE Store!Init OBVIOUS
<1>1. Holds(Default).maybe = {Default} /\ Created \subseteq {Default}
  BY DefaultType, HoldsType DEF Created
<1> QED BY <1>1 DEF Init, Store!Init, Survivors

\* Every step of the file is a step of the store.
LEMMA StoreNext ==
  ASSUME NameLasts, Inv, [Next]_vars
  PROVE  [Store!Next]_Store!vars
<1>t. /\ file \in File /\ file.now \in State /\ file.maybe \subseteq State
      /\ mem \in State /\ Survivors \subseteq State
  BY DEF Inv, TypeOK, File, Survivors
<1>r. pc \notin {"down", "idle"} => request \in Update /\ request # None /\ mem \in Survivors
  BY DEF Inv, TypeOK, FileInv, MemoryStored
<1>m. \A s, r : Store!Merge(s, r) = Merge(s, r)
  BY DEF Store!Merge, Merge
<1>1. ASSUME UNCHANGED <<file, old>>, request' = request PROVE UNCHANGED Store!vars
  BY <1>1 DEF Store!vars, Survivors
<1>2. ASSUME UNCHANGED <<file, old>>, request' = None PROVE Store!Fail
  BY <1>2 DEF Store!Fail, Survivors
<1>3. ASSUME NEW r \in Update, Append(r) \/ Rotate(r) PROVE Store!Begin
  BY <1>3 DEF Append, Rotate, disk, Inv, FileInv, Store!Begin, Store!Update, Update, Survivors
<1>4. ASSUME AppendWritten PROVE Store!Store
  <2>1. /\ file' = Written(file, request) /\ old' = old /\ request' = request
        /\ ~file.torn /\ request \in Update /\ request # None
        /\ file.now \in Survivors
    BY <1>4, <1>r DEF AppendWritten, Inv, FileInv, Survivors
  <2>2. file'.maybe = file.maybe \union {Merge(file.now, request)}
    BY <2>1, <1>t, WrittenFacts
  <2>3. Survivors' = Survivors \union {Merge(file.now, request)}
    BY <2>1, <2>2 DEF Survivors
  <2> QED BY <2>1, <2>3, <1>m DEF Store!Store
<1>5. ASSUME AppendFails PROVE Store!Fail
  <2>1. PICK torn \in BOOLEAN : file' = [file EXCEPT !.torn = @ \/ torn]
    BY <1>5 DEF AppendFails
  <2>2. file'.maybe = file.maybe
    BY <2>1, <1>t, TornFacts
  <2> QED BY <1>5, <2>2 DEF AppendFails, Fails, Ends, Store!Fail, Survivors
<1>6. ASSUME AppendSynced PROVE Store!Succeed
  <2>1. /\ file' = Synced(file) /\ old' = {} /\ request' = None /\ request # None
        /\ file.now \in Survivors /\ Merge(file.now, request) = file.now
    BY <1>6, <1>r DEF AppendSynced, Ends, Inv, FileInv, Survivors
  <2>2. Survivors' = {Merge(file.now, request)}
    BY <2>1, <1>t, SyncedFacts DEF Survivors
  <2> QED BY <2>1, <2>2, <1>m DEF Store!Succeed
<1>7. ASSUME Rename PROVE Store!Store
  <2>1. /\ file' = Holds(Merge(mem, request)) /\ old' = Survivors /\ request' = request
        /\ request \in Update /\ request # None /\ mem \in Survivors
    BY <1>7, <1>r DEF Rename
  <2>2. file'.maybe = {Merge(mem, request)}
    BY <2>1, <1>t, HoldsType, MergeFacts
  <2>3. Survivors' = Survivors \union {Merge(mem, request)}
    BY <2>1, <2>2 DEF Survivors
  <2> QED BY <2>1, <2>3, <1>m DEF Store!Store
<1>8. ASSUME DirSynced PROVE Store!Succeed
  <2>1. /\ file' = file /\ old' = {} /\ request' = None
        /\ request \in Update /\ request # None /\ mem \in Survivors
        /\ file = Holds(Merge(mem, request))
    BY <1>8, <1>r DEF DirSynced, Ends, Inv, FileInv
  <2>2. file.maybe = {Merge(mem, request)}
    BY <2>1, <1>t, HoldsType, MergeFacts
  <2>3. Survivors' = {Merge(mem, request)}
    BY <2>1, <2>2 DEF Survivors
  <2> QED BY <2>1, <2>3, <1>m DEF Store!Succeed
<1>9. ASSUME Crash PROVE Store!Crash
  <2>1. PICK s \in Survivors, torn \in BOOLEAN :
          /\ file' = [Holds(s) EXCEPT !.torn = torn]
          /\ old' \in {{}, IF s \in old THEN Created \intersect {s} ELSE {}}
    BY <1>9 DEF Crash
  <2>2. file'.maybe = {s}
    BY <2>1, <1>t, HoldsType
  <2>3. Survivors' = {s} /\ request' = None
    BY <1>9, <2>1, <2>2 DEF Survivors, Crash, Stop
  <2> QED BY <2>3 DEF Store!Crash
<1>10. CASE Open \/ CleanupTempFiles \/ TmpSynced \/ UNCHANGED vars
  BY <1>1, <1>10 DEF Open, CleanupTempFiles, TmpSynced, vars, disk
<1>11. CASE SyncFails \/ RotateFails \/ Exit
  <2>1. UNCHANGED <<file, old>> /\ request' = None
    BY <1>11 DEF SyncFails, RotateFails, Exit, Fails, Ends, Stop, disk
  <2> QED BY <1>2, <2>1 DEF Store!Next
<1> QED
  BY <1>3, <1>4, <1>5, <1>6, <1>7, <1>8, <1>9, <1>10, <1>11 DEF Next, Store!Next

\* If fdatasync makes the name of a file last, updates are stored as a whole or
\* not at all, and for good once they have succeeded (ACID.md:174-188).
THEOREM FileIsAtomic == ASSUME NameLasts PROVE Spec => Atomic
<1>1. Inv /\ [Next]_vars => [Store!Next]_Store!vars
  BY StoreNext, NameAssumption
<1>2. Spec => Store!Init /\ [][Store!Next]_Store!vars
  BY StoreInit, Invariant, <1>1, PTL DEF Spec
<1> QED BY <1>2 DEF Atomic, Store!Spec
=============================================================================
