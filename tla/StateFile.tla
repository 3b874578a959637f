----------------------------- MODULE StateFile -----------------------------
(***************************************************************************)
(* The file of a persistent object (file_persistence.js), which holds the  *)
(* term, the vote and the configuration of a peer, or the last index that  *)
(* a state machine has applied.  An update is appended to the file; a file *)
(* that has become large, or may be damaged, is replaced by a new one that *)
(* begins with the whole object.                                           *)
(*                                                                         *)
(* The updates of an object run one at a time (synchronize).  The size of  *)
(* a file is abstracted: after any update it may be large enough.          *)
(***************************************************************************)
CONSTANTS
  Property, Value,
  Initial,    \* the default value of every property
  None,
  NameLasts   \* fdatasync of a file makes its name last as well

VARIABLES
  file,       \* the file of that name
  old,        \* what a crash may bring back: files that had this name, or none
  tmp,        \* the file that is to replace it exists
  mem,        \* the properties of the object
  full,       \* the next update replaces the file
  pc, request,
  cleaning    \* temporary files are being looked for

disk == <<file, old, tmp>>
vars == <<disk, mem, full, pc, request, cleaning>>

State  == [Property -> Value]
Update == [Property -> Value \union {None}]
Default == [x \in Property |-> Initial]

ASSUME InitialAssumption == Initial \in Value
ASSUME NoneAssumption == None \notin Update
ASSUME NameAssumption == NameLasts \in BOOLEAN

\* assign
Merge(s, r) == [x \in Property |-> IF r[x] = None THEN s[x] ELSE r[x]]

-----------------------------------------------------------------------------
(* Files: now is what the file reads as, and maybe what it may read as     *)
(* after a crash; a torn file ends with a part of a record.                *)

File == [torn : BOOLEAN, now : State, maybe : SUBSET State]

Holds(s) == [torn |-> FALSE, now |-> s, maybe |-> {s}]

\* A record behind a part of another cannot be read.
Written(f, r) ==
  IF f.torn THEN f
  ELSE [f EXCEPT !.now = Merge(@, r), !.maybe = @ \union {Merge(f.now, r)}]
Synced(f) == [f EXCEPT !.maybe = {f.now}]

\* What may be read after a crash
Survivors == file.maybe \union old

-----------------------------------------------------------------------------

Ends == pc' = "idle" /\ request' = None
\* The next update rotates.
Fails == Ends /\ full' = TRUE

\* fault: a part of a record at the end of the file is not noticed
OpenF ==
  /\ pc = "down"
  /\ mem' = file.now
  /\ full' \in BOOLEAN
  /\ pc' = "idle" /\ cleaning' = TRUE
  /\ UNCHANGED <<disk, request>>
\* read, onready
Open ==
  /\ pc = "down"
  /\ mem' = file.now
  /\ full' \in BOOLEAN /\ (file.torn => full')
  /\ pc' = "idle" /\ cleaning' = TRUE
  /\ UNCHANGED <<disk, request>>

\* The temporary files found are removed, the one of a rotation among them.
CleanupTempFiles ==
  /\ cleaning /\ cleaning' = FALSE
  /\ tmp' \in {tmp, FALSE}
  /\ UNCHANGED <<file, old, mem, full, pc, request>>

\* update
Append(r) ==
  /\ pc = "idle" /\ ~full
  /\ request' = r /\ pc' = "appending"
  /\ UNCHANGED <<disk, mem, full, cleaning>>

\* The write has ended: the values are assigned, and fdatasync begins.
AppendWritten ==
  /\ pc = "appending" /\ pc' = "syncing"
  /\ file' = Written(file, request)
  /\ mem' = Merge(mem, request)
  /\ full' \in BOOLEAN
  /\ UNCHANGED <<old, tmp, request, cleaning>>

AppendFails ==
  /\ pc = "appending" /\ Fails
  /\ \E torn \in BOOLEAN : file' = [file EXCEPT !.torn = @ \/ torn]
  /\ UNCHANGED <<old, tmp, mem, cleaning>>

AppendSynced ==
  /\ pc = "syncing" /\ Ends
  /\ file' = Synced(file)
  /\ old' = IF NameLasts THEN {} ELSE old
  /\ UNCHANGED <<tmp, mem, full, cleaning>>

SyncFails ==
  /\ pc = "syncing" /\ Fails
  /\ UNCHANGED <<disk, mem, cleaning>>

\* rotate: when the file is large, or because the builder asks for it.  The
\* whole object is written to a new file.
Rotate(r) ==
  /\ pc = "idle"
  /\ request' = r /\ pc' = "rotating" /\ full' = FALSE
  /\ tmp' = TRUE
  /\ UNCHANGED <<file, old, mem, cleaning>>

TmpSynced ==
  /\ pc = "rotating" /\ pc' = "synced"
  /\ UNCHANGED <<disk, mem, full, request, cleaning>>

\* renameSyncDir: it fails when there is no such file any more.
Rename ==
  /\ pc = "synced" /\ pc' = "renamed"
  /\ tmp /\ tmp' = FALSE
  /\ old' = Survivors /\ file' = Holds(Merge(mem, request))
  /\ UNCHANGED <<mem, full, request, cleaning>>

DirSynced ==
  /\ pc = "renamed" /\ Ends
  /\ old' = {}
  /\ mem' = Merge(mem, request)
  /\ UNCHANGED <<file, tmp, full, cleaning>>

\* fault: the values are assigned although the rotation has failed
RotateFailsF ==
  /\ pc \in {"rotating", "synced", "renamed"} /\ Fails
  /\ mem' = Merge(mem, request)
  /\ UNCHANGED <<disk, cleaning>>
RotateFails ==
  /\ pc \in {"rotating", "synced", "renamed"} /\ Fails
  /\ UNCHANGED <<disk, mem, cleaning>>

-----------------------------------------------------------------------------
(* The process ends, by close or otherwise; the system crashes. *)

Stop ==
  /\ pc' = "down" /\ request' = None /\ cleaning' = FALSE
  /\ tmp' = FALSE /\ mem' = Default /\ full' = FALSE

Exit == pc # "down" /\ Stop /\ UNCHANGED <<file, old>>

\* The file was created, and its name may not last.
Created == IF NameLasts THEN {} ELSE {Default}

Crash ==
  /\ Stop
  /\ \E s \in Survivors, torn \in BOOLEAN :
       /\ s \in old \/ (torn => file.torn \/ file.maybe # {s})
       /\ file' = [Holds(s) EXCEPT !.torn = torn]
       /\ old' \in {{}, IF s \in old THEN Created \intersect {s} ELSE {}}

-----------------------------------------------------------------------------

Init ==
  /\ file = Holds(Default) /\ old = Created /\ tmp = FALSE
  /\ mem = Default /\ full = FALSE
  /\ pc = "down" /\ request = None /\ cleaning = FALSE

Next ==
  \/ Open \/ CleanupTempFiles
  \/ \E r \in Update : Append(r) \/ Rotate(r)
  \/ AppendWritten \/ AppendFails \/ AppendSynced \/ SyncFails
  \/ TmpSynced \/ Rename \/ DirSynced \/ RotateFails
  \/ Exit \/ Crash

Spec == Init /\ [][Next]_vars

-----------------------------------------------------------------------------

\* The type invariant.
TypeOK ==
  /\ file \in File /\ old \subseteq State /\ tmp \in BOOLEAN
  /\ mem \in State /\ full \in BOOLEAN /\ cleaning \in BOOLEAN
  /\ pc \in {"down", "idle", "appending", "syncing", "rotating", "synced", "renamed"}
  /\ request \in Update \union {None}

\* What the object says of itself may be read after a crash as well: it never
\* holds an update that is not in the file (file_persistence.js:250-258,
\* 289-300).
MemoryStored == pc # "down" => mem \in Survivors

\* An update is stored as a whole or not at all, whatever fails, and a
\* successful one for good (ACID.md:174-188).
Store == INSTANCE AtomicStore WITH possible <- Survivors
Atomic == Store!Spec

\* "Only after all the updated properties has been transerred to some
\* persistent storage, the implementations must assign new values to this
\* instance" (persistence_base.js:68).
AssignedWhenStored ==
  [][mem' # mem /\ pc # "down" /\ pc' # "down" => Survivors' = {mem'}]_vars
=============================================================================
