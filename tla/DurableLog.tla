----------------------------- MODULE DurableLog -----------------------------
(***************************************************************************)
(* What a file log promises to the peer that writes it.  One job at a time *)
(* replaces everything from some index on.  While it runs the log shrinks  *)
(* at its end, never below that index, and then grows by the new entries   *)
(* in their order; a job that ends has done all of it.  If the process     *)
(* dies the log stays as it is at that moment, and nothing else ever       *)
(* changes it but a snapshot that takes the place of its beginning, or of  *)
(* all of it.                                                              *)
(***************************************************************************)
EXTENDS Integers, Sequences

CONSTANTS Entry, Idle   \* log entries; no job

VARIABLES
  base,      \* the index of the snapshot: the first entry is the next one
  entries,   \* the entries after the snapshot
  goal,      \* what the entries will be when the job is done, and how many
             \* of them it leaves alone
  acks       \* the number of jobs that have been reported as done

logVars == <<base, entries, goal, acks>>

Begins(s, t) == Len(s) <= Len(t) /\ SubSeq(t, 1, Len(s)) = s

Init ==
  /\ base = 0
  /\ entries \in Seq(Entry)
  /\ goal = Idle
  /\ acks = 0

\* A job is given its entries and the number of entries it keeps.
Begin ==
  /\ goal = Idle
  /\ goal' \in [keep : 0..Len(entries), is : Seq(Entry)]
  /\ Begins(SubSeq(entries, 1, goal'.keep), goal'.is)
  /\ UNCHANGED <<base, entries, acks>>

Shrink ==
  /\ goal # Idle
  /\ Len(entries') >= goal.keep
  /\ Begins(entries', entries)
  /\ UNCHANGED <<base, goal, acks>>

Grow ==
  /\ goal # Idle
  /\ Begins(entries, entries') /\ Begins(entries', goal.is)
  /\ UNCHANGED <<base, goal, acks>>

End ==
  /\ goal # Idle
  /\ entries = goal.is
  /\ goal' = Idle
  /\ acks' = acks + 1
  /\ UNCHANGED <<base, entries>>

\* The process dies, or the job fails.
Abandon ==
  /\ goal' = Idle
  /\ UNCHANGED <<base, entries, acks>>

\* A snapshot of a part of the log, which keeps the rest of it.
Compact(n) ==
  /\ goal = Idle
  /\ n \in 0..Len(entries)
  /\ base' = base + n
  /\ entries' = SubSeq(entries, n + 1, Len(entries))
  /\ UNCHANGED <<goal, acks>>

\* A snapshot from elsewhere that the log disagrees with.
Replace ==
  /\ goal = Idle
  /\ base' \in Nat
  /\ entries' = <<>>
  /\ UNCHANGED <<goal, acks>>

Next ==
  \/ Begin \/ Shrink \/ Grow \/ End \/ Abandon \/ Replace
  \/ \E n \in 0..Len(entries) : Compact(n)

Spec == Init /\ [][Next]_logVars
=============================================================================
