--------------------------- MODULE StateMachines ---------------------------
(***************************************************************************)
(* What the cluster promises to its state machines: each is fed a growing  *)
(* sequence of entries, never told to take one back, and of any two one    *)
(* has been fed the beginning of what the other has.                       *)
(***************************************************************************)
EXTENDS Sequences, Integers

CONSTANT Peer

VARIABLE applied   \* applied[i]: the entries fed to the state machine of i

Begins(s, t) == Len(s) <= Len(t) /\ SubSeq(t, 1, Len(s)) = s

Init == applied = [i \in Peer |-> <<>>]

\* Peer i is fed more entries: those another peer has been fed, or new ones.
Feed(i) ==
  /\ applied' = [applied EXCEPT ![i] = applied'[i]]
  /\ Begins(applied[i], applied'[i])
  /\ \A j \in Peer : Begins(applied[j], applied'[i]) \/ Begins(applied'[i], applied[j])

Next == \E i \in Peer : Feed(i)

Spec == Init /\ [][Next]_applied
=============================================================================
