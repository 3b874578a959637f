------------------------------ MODULE FairLock ------------------------------
(***************************************************************************)
(* What lock.js promises for one scope, whatever it is built from: the     *)
(* callbacks are invoked in the order of the calls; an exclusive callback  *)
(* is invoked when everything before it has completed, a shared one when   *)
(* every exclusive callback before it has.                                 *)
(***************************************************************************)
EXTENDS Naturals

CONSTANT MaxCalls   \* bound on the calls made over the scope

VARIABLES
  kind,    \* kind[c]: what call c asks for, "none" until it is made
  phase    \* phase[c]: where its callback is

Call == 1..MaxCalls

Outcome == {"resolved", "rejected"}

Completed(c) == phase[c] \in Outcome

Init == kind = [c \in Call |-> "none"] /\ phase = [c \in Call |-> "waiting"]

\* The next call over the scope, shared or exclusive.
Request(c, k) ==
  /\ kind[c] = "none" /\ \A d \in Call : d < c => kind[d] # "none"
  /\ kind' = [kind EXCEPT ![c] = k]
  /\ UNCHANGED phase

MayStart(c) ==
  \A d \in Call : d < c =>
    /\ phase[d] # "waiting"
    /\ "exclusive" \in {kind[c], kind[d]} => Completed(d)

\* The callback of c is invoked.
Start(c) ==
  /\ kind[c] # "none" /\ phase[c] = "waiting" /\ MayStart(c)
  /\ phase' = [phase EXCEPT ![c] = "running"]
  /\ UNCHANGED kind

\* The promise the callback of c returned is settled.
Settle(c, how) ==
  /\ phase[c] = "running"
  /\ phase' = [phase EXCEPT ![c] = how]
  /\ UNCHANGED kind

Next ==
  \E c \in Call :
    \/ \E k \in {"shared", "exclusive"} : Request(c, k)
    \/ Start(c)
    \/ \E how \in Outcome : Settle(c, how)

Spec == Init /\ [][Next]_<<kind, phase>>
=============================================================================
