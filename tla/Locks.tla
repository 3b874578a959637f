------------------------------- MODULE Locks -------------------------------
(***************************************************************************)
(* lib/utils/lock.js over one scope, with the promises it is built from.   *)
(* A promise is the set of the calls whose callbacks it waits for:         *)
(* {} is a promise that is resolved, {c} the one the call c returned, and  *)
(* Promise.all of promises with a .catch their union.                      *)
(***************************************************************************)
EXTENDS Naturals

CONSTANTS
  MaxCalls,   \* bound on the calls made over the scope
  None        \* no promise

Call == 1..MaxCalls

Promises == SUBSET Call

ASSUME ConstantsAssumption ==
  /\ MaxCalls \in Nat
  /\ \A promise \in Promises : promise # None

VARIABLES
  kind,      \* kind[c]: what call c asks for, "none" until it is made
  phase,     \* phase[c]: where the callback of c is
  waits,     \* waits[c]: the promise whose settling invokes it
  exclusive, \* lock.exclusive, None while the scope has no lock
  shared     \* lock.shared

vars == <<kind, phase, waits, exclusive, shared>>

Outcome == {"resolved", "rejected"}

Init ==
  /\ kind = [c \in Call |-> "none"]
  /\ phase = [c \in Call |-> "waiting"]
  /\ waits = [c \in Call |-> {}]
  /\ exclusive = None
  /\ shared = None

Issued == {c \in Call : kind[c] # "none"}

\* The next call over the scope; its callback follows promise.
Follow(c, k, promise) ==
  /\ Issued = {d \in Call : d < c}
  /\ kind' = [kind EXCEPT ![c] = k]
  /\ waits' = [waits EXCEPT ![c] = promise]
  /\ UNCHANGED phase

\* shared() on a scope without a lock
SharedFirst(c) ==
  /\ exclusive = None
  /\ Follow(c, "shared", {})
  /\ exclusive' = {c}
  /\ shared' = {}

\* shared() after an exclusive(): begins a group of shared callbacks
SharedAfterExclusive(c) ==
  /\ exclusive # None /\ shared = None
  /\ Follow(c, "shared", exclusive)
  /\ exclusive' = {c}
  /\ shared' = exclusive

\* fault: the next exclusive callback waits only for the newest of the group
SharedAgainF(c) ==
  /\ exclusive # None /\ shared # None
  /\ Follow(c, "shared", shared)
  /\ exclusive' = {c}
  /\ UNCHANGED shared

\* shared() after a shared(): joins the group
SharedAgain(c) ==
  /\ exclusive # None /\ shared # None
  /\ Follow(c, "shared", shared)
  /\ exclusive' = exclusive \cup {c}
  /\ UNCHANGED shared

Shared(c) == SharedFirst(c) \/ SharedAfterExclusive(c) \/ SharedAgain(c)

Exclusive(c) ==
  /\ Follow(c, "exclusive", IF exclusive = None THEN {} ELSE exclusive)
  /\ exclusive' = {c}
  /\ shared' = None

\* fault: Promise.all without the .catch: the first rejection settles it
SettledAllF(promise) ==
  (\A d \in promise : phase[d] = "resolved") \/ (\E d \in promise : phase[d] = "rejected")

\* fault: then(callback) alone: a rejection is passed on, the callback is not invoked
SettledThenF(promise) == \A d \in promise : phase[d] = "resolved"

\* Either outcome counts: then(callback, callback), and .catch under Promise.all
Settled(promise) == \A d \in promise : phase[d] \in Outcome

\* The callback of c is invoked.  Reactions run in the order they were attached.
Invoke(c) ==
  /\ c \in Issued /\ phase[c] = "waiting"
  /\ Settled(waits[c])
  /\ \A d \in Call : d < c /\ waits[d] = waits[c] => phase[d] # "waiting"
  /\ phase' = [phase EXCEPT ![c] = "running"]
  /\ UNCHANGED <<kind, waits, exclusive, shared>>

\* The promise that the callback of c returned settles.
Complete(c) ==
  /\ phase[c] = "running"
  /\ \E how \in Outcome : phase' = [phase EXCEPT ![c] = how]
  /\ UNCHANGED <<kind, waits, exclusive, shared>>

Next == \E c \in Call : Shared(c) \/ Exclusive(c) \/ Invoke(c) \/ Complete(c)

Spec == Init /\ [][Next]_vars

\* The event loop runs every reaction, and the callers' promises settle.
FairSpec == Spec /\ \A c \in Call : WF_vars(Invoke(c)) /\ WF_vars(Complete(c))
-----------------------------------------------------------------------------
Before(c) == {d \in Call : d < c}

\* Of the calls D, the ones the next exclusive call has to wait for, which all
\* the others precede: the last one if exclusive, else the group of shared ones.
Frontier(D) == {d \in D : \A e \in D : "exclusive" \in {kind[d], kind[e]} => e <= d}

LastExclusive(D) ==
  {x \in D : kind[x] = "exclusive" /\ \A e \in D : kind[e] = "exclusive" => e <= x}

TypeOK ==
  /\ kind \in [Call -> {"none", "shared", "exclusive"}]
  /\ phase \in [Call -> {"waiting", "running"} \cup Outcome]
  /\ waits \in [Call -> Promises]
  /\ exclusive = None \/ exclusive \in Promises
  /\ shared = None \/ shared \in Promises

CallsInOrder ==
  \A c \in Call :
    /\ c \in Issued => Before(c) \subseteq Issued
    /\ c \notin Issued => phase[c] = "waiting"

\* The two promises of the lock are what the next call of either kind must follow.
LockMatchesCalls ==
  /\ exclusive = IF Issued = {} THEN None ELSE Frontier(Issued)
  /\ shared = IF \E x \in Frontier(Issued) : kind[x] = "shared" THEN LastExclusive(Issued)
                                                               ELSE None

\* ... and so are the promises the calls already made do follow.
WaitsMatchCalls ==
  \A c \in Issued : waits[c] = IF kind[c] = "shared" THEN LastExclusive(Before(c))
                                                    ELSE Frontier(Before(c))

\* What c shares the scope with has completed or is, like c, shared.
MayRun(c) ==
  \A d \in Before(c) :
    /\ phase[d] # "waiting"
    /\ "exclusive" \in {kind[c], kind[d]} => phase[d] \in Outcome

NoOvertaking == \A c \in Call : phase[c] # "waiting" => MayRun(c)

\* The inductive invariant: what lock.exclusive and lock.shared stand for after
\* any interleaving of calls, invocations and completions (lock.js:31-90), and
\* that no callback was invoked before one it has to follow.
LockInvariant == TypeOK /\ CallsInOrder /\ LockMatchesCalls /\ WaitsMatchCalls /\ NoOvertaking

\* An exclusive callback runs alone (lock.js:13-14, 59-61).
ExclusiveAlone ==
  \A c, d \in Call : c # d /\ phase[c] = "running" /\ phase[d] = "running" =>
    kind[c] = "shared" /\ kind[d] = "shared"

\* The promises implement the queue of calls that the comments promise:
\* callbacks in the order of the calls, none before a conflicting one has
\* settled, either way (lock.js:13-16, 58-62).
Fair == INSTANCE FairLock
ImplementsFairLock == Fair!Spec

\* No call is starved or lost, whatever mixture of kinds and however the
\* callbacks before it settle (lock.js:35, 42, 45-48, 86).
EveryCallRuns == \A c \in Call : c \in Issued ~> phase[c] # "waiting"
=============================================================================
