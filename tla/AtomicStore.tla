---------------------------- MODULE AtomicStore ----------------------------
(***************************************************************************)
(* What a persistent object promises (persistence_base.js:56-72): updates  *)
(* of some of its properties, one after another, each of them stored as a  *)
(* whole or not at all, and stored for good once it has succeeded.         *)
(***************************************************************************)
CONSTANTS Property, Value, Default, None

VARIABLES
  possible,   \* the values that a crash may leave
  request     \* the update under way

vars == <<possible, request>>

State  == [Property -> Value]
Update == [Property -> Value \union {None}]

\* Properties that an update does not mention keep their values.
Merge(s, r) == [x \in Property |-> IF r[x] = None THEN s[x] ELSE r[x]]

Init == possible = {Default} /\ request = None

Begin == request = None /\ request' \in Update /\ UNCHANGED possible

\* An update that has begun may be stored, whether it succeeds or not.
Store ==
  /\ request # None
  /\ \E s \in possible : possible' = possible \union {Merge(s, request)}
  /\ UNCHANGED request

Succeed ==
  /\ request # None
  /\ \E s \in possible : possible' = {Merge(s, request)}
  /\ request' = None

Fail == request' = None /\ UNCHANGED possible

Crash == \E s \in possible : possible' = {s} /\ request' = None

Next == Begin \/ Store \/ Succeed \/ Fail \/ Crash

Spec == Init /\ [][Next]_vars
=============================================================================
