----------------------------- MODULE LockProofs -----------------------------
(* lib/utils/lock.js is a fair lock, for any number of calls. *)
EXTENDS Locks, TLAPS

USE ConstantsAssumption DEF Call

LEMMA InitEstablishes == Init => LockInvariant
  <1> SUFFICES ASSUME Init PROVE LockInvariant
    OBVIOUS
  <1>1. Issued = {} /\ Frontier(Issued) = {}
    BY DEF Init, Issued, Frontier
  <1>2. TypeOK
    BY DEF Init, TypeOK, Promises, Outcome
  <1>3. CallsInOrder /\ WaitsMatchCalls /\ NoOvertaking
    BY <1>1 DEF Init, CallsInOrder, WaitsMatchCalls, NoOvertaking
  <1>4. LockMatchesCalls
    BY <1>1 DEF Init, LockMatchesCalls
  <1>5. QED
    BY <1>2, <1>3, <1>4 DEF LockInvariant

\* A settled promise lets the callback run: everything that conflicts with c has
\* settled, and all that precedes c was invoked.  It is enough to look at the call
\* just before c: what it waited for has settled too.
LEMMA SettledMayRun ==
  ASSUME LockInvariant, NEW c \in Call, c \in Issued, Settled(waits[c]),
         \A d \in Call : d < c /\ waits[d] = waits[c] => phase[d] # "waiting"
  PROVE  MayRun(c)
  <1> DEFINE p == c - 1
  <1>0. /\ kind \in [Call -> {"none", "shared", "exclusive"}]
        /\ waits[c] = IF kind[c] = "shared" THEN LastExclusive(Before(c)) ELSE Frontier(Before(c))
        /\ kind[c] # "none"
    BY DEF LockInvariant, TypeOK, WaitsMatchCalls, Issued
  <1>1. CASE c = 1
    BY <1>1 DEF MayRun, Before
  <1>2. CASE c # 1
    <2>1. p \in Call /\ p < c /\ p \in Before(c) /\ \A d \in Before(c) : d <= p
      BY <1>2 DEF Before
    <2>2. p \in Issued /\ kind[p] \in {"shared", "exclusive"}
      BY <1>0, <2>1 DEF LockInvariant, CallsInOrder, Issued
    <2>3. phase[p] # "waiting" => MayRun(p)
      BY <2>1 DEF LockInvariant, NoOvertaking
    <2>4. \A d \in Before(c) : d = p \/ d \in Before(p)
      BY <2>1 DEF Before
    <2>5. CASE kind[c] = "exclusive"
      <3>1. p \in Frontier(Before(c))
        BY <2>1 DEF Frontier
      <3>2. phase[p] \in Outcome
        BY <1>0, <2>5, <3>1 DEF Settled
      <3>3. MayRun(p)
        BY <2>3, <3>2 DEF Outcome
      <3>4. ASSUME NEW d \in Before(c) PROVE phase[d] \in Outcome
        <4>1. CASE d \in Frontier(Before(c))
          BY <1>0, <2>5, <4>1 DEF Settled
        <4>2. CASE d \notin Frontier(Before(c))
          <5>1. PICK e \in Before(c) : "exclusive" \in {kind[d], kind[e]} /\ d < e
            BY <4>2 DEF Frontier, Before
          <5>2. d \in Before(p) /\ d \in Before(e)
            BY <5>1, <2>1, <2>4 DEF Before
          <5>3. CASE kind[d] = "exclusive"
            BY <5>3, <5>2, <3>3 DEF MayRun
          <5>4. CASE kind[e] = "exclusive"
            <6>1. phase[e] \in Outcome
              BY <5>4, <3>2, <3>3, <2>4 DEF MayRun
            <6>2. MayRun(e)
              BY <6>1 DEF LockInvariant, NoOvertaking, Outcome, Before
            <6>3. QED
              BY <6>2, <5>4, <5>2 DEF MayRun
          <5>5. QED
            BY <5>1, <5>3, <5>4
        <4>3. QED
          BY <4>1, <4>2
      <3>5. QED
        BY <3>4 DEF MayRun, Outcome
    <2>6. CASE kind[c] = "shared"
      <3>1. CASE kind[p] = "exclusive"
        <4>1. p \in LastExclusive(Before(c))
          BY <2>1, <3>1 DEF LastExclusive
        <4>2. phase[p] \in Outcome
          BY <1>0, <2>6, <4>1 DEF Settled
        <4>3. MayRun(p)
          BY <2>3, <4>2 DEF Outcome
        <4>4. \A d \in Before(p) : phase[d] \in Outcome
          BY <3>1, <4>3 DEF MayRun
        <4>5. QED
          BY <4>2, <4>4, <2>4 DEF MayRun, Outcome
      <3>2. CASE kind[p] = "shared"
        <4>1. LastExclusive(Before(p)) = LastExclusive(Before(c))
          BY <2>1, <2>4, <3>2 DEF LastExclusive, Before
        <4>2. waits[p] = waits[c]
          BY <1>0, <2>2, <2>6, <3>2, <4>1 DEF LockInvariant, WaitsMatchCalls
        <4>3. phase[p] # "waiting"
          BY <4>2, <2>1
        <4>4. MayRun(p)
          BY <2>3, <4>3
        <4>5. QED
          BY <4>3, <4>4, <2>4, <2>6, <3>2 DEF MayRun
      <3>3. QED
        BY <3>1, <3>2, <2>2
    <2>7. QED
      BY <2>5, <2>6, <1>0
  <1>3. QED
    BY <1>1, <1>2


\* A call that is made: every earlier one keeps what it follows, and the new
\* one follows what it should.
LEMMA FollowKeepsQueue ==
  ASSUME LockInvariant, NEW c \in Call, NEW k \in {"shared", "exclusive"},
         NEW promise \in Promises, Follow(c, k, promise),
         promise = IF k = "shared" THEN LastExclusive(Issued) ELSE Frontier(Issued)
  PROVE  /\ kind' \in [Call -> {"none", "shared", "exclusive"}]
         /\ phase' \in [Call -> {"waiting", "running"} \cup Outcome]
         /\ waits' \in [Call -> Promises]
         /\ Issued' = Issued \cup {c}
         /\ CallsInOrder' /\ WaitsMatchCalls' /\ NoOvertaking'
  <1>1. /\ kind \in [Call -> {"none", "shared", "exclusive"}]
        /\ phase \in [Call -> {"waiting", "running"} \cup Outcome]
        /\ waits \in [Call -> Promises]
        /\ Issued = Before(c)
    BY DEF LockInvariant, TypeOK, Follow, Before
  <1>2. /\ kind' = [kind EXCEPT ![c] = k]
        /\ waits' = [waits EXCEPT ![c] = promise]
        /\ phase' = phase
    BY DEF Follow
  <1>3. /\ kind' \in [Call -> {"none", "shared", "exclusive"}]
        /\ phase' \in [Call -> {"waiting", "running"} \cup Outcome]
        /\ waits' \in [Call -> Promises]
        /\ Issued' = Issued \cup {c}
    BY <1>1, <1>2 DEF Issued
  <1>4. ASSUME NEW d \in Call, d \in Issued' PROVE Before(d) \subseteq Issued /\ c \notin Before(d)
    BY <1>1, <1>3, <1>4 DEF Before
  <1>5. ASSUME NEW d \in Call, d \in Issued'
        PROVE  /\ LastExclusive(Before(d))' = LastExclusive(Before(d))
               /\ Frontier(Before(d))' = Frontier(Before(d))
    <2>1. \A e \in Before(d) : kind'[e] = kind[e]
      BY <1>1, <1>2, <1>4, <1>5 DEF Before
    <2>2. QED
      BY <2>1 DEF LastExclusive, Frontier, Before
  <1>6. CallsInOrder'
    <2>1. \A d \in Call : d \in Issued' => Before(d) \subseteq Issued'
      BY <1>3, <1>4
    <2>2. \A d \in Call : d \notin Issued' => phase'[d] = "waiting"
      BY <1>2, <1>3 DEF LockInvariant, CallsInOrder
    <2>3. QED
      BY <2>1, <2>2 DEF CallsInOrder, Before
  <1>7. WaitsMatchCalls'
    <2>1. ASSUME NEW d \in Issued'
          PROVE  waits'[d] = IF kind'[d] = "shared" THEN LastExclusive(Before(d))
                                                  ELSE Frontier(Before(d))
      <3>1. CASE d = c
        BY <1>1, <1>2, <3>1
      <3>2. CASE d # c
        BY <1>1, <1>2, <1>3, <3>2 DEF LockInvariant, WaitsMatchCalls, Issued
      <3>3. QED
        BY <3>1, <3>2
    <2>2. QED
      BY <2>1, <1>5 DEF WaitsMatchCalls, Issued
  <1>8. NoOvertaking'
    <2>1. ASSUME NEW d \in Call, phase'[d] # "waiting" PROVE MayRun(d)'
      <3>1. d \in Issued /\ MayRun(d)
        BY <1>2, <2>1 DEF LockInvariant, CallsInOrder, NoOvertaking
      <3>2. kind'[d] = kind[d] /\ \A e \in Before(d) : kind'[e] = kind[e]
        BY <1>1, <1>2, <3>1 DEF Before
      <3>3. QED
        BY <1>2, <3>1, <3>2 DEF MayRun, Before
    <2>2. QED
      BY <2>1 DEF NoOvertaking
  <1>9. QED
    BY <1>3, <1>6, <1>7, <1>8

\* What the lock must become when the call c is added to the ones made.
LEMMA FrontierGrows ==
  ASSUME LockInvariant, NEW c \in Call, NEW k \in {"shared", "exclusive"},
         Issued = Before(c), kind' = [kind EXCEPT ![c] = k], Issued' = Issued \cup {c}
  PROVE  /\ k = "exclusive" => Frontier(Issued)' = {c}
         /\ k = "shared" =>
              /\ LastExclusive(Issued)' = LastExclusive(Issued)
              /\ Frontier(Issued)' =
                   {c} \cup {d \in Frontier(Issued) : kind[d] = "shared"}
  <1>1. /\ kind \in [Call -> {"none", "shared", "exclusive"}]
        /\ Issued \subseteq Call /\ c \notin Issued /\ \A d \in Issued : d < c /\ kind'[d] = kind[d]
        /\ kind'[c] = k
    BY DEF LockInvariant, TypeOK, Before
  <1>2. CASE k = "exclusive"
    BY <1>1, <1>2 DEF Frontier
  <1>3. CASE k = "shared"
    <2>1. LastExclusive(Issued)' = LastExclusive(Issued)
      BY <1>1, <1>3 DEF LastExclusive
    <2>2. c \in Frontier(Issued)'
      BY <1>1, <1>3 DEF Frontier
    <2>3. ASSUME NEW d \in Issued
          PROVE  d \in Frontier(Issued)' <=> d \in Frontier(Issued) /\ kind[d] = "shared"
      <3>1. kind[d] \in {"shared", "exclusive"}
        BY <1>1 DEF Issued
      <3>2. QED
        BY <1>1, <1>3, <3>1 DEF Frontier
    <2>4. Frontier(Issued)' \subseteq Issued \cup {c} /\ Frontier(Issued) \subseteq Issued
      BY DEF Frontier
    <2>5. QED
      BY <1>3, <2>1, <2>2, <2>3, <2>4
  <1>4. QED
    BY <1>2, <1>3

\* While the newest call is exclusive it is the only one to wait for.
LEMMA NewestExclusive ==
  ASSUME LockInvariant, Issued # {}, shared = None
  PROVE  Frontier(Issued) = LastExclusive(Issued) /\ \A d \in Frontier(Issued) : kind[d] = "exclusive"
  <1>1. \A d \in Frontier(Issued) : kind[d] # "shared"
    <2>1. LastExclusive(Issued) \in Promises
      BY DEF LastExclusive, Promises, Issued
    <2>2. QED
      BY <2>1 DEF LockInvariant, LockMatchesCalls
  <1>2. \A d \in Frontier(Issued) : kind[d] = "exclusive"
    BY <1>1 DEF LockInvariant, TypeOK, Frontier, Issued
  <1>3. Frontier(Issued) \subseteq LastExclusive(Issued)
    BY <1>2 DEF Frontier, LastExclusive
  <1>4. ASSUME NEW x \in LastExclusive(Issued) PROVE x \in Frontier(Issued)
    BY <1>2 DEF Frontier, LastExclusive, Issued
  <1>5. QED
    BY <1>2, <1>3, <1>4


\* Every shape of shared() follows the last exclusive call and leaves a lock
\* whose group is c with the shared calls that were already in front.
LEMMA SharedStep ==
  ASSUME LockInvariant, NEW c \in Call, Shared(c)
  PROVE  LockInvariant'
  <1>1. Issued = Before(c) /\ Frontier(Issued) \in Promises /\ LastExclusive(Issued) \in Promises
    BY DEF Shared, SharedFirst, SharedAfterExclusive, SharedAgain, Follow, Before,
           Frontier, LastExclusive, Issued, Promises
  <1>2. /\ Follow(c, "shared", LastExclusive(Issued))
        /\ exclusive' = {c} \cup {d \in Frontier(Issued) : kind[d] = "shared"}
        /\ shared' = LastExclusive(Issued)
    <2>1. CASE SharedFirst(c)
      <3>1. Issued = {}
        BY <1>1, <2>1 DEF SharedFirst, LockInvariant, LockMatchesCalls
      <3>2. Frontier(Issued) = {} /\ LastExclusive(Issued) = {}
        BY <3>1 DEF Frontier, LastExclusive
      <3>3. QED
        BY <2>1, <3>2 DEF SharedFirst
    <2>2. CASE SharedAfterExclusive(c)
      <3>1. Issued # {} /\ exclusive = Frontier(Issued)
        BY <2>2 DEF SharedAfterExclusive, LockInvariant, LockMatchesCalls
      <3>2. Frontier(Issued) = LastExclusive(Issued)
              /\ \A d \in Frontier(Issued) : kind[d] = "exclusive"
        BY <2>2, <3>1, NewestExclusive DEF SharedAfterExclusive
      <3>3. QED
        BY <2>2, <3>1, <3>2 DEF SharedAfterExclusive
    <2>3. CASE SharedAgain(c)
      <3>1. exclusive = Frontier(Issued)
              /\ shared = LastExclusive(Issued) /\ \E x \in Frontier(Issued) : kind[x] = "shared"
        BY <2>3 DEF SharedAgain, LockInvariant, LockMatchesCalls
      <3>2. \A d \in Frontier(Issued) : kind[d] = "shared"
        BY <3>1 DEF LockInvariant, TypeOK, Frontier, Issued
      <3>3. QED
        BY <2>3, <3>1, <3>2 DEF SharedAgain
    <2>4. QED
      BY <2>1, <2>2, <2>3 DEF Shared
  <1>3. /\ kind' \in [Call -> {"none", "shared", "exclusive"}]
        /\ phase' \in [Call -> {"waiting", "running"} \cup Outcome]
        /\ waits' \in [Call -> Promises]
        /\ Issued' = Issued \cup {c}
        /\ CallsInOrder' /\ WaitsMatchCalls' /\ NoOvertaking'
    BY <1>1, <1>2, FollowKeepsQueue
  <1>4. kind' = [kind EXCEPT ![c] = "shared"]
    BY <1>2 DEF Follow
  <1>5. /\ LastExclusive(Issued)' = LastExclusive(Issued)
        /\ Frontier(Issued)' = {c} \cup {d \in Frontier(Issued) : kind[d] = "shared"}
    BY <1>1, <1>3, <1>4, FrontierGrows
  <1>6. LockMatchesCalls'
    <2>1. Issued' # {} /\ c \in Frontier(Issued)' /\ kind'[c] = "shared"
      BY <1>3, <1>4, <1>5 DEF LockInvariant, TypeOK
    <2>2. QED
      BY <1>2, <1>5, <2>1 DEF LockMatchesCalls
  <1>7. TypeOK'
    <2>1. exclusive' \in Promises /\ shared' \in Promises
      BY <1>1, <1>2 DEF Promises
    <2>2. QED
      BY <1>3, <2>1 DEF TypeOK, Outcome, Promises
  <1>8. QED
    BY <1>3, <1>6, <1>7 DEF LockInvariant

LEMMA ExclusiveStep ==
  ASSUME LockInvariant, NEW c \in Call, Exclusive(c)
  PROVE  LockInvariant'
  <1>1. Issued = Before(c) /\ Frontier(Issued) \in Promises
    BY DEF Exclusive, Follow, Before, Frontier, Issued, Promises
  <1>2. Follow(c, "exclusive", Frontier(Issued))
    <2>1. (IF exclusive = None THEN {} ELSE exclusive) = Frontier(Issued)
      <3>1. CASE Issued = {}
        BY <3>1 DEF LockInvariant, LockMatchesCalls, Frontier
      <3>2. CASE Issued # {}
        BY <1>1, <3>2 DEF LockInvariant, LockMatchesCalls
      <3>3. QED
        BY <3>1, <3>2
    <2>2. QED
      BY <2>1 DEF Exclusive
  <1>3. /\ kind' \in [Call -> {"none", "shared", "exclusive"}]
        /\ phase' \in [Call -> {"waiting", "running"} \cup Outcome]
        /\ waits' \in [Call -> Promises]
        /\ Issued' = Issued \cup {c}
        /\ CallsInOrder' /\ WaitsMatchCalls' /\ NoOvertaking'
    BY <1>1, <1>2, FollowKeepsQueue
  <1>4. kind' = [kind EXCEPT ![c] = "exclusive"]
    BY <1>2 DEF Follow
  <1>5. Frontier(Issued)' = {c}
    BY <1>1, <1>3, <1>4, FrontierGrows
  <1>6. exclusive' = {c} /\ shared' = None
    BY DEF Exclusive
  <1>7. LockMatchesCalls'
    <2>1. Issued' # {} /\ kind'[c] = "exclusive"
      BY <1>3, <1>4 DEF LockInvariant, TypeOK
    <2>2. QED
      BY <1>5, <1>6, <2>1 DEF LockMatchesCalls
  <1>8. TypeOK'
    <2>1. exclusive' \in Promises
      BY <1>6 DEF Promises
    <2>2. QED
      BY <1>3, <1>6, <2>1 DEF TypeOK, Outcome, Promises
  <1>9. QED
    BY <1>3, <1>7, <1>8 DEF LockInvariant

\* Steps of the callbacks leave the calls and the lock alone.
LEMMA SameQueue ==
  ASSUME LockInvariant, UNCHANGED <<kind, waits, exclusive, shared>>,
         phase' \in [Call -> {"waiting", "running"} \cup Outcome],
         \A d \in Call : phase'[d] # phase[d] => d \in Issued, NoOvertaking'
  PROVE  LockInvariant'
  <1>1. TypeOK'
    BY DEF LockInvariant, TypeOK, Outcome, Promises
  <1>2. LockMatchesCalls'
    BY DEF LockInvariant, LockMatchesCalls, Frontier, LastExclusive, Issued
  <1>3. CallsInOrder'
    BY DEF LockInvariant, CallsInOrder, Issued, Before
  <1>4. WaitsMatchCalls'
    BY DEF LockInvariant, WaitsMatchCalls, Frontier, LastExclusive, Issued, Before
  <1>5. QED
    BY <1>1, <1>2, <1>3, <1>4 DEF LockInvariant

LEMMA InvokeStep ==
  ASSUME LockInvariant, NEW c \in Call, Invoke(c)
  PROVE  LockInvariant'
  <1>1. MayRun(c)
    BY SettledMayRun DEF Invoke
  <1>2. /\ phase \in [Call -> {"waiting", "running"} \cup Outcome]
        /\ phase' = [phase EXCEPT ![c] = "running"] /\ phase[c] = "waiting"
        /\ UNCHANGED <<kind, waits, exclusive, shared>> /\ c \in Issued
    BY DEF Invoke, LockInvariant, TypeOK
  <1>3. NoOvertaking'
    <2>1. ASSUME NEW d \in Call, phase'[d] # "waiting" PROVE MayRun(d)'
      <3>1. MayRun(d)
        BY <1>1, <1>2, <2>1 DEF LockInvariant, NoOvertaking
      <3>2. \A e \in Before(d) : e # c => phase'[e] = phase[e]
        BY <1>2 DEF Before
      <3>3. c \notin Before(d)
        BY <1>2, <3>1 DEF MayRun
      <3>4. QED
        BY <1>2, <3>1, <3>2, <3>3 DEF MayRun, Before
    <2>2. QED
      BY <2>1 DEF NoOvertaking
  <1>4. QED
    BY <1>2, <1>3, SameQueue

LEMMA CompleteStep ==
  ASSUME LockInvariant, NEW c \in Call, Complete(c)
  PROVE  LockInvariant'
  <1>1. PICK how \in Outcome : phase' = [phase EXCEPT ![c] = how]
    BY DEF Complete
  <1>2. /\ phase \in [Call -> {"waiting", "running"} \cup Outcome] /\ phase[c] = "running"
        /\ UNCHANGED <<kind, waits, exclusive, shared>> /\ c \in Issued
    BY DEF Complete, LockInvariant, TypeOK, CallsInOrder
  <1>3. NoOvertaking'
    <2>1. ASSUME NEW d \in Call, phase'[d] # "waiting" PROVE MayRun(d)'
      <3>1. MayRun(d)
        BY <1>1, <1>2, <2>1 DEF LockInvariant, NoOvertaking
      <3>2. \A e \in Before(d) : phase'[e] = phase[e] \/ phase'[e] \in Outcome
        BY <1>1, <1>2 DEF Before
      <3>3. QED
        BY <1>2, <3>1, <3>2 DEF MayRun, Before, Outcome
    <2>2. QED
      BY <2>1 DEF NoOvertaking
  <1>4. phase' \in [Call -> {"waiting", "running"} \cup Outcome]
    BY <1>1, <1>2
  <1>5. QED
    BY <1>1, <1>2, <1>3, <1>4, SameQueue

LEMMA NextPreserves == LockInvariant /\ [Next]_vars => LockInvariant'
  <1> SUFFICES ASSUME LockInvariant, [Next]_vars PROVE LockInvariant'
    OBVIOUS
  <1>1. ASSUME NEW c \in Call, Shared(c) PROVE LockInvariant'
    BY <1>1, SharedStep
  <1>2. ASSUME NEW c \in Call, Exclusive(c) PROVE LockInvariant'
    BY <1>2, ExclusiveStep
  <1>3. ASSUME NEW c \in Call, Invoke(c) PROVE LockInvariant'
    BY <1>3, InvokeStep
  <1>4. ASSUME NEW c \in Call, Complete(c) PROVE LockInvariant'
    BY <1>4, CompleteStep
  <1>5. CASE UNCHANGED vars
    <2>1. NoOvertaking'
      BY <1>5 DEF vars, LockInvariant, NoOvertaking, MayRun, Before
    <2>2. QED
      BY <1>5, <2>1, SameQueue DEF vars, LockInvariant, TypeOK
  <1>6. QED
    BY <1>1, <1>2, <1>3, <1>4, <1>5 DEF Next

\* For any number of calls, in any mixture and however their callbacks settle,
\* the two promises of the lock stand for what the next call must follow, and
\* no callback has overtaken a conflicting one (lock.js:31-90).
THEOREM LockIsConsistent == Spec => []LockInvariant
  BY InitEstablishes, NextPreserves, PTL DEF Spec

\* An exclusive callback runs alone (lock.js:13-14, 59-61).
THEOREM MutualExclusion == Spec => []ExclusiveAlone
  <1>1. LockInvariant => ExclusiveAlone
    <2> SUFFICES ASSUME LockInvariant, NEW c \in Call, NEW d \in Call, c < d,
                        phase[c] = "running", phase[d] = "running"
                 PROVE  kind[c] = "shared" /\ kind[d] = "shared"
      BY DEF ExclusiveAlone
    <2>1. MayRun(d) /\ c \in Before(d) /\ c \in Issued /\ d \in Issued
      BY DEF LockInvariant, NoOvertaking, CallsInOrder, Before
    <2>2. "exclusive" \notin {kind[c], kind[d]}
      BY <2>1 DEF MayRun, Outcome
    <2>3. QED
      BY <2>1, <2>2 DEF LockInvariant, TypeOK, Issued
  <1>2. QED
    BY <1>1, LockIsConsistent, PTL

\* Every step of the promises is a step of the fair lock, or none: the calls
\* are queued as the comments of lock.js promise (lock.js:13-16, 58-62).
THEOREM Refinement == Spec => ImplementsFairLock
  <1>1. Init => Fair!Init
    BY DEF Init, Fair!Init, Fair!Call
  <1>2. LockInvariant /\ [Next]_vars => [Fair!Next]_<<kind, phase>>
    <2> SUFFICES ASSUME LockInvariant, [Next]_vars PROVE [Fair!Next]_<<kind, phase>>
      OBVIOUS
    <2> USE DEF Fair!Call, Fair!Next
    <2>1. ASSUME NEW c \in Call, NEW k \in {"shared", "exclusive"}, NEW promise,
                 Follow(c, k, promise)
          PROVE  Fair!Next
      <3>1. Fair!Request(c, k)
        BY <2>1 DEF Follow, Fair!Request, Issued
      <3>2. QED
        BY <3>1
    <2>2. ASSUME NEW c \in Call, Shared(c) PROVE Fair!Next
      BY <2>1, <2>2 DEF Shared, SharedFirst, SharedAfterExclusive, SharedAgain
    <2>3. ASSUME NEW c \in Call, Exclusive(c) PROVE Fair!Next
      BY <2>1, <2>3 DEF Exclusive
    <2>4. ASSUME NEW c \in Call, Invoke(c) PROVE Fair!Next
      <3>1. MayRun(c)
        BY <2>4, SettledMayRun DEF Invoke
      <3>2. Fair!MayStart(c)
        BY <3>1 DEF MayRun, Before, Fair!MayStart, Fair!Completed, Fair!Outcome, Outcome
      <3>3. Fair!Start(c)
        BY <2>4, <3>2 DEF Invoke, Fair!Start, Issued
      <3>4. QED
        BY <3>3
    <2>5. ASSUME NEW c \in Call, Complete(c) PROVE Fair!Next
      <3>1. PICK how \in Outcome : phase' = [phase EXCEPT ![c] = how]
        BY <2>5 DEF Complete
      <3>2. Fair!Settle(c, how) /\ how \in Fair!Outcome
        BY <2>5, <3>1 DEF Complete, Fair!Settle, Fair!Outcome, Outcome
      <3>3. QED
        BY <3>2
    <2>6. CASE UNCHANGED vars
      BY <2>6 DEF vars
    <2>7. QED
      BY <2>2, <2>3, <2>4, <2>5, <2>6 DEF Next
  <1>3. QED
    BY <1>1, <1>2, LockIsConsistent, PTL DEF Spec, ImplementsFairLock, Fair!Spec
=============================================================================
