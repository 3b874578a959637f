-------------------------- MODULE MembershipProofs --------------------------
(***************************************************************************)
(* Changes of the membership are safe when no log loses a configuration    *)
(* that its peer goes on using: for any number of peers, of changes one    *)
(* after another, of terms, entries and restarts, and whatever sets of     *)
(* peers the changes ask for, terms have one leader and peers commit the   *)
(* same entries.                                                           *)
(***************************************************************************)
EXTENDS Membership, FiniteSetTheorems, SequenceTheorems, WellFoundedInduction, TLAPS

-----------------------------------------------------------------------------
(* Types. *)

Config == [old : SUBSET Peer, new : SUBSET Peer, id : Nat]
Item == [term : Nat, config : Config \union {None}]
Pending == [step : {"file", "log"}, term : Nat]
Taking == [step : {"entries"}, log : Seq(Item), commit : Nat]

TypeOK ==
  /\ up \in [Peer -> BOOLEAN] /\ leads \in [Peer -> BOOLEAN]
  /\ term \in [Peer -> Nat] /\ log \in [Peer -> Seq(Item)] /\ commit \in [Peer -> Nat]
  /\ config \in [Peer -> Config] /\ index \in [Peer -> Nat]
  /\ disk \in [Peer -> [config : Config, index : Nat]]
  /\ task \in [Peer -> {None} \union Pending \union Taking]
  /\ changes \in Nat /\ restarts \in Nat

-----------------------------------------------------------------------------
(* The logs. *)

Writes(p) == Paused(p) /\ task[p].step # "entries"
Takes(p) == Paused(p) /\ task[p].step = "entries"

\* The log of a peer when it has the entries it has received,
own == [p \in Peer |-> IF Takes(p) THEN task[p].log ELSE log[p]]
\* and when it has the configuration it is about to write.
full == [p \in Peer |-> IF Writes(p) THEN Append(log[p], Entry(task[p].term, config[p])) ELSE own[p]]

AgreeTo(l, m, i) == i <= Len(l) /\ i <= Len(m) /\ \A k \in 1..i : l[k] = m[k]
Below(l, t) == \A i \in 1..Len(l) : l[i].term <= t
Matches(l, m) ==
  \A j \in 1..Len(l), k \in 1..Len(m) : l[j].term = m[k].term /\ k <= j => AgreeTo(l, m, k)
HasTerm(l, m, t) == \A k \in 1..Len(m) : m[k].term = t => AgreeTo(m, l, k)
Sorted(l) == \A i, j \in 1..Len(l) : i <= j => l[i].term <= l[j].term

\* L: the logs that peers have, or had when they committed an entry.
All(L) == L \union {full[p] : p \in Peer}

LogInv(L) ==
  /\ L \subseteq Seq(Item) /\ \A p \in Peer : log[p] \in L /\ own[p] \in L
  /\ \A p, q \in Peer : leads[p] /\ leads[q] /\ term[p] = term[q] => p = q
  /\ \A p \in Peer : Below(log[p], term[p]) /\ Below(full[p], term[p])
  /\ \A l \in All(L) : Sorted(l) /\ \A m \in All(L) : Matches(l, m)
  /\ \A p \in Peer : leads[p] => \A m \in All(L) : HasTerm(full[p], m, term[p])

-----------------------------------------------------------------------------
(* The configuration of each peer. *)

LastConfig(l, f) ==
  \/ f = First /\ \A j \in 1..Len(l) : l[j].config = None
  \/ \E j \in 1..Len(l) : l[j].config = f /\ \A k \in j + 1..Len(l) : l[k].config = None

\* A peer may use a configuration that it is writing, or will have when its log is written.
Uses(p, f) == f = config[p] \/ LastConfig(own[p], f)

At(l, i, f) == i # 0 => i \in 1..Len(l) /\ l[i].config = f

SelfInv(p) ==
  /\ (leads[p] \/ Paused(p)) => up[p]
  /\ up[p] /\ ~Writes(p) => LastConfig(own[p], config[p])
  /\ Writes(p) => index[p] = 0 /\ config[p].id # 0 /\ (task[p].step = "log" => disk[p].index = 0)
  /\ IF Paused(p) /\ task[p].step = "file" THEN LastConfig(log[p], disk[p].config)
     ELSE disk[p].config = config[p]
  /\ up[p] => At(own[p], index[p], config[p]) /\ At(own[p], disk[p].index, disk[p].config)
  /\ Takes(p) => ~leads[p] /\ HasTerm(own[p], log[p], term[p])
LocalInv == \A p \in Peer : SelfInv(p)

HasConfig(l, f) == \E k \in 1..Len(l) : l[k].config = f

FreshInv(L) ==
  /\ \A p \in Peer : Writes(p) =>
       /\ \A l \in L : ~HasConfig(l, config[p])
       /\ \A q \in Peer : Writes(q) /\ config[q] = config[p] => q = p
  /\ \A p \in Peer : config[p].id <= changes
  /\ \A l \in L : \A i \in 1..Len(l) : l[i].config # None =>
       /\ l[i].config.id <= changes
       /\ \A j \in 1..Len(l) : l[i].config = l[j].config => i = j

-----------------------------------------------------------------------------
(* X: what has been committed, each entry with the log it was in.  U: the  *)
(* terms that have had a leader.                                           *)

In(x, l) == AgreeTo(l, x.log, x.at)
TermOf(x) == x.log[x.at].term

\* Part of the majorities that f asks for
HalfOf(f, Q) == Majority(Q, f.old) \/ (IsTransitional(f) /\ Majority(Q, f.new))

Holders(x) == {q \in Peer : In(x, log[q])}
Reached(u) == {q \in Peer : term[q] >= u}

\* r leads, or has an entry of a leader, that was elected later.
Follows(r, t) ==
  \/ leads[r] /\ term[r] >= t
  \/ \E j \in 1..Len(full[r]) : full[r][j].term > t

\* With configuration f, r cannot be elected, for it lacks x,
Barred(X, r, f) == \E x \in X : ~In(x, own[r]) /\ HalfOf(f, Holders(x))
\* or lacks nothing and cannot be elected in a term that has a leader.
Able(X, U, r, f) ==
  /\ \A x \in X : In(x, own[r])
  /\ \A u \in U : HalfOf(f, Reached(u))

\* Configuration f, and those that follow i in l, begin with the peers of the last
\* change that is known to be committed.
Root(l, i) == IF i = 0 THEN Old ELSE l[i].config.new
RootedAt(X, l, f, i) ==
  /\ i # 0 => /\ l[i].config # None /\ IsTransitional(l[i].config)
              /\ \E x \in X : i <= x.at /\ In(x, l)
  /\ f.old = Root(l, i)
  /\ \A j \in i + 1..Len(l) : l[j].config # None =>
       l[j].config.old = Root(l, i) /\ (IsTransitional(l[j].config) => l[j].config = f)
Rooted(X, l, f) == \E i \in 0..Len(l) : RootedAt(X, l, f, i)

TermsInv(L, U) ==
  /\ U \subseteq Nat
  /\ \A p \in Peer : leads[p] \/ Takes(p) => term[p] \in U
  /\ \A l \in All(L) : \A i \in 1..Len(l) : l[i].term \in U
ChosenInv(L, X) ==
  /\ X \subseteq [log : L, at : Nat]
  /\ \A x \in X :
       /\ x.at \in 1..Len(x.log)
       /\ \A r \in Peer : Follows(r, TermOf(x)) => In(x, own[r])
       /\ \A p \in Peer : In(x, log[p]) => In(x, own[p])
       /\ \A y \in X : x.at <= y.at => In(x, y.log)
VotersInv(X, U) ==
  \A r \in Peer : \A f \in Config :
    Uses(r, f) => Rooted(X, own[r], f) /\ (Barred(X, r, f) \/ Able(X, U, r, f))
Committed(X, l, n) == n = 0 \/ \E x \in X : x.at = n /\ In(x, l)
CommitInv(X) ==
  \A p \in Peer :
    /\ Committed(X, log[p], commit[p])
    /\ Takes(p) => Committed(X, own[p], task[p].commit)

SafeInv(L, X, U) ==
  /\ LogInv(L) /\ FreshInv(L)
  /\ TermsInv(L, U) /\ ChosenInv(L, X) /\ VotersInv(X, U) /\ CommitInv(X)
MembershipInv == TypeOK /\ LocalInv /\ \E L, X, U : SafeInv(L, X, U)

-----------------------------------------------------------------------------
(* Numbers and majorities. *)

Less == {ss \in Nat \X Nat : ss[1] < ss[2]}

LEMMA LeastOf ==
  ASSUME NEW S \in SUBSET Nat, S # {}
  PROVE  \E m \in S : \A k \in S : m <= k
<1>1. IsWellFoundedOn(Less, Nat)
  BY NatLessThanWellFounded, Zenon DEF OpToRel, Less
<1>2. PICK m \in S : \A k \in S : ~ (<<k, m>> \in Less)
  BY <1>1, WFMin
<1>3. \A x, y \in Nat : x < y => <<x, y>> \in Less
  BY DEF Less
<1>4. \A k \in S : ~ (k < m)
  BY <1>2, <1>3
<1>5. \A x, y \in Nat : ~ (x < y) => y <= x
  OBVIOUS
<1> QED  BY <1>4, <1>5

LEMMA MaxIs ==
  ASSUME NEW S \in SUBSET Nat, S # {}, NEW n \in Nat, \A x \in S : x <= n
  PROVE  Max(S) \in S /\ \A x \in S : x <= Max(S)
<1> DEFINE T == {m \in Nat : \A x \in S : x <= m}
<1>1. T \subseteq Nat /\ T # {}
  OBVIOUS
<1>2. PICK m \in T : \A k \in T : m <= k
  <2> HIDE DEF T
  <2> QED  BY <1>1, LeastOf
<1>4. m \in S
  <2> SUFFICES ASSUME m \notin S  PROVE FALSE
    OBVIOUS
  <2>1. \A x \in S : x \in Nat /\ x <= m /\ x # m
    OBVIOUS
  <2>2. m # 0
    <3>1. PICK x \in S : TRUE
      OBVIOUS
    <3> QED  BY <2>1, <3>1
  <2>3. m - 1 \in Nat /\ \A x \in S : x <= m - 1
    BY <2>1, <2>2
  <2>4. m - 1 \in T
    BY <2>3
  <2> QED  BY <1>2, <2>3, <2>4
<1> QED  BY <1>4 DEF Max

LEMMA MinIs ==
  ASSUME NEW S \in SUBSET Nat, S # {}
  PROVE  Min(S) \in S /\ \A x \in S : Min(S) <= x
<1>1. PICK m \in S : \A k \in S : m <= k
  BY LeastOf
<1> QED  BY <1>1 DEF Min

LEMMA MaxOfTwo ==
  ASSUME NEW a \in Nat, NEW b \in Nat
  PROVE  /\ Max({a, b}) = IF a >= b THEN a ELSE b
         /\ Min({a, b}) = IF a >= b THEN b ELSE a
<1>1. {a, b} \in SUBSET Nat /\ {a, b} # {} /\ \A x \in {a, b} : x <= a + b
  OBVIOUS
<1>2. Max({a, b}) \in {a, b} /\ \A x \in {a, b} : x <= Max({a, b})
  BY <1>1, MaxIs
<1>3. Min({a, b}) \in {a, b} /\ \A x \in {a, b} : Min({a, b}) <= x
  BY <1>1, MinIs
<1> QED  BY <1>2, <1>3

\* The terms of a set of peers are bounded.
LEMMA Bounded ==
  ASSUME NEW Q \in SUBSET Peer, NEW f \in [Peer -> Nat]
  PROVE  \E n \in Nat : \A q \in Q : f[q] <= n
<1> DEFINE Free(T) == \A n \in Nat : \E q \in T : ~ (f[q] <= n)
           S == {T \in SUBSET Q : Free(T)}
<1>1. IsFiniteSet(Q) /\ FiniteSubsetsOf(Q) = SUBSET Q
  BY PeerAssumption, FS_Subset, FS_FiniteSubsetsOfFinite
<1> SUFFICES ASSUME S # {}  PROVE FALSE
  OBVIOUS
<1>2. S \subseteq SUBSET Q
  OBVIOUS
<1>3. PICK T \in S : \A U \in S : ~ (<<U, T>> \in StrictSubsetOrdering(Q))
  <2> HIDE DEF S
  <2> QED  BY <1>1, <1>2, WFMin, FS_StrictSubsetOrderingWellFounded
<1>4. PICK q \in T : TRUE
  OBVIOUS
<1>5. ~ Free(T \ {q})
  <2>1. <<T \ {q}, T>> \in StrictSubsetOrdering(Q)
    BY <1>4 DEF StrictSubsetOrdering
  <2> QED  BY <1>3, <2>1
<1>6. PICK n \in Nat : \A r \in T \ {q} : f[r] <= n
  BY <1>5
<1>7. n + f[q] \in Nat /\ \A r \in T : f[r] <= n + f[q]
  BY <1>6
<1> QED  BY <1>7


LEMMA MaxTermIs ==
  ASSUME TypeOK, NEW Q \in SUBSET Peer, Q # {}
  PROVE  /\ 1 + Max({term[q] : q \in Q}) \in Nat
         /\ \A r \in Q : term[r] < 1 + Max({term[q] : q \in Q})
<1>1. term \in [Peer -> Nat]
  BY DEF TypeOK
<1>2. PICK n \in Nat : \A q \in Q : term[q] <= n
  BY <1>1, Bounded
<1> DEFINE S == {term[q] : q \in Q}
<1>3. S \in SUBSET Nat /\ S # {} /\ \A x \in S : x <= n
  BY <1>1, <1>2
<1>4. Max(S) \in S /\ \A x \in S : x <= Max(S)
  <2> HIDE DEF S
  <2> QED  BY <1>3, MaxIs
<1>5. \A r \in Q : term[r] \in S
  OBVIOUS
<1> HIDE DEF S
<1>6. Max(S) \in Nat /\ \A r \in Q : term[r] \in Nat /\ term[r] <= Max(S)
  BY <1>3, <1>4, <1>5
<1>7. 1 + Max(S) \in Nat /\ \A r \in Q : term[r] < 1 + Max(S)
  BY <1>6
<1> QED  BY <1>7 DEF S

LEMMA MajoritiesMeet ==
  ASSUME NEW S \in SUBSET Peer, NEW M, NEW N, Majority(M, S), Majority(N, S)
  PROVE  \E q \in M : q \in N /\ q \in Peer
<1>1. IsFiniteSet(S) /\ M \intersect S \in SUBSET S /\ N \intersect S \in SUBSET S
  BY PeerAssumption, FS_Subset
<1>2. /\ Cardinality(S) \in Nat /\ Cardinality(M \intersect S) \in Nat
      /\ Cardinality(N \intersect S) \in Nat
  BY <1>1, FS_Subset, FS_CardinalityType
<1>3. Cardinality(M \intersect S) + Cardinality(N \intersect S) > Cardinality(S)
  BY <1>2 DEF Majority
<1>4. (M \intersect S) \intersect (N \intersect S) # {}
  BY <1>1, <1>3, FS_MajoritiesIntersect
<1> QED  BY <1>4

LEMMA MajorityGrows ==
  ASSUME NEW S \in SUBSET Peer, NEW M, NEW N, M \intersect Peer \subseteq N, Majority(M, S)
  PROVE  Majority(N, S)
<1>1. /\ IsFiniteSet(S) /\ M \intersect S \in SUBSET S /\ N \intersect S \in SUBSET S
      /\ M \intersect S \subseteq N \intersect S
  BY PeerAssumption, FS_Subset
<1>2. /\ Cardinality(S) \in Nat /\ Cardinality(M \intersect S) \in Nat
      /\ Cardinality(N \intersect S) \in Nat
      /\ Cardinality(M \intersect S) <= Cardinality(N \intersect S)
  BY <1>1, FS_Subset, FS_CardinalityType
<1> QED  BY <1>2 DEF Majority

-----------------------------------------------------------------------------
(* Type correctness. *)

LEMMA ItemOf ==
  ASSUME NEW l \in Seq(Item)
  PROVE  /\ Len(l) \in Nat
         /\ \A i \in 1..Len(l) : /\ l[i] \in Item /\ l[i].term \in Nat
                                 /\ l[i].config \in Config \union {None}
<1>1. Len(l) \in Nat
  BY LenProperties
<1>2. ASSUME NEW i \in 1..Len(l)  PROVE l[i] \in Item
  BY ElementOfSeq
<1>3. \A e \in Item : e.term \in Nat /\ e.config \in Config \union {None}
  BY DEF Item
<1> QED  BY <1>1, <1>2, <1>3

LEMMA Longer ==
  ASSUME NEW l \in Seq(Item), NEW e \in Item
  PROVE  /\ Append(l, e) \in Seq(Item) /\ Len(Append(l, e)) = Len(l) + 1
         /\ \A i \in 1..Len(l) : Append(l, e)[i] = l[i]
         /\ Append(l, e)[Len(l) + 1] = e
  BY AppendProperties

LEMMA NoneIs ==
  /\ None \notin Config /\ None \notin Pending /\ None \notin Taking
  /\ Entry(0, None) \in Item
<1>3. None \notin Config /\ None \notin Pending /\ None \notin Taking
  BY NoneAssumption DEF Item, Config, Pending, Taking
<1>4. Entry(0, None) \in Item
  BY DEF Entry, Item
<1> QED  BY <1>3, <1>4

LEMMA EntryIs ==
  ASSUME NEW t \in Nat, NEW c \in Config \union {None}
  PROVE  Entry(t, c) \in Item /\ Entry(t, c).term = t /\ Entry(t, c).config = c
  BY DEF Entry, Item

\* What a peer does while its router is paused
LEMMA TaskIs ==
  ASSUME TypeOK, NEW p \in Peer
  PROVE  /\ Writes(p) => /\ task[p] \in Pending /\ ~Takes(p) /\ task[p].term \in Nat
                         /\ (task[p].step = "file" \/ task[p].step = "log")
         /\ Takes(p) => /\ task[p] \in Taking /\ ~Writes(p)
                        /\ task[p].log \in Seq(Item) /\ task[p].commit \in Nat
         /\ Paused(p) <=> Writes(p) \/ Takes(p)
<1>1. task[p] \in {None} \union Pending \union Taking
  BY DEF TypeOK
<1>2. \A r \in Pending : r.term \in Nat /\ (r.step = "file" \/ r.step = "log")
  BY DEF Pending
<1>3. \A r \in Taking : r.step = "entries" /\ r.log \in Seq(Item) /\ r.commit \in Nat
  BY DEF Taking
<1> QED  BY <1>1, <1>2, <1>3 DEF Writes, Takes, Paused

LEMMA LogsOf ==
  ASSUME TypeOK, NEW p \in Peer
  PROVE  /\ log[p] \in Seq(Item) /\ own[p] \in Seq(Item) /\ full[p] \in Seq(Item)
         /\ ~Takes(p) => own[p] = log[p]
         /\ Takes(p) => own[p] = task[p].log
         /\ ~Writes(p) => full[p] = own[p]
         /\ Writes(p) => full[p] = Append(log[p], Entry(task[p].term, config[p]))
                         /\ Entry(task[p].term, config[p]) \in Item
<1>1. log[p] \in Seq(Item) /\ config[p] \in Config
  BY DEF TypeOK
<1>2. Writes(p) => /\ task[p].term \in Nat
                   /\ Append(log[p], Entry(task[p].term, config[p])) \in Seq(Item)
                   /\ Entry(task[p].term, config[p]) \in Item
  BY <1>1, TaskIs, EntryIs, Longer
<1> QED  BY <1>1, <1>2, TaskIs DEF own, full

LEMMA ConfigIs ==
  ASSUME NEW f \in Config
  PROVE  /\ f # None /\ f.old \in SUBSET Peer /\ f.new \in SUBSET Peer /\ f.id \in Nat
         /\ \A S \in SUBSET Peer, i \in Nat : Joined(f, S, i) \in Config
         /\ \A i \in Nat : NewOnly(f, i) \in Config
<1>1. f # None
  BY NoneIs
<1> QED  BY <1>1 DEF Config, Joined, NewOnly

LEMMA PrevIs ==
  ASSUME TypeOK, NEW p \in Peer, NEW q \in Peer
  PROVE  /\ Prev(p, q) \in Nat /\ Prev(p, q) <= Len(log[p]) /\ Prev(p, q) <= Len(log[q])
         /\ Prev(p, q) # 0 => log[p][Prev(p, q)] = log[q][Prev(p, q)]
         /\ \A i \in 1..Len(log[p]) :
              i <= Len(log[q]) /\ log[p][i] = log[q][i] => i <= Prev(p, q)
<1>1. Len(log[p]) \in Nat /\ Len(log[q]) \in Nat
  BY LogsOf, ItemOf
<1> DEFINE n == Min({Len(log[p]), Len(log[q])})
           S == {0} \union Agree(p, q)
<1>2. n \in Nat /\ n <= Len(log[p]) /\ n <= Len(log[q])
      /\ \A i \in Nat : i <= Len(log[p]) /\ i <= Len(log[q]) => i <= n
  <2>1. n = IF Len(log[p]) >= Len(log[q]) THEN Len(log[q]) ELSE Len(log[p])
    BY <1>1, MaxOfTwo
  <2> HIDE DEF n
  <2> QED  BY <1>1, <2>1
<1> HIDE DEF n
<1>3. Agree(p, q) = {i \in 1..n : log[p][i] = log[q][i]}
  BY DEF Agree, n
<1>4. S \in SUBSET Nat /\ S # {} /\ \A i \in S : i <= n
  BY <1>2, <1>3
<1>5. Max(S) \in S /\ \A i \in S : i <= Max(S)
  <2> HIDE DEF S
  <2> QED  BY <1>2, <1>4, MaxIs
<1>6. Prev(p, q) = Max(S)
  BY DEF Prev
<1>7. Max(S) # 0 => Max(S) \in Agree(p, q)
  BY <1>5
<1>8. \A i \in 1..Len(log[p]) : i <= Len(log[q]) /\ log[p][i] = log[q][i] => i \in S
  BY <1>1, <1>2, <1>3
<1> HIDE DEF S
<1> QED  BY <1>2, <1>3, <1>4, <1>5, <1>6, <1>7, <1>8

LEMMA ConfigsAfterIs ==
  ASSUME NEW l \in Seq(Item), NEW n \in Nat
  PROVE  /\ ConfigsAfter(l, n) \subseteq 1..Len(l)
         /\ \A j \in ConfigsAfter(l, n) : j > n /\ l[j].config \in Config
         /\ \A j \in 1..Len(l) : j > n /\ j \notin ConfigsAfter(l, n) => l[j].config = None
         /\ ConfigsAfter(l, n) # {} =>
              /\ Max(ConfigsAfter(l, n)) \in ConfigsAfter(l, n)
              /\ Max({0} \union ConfigsAfter(l, n)) = Max(ConfigsAfter(l, n))
              /\ \A k \in Max(ConfigsAfter(l, n)) + 1..Len(l) : l[k].config = None
<1> DEFINE S == ConfigsAfter(l, n)
           T == {0} \union S
<1>1. Len(l) \in Nat /\ \A j \in 1..Len(l) : l[j].config \in Config \union {None}
  BY ItemOf
<1>2. /\ S \subseteq 1..Len(l)
      /\ \A j \in S : j > n /\ l[j].config # None
      /\ \A j \in 1..Len(l) : j > n /\ j \notin S => l[j].config = None
  BY <1>1 DEF ConfigsAfter
<1>3. ASSUME S # {}
      PROVE  /\ Max(S) \in S /\ Max(T) = Max(S)
             /\ \A k \in Max(S) + 1..Len(l) : l[k].config = None
  <2> HIDE DEF S
  <2>1. S \in SUBSET Nat /\ T \in SUBSET Nat /\ T # {} /\ \A j \in T : j <= Len(l)
    BY <1>1, <1>2
  <2>2. Max(S) \in S /\ \A j \in S : j <= Max(S)
    BY <1>1, <1>3, <2>1, MaxIs
  <2>3. Max(T) \in T /\ \A j \in T : j <= Max(T)
    <3> HIDE DEF T
    <3> QED  BY <1>1, <2>1, MaxIs
  <2>4. Max(T) = Max(S)
    <3>1. Max(S) <= Max(T) /\ Max(S) >= 1 /\ Max(S) \in Nat /\ Max(T) \in Nat
      <4>1. Max(S) \in T /\ Max(S) \in 1..Len(l)
        BY <1>2, <2>2
      <4> HIDE DEF T
      <4>2. Max(T) \in Nat
        BY <2>1, <2>3
      <4>3. Max(S) <= Max(T)
        BY <2>3, <4>1
      <4>4. Max(S) \in Nat /\ Max(S) >= 1
        BY <1>1, <4>1
      <4> QED  BY <4>2, <4>3, <4>4
    <3>2. Max(T) \in S
      BY <2>3, <3>1
    <3> QED  BY <2>2, <3>1, <3>2
  <2>5. ASSUME NEW k \in Max(S) + 1..Len(l)  PROVE l[k].config = None
    <3>1. Max(S) \in Nat /\ Max(S) > n
      BY <1>2, <2>1, <2>2
    <3>2. k \in 1..Len(l) /\ k > n /\ ~ (k <= Max(S))
      BY <1>1, <3>1
    <3> QED  BY <1>2, <2>2, <3>2
  <2> QED  BY <2>2, <2>4, <2>5
<1> QED  BY <1>1, <1>2, <1>3

LEMMA EntriesIs ==
  ASSUME TypeOK, NEW p \in Peer
  PROVE  /\ Entries(p) \in Taking /\ Entries(p).step = "entries" /\ Entries(p).log = log[p]
         /\ Entries(p).commit \in {commit[p], Len(log[p])} \intersect Nat
         /\ Entries(p).commit <= commit[p]
         /\ commit[p] <= Len(log[p]) => Entries(p).commit = commit[p]
<1>1. commit[p] \in Nat /\ Len(log[p]) \in Nat /\ log[p] \in Seq(Item)
  BY LogsOf, ItemOf DEF TypeOK
<1>2. Min({commit[p], Len(log[p])}) = IF commit[p] >= Len(log[p]) THEN Len(log[p]) ELSE commit[p]
  BY <1>1, MaxOfTwo
<1>3. Entries(p).commit = Min({commit[p], Len(log[p])})
  BY DEF Entries
<1>4. /\ Entries(p).commit \in {commit[p], Len(log[p])} \intersect Nat
      /\ Entries(p).commit <= commit[p]
      /\ commit[p] <= Len(log[p]) => Entries(p).commit = commit[p]
  BY <1>1, <1>2, <1>3
<1>5. Entries(p).step = "entries" /\ Entries(p).log = log[p]
  BY DEF Entries
<1>6. Min({commit[p], Len(log[p])}) \in Nat
  BY <1>1, <1>2
<1>7. Entries(p) \in Taking
  BY <1>1, <1>6 DEF Entries, Taking
<1> QED  BY <1>4, <1>5, <1>7

\* The configuration that entries bring is the last in the log of their sender.
LEMMA NewConfigIs ==
  ASSUME TypeOK, NEW p \in Peer, NEW q \in Peer, AppendConfigEntries(p, q)
  PROVE  \E j \in 1..Len(log[p]) :
           /\ j > Prev(p, q) /\ log[p][j].config \in Config
           /\ \A k \in j + 1..Len(log[p]) : log[p][k].config = None
           /\ config' = [config EXCEPT ![q] = log[p][j].config]
           /\ index' = [index EXCEPT ![q] = j]
           /\ disk' = [disk EXCEPT ![q] = [config |-> log[p][j].config, index |-> j]]
           /\ task' = [task EXCEPT ![q] = Entries(p)]
           /\ Entries(p).log = log[p]
           /\ Hears(q, p) /\ UNCHANGED <<up, log, commit, history>>
<1> DEFINE S == ConfigsAfter(log[p], Prev(p, q))
           j == Max(S)
<1>1. log[p] \in Seq(Item) /\ Prev(p, q) \in Nat /\ Prev(p, q) <= Len(log[p]) /\ Len(log[p]) \in Nat
  BY LogsOf, ItemOf, PrevIs
<1>2. S # {} /\ NewIndex(p, q) = Max(S)
  BY DEF AppendConfigEntries, NewIndex
<1>3. /\ S \subseteq 1..Len(log[p])
      /\ \A i \in S : i > Prev(p, q) /\ log[p][i].config \in Config
      /\ j \in S /\ Max({0} \union S) = j
      /\ \A k \in j + 1..Len(log[p]) : log[p][k].config = None
  BY <1>1, <1>2, ConfigsAfterIs
<1>4. Entries(p).log = log[p]
  BY EntriesIs
<1>5. /\ config' = [config EXCEPT ![q] = log[p][j].config]
      /\ index' = [index EXCEPT ![q] = j]
      /\ disk' = [disk EXCEPT ![q] = [config |-> log[p][j].config, index |-> j]]
      /\ task' = [task EXCEPT ![q] = Entries(p)]
      /\ Hears(q, p) /\ UNCHANGED <<up, log, commit, history>>
  BY <1>2, <1>3 DEF AppendConfigEntries
<1>6. j \in 1..Len(log[p]) /\ j > Prev(p, q) /\ log[p][j].config \in Config
  BY <1>3
<1> HIDE DEF j, S
<1> QED  BY <1>3, <1>4, <1>5, <1>6

LEMMA InitType == Init => TypeOK
<1>1. First \in Config
  BY ClusterAssumption DEF First, Config
<1>2. <<>> \in Seq(Item)
  OBVIOUS
<1> QED  BY <1>1, <1>2 DEF Init, TypeOK

LEMMA BeginType ==
  ASSUME TypeOK, NEW p \in Peer, NEW c \in Config, BeginConfig(p, c)
  PROVE  /\ config' \in [Peer -> Config] /\ index' \in [Peer -> Nat]
         /\ task' \in [Peer -> {None} \union Pending \union Taking] /\ changes' \in Nat
<1>1. /\ config \in [Peer -> Config] /\ index \in [Peer -> Nat] /\ term[p] \in Nat
      /\ task \in [Peer -> {None} \union Pending \union Taking]
  BY DEF TypeOK
<1>2. [step |-> "file", term |-> term[p]] \in Pending
  BY <1>1 DEF Pending
<1>3. c.id \in Nat
  BY ConfigIs
<1> QED  BY <1>1, <1>2, <1>3 DEF BeginConfig

LEMMA ElectType ==
  ASSUME TypeOK, NEW p \in Peer, NEW Q \in SUBSET Peer, Elect(p, Q)
  PROVE  TypeOK'
<1> DEFINE t == 1 + Max({term[q] : q \in Q})
<1>1. p \in Q
  BY DEF Elect
<1>2. t \in Nat
  BY <1>1, MaxTermIs
<1> HIDE DEF t
<1>3. /\ term' = [q \in Peer |-> IF q \in Q THEN t ELSE term[q]]
      /\ leads' = [q \in Peer |-> IF q \in Q THEN q = p ELSE leads[q]]
      /\ log' = log \/ log' = [log EXCEPT ![p] = Append(@, Entry(t, None))]
      /\ UNCHANGED <<up, commit, config, index, disk, task, history>>
  BY DEF Elect, t
<1>4. log[p] \in Seq(Item) /\ log \in [Peer -> Seq(Item)] /\ term \in [Peer -> Nat] /\ leads \in [Peer -> BOOLEAN]
  BY DEF TypeOK
<1>5. Append(log[p], Entry(t, None)) \in Seq(Item)
  BY <1>2, <1>4, EntryIs, Longer
<1>6. log' \in [Peer -> Seq(Item)]
  BY <1>3, <1>4, <1>5
<1>7. term' \in [Peer -> Nat] /\ leads' \in [Peer -> BOOLEAN]
  BY <1>2, <1>3, <1>4
<1> QED  BY <1>3, <1>6, <1>7 DEF TypeOK, history

LEMMA SmallType ==
  ASSUME TypeOK, NEW p \in Peer, NEW q \in Peer,
         StepDown(p, q) \/ Update(p) \/ ConfigStored(p) \/ ConfigAppended(p)
  PROVE  TypeOK'
<1>1. /\ log[p] \in Seq(Item) /\ log \in [Peer -> Seq(Item)] /\ term \in [Peer -> Nat]
      /\ config[p] \in Config
      /\ task \in [Peer -> {None} \union Pending \union Taking]
      /\ disk \in [Peer -> [config : Config, index : Nat]]
  BY DEF TypeOK
<1>2. CASE StepDown(p, q)
  BY <1>2 DEF StepDown, TypeOK, history
<1>3. CASE Update(p)
  <2>1. Append(log[p], Entry(term[p], None)) \in Seq(Item)
    BY <1>1, EntryIs, Longer
  <2> QED  BY <1>1, <1>3, <2>1 DEF Update, TypeOK, memory, history
<1>4. CASE ConfigStored(p)
  <2>1. task[p] \in Pending
    BY <1>4, TaskIs DEF ConfigStored, Writes
  <2>2. [task[p] EXCEPT !.step = "log"] \in Pending
    BY <2>1 DEF Pending
  <2>3. [config |-> config[p], index |-> 0] \in [config : Config, index : Nat]
    BY <1>1
  <2>4. task' = [task EXCEPT ![p] = [task[p] EXCEPT !.step = "log"]]
    BY <1>4 DEF ConfigStored
  <2>5. task' \in [Peer -> {None} \union Pending \union Taking]
    BY <1>1, <2>2, <2>4
  <2>6. disk' \in [Peer -> [config : Config, index : Nat]]
    BY <1>1, <1>4, <2>3 DEF ConfigStored
  <2> QED  BY <1>4, <2>5, <2>6 DEF ConfigStored, TypeOK, history
<1>5. CASE ConfigAppended(p)
  <2>1. task[p].term \in Nat
    BY <1>5, TaskIs DEF ConfigAppended, Writes
  <2> DEFINE m == Append(log[p], Entry(task[p].term, config[p]))
  <2>2. m \in Seq(Item) /\ Len(m) \in Nat
    BY <1>1, <2>1, EntryIs, Longer, ItemOf
  <2>3. log' = [log EXCEPT ![p] = m]
    BY <1>5 DEF ConfigAppended
  <2> HIDE DEF m
  <2>4. log' \in [Peer -> Seq(Item)] /\ log'[p] = m
    BY <1>1, <2>2, <2>3
  <2>5. index' = [index EXCEPT ![p] = Len(m)]
    BY <1>5, <2>4 DEF ConfigAppended
  <2>6. index' \in [Peer -> Nat] /\ index'[p] \in Nat
    BY <2>2, <2>5 DEF TypeOK
  <2>7. disk' \in [Peer -> [config : Config, index : Nat]]
    <3>1. disk' = disk \/ disk' = [disk EXCEPT ![p] = [disk[p] EXCEPT !.index = index'[p]]]
      BY <1>5 DEF ConfigAppended
    <3>2. [disk[p] EXCEPT !.index = index'[p]] \in [config : Config, index : Nat]
      BY <1>1, <2>6
    <3> QED  BY <1>1, <3>1, <3>2
  <2>8. task' \in [Peer -> {None} \union Pending \union Taking]
    BY <1>1, <1>5 DEF ConfigAppended
  <2> QED  BY <1>5, <2>4, <2>6, <2>7, <2>8 DEF ConfigAppended, TypeOK, history
<1> QED  BY <1>2, <1>3, <1>4, <1>5

LEMMA ConfigType ==
  ASSUME TypeOK, NEW p \in Peer,
         (\E S \in Targets : ConfigUpdate(p, S)) \/ \E i \in 1..Len(log[p]) : Commit(p, i)
  PROVE  TypeOK'
<1>1. config[p] \in Config /\ changes + 1 \in Nat
  BY DEF TypeOK
<1>2. ASSUME NEW S \in Targets, ConfigUpdate(p, S)  PROVE TypeOK'
  <2>1. Joined(config[p], S, changes + 1) \in Config
    BY <1>1, ConfigIs, ClusterAssumption
  <2>2. BeginConfig(p, Joined(config[p], S, changes + 1))
    BY <1>2 DEF ConfigUpdate
  <2>3. /\ config' \in [Peer -> Config] /\ index' \in [Peer -> Nat]
        /\ task' \in [Peer -> {None} \union Pending \union Taking] /\ changes' \in Nat
    BY <2>1, <2>2, BeginType
  <2> QED  BY <1>2, <2>3 DEF ConfigUpdate, TypeOK
<1>3. ASSUME NEW i \in 1..Len(log[p]), Commit(p, i)  PROVE TypeOK'
  <2>1. NewOnly(config[p], changes + 1) \in Config
    BY <1>1, ConfigIs
  <2>2. BeginConfig(p, NewOnly(config[p], changes + 1)) \/ UNCHANGED <<config, index, task, changes>>
    BY <1>3 DEF Commit
  <2>3. /\ config' \in [Peer -> Config] /\ index' \in [Peer -> Nat]
        /\ task' \in [Peer -> {None} \union Pending \union Taking] /\ changes' \in Nat
    BY <2>1, <2>2, BeginType DEF TypeOK
  <2>4. leads' \in [Peer -> BOOLEAN]
    BY <1>3 DEF Commit, TypeOK, Knows
  <2>5. commit' \in [Peer -> Nat]
    <3>1. i \in Nat
      OBVIOUS
    <3> QED  BY <1>3, <3>1 DEF Commit, TypeOK
  <2> QED  BY <1>3, <2>3, <2>4, <2>5 DEF Commit, TypeOK
<1> QED  BY <1>2, <1>3

LEMMA AppendedType ==
  ASSUME TypeOK, NEW q \in Peer, NEW t \in Taking, Appended(q, t)
  PROVE  /\ log' \in [Peer -> Seq(Item)] /\ commit' \in [Peer -> Nat]
         /\ log'[q] = t.log /\ commit'[q] \in {commit[q], t.commit}
         /\ \A r \in Peer \ {q} : log'[r] = log[r] /\ commit'[r] = commit[r]
<1>1. log \in [Peer -> Seq(Item)] /\ commit \in [Peer -> Nat] /\ commit[q] \in Nat
  BY DEF TypeOK
<1>2. t.log \in Seq(Item) /\ t.commit \in Nat
  BY DEF Taking
<1>3. Max({commit[q], t.commit}) \in {commit[q], t.commit}
  BY <1>1, <1>2, MaxOfTwo
<1>4. log' = [log EXCEPT ![q] = t.log] /\ commit' = [commit EXCEPT ![q] = Max({commit[q], t.commit})]
  BY DEF Appended
<1>5. Max({commit[q], t.commit}) \in Nat
  BY <1>1, <1>2, <1>3
<1> QED  BY <1>1, <1>2, <1>3, <1>4, <1>5

LEMMA HearsGives ==
  ASSUME TypeOK, NEW p \in Peer, NEW q \in Peer, Hears(q, p)
  PROVE  /\ term' = [term EXCEPT ![q] = term[p]] /\ leads' = [leads EXCEPT ![q] = FALSE]
         /\ term' \in [Peer -> Nat] /\ leads' \in [Peer -> BOOLEAN]
         /\ term'[q] = term[p] /\ ~leads'[q] /\ q # p
         /\ \A r \in Peer \ {q} : term'[r] = term[r] /\ leads'[r] = leads[r]
         /\ leads[p] /\ up[q] /\ ~Paused(q) /\ term[q] <= term[p]
  BY DEF Hears, TypeOK

LEMMA EntriesType ==
  ASSUME TypeOK, NEW p \in Peer, NEW q \in Peer,
         AppendEntries(p, q) \/ AppendConfigEntries(p, q) \/ EntriesAppended(q)
  PROVE  TypeOK'
<1>1. CASE AppendEntries(p, q)
  <2>1. Hears(q, p) /\ Appended(q, Entries(p)) /\ UNCHANGED <<up, config, index, disk, task, history>>
    BY <1>1 DEF AppendEntries
  <2>2. log' \in [Peer -> Seq(Item)] /\ commit' \in [Peer -> Nat]
    BY <2>1, EntriesIs, AppendedType
  <2>3. term' \in [Peer -> Nat] /\ leads' \in [Peer -> BOOLEAN]
    BY <2>1, HearsGives
  <2> QED  BY <2>1, <2>2, <2>3 DEF TypeOK, history
<1>2. CASE AppendConfigEntries(p, q)
  <2>1. PICK j \in 1..Len(log[p]) :
          /\ log[p][j].config \in Config
          /\ config' = [config EXCEPT ![q] = log[p][j].config]
          /\ index' = [index EXCEPT ![q] = j]
          /\ disk' = [disk EXCEPT ![q] = [config |-> log[p][j].config, index |-> j]]
          /\ task' = [task EXCEPT ![q] = Entries(p)]
          /\ Hears(q, p) /\ UNCHANGED <<up, log, commit, history>>
    BY <1>2, NewConfigIs
  <2>2. j \in Nat /\ Entries(p) \in Taking
    BY EntriesIs
  <2>3. term' \in [Peer -> Nat] /\ leads' \in [Peer -> BOOLEAN]
    BY <2>1, HearsGives
  <2> QED  BY <2>1, <2>2, <2>3 DEF TypeOK, history
<1>3. CASE EntriesAppended(q)
  <2>1. task[q] \in Taking /\ Appended(q, task[q])
    BY <1>3, TaskIs DEF EntriesAppended, Takes
  <2>2. log' \in [Peer -> Seq(Item)] /\ commit' \in [Peer -> Nat]
    BY <2>1, AppendedType
  <2>3. task' \in [Peer -> {None} \union Pending \union Taking]
    BY <1>3 DEF EntriesAppended, TypeOK
  <2> QED  BY <1>3, <2>2, <2>3 DEF EntriesAppended, TypeOK, history
<1> QED  BY <1>1, <1>2, <1>3

\* Where a peer that starts again finds its configuration
LEMMA FoundIs ==
  ASSUME TypeOK, NEW p \in Peer
  PROVE  /\ Found(p) \in Nat
         /\ \/ Found(p) = disk[p].index
            \/ Found(p) \in 1..Len(log[p]) /\ log[p][Found(p)].config = disk[p].config
         /\ (\A i \in 1..Len(log[p]) : log[p][i].config # disk[p].config) => Found(p) = disk[p].index
<1>1. Len(log[p]) \in Nat /\ disk[p].index \in Nat
  BY LogsOf, ItemOf DEF TypeOK
<1>2. Logged(p) # {} => Max(Logged(p)) \in Logged(p)
  <2>1. Logged(p) \in SUBSET Nat /\ \A i \in Logged(p) : i <= Len(log[p])
    BY <1>1 DEF Logged
  <2> QED  BY <1>1, <2>1, MaxIs
<1>3. \A i \in Logged(p) : i \in 1..Len(log[p]) /\ log[p][i].config = disk[p].config
  BY DEF Logged
<1>4. Found(p) = disk[p].index \/ (Logged(p) # {} /\ Found(p) = Max(Logged(p)))
  BY DEF Found
<1> QED  BY <1>1, <1>2, <1>3, <1>4

LEMMA RestartType ==
  ASSUME TypeOK, NEW p \in Peer, Restart(p)
  PROVE  TypeOK'
<1>1. Found(p) \in Nat /\ disk[p] \in [config : Config, index : Nat]
  BY FoundIs DEF TypeOK
<1>2. [disk[p] EXCEPT !.index = Found(p)] \in [config : Config, index : Nat]
  BY <1>1
<1>3. disk' = [disk EXCEPT ![p] = [disk[p] EXCEPT !.index = Found(p)]]
  BY DEF Restart
<1>4. disk' \in [Peer -> [config : Config, index : Nat]]
  BY <1>2, <1>3 DEF TypeOK
<1>5. up' \in [Peer -> BOOLEAN]
  BY DEF Restart, TypeOK
<1> QED  BY <1>1, <1>4, <1>5 DEF Restart, TypeOK

LEMMA StepType == TypeOK /\ [Next]_vars => TypeOK'
<1> SUFFICES ASSUME TypeOK, [Next]_vars  PROVE TypeOK'
  OBVIOUS
<1>1. CASE UNCHANGED vars
  BY <1>1 DEF vars, memory, history, TypeOK
<1>2. CASE Next
  BY <1>2, ElectType, SmallType, ConfigType, EntriesType, RestartType DEF Next
<1> QED  BY <1>1, <1>2

-----------------------------------------------------------------------------
(* Logs. *)

LEMMA Agreement ==
  ASSUME NEW l \in Seq(Item), NEW m \in Seq(Item), NEW i \in Nat, AgreeTo(l, m, i)
  PROVE  /\ AgreeTo(m, l, i)
         /\ \A k \in Nat : k <= i => AgreeTo(l, m, k)
         /\ \A e \in Item : AgreeTo(Append(l, e), m, i) /\ AgreeTo(l, Append(m, e), i)
<1>1. Len(l) \in Nat /\ Len(m) \in Nat
  BY ItemOf
<1>2. AgreeTo(m, l, i) /\ \A k \in Nat : k <= i => AgreeTo(l, m, k)
  BY <1>1 DEF AgreeTo
<1>3. ASSUME NEW e \in Item
      PROVE  AgreeTo(Append(l, e), m, i) /\ AgreeTo(l, Append(m, e), i)
  <2>1. /\ Len(Append(l, e)) = Len(l) + 1 /\ \A k \in 1..Len(l) : Append(l, e)[k] = l[k]
        /\ Len(Append(m, e)) = Len(m) + 1 /\ \A k \in 1..Len(m) : Append(m, e)[k] = m[k]
    BY Longer
  <2> QED  BY <1>1, <2>1 DEF AgreeTo
<1> QED  BY <1>2, <1>3

LEMMA AgreeWith ==
  ASSUME NEW l \in Seq(Item), NEW m \in Seq(Item), NEW n \in Seq(Item),
         NEW i \in Nat, NEW j \in Nat, NEW k \in Nat, k <= i, k <= j,
         AgreeTo(l, m, i), AgreeTo(m, n, j)
  PROVE  AgreeTo(l, n, k)
<1>1. Len(l) \in Nat /\ Len(m) \in Nat /\ Len(n) \in Nat
  BY ItemOf
<1> QED  BY <1>1 DEF AgreeTo

LEMMA AllLogs ==
  ASSUME TypeOK, NEW L, LogInv(L)
  PROVE  /\ \A m \in All(L) : m \in Seq(Item)
         /\ \A p \in Peer : log[p] \in All(L) /\ own[p] \in All(L) /\ full[p] \in All(L)
  BY LogsOf DEF LogInv, All

LEMMA LogsNext ==
  ASSUME TypeOK', NEW p \in Peer
  PROVE  /\ log'[p] \in Seq(Item) /\ own'[p] \in Seq(Item) /\ full'[p] \in Seq(Item)
         /\ ~Takes(p)' => own'[p] = log'[p]
         /\ Takes(p)' => own'[p] = task'[p].log
         /\ ~Writes(p)' => full'[p] = own'[p]
         /\ Writes(p)' => full'[p] = Append(log'[p], Entry(task'[p].term, config'[p]))
                          /\ Entry(task'[p].term, config'[p]) \in Item
<1>1. log'[p] \in Seq(Item) /\ config'[p] \in Config /\ task'[p] \in {None} \union Pending \union Taking
  BY DEF TypeOK
<1>2. \A r \in Pending : r.term \in Nat /\ r.step # "entries"
  BY DEF Pending
<1>3. \A r \in Taking : r.step = "entries" /\ r.log \in Seq(Item) /\ r.commit \in Nat
  BY DEF Taking
<1>4. Writes(p)' <=> task'[p] # None /\ task'[p].step # "entries"
  BY DEF Writes, Paused
<1>5. Takes(p)' <=> task'[p] # None /\ task'[p].step = "entries"
  BY DEF Takes, Paused
<1>6. Writes(p)' => task'[p].term \in Nat
  BY <1>1, <1>2, <1>3, <1>4
<1>7. Writes(p)' => /\ Append(log'[p], Entry(task'[p].term, config'[p])) \in Seq(Item)
                    /\ Entry(task'[p].term, config'[p]) \in Item
  BY <1>1, <1>6, EntryIs, Longer
<1>8. own'[p] = IF Takes(p)' THEN task'[p].log ELSE log'[p]
  BY DEF own
<1>9. full'[p] = IF Writes(p)' THEN Append(log'[p], Entry(task'[p].term, config'[p])) ELSE own'[p]
  BY DEF full
<1>10. Takes(p)' => task'[p].log \in Seq(Item)
  BY <1>1, <1>2, <1>3, <1>5
<1> QED  BY <1>1, <1>4, <1>5, <1>7, <1>8, <1>9, <1>10

LEMMA PausedNext ==
  ASSUME NEW p \in Peer
  PROVE  /\ task'[p] = None => ~Paused(p)' /\ ~Takes(p)' /\ ~Writes(p)'
         /\ task'[p] \in Pending => Paused(p)' /\ ~Takes(p)' /\ Writes(p)'
         /\ task'[p] \in Taking => Paused(p)' /\ Takes(p)' /\ ~Writes(p)'
<1>1. \A r \in Pending : r.step # "entries" /\ r # None
  BY NoneIs DEF Pending
<1>2. \A r \in Taking : r.step = "entries" /\ r # None
  BY NoneIs DEF Taking
<1> QED  BY <1>1, <1>2 DEF Writes, Takes, Paused

\* A peer that is not concerned
LEMMA SamePeer ==
  ASSUME NEW q \in Peer, log'[q] = log[q], task'[q] = task[q], config'[q] = config[q]
  PROVE  /\ own'[q] = own[q] /\ full'[q] = full[q]
         /\ (Takes(q)' <=> Takes(q)) /\ (Writes(q)' <=> Writes(q)) /\ (Paused(q)' <=> Paused(q))
         /\ \A f : Uses(q, f)' <=> Uses(q, f)
<1>1. (Takes(q)' <=> Takes(q)) /\ (Writes(q)' <=> Writes(q)) /\ (Paused(q)' <=> Paused(q))
  BY DEF Takes, Writes, Paused
<1>2. own'[q] = own[q]
  BY <1>1 DEF own
<1>3. full'[q] = full[q]
  BY <1>1, <1>2 DEF full
<1>4. ASSUME NEW f  PROVE Uses(q, f)' <=> Uses(q, f)
  <2>1. LastConfig(own[q], f)' <=> LastConfig(own'[q], f)
    BY DEF LastConfig, First
  <2>2. LastConfig(own'[q], f) <=> LastConfig(own[q], f)
    BY <1>2
  <2> QED  BY <2>1, <2>2 DEF Uses
<1> QED  BY <1>1, <1>2, <1>3, <1>4

Adds(p) == \E e \in Item : e.term = term'[p] /\ full'[p] = Append(full[p], e)

\* At most the log of p grows, by an entry of the term in which it leads.
Grown(L, p) ==
  /\ \A q \in Peer : {log'[q], own'[q], full'[q]} \subseteq All(L) \union {full'[p]}
  /\ \A q \in Peer : Below(log'[q], term'[q]) /\ Below(full'[q], term'[q])
  /\ full'[p] \in All(L) \/ (leads'[p] /\ Adds(p))
  /\ leads'[p] => /\ full'[p] = full[p] \/ Adds(p)
                  /\ \A m \in All(L) : HasTerm(full[p], m, term'[p])
\* Others lead only in the terms in which they have led.
Leading(p) ==
  \A q \in Peer \ {p} : leads'[q] =>
    leads[q] /\ term'[q] = term[q] /\ full'[q] = full[q] /\ (leads'[p] => term[q] # term'[p])

LEMMA LogGrows ==
  ASSUME TypeOK, TypeOK', NEW L, LogInv(L), NEW p \in Peer, Grown(L, p), Leading(p),
         NEW K, K \subseteq All(L) \union {full'[p]},
         \A q \in Peer : log'[q] \in K /\ own'[q] \in K
  PROVE  LogInv(K)'
<1> DEFINE N == full'[p]
           f == full[p]
           A == All(L) \union {N}
<1>1. f \in All(L) /\ \A m \in All(L) : m \in Seq(Item)
  BY AllLogs
<1>2. N \in Seq(Item) /\ \A m \in A : m \in Seq(Item)
  BY <1>1, LogsNext
<1>3. All(K)' \subseteq A
  BY DEF All, Grown
<1>4. N \in All(L) \/ (leads'[p] /\ Adds(p))
  BY DEF Grown
<1>5. \A q, r \in Peer : leads'[q] /\ leads'[r] /\ term'[q] = term'[r] => q = r
  BY DEF LogInv, Leading
<1>6. ASSUME NEW k \in 1..Len(f), N = f \/ Adds(p)  PROVE k \in 1..Len(N) /\ AgreeTo(f, N, k) /\ AgreeTo(N, f, k)
  <2>1. Len(f) \in Nat /\ Len(N) \in Nat /\ k \in Nat
    BY <1>1, <1>2, ItemOf
  <2>2. AgreeTo(f, f, k)
    BY <2>1 DEF AgreeTo
  <2>3. N = f \/ \E e \in Item : N = Append(f, e)
    BY <1>6 DEF Adds
  <2>4. AgreeTo(f, N, k)
    BY <1>1, <2>1, <2>2, <2>3, Agreement
  <2>5. AgreeTo(N, f, k)
    BY <1>1, <1>2, <2>1, <2>4, Agreement
  <2> HIDE DEF N, f
  <2> QED  BY <2>1, <2>4, <2>5 DEF AgreeTo
<1>7. ASSUME Adds(p)
      PROVE  /\ Len(N) = Len(f) + 1 /\ N[Len(N)].term = term'[p]
             /\ \A k \in 1..Len(f) : N[k] = f[k]
             /\ \A k \in 1..Len(N) : k \in 1..Len(f) \/ k = Len(N)
  <2>1. PICK e \in Item : e.term = term'[p] /\ N = Append(f, e)
    BY <1>7 DEF Adds
  <2>2. Len(f) \in Nat
    BY <1>1, ItemOf
  <2>3. Len(N) = Len(f) + 1 /\ N[Len(f) + 1] = e /\ \A k \in 1..Len(f) : N[k] = f[k]
    BY <1>1, <2>1, Longer
  <2> HIDE DEF N, f
  <2> QED  BY <2>1, <2>2, <2>3
<1> HIDE DEF N, f
<1>8. ASSUME NEW r \in Peer, leads'[r], NEW m \in A
      PROVE  HasTerm(full'[r], m, term'[r])
  <2> SUFFICES ASSUME NEW k \in 1..Len(m), m[k].term = term'[r]
               PROVE  AgreeTo(m, full'[r], k)
    BY DEF HasTerm
  <2>1. Len(m) \in Nat /\ k \in Nat /\ Len(f) \in Nat /\ m \in Seq(Item)
    BY <1>1, <1>2, ItemOf
  <2>2. CASE r # p
    <3>1. leads[r] /\ term'[r] = term[r] /\ full'[r] = full[r] /\ (leads'[p] => term[r] # term'[p])
      BY <1>8, <2>2 DEF Leading
    <3>2. \A n \in All(L) : HasTerm(full[r], n, term[r])
      BY <3>1 DEF LogInv
    <3>3. CASE m \in All(L)
      BY <3>1, <3>2, <3>3 DEF HasTerm
    <3>4. CASE m \notin All(L)
      <4>1. m = N /\ leads'[p] /\ Adds(p)
        BY <1>4, <3>4
      <4>2. k \in 1..Len(f) /\ f[k].term = term[r]
        BY <1>7, <3>1, <4>1
      <4>3. AgreeTo(f, full[r], k)
        BY <1>1, <3>2, <4>2 DEF HasTerm
      <4>4. AgreeTo(m, f, k)
        BY <1>6, <4>1, <4>2
      <4>5. full[r] \in Seq(Item)
        BY LogsOf
      <4> QED  BY <1>1, <2>1, <3>1, <4>3, <4>4, <4>5, AgreeWith
    <3> QED  BY <3>3, <3>4
  <2>3. CASE r = p
    <3>1. full'[r] = N
      BY <2>3 DEF N
    <3>2. CASE m = N
      BY <2>1, <3>1, <3>2 DEF AgreeTo
    <3>3. CASE m \in All(L)
      <4>1. AgreeTo(m, f, k)
        BY <1>8, <2>3, <3>3 DEF Grown, HasTerm, f
      <4>2. k \in 1..Len(f)
        BY <2>1, <4>1 DEF AgreeTo
      <4>3. N = f \/ Adds(p)
        BY <1>8, <2>3 DEF Grown, N, f
      <4>4. AgreeTo(f, N, k)
        BY <1>6, <4>2, <4>3
      <4> QED  BY <1>1, <1>2, <2>1, <3>1, <4>1, <4>4, AgreeWith
    <3> QED  BY <3>2, <3>3
  <2> QED  BY <2>2, <2>3
<1>9. ASSUME NEW l \in A  PROVE Sorted(l)
  <2>1. CASE l \in All(L)
    BY <2>1 DEF LogInv
  <2>2. CASE l \notin All(L)
    <3>1. l = N /\ Adds(p)
      BY <1>4, <2>2
    <3>2. Below(N, term'[p])
      BY DEF Grown, N
    <3>3. \A i, j \in 1..Len(f) : i <= j => f[i].term <= f[j].term
      BY <1>1 DEF LogInv, Sorted
    <3>4. ASSUME NEW i \in 1..Len(N), NEW j \in 1..Len(N), i <= j  PROVE N[i].term <= N[j].term
      <4>1. CASE j \in 1..Len(f)
        <5>1. i \in 1..Len(f)
          BY <3>4, <4>1
        <5> QED  BY <1>7, <3>1, <3>3, <3>4, <4>1, <5>1
      <4>2. CASE j = Len(N)
        BY <1>7, <3>1, <3>2, <4>2 DEF Below
      <4> QED  BY <1>7, <3>1, <4>1, <4>2
    <3> QED  BY <3>1, <3>4 DEF Sorted
  <2> QED  BY <2>1, <2>2
<1>10. ASSUME NEW l \in A, NEW m \in A  PROVE Matches(l, m)
  <2> SUFFICES ASSUME NEW j \in 1..Len(l), NEW k \in 1..Len(m), l[j].term = m[k].term, k <= j
               PROVE  AgreeTo(l, m, k)
    BY DEF Matches
  <2>1. /\ Len(m) \in Nat /\ k \in Nat /\ j \in Nat /\ Len(f) \in Nat
        /\ m \in Seq(Item) /\ l \in Seq(Item)
    BY <1>1, <1>2, ItemOf
  <2>2. \A a, b \in All(L) : Matches(a, b)
    BY DEF LogInv
  <2>3. CASE l \in All(L) /\ m \in All(L)
    BY <2>2, <2>3 DEF Matches
  <2>4. CASE l = m
    BY <2>1, <2>4 DEF AgreeTo
  <2>5. CASE l \notin All(L) /\ m \in All(L)
    <3>1. l = N /\ leads'[p] /\ Adds(p)
      BY <1>4, <2>5
    <3>2. CASE j \in 1..Len(f)
      <4>1. f[j].term = m[k].term
        BY <1>7, <3>1, <3>2
      <4>2. AgreeTo(f, m, k)
        BY <1>1, <2>2, <2>5, <3>2, <4>1 DEF Matches
      <4>3. AgreeTo(l, f, j)
        BY <1>6, <3>1, <3>2
      <4> QED  BY <1>1, <2>1, <4>2, <4>3, AgreeWith
    <3>3. CASE j = Len(N)
      <4>1. m[k].term = term'[p]
        BY <1>7, <3>1, <3>3
      <4>2. AgreeTo(m, N, k)
        BY <1>8, <3>1, <4>1 DEF HasTerm, N
      <4> QED  BY <1>2, <2>1, <3>1, <4>2, Agreement
    <3> QED  BY <1>7, <3>1, <3>2, <3>3
  <2>6. CASE l \in All(L) /\ m \notin All(L)
    <3>1. m = N /\ leads'[p] /\ Adds(p)
      BY <1>4, <2>6
    <3>2. CASE k \in 1..Len(f)
      <4>1. f[k].term = l[j].term
        BY <1>7, <3>1, <3>2
      <4>2. AgreeTo(l, f, k)
        BY <1>1, <2>2, <2>6, <3>2, <4>1 DEF Matches
      <4>3. AgreeTo(f, m, k)
        BY <1>6, <3>1, <3>2
      <4> QED  BY <1>1, <2>1, <4>2, <4>3, AgreeWith
    <3>3. CASE k = Len(N)
      <4>1. l[j].term = term'[p]
        BY <1>7, <3>1, <3>3
      <4>2. AgreeTo(l, N, j)
        BY <1>8, <3>1, <4>1 DEF HasTerm, N
      <4> QED  BY <1>2, <2>1, <3>1, <4>2, Agreement
    <3> QED  BY <1>7, <3>1, <3>2, <3>3
  <2> QED  BY <2>3, <2>4, <2>5, <2>6
<1>11. K \subseteq Seq(Item)
  BY <1>2 DEF N
<1>12. \A q \in Peer : Below(log'[q], term'[q]) /\ Below(full'[q], term'[q])
  BY DEF Grown
<1>13. \A l \in All(K)' : Sorted(l) /\ \A m \in All(K)' : Matches(l, m)
  BY <1>3, <1>9, <1>10
<1>14. \A r \in Peer : leads'[r] => \A m \in All(K)' : HasTerm(full'[r], m, term'[r])
  BY <1>3, <1>8
<1>15. /\ \A q \in Peer : Below(log[q], term[q])' /\ Below(full[q], term[q])'
       /\ \A r \in Peer, m \in All(K)' : HasTerm(full'[r], m, term'[r]) <=> HasTerm(full[r], m, term[r])'
  BY <1>12 DEF Below, HasTerm, AgreeTo
<1> QED  BY <1>5, <1>11, <1>12, <1>13, <1>14, <1>15 DEF LogInv

-----------------------------------------------------------------------------
(* Every step is that of one peer, and the others only learn of its term.  *)

Alone(a) ==
  \A q \in Peer \ {a} :
    /\ log'[q] = log[q] /\ task'[q] = task[q] /\ config'[q] = config[q] /\ up'[q] = up[q]
    /\ index'[q] = index[q] /\ disk'[q] = disk[q] /\ commit'[q] = commit[q]
Later == \A q \in Peer : term[q] <= term'[q]
\* Nobody is elected.
Deposed == \A q \in Peer : leads'[q] => leads[q] /\ term'[q] = term[q]

LEMMA OthersSame ==
  ASSUME NEW a \in Peer, Alone(a), NEW q \in Peer \ {a}
  PROVE  /\ own'[q] = own[q] /\ full'[q] = full[q]
         /\ (Takes(q)' <=> Takes(q)) /\ (Writes(q)' <=> Writes(q)) /\ (Paused(q)' <=> Paused(q))
         /\ \A f : Uses(q, f)' <=> Uses(q, f)
  BY SamePeer DEF Alone

LEMMA BelowRises ==
  ASSUME NEW l \in Seq(Item), NEW t \in Nat, NEW u \in Nat, t <= u, Below(l, t)
  PROVE  Below(l, u)
<1>1. \A i \in 1..Len(l) : l[i].term \in Nat
  BY ItemOf
<1> QED  BY <1>1 DEF Below

LEMMA BelowAppend ==
  ASSUME NEW l \in Seq(Item), NEW e \in Item, NEW t \in Nat, Below(l, t), e.term <= t
  PROVE  Below(Append(l, e), t)
<1>1. Len(l) \in Nat
  BY ItemOf
<1> QED  BY <1>1, Longer DEF Below

LEMMA AloneLog ==
  ASSUME TypeOK, TypeOK', NEW L, LogInv(L), NEW a \in Peer, Alone(a), Later,
         {log'[a], own'[a]} \subseteq All(L) \union {full'[a]},
         Below(log'[a], term'[a]), Below(full'[a], term'[a]),
         full'[a] \in All(L) \/ (leads'[a] /\ Adds(a)),
         leads'[a] => /\ full'[a] = full[a] \/ Adds(a)
                      /\ \A m \in All(L) : HasTerm(full[a], m, term'[a]),
         \A q \in Peer \ {a} :
           leads'[q] => leads[q] /\ term'[q] = term[q] /\ (leads'[a] => term[q] # term'[a]),
         NEW K, K = L \union {log'[a], own'[a]}
  PROVE  LogInv(K)'
<1>1. ASSUME NEW q \in Peer
      PROVE  /\ {log'[q], own'[q], full'[q]} \subseteq All(L) \union {full'[a]}
             /\ Below(log'[q], term'[q]) /\ Below(full'[q], term'[q])
             /\ log'[q] \in K /\ own'[q] \in K
  <2>1. CASE q = a
    BY <2>1
  <2>2. CASE q # a
    <3>1. log'[q] = log[q] /\ own'[q] = own[q] /\ full'[q] = full[q]
      BY <2>2, OthersSame DEF Alone
    <3>2. {log[q], own[q], full[q]} \subseteq All(L) /\ log[q] \in L /\ own[q] \in L
      <4>1. log[q] \in All(L) /\ own[q] \in All(L) /\ full[q] \in All(L)
        BY AllLogs
      <4>2. log[q] \in L /\ own[q] \in L
        BY DEF LogInv
      <4> QED  BY <4>1, <4>2
    <3>3. Below(log[q], term[q]) /\ Below(full[q], term[q])
      BY DEF LogInv
    <3>4. term[q] \in Nat /\ term'[q] \in Nat /\ term[q] <= term'[q]
      BY DEF TypeOK, Later
    <3>5. Below(log[q], term'[q]) /\ Below(full[q], term'[q])
      BY <3>3, <3>4, LogsOf, BelowRises
    <3> QED  BY <3>1, <3>2, <3>5
  <2> QED  BY <2>1, <2>2
<1>2. Grown(L, a)
  BY <1>1 DEF Grown
<1>3. Leading(a)
  BY OthersSame DEF Leading
<1>4. K \subseteq All(L) \union {full'[a]}
  BY DEF All
<1> QED  BY <1>1, <1>2, <1>3, <1>4, LogGrows

\* What becomes of the log of a peer that is not elected
Plain(L, a) ==
  \/ /\ ~leads'[a] /\ {log'[a], own'[a], full'[a]} \subseteq All(L)
     /\ Below(log'[a], term'[a]) /\ Below(full'[a], term'[a])
  \/ full'[a] = full[a] /\ log'[a] \in {log[a], full[a]} /\ own'[a] \in {own[a], full[a]}
  \/ /\ leads'[a] /\ Adds(a)
     /\ log'[a] \in {log[a], full'[a]} /\ own'[a] \in {own[a], full'[a]}

LEMMA PlainLog ==
  ASSUME TypeOK, TypeOK', NEW L, LogInv(L), NEW a \in Peer, Alone(a), Later, Deposed, Plain(L, a),
         NEW K, K = L \union {log'[a], own'[a]}
  PROVE  LogInv(K)'
<1>1. /\ {log[a], own[a], full[a]} \subseteq All(L)
      /\ log[a] \in Seq(Item) /\ full[a] \in Seq(Item)
  BY AllLogs, LogsOf
<1>2. term[a] \in Nat /\ term'[a] \in Nat /\ term[a] <= term'[a]
  BY DEF TypeOK, Later
<1>3. Below(log[a], term'[a]) /\ Below(full[a], term'[a])
  BY <1>1, <1>2, BelowRises DEF LogInv
<1>4. Adds(a) => Below(full'[a], term'[a])
  <2> SUFFICES ASSUME NEW e \in Item, e.term = term'[a], full'[a] = Append(full[a], e)
               PROVE  Below(full'[a], term'[a])
    BY DEF Adds
  <2> QED  BY <1>1, <1>2, <1>3, BelowAppend
<1>5. /\ {log'[a], own'[a]} \subseteq All(L) \union {full'[a]}
      /\ Below(log'[a], term'[a]) /\ Below(full'[a], term'[a])
      /\ full'[a] \in All(L) \/ (leads'[a] /\ Adds(a))
      /\ leads'[a] => full'[a] = full[a] \/ Adds(a)
  BY <1>1, <1>3, <1>4 DEF Plain
<1>6. leads'[a] => \A m \in All(L) : HasTerm(full[a], m, term'[a])
  BY DEF Deposed, LogInv
<1>7. \A q \in Peer \ {a} :
        leads'[q] => leads[q] /\ term'[q] = term[q] /\ (leads'[a] => term[q] # term'[a])
  BY DEF Deposed, LogInv
<1> QED  BY <1>5, <1>6, <1>7, AloneLog

-----------------------------------------------------------------------------
(* What each action does to the log of its peer. *)

LEMMA IdleIs ==
  ASSUME TypeOK, NEW p \in Peer, ~Paused(p)
  PROVE  own[p] = log[p] /\ full[p] = log[p] /\ ~Takes(p) /\ ~Writes(p)
  BY TaskIs, LogsOf

LEMMA StepDownDoes ==
  ASSUME TypeOK, TypeOK', NEW p \in Peer, NEW q \in Peer, StepDown(p, q)
  PROVE  /\ Alone(p) /\ Later /\ Deposed /\ ~leads'[p]
         /\ UNCHANGED <<up, log, commit, config, index, disk, task, changes>>
<1>1. /\ UNCHANGED <<up, log, commit, config, index, disk, task, changes>>
      /\ leads' = [leads EXCEPT ![p] = FALSE]
      /\ term' = [term EXCEPT ![p] = term[q]] /\ term[q] > term[p]
  BY DEF StepDown, history
<1>2. term \in [Peer -> Nat] /\ leads \in [Peer -> BOOLEAN]
  BY DEF TypeOK
<1>3. Later /\ Deposed /\ ~leads'[p]
  BY <1>1, <1>2 DEF Later, Deposed
<1> QED  BY <1>1, <1>3 DEF Alone

LEMMA SameTerms ==
  ASSUME TypeOK, UNCHANGED <<term, leads>>
  PROVE  Later /\ Deposed
<1>1. \A q \in Peer : term[q] \in Nat
  BY DEF TypeOK
<1> QED  BY <1>1 DEF Later, Deposed

LEMMA UpdateDoes ==
  ASSUME TypeOK, TypeOK', NEW p \in Peer, Update(p)
  PROVE  /\ Alone(p) /\ Later /\ Deposed /\ leads[p] /\ leads'[p] /\ term'[p] = term[p]
         /\ ~Paused(p) /\ ~Paused(p)' /\ ~Takes(p)' /\ ~Writes(p)'
         /\ log'[p] = Append(log[p], Entry(term[p], None))
         /\ own'[p] = log'[p] /\ full'[p] = log'[p]
         /\ UNCHANGED <<up, leads, commit, config, index, disk, task, changes>>
<1>1. /\ UNCHANGED <<up, term, leads, commit, config, index, disk, task, changes>>
      /\ log' = [log EXCEPT ![p] = Append(log[p], Entry(term[p], None))]
      /\ leads[p] /\ ~Paused(p)
  BY DEF Update, memory, history
<1>2. log'[p] = Append(log[p], Entry(term[p], None)) /\ Alone(p)
  BY <1>1 DEF Alone, TypeOK
<1>3. task'[p] = None
  BY <1>1 DEF Paused
<1>4. ~Paused(p)' /\ ~Takes(p)' /\ ~Writes(p)'
  BY <1>3, PausedNext
<1> QED  BY <1>1, <1>2, <1>4, LogsNext, SameTerms

\* A configuration is about to be written.
Begins(p, c) ==
  /\ Alone(p) /\ Later /\ Deposed /\ leads[p] /\ leads'[p] /\ term'[p] = term[p]
  /\ ~Paused(p) /\ ~Takes(p)' /\ Writes(p)' /\ task'[p].step = "file"
  /\ log' = log /\ own'[p] = log[p] /\ full'[p] = Append(log[p], Entry(term[p], c))
  /\ config'[p] = c /\ index'[p] = 0 /\ changes' = c.id
  /\ UNCHANGED <<up, term, disk>>

LEMMA BeginDoes ==
  ASSUME TypeOK, TypeOK', NEW p \in Peer, NEW c \in Config, BeginConfig(p, c), ~Paused(p), leads[p],
         leads'[p], Deposed, UNCHANGED <<up, term, log, disk>>,
         \A q \in Peer \ {p} : commit'[q] = commit[q]
  PROVE  Begins(p, c)
<1>1. /\ config' = [config EXCEPT ![p] = c] /\ index' = [index EXCEPT ![p] = 0]
      /\ task' = [task EXCEPT ![p] = [step |-> "file", term |-> term[p]]] /\ changes' = c.id
  BY DEF BeginConfig
<1>2. /\ config'[p] = c /\ index'[p] = 0 /\ task'[p] = [step |-> "file", term |-> term[p]]
      /\ Alone(p) /\ task'[p].step = "file" /\ task'[p].term = term[p]
  BY <1>1 DEF TypeOK, Alone
<1>3. term[p] \in Nat
  BY DEF TypeOK
<1>4. task'[p] \in Pending
  BY <1>2, <1>3 DEF Pending
<1>5. ~Takes(p)' /\ Writes(p)'
  BY <1>4, PausedNext
<1>6. own'[p] = log[p] /\ full'[p] = Append(log[p], Entry(term[p], c))
  BY <1>2, <1>5, LogsNext
<1>7. Later
  BY DEF Later, TypeOK
<1> QED  BY <1>1, <1>2, <1>5, <1>6, <1>7 DEF Begins

LEMMA ConfigUpdateDoes ==
  ASSUME TypeOK, TypeOK', NEW p \in Peer, NEW S \in Targets, ConfigUpdate(p, S)
  PROVE  /\ Begins(p, Joined(config[p], S, changes + 1)) /\ ~IsTransitional(config[p])
         /\ Joined(config[p], S, changes + 1) \in Config /\ commit' = commit
<1>1. config[p] \in Config /\ changes + 1 \in Nat
  BY DEF TypeOK
<1>2. Joined(config[p], S, changes + 1) \in Config
  BY <1>1, ConfigIs, ClusterAssumption
<1>3. /\ leads[p] /\ ~Paused(p) /\ ~IsTransitional(config[p])
      /\ BeginConfig(p, Joined(config[p], S, changes + 1))
      /\ UNCHANGED <<up, leads, term, log, commit, disk>>
  BY DEF ConfigUpdate
<1>4. Deposed
  BY <1>3, SameTerms
<1> QED  BY <1>2, <1>3, <1>4, BeginDoes

LEMMA ConfigStoredDoes ==
  ASSUME TypeOK, TypeOK', NEW p \in Peer, ConfigStored(p)
  PROVE  /\ Alone(p) /\ Later /\ Deposed
         /\ Writes(p) /\ task[p].step = "file" /\ Writes(p)' /\ ~Takes(p)' /\ task'[p].step = "log"
         /\ own'[p] = own[p] /\ full'[p] = full[p]
         /\ disk'[p].config = config[p] /\ disk'[p].index = 0
         /\ UNCHANGED <<up, leads, commit, config, index, term, log, changes>>
<1>1. /\ Paused(p) /\ task[p].step = "file"
      /\ disk' = [disk EXCEPT ![p] = [config |-> config[p], index |-> 0]]
      /\ task' = [task EXCEPT ![p] = [task[p] EXCEPT !.step = "log"]]
      /\ UNCHANGED <<up, leads, commit, config, index, term, log, changes>>
  BY DEF ConfigStored, history
<1>2. Writes(p) /\ task[p] \in Pending
  BY <1>1, TaskIs DEF Writes
<1>3. [task[p] EXCEPT !.step = "log"] \in Pending /\ task'[p] = [task[p] EXCEPT !.step = "log"]
  BY <1>1, <1>2 DEF Pending, TypeOK
<1>4. task'[p] \in Pending /\ task'[p].step = "log" /\ task'[p].term = task[p].term
  BY <1>2, <1>3 DEF Pending
<1>5. Writes(p)' /\ ~Takes(p)'
  BY <1>4, PausedNext
<1>6. own'[p] = own[p] /\ full'[p] = full[p]
  <2>1. ~Takes(p) /\ log'[p] = log[p] /\ config'[p] = config[p]
    BY <1>1, <1>2, TaskIs
  <2>2. own'[p] = log'[p] /\ own[p] = log[p]
    BY <1>5, <2>1, LogsNext, LogsOf
  <2>3. full[p] = Append(log[p], Entry(task[p].term, config[p]))
    BY <1>2, LogsOf
  <2>4. full'[p] = Append(log'[p], Entry(task'[p].term, config'[p]))
    BY <1>5, LogsNext
  <2> QED  BY <1>4, <2>1, <2>2, <2>3, <2>4
<1>7. disk'[p].config = config[p] /\ disk'[p].index = 0
  BY <1>1 DEF TypeOK
<1>8. Alone(p)
  BY <1>1 DEF Alone
<1> QED  BY <1>1, <1>2, <1>4, <1>5, <1>6, <1>7, <1>8, SameTerms

LEMMA ConfigAppendedDoes ==
  ASSUME TypeOK, TypeOK', NEW p \in Peer, ConfigAppended(p)
  PROVE  /\ Alone(p) /\ Later /\ Deposed
         /\ Writes(p) /\ task[p].step = "log" /\ ~Paused(p)' /\ ~Writes(p)' /\ ~Takes(p)'
         /\ log'[p] = full[p] /\ own'[p] = full[p] /\ full'[p] = full[p]
         /\ index'[p] = Len(full[p]) /\ disk'[p].config = disk[p].config
         /\ disk'[p].index \in {disk[p].index, index'[p]}
         /\ UNCHANGED <<up, leads, commit, config, term, changes>>
<1>1. /\ Paused(p) /\ task[p].step = "log"
      /\ log' = [log EXCEPT ![p] = Append(log[p], Entry(task[p].term, config[p]))]
      /\ index' = [index EXCEPT ![p] = Len(log'[p])]
      /\ disk' = disk \/ disk' = [disk EXCEPT ![p] = [disk[p] EXCEPT !.index = index'[p]]]
      /\ task' = [task EXCEPT ![p] = None]
      /\ UNCHANGED <<up, leads, commit, config, term, changes>>
  BY DEF ConfigAppended, history
<1>2. Writes(p)
  BY <1>1 DEF Writes
<1>3. log'[p] = full[p]
  BY <1>1, <1>2, LogsOf DEF TypeOK
<1>4. task'[p] = None /\ index'[p] = Len(full[p])
  BY <1>1, <1>3 DEF TypeOK
<1>5. ~Paused(p)' /\ ~Takes(p)' /\ ~Writes(p)'
  BY <1>4, PausedNext
<1>6. disk'[p].config = disk[p].config /\ disk'[p].index \in {disk[p].index, index'[p]}
  <2>1. disk[p] \in [config : Config, index : Nat] /\ disk \in [Peer -> [config : Config, index : Nat]]
    BY DEF TypeOK
  <2>2. CASE disk' = disk
    BY <2>2
  <2>3. CASE disk' = [disk EXCEPT ![p] = [disk[p] EXCEPT !.index = index'[p]]]
    <3>1. disk'[p] = [disk[p] EXCEPT !.index = index'[p]]
      BY <2>1, <2>3
    <3> QED  BY <2>1, <3>1
  <2> QED  BY <1>1, <2>2, <2>3
<1>7. Alone(p)
  BY <1>1 DEF Alone, TypeOK
<1> QED  BY <1>1, <1>2, <1>3, <1>4, <1>5, <1>6, <1>7, LogsNext, SameTerms

LEMMA CommitDoes ==
  ASSUME TypeOK, TypeOK', LocalInv, NEW p \in Peer, NEW i \in 1..Len(log[p]), Commit(p, i)
  PROVE  /\ \/ /\ Begins(p, NewOnly(config[p], changes + 1)) /\ NewOnly(config[p], changes + 1) \in Config
               /\ IsTransitional(config[p]) /\ index[p] \in 1..i
            \/ Alone(p) /\ Later /\ Deposed /\ UNCHANGED <<config, index, task, changes, up, term, log, disk>>
         /\ leads[p] /\ log[p][i].term = term[p]
         /\ MajorityHas(config[p], {q \in Members(config[p]) : q = p \/ Has(q, p, i)})
         /\ commit'[p] = i /\ (\A q \in Peer \ {p} : commit'[q] = commit[q])
         /\ log' = log /\ own' = own /\ UNCHANGED <<up, term>>
<1>1. /\ leads[p] /\ log[p][i].term = term[p]
      /\ MajorityHas(config[p], {q \in Members(config[p]) : q = p \/ Has(q, p, i)})
      /\ commit' = [commit EXCEPT ![p] = i] /\ leads' = [leads EXCEPT ![p] = Knows(p, p)]
      /\ UNCHANGED <<up, term, log, disk>>
  BY DEF Commit
<1>2. Deposed
  BY <1>1 DEF Deposed, TypeOK
<1>3. commit'[p] = i /\ \A q \in Peer \ {p} : commit'[q] = commit[q]
  BY <1>1 DEF TypeOK
<1>4. CASE Knows(p, p) /\ IsTransitional(config[p]) /\ index[p] \in 1..i
  <2>1. BeginConfig(p, NewOnly(config[p], changes + 1))
    BY <1>4 DEF Commit
  <2>2. NewOnly(config[p], changes + 1) \in Config
    BY ConfigIs DEF TypeOK
  <2>3. ~Paused(p)
    <3>1. ~Takes(p)
      BY <1>1 DEF LocalInv, SelfInv
    <3>2. ~Writes(p)
      BY <1>4 DEF LocalInv, SelfInv
    <3> QED  BY <3>1, <3>2, TaskIs
  <2>4. leads'[p]
    BY <1>1, <1>4 DEF TypeOK
  <2>5. Begins(p, NewOnly(config[p], changes + 1))
    BY <1>1, <1>2, <1>3, <2>1, <2>2, <2>3, <2>4, BeginDoes
  <2>6. own' = own
    <3>1. \A q \in Peer : own'[q] = own[q]
      BY <2>3, <2>5, IdleIs, OthersSame DEF Begins
    <3> QED  BY <3>1 DEF own
  <2> QED  BY <1>1, <1>3, <1>4, <2>2, <2>5, <2>6
<1>5. CASE ~ (Knows(p, p) /\ IsTransitional(config[p]) /\ index[p] \in 1..i)
  <2>1. UNCHANGED <<config, index, task, changes>>
    BY <1>5 DEF Commit
  <2>2. own' = own
    BY <1>1, <2>1 DEF own, Takes, Paused
  <2>3. Alone(p) /\ Later
    BY <1>1, <1>3, <2>1 DEF Alone, Later, TypeOK
  <2> QED  BY <1>1, <1>2, <1>3, <2>1, <2>2, <2>3
<1> QED  BY <1>4, <1>5

LEMMA HearsDoes ==
  ASSUME TypeOK, TypeOK', NEW p \in Peer, NEW q \in Peer, Hears(q, p), ~LosesConfig
  PROVE  /\ Later /\ Deposed /\ ConfigsAfter(log[q], Prev(p, q)) = {}
         /\ leads[p] /\ up[q] /\ ~Paused(q) /\ term[q] <= term[p] /\ term'[q] = term[p] /\ ~leads'[q]
         /\ q # p
<1>1. /\ term'[q] = term[p] /\ ~leads'[q] /\ q # p
      /\ \A r \in Peer \ {q} : term'[r] = term[r] /\ leads'[r] = leads[r]
      /\ leads[p] /\ up[q] /\ ~Paused(q) /\ term[q] <= term[p]
  BY HearsGives
<1>2. \A r \in Peer : term[r] \in Nat
  BY DEF TypeOK
<1>3. Later /\ Deposed
  BY <1>1, <1>2 DEF Later, Deposed
<1> QED  BY <1>1, <1>3 DEF Hears

LEMMA AppendEntriesDoes ==
  ASSUME TypeOK, TypeOK', NEW p \in Peer, NEW q \in Peer, AppendEntries(p, q), ~LosesConfig
  PROVE  /\ Alone(q) /\ Hears(q, p) /\ ~Paused(q)' /\ ~Takes(q)' /\ ~Writes(q)'
         /\ log'[q] = log[p] /\ own'[q] = log[p] /\ full'[q] = log[p]
         /\ commit'[q] \in {commit[q], Entries(p).commit}
         /\ UNCHANGED <<up, config, index, disk, task, changes>>
<1>1. /\ Hears(q, p) /\ Appended(q, Entries(p))
      /\ UNCHANGED <<up, config, index, disk, task, changes>>
  BY DEF AppendEntries, history
<1>2. /\ log'[q] = log[p] /\ commit'[q] \in {commit[q], Entries(p).commit}
      /\ \A r \in Peer \ {q} : log'[r] = log[r] /\ commit'[r] = commit[r]
  BY <1>1, EntriesIs, AppendedType
<1>3. task'[q] = None
  BY <1>1, HearsDoes DEF Paused
<1>4. ~Paused(q)' /\ ~Takes(q)' /\ ~Writes(q)'
  BY <1>3, PausedNext
<1>5. Alone(q)
  BY <1>1, <1>2 DEF Alone
<1> QED  BY <1>1, <1>2, <1>4, <1>5, LogsNext

LEMMA AppendConfigEntriesDoes ==
  ASSUME TypeOK, TypeOK', NEW p \in Peer, NEW q \in Peer, AppendConfigEntries(p, q), ~LosesConfig
  PROVE  /\ Alone(q) /\ Hears(q, p) /\ Takes(q)' /\ ~Writes(q)'
         /\ own'[q] = log[p] /\ full'[q] = log[p] /\ task'[q] = Entries(p)
         /\ UNCHANGED <<up, log, commit, changes>>
         /\ \E j \in 1..Len(log[p]) :
              /\ log[p][j].config \in Config /\ j > Prev(p, q)
              /\ \A k \in j + 1..Len(log[p]) : log[p][k].config = None
              /\ config'[q] = log[p][j].config /\ index'[q] = j
              /\ disk'[q].config = log[p][j].config /\ disk'[q].index = j
<1>1. PICK j \in 1..Len(log[p]) :
        /\ log[p][j].config \in Config /\ j > Prev(p, q)
        /\ \A k \in j + 1..Len(log[p]) : log[p][k].config = None
        /\ config' = [config EXCEPT ![q] = log[p][j].config]
        /\ index' = [index EXCEPT ![q] = j]
        /\ disk' = [disk EXCEPT ![q] = [config |-> log[p][j].config, index |-> j]]
        /\ task' = [task EXCEPT ![q] = Entries(p)]
        /\ Entries(p).log = log[p]
        /\ Hears(q, p) /\ UNCHANGED <<up, log, commit, history>>
  BY NewConfigIs
<1>2. /\ config'[q] = log[p][j].config /\ index'[q] = j
      /\ disk'[q].config = log[p][j].config /\ disk'[q].index = j /\ task'[q] = Entries(p)
  BY <1>1 DEF TypeOK
<1>3. task'[q] \in Taking /\ task'[q].log = log[p]
  BY <1>1, <1>2, EntriesIs
<1>4. Takes(q)' /\ ~Writes(q)'
  BY <1>3, PausedNext
<1>5. own'[q] = log[p] /\ full'[q] = log[p]
  BY <1>3, <1>4, LogsNext
<1>6. Alone(q) /\ changes' = changes
  BY <1>1 DEF Alone, history
<1> QED  BY <1>1, <1>2, <1>4, <1>5, <1>6

LEMMA EntriesAppendedDoes ==
  ASSUME TypeOK, TypeOK', NEW q \in Peer, EntriesAppended(q)
  PROVE  /\ Alone(q) /\ Later /\ Deposed /\ Takes(q) /\ ~Paused(q)' /\ ~Takes(q)' /\ ~Writes(q)'
         /\ log'[q] = own[q] /\ own'[q] = own[q] /\ full'[q] = full[q] /\ full[q] = own[q]
         /\ commit'[q] \in {commit[q], task[q].commit}
         /\ UNCHANGED <<up, leads, config, index, term, disk, changes>>
<1>1. /\ Takes(q) /\ Appended(q, task[q]) /\ task' = [task EXCEPT ![q] = None]
      /\ UNCHANGED <<up, leads, config, index, term, disk, changes>>
  BY DEF EntriesAppended, Takes, history
<1>2. task[q] \in Taking /\ ~Writes(q) /\ own[q] = task[q].log /\ full[q] = own[q]
  BY <1>1, TaskIs, LogsOf
<1>3. /\ log'[q] = own[q] /\ commit'[q] \in {commit[q], task[q].commit}
      /\ \A r \in Peer \ {q} : log'[r] = log[r] /\ commit'[r] = commit[r]
  BY <1>1, <1>2, AppendedType
<1>4. task'[q] = None /\ Alone(q)
  BY <1>1, <1>3 DEF TypeOK, Alone
<1>5. ~Paused(q)' /\ ~Takes(q)' /\ ~Writes(q)'
  BY <1>4, PausedNext
<1> QED  BY <1>1, <1>2, <1>3, <1>4, <1>5, LogsNext, SameTerms

LEMMA RestartDoes ==
  ASSUME TypeOK, TypeOK', NEW p \in Peer, Restart(p), ~LosesConfig
  PROVE  /\ Alone(p) /\ Later /\ Deposed /\ up[p] /\ ~Takes(p) /\ ~leads'[p]
         /\ ~Paused(p)' /\ ~Takes(p)' /\ ~Writes(p)'
         /\ own[p] = log[p] /\ own'[p] = log[p] /\ full'[p] = log[p]
         /\ up'[p] => (Found(p) = 0 => disk[p].config.id = 0) /\ Found(p) <= Len(log[p])
         /\ config'[p] = disk[p].config /\ index'[p] = Found(p)
         /\ disk'[p].config = disk[p].config /\ disk'[p].index = Found(p)
         /\ UNCHANGED <<term, log, commit, changes>>
<1>1. /\ up[p] /\ ~Takes(p)
      /\ up' = [up EXCEPT ![p] = (Found(p) = 0 => disk[p].config.id = 0) /\ Found(p) <= Len(log[p])]
      /\ config' = [config EXCEPT ![p] = disk[p].config]
      /\ index' = [index EXCEPT ![p] = Found(p)]
      /\ disk' = [disk EXCEPT ![p] = [disk[p] EXCEPT !.index = Found(p)]]
      /\ leads' = [leads EXCEPT ![p] = FALSE]
      /\ task' = [task EXCEPT ![p] = None]
      /\ UNCHANGED <<term, log, commit, changes>>
  BY DEF Restart, Takes
<1>2. /\ task'[p] = None /\ config'[p] = disk[p].config /\ index'[p] = Found(p) /\ ~leads'[p]
      /\ up'[p] => (Found(p) = 0 => disk[p].config.id = 0) /\ Found(p) <= Len(log[p])
  <2> DEFINE starts == (Found(p) = 0 => disk[p].config.id = 0) /\ Found(p) <= Len(log[p])
  <2>1. up' = [up EXCEPT ![p] = starts]
    BY <1>1
  <2> HIDE DEF starts
  <2>2. up \in [Peer -> BOOLEAN] /\ config \in [Peer -> Config] /\ index \in [Peer -> Nat]
    BY DEF TypeOK
  <2>3. leads \in [Peer -> BOOLEAN] /\ task \in [Peer -> {None} \union Pending \union Taking]
    BY DEF TypeOK
  <2>4. up'[p] = starts
    BY <2>1, <2>2
  <2>5. config'[p] = disk[p].config /\ index'[p] = Found(p)
    BY <1>1, <2>2
  <2>6. task'[p] = None /\ ~leads'[p]
    BY <1>1, <2>3
  <2> QED  BY <2>4, <2>5, <2>6 DEF starts
<1>3. disk'[p].config = disk[p].config /\ disk'[p].index = Found(p)
  <2>1. disk[p] \in [config : Config, index : Nat] /\ disk \in [Peer -> [config : Config, index : Nat]]
    BY DEF TypeOK
  <2>2. disk'[p] = [disk[p] EXCEPT !.index = Found(p)]
    BY <1>1, <2>1
  <2> QED  BY <2>1, <2>2
<1>4. ~Paused(p)' /\ ~Takes(p)' /\ ~Writes(p)'
  BY <1>2, PausedNext
<1>5. Alone(p)
  BY <1>1 DEF Alone
<1>6. Later /\ Deposed
  BY <1>1 DEF Later, Deposed, TypeOK
<1> QED  BY <1>1, <1>2, <1>3, <1>4, <1>5, <1>6, LogsOf, LogsNext

LEMMA ElectDoes ==
  ASSUME TypeOK, TypeOK', NEW p \in Peer, NEW Q \in SUBSET Peer, Elect(p, Q)
  PROVE  /\ Alone(p) /\ Later /\ p \in Q /\ HasWonVoting(config[p], Q)
         /\ leads'[p] /\ term'[p] \in Nat
         /\ \A q \in Q : up[q] /\ ~Paused(q) /\ UpToDate(p, q) /\ term[q] < term'[p] /\ term'[q] = term'[p]
         /\ \A q \in Peer : term'[q] # term[q] => q \in Q
         /\ \A q \in Peer \ {p} : leads'[q] => leads[q] /\ term'[q] = term[q]
         /\ ~Paused(p)' /\ ~Takes(p)' /\ ~Writes(p)'
         /\ log'[p] \in {log[p], Append(log[p], Entry(term'[p], None))}
         /\ own'[p] = log'[p] /\ full'[p] = log'[p]
         /\ UNCHANGED <<up, commit, config, index, disk, task, changes>>
<1> DEFINE t == 1 + Max({term[q] : q \in Q})
<1>1. p \in Q /\ HasWonVoting(config[p], Q)
  BY DEF Elect
<1>2. t \in Nat /\ \A q \in Q : term[q] < t
  BY <1>1, MaxTermIs
<1> HIDE DEF t
<1>3. /\ \A q \in Q : up[q] /\ ~Paused(q) /\ UpToDate(p, q)
      /\ term' = [q \in Peer |-> IF q \in Q THEN t ELSE term[q]]
      /\ leads' = [q \in Peer |-> IF q \in Q THEN q = p ELSE leads[q]]
      /\ log' = log \/ log' = [log EXCEPT ![p] = Append(log[p], Entry(t, None))]
      /\ UNCHANGED <<up, commit, config, index, disk, task, changes>>
  BY DEF Elect, t, history
<1>4. term'[p] = t /\ leads'[p] /\ \A q \in Q : term'[q] = t
  BY <1>1, <1>3
<1>5. log'[p] \in {log[p], Append(log[p], Entry(t, None))} /\ Alone(p)
  BY <1>3 DEF Alone, TypeOK
<1>6. /\ \A q \in Peer : term'[q] # term[q] => q \in Q
      /\ \A q \in Peer \ {p} : leads'[q] => leads[q] /\ term'[q] = term[q]
  BY <1>3
<1>7. Later
  BY <1>2, <1>3 DEF Later, TypeOK
<1>8. task'[p] = None
  BY <1>1, <1>3 DEF Paused
<1>9. ~Paused(p)' /\ ~Takes(p)' /\ ~Writes(p)'
  BY <1>8, PausedNext
<1> QED  BY <1>1, <1>2, <1>3, <1>4, <1>5, <1>6, <1>7, <1>9, LogsNext

-----------------------------------------------------------------------------
(* Logs agree. *)

\* The steps of a peer but its election
Acts(a) ==
  \/ \E q \in Peer : StepDown(a, q) \/ AppendEntries(q, a) \/ AppendConfigEntries(q, a)
  \/ Update(a) \/ \E S \in Targets : ConfigUpdate(a, S)
  \/ ConfigStored(a) \/ ConfigAppended(a)
  \/ \E i \in 1..Len(log[a]) : Commit(a, i)
  \/ EntriesAppended(a) \/ Restart(a)

LEMMA AddsEntry ==
  ASSUME NEW p \in Peer, NEW c \in Config \union {None}, term'[p] \in Nat,
         full'[p] = Append(full[p], Entry(term'[p], c))
  PROVE  Adds(p)
  BY EntryIs DEF Adds

LEMMA ActsPlain ==
  ASSUME TypeOK, TypeOK', LocalInv, ~LosesConfig, NEW L, LogInv(L), NEW a \in Peer, Acts(a)
  PROVE  Alone(a) /\ Later /\ Deposed /\ Plain(L, a)
<1>1. /\ \A q \in Peer : {log[q], own[q], full[q]} \subseteq All(L)
      /\ \A q \in Peer : term[q] \in Nat /\ term'[q] \in Nat /\ log[q] \in Seq(Item)
  <2>1. \A q \in Peer : term[q] \in Nat /\ term'[q] \in Nat /\ log[q] \in Seq(Item)
    BY DEF TypeOK
  <2> QED  BY <2>1, AllLogs
<1>2. \A q \in Peer : Below(log[q], term[q])
  BY DEF LogInv
<1>3. ASSUME NEW c \in Config, Begins(a, c)  PROVE Alone(a) /\ Later /\ Deposed /\ Plain(L, a)
  <2>1. own[a] = log[a] /\ full[a] = log[a]
    BY <1>3, IdleIs DEF Begins
  <2>2. Adds(a)
    BY <1>1, <1>3, <2>1, AddsEntry DEF Begins
  <2> QED  BY <1>3, <2>1, <2>2 DEF Begins, Plain
<1>4. ASSUME Alone(a), Later, Deposed, UNCHANGED <<log, task, config>>
      PROVE  Alone(a) /\ Later /\ Deposed /\ Plain(L, a)
  <2>1. own'[a] = own[a] /\ full'[a] = full[a]
    BY <1>4, SamePeer
  <2> QED  BY <1>4, <2>1 DEF Plain
<1>5. ASSUME NEW q \in Peer, StepDown(a, q)  PROVE Alone(a) /\ Later /\ Deposed /\ Plain(L, a)
  BY <1>4, <1>5, StepDownDoes
<1>6. ASSUME Update(a)  PROVE Alone(a) /\ Later /\ Deposed /\ Plain(L, a)
  <2>1. /\ Alone(a) /\ Later /\ Deposed /\ leads'[a] /\ term'[a] = term[a] /\ ~Paused(a)
        /\ log'[a] = Append(log[a], Entry(term[a], None))
        /\ own'[a] = log'[a] /\ full'[a] = log'[a]
    BY <1>6, UpdateDoes
  <2>2. full[a] = log[a]
    BY <2>1, IdleIs
  <2>3. Adds(a)
    BY <1>1, <2>1, <2>2, AddsEntry
  <2> QED  BY <2>1, <2>3 DEF Plain
<1>7. ASSUME NEW S \in Targets, ConfigUpdate(a, S)  PROVE Alone(a) /\ Later /\ Deposed /\ Plain(L, a)
  BY <1>3, <1>7, ConfigUpdateDoes
<1>8. ASSUME ConfigStored(a)  PROVE Alone(a) /\ Later /\ Deposed /\ Plain(L, a)
  BY <1>8, ConfigStoredDoes DEF Plain
<1>9. ASSUME ConfigAppended(a)  PROVE Alone(a) /\ Later /\ Deposed /\ Plain(L, a)
  BY <1>9, ConfigAppendedDoes DEF Plain
<1>10. ASSUME NEW i \in 1..Len(log[a]), Commit(a, i)  PROVE Alone(a) /\ Later /\ Deposed /\ Plain(L, a)
  BY <1>3, <1>4, <1>10, CommitDoes
<1>11. ASSUME NEW q \in Peer, Hears(a, q)
       PROVE  /\ Later /\ Deposed /\ ~leads'[a]
              /\ Below(log[a], term'[a]) /\ Below(log[q], term'[a])
  <2>1. Later /\ Deposed /\ ~leads'[a] /\ term[a] <= term[q] /\ term'[a] = term[q]
    BY <1>11, HearsDoes
  <2> QED  BY <1>1, <1>2, <2>1, BelowRises
<1>12. ASSUME NEW q \in Peer, AppendEntries(q, a)  PROVE Alone(a) /\ Later /\ Deposed /\ Plain(L, a)
  <2>1. Alone(a) /\ Hears(a, q) /\ log'[a] = log[q] /\ own'[a] = log[q] /\ full'[a] = log[q]
    BY <1>12, AppendEntriesDoes
  <2> QED  BY <1>1, <1>11, <2>1 DEF Plain
<1>13. ASSUME NEW q \in Peer, AppendConfigEntries(q, a)  PROVE Alone(a) /\ Later /\ Deposed /\ Plain(L, a)
  <2>1. Alone(a) /\ Hears(a, q) /\ log' = log /\ own'[a] = log[q] /\ full'[a] = log[q]
    BY <1>13, AppendConfigEntriesDoes
  <2> QED  BY <1>1, <1>11, <2>1 DEF Plain
<1>14. ASSUME EntriesAppended(a)  PROVE Alone(a) /\ Later /\ Deposed /\ Plain(L, a)
  BY <1>14, EntriesAppendedDoes DEF Plain
<1>15. ASSUME Restart(a)  PROVE Alone(a) /\ Later /\ Deposed /\ Plain(L, a)
  <2>1. /\ Alone(a) /\ Later /\ Deposed /\ ~leads'[a] /\ log' = log /\ term' = term
        /\ own'[a] = log[a] /\ full'[a] = log[a]
    BY <1>15, RestartDoes
  <2> QED  BY <1>1, <1>2, <2>1 DEF Plain
<1> QED  BY <1>5, <1>6, <1>7, <1>8, <1>9, <1>10, <1>12, <1>13, <1>14, <1>15 DEF Acts

LEMMA ElectLog ==
  ASSUME TypeOK, TypeOK', NEW L, LogInv(L), NEW p \in Peer, NEW Q \in SUBSET Peer, Elect(p, Q),
         \A q \in Peer : leads[q] => term[q] # term'[p],
         \A m \in All(L) : \A k \in 1..Len(m) : m[k].term # term'[p],
         NEW K, K = L \union {log'[p], own'[p]}
  PROVE  LogInv(K)'
<1>1. /\ Alone(p) /\ Later /\ p \in Q /\ leads'[p] /\ term'[p] \in Nat
      /\ ~Paused(p) /\ term[p] < term'[p]
      /\ \A q \in Peer \ {p} : leads'[q] => leads[q] /\ term'[q] = term[q]
      /\ log'[p] \in {log[p], Append(log[p], Entry(term'[p], None))}
      /\ own'[p] = log'[p] /\ full'[p] = log'[p]
  BY ElectDoes
<1>2. full[p] = log[p] /\ log[p] \in Seq(Item) /\ log[p] \in All(L) /\ term[p] \in Nat
  BY <1>1, IdleIs, LogsOf, AllLogs DEF TypeOK
<1>3. Below(log[p], term'[p])
  <2>1. Below(log[p], term[p]) /\ term[p] <= term'[p]
    BY <1>1, <1>2 DEF LogInv
  <2> QED  BY <1>1, <1>2, <2>1, BelowRises
<1>4. Below(full'[p], term'[p])
  <2>1. Entry(term'[p], None) \in Item /\ Entry(term'[p], None).term <= term'[p]
    BY <1>1, EntryIs
  <2> QED  BY <1>1, <1>2, <1>3, <2>1, BelowAppend
<1>5. full'[p] = full[p] \/ Adds(p)
  BY <1>1, <1>2, AddsEntry
<1>6. \A m \in All(L) : HasTerm(full[p], m, term'[p])
  BY DEF HasTerm
<1> QED  BY <1>1, <1>2, <1>4, <1>5, <1>6, AloneLog

-----------------------------------------------------------------------------
(* Each peer uses the last configuration in its log. *)

LEMMA SelfNext ==
  ASSUME NEW p \in Peer,
         (leads'[p] \/ Paused(p)') => up'[p],
         up'[p] /\ ~Writes(p)' => LastConfig(own'[p], config'[p]),
         Writes(p)' => /\ index'[p] = 0 /\ config'[p].id # 0
                       /\ (task'[p].step = "log" => disk'[p].index = 0),
         Paused(p)' /\ task'[p].step = "file" => LastConfig(log'[p], disk'[p].config),
         ~ (Paused(p)' /\ task'[p].step = "file") => disk'[p].config = config'[p],
         up'[p] => At(own'[p], index'[p], config'[p]) /\ At(own'[p], disk'[p].index, disk'[p].config),
         Takes(p)' => ~leads'[p] /\ HasTerm(own'[p], log'[p], term'[p])
  PROVE  SelfInv(p)'
<1>1. /\ LastConfig(own[p], config[p])' <=> LastConfig(own'[p], config'[p])
      /\ LastConfig(log[p], disk[p].config)' <=> LastConfig(log'[p], disk'[p].config)
  BY DEF LastConfig, First
<1>2. /\ At(own[p], index[p], config[p])' <=> At(own'[p], index'[p], config'[p])
      /\ At(own[p], disk[p].index, disk[p].config)' <=> At(own'[p], disk'[p].index, disk'[p].config)
  BY DEF At
<1>3. HasTerm(own[p], log[p], term[p])' <=> HasTerm(own'[p], log'[p], term'[p])
  BY DEF HasTerm, AgreeTo
<1> QED  BY <1>1, <1>2, <1>3 DEF SelfInv

LEMMA SelfSame ==
  ASSUME NEW q \in Peer, SelfInv(q), log'[q] = log[q], task'[q] = task[q], config'[q] = config[q],
         up'[q] = up[q], index'[q] = index[q], disk'[q] = disk[q],
         leads'[q] => leads[q], term'[q] # term[q] => ~Takes(q)
  PROVE  SelfInv(q)'
<1>1. /\ own'[q] = own[q] /\ (Takes(q)' <=> Takes(q)) /\ (Writes(q)' <=> Writes(q))
      /\ (Paused(q)' <=> Paused(q))
  BY SamePeer
<1>2. /\ (leads[q] \/ Paused(q)) => up[q]
      /\ up[q] /\ ~Writes(q) => LastConfig(own[q], config[q])
      /\ Writes(q) => index[q] = 0 /\ config[q].id # 0 /\ (task[q].step = "log" => disk[q].index = 0)
      /\ Paused(q) /\ task[q].step = "file" => LastConfig(log[q], disk[q].config)
      /\ ~ (Paused(q) /\ task[q].step = "file") => disk[q].config = config[q]
      /\ up[q] => At(own[q], index[q], config[q]) /\ At(own[q], disk[q].index, disk[q].config)
      /\ Takes(q) => ~leads[q] /\ HasTerm(own[q], log[q], term[q])
  BY DEF SelfInv
<1> QED  BY <1>1, <1>2, SelfNext

\* Of the last configuration in a log, when the log grows
LEMMA LastGrows ==
  ASSUME NEW l \in Seq(Item), NEW t \in Nat
  PROVE  /\ \A f \in Config : LastConfig(Append(l, Entry(t, None)), f) <=> LastConfig(l, f)
         /\ \A f \in Config : LastConfig(Append(l, Entry(t, f)), f)
         /\ \A f, g \in Config : LastConfig(Append(l, Entry(t, f)), g) => g = f
         /\ \A i \in Nat, f \in Config, c \in Config \union {None} :
              At(l, i, f) => At(Append(l, Entry(t, c)), i, f)
<1>1. Len(l) \in Nat
  BY ItemOf
<1>2. ASSUME NEW c \in Config \union {None}
      PROVE  LET m == Append(l, Entry(t, c)) IN
             /\ Len(m) = Len(l) + 1 /\ m[Len(l) + 1].config = c
             /\ \A k \in 1..Len(l) : m[k] = l[k]
  BY EntryIs, Longer
<1>3. ASSUME NEW f \in Config  PROVE LastConfig(Append(l, Entry(t, None)), f) <=> LastConfig(l, f)
  <2> DEFINE m == Append(l, Entry(t, None))
  <2>1. Len(m) = Len(l) + 1 /\ m[Len(l) + 1].config = None /\ \A k \in 1..Len(l) : m[k] = l[k]
    BY <1>2
  <2>2. f # None
    BY ConfigIs
  <2> HIDE DEF m
  <2>3. LastConfig(m, f) => LastConfig(l, f)
    <3>1. CASE f = First /\ \A j \in 1..Len(m) : m[j].config = None
      BY <1>1, <2>1, <3>1 DEF LastConfig
    <3>2. ASSUME NEW j \in 1..Len(m), m[j].config = f, \A k \in j + 1..Len(m) : m[k].config = None
          PROVE  LastConfig(l, f)
      <4>1. j \in 1..Len(l)
        BY <1>1, <2>1, <2>2, <3>2
      <4>2. l[j].config = f /\ \A k \in j + 1..Len(l) : k \in j + 1..Len(m) /\ m[k] = l[k]
        BY <1>1, <2>1, <3>2, <4>1
      <4>3. \A k \in j + 1..Len(l) : l[k].config = None
        BY <3>2, <4>2
      <4> QED  BY <4>1, <4>2, <4>3 DEF LastConfig
    <3> QED  BY <3>1, <3>2 DEF LastConfig
  <2>4. LastConfig(l, f) => LastConfig(m, f)
    <3>1. CASE f = First /\ \A j \in 1..Len(l) : l[j].config = None
      <4>1. \A j \in 1..Len(m) : j \in 1..Len(l) \/ j = Len(l) + 1
        BY <1>1, <2>1
      <4>2. \A j \in 1..Len(m) : m[j].config = None
        BY <2>1, <3>1, <4>1
      <4> QED  BY <3>1, <4>2 DEF LastConfig
    <3>2. ASSUME NEW j \in 1..Len(l), l[j].config = f, \A k \in j + 1..Len(l) : l[k].config = None
          PROVE  LastConfig(m, f)
      <4>1. j \in 1..Len(m) /\ m[j].config = f
        BY <1>1, <2>1, <3>2
      <4>2. \A k \in j + 1..Len(m) : (k \in j + 1..Len(l) /\ m[k] = l[k]) \/ k = Len(l) + 1
        BY <1>1, <2>1
      <4>3. \A k \in j + 1..Len(m) : m[k].config = None
        BY <2>1, <3>2, <4>2
      <4> QED  BY <4>1, <4>3 DEF LastConfig
    <3> QED  BY <3>1, <3>2 DEF LastConfig
  <2> QED  BY <2>3, <2>4 DEF m
<1>4. ASSUME NEW f \in Config  PROVE LastConfig(Append(l, Entry(t, f)), f)
  <2> DEFINE m == Append(l, Entry(t, f))
  <2>1. Len(m) = Len(l) + 1 /\ m[Len(l) + 1].config = f
    BY <1>2
  <2> HIDE DEF m
  <2>2. Len(m) \in 1..Len(m) /\ m[Len(m)].config = f /\ \A k \in Len(m) + 1..Len(m) : m[k].config = None
    BY <1>1, <2>1
  <2> QED  BY <2>2 DEF LastConfig, m
<1>5. ASSUME NEW f \in Config, NEW g \in Config, LastConfig(Append(l, Entry(t, f)), g)  PROVE g = f
  <2> DEFINE m == Append(l, Entry(t, f))
  <2>1. Len(m) = Len(l) + 1 /\ m[Len(l) + 1].config = f /\ f # None
    BY <1>2, ConfigIs
  <2>2. LastConfig(m, g)
    BY <1>5
  <2> HIDE DEF m
  <2>3. Len(l) + 1 \in 1..Len(m)
    BY <1>1, <2>1
  <2>4. PICK j \in 1..Len(m) : m[j].config = g /\ \A k \in j + 1..Len(m) : m[k].config = None
    BY <2>1, <2>2, <2>3 DEF LastConfig
  <2>5. j = Len(l) + 1
    <3>1. j # Len(l) + 1 => Len(l) + 1 \in j + 1..Len(m)
      BY <1>1, <2>1
    <3> QED  BY <2>1, <2>4, <3>1
  <2> QED  BY <2>1, <2>4, <2>5
<1>6. ASSUME NEW i \in Nat, NEW f \in Config, NEW c \in Config \union {None}, At(l, i, f)
      PROVE  At(Append(l, Entry(t, c)), i, f)
  <2> DEFINE m == Append(l, Entry(t, c))
  <2>1. Len(m) = Len(l) + 1 /\ \A k \in 1..Len(l) : m[k] = l[k]
    BY <1>2
  <2> HIDE DEF m
  <2>2. At(m, i, f)
    BY <1>1, <1>6, <2>1 DEF At
  <2> QED  BY <2>2 DEF m
<1> QED  BY <1>3, <1>4, <1>5, <1>6

\* and when it is that of another peer, with the same configurations.
LEMMA LastSame ==
  ASSUME NEW l \in Seq(Item), NEW m \in Seq(Item), NEW n \in Nat, AgreeTo(l, m, n),
         ConfigsAfter(l, n) = {}, ConfigsAfter(m, n) = {}
  PROVE  /\ \A f \in Config : LastConfig(l, f) => LastConfig(m, f)
         /\ \A i \in Nat, f \in Config : At(l, i, f) => At(m, i, f)
<1>1. /\ Len(l) \in Nat /\ Len(m) \in Nat /\ n <= Len(l) /\ n <= Len(m)
      /\ \A k \in 1..n : l[k] = m[k]
  BY ItemOf DEF AgreeTo
<1>2. \A k \in n + 1..Len(l) : l[k].config = None
  BY <1>1 DEF ConfigsAfter
<1>3. \A k \in n + 1..Len(m) : m[k].config = None
  BY <1>1 DEF ConfigsAfter
<1>4. \A k \in Int : (k \in 1..Len(m) <=> k \in 1..n \/ k \in n + 1..Len(m))
                     /\ (k \in 1..Len(l) <=> k \in 1..n \/ k \in n + 1..Len(l))
  BY <1>1
<1>5. ASSUME NEW f \in Config, LastConfig(l, f)  PROVE LastConfig(m, f)
  <2>1. f # None
    BY ConfigIs
  <2>2. CASE f = First /\ \A j \in 1..Len(l) : l[j].config = None
    <3>1. ASSUME NEW j \in 1..Len(m)  PROVE m[j].config = None
      <4>1. CASE j \in 1..n
        <5>1. j \in 1..Len(l) /\ m[j] = l[j]
          BY <1>1, <4>1
        <5> QED  BY <2>2, <5>1
      <4> QED  BY <1>3, <1>4, <4>1
    <3> QED  BY <2>2, <3>1 DEF LastConfig
  <2>3. ASSUME NEW j \in 1..Len(l), l[j].config = f, \A k \in j + 1..Len(l) : l[k].config = None
        PROVE  LastConfig(m, f)
    <3>1. j \in 1..n
      BY <1>2, <1>4, <2>1, <2>3
    <3>2. j \in 1..Len(m) /\ m[j].config = f
      BY <1>1, <2>3, <3>1
    <3>3. ASSUME NEW k \in j + 1..Len(m)  PROVE m[k].config = None
      <4>1. CASE k \in 1..n
        <5>1. k \in j + 1..Len(l) /\ m[k] = l[k]
          BY <1>1, <3>1, <4>1
        <5> QED  BY <2>3, <5>1
      <4>2. k \in 1..n \/ k \in n + 1..Len(m)
        BY <1>1, <3>1
      <4> QED  BY <1>3, <4>1, <4>2
    <3> QED  BY <3>2, <3>3 DEF LastConfig
  <2> QED  BY <1>5, <2>2, <2>3 DEF LastConfig
<1>6. ASSUME NEW i \in Nat, NEW f \in Config, At(l, i, f)  PROVE At(m, i, f)
  <2> SUFFICES ASSUME i # 0  PROVE i \in 1..Len(m) /\ m[i].config = f
    BY DEF At
  <2>1. i \in 1..Len(l) /\ l[i].config = f /\ f # None
    BY <1>6, ConfigIs DEF At
  <2>2. i \in 1..n
    BY <1>2, <1>4, <2>1
  <2> QED  BY <1>1, <2>1, <2>2
<1> QED  BY <1>5, <1>6

LEMMA ActsTerms ==
  ASSUME TypeOK, TypeOK', NEW a \in Peer, Acts(a)
  PROVE  \A q \in Peer \ {a} : term'[q] = term[q]
<1>1. ASSUME NEW q \in Peer, Hears(a, q)  PROVE \A r \in Peer \ {a} : term'[r] = term[r]
  BY <1>1, HearsGives
<1>2. ASSUME NEW q \in Peer, StepDown(a, q)  PROVE \A r \in Peer \ {a} : term'[r] = term[r]
  BY <1>2 DEF StepDown, TypeOK
<1>3. CASE term' = term
  BY <1>3
<1>4. CASE Update(a) \/ \E S \in Targets : ConfigUpdate(a, S)
  BY <1>3, <1>4 DEF Update, ConfigUpdate
<1>5. CASE ConfigStored(a) \/ ConfigAppended(a) \/ \E i \in 1..Len(log[a]) : Commit(a, i)
  BY <1>3, <1>5 DEF ConfigStored, ConfigAppended, Commit
<1>6. CASE EntriesAppended(a) \/ Restart(a)
  BY <1>3, <1>6 DEF EntriesAppended, Restart
<1>7. CASE \E q \in Peer : AppendEntries(q, a) \/ AppendConfigEntries(q, a)
  BY <1>1, <1>7 DEF AppendEntries, AppendConfigEntries
<1> QED  BY <1>2, <1>4, <1>5, <1>6, <1>7 DEF Acts

LEMMA PrevAgrees ==
  ASSUME TypeOK, NEW L, LogInv(L), NEW p \in Peer, NEW q \in Peer
  PROVE  AgreeTo(log[p], log[q], Prev(p, q)) /\ AgreeTo(log[q], log[p], Prev(p, q))
<1> DEFINE n == Prev(p, q)
<1>1. /\ n \in Nat /\ n <= Len(log[p]) /\ n <= Len(log[q])
      /\ n # 0 => log[p][n] = log[q][n]
      /\ log[p] \in Seq(Item) /\ log[q] \in Seq(Item) /\ Len(log[p]) \in Nat /\ Len(log[q]) \in Nat
  BY PrevIs, LogsOf, ItemOf
<1> HIDE DEF n
<1>2. AgreeTo(log[p], log[q], n)
  <2>1. CASE n = 0
    BY <1>1, <2>1 DEF AgreeTo
  <2>2. CASE n # 0
    <3>1. n \in 1..Len(log[p]) /\ n \in 1..Len(log[q]) /\ log[p][n].term = log[q][n].term /\ n <= n
      BY <1>1, <2>2
    <3>2. Matches(log[p], log[q])
      BY AllLogs DEF LogInv
    <3> QED  BY <3>1, <3>2 DEF Matches
  <2> QED  BY <2>1, <2>2
<1>3. AgreeTo(log[q], log[p], n)
  BY <1>1, <1>2, Agreement
<1> QED  BY <1>2, <1>3 DEF n

\* Entries without a new configuration
LEMMA NoNewConfig ==
  ASSUME TypeOK, LocalInv, NEW p \in Peer, NEW q \in Peer, AppendEntries(p, q), ~LosesConfig
  PROVE  ConfigsAfter(log[q], Prev(p, q)) = {} /\ ConfigsAfter(log[p], Prev(p, q)) = {}
<1> DEFINE S == ConfigsAfter(log[p], Prev(p, q))
<1>1. /\ NewIndex(p, q) = 0 /\ ConfigsAfter(log[q], Prev(p, q)) = {}
      /\ up[q] /\ ~Paused(q)
  BY DEF AppendEntries, Hears
<1>2. /\ log[p] \in Seq(Item) /\ log[q] \in Seq(Item) /\ Prev(p, q) \in Nat
      /\ Len(log[q]) \in Nat /\ index[q] \in Nat /\ config[q] \in Config
  BY PrevIs, LogsOf, ItemOf DEF TypeOK
<1>3. ASSUME S # {}  PROVE FALSE
  <2>1. Max(S) \in Nat /\ Max(S) > Prev(p, q)
    <3>1. S \subseteq 1..Len(log[p]) /\ Max(S) \in S /\ \A j \in S : j > Prev(p, q)
      BY <1>2, <1>3, ConfigsAfterIs
    <3> QED  BY <3>1
  <2>2. index[q] # 0 /\ Max(S) <= index[q]
    BY <1>1, <1>3, <2>1, <1>2 DEF NewIndex
  <2>3. At(log[q], index[q], config[q])
    BY <1>1, IdleIs DEF LocalInv, SelfInv
  <2>4. index[q] \in 1..Len(log[q]) /\ log[q][index[q]].config # None
    BY <1>2, <2>2, <2>3, ConfigIs DEF At
  <2>5. index[q] > Prev(p, q)
    BY <1>2, <2>1, <2>2
  <2> QED  BY <1>1, <1>2, <2>4, <2>5, ConfigsAfterIs
<1> QED  BY <1>1, <1>3

LEMMA OthersLocal ==
  ASSUME LocalInv, NEW a \in Peer, Alone(a), SelfInv(a)',
         \A q \in Peer \ {a} : (leads'[q] => leads[q]) /\ (term'[q] # term[q] => ~Takes(q))
  PROVE  LocalInv'
<1>1. ASSUME NEW q \in Peer, q # a  PROVE SelfInv(q)'
  BY <1>1, SelfSame DEF LocalInv, Alone
<1>2. \A q \in Peer : SelfInv(q)'
  BY <1>1
<1> QED  BY <1>2 DEF LocalInv

\* One more entry, without configuration
LEMMA GrowsLocal ==
  ASSUME TypeOK, TypeOK', LocalInv, NEW p \in Peer, NEW t \in Nat, ~Paused(p), up[p],
         ~Paused(p)', ~Takes(p)', ~Writes(p)',
         log'[p] \in {log[p], Append(log[p], Entry(t, None))}, own'[p] = log'[p],
         UNCHANGED <<up, config, index, disk>>
  PROVE  SelfInv(p)'
<1>1. /\ own[p] = log[p] /\ log[p] \in Seq(Item) /\ config[p] \in Config
      /\ disk[p].config \in Config /\ disk[p].index \in Nat /\ index[p] \in Nat
  BY IdleIs, LogsOf DEF TypeOK
<1>2. /\ LastConfig(log[p], config[p]) /\ disk[p].config = config[p]
      /\ At(log[p], index[p], config[p]) /\ At(log[p], disk[p].index, disk[p].config)
  BY <1>1, IdleIs DEF LocalInv, SelfInv
<1> DEFINE m == Append(log[p], Entry(t, None))
<1>3. LastConfig(m, config[p])
  BY <1>1, <1>2, LastGrows
<1>4. At(m, index[p], config[p]) /\ At(m, disk[p].index, disk[p].config)
  BY <1>1, <1>2, LastGrows
<1> HIDE DEF m
<1>5. own'[p] \in {log[p], m}
  BY DEF m
<1>6. LastConfig(own'[p], config[p])
      /\ At(own'[p], index[p], config[p]) /\ At(own'[p], disk[p].index, disk[p].config)
  BY <1>2, <1>3, <1>4, <1>5
<1> QED  BY <1>2, <1>6, SelfNext

LEMMA BeginsLocal ==
  ASSUME TypeOK, TypeOK', LocalInv, NEW p \in Peer, NEW c \in Config, Begins(p, c), c.id # 0
  PROVE  SelfInv(p)'
<1>1. /\ own[p] = log[p] /\ leads[p] /\ up[p] /\ ~Paused(p) /\ ~Writes(p)
  BY IdleIs DEF Begins, LocalInv, SelfInv
<1>2. /\ LastConfig(log[p], disk[p].config) /\ At(log[p], disk[p].index, disk[p].config)
  BY <1>1 DEF LocalInv, SelfInv
<1>3. At(own'[p], 0, c)
  BY DEF At
<1>4. /\ up'[p] /\ Paused(p)' /\ Writes(p)' /\ ~Takes(p)' /\ index'[p] = 0 /\ config'[p] = c
      /\ task'[p].step = "file" /\ log'[p] = log[p] /\ own'[p] = log[p] /\ disk' = disk
  BY <1>1, TaskIs DEF Begins, Writes
<1> QED  BY <1>2, <1>3, <1>4, SelfNext

LEMMA StoredLocal ==
  ASSUME TypeOK, TypeOK', LocalInv, NEW p \in Peer, ConfigStored(p) \/ ConfigAppended(p)
  PROVE  SelfInv(p)'
<1>1. CASE ConfigStored(p)
  <2>1. /\ Writes(p) /\ Writes(p)' /\ ~Takes(p)' /\ task'[p].step = "log" /\ own'[p] = own[p]
        /\ disk'[p].config = config[p] /\ disk'[p].index = 0
        /\ UNCHANGED <<up, leads, config, index, log>>
    BY <1>1, ConfigStoredDoes
  <2>2. up[p] /\ index[p] = 0 /\ config[p].id # 0
    BY <2>1 DEF LocalInv, SelfInv, Writes
  <2>3. At(own'[p], 0, config[p])
    BY DEF At
  <2> QED  BY <2>1, <2>2, <2>3, SelfNext
<1>2. CASE ConfigAppended(p)
  <2>1. /\ Writes(p) /\ task[p].step = "log" /\ ~Paused(p)' /\ ~Writes(p)' /\ ~Takes(p)'
        /\ own'[p] = full[p] /\ index'[p] = Len(full[p]) /\ disk'[p].config = disk[p].config
        /\ disk'[p].index \in {disk[p].index, index'[p]}
        /\ UNCHANGED <<up, leads, config>>
    BY <1>2, ConfigAppendedDoes
  <2>2. up[p] /\ disk[p].config = config[p] /\ disk[p].index = 0
    BY <2>1 DEF LocalInv, SelfInv, Writes
  <2>3. /\ log[p] \in Seq(Item) /\ config[p] \in Config /\ task[p].term \in Nat
        /\ full[p] = Append(log[p], Entry(task[p].term, config[p]))
    BY <2>1, TaskIs, LogsOf DEF TypeOK
  <2>4. LastConfig(full[p], config[p])
    BY <2>3, LastGrows
  <2>5. At(full[p], Len(full[p]), config[p])
    <3>1. Entry(task[p].term, config[p]) \in Item /\ Entry(task[p].term, config[p]).config = config[p]
      BY <2>3, EntryIs
    <3>2. Len(full[p]) = Len(log[p]) + 1 /\ full[p][Len(log[p]) + 1].config = config[p] /\ Len(log[p]) \in Nat
      BY <2>3, <3>1, Longer, ItemOf
    <3> QED  BY <3>2 DEF At
  <2>6. At(full[p], 0, config[p])
    BY DEF At
  <2>7. At(own'[p], index'[p], config'[p]) /\ At(own'[p], disk'[p].index, disk'[p].config)
    BY <2>1, <2>2, <2>5, <2>6
  <2> QED  BY <2>1, <2>2, <2>4, <2>7, SelfNext
<1> QED  BY <1>1, <1>2

LEMMA AppendLocal ==
  ASSUME TypeOK, TypeOK', LocalInv, ~LosesConfig, NEW L, LogInv(L),
         NEW p \in Peer, NEW q \in Peer, AppendEntries(p, q)
  PROVE  SelfInv(q)'
<1>1. /\ Hears(q, p) /\ ~Paused(q)' /\ ~Takes(q)' /\ ~Writes(q)'
      /\ own'[q] = log[p]
      /\ UNCHANGED <<up, config, index, disk>>
  BY AppendEntriesDoes
<1>2. up[q] /\ ~Paused(q)
  BY <1>1, HearsDoes
<1>3. /\ own[q] = log[q] /\ log[q] \in Seq(Item) /\ log[p] \in Seq(Item) /\ config[q] \in Config
      /\ disk[q].config \in Config /\ disk[q].index \in Nat /\ index[q] \in Nat /\ Prev(p, q) \in Nat
  BY <1>2, IdleIs, LogsOf, PrevIs DEF TypeOK
<1>4. /\ LastConfig(log[q], config[q]) /\ disk[q].config = config[q]
      /\ At(log[q], index[q], config[q]) /\ At(log[q], disk[q].index, disk[q].config)
  BY <1>2, <1>3, IdleIs DEF LocalInv, SelfInv
<1>5. /\ LastConfig(log[p], config[q])
      /\ At(log[p], index[q], config[q]) /\ At(log[p], disk[q].index, disk[q].config)
  BY <1>3, <1>4, NoNewConfig, PrevAgrees, LastSame
<1> QED  BY <1>1, <1>2, <1>4, <1>5, SelfNext

LEMMA AppendConfigLocal ==
  ASSUME TypeOK, TypeOK', LocalInv, ~LosesConfig, NEW L, LogInv(L), FreshInv(L),
         NEW p \in Peer, NEW q \in Peer, AppendConfigEntries(p, q)
  PROVE  SelfInv(q)'
<1>1. PICK j \in 1..Len(log[p]) :
        /\ log[p][j].config \in Config
        /\ \A k \in j + 1..Len(log[p]) : log[p][k].config = None
        /\ config'[q] = log[p][j].config /\ index'[q] = j
        /\ disk'[q].config = log[p][j].config /\ disk'[q].index = j
  BY AppendConfigEntriesDoes
<1>2. /\ Hears(q, p) /\ Takes(q)' /\ ~Writes(q)' /\ own'[q] = log[p] /\ log' = log /\ up' = up
  BY AppendConfigEntriesDoes
<1>3. leads[p] /\ up[q] /\ term'[q] = term[p] /\ ~leads'[q]
  BY <1>2, HearsDoes
<1>4. LastConfig(log[p], log[p][j].config) /\ At(log[p], j, log[p][j].config)
  BY <1>1 DEF LastConfig, At
<1>5. HasTerm(log[p], log[q], term[p])
  <2> SUFFICES ASSUME NEW k \in 1..Len(log[q]), log[q][k].term = term[p]
               PROVE  AgreeTo(log[q], log[p], k)
    BY DEF HasTerm
  <2>1. AgreeTo(log[q], full[p], k)
    BY <1>3, AllLogs DEF LogInv, HasTerm
  <2>2. CASE ~Writes(p)
    <3>1. ~Takes(p)
      BY <1>3 DEF LocalInv, SelfInv
    <3>2. full[p] = log[p]
      BY <2>2, <3>1, LogsOf
    <3> QED  BY <2>1, <3>2
  <2>3. CASE Writes(p)
    <3>1. /\ full[p] = Append(log[p], Entry(task[p].term, config[p]))
          /\ Entry(task[p].term, config[p]) \in Item /\ log[p] \in Seq(Item)
      BY <2>3, LogsOf
    <3>2. /\ Len(log[p]) \in Nat /\ Len(full[p]) = Len(log[p]) + 1
          /\ \A i \in 1..Len(log[p]) : full[p][i] = log[p][i]
          /\ full[p][Len(log[p]) + 1] = Entry(task[p].term, config[p])
      BY <3>1, Longer, ItemOf
    <3>3. k <= Len(full[p]) /\ log[q][k] = full[p][k] /\ Len(log[q]) \in Nat
          /\ k <= Len(log[q]) /\ \A i \in 1..k : log[q][i] = full[p][i]
      BY <2>1, LogsOf, ItemOf DEF AgreeTo
    <3>4. k # Len(log[p]) + 1
      <4>1. ~HasConfig(log[q], config[p])
        BY <2>3 DEF FreshInv, LogInv
      <4>2. log[q][k].config # config[p]
        BY <4>1 DEF HasConfig
      <4>3. Entry(task[p].term, config[p]).config = config[p]
        BY DEF Entry
      <4> QED  BY <3>2, <3>3, <4>2, <4>3
    <3>5. k <= Len(log[p])
      BY <3>2, <3>3, <3>4
    <3>6. \A i \in 1..k : log[q][i] = log[p][i]
      BY <3>2, <3>3, <3>5
    <3> QED  BY <3>3, <3>5, <3>6 DEF AgreeTo
  <2> QED  BY <2>2, <2>3
<1>6. task'[q] = Entries(p) /\ Entries(p).step = "entries"
  BY AppendConfigEntriesDoes, EntriesIs
<1> QED  BY <1>1, <1>2, <1>3, <1>4, <1>5, <1>6, SelfNext

LEMMA RestartLocal ==
  ASSUME TypeOK, TypeOK', LocalInv, ~LosesConfig, NEW L, LogInv(L), FreshInv(L),
         NEW p \in Peer, Restart(p)
  PROVE  SelfInv(p)'
<1>1. /\ up[p] /\ ~Takes(p) /\ ~leads'[p] /\ ~Paused(p)' /\ ~Takes(p)' /\ ~Writes(p)'
      /\ own[p] = log[p] /\ own'[p] = log[p]
      /\ up'[p] => (Found(p) = 0 => disk[p].config.id = 0) /\ Found(p) <= Len(log[p])
      /\ config'[p] = disk[p].config /\ index'[p] = Found(p)
      /\ disk'[p].config = disk[p].config /\ disk'[p].index = Found(p)
  BY RestartDoes
<1>2. disk[p].config \in Config
  BY DEF TypeOK
<1>3. At(log[p], disk[p].index, disk[p].config)
  BY <1>1 DEF LocalInv, SelfInv
<1>4. At(log[p], Found(p), disk[p].config)
  BY <1>3, FoundIs DEF At
<1>5. up'[p] => LastConfig(log[p], disk[p].config)
  <2>1. CASE ~Writes(p)
    <3>1. ~Paused(p)
      BY <1>1, <2>1, TaskIs
    <3> QED  BY <1>1, <2>1, <3>1 DEF LocalInv, SelfInv
  <2>2. CASE Writes(p) /\ task[p].step = "file"
    BY <2>2 DEF LocalInv, SelfInv, Writes
  <2>3. CASE Writes(p) /\ task[p].step = "log"
    <3>1. disk[p].index = 0 /\ disk[p].config = config[p] /\ config[p].id # 0
      BY <2>3 DEF LocalInv, SelfInv
    <3>2. ~HasConfig(log[p], config[p])
      BY <2>3 DEF FreshInv, LogInv
    <3>3. Found(p) = 0
      BY <3>1, <3>2, FoundIs DEF HasConfig
    <3> QED  BY <1>1, <3>1, <3>3
  <2> QED  BY <2>1, <2>2, <2>3, TaskIs
<1> QED  BY <1>1, <1>4, <1>5, SelfNext

LEMMA ActsLocal ==
  ASSUME TypeOK, TypeOK', LocalInv, ~LosesConfig, NEW L, LogInv(L), FreshInv(L),
         NEW a \in Peer, Acts(a)
  PROVE  LocalInv'
<1>1. Alone(a) /\ Deposed /\ \A q \in Peer \ {a} : term'[q] = term[q]
  BY ActsPlain, ActsTerms
<1>2. SelfInv(a)
  BY DEF LocalInv
<1>3. changes + 1 # 0 /\ term[a] \in Nat /\ config[a] \in Config
  BY DEF TypeOK
<1>4. ASSUME NEW q \in Peer, StepDown(a, q)  PROVE SelfInv(a)'
  <2>1. ~leads'[a] /\ UNCHANGED <<up, log, config, index, disk, task>>
    BY <1>4, StepDownDoes
  <2>2. ~Takes(a)
    BY <1>2, <1>4 DEF StepDown, SelfInv
  <2> QED  BY <1>2, <2>1, <2>2, SelfSame
<1>5. ASSUME Update(a)  PROVE SelfInv(a)'
  <2>1. /\ ~Paused(a) /\ ~Paused(a)' /\ ~Takes(a)' /\ ~Writes(a)' /\ leads[a]
        /\ log'[a] = Append(log[a], Entry(term[a], None)) /\ own'[a] = log'[a]
        /\ UNCHANGED <<up, config, index, disk>>
    BY <1>5, UpdateDoes
  <2>2. up[a]
    BY <1>2, <2>1 DEF SelfInv
  <2> QED  BY <1>3, <2>1, <2>2, GrowsLocal
<1>6. ASSUME NEW S \in Targets, ConfigUpdate(a, S)  PROVE SelfInv(a)'
  <2>1. Joined(config[a], S, changes + 1).id # 0
    BY <1>3 DEF Joined
  <2> QED  BY <1>6, <2>1, ConfigUpdateDoes, BeginsLocal
<1>7. ASSUME NEW i \in 1..Len(log[a]), Commit(a, i)  PROVE SelfInv(a)'
  <2>1. NewOnly(config[a], changes + 1).id # 0
    BY <1>3 DEF NewOnly
  <2>2. CASE Begins(a, NewOnly(config[a], changes + 1)) /\ NewOnly(config[a], changes + 1) \in Config
    BY <2>1, <2>2, BeginsLocal
  <2>3. CASE Deposed /\ UNCHANGED <<config, index, task, changes, up, term, log, disk>>
    BY <1>2, <2>3, SelfSame DEF Deposed
  <2> QED  BY <1>7, <2>2, <2>3, CommitDoes
<1>8. ASSUME EntriesAppended(a)  PROVE SelfInv(a)'
  <2>1. /\ Takes(a) /\ ~Paused(a)' /\ ~Takes(a)' /\ ~Writes(a)' /\ own'[a] = own[a]
        /\ UNCHANGED <<up, leads, config, index, disk>>
    BY <1>8, EntriesAppendedDoes
  <2>2. up[a] /\ ~Writes(a) /\ disk[a].config = config[a]
    BY <1>2, <2>1, TaskIs DEF SelfInv, Takes
  <2>3. /\ LastConfig(own[a], config[a])
        /\ At(own[a], index[a], config[a]) /\ At(own[a], disk[a].index, disk[a].config)
    BY <1>2, <2>2 DEF SelfInv
  <2> QED  BY <2>1, <2>2, <2>3, SelfNext
<1>9. SelfInv(a)'
  BY <1>4, <1>5, <1>6, <1>7, <1>8, StoredLocal, AppendLocal, AppendConfigLocal, RestartLocal DEF Acts
<1> QED  BY <1>1, <1>9, OthersLocal DEF Deposed

LEMMA ElectLocal ==
  ASSUME TypeOK, TypeOK', LocalInv, NEW p \in Peer, NEW Q \in SUBSET Peer, Elect(p, Q)
  PROVE  LocalInv'
<1>1. /\ Alone(p) /\ p \in Q /\ term'[p] \in Nat
      /\ \A q \in Q : up[q] /\ ~Paused(q)
      /\ \A q \in Peer : term'[q] # term[q] => q \in Q
      /\ \A q \in Peer \ {p} : leads'[q] => leads[q]
      /\ ~Paused(p)' /\ ~Takes(p)' /\ ~Writes(p)'
      /\ log'[p] \in {log[p], Append(log[p], Entry(term'[p], None))} /\ own'[p] = log'[p]
      /\ UNCHANGED <<up, config, index, disk>>
  BY ElectDoes
<1>2. SelfInv(p)'
  BY <1>1, GrowsLocal
<1>3. \A q \in Peer : term'[q] # term[q] => ~Takes(q)
  BY <1>1, IdleIs
<1> QED  BY <1>1, <1>2, <1>3, OthersLocal

-----------------------------------------------------------------------------
(* A configuration is written once. *)

\* The logs of a step that writes no configuration
FewNew(L, K) ==
  \A m \in K : m \in L \/ \E l \in L, t \in Nat : m = Append(l, Entry(t, None))

LEMMA FewNewHas ==
  ASSUME NEW L, L \subseteq Seq(Item), NEW K, FewNew(L, K), NEW m \in K
  PROVE  \E l \in L : /\ \A i \in 1..Len(m) : m[i].config # None => i \in 1..Len(l) /\ m[i] = l[i]
                      /\ \A i \in 1..Len(l) : i \in 1..Len(m) /\ m[i] = l[i]
<1>1. CASE m \in L
  BY <1>1
<1>2. ASSUME NEW l \in L, NEW t \in Nat, m = Append(l, Entry(t, None))
      PROVE  /\ \A i \in 1..Len(m) : m[i].config # None => i \in 1..Len(l) /\ m[i] = l[i]
             /\ \A i \in 1..Len(l) : i \in 1..Len(m) /\ m[i] = l[i]
  <2>1. /\ Len(l) \in Nat /\ Len(m) = Len(l) + 1 /\ \A i \in 1..Len(l) : m[i] = l[i]
        /\ m[Len(l) + 1].config = None
    BY <1>2, EntryIs, Longer, ItemOf
  <2> QED  BY <2>1
<1> QED  BY <1>1, <1>2 DEF FewNew

LEMMA FreshKept ==
  ASSUME NEW L, L \subseteq Seq(Item), FreshInv(L), NEW K, FewNew(L, K),
         \A q \in Peer : Writes(q)' => Writes(q) /\ config'[q] = config[q],
         \A q \in Peer : config'[q].id <= changes, changes' = changes,
         \A q \in Peer : config[q] # None
  PROVE  FreshInv(K)'
<1>1. ASSUME NEW q \in Peer, Writes(q)'
      PROVE  /\ \A m \in K : ~HasConfig(m, config'[q])
             /\ \A r \in Peer : Writes(r)' /\ config'[r] = config'[q] => r = q
  <2>1. Writes(q) /\ config'[q] = config[q] /\ config[q] # None
    BY <1>1
  <2>2. ASSUME NEW m \in K, HasConfig(m, config[q])  PROVE FALSE
    <3>1. PICK i \in 1..Len(m) : m[i].config = config[q]
      BY <2>2 DEF HasConfig
    <3>2. \E l \in L : i \in 1..Len(l) /\ l[i].config = config[q]
      BY <2>1, <3>1, FewNewHas
    <3> QED  BY <2>1, <3>2 DEF FreshInv, HasConfig
  <2>3. \A r \in Peer : Writes(r)' /\ config'[r] = config'[q] => r = q
    BY <2>1 DEF FreshInv
  <2> QED  BY <2>1, <2>2, <2>3
<1>2. ASSUME NEW m \in K, NEW i \in 1..Len(m), m[i].config # None
      PROVE  /\ m[i].config.id <= changes
             /\ \A j \in 1..Len(m) : m[i].config = m[j].config => i = j
  <2>1. PICK l \in L : \A j \in 1..Len(m) : m[j].config # None => j \in 1..Len(l) /\ m[j] = l[j]
    BY FewNewHas
  <2>2. i \in 1..Len(l) /\ m[i] = l[i]
    BY <1>2, <2>1
  <2>3. ASSUME NEW j \in 1..Len(m), m[i].config = m[j].config  PROVE i = j
    <3>1. j \in 1..Len(l) /\ m[j] = l[j]
      BY <1>2, <2>1, <2>3
    <3> QED  BY <1>2, <2>2, <2>3, <3>1 DEF FreshInv
  <2> QED  BY <1>2, <2>2, <2>3 DEF FreshInv
<1> QED  BY <1>1, <1>2 DEF FreshInv, HasConfig

LEMMA FreshBegins ==
  ASSUME TypeOK, NEW L, LogInv(L), FreshInv(L), NEW p \in Peer, NEW c \in Config, Begins(p, c), c.id = changes + 1,
         NEW K, K \subseteq L
  PROVE  FreshInv(K)'
<1>1. /\ changes \in Nat /\ changes' = changes + 1 /\ config'[p] = c /\ L \subseteq Seq(Item)
      /\ \A q \in Peer : config[q] \in Config
      /\ \A q \in Peer \ {p} : config'[q] = config[q] /\ (Writes(q)' <=> Writes(q))
  BY OthersSame DEF TypeOK, LogInv, Begins, Alone
<1>2. \A f \in Config : f.id \in Nat
  BY ConfigIs
<1>3. \A q \in Peer : config[q].id <= changes /\ config[q].id \in Nat
  BY <1>1, <1>2 DEF FreshInv
<1>4. ASSUME NEW l \in K, NEW i \in 1..Len(l), l[i].config # None
      PROVE  /\ l[i].config.id <= changes /\ l[i].config.id \in Nat
             /\ \A j \in 1..Len(l) : l[i].config = l[j].config => i = j
  <2>1. l \in L /\ l[i].config \in Config
    BY <1>1, <1>4, ItemOf
  <2> QED  BY <1>2, <1>4, <2>1 DEF FreshInv
<1>5. c # None
  BY ConfigIs
<1>6. \A l \in K : ~HasConfig(l, c)
  BY <1>1, <1>4, <1>5 DEF HasConfig
<1>7. ASSUME NEW q \in Peer, Writes(q)'
      PROVE  /\ \A m \in K : ~HasConfig(m, config'[q])
             /\ \A r \in Peer : Writes(r)' /\ config'[r] = config'[q] => r = q
  <2>1. CASE q = p
    <3>1. \A r \in Peer : config'[r] = c => r = p
      BY <1>1, <1>3
    <3> QED  BY <1>1, <1>6, <2>1, <3>1
  <2>2. CASE q # p
    <3>1. Writes(q) /\ config'[q] = config[q] /\ config[q] # c
      BY <1>1, <1>3, <1>7, <2>2
    <3>2. \A m \in K : ~HasConfig(m, config[q])
      BY <3>1 DEF FreshInv
    <3>3. \A r \in Peer : Writes(r)' /\ config'[r] = config[q] => r = q
      BY <1>1, <3>1 DEF FreshInv
    <3> QED  BY <3>1, <3>2, <3>3
  <2> QED  BY <2>1, <2>2
<1>8. \A q \in Peer : config'[q].id <= changes'
  BY <1>1, <1>3
<1>9. \A l \in K : \A i \in 1..Len(l) : l[i].config # None => l[i].config.id <= changes'
  BY <1>1, <1>4
<1> QED  BY <1>4, <1>7, <1>8, <1>9 DEF FreshInv, HasConfig

LEMMA FreshLogged ==
  ASSUME TypeOK, TypeOK', NEW L, LogInv(L), FreshInv(L), NEW p \in Peer, ConfigAppended(p),
         NEW K, K = L \union {full[p]}
  PROVE  FreshInv(K)'
<1>1. /\ Writes(p) /\ ~Writes(p)' /\ UNCHANGED <<config, changes>>
      /\ \A q \in Peer \ {p} : Writes(q)' <=> Writes(q)
  BY ConfigAppendedDoes, OthersSame
<1> DEFINE l == log[p]
           c == config[p]
           m == Append(l, Entry(task[p].term, c))
<1>2. full[p] = m /\ Entry(task[p].term, c) \in Item /\ l \in L /\ l \in Seq(Item) /\ c \in Config
  BY <1>1, LogsOf DEF LogInv, TypeOK
<1>3. /\ Len(l) \in Nat /\ Len(m) = Len(l) + 1 /\ m[Len(l) + 1].config = c
      /\ \A i \in 1..Len(l) : m[i] = l[i]
      /\ \A i \in 1..Len(m) : i \in 1..Len(l) \/ i = Len(l) + 1
  <2>1. /\ Len(l) \in Nat /\ Len(m) = Len(l) + 1 /\ m[Len(l) + 1] = Entry(task[p].term, c)
        /\ \A i \in 1..Len(l) : m[i] = l[i]
    BY <1>2, Longer, ItemOf
  <2> QED  BY <2>1 DEF Entry
<1> HIDE DEF m
<1>4. ~HasConfig(l, c) /\ \A q \in Peer : config[q].id <= changes
  BY <1>1, <1>2 DEF FreshInv
<1>5. \A i \in 1..Len(l) : l[i].config # c
  BY <1>4 DEF HasConfig
<1>6. ASSUME NEW q \in Peer, Writes(q)'
      PROVE  /\ \A n \in K : ~HasConfig(n, config[q])
             /\ \A r \in Peer : Writes(r)' /\ config[r] = config[q] => r = q
  <2>1. Writes(q) /\ q # p
    BY <1>1, <1>6
  <2>2. config[q] # c
    BY <1>1, <2>1 DEF FreshInv
  <2>3. \A n \in L : ~HasConfig(n, config[q])
    BY <2>1 DEF FreshInv
  <2>4. ~HasConfig(m, config[q])
    <3> SUFFICES ASSUME NEW i \in 1..Len(m), m[i].config = config[q]  PROVE FALSE
      BY DEF HasConfig
    <3>1. i \in 1..Len(l) /\ l[i].config = config[q]
      BY <1>3, <2>2
    <3> QED  BY <1>2, <2>3, <3>1 DEF HasConfig
  <2>5. \A r \in Peer : Writes(r)' /\ config[r] = config[q] => r = q
    BY <1>1, <2>1 DEF FreshInv
  <2> QED  BY <1>2, <2>3, <2>4, <2>5
<1>7. ASSUME NEW n \in K, NEW i \in 1..Len(n), n[i].config # None
      PROVE  /\ n[i].config.id <= changes
             /\ \A j \in 1..Len(n) : n[i].config = n[j].config => i = j
  <2>1. CASE n \in L
    BY <1>7, <2>1 DEF FreshInv
  <2>2. CASE n = m
    <3>1. \A k \in 1..Len(l) : l[k].config # None =>
            l[k].config.id <= changes /\ \A j \in 1..Len(l) : l[k].config = l[j].config => k = j
      BY <1>2 DEF FreshInv
    <3>2. n[i].config.id <= changes
      BY <1>3, <1>4, <1>7, <2>2, <3>1
    <3>3. ASSUME NEW j \in 1..Len(n), n[i].config = n[j].config  PROVE i = j
      BY <1>3, <1>5, <1>7, <2>2, <3>1, <3>3
    <3> QED  BY <3>2, <3>3
  <2> QED  BY <1>2, <2>1, <2>2
<1> QED  BY <1>1, <1>4, <1>6, <1>7 DEF FreshInv, HasConfig

\* The configuration in the state file is an old one.
LEMMA DiskIs ==
  ASSUME TypeOK, LocalInv, NEW L, LogInv(L), FreshInv(L), NEW p \in Peer
  PROVE  disk[p].config.id <= changes
<1>1. log[p] \in L /\ config[p].id <= changes /\ changes \in Nat /\ disk[p].config \in Config
  BY DEF LogInv, FreshInv, TypeOK
<1>2. CASE disk[p].config = config[p]
  BY <1>1, <1>2
<1>3. CASE LastConfig(log[p], disk[p].config)
  <2>1. CASE disk[p].config = First
    <3>1. First.id = 0
      BY DEF First
    <3> QED  BY <1>1, <2>1, <3>1
  <2>2. ASSUME NEW j \in 1..Len(log[p]), log[p][j].config = disk[p].config
        PROVE  disk[p].config.id <= changes
    <3>1. log[p][j].config # None
      BY <1>1, <2>2, ConfigIs
    <3> QED  BY <1>1, <2>2, <3>1 DEF FreshInv
  <2> QED  BY <1>3, <2>1, <2>2 DEF LastConfig
<1> QED  BY <1>2, <1>3 DEF LocalInv, SelfInv

LEMMA ActsFresh ==
  ASSUME TypeOK, TypeOK', LocalInv, ~LosesConfig, NEW L, LogInv(L), FreshInv(L),
         NEW a \in Peer, Acts(a), NEW K, K = L \union {log'[a], own'[a]}
  PROVE  FreshInv(K)'
<1>1. Alone(a) /\ \A q \in Peer \ {a} : config'[q] = config[q] /\ (Writes(q)' <=> Writes(q))
  BY ActsPlain, OthersSame DEF Alone
<1>2. /\ L \subseteq Seq(Item) /\ log[a] \in L /\ own[a] \in L
      /\ \A q \in Peer : config[q].id <= changes /\ config[q] # None /\ term[q] \in Nat /\ log[q] \in L
      /\ config[a] \in Config /\ changes + 1 \in Nat
  <2>1. \A q \in Peer : config[q] \in Config /\ term[q] \in Nat /\ changes \in Nat
    BY DEF TypeOK
  <2>2. \A q \in Peer : config[q] # None
    BY <2>1, ConfigIs
  <2> QED  BY <2>1, <2>2 DEF LogInv, FreshInv
<1>3. ASSUME {log'[a], own'[a]} \subseteq {Append(log[a], Entry(term[a], None))} \union L,
             Writes(a)' => Writes(a) /\ config'[a] = config[a],
             config'[a].id <= changes, changes' = changes
      PROVE  FreshInv(K)'
  <2>1. FewNew(L, K)
    BY <1>2, <1>3 DEF FewNew
  <2>2. \A q \in Peer : Writes(q)' => Writes(q) /\ config'[q] = config[q]
    BY <1>1, <1>3
  <2>3. \A q \in Peer : config'[q].id <= changes
    BY <1>1, <1>2, <1>3
  <2> QED  BY <1>2, <1>3, <2>1, <2>2, <2>3, FreshKept
<1>4. ASSUME NEW q \in Peer, StepDown(a, q)  PROVE FreshInv(K)'
  <2>1. UNCHANGED <<log, config, task, changes>>
    BY <1>4, StepDownDoes
  <2>2. own'[a] = own[a] /\ (Writes(a)' <=> Writes(a))
    BY <2>1, SamePeer
  <2> QED  BY <1>2, <1>3, <2>1, <2>2
<1>5. ASSUME Update(a)  PROVE FreshInv(K)'
  <2>1. /\ ~Writes(a)' /\ log'[a] = Append(log[a], Entry(term[a], None)) /\ own'[a] = log'[a]
        /\ UNCHANGED <<config, changes>>
    BY <1>5, UpdateDoes
  <2> QED  BY <1>2, <1>3, <2>1
<1>6. ASSUME NEW c \in Config, Begins(a, c), c.id = changes + 1  PROVE FreshInv(K)'
  <2>1. log'[a] = log[a] /\ own'[a] = log[a]
    BY <1>6 DEF Begins
  <2>2. K \subseteq L
    BY <1>2, <2>1
  <2> QED  BY <1>6, <2>2, FreshBegins
<1>7. ASSUME NEW S \in Targets, ConfigUpdate(a, S)  PROVE FreshInv(K)'
  <2>1. Joined(config[a], S, changes + 1).id = changes + 1
    BY DEF Joined
  <2> QED  BY <1>6, <1>7, <2>1, ConfigUpdateDoes
<1>8. ASSUME NEW i \in 1..Len(log[a]), Commit(a, i)  PROVE FreshInv(K)'
  <2>1. NewOnly(config[a], changes + 1).id = changes + 1
    BY DEF NewOnly
  <2>2. CASE Begins(a, NewOnly(config[a], changes + 1)) /\ NewOnly(config[a], changes + 1) \in Config
    BY <1>6, <2>1, <2>2
  <2>3. CASE UNCHANGED <<config, index, task, changes, up, term, log, disk>>
    <3>1. own'[a] = own[a] /\ (Writes(a)' <=> Writes(a))
      BY <2>3, SamePeer
    <3> QED  BY <1>2, <1>3, <2>3, <3>1
  <2> QED  BY <1>8, <2>2, <2>3, CommitDoes
<1>9. ASSUME ConfigStored(a)  PROVE FreshInv(K)'
  <2>1. own'[a] = own[a] /\ Writes(a) /\ UNCHANGED <<config, log, changes>>
    BY <1>9, ConfigStoredDoes
  <2> QED  BY <1>2, <1>3, <2>1
<1>10. ASSUME ConfigAppended(a)  PROVE FreshInv(K)'
  <2>1. log'[a] = full[a] /\ own'[a] = full[a]
    BY <1>10, ConfigAppendedDoes
  <2>2. K = L \union {full[a]}
    BY <2>1
  <2> QED  BY <1>10, <2>2, FreshLogged
<1>11. ASSUME NEW q \in Peer, AppendEntries(q, a)  PROVE FreshInv(K)'
  <2>1. log'[a] = log[q] /\ own'[a] = log[q] /\ ~Writes(a)' /\ UNCHANGED <<config, changes>>
    BY <1>11, AppendEntriesDoes
  <2> QED  BY <1>2, <1>3, <2>1
<1>12. ASSUME NEW q \in Peer, AppendConfigEntries(q, a)  PROVE FreshInv(K)'
  <2>1. ~Writes(a)' /\ own'[a] = log[q] /\ UNCHANGED <<log, changes>>
        /\ \E j \in 1..Len(log[q]) : log[q][j].config \in Config /\ config'[a] = log[q][j].config
    BY <1>12, AppendConfigEntriesDoes
  <2>2. config'[a].id <= changes
    <3>1. PICK j \in 1..Len(log[q]) : log[q][j].config \in Config /\ config'[a] = log[q][j].config
      BY <2>1
    <3>2. log[q][j].config # None
      BY <3>1, ConfigIs
    <3> QED  BY <1>2, <3>1, <3>2 DEF FreshInv
  <2> QED  BY <1>2, <1>3, <2>1, <2>2
<1>13. ASSUME EntriesAppended(a)  PROVE FreshInv(K)'
  <2>1. log'[a] = own[a] /\ own'[a] = own[a] /\ ~Writes(a)' /\ UNCHANGED <<config, changes>>
    BY <1>13, EntriesAppendedDoes
  <2> QED  BY <1>2, <1>3, <2>1
<1>14. ASSUME Restart(a)  PROVE FreshInv(K)'
  <2>1. log' = log /\ own'[a] = log[a] /\ ~Writes(a)' /\ config'[a] = disk[a].config /\ changes' = changes
    BY <1>14, RestartDoes
  <2>2. disk[a].config.id <= changes
    BY DiskIs
  <2> QED  BY <1>2, <1>3, <2>1, <2>2
<1> QED  BY <1>4, <1>5, <1>7, <1>8, <1>9, <1>10, <1>11, <1>12, <1>13, <1>14 DEF Acts

LEMMA ElectFresh ==
  ASSUME TypeOK, TypeOK', NEW L, LogInv(L), FreshInv(L), NEW p \in Peer, NEW Q \in SUBSET Peer, Elect(p, Q),
         NEW K, K = L \union {log'[p], own'[p]}
  PROVE  FreshInv(K)'
<1>1. /\ Alone(p) /\ term'[p] \in Nat /\ ~Writes(p)' /\ own'[p] = log'[p]
      /\ log'[p] \in {log[p], Append(log[p], Entry(term'[p], None))} /\ UNCHANGED <<config, changes>>
  BY ElectDoes
<1>2. /\ L \subseteq Seq(Item) /\ log[p] \in L
      /\ \A q \in Peer : config[q].id <= changes /\ config[q] # None
  <2>1. \A q \in Peer : config[q] \in Config
    BY DEF TypeOK
  <2> QED  BY <2>1, ConfigIs DEF LogInv, FreshInv
<1>3. FewNew(L, K)
  BY <1>1, <1>2 DEF FewNew
<1>4. \A q \in Peer : Writes(q)' => Writes(q) /\ config'[q] = config[q]
  BY <1>1, OthersSame
<1> QED  BY <1>1, <1>2, <1>3, <1>4, FreshKept

-----------------------------------------------------------------------------
(* Majorities of configurations. *)

LEMMA HalfGrows ==
  ASSUME NEW f \in Config, NEW M, NEW N, HalfOf(f, M), M \intersect Peer \subseteq N
  PROVE  HalfOf(f, N)
<1>1. f.old \in SUBSET Peer /\ f.new \in SUBSET Peer
  BY ConfigIs
<1>2. Majority(M, f.old) => Majority(N, f.old)
  BY <1>1, MajorityGrows
<1>3. Majority(M, f.new) => Majority(N, f.new)
  BY <1>1, MajorityGrows
<1> QED  BY <1>2, <1>3 DEF HalfOf

\* Whoever has all the majorities that f asks for has a member of each of them.
LEMMA HalfMeets ==
  ASSUME NEW f \in Config, NEW M, NEW N, HasWonVoting(f, M), HalfOf(f, N)
  PROVE  \E q \in M : q \in N /\ q \in Peer
<1>1. f.old \in SUBSET Peer /\ f.new \in SUBSET Peer
  BY ConfigIs
<1>2. CASE Majority(N, f.old)
  <2>1. Majority(M, f.old)
    BY DEF HasWonVoting
  <2> QED  BY <1>1, <1>2, <2>1, MajoritiesMeet
<1>3. CASE IsTransitional(f) /\ Majority(N, f.new)
  <2>1. Majority(M, f.new)
    BY <1>3 DEF HasWonVoting
  <2> QED  BY <1>1, <1>3, <2>1, MajoritiesMeet
<1> QED  BY <1>2, <1>3 DEF HalfOf

LEMMA RootIn ==
  ASSUME NEW X, \A x \in X : x.log \in Seq(Item) /\ x.at \in Nat,
         NEW l \in Seq(Item), NEW m \in Seq(Item), NEW f, NEW i \in 0..Len(l), RootedAt(X, l, f, i), i # 0,
         \A x \in X : In(x, m)
  PROVE  i \in 1..Len(m) /\ m[i] = l[i]
<1>1. PICK x \in X : i <= x.at /\ In(x, l)
  BY DEF RootedAt
<1>2. In(x, m) /\ x.at \in Nat /\ x.log \in Seq(Item)
  BY <1>1
<1>3. Len(l) \in Nat /\ Len(m) \in Nat /\ i \in 1..x.at /\ i <= Len(m)
  BY <1>1, <1>2, ItemOf DEF In, AgreeTo
<1>4. l[i] = x.log[i] /\ m[i] = x.log[i]
  BY <1>1, <1>2, <1>3 DEF In, AgreeTo
<1> QED  BY <1>3, <1>4

\* The configurations of two logs that lack nothing that is committed: a majority for
\* one of them has a part of what the other asks for.
LEMMA MajoritiesCompare ==
  ASSUME NEW X, \A x \in X : x.log \in Seq(Item) /\ x.at \in Nat,
         NEW l \in Seq(Item), NEW m \in Seq(Item), NEW c \in Config, NEW f \in Config,
         Rooted(X, l, c), Rooted(X, m, f), \A x \in X : In(x, l) /\ In(x, m),
         NEW M, HasWonVoting(c, M)
  PROVE  HalfOf(f, M)
<1>1. PICK i \in 0..Len(l) : RootedAt(X, l, c, i)
  BY DEF Rooted
<1>2. PICK j \in 0..Len(m) : RootedAt(X, m, f, j)
  BY DEF Rooted
<1>3. Len(l) \in Nat /\ Len(m) \in Nat /\ i \in Nat /\ j \in Nat
  BY ItemOf
<1>4. i # 0 => i \in 1..Len(m) /\ m[i] = l[i] /\ l[i].config # None /\ IsTransitional(l[i].config)
  <2>1. i # 0 => i \in 1..Len(m) /\ m[i] = l[i]
    BY <1>1, RootIn
  <2> QED  BY <1>1, <2>1 DEF RootedAt
<1>5. j # 0 => j \in 1..Len(l) /\ l[j] = m[j] /\ m[j].config # None /\ IsTransitional(m[j].config)
  <2>1. j # 0 => j \in 1..Len(l) /\ l[j] = m[j]
    BY <1>2, RootIn
  <2> QED  BY <1>2, <2>1 DEF RootedAt
<1>6. Majority(M, c.old) /\ (IsTransitional(c) => Majority(M, c.new))
  BY DEF HasWonVoting
<1>7. c.old = Root(l, i) /\ f.old = Root(m, j)
  BY <1>1, <1>2 DEF RootedAt
<1>8. CASE i = j
  <2>1. f.old = c.old
    BY <1>4, <1>7, <1>8 DEF Root
  <2> QED  BY <1>6, <2>1 DEF HalfOf
<1>9. CASE i < j
  <2>1. j \in i + 1..Len(l)
    BY <1>3, <1>5, <1>9
  <2>2. l[j].config = c
    BY <1>1, <1>3, <1>5, <1>9, <2>1 DEF RootedAt
  <2>3. IsTransitional(c) /\ f.old = c.new
    BY <1>3, <1>5, <1>7, <1>9, <2>2 DEF Root
  <2> QED  BY <1>6, <2>3 DEF HalfOf
<1>10. CASE j < i
  <2>1. i \in j + 1..Len(m)
    BY <1>3, <1>4, <1>10
  <2>2. m[i].config = f
    BY <1>2, <1>3, <1>4, <1>10, <2>1 DEF RootedAt
  <2>3. IsTransitional(f) /\ c.old = f.new
    BY <1>3, <1>4, <1>7, <1>10, <2>2 DEF Root
  <2> QED  BY <1>6, <2>3 DEF HalfOf
<1> QED  BY <1>3, <1>8, <1>9, <1>10

\* What a peer may use when a joint configuration is begun
Eases(g, f) == f = g \/ (~IsTransitional(g) /\ f.old = g.old)
\* and how its log may grow
Grows(l, m, f) == m = l \/ \E t \in Nat, c \in {None, f} : m = Append(l, Entry(t, c))

LEMMA RootedEases ==
  ASSUME NEW X, NEW l \in Seq(Item), NEW g, NEW f, Rooted(X, l, g), Eases(g, f)
  PROVE  Rooted(X, l, f)
  BY DEF Rooted, RootedAt, Eases

LEMMA RootedMore ==
  ASSUME NEW X, NEW Y, X \subseteq Y, NEW l, NEW f, Rooted(X, l, f)
  PROVE  Rooted(Y, l, f)
  BY DEF Rooted, RootedAt

LEMMA RootedGrows ==
  ASSUME NEW X, \A x \in X : x.log \in Seq(Item) /\ x.at \in Nat,
         NEW l \in Seq(Item), NEW f \in Config, Rooted(X, l, f), NEW m, Grows(l, m, f)
  PROVE  Rooted(X, m, f)
<1>1. CASE m = l
  BY <1>1
<1>2. ASSUME NEW t \in Nat, NEW c \in {None, f}, m = Append(l, Entry(t, c))  PROVE Rooted(X, m, f)
  <2>1. Entry(t, c) \in Item /\ Entry(t, c).config = c
    BY EntryIs
  <2>2. /\ Len(l) \in Nat /\ Len(m) = Len(l) + 1 /\ m[Len(l) + 1].config = c
        /\ \A k \in 1..Len(l) : m[k] = l[k]
    BY <1>2, <2>1, Longer, ItemOf
  <2>3. PICK i \in 0..Len(l) : RootedAt(X, l, f, i)
    BY DEF Rooted
  <2>4. i \in 0..Len(m) /\ (i # 0 => m[i] = l[i]) /\ Root(m, i) = Root(l, i)
    BY <2>2 DEF Root
  <2>5. i # 0 => /\ m[i].config # None /\ IsTransitional(m[i].config)
                 /\ \E x \in X : i <= x.at /\ In(x, m)
    <3>1. \A x \in X : In(x, l) => In(x, m)
      BY <1>2, <2>1, Agreement DEF In
    <3> QED  BY <2>3, <2>4, <3>1 DEF RootedAt
  <2>6. f.old = Root(m, i)
    BY <2>3, <2>4 DEF RootedAt
  <2>7. ASSUME NEW j \in i + 1..Len(m), m[j].config # None
        PROVE  m[j].config.old = Root(m, i) /\ (IsTransitional(m[j].config) => m[j].config = f)
    <3>1. CASE j \in 1..Len(l)
      <4>1. j \in i + 1..Len(l) /\ m[j] = l[j]
        BY <2>2, <3>1
      <4> QED  BY <2>3, <2>4, <2>7, <4>1 DEF RootedAt
    <3>2. CASE j = Len(l) + 1
      <4>1. m[j].config = f
        BY <2>2, <2>7, <3>2
      <4> QED  BY <2>6, <4>1
    <3> QED  BY <2>2, <2>3, <3>1, <3>2
  <2> QED  BY <2>4, <2>5, <2>6, <2>7 DEF Rooted, RootedAt
<1> QED  BY <1>1, <1>2 DEF Grows

\* A new configuration after a joint one that is committed
LEMMA RootedNew ==
  ASSUME NEW X, NEW l \in Seq(Item), NEW c \in Config, IsTransitional(c), NEW id,
         NEW k \in 1..Len(l), l[k].config = c, LastConfig(l, c),
         \A i, j \in 1..Len(l) : l[i].config # None /\ l[i].config = l[j].config => i = j,
         \E x \in X : k <= x.at /\ In(x, l)
  PROVE  Rooted(X, l, NewOnly(c, id))
<1>1. Len(l) \in Nat /\ c # None
  BY ItemOf, ConfigIs
<1>2. \A j \in k + 1..Len(l) : l[j].config = None
  <2>1. PICK j \in 1..Len(l) : l[j].config = c /\ \A i \in j + 1..Len(l) : l[i].config = None
    BY <1>1 DEF LastConfig
  <2>2. j = k
    BY <1>1, <2>1
  <2> QED  BY <2>1, <2>2
<1>3. k \in 0..Len(l) /\ k # 0 /\ NewOnly(c, id).old = c.new
  BY <1>1 DEF NewOnly
<1>4. RootedAt(X, l, NewOnly(c, id), k)
  BY <1>1, <1>2, <1>3 DEF RootedAt, Root
<1> QED  BY <1>3, <1>4 DEF Rooted

-----------------------------------------------------------------------------
(* What a peer has comes from what it, or the leader it follows, had.      *)

Votes(X, r, s) ==
  /\ \A x \in X : In(x, own[s]) <=> In(x, own'[r])
  /\ \A f \in Config : Uses(r, f)' =>
       Grows(own[s], own'[r], f) /\ \E g \in Config : Uses(s, g) /\ Eases(g, f)
Comes(X, r, s) == Votes(X, r, s) /\ \A t \in Nat : Follows(r, t)' => Follows(s, t)
Derived(X, r) == \E s \in Peer : Comes(X, r, s)

LEMMA UsesNext ==
  ASSUME NEW r \in Peer
  PROVE  /\ \A f : Uses(r, f)' <=> f = config'[r] \/ LastConfig(own'[r], f)
         /\ \A t : Follows(r, t)' <=> \/ leads'[r] /\ term'[r] >= t
                                      \/ \E j \in 1..Len(full'[r]) : full'[r][j].term > t
<1>1. \A f : LastConfig(own[r], f)' <=> LastConfig(own'[r], f)
  BY DEF LastConfig, First
<1> QED  BY <1>1 DEF Uses, Follows

LEMMA ComesSame ==
  ASSUME NEW X, NEW r \in Peer, NEW s \in Peer, own'[r] = own[s],
         leads'[r] => leads[s] /\ term'[r] = term[s],
         \A j \in 1..Len(full'[r]) : \E k \in 1..Len(full[s]) : full[s][k] = full'[r][j],
         \A f \in Config : Uses(r, f)' => Uses(s, f)
  PROVE  Comes(X, r, s)
<1>1. \A t \in Nat : Follows(r, t)' => Follows(s, t)
  BY UsesNext DEF Follows
<1>2. \A f \in Config : Grows(own[s], own'[r], f) /\ Eases(f, f)
  BY DEF Grows, Eases
<1>3. \A f \in Config : Uses(r, f)' => Uses(s, f) /\ Eases(f, f)
  BY <1>2
<1> QED  BY <1>1, <1>2, <1>3 DEF Comes, Votes

LEMMA FullHas ==
  ASSUME TypeOK, NEW p \in Peer, ~Takes(p)
  PROVE  \A j \in 1..Len(log[p]) : \E k \in 1..Len(full[p]) : full[p][k] = log[p][j]
<1>1. CASE Writes(p)
  <2>1. /\ full[p] = Append(log[p], Entry(task[p].term, config[p])) /\ log[p] \in Seq(Item)
        /\ Entry(task[p].term, config[p]) \in Item
    BY <1>1, LogsOf
  <2>2. /\ Len(log[p]) \in Nat /\ Len(full[p]) = Len(log[p]) + 1
        /\ \A i \in 1..Len(log[p]) : full[p][i] = log[p][i]
    BY <2>1, Longer, ItemOf
  <2>3. \A j \in 1..Len(log[p]) : j \in 1..Len(full[p]) /\ full[p][j] = log[p][j]
    BY <2>2
  <2> QED  BY <2>3
<1>2. CASE ~Writes(p)
  <2>1. full[p] = log[p]
    BY <1>2, LogsOf
  <2> QED  BY <2>1
<1> QED  BY <1>1, <1>2

\* A leader's log grows by an entry of its term.
LEMMA FollowsGrows ==
  ASSUME TypeOK, NEW p \in Peer, leads[p], term'[p] = term[p],
         NEW c \in Config \union {None}, full'[p] = Append(full[p], Entry(term[p], c))
  PROVE  \A t \in Nat : Follows(p, t)' => Follows(p, t)
<1>1. term[p] \in Nat /\ full[p] \in Seq(Item)
  BY LogsOf DEF TypeOK
<1>2. /\ Len(full[p]) \in Nat /\ Len(full'[p]) = Len(full[p]) + 1
      /\ \A i \in 1..Len(full[p]) : full'[p][i] = full[p][i]
      /\ full'[p][Len(full[p]) + 1].term = term[p]
  BY <1>1, EntryIs, Longer, ItemOf
<1> SUFFICES ASSUME NEW t \in Nat, Follows(p, t)'  PROVE Follows(p, t)
  OBVIOUS
<1>3. CASE leads'[p] /\ term'[p] >= t
  BY <1>3 DEF Follows
<1>4. ASSUME NEW j \in 1..Len(full'[p]), full'[p][j].term > t  PROVE Follows(p, t)
  <2>1. CASE j \in 1..Len(full[p])
    BY <1>2, <1>4, <2>1 DEF Follows
  <2>2. CASE j = Len(full[p]) + 1
    <3>1. term[p] >= t
      BY <1>1, <1>2, <1>4, <2>2
    <3> QED  BY <3>1 DEF Follows
  <2> QED  BY <1>2, <2>1, <2>2
<1> QED  BY <1>3, <1>4, UsesNext

\* x is in a log that has grown only if it was in it before
LEMMA InGrown ==
  ASSUME NEW l \in Seq(Item), NEW e \in Item, NEW x, x.log \in Seq(Item), x.at \in Nat
  PROVE  /\ In(x, l) => In(x, Append(l, e))
         /\ In(x, Append(l, e)) => In(x, l) \/ (x.at \in 1..Len(x.log) /\ x.log[x.at] = e)
<1>1. In(x, l) => In(x, Append(l, e))
  BY Agreement DEF In
<1>2. ASSUME In(x, Append(l, e)), ~In(x, l)  PROVE x.at \in 1..Len(x.log) /\ x.log[x.at] = e
  <2> DEFINE m == Append(l, e)
  <2>1. /\ Len(l) \in Nat /\ Len(m) = Len(l) + 1 /\ \A i \in 1..Len(l) : m[i] = l[i]
        /\ m[Len(l) + 1] = e /\ Len(x.log) \in Nat
    BY Longer, ItemOf
  <2>2. x.at <= Len(m) /\ x.at <= Len(x.log) /\ \A k \in 1..x.at : m[k] = x.log[k]
    BY <1>2 DEF In, AgreeTo
  <2> HIDE DEF m
  <2>3. ~ (x.at <= Len(l))
    <3> SUFFICES ASSUME x.at <= Len(l)  PROVE FALSE
      OBVIOUS
    <3>1. \A k \in 1..x.at : l[k] = x.log[k]
      BY <2>1, <2>2
    <3> QED  BY <1>2, <2>2, <3>1 DEF In, AgreeTo
  <2>4. x.at = Len(l) + 1
    BY <2>1, <2>2, <2>3
  <2> QED  BY <2>1, <2>2, <2>4
<1> QED  BY <1>1, <1>2

LEMMA InHas ==
  ASSUME NEW l \in Seq(Item), NEW x, x.log \in Seq(Item), x.at \in 1..Len(x.log), In(x, l)
  PROVE  x.at \in 1..Len(l) /\ l[x.at] = x.log[x.at] /\ l[x.at].term = TermOf(x)
<1>1. Len(l) \in Nat /\ Len(x.log) \in Nat
  BY ItemOf
<1>2. x.at <= Len(l) /\ \A k \in 1..x.at : l[k] = x.log[k]
  BY DEF In, AgreeTo
<1>3. x.at \in 1..Len(l) /\ x.at \in 1..x.at
  BY <1>1, <1>2
<1> QED  BY <1>2, <1>3 DEF TermOf

LEMMA GhostType ==
  ASSUME NEW L, LogInv(L), NEW X, ChosenInv(L, X), NEW x \in X
  PROVE  /\ x.log \in L /\ x.log \in Seq(Item) /\ x.at \in Nat /\ x.at \in 1..Len(x.log)
         /\ TermOf(x) \in Nat
         /\ \A r \in Peer : Follows(r, TermOf(x)) => In(x, own[r])
<1>1. x.log \in L /\ x.log \in Seq(Item) /\ x.at \in Nat /\ x.at \in 1..Len(x.log)
  BY DEF ChosenInv, LogInv
<1>2. TermOf(x) \in Nat
  BY <1>1, ItemOf DEF TermOf
<1> QED  BY <1>1, <1>2 DEF ChosenInv

\* A leader has what the peers that hear it have.
LEMMA LeaderHas ==
  ASSUME TypeOK, TypeOK', LocalInv, ~LosesConfig, NEW L, LogInv(L), NEW X, ChosenInv(L, X),
         NEW p \in Peer, NEW q \in Peer, Hears(q, p)
  PROVE  /\ own[p] = log[p]
         /\ \A x \in X : In(x, log[q]) => In(x, log[p])
<1>1. leads[p] /\ term[q] <= term[p] /\ term[p] \in Nat /\ term[q] \in Nat
  BY HearsDoes DEF TypeOK
<1>2. own[p] = log[p]
  BY <1>1, LogsOf DEF LocalInv, SelfInv
<1>3. ASSUME NEW x \in X, In(x, log[q])  PROVE In(x, log[p])
  <2>1. /\ x.log \in Seq(Item) /\ x.at \in Nat /\ x.at \in 1..Len(x.log) /\ TermOf(x) \in Nat
        /\ \A r \in Peer : Follows(r, TermOf(x)) => In(x, own[r])
    BY GhostType
  <2>2. x.at \in 1..Len(log[q]) /\ log[q][x.at].term = TermOf(x)
    BY <1>3, <2>1, LogsOf, InHas
  <2>3. TermOf(x) <= term[q]
    BY <2>2 DEF LogInv, Below
  <2>4. Follows(p, TermOf(x))
    BY <1>1, <2>1, <2>3 DEF Follows
  <2> QED  BY <1>2, <2>1, <2>4
<1> QED  BY <1>2, <1>3

\* The steps that neither elect a leader nor commit an entry
Quiet(a) == Acts(a) /\ ~ \E i \in 1..Len(log[a]) : Commit(a, i)

LEMMA OthersDerived ==
  ASSUME NEW X, NEW a \in Peer, Alone(a), NEW r \in Peer, r # a,
         leads'[r] => leads[r] /\ term'[r] = term[r]
  PROVE  Derived(X, r)
<1>1. own'[r] = own[r] /\ full'[r] = full[r] /\ \A f : Uses(r, f)' <=> Uses(r, f)
  BY OthersSame
<1> QED  BY <1>1, ComesSame DEF Derived

LEMMA BeginsDerived ==
  ASSUME TypeOK, TypeOK', NEW X, NEW p \in Peer, NEW c \in Config, Begins(p, c)
  PROVE  /\ \A t \in Nat : Follows(p, t)' => Follows(p, t)
         /\ \A f : Uses(p, f)' <=> f = c \/ LastConfig(own[p], f)
         /\ own'[p] = own[p] /\ Uses(p, config[p])
<1>1. /\ own[p] = log[p] /\ full[p] = log[p] /\ own'[p] = own[p] /\ leads[p] /\ term'[p] = term[p]
      /\ full'[p] = Append(full[p], Entry(term[p], c)) /\ config'[p] = c
  BY IdleIs DEF Begins
<1> QED  BY <1>1, FollowsGrows, UsesNext DEF Uses

LEMMA HearsDerived ==
  ASSUME TypeOK, TypeOK', LocalInv, ~LosesConfig, NEW L, LogInv(L), NEW X, ChosenInv(L, X),
         NEW p \in Peer, NEW q \in Peer, AppendEntries(p, q) \/ AppendConfigEntries(p, q)
  PROVE  Derived(X, q)
<1>1. Hears(q, p)
  BY DEF AppendEntries, AppendConfigEntries
<1>2. /\ leads[p] /\ up[q] /\ ~Paused(q) /\ ~leads'[q] /\ own[p] = log[p] /\ own[q] = log[q] /\ full[q] = log[q]
      /\ ~Takes(p)
  <2>1. leads[p] /\ up[q] /\ ~Paused(q) /\ ~leads'[q]
    BY <1>1, HearsDoes
  <2> QED  BY <1>1, <2>1, IdleIs, LeaderHas DEF LocalInv, SelfInv
<1>3. \A j \in 1..Len(log[p]) : \E k \in 1..Len(full[p]) : full[p][k] = log[p][j]
  BY <1>2, FullHas
<1>4. CASE AppendEntries(p, q)
  <2>1. log'[q] = log[p] /\ own'[q] = log[p] /\ full'[q] = log[p] /\ config' = config
    BY <1>4, AppendEntriesDoes
  <2>2. \A f \in Config : Uses(q, f)' <=> f = config[q] \/ LastConfig(log[p], f)
    BY <2>1, UsesNext
  <2>3. LastConfig(log[p], config[q])
    <3>1. LastConfig(log[q], config[q]) /\ config[q] \in Config
      BY <1>2, IdleIs DEF LocalInv, SelfInv, TypeOK
    <3>2. log[p] \in Seq(Item) /\ log[q] \in Seq(Item) /\ Prev(p, q) \in Nat
      BY LogsOf, PrevIs
    <3> QED  BY <1>4, <3>1, <3>2, NoNewConfig, PrevAgrees, LastSame
  <2>4. \A f \in Config : Uses(q, f)' => Uses(p, f)
    BY <1>2, <2>2, <2>3 DEF Uses
  <2>5. Comes(X, q, p)
    BY <1>2, <1>3, <2>1, <2>4, ComesSame
  <2> QED  BY <2>5 DEF Derived
<1>5. CASE AppendConfigEntries(p, q)
  <2>1. own'[q] = log[p] /\ full'[q] = log[p]
    BY <1>5, AppendConfigEntriesDoes
  <2>2. PICK j \in 1..Len(log[p]) :
          /\ \A k \in j + 1..Len(log[p]) : log[p][k].config = None
          /\ config'[q] = log[p][j].config
    BY <1>5, AppendConfigEntriesDoes
  <2>3. LastConfig(log[p], config'[q])
    BY <2>2 DEF LastConfig
  <2>4. \A f \in Config : Uses(q, f)' => Uses(p, f)
    BY <1>2, <2>1, <2>3, UsesNext DEF Uses
  <2>5. Comes(X, q, p)
    BY <1>2, <1>3, <2>1, <2>4, ComesSame
  <2> QED  BY <2>5 DEF Derived
<1> QED  BY <1>4, <1>5

LEMMA GrowsDerived ==
  ASSUME TypeOK, TypeOK', LocalInv, NEW L, LogInv(L), FreshInv(L), NEW X, ChosenInv(L, X),
         NEW p \in Peer, Update(p) \/ ConfigAppended(p)
  PROVE  Derived(X, p)
<1>1. CASE Update(p)
  <2> DEFINE e == Entry(term[p], None)
  <2>1. /\ leads[p] /\ leads'[p] /\ term'[p] = term[p] /\ ~Paused(p)
        /\ log'[p] = Append(log[p], e) /\ own'[p] = log'[p] /\ full'[p] = log'[p] /\ config' = config
    BY <1>1, UpdateDoes
  <2>2. own[p] = log[p] /\ full[p] = log[p] /\ log[p] \in Seq(Item) /\ term[p] \in Nat /\ e \in Item
        /\ e.term = term[p] /\ config[p] \in Config
    BY <2>1, IdleIs, LogsOf, EntryIs DEF TypeOK
  <2>3. ASSUME NEW x \in X  PROVE In(x, own[p]) <=> In(x, own'[p])
    <3>1. /\ x.log \in Seq(Item) /\ x.at \in Nat /\ TermOf(x) \in Nat
          /\ \A r \in Peer : Follows(r, TermOf(x)) => In(x, own[r])
      BY GhostType
    <3>2. x.log[x.at] = e => In(x, own[p])
      <4>1. x.log[x.at] = e => TermOf(x) = term[p] /\ term[p] >= TermOf(x)
        BY <2>2, <3>1 DEF TermOf
      <4> QED  BY <2>1, <3>1, <4>1 DEF Follows
    <3> QED  BY <2>1, <2>2, <3>1, <3>2, InGrown
  <2>4. \A t \in Nat : Follows(p, t)' => Follows(p, t)
    BY <2>1, <2>2, FollowsGrows
  <2>5. ASSUME NEW f \in Config, Uses(p, f)'  PROVE Uses(p, f) /\ Grows(own[p], own'[p], f) /\ Eases(f, f)
    <3>1. LastConfig(own'[p], f) <=> LastConfig(own[p], f)
      BY <2>1, <2>2, LastGrows
    <3>2. Uses(p, f)
      BY <2>1, <2>5, <3>1, UsesNext DEF Uses
    <3> QED  BY <2>1, <2>2, <3>2 DEF Grows, Eases
  <2> QED  BY <2>3, <2>4, <2>5 DEF Derived, Comes, Votes
<1>2. CASE ConfigAppended(p)
  <2> DEFINE c == config[p]
             e == Entry(task[p].term, c)
  <2>1. /\ Writes(p) /\ own'[p] = full[p] /\ full'[p] = full[p] /\ config' = config
        /\ UNCHANGED <<leads, term>>
    BY <1>2, ConfigAppendedDoes
  <2>2. /\ own[p] = log[p] /\ full[p] = Append(log[p], e) /\ log[p] \in Seq(Item) /\ e \in Item
        /\ e.config = c /\ c \in Config /\ task[p].term \in Nat
    BY <2>1, TaskIs, LogsOf DEF TypeOK, Entry
  <2>3. ASSUME NEW x \in X  PROVE In(x, own[p]) <=> In(x, own'[p])
    <3>1. x.log \in L /\ x.log \in Seq(Item) /\ x.at \in Nat
      BY GhostType
    <3>2. ~HasConfig(x.log, c)
      BY <2>1, <3>1 DEF FreshInv
    <3>3. ~ (x.at \in 1..Len(x.log) /\ x.log[x.at] = e)
      BY <2>2, <3>2 DEF HasConfig
    <3> QED  BY <2>1, <2>2, <3>1, <3>3, InGrown
  <2>4. \A t \in Nat : Follows(p, t)' => Follows(p, t)
    BY <2>1, UsesNext DEF Follows
  <2>5. ASSUME NEW f \in Config, Uses(p, f)'  PROVE Uses(p, f) /\ Grows(own[p], own'[p], f) /\ Eases(f, f)
    <3>1. LastConfig(own'[p], f) => f = c
      BY <2>1, <2>2, LastGrows
    <3>2. f = c /\ Uses(p, f)
      BY <2>1, <2>5, <3>1, UsesNext DEF Uses
    <3> QED  BY <2>1, <2>2, <3>2 DEF Grows, Eases
  <2> QED  BY <2>3, <2>4, <2>5 DEF Derived, Comes, Votes
<1> QED  BY <1>1, <1>2

LEMMA RestartDerived ==
  ASSUME TypeOK, TypeOK', LocalInv, ~LosesConfig, NEW X, NEW p \in Peer, Restart(p)
  PROVE  Derived(X, p)
<1>1. /\ ~Takes(p) /\ ~leads'[p] /\ own[p] = log[p] /\ own'[p] = log[p] /\ full'[p] = log[p]
      /\ config'[p] = disk[p].config
  BY RestartDoes
<1>2. Uses(p, disk[p].config)
  BY <1>1 DEF LocalInv, SelfInv, Uses
<1>3. \A f \in Config : Uses(p, f)' => Uses(p, f)
  BY <1>1, <1>2, UsesNext DEF Uses
<1>4. Comes(X, p, p)
  BY <1>1, <1>3, FullHas, ComesSame
<1> QED  BY <1>4 DEF Derived

LEMMA QuietDerived ==
  ASSUME TypeOK, TypeOK', LocalInv, ~LosesConfig, NEW L, LogInv(L), FreshInv(L), NEW X, ChosenInv(L, X),
         NEW a \in Peer, Quiet(a)
  PROVE  \A r \in Peer : Derived(X, r)
<1>1. Alone(a) /\ Deposed
  BY ActsPlain DEF Quiet
<1>2. \A r \in Peer \ {a} : Derived(X, r)
  BY <1>1, OthersDerived DEF Deposed
<1>3. ASSUME own'[a] = own[a], full'[a] = full[a], config'[a] = config[a]  PROVE Derived(X, a)
  <2>1. \A f \in Config : Uses(a, f)' => Uses(a, f)
    BY <1>3, UsesNext DEF Uses
  <2>2. Comes(X, a, a)
    BY <1>1, <1>3, <2>1, ComesSame DEF Deposed
  <2> QED  BY <2>2 DEF Derived
<1>4. ASSUME NEW q \in Peer, StepDown(a, q)  PROVE Derived(X, a)
  <2>1. UNCHANGED <<log, task, config>>
    BY <1>4, StepDownDoes
  <2> QED  BY <1>3, <2>1, SamePeer
<1>5. ASSUME NEW S \in Targets, ConfigUpdate(a, S)  PROVE Derived(X, a)
  <2> DEFINE c == Joined(config[a], S, changes + 1)
  <2>1. Begins(a, c) /\ ~IsTransitional(config[a]) /\ c \in Config
    BY <1>5, ConfigUpdateDoes
  <2>2. Eases(config[a], c) /\ config[a] \in Config
    BY <2>1 DEF Eases, Joined, TypeOK
  <2>3. \A f : Eases(f, f)
    BY DEF Eases
  <2> HIDE DEF c
  <2>4. /\ \A t \in Nat : Follows(a, t)' => Follows(a, t)
        /\ \A f : Uses(a, f)' <=> f = c \/ LastConfig(own[a], f)
        /\ own'[a] = own[a] /\ Uses(a, config[a])
    BY <2>1, BeginsDerived
  <2>5. \A f \in Config : Uses(a, f)' => Grows(own[a], own'[a], f) /\ \E g \in Config : Uses(a, g) /\ Eases(g, f)
    BY <2>2, <2>3, <2>4 DEF Grows, Uses
  <2> QED  BY <2>4, <2>5 DEF Derived, Comes, Votes
<1>6. ASSUME ConfigStored(a)  PROVE Derived(X, a)
  BY <1>3, <1>6, ConfigStoredDoes
<1>7. ASSUME EntriesAppended(a)  PROVE Derived(X, a)
  BY <1>3, <1>7, EntriesAppendedDoes
<1>8. Derived(X, a)
  BY <1>4, <1>5, <1>6, <1>7, HearsDerived, GrowsDerived, RestartDerived DEF Quiet, Acts
<1> QED  BY <1>2, <1>8

-----------------------------------------------------------------------------
(* What is committed stays where it is. *)

HoldsOn(X, q) ==
  \A x \in X : (In(x, log[q]) => In(x, log'[q])) /\ (In(x, log'[q]) => In(x, own'[q]))

LEMMA GrownHolds ==
  ASSUME NEW X, \A x \in X : x.log \in Seq(Item) /\ x.at \in Nat, NEW p \in Peer, log[p] \in Seq(Item),
         NEW e \in Item, log'[p] \in {log[p], Append(log[p], e)}, own'[p] = log'[p]
  PROVE  HoldsOn(X, p)
<1>1. \A x \in X : In(x, log[p]) => In(x, Append(log[p], e))
  BY InGrown
<1> QED  BY <1>1 DEF HoldsOn

LEMMA ActsHold ==
  ASSUME TypeOK, TypeOK', LocalInv, ~LosesConfig, NEW L, LogInv(L), NEW X, ChosenInv(L, X),
         NEW a \in Peer, Acts(a)
  PROVE  \A q \in Peer : HoldsOn(X, q)
<1>1. \A x \in X : /\ x.log \in Seq(Item) /\ x.at \in Nat
                   /\ \A q \in Peer : In(x, log[q]) => In(x, own[q])
  BY GhostType DEF ChosenInv
<1>2. \A q \in Peer : log'[q] = log[q] /\ own'[q] = own[q] => HoldsOn(X, q)
  BY <1>1 DEF HoldsOn
<1>3. Alone(a) /\ log[a] \in Seq(Item)
  BY ActsPlain, LogsOf
<1>4. \A q \in Peer \ {a} : HoldsOn(X, q)
  BY <1>2, <1>3, OthersSame DEF Alone
<1>5. ASSUME NEW q \in Peer, StepDown(a, q)  PROVE HoldsOn(X, a)
  <2>1. UNCHANGED <<log, task, config>>
    BY <1>5, StepDownDoes
  <2> QED  BY <1>2, <2>1, SamePeer
<1>6. ASSUME Update(a)  PROVE HoldsOn(X, a)
  <2>1. log'[a] = Append(log[a], Entry(term[a], None)) /\ own'[a] = log'[a] /\ term[a] \in Nat
    BY <1>6, UpdateDoes DEF TypeOK
  <2>2. Entry(term[a], None) \in Item
    BY <2>1, EntryIs
  <2> QED  BY <1>1, <1>3, <2>1, <2>2, GrownHolds
<1>7. ASSUME NEW S \in Targets, ConfigUpdate(a, S)  PROVE HoldsOn(X, a)
  <2>1. log' = log /\ own'[a] = log[a]
    BY <1>7, ConfigUpdateDoes DEF Begins
  <2> QED  BY <2>1 DEF HoldsOn
<1>8. ASSUME NEW i \in 1..Len(log[a]), Commit(a, i)  PROVE HoldsOn(X, a)
  <2>1. log' = log /\ own' = own
    BY <1>8, CommitDoes
  <2> QED  BY <1>2, <2>1
<1>9. ASSUME ConfigStored(a)  PROVE HoldsOn(X, a)
  BY <1>2, <1>9, ConfigStoredDoes
<1>10. ASSUME ConfigAppended(a)  PROVE HoldsOn(X, a)
  <2>1. Writes(a) /\ log'[a] = full[a] /\ own'[a] = full[a]
    BY <1>10, ConfigAppendedDoes
  <2>2. full[a] = Append(log[a], Entry(task[a].term, config[a])) /\ Entry(task[a].term, config[a]) \in Item
    BY <2>1, LogsOf
  <2> QED  BY <1>1, <1>3, <2>1, <2>2, GrownHolds
<1>11. ASSUME NEW q \in Peer, AppendEntries(q, a)  PROVE HoldsOn(X, a)
  <2>1. Hears(a, q) /\ log'[a] = log[q] /\ own'[a] = log[q]
    BY <1>11, AppendEntriesDoes
  <2>2. \A x \in X : In(x, log[a]) => In(x, log[q])
    BY <2>1, LeaderHas
  <2> QED  BY <2>1, <2>2 DEF HoldsOn
<1>12. ASSUME NEW q \in Peer, AppendConfigEntries(q, a)  PROVE HoldsOn(X, a)
  <2>1. Hears(a, q) /\ log' = log /\ own'[a] = log[q]
    BY <1>12, AppendConfigEntriesDoes
  <2>2. \A x \in X : In(x, log[a]) => In(x, log[q])
    BY <2>1, LeaderHas
  <2> QED  BY <2>1, <2>2 DEF HoldsOn
<1>13. ASSUME EntriesAppended(a)  PROVE HoldsOn(X, a)
  <2>1. log'[a] = own[a] /\ own'[a] = own[a]
    BY <1>13, EntriesAppendedDoes
  <2> QED  BY <1>1, <2>1 DEF HoldsOn
<1>14. ASSUME Restart(a)  PROVE HoldsOn(X, a)
  <2>1. log' = log /\ own'[a] = log[a]
    BY <1>14, RestartDoes
  <2> QED  BY <2>1 DEF HoldsOn
<1>15. HoldsOn(X, a)
  BY <1>5, <1>6, <1>7, <1>8, <1>9, <1>10, <1>11, <1>12, <1>13, <1>14 DEF Acts
<1> QED  BY <1>4, <1>15

\* So part of the majorities keeps it.
LEMMA HoldersKeep ==
  ASSUME NEW X, \A q \in Peer : HoldsOn(X, q), NEW x \in X, NEW f \in Config, HalfOf(f, Holders(x))
  PROVE  HalfOf(f, Holders(x)')
<1>1. \A q \in Peer : In(x, log[q]) => In(x, log[q])'
  BY DEF HoldsOn, In, AgreeTo
<1>2. Holders(x) \intersect Peer \subseteq Holders(x)'
  BY <1>1 DEF Holders
<1> QED  BY <1>2, HalfGrows

LEMMA ReachedKeep ==
  ASSUME TypeOK, TypeOK', Later, NEW u \in Nat, NEW f \in Config, HalfOf(f, Reached(u))
  PROVE  HalfOf(f, Reached(u)')
<1>1. \A q \in Peer : term[q] \in Nat /\ term'[q] \in Nat /\ term[q] <= term'[q]
  BY DEF TypeOK, Later
<1>2. Reached(u) \intersect Peer \subseteq Reached(u)'
  BY <1>1 DEF Reached
<1> QED  BY <1>2, HalfGrows

LEMMA HalfEases ==
  ASSUME NEW g, NEW f, Eases(g, f), NEW Q, HalfOf(g, Q)
  PROVE  HalfOf(f, Q)
  BY DEF HalfOf, Eases

\* Voters that had, or lacked, what is committed do so still.
LEMMA VotersKept ==
  ASSUME TypeOK, TypeOK', Later, NEW L, LogInv(L), NEW X, ChosenInv(L, X), NEW U, U \subseteq Nat,
         VotersInv(X, U), \A r \in Peer : \E s \in Peer : Votes(X, r, s), \A q \in Peer : HoldsOn(X, q)
  PROVE  VotersInv(X, U)'
<1>1. \A x \in X : x.log \in Seq(Item) /\ x.at \in Nat
  BY GhostType
<1> SUFFICES ASSUME NEW r \in Peer, NEW f \in Config, Uses(r, f)'
             PROVE  Rooted(X, own[r], f)' /\ (Barred(X, r, f)' \/ Able(X, U, r, f)')
  BY DEF VotersInv, Config
<1>2. PICK s \in Peer : Votes(X, r, s)
  OBVIOUS
<1>3. PICK g \in Config : Uses(s, g) /\ Eases(g, f) /\ Grows(own[s], own'[r], f)
  BY <1>2 DEF Votes
<1>4. Rooted(X, own[s], g) /\ (Barred(X, s, g) \/ Able(X, U, s, g))
  BY <1>3 DEF VotersInv
<1>5. \A x \in X : In(x, own[s]) <=> In(x, own'[r])
  BY <1>2 DEF Votes
<1>6. \A x \in X : In(x, own'[r]) <=> In(x, own[r])'
  BY DEF In, AgreeTo
<1>7. Rooted(X, own[r], f)'
  <2>1. own[s] \in Seq(Item)
    BY LogsOf
  <2>2. Rooted(X, own[s], f)
    BY <1>3, <1>4, <2>1, RootedEases
  <2>3. Rooted(X, own'[r], f)
    BY <1>1, <1>3, <2>1, <2>2, RootedGrows
  <2> QED  BY <2>3 DEF Rooted, RootedAt, Root, In, AgreeTo, IsTransitional
<1>8. CASE Barred(X, s, g)
  <2>1. PICK x \in X : ~In(x, own[s]) /\ HalfOf(g, Holders(x))
    BY <1>8 DEF Barred
  <2>2. HalfOf(f, Holders(x))
    BY <1>3, <2>1, HalfEases
  <2>3. HalfOf(f, Holders(x)')
    BY <2>2, HoldersKeep
  <2>4. ~In(x, own[r])'
    BY <1>5, <1>6, <2>1
  <2>5. Barred(X, r, f)'
    BY <2>3, <2>4 DEF Barred, HalfOf, Majority, IsTransitional, In, AgreeTo
  <2> QED  BY <1>7, <2>5
<1>9. CASE Able(X, U, s, g)
  <2>1. \A x \in X : In(x, own[r])'
    BY <1>5, <1>6, <1>9 DEF Able
  <2>2. ASSUME NEW u \in U  PROVE HalfOf(f, Reached(u)')
    <3>1. HalfOf(g, Reached(u)) /\ u \in Nat
      BY <1>9 DEF Able
    <3>2. HalfOf(f, Reached(u))
      BY <1>3, <3>1, HalfEases
    <3> QED  BY <3>1, <3>2, ReachedKeep
  <2>3. Able(X, U, r, f)'
    BY <2>1, <2>2 DEF Able, HalfOf, Majority, IsTransitional, In, AgreeTo
  <2> QED  BY <1>7, <2>3
<1> QED  BY <1>4, <1>7, <1>8, <1>9

LEMMA ChosenKept ==
  ASSUME NEW L, LogInv(L), NEW X, ChosenInv(L, X), NEW K, L \subseteq K,
         \A r \in Peer : Derived(X, r) \/ \A x \in X : In(x, own'[r]), \A q \in Peer : HoldsOn(X, q)
  PROVE  ChosenInv(K, X)'
<1>1. X \subseteq [log : K, at : Nat]
  BY DEF ChosenInv
<1>2. ASSUME NEW x \in X, NEW r \in Peer, Follows(r, TermOf(x))'  PROVE In(x, own'[r])
  <2> SUFFICES ASSUME NEW s \in Peer, Comes(X, r, s)  PROVE In(x, own'[r])
    BY DEF Derived
  <2>2. TermOf(x) \in Nat /\ (Follows(s, TermOf(x)) => In(x, own[s]))
    BY GhostType
  <2>3. \A t \in Nat : Follows(r, t)' => Follows(s, t)
    BY DEF Comes
  <2>4. Follows(s, TermOf(x))
    BY <1>2, <2>2, <2>3 DEF Follows, TermOf
  <2> QED  BY <2>2, <2>4 DEF Comes, Votes
<1>3. \A x \in X : \A p \in Peer : In(x, log'[p]) => In(x, own'[p])
  BY DEF HoldsOn
<1> QED  BY <1>1, <1>2, <1>3 DEF ChosenInv, In, AgreeTo, TermOf

TermsAre(l, U) == \A i \in 1..Len(l) : l[i].term \in U

LEMMA TermsNext ==
  ASSUME NEW a \in Peer, Alone(a), NEW L, LogInv(L), NEW U, TermsInv(L, U), NEW V, U \subseteq V, V \subseteq Nat,
         \A p \in Peer : leads'[p] \/ Takes(p)' => term'[p] \in V,
         TermsAre(log'[a], V), TermsAre(own'[a], V), TermsAre(full'[a], V),
         NEW K, K = L \union {log'[a], own'[a]}
  PROVE  TermsInv(K, V)'
<1>1. \A l \in All(L) : TermsAre(l, V)
  BY DEF TermsInv, TermsAre
<1>2. \A p \in Peer \ {a} : full'[p] = full[p]
  BY OthersSame
<1>3. \A p \in Peer : TermsAre(full'[p], V)
  BY <1>1, <1>2 DEF All
<1>4. \A l \in K : TermsAre(l, V)
  BY <1>1 DEF All
<1>5. \A l \in K \union {full'[p] : p \in Peer} : TermsAre(l, V)
  BY <1>3, <1>4
<1> QED  BY <1>5 DEF TermsInv, TermsAre, All

LEMMA ActsTerm ==
  ASSUME TypeOK, TypeOK', LocalInv, ~LosesConfig, NEW L, LogInv(L), NEW U, TermsInv(L, U),
         NEW a \in Peer, Acts(a), leads'[a] \/ Takes(a)'
  PROVE  term'[a] \in U
<1>1. CASE leads'[a]
  BY <1>1, ActsPlain DEF Deposed, TermsInv
<1>2. ASSUME Takes(a)'  PROVE term'[a] \in U
  <2>1. ASSUME NEW q \in Peer, StepDown(a, q)  PROVE FALSE
    <3>1. task' = task /\ leads[a]
      BY <2>1, StepDownDoes DEF StepDown
    <3>2. Takes(a)
      BY <1>2, <3>1 DEF Takes, Paused
    <3> QED  BY <3>1, <3>2 DEF LocalInv, SelfInv
  <2>2. ASSUME NEW q \in Peer, AppendConfigEntries(q, a)  PROVE term'[a] \in U
    <3>1. Hears(a, q)
      BY <2>2, AppendConfigEntriesDoes
    <3> QED  BY <3>1, HearsDoes DEF TermsInv
  <2>3. ASSUME NEW i \in 1..Len(log[a]), Commit(a, i)  PROVE term'[a] \in U
    <3>1. leads[a] /\ term' = term
      BY <2>3, CommitDoes
    <3> QED  BY <3>1 DEF TermsInv
  <2>4. ~Update(a) /\ ~ConfigStored(a) /\ ~ConfigAppended(a) /\ ~EntriesAppended(a) /\ ~Restart(a)
    BY <1>2, UpdateDoes, ConfigStoredDoes, ConfigAppendedDoes, EntriesAppendedDoes, RestartDoes
  <2>5. \A S \in Targets : ~ConfigUpdate(a, S)
    BY <1>2, ConfigUpdateDoes DEF Begins
  <2>6. \A q \in Peer : ~AppendEntries(q, a)
    BY <1>2, AppendEntriesDoes
  <2> QED  BY <2>1, <2>2, <2>3, <2>4, <2>5, <2>6 DEF Acts
<1> QED  BY <1>1, <1>2

LEMMA TermsKept ==
  ASSUME TypeOK, TypeOK', LocalInv, ~LosesConfig, NEW L, LogInv(L), NEW U, TermsInv(L, U),
         NEW a \in Peer, Acts(a), NEW K, K = L \union {log'[a], own'[a]}
  PROVE  TermsInv(K, U)'
<1>1. Alone(a) /\ Deposed /\ Plain(L, a) /\ \A q \in Peer \ {a} : term'[q] = term[q]
  BY ActsPlain, ActsTerms
<1>2. \A p \in Peer : leads'[p] \/ Takes(p)' => term'[p] \in U
  <2>1. \A p \in Peer \ {a} : Takes(p)' => Takes(p)
    BY <1>1, OthersSame
  <2>2. \A p \in Peer \ {a} : leads'[p] => leads[p]
    BY <1>1 DEF Deposed
  <2> QED  BY <1>1, <2>1, <2>2, ActsTerm DEF TermsInv
<1>3. /\ \A l \in All(L) : TermsAre(l, U)
      /\ log[a] \in All(L) /\ own[a] \in All(L) /\ full[a] \in All(L) /\ full[a] \in Seq(Item)
  BY AllLogs DEF TermsInv, TermsAre
<1>4. Adds(a) /\ leads'[a] => TermsAre(full'[a], U)
  <2> SUFFICES ASSUME leads'[a], NEW e \in Item, e.term = term'[a], full'[a] = Append(full[a], e)
               PROVE  TermsAre(full'[a], U)
    BY DEF Adds
  <2>1. /\ Len(full[a]) \in Nat /\ Len(full'[a]) = Len(full[a]) + 1 /\ full'[a][Len(full[a]) + 1] = e
        /\ \A i \in 1..Len(full[a]) : full'[a][i] = full[a][i]
    BY <1>3, Longer, ItemOf
  <2>2. e.term \in U
    BY <1>2
  <2>3. \A i \in 1..Len(full'[a]) : i \in 1..Len(full[a]) \/ i = Len(full[a]) + 1
    BY <2>1
  <2> QED  BY <1>3, <2>1, <2>2, <2>3 DEF TermsAre
<1>5. TermsAre(log'[a], U) /\ TermsAre(own'[a], U) /\ TermsAre(full'[a], U)
  BY <1>1, <1>3, <1>4 DEF Plain
<1>6. U \subseteq Nat
  BY DEF TermsInv
<1> QED  BY <1>1, <1>2, <1>5, <1>6, TermsNext

\* What a leader says is committed is so in what it sends.
LEMMA EntriesCommitted ==
  ASSUME TypeOK, NEW X, CommitInv(X), NEW p \in Peer
  PROVE  Committed(X, Entries(p).log, Entries(p).commit)
<1>1. Len(log[p]) \in Nat /\ commit[p] \in Nat
  BY LogsOf, ItemOf DEF TypeOK
<1>2. Committed(X, log[p], commit[p])
  BY DEF CommitInv
<1>3. \A x \in X : x.at = commit[p] /\ In(x, log[p]) => commit[p] <= Len(log[p])
  BY DEF In, AgreeTo
<1>4. commit[p] <= Len(log[p])
  <2>1. commit[p] = 0 => commit[p] <= Len(log[p])
    BY <1>1
  <2> QED  BY <1>2, <1>3, <2>1 DEF Committed
<1>5. Entries(p).commit = commit[p] /\ Entries(p).log = log[p]
  BY <1>4, EntriesIs
<1> QED  BY <1>2, <1>5

LEMMA QuietCommit ==
  ASSUME TypeOK, TypeOK', LocalInv, ~LosesConfig, NEW L, LogInv(L), NEW X, ChosenInv(L, X), CommitInv(X),
         NEW a \in Peer, Quiet(a)
  PROVE  CommitInv(X)'
<1>1. Acts(a) /\ \A q \in Peer : HoldsOn(X, q)
  BY ActsHold DEF Quiet
<1>2. /\ Alone(a) /\ Committed(X, log[a], commit[a])
      /\ Takes(a) => Committed(X, own[a], task[a].commit)
  BY <1>1, ActsPlain DEF CommitInv
<1>3. \A n : Committed(X, log[a], n) => Committed(X, log'[a], n)
  BY <1>1 DEF Committed, HoldsOn
<1>4. ASSUME commit'[a] = commit[a], task'[a] = task[a], own'[a] = own[a]
      PROVE  /\ Committed(X, log'[a], commit'[a])
             /\ Takes(a)' => Committed(X, own'[a], task'[a].commit)
  <2>1. Takes(a)' => Takes(a)
    BY <1>4 DEF Takes, Paused
  <2> QED  BY <1>2, <1>3, <1>4, <2>1
<1>5. ASSUME commit'[a] = commit[a], ~Takes(a)'
      PROVE  /\ Committed(X, log'[a], commit'[a])
             /\ Takes(a)' => Committed(X, own'[a], task'[a].commit)
  BY <1>2, <1>3, <1>5
<1> DEFINE G == /\ Committed(X, log'[a], commit'[a])
                /\ Takes(a)' => Committed(X, own'[a], task'[a].commit)
<1>6. ASSUME NEW q \in Peer, StepDown(a, q)  PROVE G
  <2>1. UNCHANGED <<log, commit, task, config>>
    BY <1>6, StepDownDoes
  <2> QED  BY <1>4, <2>1, SamePeer
<1>7. ASSUME Update(a) \/ ConfigStored(a) \/ ConfigAppended(a) \/ Restart(a)  PROVE G
  BY <1>5, <1>7, UpdateDoes, ConfigStoredDoes, ConfigAppendedDoes, RestartDoes
<1>8. ASSUME NEW S \in Targets, ConfigUpdate(a, S)  PROVE G
  BY <1>5, <1>8, ConfigUpdateDoes DEF Begins
<1>9. ASSUME NEW q \in Peer, AppendEntries(q, a)  PROVE G
  <2>1. /\ ~Takes(a)' /\ log'[a] = Entries(q).log
        /\ commit'[a] \in {commit[a], Entries(q).commit}
    BY <1>9, AppendEntriesDoes, EntriesIs
  <2> QED  BY <1>2, <1>3, <2>1, EntriesCommitted
<1>10. ASSUME NEW q \in Peer, AppendConfigEntries(q, a)  PROVE G
  <2>1. Takes(a)' /\ log' = log /\ commit' = commit /\ task'[a] = Entries(q)
    BY <1>10, AppendConfigEntriesDoes
  <2>2. own'[a] = Entries(q).log
    BY <2>1, LogsNext
  <2> QED  BY <1>2, <2>1, <2>2, EntriesCommitted
<1>11. ASSUME EntriesAppended(a)  PROVE G
  <2>1. /\ ~Takes(a)' /\ Takes(a) /\ log'[a] = own[a]
        /\ commit'[a] \in {commit[a], task[a].commit}
    BY <1>11, EntriesAppendedDoes
  <2> QED  BY <1>2, <1>3, <2>1
<1>12. G
  <2> HIDE DEF G
  <2> QED  BY <1>6, <1>7, <1>8, <1>9, <1>10, <1>11 DEF Quiet, Acts
<1>13. ASSUME NEW q \in Peer \ {a}
       PROVE  /\ Committed(X, log'[q], commit'[q])
              /\ Takes(q)' => Committed(X, own'[q], task'[q].commit)
  <2>1. log'[q] = log[q] /\ commit'[q] = commit[q] /\ task'[q] = task[q]
    BY <1>2 DEF Alone
  <2>2. own'[q] = own[q] /\ (Takes(q)' <=> Takes(q))
    BY <1>2, OthersSame
  <2> QED  BY <2>1, <2>2 DEF CommitInv
<1>14. \A q \in Peer : /\ Committed(X, log'[q], commit'[q])
                       /\ Takes(q)' => Committed(X, own'[q], task'[q].commit)
  BY <1>12, <1>13
<1> QED  BY <1>14 DEF CommitInv, Committed, In, AgreeTo

LEMMA QuietSafe ==
  ASSUME TypeOK, TypeOK', LocalInv, ~LosesConfig, NEW L, NEW X, NEW U, SafeInv(L, X, U),
         NEW a \in Peer, Quiet(a), NEW K, K = L \union {log'[a], own'[a]}
  PROVE  SafeInv(K, X, U)'
<1>1. /\ LogInv(L) /\ FreshInv(L) /\ TermsInv(L, U) /\ ChosenInv(L, X) /\ VotersInv(X, U) /\ CommitInv(X)
      /\ Acts(a) /\ U \subseteq Nat /\ L \subseteq K
  BY DEF SafeInv, Quiet, TermsInv
<1>2. /\ Alone(a) /\ Later /\ Deposed /\ Plain(L, a)
      /\ \A q \in Peer : HoldsOn(X, q) /\ Derived(X, q)
  BY <1>1, ActsPlain, ActsHold, QuietDerived
<1>3. LogInv(K)'
  BY <1>1, <1>2, PlainLog
<1>4. FreshInv(K)'
  BY <1>1, ActsFresh
<1>5. TermsInv(K, U)'
  BY <1>1, TermsKept
<1>6. ChosenInv(K, X)'
  BY <1>1, <1>2, ChosenKept
<1>7. VotersInv(X, U)'
  <2>1. \A r \in Peer : \E s \in Peer : Votes(X, r, s)
    BY <1>2 DEF Derived, Comes
  <2> QED  BY <1>1, <1>2, <2>1, VotersKept
<1>8. CommitInv(X)'
  BY <1>1, QuietCommit
<1> QED  BY <1>3, <1>4, <1>5, <1>6, <1>7, <1>8 DEF SafeInv

-----------------------------------------------------------------------------
(* Elections. *)

\* A peer that its voters find up to date has what one of them has.
LEMMA VoterHas ==
  ASSUME TypeOK, NEW L, LogInv(L), NEW X, ChosenInv(L, X), NEW p \in Peer, NEW q \in Peer,
         ~Paused(p), UpToDate(p, q), NEW x \in X, In(x, log[q])
  PROVE  In(x, own[p])
<1>1. /\ x.log \in Seq(Item) /\ x.at \in Nat /\ x.at \in 1..Len(x.log) /\ TermOf(x) \in Nat
      /\ Follows(p, TermOf(x)) => In(x, own[p])
  BY GhostType
<1>2. own[p] = log[p] /\ full[p] = log[p]
  BY IdleIs
<1>3. /\ log[p] \in Seq(Item) /\ log[q] \in Seq(Item) /\ Len(log[p]) \in Nat /\ Len(log[q]) \in Nat
      /\ \A i \in 1..Len(log[p]) : log[p][i].term \in Nat
      /\ \A i \in 1..Len(log[q]) : log[q][i].term \in Nat
  BY LogsOf, ItemOf
<1>4. x.at \in 1..Len(log[q]) /\ log[q][x.at].term = TermOf(x)
  BY <1>1, <1>3, InHas
<1>5. LastTerm(log[q]) = log[q][Len(log[q])].term /\ LastTerm(log[q]) >= TermOf(x)
  <2>1. Len(log[q]) \in 1..Len(log[q]) /\ log[q] # <<>>
    BY <1>3, <1>4
  <2>2. Sorted(log[q])
    BY AllLogs DEF LogInv
  <2>3. log[q][x.at].term <= log[q][Len(log[q])].term
    BY <1>3, <1>4, <2>1, <2>2 DEF Sorted
  <2> QED  BY <1>1, <1>3, <1>4, <2>1, <2>3 DEF LastTerm, Last
<1>6. LastTerm(log[p]) = IF Len(log[p]) = 0 THEN 0 ELSE log[p][Len(log[p])].term
  <2>1. log[p] = <<>> <=> Len(log[p]) = 0
    BY <1>3, EmptySeq
  <2> QED  BY <2>1 DEF LastTerm, Last
<1>7. CASE LastTerm(log[p]) > TermOf(x)
  <2>1. Len(log[p]) \in 1..Len(log[p]) /\ log[p][Len(log[p])].term > TermOf(x)
    BY <1>1, <1>3, <1>6, <1>7
  <2> QED  BY <1>1, <1>2, <2>1 DEF Follows
<1>8. CASE ~ (LastTerm(log[p]) > TermOf(x))
  <2>1. LastTerm(log[p]) \in Nat /\ LastTerm(log[q]) \in Nat
    BY <1>3, <1>4, <1>5, <1>6
  <2>2. LastTerm(log[p]) = TermOf(x) /\ Len(log[p]) >= Len(log[q])
    BY <1>1, <1>5, <1>8, <2>1 DEF UpToDate
  <2>3. x.at <= Len(log[p]) /\ Len(log[p]) \in 1..Len(log[p]) /\ log[p][Len(log[p])].term = log[q][x.at].term
    BY <1>3, <1>4, <1>6, <2>2
  <2>4. Matches(log[p], log[q])
    BY AllLogs DEF LogInv
  <2>5. AgreeTo(log[p], log[q], x.at)
    BY <1>4, <2>3, <2>4 DEF Matches
  <2>6. AgreeTo(log[q], x.log, x.at) /\ x.at <= x.at
    BY <1>1 DEF In
  <2>7. AgreeTo(log[p], x.log, x.at)
    BY <1>1, <1>3, <2>5, <2>6, AgreeWith
  <2> QED  BY <1>2, <2>7 DEF In
<1> QED  BY <1>7, <1>8

LEMMA ElectAble ==
  ASSUME TypeOK, TypeOK', NEW L, LogInv(L), NEW X, ChosenInv(L, X), NEW U, TermsInv(L, U), VotersInv(X, U),
         NEW p \in Peer, NEW Q \in SUBSET Peer, Elect(p, Q)
  PROVE  /\ \A x \in X : In(x, own[p])
         /\ \A u \in U : u < term'[p]
<1>1. /\ p \in Q /\ HasWonVoting(config[p], Q) /\ config[p] \in Config
      /\ \A q \in Q : ~Paused(q) /\ UpToDate(p, q) /\ term[q] < term'[p]
  BY ElectDoes DEF TypeOK
<1>2. Barred(X, p, config[p]) \/ Able(X, U, p, config[p])
  BY <1>1 DEF VotersInv, Uses
<1>3. ~Barred(X, p, config[p])
  <2> SUFFICES ASSUME NEW x \in X, HalfOf(config[p], Holders(x))  PROVE In(x, own[p])
    BY DEF Barred
  <2>1. PICK q \in Q : q \in Holders(x)
    BY <1>1, HalfMeets
  <2> QED  BY <1>1, <2>1, VoterHas DEF Holders
<1>4. ASSUME NEW u \in U  PROVE u < term'[p]
  <2>1. HalfOf(config[p], Reached(u))
    BY <1>2, <1>3 DEF Able
  <2>2. PICK q \in Q : q \in Reached(u)
    BY <1>1, <2>1, HalfMeets
  <2>3. term[q] >= u /\ term[q] < term'[p] /\ term[q] \in Nat /\ term'[p] \in Nat /\ u \in Nat
    BY <1>1, <2>2 DEF Reached, TypeOK, TermsInv
  <2> QED  BY <2>3
<1> QED  BY <1>2, <1>3, <1>4 DEF Able

\* What a peer has when it is elected, and may use
LEMMA ElectVotes ==
  ASSUME TypeOK, TypeOK', NEW L, LogInv(L), NEW X, ChosenInv(L, X),
         NEW p \in Peer, NEW Q \in SUBSET Peer, Elect(p, Q), \A x \in X : In(x, own[p])
  PROVE  /\ \A q \in Peer : HoldsOn(X, q)
         /\ \A r \in Peer : Derived(X, r) \/ \A x \in X : In(x, own'[r])
         /\ \A r \in Peer : \E s \in Peer : Votes(X, r, s)
<1>1. /\ Alone(p) /\ p \in Q /\ ~Paused(p) /\ term'[p] \in Nat /\ config' = config
      /\ \A q \in Peer \ {p} : leads'[q] => leads[q] /\ term'[q] = term[q]
      /\ log'[p] \in {log[p], Append(log[p], Entry(term'[p], None))} /\ own'[p] = log'[p]
  BY ElectDoes
<1>2. /\ own[p] = log[p] /\ log[p] \in Seq(Item) /\ Entry(term'[p], None) \in Item
      /\ \A x \in X : /\ x.log \in Seq(Item) /\ x.at \in Nat
                      /\ \A q \in Peer : In(x, log[q]) => In(x, own[q])
  BY <1>1, IdleIs, LogsOf, EntryIs, GhostType DEF ChosenInv
<1>3. HoldsOn(X, p)
  BY <1>1, <1>2, GrownHolds
<1>4. ASSUME NEW q \in Peer \ {p}  PROVE HoldsOn(X, q)
  <2>1. log'[q] = log[q] /\ own'[q] = own[q]
    BY <1>1, OthersSame DEF Alone
  <2> QED  BY <1>2, <2>1 DEF HoldsOn
<1>5. \A x \in X : In(x, own'[p])
  BY <1>1, <1>2, <1>3 DEF HoldsOn
<1>6. \A r \in Peer \ {p} : Derived(X, r)
  BY <1>1, OthersDerived
<1>7. ASSUME NEW f \in Config, Uses(p, f)'
      PROVE  Grows(own[p], own'[p], f) /\ Uses(p, f) /\ Eases(f, f)
  <2>1. LastConfig(log'[p], f) <=> LastConfig(log[p], f)
    <3>1. LastConfig(Append(log[p], Entry(term'[p], None)), f) <=> LastConfig(log[p], f)
      BY <1>1, <1>2, LastGrows
    <3> QED  BY <1>1, <3>1
  <2>2. Uses(p, f)
    BY <1>1, <1>2, <1>7, <2>1, UsesNext DEF Uses
  <2> QED  BY <1>1, <1>2, <2>2 DEF Grows, Eases
<1>8. Votes(X, p, p)
  BY <1>5, <1>7 DEF Votes
<1> QED  BY <1>3, <1>4, <1>5, <1>6, <1>8 DEF Derived, Comes

\* Those that can be elected next need a vote of a peer that knows of this election.
LEMMA ElectVoters ==
  ASSUME TypeOK, TypeOK', NEW L, LogInv(L), NEW X, ChosenInv(L, X), NEW U, TermsInv(L, U), VotersInv(X, U),
         NEW p \in Peer, NEW Q \in SUBSET Peer, Elect(p, Q),
         NEW t, t = term'[p]
  PROVE  VotersInv(X, U \union {t})'
<1>1. /\ Later /\ HasWonVoting(config[p], Q) /\ config'[p] = config[p] /\ config[p] \in Config
      /\ t \in Nat /\ \A q \in Q : term'[q] = t
  <2>1. config[p] \in Config
    BY DEF TypeOK
  <2> QED  BY <2>1, ElectDoes
<1>2. \A x \in X : In(x, own[p])
  BY ElectAble
<1>3. VotersInv(X, U)'
  <2>1. U \subseteq Nat
    BY DEF TermsInv
  <2> QED  BY <1>1, <1>2, <2>1, ElectVotes, VotersKept
<1>4. \A r \in Peer : \A f \in Config : f = config'[r] \/ LastConfig(own'[r], f) =>
        /\ Rooted(X, own'[r], f)
        /\ \/ \E x \in X : ~In(x, own'[r]) /\ HalfOf(f, Holders(x)')
           \/ /\ \A x \in X : In(x, own'[r])
              /\ \A u \in U : HalfOf(f, Reached(u)')
  BY <1>3, UsesNext DEF VotersInv, Barred, Able, Rooted, RootedAt, Root, HalfOf, Majority, IsTransitional,
     In, AgreeTo, Config
<1>5. ASSUME NEW r \in Peer, NEW f \in Config, Rooted(X, own'[r], f), \A x \in X : In(x, own'[r])
      PROVE  HalfOf(f, Reached(t)')
  <2>1. /\ \A x \in X : x.log \in Seq(Item) /\ x.at \in Nat
        /\ own'[p] \in Seq(Item) /\ own'[r] \in Seq(Item)
    BY GhostType, LogsNext
  <2>2. \A x \in X : In(x, own'[p])
    <3>1. /\ log'[p] \in {log[p], Append(log[p], Entry(term'[p], None))} /\ own'[p] = log'[p]
          /\ HoldsOn(X, p) /\ ~Paused(p)
      BY <1>2, ElectDoes, ElectVotes
    <3>2. own[p] = log[p]
      BY <3>1, IdleIs
    <3> QED  BY <1>2, <3>1, <3>2 DEF HoldsOn
  <2>3. Rooted(X, own'[p], config[p])
    BY <1>1, <1>4
  <2>4. HalfOf(f, Q)
    BY <1>1, <1>5, <2>1, <2>2, <2>3, MajoritiesCompare
  <2>5. Q \intersect Peer \subseteq Reached(t)'
    <3>1. \A q \in Q : term'[q] >= t
      BY <1>1
    <3> QED  BY <3>1 DEF Reached
  <2> QED  BY <2>4, <2>5, HalfGrows
<1>6. \A r \in Peer : \A f \in Config : f = config'[r] \/ LastConfig(own'[r], f) =>
        /\ Rooted(X, own'[r], f)
        /\ \/ \E x \in X : ~In(x, own'[r]) /\ HalfOf(f, Holders(x)')
           \/ /\ \A x \in X : In(x, own'[r])
              /\ \A u \in U \union {t} : HalfOf(f, Reached(u)')
  <2> SUFFICES ASSUME NEW r \in Peer, NEW f \in Config, f = config'[r] \/ LastConfig(own'[r], f)
               PROVE  /\ Rooted(X, own'[r], f)
                      /\ \/ \E x \in X : ~In(x, own'[r]) /\ HalfOf(f, Holders(x)')
                         \/ /\ \A x \in X : In(x, own'[r])
                            /\ \A u \in U \union {t} : HalfOf(f, Reached(u)')
    OBVIOUS
  <2> QED  BY <1>4, <1>5
<1> QED  BY <1>6, UsesNext DEF VotersInv, Barred, Able, Rooted, RootedAt, Root, HalfOf, Majority, IsTransitional,
     In, AgreeTo, Config

LEMMA ElectTerms ==
  ASSUME TypeOK, TypeOK', NEW L, LogInv(L), NEW U, TermsInv(L, U),
         NEW p \in Peer, NEW Q \in SUBSET Peer, Elect(p, Q), NEW K, K = L \union {log'[p], own'[p]},
         NEW t, t = term'[p]
  PROVE  TermsInv(K, U \union {t})'
<1> DEFINE V == U \union {t}
<1>1. /\ Alone(p) /\ ~Takes(p)' /\ t \in Nat /\ log'[p] \in {log[p], Append(log[p], Entry(t, None))}
      /\ own'[p] = log'[p] /\ full'[p] = log'[p]
      /\ \A q \in Q : ~Paused(q)
      /\ \A q \in Peer : term'[q] # term[q] => q \in Q
      /\ \A q \in Peer \ {p} : leads'[q] => leads[q] /\ term'[q] = term[q]
  BY ElectDoes
<1>2. U \subseteq V /\ V \subseteq Nat
  BY <1>1 DEF TermsInv
<1>3. ASSUME NEW q \in Peer, leads'[q] \/ Takes(q)'  PROVE term'[q] \in V
  <2>1. CASE q = p
    BY <2>1
  <2>2. CASE q # p
    <3>1. (Takes(q)' <=> Takes(q)) /\ (Takes(q) => Paused(q))
      BY <1>1, <2>2, OthersSame DEF Takes
    <3>2. (leads[q] \/ Takes(q)) /\ term'[q] = term[q]
      BY <1>1, <1>3, <2>2, <3>1
    <3> QED  BY <3>2 DEF TermsInv
  <2> QED  BY <2>1, <2>2
<1>4. TermsAre(log'[p], V)
  <2>1. log[p] \in Seq(Item) /\ Entry(t, None) \in Item /\ Entry(t, None).term = t
    BY <1>1, LogsOf, EntryIs
  <2>2. \A i \in 1..Len(log[p]) : log[p][i].term \in V
    <3>1. log[p] \in All(L)
      BY AllLogs
    <3> QED  BY <3>1 DEF TermsInv
  <2>3. CASE log'[p] = log[p]
    BY <2>2, <2>3 DEF TermsAre
  <2>4. CASE log'[p] = Append(log[p], Entry(t, None))
    <3>1. /\ Len(log[p]) \in Nat /\ Len(log'[p]) = Len(log[p]) + 1 /\ log'[p][Len(log[p]) + 1].term = t
          /\ \A i \in 1..Len(log[p]) : log'[p][i] = log[p][i]
      BY <2>1, <2>4, Longer, ItemOf
    <3>2. \A i \in 1..Len(log'[p]) : i \in 1..Len(log[p]) \/ i = Len(log[p]) + 1
      BY <3>1
    <3> QED  BY <2>2, <3>1, <3>2 DEF TermsAre
  <2> QED  BY <1>1, <2>3, <2>4
<1> HIDE DEF V
<1>5. TermsInv(K, V)'
  BY <1>1, <1>2, <1>3, <1>4, TermsNext
<1> QED  BY <1>5 DEF V

LEMMA ElectCommit ==
  ASSUME TypeOK, TypeOK', NEW X, CommitInv(X), NEW p \in Peer, NEW Q \in SUBSET Peer, Elect(p, Q), HoldsOn(X, p)
  PROVE  CommitInv(X)'
<1>1. Alone(p) /\ ~Takes(p)' /\ commit' = commit /\ task' = task
  BY ElectDoes
<1>2. Committed(X, log'[p], commit'[p])
  BY <1>1 DEF CommitInv, Committed, HoldsOn
<1>3. ASSUME NEW q \in Peer \ {p}
      PROVE  /\ Committed(X, log'[q], commit'[q])
             /\ Takes(q)' => Committed(X, own'[q], task'[q].commit)
  <2>1. log'[q] = log[q] /\ own'[q] = own[q] /\ (Takes(q)' <=> Takes(q))
    BY <1>1, OthersSame DEF Alone
  <2> QED  BY <1>1, <2>1 DEF CommitInv
<1>4. \A q \in Peer : /\ Committed(X, log'[q], commit'[q])
                      /\ Takes(q)' => Committed(X, own'[q], task'[q].commit)
  BY <1>1, <1>2, <1>3
<1> QED  BY <1>4 DEF CommitInv, Committed, In, AgreeTo

LEMMA ElectSafe ==
  ASSUME TypeOK, TypeOK', NEW L, NEW X, NEW U, SafeInv(L, X, U),
         NEW p \in Peer, NEW Q \in SUBSET Peer, Elect(p, Q), NEW K, K = L \union {log'[p], own'[p]},
         NEW t, t = term'[p]
  PROVE  SafeInv(K, X, U \union {t})'
<1>1. /\ LogInv(L) /\ FreshInv(L) /\ TermsInv(L, U) /\ ChosenInv(L, X) /\ VotersInv(X, U) /\ CommitInv(X)
      /\ U \subseteq Nat /\ L \subseteq K /\ t \in Nat
  BY ElectDoes DEF SafeInv, TermsInv
<1>2. (\A x \in X : In(x, own[p])) /\ t \notin U
  <2>1. (\A x \in X : In(x, own[p])) /\ \A u \in U : u < t
    BY <1>1, ElectAble
  <2> QED  BY <1>1, <2>1
<1>3. LogInv(K)'
  <2>1. \A q \in Peer : leads[q] => term[q] # t
    BY <1>1, <1>2 DEF TermsInv
  <2>2. \A m \in All(L) : \A k \in 1..Len(m) : m[k].term # t
    BY <1>1, <1>2 DEF TermsInv
  <2> QED  BY <1>1, <2>1, <2>2, ElectLog
<1>4. FreshInv(K)'
  BY <1>1, ElectFresh
<1>5. TermsInv(K, U \union {t})'
  BY <1>1, ElectTerms
<1>6. /\ \A q \in Peer : HoldsOn(X, q)
      /\ \A r \in Peer : Derived(X, r) \/ \A x \in X : In(x, own'[r])
  BY <1>1, <1>2, ElectVotes
<1>7. ChosenInv(K, X)'
  BY <1>1, <1>6, ChosenKept
<1>8. VotersInv(X, U \union {t})'
  BY <1>1, ElectVoters
<1>9. CommitInv(X)'
  BY <1>1, <1>6, ElectCommit
<1> QED  BY <1>3, <1>4, <1>5, <1>7, <1>8, <1>9 DEF SafeInv

-----------------------------------------------------------------------------
(* Commitment. *)

\* Those that have an entry, when a leader commits it
Having(p, i) == {q \in Members(config[p]) : q = p \/ Has(q, p, i)}

LEMMA CommitHas ==
  ASSUME TypeOK, TypeOK', LocalInv, NEW L, LogInv(L), NEW p \in Peer, NEW i \in 1..Len(log[p]), Commit(p, i)
  PROVE  /\ leads[p] /\ up[p] /\ own[p] = log[p] /\ ~Takes(p) /\ log[p][i].term = term[p]
         /\ config[p] \in Config /\ HasWonVoting(config[p], Having(p, i)) /\ i \in Nat
         /\ \A q \in Having(p, i) \intersect Peer :
              term[q] = term[p] /\ AgreeTo(log[q], log[p], i)
<1>1. leads[p] /\ log[p][i].term = term[p] /\ HasWonVoting(config[p], Having(p, i))
  BY CommitDoes DEF MajorityHas, HasWonVoting, Having
<1>2. up[p] /\ ~Takes(p)
  BY <1>1 DEF LocalInv, SelfInv
<1>3. own[p] = log[p] /\ Len(log[p]) \in Nat /\ i \in Nat /\ config[p] \in Config
  <2>1. own[p] = log[p] /\ log[p] \in Seq(Item)
    BY <1>2, LogsOf
  <2>2. Len(log[p]) \in Nat
    BY <2>1, ItemOf
  <2>3. config[p] \in Config
    BY DEF TypeOK
  <2> QED  BY <2>1, <2>2, <2>3
<1>4. ASSUME NEW q \in Peer, q = p \/ Has(q, p, i)  PROVE term[q] = term[p] /\ AgreeTo(log[q], log[p], i)
  <2>1. CASE q = p
    BY <1>3, <2>1 DEF AgreeTo
  <2>2. CASE Has(q, p, i)
    <3>1. term[q] = term[p] /\ Len(log[q]) >= i /\ log[q][i] = log[p][i]
      BY <2>2 DEF Has
    <3>2. Matches(log[q], log[p]) /\ Len(log[q]) \in Nat
      BY AllLogs, LogsOf, ItemOf DEF LogInv
    <3>3. i \in 1..Len(log[q]) /\ i \in 1..Len(log[p]) /\ i <= i
      BY <1>3, <3>1, <3>2
    <3>4. AgreeTo(log[q], log[p], i)
      BY <3>1, <3>2, <3>3 DEF Matches
    <3> QED  BY <3>1, <3>4
  <2> QED  BY <1>4, <2>1, <2>2
<1> QED  BY <1>1, <1>2, <1>3, <1>4 DEF Having

\* A leader that can commit has what is committed, and nobody was elected after it.
LEMMA CommitAble ==
  ASSUME TypeOK, TypeOK', LocalInv, NEW L, LogInv(L), NEW X, ChosenInv(L, X), NEW U, TermsInv(L, U),
         VotersInv(X, U), NEW p \in Peer, NEW i \in 1..Len(log[p]), Commit(p, i)
  PROVE  /\ \A x \in X : In(x, log[p])
         /\ \A u \in U : u <= term[p]
<1>1. /\ leads[p] /\ own[p] = log[p] /\ config[p] \in Config /\ HasWonVoting(config[p], Having(p, i))
      /\ \A q \in Having(p, i) \intersect Peer : term[q] = term[p]
  BY CommitHas
<1>2. Barred(X, p, config[p]) \/ Able(X, U, p, config[p])
  BY <1>1 DEF VotersInv, Uses
<1>3. ~Barred(X, p, config[p])
  <2> SUFFICES ASSUME NEW x \in X, HalfOf(config[p], Holders(x))  PROVE In(x, own[p])
    BY DEF Barred
  <2>1. PICK q \in Having(p, i) : q \in Holders(x) /\ q \in Peer
    BY <1>1, HalfMeets
  <2>2. /\ x.log \in Seq(Item) /\ x.at \in 1..Len(x.log) /\ TermOf(x) \in Nat
        /\ Follows(p, TermOf(x)) => In(x, own[p])
    BY GhostType
  <2>3. In(x, log[q]) /\ log[q] \in Seq(Item) /\ term[q] = term[p]
    BY <1>1, <2>1, LogsOf DEF Holders
  <2>4. x.at \in 1..Len(log[q]) /\ log[q][x.at].term = TermOf(x)
    BY <2>2, <2>3, InHas
  <2>5. TermOf(x) <= term[q] /\ term[p] \in Nat
    BY <2>1, <2>4 DEF LogInv, Below, TypeOK
  <2>6. Follows(p, TermOf(x))
    BY <1>1, <2>2, <2>3, <2>5 DEF Follows
  <2> QED  BY <2>2, <2>6
<1>4. ASSUME NEW u \in U  PROVE u <= term[p]
  <2>1. HalfOf(config[p], Reached(u))
    BY <1>2, <1>3 DEF Able
  <2>2. PICK q \in Having(p, i) : q \in Reached(u) /\ q \in Peer
    BY <1>1, <2>1, HalfMeets
  <2>3. term[q] >= u /\ term[q] = term[p] /\ term[p] \in Nat /\ u \in Nat
    BY <1>1, <2>2 DEF Reached, TypeOK, TermsInv
  <2> QED  BY <2>3
<1> QED  BY <1>1, <1>2, <1>3, <1>4 DEF Able

\* What is committed then
New(p, i) == [log |-> log[p], at |-> i]

LEMMA CommitChosen ==
  ASSUME TypeOK, TypeOK', LocalInv, NEW L, LogInv(L), NEW X, ChosenInv(L, X), NEW U, TermsInv(L, U),
         VotersInv(X, U), NEW p \in Peer, NEW i \in 1..Len(log[p]), Commit(p, i), NEW x, x = New(p, i)
  PROVE  /\ x.log = log[p] /\ x.at = i /\ TermOf(x) = term[p] /\ In(x, log[p])
         /\ \A r \in Peer : Follows(r, term[p]) => In(x, own[r])
         /\ \A q \in Peer : In(x, log[q]) => In(x, own[q])
         /\ \A y \in X : i <= y.at => In(x, y.log)
<1>1. x.log = log[p] /\ x.at = i
  BY DEF New
<1>2. /\ leads[p] /\ own[p] = log[p] /\ log[p][i].term = term[p] /\ i \in Nat /\ i <= Len(log[p])
      /\ log[p] \in Seq(Item) /\ Len(log[p]) \in Nat /\ term[p] \in Nat
  <2>1. log[p] \in Seq(Item) /\ Len(log[p]) \in Nat /\ term[p] \in Nat
    BY LogsOf, ItemOf DEF TypeOK
  <2> QED  BY <2>1, CommitHas
<1>3. TermOf(x) = term[p] /\ In(x, log[p])
  BY <1>1, <1>2 DEF TermOf, In, AgreeTo
<1>4. /\ \A u \in U : u <= term[p] /\ u \in Nat
      /\ \A y \in X : In(y, log[p])
  BY CommitAble DEF TermsInv
<1>5. ASSUME NEW r \in Peer, Follows(r, term[p])  PROVE In(x, own[r])
  <2>1. \A j \in 1..Len(full[r]) : full[r][j].term \in U
    BY AllLogs DEF TermsInv
  <2>2. \A j \in 1..Len(full[r]) : ~ (full[r][j].term > term[p])
    BY <1>2, <1>4, <2>1
  <2>3. leads[r] /\ term[r] >= term[p]
    BY <1>5, <2>2 DEF Follows
  <2>4. term[r] = term[p]
    <3>1. term[r] \in U
      BY <2>3 DEF TermsInv
    <3> QED  BY <1>2, <1>4, <2>3, <3>1
  <2>5. r = p
    BY <1>2, <2>3, <2>4 DEF LogInv
  <2> QED  BY <1>2, <1>3, <2>5
<1>6. ASSUME NEW q \in Peer, In(x, log[q])  PROVE In(x, own[q])
  <2>1. CASE ~Takes(q)
    BY <1>6, <2>1, LogsOf
  <2>2. CASE Takes(q)
    <3>1. HasTerm(own[q], log[q], term[q]) /\ term[q] \in U
      BY <2>2 DEF LocalInv, SelfInv, TermsInv
    <3>2. log[q] \in Seq(Item) /\ own[q] \in Seq(Item) /\ i \in 1..Len(log[q]) /\ log[q][i].term = term[p]
      BY <1>1, <1>2, <1>3, <1>6, LogsOf, InHas
    <3>3. term[p] <= term[q] /\ term[q] \in Nat
      BY <3>2 DEF LogInv, Below, TypeOK
    <3>4. term[q] = term[p]
      BY <1>2, <1>4, <3>1, <3>3
    <3>5. AgreeTo(log[q], own[q], i)
      BY <3>1, <3>2, <3>4 DEF HasTerm
    <3>6. AgreeTo(own[q], log[q], i) /\ AgreeTo(log[q], x.log, i) /\ i <= i
      BY <1>1, <1>2, <1>6, <3>2, <3>5, Agreement DEF In
    <3>7. AgreeTo(own[q], x.log, i)
      BY <1>1, <1>2, <3>2, <3>6, AgreeWith
    <3> QED  BY <1>1, <3>7 DEF In
  <2> QED  BY <2>1, <2>2
<1>7. ASSUME NEW y \in X, i <= y.at  PROVE In(x, y.log)
  <2>1. y.log \in Seq(Item) /\ y.at \in Nat /\ AgreeTo(log[p], y.log, y.at)
    BY <1>4, GhostType DEF In
  <2>2. AgreeTo(log[p], y.log, i)
    BY <1>2, <1>7, <2>1, Agreement
  <2>3. AgreeTo(y.log, log[p], i)
    BY <1>2, <2>1, <2>2, Agreement
  <2> QED  BY <1>1, <2>3 DEF In
<1> QED  BY <1>1, <1>3, <1>5, <1>6, <1>7

LEMMA CommitFollows ==
  ASSUME TypeOK, TypeOK', LocalInv, NEW L, LogInv(L), NEW p \in Peer, NEW i \in 1..Len(log[p]), Commit(p, i)
  PROVE  \A r \in Peer : \A t \in Nat : Follows(r, t)' => Follows(r, t)
<1>1. CASE Begins(p, NewOnly(config[p], changes + 1)) /\ NewOnly(config[p], changes + 1) \in Config
  <2>1. Alone(p) /\ Deposed
    BY <1>1 DEF Begins
  <2>2. ASSUME NEW r \in Peer \ {p}  PROVE \A t \in Nat : Follows(r, t)' => Follows(r, t)
    <3>1. full'[r] = full[r] /\ (leads'[r] => leads[r] /\ term'[r] = term[r])
      BY <2>1, OthersSame DEF Deposed
    <3> QED  BY <3>1, UsesNext DEF Follows
  <2>3. \A t \in Nat : Follows(p, t)' => Follows(p, t)
    BY <1>1, BeginsDerived
  <2> QED  BY <2>2, <2>3
<1>2. CASE Deposed /\ UNCHANGED <<config, task, log>>
  <2>1. \A r \in Peer : full'[r] = full[r] /\ (leads'[r] => leads[r] /\ term'[r] = term[r])
    BY <1>2, SamePeer DEF Deposed
  <2> QED  BY <2>1, UsesNext DEF Follows
<1> QED  BY <1>1, <1>2, CommitDoes

LEMMA CommitUses ==
  ASSUME TypeOK, TypeOK', LocalInv, NEW p \in Peer, NEW i \in 1..Len(log[p]), Commit(p, i),
         NEW r \in Peer, NEW f \in Config, Uses(r, f)'
  PROVE  \/ Uses(r, f)
         \/ /\ r = p /\ IsTransitional(config[p]) /\ index[p] \in 1..i
            /\ f = NewOnly(config[p], changes + 1)
<1>1. CASE /\ Begins(p, NewOnly(config[p], changes + 1)) /\ NewOnly(config[p], changes + 1) \in Config
           /\ IsTransitional(config[p]) /\ index[p] \in 1..i
  <2>1. CASE r = p
    <3>1. f = NewOnly(config[p], changes + 1) \/ LastConfig(own[p], f)
      BY <1>1, <2>1, BeginsDerived
    <3> QED  BY <1>1, <2>1, <3>1 DEF Uses
  <2>2. CASE r # p
    BY <1>1, <2>2, OthersSame DEF Begins
  <2> QED  BY <2>1, <2>2
<1>2. CASE UNCHANGED <<config, task, log>>
  BY <1>2, SamePeer
<1> QED  BY <1>1, <1>2, CommitDoes

\* The new configuration that follows a joint one
LEMMA NewVoters ==
  ASSUME TypeOK, TypeOK', LocalInv, NEW L, LogInv(L), FreshInv(L), NEW X, ChosenInv(L, X),
         NEW U, TermsInv(L, U), VotersInv(X, U),
         NEW p \in Peer, NEW i \in 1..Len(log[p]), Commit(p, i), NEW Y, Y = X \union {New(p, i)},
         IsTransitional(config[p]), index[p] \in 1..i, NEW f, f = NewOnly(config[p], changes + 1)
  PROVE  Rooted(Y, own[p], f) /\ Able(Y, U, p, f) /\ f \in Config
<1> DEFINE x == New(p, i)
           c == config[p]
           k == index[p]
<1>1. /\ leads[p] /\ up[p] /\ own[p] = log[p] /\ c \in Config /\ i \in Nat /\ own[p] \in Seq(Item)
      /\ HasWonVoting(c, Having(p, i)) /\ changes \in Nat /\ term[p] \in Nat
      /\ \A q \in Having(p, i) \intersect Peer : term[q] = term[p]
  <2>1. own[p] \in Seq(Item) /\ changes \in Nat /\ term[p] \in Nat
    BY LogsOf DEF TypeOK
  <2> QED  BY <2>1, CommitHas
<1>2. x.at = i /\ In(x, log[p]) /\ \A y \in X : In(y, log[p])
  BY CommitChosen, CommitAble
<1>3. k \in 1..Len(own[p]) /\ own[p][k].config = c /\ LastConfig(own[p], c)
  <2>1. ~Writes(p)
    <3>1. k # 0
      BY <1>1
    <3> QED  BY <3>1 DEF LocalInv, SelfInv
  <2> QED  BY <1>1, <2>1 DEF LocalInv, SelfInv, At
<1>4. \A a, b \in 1..Len(own[p]) : own[p][a].config # None /\ own[p][a].config = own[p][b].config => a = b
  <2>1. own[p] \in L
    BY DEF LogInv
  <2> QED  BY <2>1 DEF FreshInv
<1>5. \E y \in Y : k <= y.at /\ In(y, own[p])
  <2>1. x \in Y /\ k <= x.at /\ In(x, own[p])
    BY <1>1, <1>2
  <2> QED  BY <2>1
<1>6. Rooted(Y, own[p], NewOnly(c, changes + 1))
  <2>1. IsTransitional(c)
    OBVIOUS
  <2> HIDE DEF x, c, k
  <2> QED  BY <1>1, <1>3, <1>4, <1>5, <2>1, RootedNew
<1>7. \A y \in Y : In(y, own[p])
  BY <1>1, <1>2
<1>8. ASSUME NEW u \in U  PROVE HalfOf(f, Reached(u))
  <2>1. u <= term[p] /\ u \in Nat
    BY CommitAble DEF TermsInv
  <2>2. Having(p, i) \intersect Peer \subseteq Reached(u)
    BY <1>1, <2>1 DEF Reached
  <2>3. Majority(Having(p, i), f.old)
    BY <1>1 DEF HasWonVoting, NewOnly
  <2>4. f.old \in SUBSET Peer
    BY <1>1, ConfigIs DEF NewOnly
  <2>5. Majority(Reached(u), f.old)
    BY <2>2, <2>3, <2>4, MajorityGrows
  <2> QED  BY <2>5 DEF HalfOf
<1>9. f \in Config
  <2>1. changes + 1 \in Nat
    BY <1>1
  <2> QED  BY <1>1, <2>1, ConfigIs
<1> QED  BY <1>6, <1>7, <1>8, <1>9 DEF Able

LEMMA SameVoter ==
  ASSUME NEW Y, NEW U, UNCHANGED <<log, own, term>>, NEW r \in Peer, NEW f \in Config,
         Rooted(Y, own[r], f), Barred(Y, r, f) \/ Able(Y, U, r, f)
  PROVE  Rooted(Y, own[r], f)' /\ (Barred(Y, r, f)' \/ Able(Y, U, r, f)')
<1>1. Rooted(Y, own'[r], f) => Rooted(Y, own[r], f)'
  BY DEF Rooted, RootedAt, Root, In, AgreeTo, IsTransitional
<1>2. \A y \in Y : In(y, own[r])' <=> In(y, own[r])
  BY DEF In, AgreeTo
<1>3. \A y \in Y : Holders(y)' = Holders(y)
  BY DEF Holders, In, AgreeTo
<1>4. \A u \in U : Reached(u)' = Reached(u)
  BY DEF Reached
<1>5. Barred(Y, r, f) => Barred(Y, r, f)'
  <2>1. Barred(Y, r, f) => \E y \in Y : ~In(y, own[r])' /\ HalfOf(f, Holders(y)')
    BY <1>2, <1>3 DEF Barred
  <2> QED  BY <2>1 DEF Barred, HalfOf, Majority, IsTransitional
<1>6. Able(Y, U, r, f) => Able(Y, U, r, f)'
  <2>1. Able(Y, U, r, f) => (\A y \in Y : In(y, own[r])') /\ \A u \in U : HalfOf(f, Reached(u)')
    BY <1>2, <1>4 DEF Able
  <2> QED  BY <2>1 DEF Able, HalfOf, Majority, IsTransitional
<1> QED  BY <1>1, <1>5, <1>6

LEMMA CommitVoters ==
  ASSUME TypeOK, TypeOK', LocalInv, NEW L, LogInv(L), FreshInv(L), NEW X, ChosenInv(L, X),
         NEW U, TermsInv(L, U), VotersInv(X, U),
         NEW p \in Peer, NEW i \in 1..Len(log[p]), Commit(p, i), NEW x, x = New(p, i)
  PROVE  VotersInv(X \union {x}, U)'
<1> DEFINE Y == X \union {x}
<1>1. /\ own[p] = log[p] /\ config[p] \in Config /\ HasWonVoting(config[p], Having(p, i))
      /\ \A q \in Having(p, i) \intersect Peer : AgreeTo(log[q], log[p], i)
  BY CommitHas
<1>2. log' = log /\ own' = own /\ term' = term
  BY CommitDoes
<1>3. \A y \in X : y.log \in Seq(Item) /\ y.at \in Nat /\ In(y, own[p])
  BY <1>1, GhostType, CommitAble
<1>4. Having(p, i) \intersect Peer \subseteq Holders(x)
  BY <1>1 DEF Holders, In, New
<1>5. ASSUME NEW r \in Peer, NEW f \in Config, Uses(r, f)
      PROVE  Rooted(Y, own[r], f) /\ (Barred(Y, r, f) \/ Able(Y, U, r, f))
  <2>1. Rooted(X, own[r], f) /\ (Barred(X, r, f) \/ Able(X, U, r, f))
    BY <1>5 DEF VotersInv
  <2>2. Rooted(Y, own[r], f)
    BY <2>1, RootedMore
  <2>3. CASE Barred(X, r, f)
    BY <2>2, <2>3 DEF Barred
  <2>4. CASE Able(X, U, r, f) /\ In(x, own[r])
    BY <2>2, <2>4 DEF Able
  <2>5. CASE Able(X, U, r, f) /\ ~In(x, own[r])
    <3>1. Rooted(X, own[p], config[p])
      BY <1>1 DEF VotersInv, Uses
    <3>2. \A y \in X : In(y, own[r])
      BY <2>5 DEF Able
    <3>3. own[p] \in Seq(Item) /\ own[r] \in Seq(Item)
      BY LogsOf
    <3>4. HalfOf(f, Having(p, i))
      BY <1>1, <1>3, <2>1, <3>1, <3>2, <3>3, MajoritiesCompare
    <3>5. HalfOf(f, Holders(x))
      BY <1>4, <3>4, HalfGrows
    <3> QED  BY <2>2, <2>5, <3>5 DEF Barred
  <2> QED  BY <2>1, <2>3, <2>4, <2>5
<1>6. ASSUME NEW r \in Peer, NEW f \in Config, Uses(r, f)'
      PROVE  Rooted(Y, own[r], f) /\ (Barred(Y, r, f) \/ Able(Y, U, r, f))
  <2>1. CASE Uses(r, f)
    BY <1>5, <2>1
  <2>2. CASE /\ r = p /\ IsTransitional(config[p]) /\ index[p] \in 1..i
             /\ f = NewOnly(config[p], changes + 1)
    <3> HIDE DEF Y
    <3>1. Y = X \union {New(p, i)}
      BY DEF Y
    <3> QED  BY <2>2, <3>1, NewVoters
  <2> QED  BY <1>6, <2>1, <2>2, CommitUses
<1>7. \A r \in Peer : \A f \in Config : Uses(r, f)' =>
        Rooted(Y, own[r], f)' /\ (Barred(Y, r, f)' \/ Able(Y, U, r, f)')
  BY <1>2, <1>6, SameVoter
<1> QED  BY <1>7 DEF VotersInv, Config

LEMMA CommitGhost ==
  ASSUME TypeOK, TypeOK', LocalInv, NEW L, LogInv(L), NEW X, ChosenInv(L, X), NEW U, TermsInv(L, U),
         VotersInv(X, U), NEW p \in Peer, NEW i \in 1..Len(log[p]), Commit(p, i), NEW x, x = New(p, i),
         NEW K, L \subseteq K
  PROVE  ChosenInv(K, X \union {x})'
<1> DEFINE Y == X \union {x}
<1>1. /\ x.log = log[p] /\ x.at = i /\ TermOf(x) = term[p] /\ In(x, log[p])
      /\ \A r \in Peer : Follows(r, term[p]) => In(x, own[r])
      /\ \A q \in Peer : In(x, log[q]) => In(x, own[q])
      /\ \A y \in X : i <= y.at => In(x, y.log)
      /\ \A y \in X : In(y, log[p])
  BY CommitChosen, CommitAble
<1>2. /\ log' = log /\ own' = own /\ i \in Nat /\ term[p] \in Nat
      /\ \A r \in Peer : \A t \in Nat : Follows(r, t)' => Follows(r, t)
  <2>1. i \in Nat /\ term[p] \in Nat
    BY CommitHas DEF TypeOK
  <2> QED  BY <2>1, CommitDoes, CommitFollows
<1>3. x \in [log : K, at : Nat] /\ x.at \in 1..Len(x.log)
  BY <1>1, <1>2 DEF New, LogInv
<1>4. Y \subseteq [log : K, at : Nat]
  BY <1>3 DEF ChosenInv
<1>5. \A y \in Y : y.at \in 1..Len(y.log) /\ TermOf(y) \in Nat
  BY <1>1, <1>2, <1>3, GhostType
<1>6. \A y \in Y : \A r \in Peer : Follows(r, TermOf(y)) => In(y, own[r])
  BY <1>1, GhostType
<1>7. ASSUME NEW y \in Y, NEW r \in Peer, Follows(r, TermOf(y))'  PROVE In(y, own'[r])
  <2>1. TermOf(y) \in Nat
    BY <1>5
  <2>2. Follows(r, TermOf(y))
    BY <1>2, <1>7, <2>1 DEF Follows, TermOf
  <2> QED  BY <1>2, <1>6, <2>2
<1>8. \A y \in Y : \A q \in Peer : In(y, log'[q]) => In(y, own'[q])
  BY <1>1, <1>2 DEF ChosenInv
<1>9. \A y \in Y : \A z \in Y : y.at <= z.at => In(y, z.log)
  BY <1>1 DEF ChosenInv
<1> HIDE DEF Y
<1>10. ChosenInv(K, Y)'
  BY <1>4, <1>5, <1>7, <1>8, <1>9 DEF ChosenInv, In, AgreeTo, TermOf
<1> QED  BY <1>10 DEF Y

LEMMA CommitCommit ==
  ASSUME TypeOK, TypeOK', LocalInv, NEW L, LogInv(L), NEW X, CommitInv(X),
         NEW p \in Peer, NEW i \in 1..Len(log[p]), Commit(p, i), NEW x, x = New(p, i)
  PROVE  CommitInv(X \union {x})'
<1> DEFINE Y == X \union {x}
<1>1. /\ log' = log /\ own' = own /\ commit'[p] = i /\ (\A q \in Peer \ {p} : commit'[q] = commit[q])
      /\ Alone(p) /\ ~Takes(p)'
  <2>1. Begins(p, NewOnly(config[p], changes + 1)) => Alone(p) /\ ~Takes(p)'
    BY DEF Begins
  <2>2. ASSUME UNCHANGED task  PROVE ~Takes(p)'
    BY <2>2, CommitHas DEF Takes, Paused
  <2> QED  BY <2>1, <2>2, CommitDoes
<1>2. In(x, log[p]) /\ x.at = i
  <2>1. log[p] \in Seq(Item) /\ i <= Len(log[p])
    BY LogsOf, ItemOf
  <2> QED  BY <2>1 DEF In, AgreeTo, New
<1>3. Committed(Y, log'[p], commit'[p])
  BY <1>1, <1>2 DEF Committed
<1>4. ASSUME NEW q \in Peer \ {p}
      PROVE  /\ Committed(Y, log'[q], commit'[q])
             /\ Takes(q)' => Committed(Y, own'[q], task'[q].commit)
  <2>1. task'[q] = task[q] /\ (Takes(q)' <=> Takes(q))
    BY <1>1, OthersSame DEF Alone
  <2> QED  BY <1>1, <2>1 DEF CommitInv, Committed
<1>5. \A q \in Peer : /\ Committed(Y, log'[q], commit'[q])
                      /\ Takes(q)' => Committed(Y, own'[q], task'[q].commit)
  BY <1>1, <1>3, <1>4
<1> HIDE DEF Y
<1>6. CommitInv(Y)'
  BY <1>5 DEF CommitInv, Committed, In, AgreeTo
<1> QED  BY <1>6 DEF Y

LEMMA CommitSafe ==
  ASSUME TypeOK, TypeOK', LocalInv, ~LosesConfig, NEW L, NEW X, NEW U, SafeInv(L, X, U),
         NEW p \in Peer, NEW i \in 1..Len(log[p]), Commit(p, i), NEW K, K = L \union {log'[p], own'[p]},
         NEW x, x = New(p, i)
  PROVE  SafeInv(K, X \union {x}, U)'
<1>1. /\ LogInv(L) /\ FreshInv(L) /\ TermsInv(L, U) /\ ChosenInv(L, X) /\ VotersInv(X, U) /\ CommitInv(X)
      /\ Acts(p) /\ L \subseteq K
  BY DEF SafeInv, Acts
<1>2. LogInv(K)' /\ FreshInv(K)' /\ TermsInv(K, U)'
  <2>1. Alone(p) /\ Later /\ Deposed /\ Plain(L, p)
    BY <1>1, ActsPlain
  <2>2. LogInv(K)'
    BY <1>1, <2>1, PlainLog
  <2> QED  BY <1>1, <2>2, ActsFresh, TermsKept
<1>3. ChosenInv(K, X \union {x})'
  BY <1>1, CommitGhost
<1>4. VotersInv(X \union {x}, U)'
  BY <1>1, CommitVoters
<1>5. CommitInv(X \union {x})'
  BY <1>1, CommitCommit
<1> QED  BY <1>2, <1>3, <1>4, <1>5 DEF SafeInv

-----------------------------------------------------------------------------
(* The invariant. *)

LEMMA InitLogs ==
  ASSUME Init, NEW p \in Peer
  PROVE  /\ log[p] = <<>> /\ own[p] = <<>> /\ full[p] = <<>> /\ ~Paused(p) /\ ~Takes(p) /\ ~Writes(p)
         /\ term[p] = 0 /\ ~leads[p] /\ commit[p] = 0 /\ index[p] = 0
         /\ config[p] = First /\ disk[p] = [config |-> First, index |-> 0]
<1>1. /\ log[p] = <<>> /\ task[p] = None /\ term[p] = 0 /\ ~leads[p] /\ commit[p] = 0 /\ index[p] = 0
      /\ config[p] = First /\ disk[p] = [config |-> First, index |-> 0]
  BY DEF Init
<1>2. ~Paused(p) /\ ~Takes(p) /\ ~Writes(p)
  BY <1>1 DEF Paused, Takes, Writes
<1> QED  BY <1>1, <1>2 DEF own, full

LEMMA InitLocal ==
  ASSUME Init
  PROVE  LocalInv
<1> SUFFICES ASSUME NEW p \in Peer  PROVE SelfInv(p)
  BY DEF LocalInv
<1>1. /\ own[p] = <<>> /\ ~Paused(p) /\ ~Takes(p) /\ ~Writes(p) /\ ~leads[p] /\ index[p] = 0
      /\ config[p] = First /\ disk[p].config = First /\ disk[p].index = 0
  BY InitLogs
<1>2. LastConfig(own[p], First)
  <2>1. \A j \in 1..Len(own[p]) : FALSE
    BY <1>1
  <2> QED  BY <2>1 DEF LastConfig
<1> QED  BY <1>1, <1>2 DEF SelfInv, At

LEMMA InitSafe ==
  ASSUME Init
  PROVE  SafeInv({<<>>}, {}, {})
<1> DEFINE L == {<<>>}
<1>1. <<>> \in Seq(Item) /\ Len(<<>>) = 0 /\ \A j \in 1..Len(<<>>) : FALSE
  OBVIOUS
<1>2. All(L) = L /\ \A l \in All(L) : \A j \in 1..Len(l) : FALSE
  BY <1>1, InitLogs DEF All
<1>3. LogInv(L)
  <2>1. L \subseteq Seq(Item) /\ \A p \in Peer : log[p] \in L /\ own[p] \in L /\ ~leads[p]
    BY <1>1, InitLogs
  <2>2. \A p \in Peer : Below(log[p], term[p]) /\ Below(full[p], term[p])
    BY <1>1, InitLogs DEF Below
  <2>3. \A l \in All(L) : Sorted(l) /\ \A m \in All(L) : Matches(l, m)
    BY <1>2 DEF Sorted, Matches
  <2> QED  BY <2>1, <2>2, <2>3 DEF LogInv
<1>4. FreshInv(L)
  <2>1. \A p \in Peer : ~Writes(p) /\ config[p].id <= changes
    <3>1. changes = 0 /\ First.id = 0 /\ 0 <= 0
      BY DEF Init, First
    <3> QED  BY <3>1, InitLogs
  <2> QED  BY <1>1, <2>1 DEF FreshInv
<1>5. TermsInv(L, {})
  BY <1>2, InitLogs DEF TermsInv
<1>6. ChosenInv(L, {})
  BY DEF ChosenInv
<1>7. ASSUME NEW r \in Peer, NEW f \in Config, Uses(r, f)  PROVE Rooted({}, own[r], f) /\ Able({}, {}, r, f)
  <2>1. own[r] = <<>> /\ config[r] = First
    BY InitLogs
  <2>2. f = First
    BY <1>1, <1>7, <2>1 DEF Uses, LastConfig
  <2>3. RootedAt({}, own[r], f, 0)
    <3>1. \A j \in 0 + 1..Len(own[r]) : FALSE
      BY <2>1
    <3> QED  BY <2>2, <3>1 DEF RootedAt, Root, First
  <2>4. 0 \in 0..Len(own[r])
    BY <2>1
  <2> QED  BY <2>3, <2>4 DEF Rooted, Able
<1>8. VotersInv({}, {})
  BY <1>7 DEF VotersInv
<1>9. CommitInv({})
  BY InitLogs DEF CommitInv, Committed
<1> QED  BY <1>3, <1>4, <1>5, <1>6, <1>8, <1>9 DEF SafeInv

LEMMA StillSafe ==
  ASSUME LocalInv, NEW L, NEW X, NEW U, SafeInv(L, X, U), UNCHANGED vars
  PROVE  LocalInv' /\ SafeInv(L, X, U)'
<1>1. UNCHANGED <<up, leads, term, log, commit, config, index, disk, task, changes, restarts>>
  BY DEF vars, memory, history
<1>2. own' = own /\ full' = full
  BY <1>1 DEF own, full, Takes, Writes, Paused
<1>3. LocalInv'
  <2>1. ASSUME NEW p \in Peer  PROVE SelfInv(p)'
    <3>1. SelfInv(p) /\ UNCHANGED <<log, task, config, up, index, disk, leads, term>>
      BY <1>1 DEF LocalInv
    <3> QED  BY <3>1, SelfSame
  <2> QED  BY <2>1 DEF LocalInv
<1>4. LogInv(L)'
  <2>1. LogInv(L)
    BY DEF SafeInv
  <2>2. \A q \in Peer : term'[q] = term[q] /\ log'[q] = log[q] /\ own'[q] = own[q] /\ full'[q] = full[q]
    BY <1>1, <1>2
  <2>3. (All(L))' = All(L)
    BY <2>2 DEF All
  <2>4. /\ L \subseteq Seq(Item) /\ \A q \in Peer : log'[q] \in L /\ own'[q] \in L
        /\ \A q, r \in Peer : leads'[q] /\ leads'[r] /\ term'[q] = term'[r] => q = r
    BY <1>1, <2>1, <2>2 DEF LogInv
  <2>5. \A q \in Peer : Below(log'[q], term'[q]) /\ Below(full'[q], term'[q])
    BY <2>1, <2>2 DEF LogInv
  <2>6. \A l \in All(L) : Sorted(l) /\ \A m \in All(L) : Matches(l, m)
    BY <2>1 DEF LogInv
  <2>7. \A q \in Peer : leads'[q] => \A m \in All(L) : HasTerm(full'[q], m, term'[q])
    BY <1>1, <2>1, <2>2 DEF LogInv
  <2> QED  BY <2>3, <2>4, <2>5, <2>6, <2>7 DEF LogInv, Below, Sorted, Matches, HasTerm, AgreeTo
<1>5. FreshInv(L)'
  BY <1>1, <1>2 DEF SafeInv, FreshInv, Writes, Paused, HasConfig
<1>6. TermsInv(L, U)'
  BY <1>1, <1>2 DEF SafeInv, TermsInv, Takes, Paused, All
<1>7. ChosenInv(L, X)'
  BY <1>1, <1>2 DEF SafeInv, ChosenInv, Follows, In, AgreeTo, TermOf
<1>8. CommitInv(X)'
  BY <1>1, <1>2 DEF SafeInv, CommitInv, Committed, Takes, Paused, In, AgreeTo
<1>9. VotersInv(X, U)'
  <2>1. \A r \in Peer : \A f : Uses(r, f)' => Uses(r, f)
    BY <1>1, <1>2, UsesNext DEF Uses
  <2>2. ASSUME NEW r \in Peer, NEW f \in Config, Uses(r, f)'
        PROVE  Rooted(X, own[r], f)' /\ (Barred(X, r, f)' \/ Able(X, U, r, f)')
    <3>1. Rooted(X, own[r], f) /\ (Barred(X, r, f) \/ Able(X, U, r, f))
      BY <2>1, <2>2 DEF SafeInv, VotersInv
    <3> QED  BY <1>1, <1>2, <3>1, SameVoter
  <2> QED  BY <2>2 DEF VotersInv, Config
<1> QED  BY <1>3, <1>4, <1>5, <1>6, <1>7, <1>8, <1>9 DEF SafeInv

LEMMA NextIs ==
  ASSUME [Next]_vars
  PROVE  \/ UNCHANGED vars
         \/ \E a \in Peer : Quiet(a)
         \/ \E p \in Peer : \E i \in 1..Len(log[p]) : Commit(p, i)
         \/ \E p \in Peer : \E Q \in SUBSET Peer : Elect(p, Q)
  BY DEF Next, Quiet, Acts

LEMMA StepInv ==
  ASSUME MembershipInv, [Next]_vars, ~LosesConfig
  PROVE  MembershipInv'
<1>1. TypeOK /\ TypeOK' /\ LocalInv
  BY StepType DEF MembershipInv
<1>2. PICK L, X, U : SafeInv(L, X, U)
  BY DEF MembershipInv
<1>3. LogInv(L) /\ FreshInv(L)
  BY <1>2 DEF SafeInv
<1>4. CASE UNCHANGED vars
  BY <1>1, <1>2, <1>4, StillSafe DEF MembershipInv
<1>5. ASSUME NEW a \in Peer, Quiet(a)  PROVE MembershipInv'
  <2>1. PICK K : K = L \union {log'[a], own'[a]}
    OBVIOUS
  <2>2. SafeInv(K, X, U)'
    BY <1>1, <1>2, <1>5, <2>1, QuietSafe
  <2>3. LocalInv'
    BY <1>1, <1>3, <1>5, ActsLocal DEF Quiet
  <2> QED  BY <1>1, <2>2, <2>3 DEF MembershipInv
<1>6. ASSUME NEW p \in Peer, NEW i \in 1..Len(log[p]), Commit(p, i)  PROVE MembershipInv'
  <2>2. PICK K : K = L \union {log'[p], own'[p]}
    OBVIOUS
  <2>3. PICK x : x = New(p, i)
    OBVIOUS
  <2>4. SafeInv(K, X \union {x}, U)'
    BY <1>1, <1>2, <1>6, <2>2, <2>3, CommitSafe
  <2>5. LocalInv'
    BY <1>1, <1>3, <1>6, ActsLocal DEF Acts
  <2> QED  BY <1>1, <2>4, <2>5 DEF MembershipInv
<1>7. ASSUME NEW p \in Peer, NEW Q \in SUBSET Peer, Elect(p, Q)  PROVE MembershipInv'
  <2>1. PICK K : K = L \union {log'[p], own'[p]}
    OBVIOUS
  <2>2. PICK t : t = term'[p]
    OBVIOUS
  <2>3. SafeInv(K, X, U \union {t})'
    BY <1>1, <1>2, <1>7, <2>1, <2>2, ElectSafe
  <2>4. LocalInv'
    BY <1>1, <1>7, ElectLocal
  <2> QED  BY <1>1, <2>3, <2>4 DEF MembershipInv
<1> QED  BY <1>4, <1>5, <1>6, <1>7, NextIs

\* The invariant from which the safety of changes of the membership follows:
\* configurations are used as they were logged, and whoever can be elected has
\* what is committed and knows of earlier elections (ClusterConfiguration,
\* configUpdateHandler, appendEntryHandler, onAppendEntriesResponse).
THEOREM MembershipInvariant ==
  ASSUME ~LosesConfig
  PROVE  Spec => []MembershipInv
<1>1. Init => MembershipInv
  BY InitType, InitLocal, InitSafe DEF MembershipInv
<1>2. MembershipInv /\ [Next]_vars => MembershipInv'
  BY StepInv
<1> QED  BY <1>1, <1>2, PTL DEF Spec

LEMMA Leads == ASSUME MembershipInv  PROVE ElectionSafety
  BY DEF MembershipInv, SafeInv, LogInv, ElectionSafety

LEMMA CommitAgrees ==
  ASSUME TypeOK, NEW L, LogInv(L), NEW X, ChosenInv(L, X), CommitInv(X),
         NEW p \in Peer, NEW q \in Peer, commit[p] <= commit[q], NEW i \in 1..commit[p]
  PROVE  log[p][i] = log[q][i]
<1>1. commit[p] \in Nat /\ commit[q] \in Nat /\ i \in Nat /\ i <= commit[p] /\ commit[p] # 0 /\ commit[q] # 0
  BY DEF TypeOK
<1>2. PICK x \in X : x.at = commit[p] /\ In(x, log[p])
  BY <1>1 DEF CommitInv, Committed
<1>3. PICK y \in X : y.at = commit[q] /\ In(y, log[q])
  BY <1>1 DEF CommitInv, Committed
<1>4. In(x, y.log)
  BY <1>2, <1>3 DEF ChosenInv
<1>5. i \in 1..x.at /\ i \in 1..y.at
  BY <1>1, <1>2, <1>3
<1> QED  BY <1>2, <1>3, <1>4, <1>5 DEF In, AgreeTo

LEMMA CommitsAgree == ASSUME MembershipInv  PROVE StateMachineSafety
<1>1. PICK L, X, U : SafeInv(L, X, U)
  BY DEF MembershipInv
<1>2. TypeOK /\ LogInv(L) /\ ChosenInv(L, X) /\ CommitInv(X)
  BY <1>1 DEF MembershipInv, SafeInv
<1> SUFFICES ASSUME NEW p \in Peer, NEW q \in Peer, NEW i \in 1..Min({commit[p], commit[q]})
             PROVE  log[p][i] = log[q][i]
  BY DEF StateMachineSafety
<1>3. commit[p] \in Nat /\ commit[q] \in Nat
  BY <1>2 DEF TypeOK
<1>4. Min({commit[p], commit[q]}) = IF commit[p] >= commit[q] THEN commit[q] ELSE commit[p]
  BY <1>3, MaxOfTwo
<1>5. CASE commit[p] <= commit[q]
  <2>1. i \in 1..commit[p]
    BY <1>3, <1>4, <1>5
  <2> QED  BY <1>2, <1>5, <2>1, CommitAgrees
<1>6. CASE commit[q] <= commit[p]
  <2>1. i \in 1..commit[q]
    BY <1>3, <1>4, <1>6
  <2>2. log[q][i] = log[p][i]
    BY <1>2, <1>6, <2>1, CommitAgrees
  <2> QED  BY <2>2
<1> QED  BY <1>3, <1>5, <1>6

LEMMA ConfigsLogged == ASSUME MembershipInv  PROVE ConfigIsLogged
<1> SUFFICES ASSUME NEW p \in Peer, up[p], index[p] # 0, ~Paused(p)
             PROVE  index[p] <= Len(log[p]) /\ log[p][index[p]].config = config[p]
  BY DEF ConfigIsLogged
<1>1. own[p] = log[p] /\ Len(log[p]) \in Nat
  BY IdleIs, LogsOf, ItemOf DEF MembershipInv
<1>2. At(own[p], index[p], config[p])
  BY DEF MembershipInv, LocalInv, SelfInv
<1> QED  BY <1>1, <1>2 DEF At

\* A term has one leader, whatever changes of the membership, joint or done, each
\* voter knows of (hasWonVoting).
THEOREM OneLeaderOfTerm ==
  ASSUME ~LosesConfig
  PROVE  Spec => []ElectionSafety
<1>1. MembershipInv => ElectionSafety
  BY Leads
<1> QED  BY <1>1, MembershipInvariant, PTL

\* Peers that have committed an entry have the same one, through every change of
\* the membership (majorityHasLogIndex).
THEOREM SameCommits ==
  ASSUME ~LosesConfig
  PROVE  Spec => []StateMachineSafety
<1>1. MembershipInv => StateMachineSafety
  BY CommitsAgree
<1> QED  BY <1>1, MembershipInvariant, PTL

\* peersIndex tells where the configuration in use is in the log, after restarts as
\* well (raft_persistence.js, and the builder that looks for it).
THEOREM ConfigsAreLogged ==
  ASSUME ~LosesConfig
  PROVE  Spec => []ConfigIsLogged
<1>1. MembershipInv => ConfigIsLogged
  BY ConfigsLogged
<1> QED  BY <1>1, MembershipInvariant, PTL
=============================================================================
