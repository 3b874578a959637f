--------------------------- MODULE UpdatesProofs ---------------------------
(***************************************************************************)
(* An update is applied once, whoever waits for it is told, and told the   *)
(* right index, in clusters of any size, with any number of updates, terms *)
(* and lost or late messages.                                              *)
(***************************************************************************)
EXTENDS Updates, FiniteSetTheorems, SequenceTheorems, WellFoundedInduction, TLAPS

-----------------------------------------------------------------------------
(* The inductive invariant. *)

Entry == [id : Id \union {None}, term : Nat \ {0}]
Written == [entry : Entry, index : Nat]
Doing == {"request", "waiting", "config", "done", "expired"}
Requested == {NoRequest} \union [index : Nat, live : BOOLEAN]

TypeOK ==
  /\ term \in [Peer -> Nat \ {0}] /\ leads \in [Peer -> BOOLEAN]
  /\ log \in [Peer -> Seq(Entry)] /\ writing \in [Peer -> Seq(Entry)]
  /\ written \in [Peer -> Seq(Written)]
  /\ commit \in [Peer -> Nat] /\ applied \in [Peer -> Nat]
  /\ rids \in [Peer -> [Id -> Nat]]
  /\ requests \in [Peer -> [Id -> Requested]]
  /\ pc \in [Id -> Doing] /\ result \in [Id -> Nat] /\ age \in Nat
  /\ asks \subseteq [id : Id, to : Peer, live : BOOLEAN]
  /\ \A m \in answers : m.id \in Id /\ (m.kind = "index" => m.val \in Nat)

\* The log of every peer, with what it is about to write.
full == [p \in Peer |-> log[p] \o writing[p]]

Held(f, t) == Majority({q \in Peer : f[q] >= t})
Agree(l, m, i) == i <= Len(l) /\ i <= Len(m) /\ \A k \in 1..i : l[k] = m[k]

\* Who leads, and every entry, has a term that a majority has reached.
TermsInv ==
  /\ \A p \in Peer : leads[p] => Held(term, term[p])
  /\ \A p \in Peer : \A i \in 1..Len(full[p]) :
       full[p][i].term <= term[p] /\ Held(term, full[p][i].term)
  /\ \A p \in Peer : \A k \in 1..Len(written[p]) : written[p][k].entry.term <= term[p]

OneLeader == \A p, q \in Peer : leads[p] /\ leads[q] /\ term[p] = term[q] => p = q

\* The entries of a log are in the order of their terms.
InTerms == \A p \in Peer : \A i, j \in 1..Len(full[p]) :
  i <= j => full[p][i].term <= full[p][j].term

\* The entries of one term come from one log, which is that of its leader.
Matches(l, m) == \A i \in 1..Len(l), j \in 1..Len(m) :
  j <= i /\ l[i].term = m[j].term => Agree(l, m, j)
LogsMatch == \A p, q \in Peer : Matches(full[p], full[q])
HasTerm(l, m, t) == \A j \in 1..Len(m) : m[j].term = t => Agree(m, l, j)
LeadersHave == \A p, q \in Peer : leads[p] => HasTerm(full[p], full[q], term[p])

LogInv == TermsInv /\ OneLeader /\ InTerms /\ LogsMatch /\ LeadersHave

\* Entry i of l is on a majority for good: whoever leads since its term, or
\* has entries of a later one, has l as far as that entry.
Follows(r, t) ==
  \/ leads[r] /\ term[r] >= t
  \/ \E j \in 1..Len(full[r]) : full[r][j].term > t
Chosen(l, i) ==
  /\ Majority({q \in Peer : term[q] >= l[i].term /\ Agree(log[q], l, i)})
  /\ \A r \in Peer : Follows(r, l[i].term) => Agree(log[r], l, i)
CommitInv == \A p \in Peer :
  /\ applied[p] <= commit[p] /\ commit[p] <= Len(log[p])
  /\ commit[p] > 0 => Chosen(log[p], commit[p])

\* What the log knows of ids is right, a request waits at a leader, and until
\* its index is known the entry is on its way, in the term of the leader.
Mine(p, id) == [id |-> id, term |-> term[p]]
Waits(p, id) ==
  \/ \E k \in 1..Len(writing[p]) : writing[p][k] = Mine(p, id)
  \/ \E k \in 1..Len(written[p]) : written[p][k].entry = Mine(p, id)
RidsRight(p) == \A id \in Id : rids[p][id] # 0 =>
  rids[p][id] \in 1..Len(log[p]) /\ log[p][rids[p][id]].id = id
RequestsRight(p) == \A id \in Id : Pending(p, id) =>
  /\ leads[p]
  /\ IF requests[p][id].index = 0 THEN Waits(p, id)
     ELSE requests[p][id].index \in applied[p] + 1 .. Len(log[p])
          /\ log[p][requests[p][id].index].id = id
WrittenRight(p) == leads[p] =>
  \A k \in 1..Len(written[p]) : written[p][k].entry.term = term[p] =>
    written[p][k].index \in 1..Len(log[p]) /\ log[p][written[p][k].index] = written[p][k].entry
TableInv == \A p \in Peer : RidsRight(p) /\ RequestsRight(p) /\ WrittenRight(p)

IsRight(id, i) == \E p \in Peer : i \in 1..commit[p] /\ log[p][i].id = id
AnswerInv ==
  /\ \A m \in answers : m.kind = "index" => IsRight(m.id, m.val)
  /\ \A id \in Id : pc[id] = "done" => IsRight(id, result[id])

\* An id is in a log once.  As long as the ids are known, every one in the log
\* is in the map, and one that a leader is about to write is in its table.
OneOfEach(l) == \A i, j \in 1..Len(l) : l[i].id = l[j].id /\ l[i].id # None => i = j
Knows(p) == ~Forgotten =>
  \A i \in 1..Len(log[p]) : log[p][i].id # None => rids[p][log[p][i].id] # 0
Lists(p) == leads[p] => \A k \in 1..Len(writing[p]) :
  writing[p][k].id # None => Pending(p, writing[p][k].id)
OnceInv == \A p \in Peer : OneOfEach(full[p]) /\ Knows(p) /\ Lists(p)

UpdatesInv == TypeOK /\ LogInv /\ CommitInv /\ TableInv /\ AnswerInv

-----------------------------------------------------------------------------
(* Numbers and majorities. *)

Less == {ss \in Nat \X Nat : ss[1] < ss[2]}

LEMMA LeastOf ==
  ASSUME NEW S \in SUBSET Nat, S # {}
  PROVE  \E m \in S : \A k \in S : m <= k
<1>1. IsWellFoundedOn(Less, Nat)
  BY NatLessThanWellFounded, Zenon DEF OpToRel, Less
<1>2. PICK m \in S : \A k \in S : ~ (<<k, m>> \in Less)
  BY <1>1, WFMin
<1>3. \A x, y \in Nat : x < y => <<x, y>> \in Less
  BY DEF Less
<1>4. \A k \in S : ~ (k < m)
  BY <1>2, <1>3
<1>5. \A x, y \in Nat : ~ (x < y) => y <= x
  OBVIOUS
<1> QED  BY <1>4, <1>5

LEMMA MaxIs ==
  ASSUME NEW S \in SUBSET Nat, S # {}, NEW n \in Nat, \A x \in S : x <= n
  PROVE  Max(S) \in S /\ \A x \in S : x <= Max(S)
<1> DEFINE T == {m \in Nat : \A x \in S : x <= m}
<1>1. T \subseteq Nat /\ T # {}
  OBVIOUS
<1>2. PICK m \in T : \A k \in T : m <= k
  <2> HIDE DEF T
  <2> QED  BY <1>1, LeastOf
<1>4. m \in S
  <2> SUFFICES ASSUME m \notin S  PROVE FALSE
    OBVIOUS
  <2>1. \A x \in S : x \in Nat /\ x <= m /\ x # m
    OBVIOUS
  <2>2. m # 0
    <3>1. PICK x \in S : TRUE
      OBVIOUS
    <3> QED  BY <2>1, <3>1
  <2>3. m - 1 \in Nat /\ \A x \in S : x <= m - 1
    BY <2>1, <2>2
  <2>4. m - 1 \in T
    BY <2>3
  <2> QED  BY <1>2, <2>3, <2>4
<1> QED  BY <1>4 DEF Max

LEMMA MinIs ==
  ASSUME NEW S \in SUBSET Nat, S # {}
  PROVE  Min(S) \in S /\ \A x \in S : Min(S) <= x
<1>1. PICK m \in S : \A k \in S : m <= k
  BY LeastOf
<1> QED  BY <1>1 DEF Min

LEMMA MaxOfTwo ==
  ASSUME NEW a \in Nat, NEW b \in Nat
  PROVE  /\ Max({a, b}) = IF a >= b THEN a ELSE b
         /\ Min({a, b}) = IF a >= b THEN b ELSE a
<1>1. {a, b} \in SUBSET Nat /\ {a, b} # {} /\ \A x \in {a, b} : x <= a + b
  OBVIOUS
<1>2. Max({a, b}) \in {a, b} /\ \A x \in {a, b} : x <= Max({a, b})
  BY <1>1, MaxIs
<1>3. Min({a, b}) \in {a, b} /\ \A x \in {a, b} : Min({a, b}) <= x
  BY <1>1, MinIs
<1> QED  BY <1>2, <1>3

\* The terms of a set of peers are bounded.
LEMMA Bounded ==
  ASSUME NEW Q \in SUBSET Peer, NEW f \in [Peer -> Nat]
  PROVE  \E n \in Nat : \A q \in Q : f[q] <= n
<1> DEFINE Free(T) == \A n \in Nat : \E q \in T : ~ (f[q] <= n)
           S == {T \in SUBSET Q : Free(T)}
<1>1. IsFiniteSet(Q) /\ FiniteSubsetsOf(Q) = SUBSET Q
  BY PeerAssumption, FS_Subset, FS_FiniteSubsetsOfFinite
<1> SUFFICES ASSUME S # {}  PROVE FALSE
  OBVIOUS
<1>2. S \subseteq SUBSET Q
  OBVIOUS
<1>3. PICK T \in S : \A U \in S : ~ (<<U, T>> \in StrictSubsetOrdering(Q))
  <2> HIDE DEF S
  <2> QED  BY <1>1, <1>2, WFMin, FS_StrictSubsetOrderingWellFounded
<1>4. PICK q \in T : TRUE
  OBVIOUS
<1>5. ~ Free(T \ {q})
  <2>1. <<T \ {q}, T>> \in StrictSubsetOrdering(Q)
    BY <1>4 DEF StrictSubsetOrdering
  <2> QED  BY <1>3, <2>1
<1>6. PICK n \in Nat : \A r \in T \ {q} : f[r] <= n
  BY <1>5
<1>7. n + f[q] \in Nat /\ \A r \in T : f[r] <= n + f[q]
  BY <1>6
<1> QED  BY <1>7

LEMMA MaxTermIs ==
  ASSUME TypeOK, NEW Q \in SUBSET Peer, Q # {}
  PROVE  /\ Max({term[q] : q \in Q}) \in Nat
         /\ \A r \in Q : term[r] <= Max({term[q] : q \in Q})
<1>1. term \in [Peer -> Nat]
  BY DEF TypeOK
<1>2. PICK n \in Nat : \A q \in Q : term[q] <= n
  BY <1>1, Bounded
<1>3. {term[q] : q \in Q} \in SUBSET Nat /\ {term[q] : q \in Q} # {}
      /\ \A x \in {term[q] : q \in Q} : x <= n
  BY <1>1, <1>2
<1> QED  BY <1>3, MaxIs

LEMMA Quorum ==
  ASSUME NEW Q \in Voters, NEW M \in SUBSET Peer, Majority(M)
  PROVE  \E q \in Q : q \in M
<1>1. Cardinality(Peer) \in Nat /\ Cardinality(M) \in Nat /\ Cardinality(Q) \in Nat
  BY PeerAssumption, FS_Subset, FS_CardinalityType DEF Voters
<1>2. Cardinality(Q) + Cardinality(M) > Cardinality(Peer)
  BY <1>1 DEF Voters, Majority
<1> QED  BY <1>2, PeerAssumption, FS_MajoritiesIntersect DEF Voters

LEMMA Majorities ==
  ASSUME NEW M \in SUBSET Peer, NEW N \in SUBSET Peer, Majority(M), Majority(N)
  PROVE  \E q \in M : q \in N
<1>1. Cardinality(Peer) \in Nat /\ Cardinality(M) \in Nat /\ Cardinality(N) \in Nat
  BY PeerAssumption, FS_Subset, FS_CardinalityType
<1> QED  BY <1>1, PeerAssumption, FS_MajoritiesIntersect DEF Majority

LEMMA MajorityGrows ==
  ASSUME NEW M \in SUBSET Peer, NEW N \in SUBSET Peer, M \subseteq N, Majority(M)
  PROVE  Majority(N)
<1>1. Cardinality(Peer) \in Nat /\ Cardinality(M) \in Nat /\ Cardinality(N) \in Nat
      /\ Cardinality(M) <= Cardinality(N)
  BY PeerAssumption, FS_Subset, FS_CardinalityType
<1> QED  BY <1>1 DEF Majority

-----------------------------------------------------------------------------
(* Elections and logs. *)

LEMMA EntryOf ==
  ASSUME NEW l \in Seq(Entry)
  PROVE  Len(l) \in Nat /\ \A i \in 1..Len(l) : l[i] \in Entry /\ l[i].term \in Nat \ {0}
<1>1. Len(l) \in Nat
  BY LenProperties
<1>2. ASSUME NEW i \in 1..Len(l)  PROVE l[i] \in Entry
  BY ElementOfSeq
<1>3. \A e \in Entry : e.term \in Nat \ {0}
  BY DEF Entry
<1> QED  BY <1>1, <1>2, <1>3

LEMMA Joined ==
  ASSUME NEW l \in Seq(Entry), NEW w \in Seq(Entry)
  PROVE  /\ l \o w \in Seq(Entry) /\ Len(l \o w) = Len(l) + Len(w)
         /\ \A i \in 1..Len(l) : (l \o w)[i] = l[i]
         /\ \A k \in 1..Len(w) : (l \o w)[Len(l) + k] = w[k]
<1>1. Len(l) \in Nat /\ Len(w) \in Nat
  BY LenProperties
<1>2. /\ l \o w \in Seq(Entry) /\ Len(l \o w) = Len(l) + Len(w)
      /\ \A i \in 1..Len(l) + Len(w) : (l \o w)[i] = IF i <= Len(l) THEN l[i] ELSE w[i - Len(l)]
  BY ConcatProperties
<1>3. ASSUME NEW k \in 1..Len(w)  PROVE (l \o w)[Len(l) + k] = w[k]
  <2>1. Len(l) + k \in 1..Len(l) + Len(w) /\ ~ (Len(l) + k <= Len(l)) /\ Len(l) + k - Len(l) = k
    BY <1>1
  <2> QED  BY <1>2, <2>1
<1>4. ASSUME NEW i \in 1..Len(l)  PROVE (l \o w)[i] = l[i]
  BY <1>1, <1>2
<1> QED  BY <1>2, <1>3, <1>4

LEMMA Longer ==
  ASSUME NEW l \in Seq(Entry), NEW e \in Entry
  PROVE  /\ Append(l, e) \in Seq(Entry) /\ Len(Append(l, e)) = Len(l) + 1
         /\ \A i \in 1..Len(l) : Append(l, e)[i] = l[i]
         /\ Append(l, e)[Len(l) + 1] = e
  BY AppendProperties

LEMMA HeldGrows ==
  ASSUME NEW f, NEW g, \A q \in Peer : f[q] \in Nat /\ g[q] \in Nat /\ f[q] <= g[q],
         NEW t \in Nat, Held(f, t)
  PROVE  Held(g, t)
<1> DEFINE M == {q \in Peer : f[q] >= t}
           N == {q \in Peer : g[q] >= t}
<1>1. M \subseteq N /\ M \in SUBSET Peer /\ N \in SUBSET Peer
  OBVIOUS
<1>2. Majority(M)
  BY DEF Held
<1>3. Majority(N)
  <2> HIDE DEF M, N
  <2> QED  BY <1>1, <1>2, MajorityGrows
<1> QED  BY <1>3 DEF Held

\* At most the log of p grows, by entries of the term in which it leads.
Grown(p) ==
  /\ \A q \in Peer \ {p} : full'[q] = full[q]
  /\ \/ full'[p] = full[p]
     \/ \E e \in Entry : e.term = term'[p] /\ leads'[p] /\ full'[p] = Append(full[p], e)

\* Others lead only in the terms in which they have led.
Leads(p) ==
  /\ \A q \in Peer : term[q] <= term'[q]
  /\ \A q \in Peer \ {p} : leads'[q] => leads[q] /\ term'[q] = term[q] /\ (leads'[p] => term[q] # term'[p])
  /\ leads'[p] =>
       /\ Held(term', term'[p])
       /\ \A q \in Peer : HasTerm(full[p], full[q], term'[p])

LEMMA LogGrows ==
  ASSUME TypeOK, TypeOK', LogInv, NEW p \in Peer, Grown(p), Leads(p),
         \A q \in Peer : \A k \in 1..Len(written'[q]) : written'[q][k].entry.term <= term'[q]
  PROVE  LogInv'
<1>0. \A q \in Peer : full[q] \in Seq(Entry) /\ full'[q] \in Seq(Entry)
  BY Joined DEF full, TypeOK
<1>1. \A q \in Peer : /\ Len(full[q]) \in Nat /\ Len(full'[q]) \in Nat
                      /\ term[q] \in Nat /\ term'[q] \in Nat
  BY <1>0, EntryOf DEF TypeOK
<1>2. /\ \A q \in Peer : /\ Len(full[q]) <= Len(full'[q])
                         /\ \A i \in 1..Len(full[q]) : full'[q][i] = full[q][i]
      /\ \A q \in Peer : \A i \in 1..Len(full'[q]) :
           \/ i \in 1..Len(full[q])
           \/ q = p /\ leads'[p] /\ i = Len(full[p]) + 1 /\ Len(full'[p]) = Len(full[p]) + 1
              /\ full'[p][i].term = term'[p]
  <2>1. CASE full'[p] = full[p]
    <3>1. \A q \in Peer : full'[q] = full[q]
      BY <2>1 DEF Grown
    <3> QED  BY <1>1, <3>1
  <2>2. CASE \E e \in Entry : e.term = term'[p] /\ leads'[p] /\ full'[p] = Append(full[p], e)
    <3>1. PICK e \in Entry : e.term = term'[p] /\ leads'[p] /\ full'[p] = Append(full[p], e)
      BY <2>2
    <3>2. /\ Len(full'[p]) = Len(full[p]) + 1 /\ full'[p][Len(full[p]) + 1] = e
          /\ \A i \in 1..Len(full[p]) : full'[p][i] = full[p][i]
      BY <1>0, <3>1, Longer
    <3>3. \A q \in Peer : q # p => full'[q] = full[q]
      BY DEF Grown
    <3>4. \A i \in 1..Len(full'[p]) : i \in 1..Len(full[p]) \/ i = Len(full[p]) + 1
      BY <1>1, <3>2
    <3>5. \A q \in Peer : Len(full[q]) <= Len(full'[q])
      BY <1>1, <3>2, <3>3
    <3>6. \A q \in Peer : \A i \in 1..Len(full[q]) : full'[q][i] = full[q][i]
      BY <3>2, <3>3
    <3> QED  BY <3>1, <3>2, <3>3, <3>4, <3>5, <3>6
  <2> QED  BY <2>1, <2>2 DEF Grown
<1>3. \A q \in Peer : \A i \in 1..Len(full'[q]) :
        \/ i \in 1..Len(full[q])
        \/ q = p /\ leads'[p] /\ i = Len(full[p]) + 1 /\ Len(full'[p]) = Len(full[p]) + 1
           /\ full'[p][i].term = term'[p]
  BY <1>2
<1>4. \A q \in Peer : \A i \in 1..Len(full[q]) : full[q][i].term \in Nat
  BY <1>0, EntryOf
<1>5. \A q \in Peer : \A i \in 1..Len(full'[q]) : full'[q][i].term \in Nat
  BY <1>0, EntryOf
<1>6. \A q \in Peer : \A i \in 1..Len(full[q]) :
        full[q][i].term <= term[q] /\ Held(term, full[q][i].term) /\ term[q] <= term'[q]
  BY DEF LogInv, TermsInv, Leads
<1>7. TermsInv'
  <2>1. ASSUME NEW q \in Peer, leads'[q]  PROVE Held(term', term'[q])
    <3>1. CASE q = p
      BY <2>1, <3>1 DEF Leads
    <3>2. CASE q # p
      <4>1. Held(term, term[q]) /\ term'[q] = term[q]
        BY <2>1, <3>2 DEF Leads, LogInv, TermsInv
      <4> QED  BY <1>1, <4>1, HeldGrows DEF Leads
    <3> QED  BY <3>1, <3>2
  <2>2. ASSUME NEW q \in Peer, NEW i \in 1..Len(full'[q])
        PROVE  full'[q][i].term <= term'[q] /\ Held(term', full'[q][i].term)
    <3>1. CASE i \in 1..Len(full[q])
      <4>1. full'[q][i] = full[q][i] /\ full[q][i].term \in Nat
        BY <1>2, <1>4, <3>1
      <4>2. Held(term', full[q][i].term)
        <5>1. \A r \in Peer : term[r] \in Nat /\ term'[r] \in Nat /\ term[r] <= term'[r]
          BY <1>1 DEF Leads
        <5>2. Held(term, full[q][i].term) /\ full[q][i].term \in Nat
          BY <1>6, <3>1, <4>1
        <5> HIDE DEF full
        <5> QED  BY <5>1, <5>2, HeldGrows
      <4> QED  BY <1>1, <1>6, <3>1, <4>1, <4>2
    <3>2. CASE q = p /\ leads'[p] /\ full'[p][i].term = term'[p]
      BY <1>1, <2>1, <3>2
    <3> QED  BY <1>3, <3>1, <3>2
  <2> QED  BY <2>1, <2>2 DEF TermsInv
<1>8. OneLeader'
  BY DEF LogInv, OneLeader, Leads
<1>9. InTerms'
  <2> SUFFICES ASSUME NEW q \in Peer, NEW i \in 1..Len(full'[q]), NEW j \in 1..Len(full'[q]),
                      i <= j
               PROVE  full'[q][i].term <= full'[q][j].term
    BY DEF InTerms
  <2>1. CASE j \in 1..Len(full[q])
    <3>1. i \in 1..Len(full[q])
      BY <1>1, <2>1
    <3>2. full'[q][i] = full[q][i] /\ full'[q][j] = full[q][j]
      BY <1>2, <2>1, <3>1
    <3>3. full[q][i].term <= full[q][j].term
      BY <2>1, <3>1 DEF LogInv, InTerms
    <3> QED  BY <3>2, <3>3
  <2>2. CASE q = p /\ full'[p][j].term = term'[p]
    <3>1. full'[p][i].term <= term'[p]
      BY <1>7, <2>2 DEF TermsInv
    <3> QED  BY <2>2, <3>1
  <2> QED  BY <1>3, <2>1, <2>2
<1>10. \A q, r \in Peer : \A j \in 1..Len(full[r]) : Agree(full[q], full[r], j) =>
         Agree(full'[q], full'[r], j)
  <2> SUFFICES ASSUME NEW q \in Peer, NEW r \in Peer, NEW j \in 1..Len(full[r]),
                      Agree(full[q], full[r], j)
               PROVE  Agree(full'[q], full'[r], j)
    OBVIOUS
  <2>1. j <= Len(full[q]) /\ j <= Len(full[r]) /\ \A k \in 1..j : full[q][k] = full[r][k]
    BY DEF Agree
  <2>2. \A k \in 1..j : k \in 1..Len(full[q]) /\ k \in 1..Len(full[r])
    BY <1>1, <2>1
  <2>3. \A k \in 1..j : full'[q][k] = full'[r][k]
    BY <1>2, <2>1, <2>2
  <2> QED  BY <1>1, <1>2, <2>1, <2>3 DEF Agree
<1>11. ASSUME leads'[p], NEW q \in Peer, NEW j \in 1..Len(full'[q]), full'[q][j].term = term'[p]
       PROVE  Agree(full'[q], full'[p], j)
  <2>1. CASE j \in 1..Len(full[q])
    <3>1. Agree(full[q], full[p], j)
      BY <1>1, <1>2, <1>11, <2>1 DEF Leads, HasTerm
    <3>2. Agree(full[p], full[q], j)
      BY <1>1, <3>1 DEF Agree
    <3>3. Agree(full'[p], full'[q], j)
      BY <1>10, <2>1, <3>2
    <3> QED  BY <1>1, <3>3 DEF Agree
  <2>2. CASE q = p
    BY <1>1, <2>2 DEF Agree
  <2> QED  BY <1>3, <2>1, <2>2
<1>12. LogsMatch'
  <2> SUFFICES ASSUME NEW q \in Peer, NEW r \in Peer, NEW i \in 1..Len(full'[q]),
                      NEW j \in 1..Len(full'[r]), j <= i, full'[q][i].term = full'[r][j].term
               PROVE  Agree(full'[q], full'[r], j)
    BY DEF LogsMatch, Matches
  <2>1. CASE i \in 1..Len(full[q]) /\ j \in 1..Len(full[r])
    <3>1. Agree(full[q], full[r], j)
      BY <1>1, <1>2, <2>1 DEF LogInv, LogsMatch, Matches
    <3> QED  BY <1>10, <2>1, <3>1
  <2>2. CASE i \notin 1..Len(full[q])
    <3>1. q = p /\ leads'[p] /\ full'[p][i].term = term'[p]
      BY <1>3, <2>2
    <3>2. Agree(full'[r], full'[p], j)
      BY <1>11, <3>1
    <3> QED  BY <1>1, <3>1, <3>2 DEF Agree
  <2>3. CASE j \notin 1..Len(full[r])
    <3>1. r = p /\ leads'[p] /\ full'[p][j].term = term'[p] /\ j = Len(full'[p])
      BY <1>3, <2>3
    <3>2. Agree(full'[q], full'[p], i)
      BY <1>11, <3>1
    <3> QED  BY <1>1, <3>1, <3>2 DEF Agree
  <2> QED  BY <2>1, <2>2, <2>3
<1>13. LeadersHave'
  <2> SUFFICES ASSUME NEW q \in Peer, NEW r \in Peer, leads'[q], NEW j \in 1..Len(full'[r]),
                      full'[r][j].term = term'[q]
               PROVE  Agree(full'[r], full'[q], j)
    BY DEF LeadersHave, HasTerm
  <2>1. CASE q = p
    BY <1>11, <2>1
  <2>2. CASE q # p
    <3>1. leads[q] /\ term'[q] = term[q] /\ (leads'[p] => term[q] # term'[p])
      BY <2>2 DEF Leads
    <3>2. j \in 1..Len(full[r])
      BY <1>3, <3>1
    <3>3. Agree(full[r], full[q], j)
      BY <1>2, <3>1, <3>2 DEF LogInv, LeadersHave, HasTerm
    <3>4. Agree(full[q], full[r], j)
      BY <1>1, <3>3 DEF Agree
    <3>5. Agree(full'[q], full'[r], j)
      BY <1>10, <3>2, <3>4
    <3> QED  BY <1>1, <3>5 DEF Agree
  <2> QED  BY <2>1, <2>2
<1> QED  BY <1>7, <1>8, <1>9, <1>12, <1>13 DEF LogInv, TermsInv

LEMMA JoinedAppend ==
  ASSUME NEW l \in Seq(Entry), NEW w \in Seq(Entry), NEW e \in Entry
  PROVE  l \o Append(w, e) = Append(l \o w, e)
<1>1. Append(w, e) = w \o <<e>> /\ Append(l \o w, e) = (l \o w) \o <<e>>
  BY Joined, AppendIsConcat
<1>2. <<e>> \in Seq(Entry)
  OBVIOUS
<1> QED  BY <1>1, <1>2, ConcatAssociative

LEMMA Fresh ==
  ASSUME TypeOK, NEW Q \in Voters, NEW u \in Nat, Held(term, u)
  PROVE  u < 1 + Max({term[q] : q \in Q})
<1> DEFINE M == {q \in Peer : term[q] >= u}
           m == Max({term[q] : q \in Q})
<1>1. PICK q \in Q : q \in M
  <2>1. M \in SUBSET Peer /\ Majority(M)
    BY DEF Held
  <2> HIDE DEF M
  <2> QED  BY <2>1, Quorum
<1>2. Q \in SUBSET Peer
  BY DEF Voters
<1>3. term[q] >= u /\ term[q] \in Nat
  BY <1>1 DEF TypeOK
<1>4. m \in Nat /\ term[q] <= m
  BY <1>1, <1>2, MaxTermIs
<1> HIDE DEF m
<1>5. u < 1 + m
  BY <1>3, <1>4
<1> QED  BY <1>5 DEF m

LEMMA StandFacts ==
  ASSUME TypeOK, NEW p \in Peer, NEW Q \in Voters, NEW el \in BOOLEAN, Stand(p, Q, el)
  PROVE  \E t \in Nat \ {0} :
           /\ \A q \in Q : term[q] < t /\ term'[q] = t
           /\ \A u \in Nat : Held(term, u) => u < t
           /\ \A q \in Peer \ Q : term'[q] = term[q] /\ leads'[q] = leads[q]
           /\ \A q \in Q : leads'[q] = (q = p /\ el)
           /\ term' \in [Peer -> Nat \ {0}] /\ leads' \in [Peer -> BOOLEAN]
           /\ \/ writing' = writing
              \/ el /\ writing' = [writing EXCEPT ![p] = Append(@, [id |-> None, term |-> t])]
<1> DEFINE m == Max({term[q] : q \in Q})
           t == 1 + m
<1>1. Q \in SUBSET Peer /\ Q # {} /\ p \in Q
  BY DEF Voters, Stand
<1>2. m \in Nat /\ \A q \in Q : term[q] <= m
  BY <1>1, MaxTermIs
<1>3. \A u \in Nat : Held(term, u) => u < t
  BY Fresh
<1>4. /\ term' = [q \in Peer |-> IF q \in Q THEN t ELSE term[q]]
      /\ leads' = [q \in Peer |-> IF q \in Q THEN q = p /\ el ELSE leads[q]]
      /\ \/ writing' = writing
         \/ el /\ writing' = [writing EXCEPT ![p] = Append(@, [id |-> None, term |-> t])]
  BY DEF Stand
<1>5. \A q \in Peer : term[q] \in Nat \ {0} /\ leads[q] \in BOOLEAN
  BY DEF TypeOK
<1> HIDE DEF m
<1>6. t \in Nat \ {0} /\ \A q \in Q : term[q] < t
  BY <1>1, <1>2, <1>5
<1> HIDE DEF t
<1>7. term' \in [Peer -> Nat \ {0}] /\ leads' \in [Peer -> BOOLEAN]
  BY <1>4, <1>5, <1>6
<1>8. /\ \A q \in Q : term'[q] = t /\ leads'[q] = (q = p /\ el)
      /\ \A q \in Peer \ Q : term'[q] = term[q] /\ leads'[q] = leads[q]
  BY <1>1, <1>4
<1> QED  BY <1>3, <1>4, <1>6, <1>7, <1>8

-----------------------------------------------------------------------------
(* Type correctness. *)

LEMMA RequestsCleared ==
  ASSUME TypeOK, NEW Q \in SUBSET Peer, StepDown(Q)
  PROVE  /\ requests' \in [Peer -> [Id -> Requested]]
         /\ \A q \in Peer : requests'[q] = IF q \in Q /\ leads[q] THEN [id \in Id |-> NoRequest]
                                           ELSE requests[q]
         /\ \A m \in answers' : m \in answers \/ (m.id \in Id /\ m.kind = "notLeader")
<1>1. requests' = [q \in Peer |-> IF q \in Q /\ leads[q] THEN [id \in Id |-> NoRequest]
                                  ELSE requests[q]]
  BY DEF StepDown
<1>2. \A q \in Peer : requests[q] \in [Id -> Requested]
  BY DEF TypeOK
<1>3. [id \in Id |-> NoRequest] \in [Id -> Requested]
  BY DEF Requested
<1>4. \A m \in answers' : m \in answers \/ (m.id \in Id /\ m.kind = "notLeader")
  BY DEF StepDown, Cleared, NotLeader, Answer
<1> QED  BY <1>1, <1>2, <1>3, <1>4

LEMMA StandType ==
  ASSUME TypeOK, NEW p \in Peer, NEW Q \in Voters, NEW el \in BOOLEAN, Stand(p, Q, el)
  PROVE  TypeOK'
<1>1. PICK t \in Nat \ {0} :
        /\ term' \in [Peer -> Nat \ {0}] /\ leads' \in [Peer -> BOOLEAN]
        /\ \/ writing' = writing
           \/ el /\ writing' = [writing EXCEPT ![p] = Append(@, [id |-> None, term |-> t])]
  BY StandFacts
<1>2. writing' \in [Peer -> Seq(Entry)]
  <2>1. [id |-> None, term |-> t] \in Entry
    BY DEF Entry
  <2>2. writing \in [Peer -> Seq(Entry)]
    BY DEF TypeOK
  <2>3. Append(writing[p], [id |-> None, term |-> t]) \in Seq(Entry)
    BY <2>1, <2>2, Longer
  <2> QED  BY <1>1, <2>2, <2>3
<1>3. /\ requests' \in [Peer -> [Id -> Requested]]
      /\ \A m \in answers' : m \in answers \/ (m.id \in Id /\ m.kind = "notLeader")
  <2>1. Q \in SUBSET Peer /\ StepDown(Q)
    BY DEF Voters, Stand
  <2> QED  BY <2>1, RequestsCleared
<1>4. \A m \in answers' : m.id \in Id /\ (m.kind = "index" => m.val \in Nat)
  BY <1>3 DEF TypeOK
<1>5. UNCHANGED <<log, commit, applied, written, rids, pc, result, asks, age>>
  BY DEF Stand, client
<1> QED  BY <1>1, <1>2, <1>3, <1>4, <1>5 DEF TypeOK

LEMMA RidsType ==
  ASSUME NEW r \in [Id -> Nat], NEW l \in Seq(Entry), NEW i \in Nat \ {0}
  PROVE  /\ AddRids(r, l, i) \in [Id -> Nat]
         /\ \A id \in Id :
              \/ AddRids(r, l, i)[id] = r[id] /\
                 (Forgotten \/ \A j \in i..Len(l) : l[j].id # id)
              \/ ~Forgotten /\ AddRids(r, l, i)[id] \in i..Len(l) /\ l[AddRids(r, l, i)[id]].id = id
         /\ DropRids(r, i) \in [Id -> Nat]
         /\ \A id \in Id : DropRids(r, i)[id] = IF r[id] >= i THEN 0 ELSE r[id]
<1> DEFINE at(id) == {j \in i..Len(l) : l[j].id = id}
<1>1. Len(l) \in Nat
  BY LenProperties
<1>2. ASSUME NEW id \in Id, at(id) # {}  PROVE Max(at(id)) \in at(id)
  <2>1. at(id) \in SUBSET Nat /\ \A j \in at(id) : j <= Len(l)
    BY <1>1
  <2> HIDE DEF at
  <2> QED  BY <1>1, <1>2, <2>1, MaxIs
<1>3. AddRids(r, l, i) = [id \in Id |-> IF at(id) = {} \/ Forgotten THEN r[id] ELSE Max(at(id))]
  BY DEF AddRids
<1>4. \A id \in Id : AddRids(r, l, i)[id] = IF at(id) = {} \/ Forgotten THEN r[id] ELSE Max(at(id))
  BY <1>3
<1>5. ASSUME NEW id \in Id
      PROVE  \/ AddRids(r, l, i)[id] = r[id] /\
                 (Forgotten \/ \A j \in i..Len(l) : l[j].id # id)
             \/ ~Forgotten /\ AddRids(r, l, i)[id] \in i..Len(l) /\ l[AddRids(r, l, i)[id]].id = id
  <2>1. CASE at(id) = {} \/ Forgotten
    BY <1>4, <2>1
  <2>2. CASE ~(at(id) = {} \/ Forgotten)
    BY <1>2, <1>4, <2>2
  <2> QED  BY <2>1, <2>2
<1>6. \A id \in Id : AddRids(r, l, i)[id] \in Nat
  <2>1. \A j \in i..Len(l) : j \in Nat
    BY <1>1
  <2> QED  BY <1>5, <2>1
<1>7. AddRids(r, l, i) \in [Id -> Nat]
  BY <1>6 DEF AddRids
<1>8. /\ DropRids(r, i) \in [Id -> Nat]
      /\ \A id \in Id : DropRids(r, i)[id] = IF r[id] >= i THEN 0 ELSE r[id]
  BY DEF DropRids
<1> QED  BY <1>5, <1>7, <1>8

LEMMA AddRidsIs ==
  ASSUME NEW r \in [Id -> Nat], NEW l \in Seq(Entry), NEW i \in Nat \ {0}, NEW a,
         a = AddRids(r, l, i), NEW id \in Id
  PROVE  \/ a[id] = r[id] /\ (Forgotten \/ \A j \in i..Len(l) : l[j].id # id)
         \/ ~Forgotten /\ a[id] \in i..Len(l) /\ l[a[id]].id = id
<1> DEFINE b == AddRids(r, l, i)
<1>1. \/ b[id] = r[id] /\ (Forgotten \/ \A j \in i..Len(l) : l[j].id # id)
      \/ ~Forgotten /\ b[id] \in i..Len(l) /\ l[b[id]].id = id
  BY RidsType
<1> QED  BY <1>1

\* Up to where a log is kept that is given another one
LEMMA KeptUpto ==
  ASSUME NEW l \in Seq(Entry), NEW m \in Seq(Entry)
  PROVE  /\ Differ(l, m) = {} => \A k \in 1..Len(l) : k <= Len(m) => m[k] = l[k]
         /\ Differ(l, m) # {} => /\ Min(Differ(l, m)) \in 1..Len(m)
                                 /\ \A k \in 1..Len(l) : k < Min(Differ(l, m)) => k <= Len(m) /\ m[k] = l[k]
<1>1. Len(l) \in Nat /\ Len(m) \in Nat
  BY LenProperties
<1>2. Min({Len(l), Len(m)}) = IF Len(l) >= Len(m) THEN Len(m) ELSE Len(l)
  BY <1>1, MaxOfTwo
<1>3. \A k \in 1..Len(l) : k <= Len(m) => k \in 1..Min({Len(l), Len(m)})
  BY <1>1, <1>2
<1>4. \A k \in 1..Min({Len(l), Len(m)}) : k \in 1..Len(l) /\ k \in 1..Len(m)
  BY <1>1, <1>2
<1>5. CASE Differ(l, m) = {}
  BY <1>3, <1>5 DEF Differ
<1>6. CASE Differ(l, m) # {}
  <2>1. Differ(l, m) \in SUBSET Nat
    BY <1>1, <1>4 DEF Differ
  <2>2. Min(Differ(l, m)) \in Differ(l, m) /\ \A k \in Differ(l, m) : Min(Differ(l, m)) <= k
    BY <1>6, <2>1, MinIs
  <2>3. Min(Differ(l, m)) \in 1..Len(m)
    BY <1>4, <2>2 DEF Differ
  <2>4. ASSUME NEW k \in 1..Len(l), k < Min(Differ(l, m))  PROVE k <= Len(m) /\ m[k] = l[k]
    <3>1. k <= Len(m)
      BY <1>1, <2>3, <2>4
    <3>2. k \notin Differ(l, m)
      BY <1>1, <2>2, <2>3, <2>4
    <3> QED  BY <1>3, <3>1, <3>2 DEF Differ
  <2> QED  BY <1>6, <2>3, <2>4
<1> QED  BY <1>5, <1>6

\* What a follower does with the log of its leader
Given(p, q) ==
  \/ /\ log' = log /\ rids' = rids
     /\ Len(log[q]) >= Len(log[p]) /\ \A k \in 1..Len(log[p]) : log[q][k] = log[p][k]
  \/ /\ log' = [log EXCEPT ![q] = log[p]]
     /\ \E from \in Nat \ {0} :
          /\ \A k \in 1..Len(log[p]) : k < from => k <= Len(log[q]) /\ log[q][k] = log[p][k]
          /\ \A k \in 1..Len(log[q]) : k < from => k <= Len(log[p]) /\ log[q][k] = log[p][k]
          /\ rids' = [rids EXCEPT ![q] = AddRids(DropRids(@, from), log[p], from)]

LEMMA ReplicateGives ==
  ASSUME TypeOK, NEW p \in Peer, NEW q \in Peer, Replicate(p, q)
  PROVE  Given(p, q)
<1> DEFINE D == Differ(log[p], log[q])
           keeps == D = {} /\ Len(log[q]) >= Len(log[p])
           from == IF D = {} THEN Len(log[q]) + 1 ELSE Min(D)
<1>1. log[p] \in Seq(Entry) /\ log[q] \in Seq(Entry)
  BY DEF TypeOK
<1>2. Len(log[p]) \in Nat /\ Len(log[q]) \in Nat
  BY <1>1, LenProperties
<1>3. /\ log' = IF keeps THEN log ELSE [log EXCEPT ![q] = log[p]]
      /\ rids' = IF keeps THEN rids
                 ELSE [rids EXCEPT ![q] = AddRids(DropRids(@, from), log[p], from)]
  BY DEF Replicate
<1>4. /\ D = {} => \A k \in 1..Len(log[p]) : k <= Len(log[q]) => log[q][k] = log[p][k]
      /\ D # {} => /\ Min(D) \in 1..Len(log[q])
                   /\ \A k \in 1..Len(log[p]) : k < Min(D) => k <= Len(log[q]) /\ log[q][k] = log[p][k]
  BY <1>1, KeptUpto
<1>5. CASE keeps
  BY <1>2, <1>3, <1>4, <1>5 DEF Given
<1>6. CASE ~keeps
  <2>1. from \in Nat \ {0}
    BY <1>2, <1>4
  <2>2. \A k \in 1..Len(log[p]) : k < from => k <= Len(log[q]) /\ log[q][k] = log[p][k]
    BY <1>2, <1>4
  <2>3. \A k \in 1..Len(log[q]) : k < from => k <= Len(log[p])
    <3>1. CASE D = {}
      BY <1>2, <1>6, <3>1
    <3>2. CASE D # {}
      <4>1. Min(D) \in D
        <5>1. D \in SUBSET Nat
          BY <1>2, MaxOfTwo DEF Differ
        <5> QED  BY <3>2, <5>1, MinIs
      <4>2. Min(D) <= Len(log[p])
        <5>1. Min({Len(log[p]), Len(log[q])}) = IF Len(log[p]) >= Len(log[q]) THEN Len(log[q]) ELSE Len(log[p])
          BY <1>2, MaxOfTwo
        <5>2. Min(D) \in 1..Min({Len(log[p]), Len(log[q])})
          BY <4>1 DEF Differ
        <5> QED  BY <1>2, <5>1, <5>2
      <4> QED  BY <1>2, <1>4, <3>2, <4>2
    <3> QED  BY <3>1, <3>2
  <2>4. \A k \in 1..Len(log[q]) : k < from => k \in 1..Len(log[p]) /\ log[q][k] = log[p][k]
    BY <1>2, <2>2, <2>3
  <2> HIDE DEF from
  <2> QED  BY <1>3, <1>6, <2>1, <2>2, <2>4 DEF Given
<1> QED  BY <1>5, <1>6

LEMMA ReplicateFacts ==
  ASSUME TypeOK, NEW p \in Peer, NEW q \in Peer, Replicate(p, q)
  PROVE  /\ leads[p] /\ q # p /\ term[q] <= term[p] /\ writing[q] = <<>>
         /\ term' = [term EXCEPT ![q] = term[p]] /\ leads' = [leads EXCEPT ![q] = FALSE]
         /\ commit' \in [Peer -> Nat]
         /\ \A r \in Peer \ {q} : commit'[r] = commit[r]
         /\ commit[p] <= Len(log[p]) =>
              commit'[q] = IF commit[q] >= commit[p] THEN commit[q] ELSE commit[p]
         /\ UNCHANGED <<applied, writing, written, pc, result, asks, age>>
         /\ StepDown({q})
<1>1. Len(log[p]) \in Nat
  BY LenProperties DEF TypeOK
<1>2. commit[p] \in Nat /\ commit[q] \in Nat /\ commit \in [Peer -> Nat]
  BY DEF TypeOK
<1> DEFINE c == Min({commit[p], Len(log[p])})
<1>3. c \in Nat /\ (commit[p] <= Len(log[p]) => c = commit[p])
  BY <1>1, <1>2, MaxOfTwo
<1>4. commit' = [commit EXCEPT ![q] = Max({commit[q], c})]
  BY DEF Replicate
<1> HIDE DEF c
<1>5. Max({commit[q], c}) = IF commit[q] >= c THEN commit[q] ELSE c
  BY <1>2, <1>3, MaxOfTwo
<1>6. /\ commit' \in [Peer -> Nat]
      /\ \A r \in Peer \ {q} : commit'[r] = commit[r]
      /\ commit'[q] = IF commit[q] >= c THEN commit[q] ELSE c
  BY <1>2, <1>3, <1>4, <1>5
<1> QED  BY <1>3, <1>6 DEF Replicate, client

LEMMA ReplicateType ==
  ASSUME TypeOK, NEW p \in Peer, NEW q \in Peer, Replicate(p, q)
  PROVE  TypeOK'
<1>1. Given(p, q)
  BY ReplicateGives
<1>2. log' \in [Peer -> Seq(Entry)]
  BY <1>1 DEF Given, TypeOK
<1>3. rids' \in [Peer -> [Id -> Nat]]
  <2>1. CASE rids' = rids
    BY <2>1 DEF TypeOK
  <2>2. CASE \E from \in Nat \ {0} :
               rids' = [rids EXCEPT ![q] = AddRids(DropRids(@, from), log[p], from)]
    <3>1. PICK from \in Nat \ {0} :
            rids' = [rids EXCEPT ![q] = AddRids(DropRids(rids[q], from), log[p], from)]
      BY <2>2
    <3>2. rids[q] \in [Id -> Nat] /\ log[p] \in Seq(Entry) /\ rids \in [Peer -> [Id -> Nat]]
      BY DEF TypeOK
    <3>3. DropRids(rids[q], from) \in [Id -> Nat]
      BY <3>2, RidsType
    <3>4. AddRids(DropRids(rids[q], from), log[p], from) \in [Id -> Nat]
      BY <3>2, <3>3, RidsType
    <3> QED  BY <3>1, <3>2, <3>4
  <2> QED  BY <1>1, <2>1, <2>2 DEF Given
<1>4. /\ requests' \in [Peer -> [Id -> Requested]]
      /\ \A m \in answers' : m \in answers \/ (m.id \in Id /\ m.kind = "notLeader")
  <2>1. {q} \in SUBSET Peer /\ StepDown({q})
    BY ReplicateFacts
  <2> QED  BY <2>1, RequestsCleared
<1>5. \A m \in answers' : m.id \in Id /\ (m.kind = "index" => m.val \in Nat)
  BY <1>4 DEF TypeOK
<1>6. term' \in [Peer -> Nat \ {0}] /\ leads' \in [Peer -> BOOLEAN] /\ commit' \in [Peer -> Nat]
  <2>1. term' = [term EXCEPT ![q] = term[p]] /\ leads' = [leads EXCEPT ![q] = FALSE]
        /\ commit' \in [Peer -> Nat]
    BY ReplicateFacts
  <2> QED  BY <2>1 DEF TypeOK
<1>7. UNCHANGED <<applied, writing, written, pc, result, asks, age>>
  BY ReplicateFacts
<1> QED  BY <1>2, <1>3, <1>4, <1>5, <1>6, <1>7 DEF TypeOK

LEMMA CommitType ==
  ASSUME TypeOK, NEW p \in Peer, NEW i \in 1..Len(log[p]), Commit(p, i)
  PROVE  TypeOK'
<1>1. i \in Nat
  BY LenProperties DEF TypeOK
<1> QED  BY <1>1 DEF Commit, TypeOK, client, network

LEMMA ApplyType ==
  ASSUME TypeOK, NEW p \in Peer, Apply(p)
  PROVE  TypeOK'
<1>1. applied' \in [Peer -> Nat]
  BY DEF Apply, TypeOK
<1>2. requests' \in [Peer -> [Id -> Requested]]
  <2>1. requests \in [Peer -> [Id -> Requested]] /\ NoRequest \in Requested
    BY DEF TypeOK, Requested
  <2>2. [id \in Id |-> IF id \in Told(p, commit[p]) THEN NoRequest ELSE requests[p][id]] \in [Id -> Requested]
    BY <2>1
  <2> QED  BY <2>1, <2>2 DEF Apply
<1>3. \A m \in answers' : m \in answers \/
         \E id \in Id : requests[p][id].index \in 1..commit[p]
                        /\ m = Done(id, p, requests[p][id].index)
  BY DEF Apply, Answers, Told
<1>4. commit[p] \in Nat
  BY DEF TypeOK
<1>5. \A m \in answers' : m.id \in Id /\ (m.kind = "index" => m.val \in Nat)
  <2> SUFFICES ASSUME NEW m \in answers', m \notin answers
               PROVE  m.id \in Id /\ m.val \in Nat
    BY DEF TypeOK
  <2>1. PICK id \in Id : requests[p][id].index \in 1..commit[p]
                        /\ m = Done(id, p, requests[p][id].index)
    BY <1>3
  <2>2. m.id = id /\ m.val = requests[p][id].index
    BY <2>1 DEF Done, Answer
  <2> QED  BY <1>4, <2>1, <2>2
<1> QED  BY <1>1, <1>2, <1>5 DEF Apply, TypeOK, client

LEMMA WrittenGrows ==
  ASSUME TypeOK, NEW p \in Peer, Write(p)
  PROVE  /\ written' \in [Peer -> Seq(Written)]
         /\ \A r \in Peer \ {p} : written'[r] = written[r]
         /\ Len(written'[p]) = Len(written[p]) + Len(writing[p])
         /\ \A k \in 1..Len(written[p]) : written'[p][k] = written[p][k]
         /\ \A k \in 1..Len(writing[p]) : written'[p][Len(written[p]) + k] =
                                            [entry |-> writing[p][k], index |-> Len(log[p]) + k]
<1> DEFINE new == [i \in 1..Len(writing[p]) |-> [entry |-> writing[p][i], index |-> Len(log[p]) + i]]
<1>1. /\ log \in [Peer -> Seq(Entry)] /\ writing \in [Peer -> Seq(Entry)]
      /\ written \in [Peer -> Seq(Written)]
  BY DEF TypeOK
<1>2. /\ log' = [log EXCEPT ![p] = @ \o writing[p]]
      /\ writing' = [writing EXCEPT ![p] = <<>>]
      /\ written' = [written EXCEPT ![p] = @ \o new]
      /\ rids' = [rids EXCEPT ![p] = AddRids(@, log'[p], Len(log[p]) + 1)]
  BY DEF Write
<1>6. new \in Seq(Written) /\ Len(new) = Len(writing[p])
  <2>1. Len(writing[p]) \in Nat /\ Len(log[p]) \in Nat /\ \A i \in 1..Len(writing[p]) : writing[p][i] \in Entry
    BY <1>1, EntryOf
  <2>2. \A i \in 1..Len(writing[p]) : [entry |-> writing[p][i], index |-> Len(log[p]) + i] \in Written
    BY <2>1 DEF Written
  <2> QED  BY <2>1, <2>2
<1>7. \A k \in 1..Len(writing[p]) : new[k] = [entry |-> writing[p][k], index |-> Len(log[p]) + k]
  OBVIOUS
<1> HIDE DEF new
<1>8. Len(written[p]) \in Nat /\ Len(new) \in Nat /\ written[p] \in Seq(Written)
  BY <1>1, <1>6, LenProperties
<1>9. /\ written[p] \o new \in Seq(Written)
      /\ Len(written[p] \o new) = Len(written[p]) + Len(new)
      /\ \A i \in 1..Len(written[p]) + Len(new) : (written[p] \o new)[i] =
           IF i <= Len(written[p]) THEN written[p][i] ELSE new[i - Len(written[p])]
  BY <1>6, <1>8, ConcatProperties
<1>10. \A k \in 1..Len(written[p]) : (written[p] \o new)[k] = written[p][k]
  BY <1>8, <1>9
<1>11. ASSUME NEW k \in 1..Len(new)  PROVE (written[p] \o new)[Len(written[p]) + k] = new[k]
  <2>1. Len(written[p]) + k \in 1..Len(written[p]) + Len(new) /\ ~ (Len(written[p]) + k <= Len(written[p]))
        /\ Len(written[p]) + k - Len(written[p]) = k
    BY <1>8
  <2> QED  BY <1>9, <2>1
<1>12. /\ written'[p] = written[p] \o new /\ written' \in [Peer -> Seq(Written)]
       /\ \A r \in Peer \ {p} : written'[r] = written[r]
  BY <1>1, <1>2, <1>9
<1>15. \A k \in 1..Len(writing[p]) : written'[p][Len(written[p]) + k] =
                                            [entry |-> writing[p][k], index |-> Len(log[p]) + k]
  BY <1>6, <1>7, <1>11, <1>12
<1>16. Len(written'[p]) = Len(written[p]) + Len(writing[p])
       /\ \A k \in 1..Len(written[p]) : written'[p][k] = written[p][k]
  BY <1>6, <1>9, <1>10, <1>12
<1> QED  BY <1>12, <1>15, <1>16

LEMMA WriteFacts ==
  ASSUME TypeOK, NEW p \in Peer, Write(p)
  PROVE  /\ log' = [log EXCEPT ![p] = @ \o writing[p]]
         /\ writing' = [writing EXCEPT ![p] = <<>>]
         /\ log' \in [Peer -> Seq(Entry)] /\ writing' \in [Peer -> Seq(Entry)]
         /\ full' = full
         /\ rids' = [rids EXCEPT ![p] = AddRids(@, log[p] \o writing[p], Len(log[p]) + 1)]
         /\ UNCHANGED <<term, leads, commit, applied, requests, pc, result, asks, answers, age>>
<1>1. log \in [Peer -> Seq(Entry)] /\ writing \in [Peer -> Seq(Entry)]
  BY DEF TypeOK
<1>2. /\ log' = [log EXCEPT ![p] = @ \o writing[p]]
      /\ writing' = [writing EXCEPT ![p] = <<>>]
      /\ rids' = [rids EXCEPT ![p] = AddRids(@, log'[p], Len(log[p]) + 1)]
  BY DEF Write
<1>3. log[p] \o writing[p] \in Seq(Entry)
  BY <1>1, Joined
<1>4. log' \in [Peer -> Seq(Entry)] /\ writing' \in [Peer -> Seq(Entry)]
  BY <1>1, <1>2, <1>3
<1>5. full' = full
  <2>1. \A r \in Peer : log'[r] \o writing'[r] = log[r] \o writing[r]
    <3>1. (log[p] \o writing[p]) \o <<>> = log[p] \o writing[p]
      BY <1>3, ConcatEmptySeq
    <3> QED  BY <1>1, <1>2, <3>1
  <2> QED  BY <2>1 DEF full
<1>13. log'[p] = log[p] \o writing[p]
  BY <1>1, <1>2
<1>14. UNCHANGED <<term, leads, commit, applied, requests, pc, result, asks, answers, age>>
  BY DEF Write, client, network
<1>17. rids' = [rids EXCEPT ![p] = AddRids(@, log[p] \o writing[p], Len(log[p]) + 1)]
  BY <1>2, <1>13
<1> QED  BY <1>2, <1>4, <1>5, <1>14, <1>17

LEMMA WriteType ==
  ASSUME TypeOK, NEW p \in Peer, Write(p)
  PROVE  TypeOK'
<1>1. rids' \in [Peer -> [Id -> Nat]]
  <2>1. log[p] \o writing[p] \in Seq(Entry) /\ Len(log[p]) + 1 \in Nat \ {0}
    BY Joined, EntryOf DEF TypeOK
  <2>2. rids \in [Peer -> [Id -> Nat]] /\ rids[p] \in [Id -> Nat]
    BY DEF TypeOK
  <2>3. AddRids(rids[p], log[p] \o writing[p], Len(log[p]) + 1) \in [Id -> Nat]
    BY <2>1, <2>2, RidsType
  <2>4. rids' = [rids EXCEPT ![p] = AddRids(@, log[p] \o writing[p], Len(log[p]) + 1)]
    BY WriteFacts
  <2> QED  BY <2>2, <2>3, <2>4
<1>2. /\ log' \in [Peer -> Seq(Entry)] /\ writing' \in [Peer -> Seq(Entry)]
      /\ written' \in [Peer -> Seq(Written)]
      /\ UNCHANGED <<term, leads, commit, applied, requests, pc, result, asks, answers, age>>
  BY WriteFacts, WrittenGrows
<1> QED  BY <1>1, <1>2 DEF TypeOK

LEMMA RequestedIs ==
  \A r \in Requested :
    /\ r = NoRequest \/ r.index \in Nat
    /\ r.index \in Nat => r # NoRequest
    /\ [r EXCEPT !.live = FALSE] \in Requested
    /\ [r EXCEPT !.live = FALSE].index = r.index
    /\ [r EXCEPT !.live = FALSE] = NoRequest <=> r = NoRequest
    /\ \A i \in Nat : r # NoRequest => [r EXCEPT !.index = i] \in Requested
                                       /\ [r EXCEPT !.index = i].index = i
<1>0. NoRequest.index = -1 /\ NoRequest.live = FALSE
  BY DEF NoRequest
<1>1. /\ NoRequest.index \notin Nat
      /\ [NoRequest EXCEPT !.live = FALSE] = NoRequest
  <2>1. NoRequest.index \notin Nat
    BY <1>0
  <2>2. NoRequest \in [index : {-1}, live : {FALSE}]
    BY DEF NoRequest
  <2>3. [NoRequest EXCEPT !.live = FALSE] = NoRequest
    BY <2>2
  <2> QED  BY <2>1, <2>3
<1>2. ASSUME NEW r \in [index : Nat, live : BOOLEAN]
      PROVE  /\ r.index \in Nat /\ r # NoRequest
             /\ [r EXCEPT !.live = FALSE] \in [index : Nat, live : BOOLEAN]
             /\ [r EXCEPT !.live = FALSE].index = r.index
             /\ \A i \in Nat : [r EXCEPT !.index = i] \in [index : Nat, live : BOOLEAN]
                               /\ [r EXCEPT !.index = i].index = i
  <2>1. r.index \in Nat
    OBVIOUS
  <2>2. r # NoRequest
    BY <1>1, <2>1
  <2> QED  BY <2>1, <2>2
<1>3. \A r \in [index : Nat, live : BOOLEAN] : [r EXCEPT !.live = FALSE] # NoRequest
  BY <1>2
<1> QED  BY <1>1, <1>2, <1>3 DEF Requested

\* Who waits stays, and what is waited for.
SameTable == \A p \in Peer, id \in Id :
  /\ requests'[p][id] = NoRequest <=> requests[p][id] = NoRequest
  /\ requests'[p][id].index = requests[p][id].index

LEMMA SetLeaderFacts ==
  ASSUME TypeOK, NEW l, NEW a, a \subseteq answers, SetLeader(l, a)
  PROVE  /\ requests' \in [Peer -> [Id -> Requested]] /\ SameTable
         /\ asks' \subseteq [id : Id, to : Peer, live : BOOLEAN]
         /\ answers' \subseteq answers
<1>1. requests \in [Peer -> [Id -> Requested]]
  BY DEF TypeOK
<1>2. requests' = [p \in Peer |-> IF p \in Closes(l)
                                    THEN [id \in Id |-> [requests[p][id] EXCEPT !.live = FALSE]]
                                    ELSE requests[p]]
  BY DEF SetLeader
<1>3. \A p \in Peer, id \in Id : requests'[p][id] = [requests[p][id] EXCEPT !.live = FALSE]
                                 \/ requests'[p][id] = requests[p][id]
  BY <1>2
<1>4. SameTable
  <2> SUFFICES ASSUME NEW p \in Peer, NEW id \in Id
               PROVE  /\ requests'[p][id] = NoRequest <=> requests[p][id] = NoRequest
                      /\ requests'[p][id].index = requests[p][id].index
    BY DEF SameTable
  <2>1. requests[p][id] \in Requested
    BY <1>1
  <2>2. CASE requests'[p][id] = requests[p][id]
    BY <2>2
  <2>3. CASE requests'[p][id] = [requests[p][id] EXCEPT !.live = FALSE]
    BY <2>1, <2>3, RequestedIs
  <2> QED  BY <1>3, <2>2, <2>3
<1>5. requests' \in [Peer -> [Id -> Requested]]
  <2>1. \A p \in Peer : [id \in Id |-> [requests[p][id] EXCEPT !.live = FALSE]] \in [Id -> Requested]
    BY <1>1, RequestedIs
  <2> QED  BY <1>1, <1>2, <2>1
<1>6. asks' \subseteq [id : Id, to : Peer, live : BOOLEAN]
  <2> SUFFICES ASSUME NEW m \in asks'  PROVE m \in [id : Id, to : Peer, live : BOOLEAN]
    OBVIOUS
  <2>1. PICK n \in asks : m = IF n.to \in Closes(l) THEN [n EXCEPT !.live = FALSE] ELSE n
    BY DEF SetLeader
  <2>2. n \in [id : Id, to : Peer, live : BOOLEAN]
    BY DEF TypeOK
  <2> QED  BY <2>1, <2>2
<1>7. answers' \subseteq answers
  BY DEF SetLeader
<1> QED  BY <1>4, <1>5, <1>6, <1>7

\* A leader enters an update in its table, with its entry or without.
Entered(m) ==
  \/ /\ rids[m.to][m.id] = 0 /\ Sane
     /\ requests' = [requests EXCEPT ![m.to][m.id] = [index |-> 0, live |-> m.live]]
     /\ writing' = [writing EXCEPT ![m.to] = Append(@, Mine(m.to, m.id))]
  \/ /\ rids[m.to][m.id] # 0 /\ ~ (rids[m.to][m.id] <= applied[m.to])
     /\ requests' = [requests EXCEPT ![m.to][m.id] =
                                 [index |-> rids[m.to][m.id], live |-> m.live]]
     /\ UNCHANGED writing

LEMMA RequestUpdateFacts ==
  ASSUME TypeOK, NEW m \in asks, RequestUpdate(m)
  PROVE  /\ UNCHANGED <<term, log, leads, commit, applied, written, rids, pc, result, age>>
         /\ m.to \in Peer /\ m.id \in Id /\ asks' \subseteq asks
         /\ \A a \in answers' :
              \/ a \in answers
              \/ a.id = m.id /\ (a.kind = "index" => a.val = rids[m.to][m.id] /\ a.val # 0
                                                     /\ a.val <= applied[m.to])
         /\ \/ UNCHANGED <<requests, writing>>
            \/ leads[m.to] /\ ~Pending(m.to, m.id) /\ Entered(m)
<1> DEFINE p == m.to
           i == rids[p][m.id]
<1>1. /\ Handle(m) /\ asks' \subseteq asks
      /\ UNCHANGED <<term, log, leads, commit, applied, written, rids, pc, result, age>>
  BY DEF RequestUpdate, client
<1>2. p \in Peer /\ m.id \in Id
  BY DEF TypeOK
<1>3. CASE ~leads[p]
  <2>1. Reply(m, NotLeader(m.id, p, follow[p])) /\ UNCHANGED <<requests, writing>>
    BY <1>1, <1>3 DEF Handle
  <2> QED  BY <1>1, <1>2, <2>1 DEF Reply, NotLeader, Answer
<1>4. CASE leads[p] /\ Pending(p, m.id)
  <2>1. Reply(m, Accept(m.id, p)) /\ UNCHANGED <<requests, writing>>
    BY <1>1, <1>4 DEF Handle
  <2> QED  BY <1>1, <1>2, <2>1 DEF Reply, Accept, Answer
<1>5. CASE leads[p] /\ ~Pending(p, m.id) /\ i = 0 /\ Sane
  <2>1. New(m)
    BY <1>1, <1>5 DEF Handle
  <2> QED  BY <1>1, <1>2, <1>5, <2>1 DEF Entered, New, Insert, Mine, Reply, Accept, Answer
<1>6. CASE leads[p] /\ ~Pending(p, m.id) /\ i = 0 /\ ~Sane
  <2>1. Reply(m, Expired(m.id, p)) /\ UNCHANGED <<requests, writing>>
    BY <1>1, <1>6 DEF Handle
  <2> QED  BY <1>1, <1>2, <2>1 DEF Reply, Expired, Answer
<1>7. CASE leads[p] /\ ~Pending(p, m.id) /\ i # 0 /\ i <= applied[p]
  <2>1. Reply(m, Done(m.id, p, i)) /\ UNCHANGED <<requests, writing>>
    BY <1>1, <1>7 DEF Handle
  <2> QED  BY <1>1, <1>2, <1>7, <2>1 DEF Reply, Done, Answer
<1>8. CASE leads[p] /\ ~Pending(p, m.id) /\ i # 0 /\ ~ (i <= applied[p])
  <2>1. Insert(m, i) /\ Reply(m, Accept(m.id, p)) /\ UNCHANGED writing
    BY <1>1, <1>8 DEF Handle
  <2> QED  BY <1>1, <1>2, <1>8, <2>1 DEF Entered, Insert, Reply, Accept, Answer
<1> QED  BY <1>3, <1>4, <1>5, <1>6, <1>7, <1>8

LEMMA RequestUpdateType ==
  ASSUME TypeOK, NEW m \in asks, RequestUpdate(m)
  PROVE  TypeOK'
<1>1. /\ UNCHANGED <<term, log, leads, commit, applied, written, rids, pc, result, age>>
      /\ asks' \subseteq asks
  BY RequestUpdateFacts
<1>2. m.to \in Peer /\ m.id \in Id /\ m.live \in BOOLEAN
  BY DEF TypeOK
<1>3. \A a \in answers' : a.id \in Id /\ (a.kind = "index" => a.val \in Nat)
  <2>1. rids[m.to][m.id] \in Nat
    BY <1>2 DEF TypeOK
  <2>2. \A a \in answers' : a \in answers \/
          (a.id = m.id /\ (a.kind = "index" => a.val = rids[m.to][m.id]))
    BY RequestUpdateFacts
  <2> QED  BY <1>2, <2>1, <2>2 DEF TypeOK
<1>4. requests' \in [Peer -> [Id -> Requested]] /\ writing' \in [Peer -> Seq(Entry)]
  <2>1. requests \in [Peer -> [Id -> Requested]] /\ writing \in [Peer -> Seq(Entry)]
        /\ rids[m.to][m.id] \in Nat
    BY <1>2 DEF TypeOK
  <2>2. \A i \in Nat : [requests EXCEPT ![m.to][m.id] = [index |-> i, live |-> m.live]]
                         \in [Peer -> [Id -> Requested]]
    <3> SUFFICES ASSUME NEW i \in Nat
                 PROVE  [requests EXCEPT ![m.to][m.id] = [index |-> i, live |-> m.live]]
                         \in [Peer -> [Id -> Requested]]
      OBVIOUS
    <3>1. [index |-> i, live |-> m.live] \in Requested
      BY <1>2 DEF Requested
    <3> QED  BY <1>2, <2>1, <3>1
  <2>3. [writing EXCEPT ![m.to] = Append(@, Mine(m.to, m.id))] \in [Peer -> Seq(Entry)]
    <3>1. Mine(m.to, m.id) \in Entry
      BY <1>2 DEF TypeOK, Mine, Entry
    <3>2. Append(writing[m.to], Mine(m.to, m.id)) \in Seq(Entry)
      BY <1>2, <2>1, <3>1, Longer
    <3> QED  BY <1>2, <2>1, <3>2
  <2>4. UNCHANGED <<requests, writing>> \/ Entered(m)
    BY RequestUpdateFacts
  <2>5. CASE UNCHANGED <<requests, writing>>
    BY <2>1, <2>5
  <2>6. CASE /\ requests' = [requests EXCEPT ![m.to][m.id] = [index |-> 0, live |-> m.live]]
             /\ writing' = [writing EXCEPT ![m.to] = Append(@, Mine(m.to, m.id))]
    <3>1. 0 \in Nat
      OBVIOUS
    <3> QED  BY <2>2, <2>3, <2>6, <3>1
  <2>7. CASE /\ requests' = [requests EXCEPT ![m.to][m.id] =
                                 [index |-> rids[m.to][m.id], live |-> m.live]]
             /\ UNCHANGED writing
    BY <2>1, <2>2, <2>7
  <2> QED  BY <2>4, <2>5, <2>6, <2>7 DEF Entered
<1> QED  BY <1>1, <1>3, <1>4 DEF TypeOK

\* What p does when a write has ended.
LEMMA ResolveFacts ==
  ASSUME TypeOK, NEW p \in Peer, Resolve(p)
  PROVE  LET w == Head(written[p]) IN
         /\ w = written[p][1] /\ w \in Written /\ Len(written[p]) > 0
         /\ written' \in [Peer -> Seq(Written)]
         /\ \A r \in Peer \ {p} : written'[r] = written[r]
         /\ Len(written'[p]) = Len(written[p]) - 1
         /\ \A k \in 1..Len(written[p]) - 1 : written'[p][k] = written[p][k + 1]
         /\ UNCHANGED <<term, log, leads, commit, applied, writing, rids, pc, result, asks, age>>
         /\ \/ UNCHANGED <<requests, answers>>
               /\ ~ (w.entry.id # None /\ leads[p] /\ term[p] = w.entry.term)
            \/ /\ w.entry.id \in Id /\ leads[p] /\ term[p] = w.entry.term
               /\ w.index <= applied[p]
               /\ requests' = [requests EXCEPT ![p][w.entry.id] = NoRequest]
               /\ answers' \subseteq answers \union {Done(w.entry.id, p, w.index)}
            \/ /\ w.entry.id \in Id /\ leads[p] /\ term[p] = w.entry.term
               /\ ~ (w.index <= applied[p])
               /\ requests' = [requests EXCEPT ![p][w.entry.id].index =
                                  IF Pending(p, w.entry.id) THEN w.index ELSE @]
               /\ UNCHANGED answers
<1> DEFINE w == Head(written[p])
<1>1. written[p] # <<>> /\ written[p] \in Seq(Written) /\ written \in [Peer -> Seq(Written)]
  BY DEF Resolve, TypeOK
<1>2. Len(written[p]) \in Nat /\ Len(written[p]) > 0
  BY <1>1, EmptySeq, LenProperties
<1>3. w = written[p][1] /\ w \in Written
  BY <1>1, <1>2
<1>4. w.entry \in Entry
  BY <1>3 DEF Written
<1>5. w.entry.id # None => w.entry.id \in Id
  BY <1>4 DEF Entry
<1>6. written' = [written EXCEPT ![p] = Tail(@)]
      /\ UNCHANGED <<term, log, leads, commit, applied, writing, rids, pc, result, asks, age>>
  BY DEF Resolve, client
<1>7. /\ Tail(written[p]) \in Seq(Written) /\ Len(Tail(written[p])) = Len(written[p]) - 1
      /\ \A k \in 1..Len(written[p]) - 1 : Tail(written[p])[k] = written[p][k + 1]
  BY <1>1, HeadTailProperties
<1>8. IF w.entry.id # None /\ leads[p] /\ term[p] = w.entry.term
        THEN Resolved(p, w.entry.id, w.index)
        ELSE UNCHANGED <<requests, answers>>
  BY DEF Resolve
<1> HIDE DEF w
<1>9. /\ written' \in [Peer -> Seq(Written)]
      /\ \A r \in Peer \ {p} : written'[r] = written[r]
      /\ Len(written'[p]) = Len(written[p]) - 1
      /\ \A k \in 1..Len(written[p]) - 1 : written'[p][k] = written[p][k + 1]
  BY <1>1, <1>6, <1>7
<1>10. \/ UNCHANGED <<requests, answers>>
          /\ ~ (w.entry.id # None /\ leads[p] /\ term[p] = w.entry.term)
       \/ /\ w.entry.id \in Id /\ leads[p] /\ term[p] = w.entry.term
          /\ w.index <= applied[p]
          /\ requests' = [requests EXCEPT ![p][w.entry.id] = NoRequest]
          /\ answers' \subseteq answers \union {Done(w.entry.id, p, w.index)}
       \/ /\ w.entry.id \in Id /\ leads[p] /\ term[p] = w.entry.term
          /\ ~ (w.index <= applied[p])
          /\ requests' = [requests EXCEPT ![p][w.entry.id].index =
                             IF Pending(p, w.entry.id) THEN w.index ELSE @]
          /\ UNCHANGED answers
  <2>1. CASE ~ (w.entry.id # None /\ leads[p] /\ term[p] = w.entry.term)
    BY <1>8, <2>1
  <2>2. CASE w.entry.id # None /\ leads[p] /\ term[p] = w.entry.term
    BY <1>5, <1>8, <2>2 DEF Resolved
  <2> QED  BY <2>1, <2>2
<1> QED  BY <1>2, <1>3, <1>6, <1>9, <1>10 DEF w

LEMMA ResolveType ==
  ASSUME TypeOK, NEW p \in Peer, Resolve(p)
  PROVE  TypeOK'
<1> DEFINE w == Head(written[p])
<1>1. /\ written' \in [Peer -> Seq(Written)]
      /\ UNCHANGED <<term, log, leads, commit, applied, writing, rids, pc, result, asks, age>>
  BY ResolveFacts
<1>2. w.index \in Nat /\ requests \in [Peer -> [Id -> Requested]]
  BY ResolveFacts DEF Written, TypeOK
<1>3. \/ UNCHANGED <<requests, answers>>
      \/ /\ w.entry.id \in Id
         /\ requests' = [requests EXCEPT ![p][w.entry.id] = NoRequest]
         /\ answers' \subseteq answers \union {Done(w.entry.id, p, w.index)}
      \/ /\ w.entry.id \in Id
         /\ requests' = [requests EXCEPT ![p][w.entry.id].index =
                             IF Pending(p, w.entry.id) THEN w.index ELSE @]
         /\ UNCHANGED answers
  BY ResolveFacts
<1> HIDE DEF w
<1>4. requests' \in [Peer -> [Id -> Requested]]
  <2>1. CASE requests' = requests
    BY <1>2, <2>1
  <2>2. ASSUME NEW id \in Id, requests' = [requests EXCEPT ![p][id] = NoRequest]
        PROVE  requests' \in [Peer -> [Id -> Requested]]
    <3>1. NoRequest \in Requested
      BY DEF Requested
    <3> QED  BY <1>2, <2>2, <3>1
  <2>3. ASSUME NEW id \in Id, requests' = [requests EXCEPT ![p][id].index =
                                              IF Pending(p, id) THEN w.index ELSE @]
        PROVE  requests' \in [Peer -> [Id -> Requested]]
    <3>1. [requests[p][id] EXCEPT !.index = IF Pending(p, id) THEN w.index ELSE @] \in Requested
      <4>1. CASE Pending(p, id)
        <5>1. requests[p][id] \in Requested /\ requests[p][id] # NoRequest
          BY <1>2, <4>1 DEF Pending
        <5>2. [requests[p][id] EXCEPT !.index = w.index] \in Requested
          BY <1>2, <5>1, RequestedIs
        <5> QED  BY <4>1, <5>2
      <4>2. CASE ~Pending(p, id)
        <5>1. NoRequest \in [index : {-1}, live : {FALSE}]
          BY DEF NoRequest
        <5>2. [NoRequest EXCEPT !.index = NoRequest.index] = NoRequest
          BY <5>1
        <5> QED  BY <1>2, <4>2, <5>2 DEF Pending
      <4> QED  BY <4>1, <4>2
    <3> QED  BY <1>2, <2>3, <3>1
  <2> QED  BY <1>3, <2>1, <2>2, <2>3
<1>5. \A m \in answers' : m.id \in Id /\ (m.kind = "index" => m.val \in Nat)
  BY <1>2, <1>3 DEF TypeOK, Done, Answer
<1> QED  BY <1>1, <1>4, <1>5 DEF TypeOK

\* What the client does, and time: nothing happens to the logs, whoever waits
\* still does, and what is told was on its way.
Quiet ==
  /\ UNCHANGED <<term, log, leads, commit, applied, writing, written>>
  /\ SameTable /\ answers' \subseteq answers /\ age <= age'
  /\ \/ rids' = rids
     \/ Forgotten /\ \A p \in Peer, id \in Id : rids'[p][id] = 0
  /\ \A id \in Id : pc'[id] = "done" =>
       \/ pc[id] = "done" /\ result'[id] = result[id]
       \/ \E m \in answers : m.id = id /\ m.kind = "index" /\ result'[id] = m.val

\* The client takes the index of an answer, or no index.
HearsOf(m) ==
  /\ m.kind = "index" /\ UNCHANGED requests /\ pc[m.id] # "done"
  /\ result' = [result EXCEPT ![m.id] = m.val]
  /\ \A id \in Id : pc'[id] = "done" => (pc[id] = "done" \/ id = m.id)
HearsNothing == UNCHANGED result /\ \A id \in Id : pc'[id] = "done" => pc[id] = "done"

LEMMA UnchangedTable ==
  ASSUME UNCHANGED requests
  PROVE  SameTable
  BY DEF SameTable

LEMMA ClientQuiet ==
  ASSUME TypeOK, UNCHANGED cluster,
         UNCHANGED requests \/ \E l, a : a \subseteq answers /\ SetLeader(l, a),
         requests' = requests => answers' \subseteq answers /\ asks' \subseteq [id : Id, to : Peer, live : BOOLEAN],
         age' \in Nat, age <= age', pc' \in [Id -> Doing],
         HearsNothing \/ \E m \in answers : HearsOf(m)
  PROVE  TypeOK' /\ Quiet
<1>1. /\ UNCHANGED <<term, log, leads, commit, applied, writing, written, rids>>
  BY DEF cluster
<1>2. /\ requests' \in [Peer -> [Id -> Requested]] /\ SameTable
      /\ asks' \subseteq [id : Id, to : Peer, live : BOOLEAN]
      /\ answers' \subseteq answers
  <2>1. CASE \E l, a : a \subseteq answers /\ SetLeader(l, a)
    <3>1. PICK l, a : a \subseteq answers /\ SetLeader(l, a)
      BY <2>1
    <3> QED  BY <3>1, SetLeaderFacts
  <2>2. CASE UNCHANGED requests
    <3>1. requests' \in [Peer -> [Id -> Requested]]
      BY <2>2 DEF TypeOK
    <3> QED  BY <2>2, <3>1, UnchangedTable
  <2> QED  BY <2>1, <2>2
<1>3. /\ result' \in [Id -> Nat]
      /\ \A id \in Id : pc'[id] = "done" =>
           \/ pc[id] = "done" /\ result'[id] = result[id]
           \/ \E m \in answers : m.id = id /\ m.kind = "index" /\ result'[id] = m.val
  <2>1. CASE HearsNothing
    BY <2>1 DEF TypeOK, HearsNothing
  <2>2. CASE \E m \in answers : HearsOf(m)
    <3>1. PICK m \in answers : HearsOf(m)
      BY <2>2
    <3>2. result \in [Id -> Nat] /\ m.id \in Id /\ m.val \in Nat
      BY <3>1 DEF TypeOK, HearsOf
    <3>3. result' \in [Id -> Nat] /\ \A id \in Id : result'[id] = IF id = m.id THEN m.val ELSE result[id]
      BY <3>1, <3>2 DEF HearsOf
    <3> QED  BY <3>1, <3>3 DEF HearsOf
  <2> QED  BY <2>1, <2>2
<1>4. \A m \in answers' : m.id \in Id /\ (m.kind = "index" => m.val \in Nat)
  BY <1>2 DEF TypeOK
<1>5. TypeOK'
  BY <1>1, <1>2, <1>3, <1>4 DEF TypeOK
<1> QED  BY <1>1, <1>2, <1>3, <1>5 DEF Quiet

LEMMA ReceiveQuiet ==
  ASSUME TypeOK, NEW m \in answers, Receive(m)
  PROVE  TypeOK' /\ Quiet
<1> DEFINE id == m.id
<1>1. id \in Id /\ pc \in [Id -> Doing] /\ result \in [Id -> Nat] /\ age \in Nat
      /\ asks \subseteq [id : Id, to : Peer, live : BOOLEAN]
  BY DEF TypeOK
<1>2. /\ pc' = [pc EXCEPT ![id] =
              IF @ # "waiting" \/ m.kind = "accept" THEN @
              ELSE IF m.kind = "index" THEN "done"
              ELSE IF m.kind = "expired" THEN "expired"
              ELSE IF m.val = None THEN "config" ELSE "request"]
      /\ result' = [result EXCEPT ![id] = IF pc[id] = "waiting" /\ m.kind = "index" THEN m.val ELSE @]
      /\ UNCHANGED cluster /\ age' = age
      /\ IF pc[id] = "waiting" /\ m.kind = "notLeader"
           THEN SetLeader(m.val, answers \ {m})
           ELSE answers' = answers \ {m} /\ UNCHANGED <<asks, requests>>
  BY DEF Receive
<1>3. pc' \in [Id -> Doing]
  BY <1>1, <1>2 DEF Doing
<1>4. answers \ {m} \subseteq answers
  OBVIOUS
<1>5. UNCHANGED requests \/ \E l, a : a \subseteq answers /\ SetLeader(l, a)
  BY <1>2, <1>4
<1>6. requests' = requests => answers' \subseteq answers /\ asks' \subseteq [id : Id, to : Peer, live : BOOLEAN]
  <2>1. CASE SetLeader(m.val, answers \ {m})
    BY <1>4, <2>1, SetLeaderFacts
  <2>2. CASE answers' = answers \ {m} /\ UNCHANGED <<asks, requests>>
    BY <1>1, <2>2
  <2> QED  BY <1>2, <2>1, <2>2
<1>7. CASE pc[id] = "waiting" /\ m.kind = "index"
  <2>1. UNCHANGED requests /\ result' = [result EXCEPT ![id] = m.val] /\ pc[id] # "done"
    BY <1>2, <1>7
  <2>2. \A i \in Id : pc'[i] = "done" => pc[i] = "done" \/ i = id
    BY <1>1, <1>2
  <2>3. HearsOf(m)
    BY <1>7, <2>1, <2>2 DEF HearsOf
  <2> QED  BY <1>1, <1>2, <1>3, <1>5, <1>6, <2>3, ClientQuiet
<1>8. CASE ~(pc[id] = "waiting" /\ m.kind = "index")
  <2>1. result' = result
    BY <1>1, <1>2, <1>8
  <2>2. \A i \in Id : pc'[i] = "done" => pc[i] = "done"
    BY <1>1, <1>2, <1>8
  <2>3. HearsNothing
    BY <2>1, <2>2 DEF HearsNothing
  <2> QED  BY <1>1, <1>2, <1>3, <1>5, <1>6, <2>3, ClientQuiet
<1> QED  BY <1>7, <1>8

LEMMA QuietSteps ==
  ASSUME TypeOK,
         \/ \E id \in Id : \/ \E p \in Peer : Send(id, p) \/ Config(id, p)
                           \/ Timeout(id) \/ ConfigTimeout(id)
         \/ \E m \in asks : Lose(m)
         \/ \E m \in answers : Receive(m)
         \/ Forget \/ Tick
  PROVE  TypeOK' /\ Quiet
<1>0. /\ pc \in [Id -> Doing] /\ result \in [Id -> Nat] /\ age \in Nat
      /\ asks \subseteq [id : Id, to : Peer, live : BOOLEAN]
  BY DEF TypeOK
<1>1. ASSUME NEW id \in Id, NEW p \in Peer, Send(id, p)  PROVE TypeOK' /\ Quiet
  <2>1. [id |-> id, to |-> p, live |-> TRUE] \in [id : Id, to : Peer, live : BOOLEAN]
    OBVIOUS
  <2>2. /\ asks' \subseteq [id : Id, to : Peer, live : BOOLEAN]
        /\ pc' \in [Id -> Doing]
        /\ \A i \in Id : pc'[i] = "done" => pc[i] = "done"
        /\ UNCHANGED <<requests, result, answers, age>> /\ UNCHANGED cluster
    BY <1>0, <1>1, <2>1 DEF Send, Doing
  <2> QED  BY <1>0, <2>2, ClientQuiet DEF HearsNothing
<1>2. ASSUME NEW id \in Id, NEW p \in Peer, Config(id, p)  PROVE TypeOK' /\ Quiet
  <2>1. /\ pc' \in [Id -> Doing]
        /\ \A i \in Id : pc'[i] = "done" => pc[i] = "done"
        /\ \E l, a : a \subseteq answers /\ SetLeader(l, a)
        /\ UNCHANGED <<result, age>> /\ UNCHANGED cluster
    BY <1>0, <1>2 DEF Config, Doing
  <2>2. answers' \subseteq answers /\ asks' \subseteq [id : Id, to : Peer, live : BOOLEAN]
    BY <2>1, SetLeaderFacts
  <2> QED  BY <1>0, <2>1, <2>2, ClientQuiet DEF HearsNothing
<1>3. ASSUME NEW id \in Id, Timeout(id)  PROVE TypeOK' /\ Quiet
  <2>1. /\ pc' \in [Id -> Doing]
        /\ \A i \in Id : pc'[i] = "done" => pc[i] = "done"
        /\ \E l, a : a \subseteq answers /\ SetLeader(l, a)
        /\ UNCHANGED <<result, age>> /\ UNCHANGED cluster
    BY <1>0, <1>3 DEF Timeout, Doing
  <2>2. answers' \subseteq answers /\ asks' \subseteq [id : Id, to : Peer, live : BOOLEAN]
    BY <2>1, SetLeaderFacts
  <2> QED  BY <1>0, <2>1, <2>2, ClientQuiet DEF HearsNothing
<1>4. ASSUME NEW id \in Id, ConfigTimeout(id)  PROVE TypeOK' /\ Quiet
  <2>1. /\ \E l, a : a \subseteq answers /\ SetLeader(l, a)
        /\ UNCHANGED <<pc, result, age>> /\ UNCHANGED cluster
    BY <1>4 DEF ConfigTimeout
  <2>2. answers' \subseteq answers /\ asks' \subseteq [id : Id, to : Peer, live : BOOLEAN]
    BY <2>1, SetLeaderFacts
  <2> QED  BY <1>0, <2>1, <2>2, ClientQuiet DEF HearsNothing
<1>5. ASSUME NEW m \in asks, Lose(m)  PROVE TypeOK' /\ Quiet
  <2>1. /\ UNCHANGED <<requests, pc, result, answers, age>> /\ UNCHANGED cluster
        /\ asks' \subseteq [id : Id, to : Peer, live : BOOLEAN]
    BY <1>0, <1>5 DEF Lose, client
  <2> QED  BY <1>0, <2>1, ClientQuiet DEF HearsNothing
<1>6. ASSUME Tick  PROVE TypeOK' /\ Quiet
  <2>1. /\ UNCHANGED <<requests, pc, result, asks, answers>> /\ UNCHANGED cluster
        /\ age' \in Nat /\ age <= age'
    BY <1>0, <1>6 DEF Tick, client, network
  <2> QED  BY <1>0, <2>1, ClientQuiet DEF HearsNothing
<1>7. ASSUME Forget  PROVE TypeOK' /\ Quiet
  <2>1. /\ UNCHANGED <<term, log, leads, commit, applied, writing, written, requests,
                       pc, result, asks, answers, age>>
        /\ rids' = [p \in Peer |-> [id \in Id |-> 0]]
        /\ Forgotten
    BY <1>7 DEF Forget, client, network
  <2>2. TypeOK'
    BY <2>1 DEF TypeOK
  <2>3. SameTable
    BY <2>1, UnchangedTable
  <2> QED  BY <1>0, <2>1, <2>2, <2>3 DEF Quiet
<1> QED  BY <1>1, <1>2, <1>3, <1>4, <1>5, <1>6, <1>7, ReceiveQuiet

LEMMA InitType ==
  Init => TypeOK
<1> SUFFICES ASSUME Init  PROVE TypeOK
  OBVIOUS
<1>1. <<>> \in Seq(Entry) /\ <<>> \in Seq(Written) /\ NoRequest \in Requested /\ 1 \in Nat \ {0}
      /\ 0 \in Nat /\ "request" \in Doing
  BY DEF Requested, Doing
<1>2. leads \in [Peer -> BOOLEAN]
  BY DEF Init
<1> QED  BY <1>1, <1>2 DEF Init, TypeOK

-----------------------------------------------------------------------------
(* The logs agree. *)

LEMMA Between ==
  ASSUME NEW a \in Nat, NEW b \in Nat
  PROVE  /\ a + b \in Nat /\ a <= a + b
         /\ \A i \in 1..a : i \in 1..a + b
         /\ \A k \in 1..b : a + k \in 1..a + b
         /\ \A i \in 1..a + b : i \in 1..a \/ (i - a \in 1..b /\ i = a + (i - a))
  OBVIOUS

LEMMA Above ==
  ASSUME NEW a \in Nat, NEW b \in Nat, NEW c \in Nat, b <= c, NEW i \in a + 1 .. b
  PROVE  i \in 1..b /\ i \in 1..c /\ i \in a + 1 .. c
  OBVIOUS

LEMMA FullOf ==
  ASSUME TypeOK, NEW p \in Peer
  PROVE  /\ full[p] = log[p] \o writing[p] /\ full[p] \in Seq(Entry)
         /\ log[p] \in Seq(Entry) /\ writing[p] \in Seq(Entry)
         /\ Len(log[p]) \in Nat /\ Len(writing[p]) \in Nat /\ Len(full[p]) \in Nat
         /\ Len(full[p]) = Len(log[p]) + Len(writing[p]) /\ Len(log[p]) <= Len(full[p])
         /\ \A i \in 1..Len(log[p]) : i \in 1..Len(full[p]) /\ full[p][i] = log[p][i]
         /\ \A k \in 1..Len(writing[p]) : Len(log[p]) + k \in 1..Len(full[p])
                                          /\ full[p][Len(log[p]) + k] = writing[p][k]
         /\ \A i \in 1..Len(full[p]) : full[p][i] \in Entry /\ full[p][i].term \in Nat \ {0}
         /\ \A i \in 1..Len(full[p]) :
              i \in 1..Len(log[p]) \/ \E k \in 1..Len(writing[p]) : i = Len(log[p]) + k
<1>1. log[p] \in Seq(Entry) /\ writing[p] \in Seq(Entry)
  BY DEF TypeOK
<1>2. Len(log[p]) \in Nat /\ Len(writing[p]) \in Nat
  BY <1>1, LenProperties
<1>3. full[p] = log[p] \o writing[p]
  BY DEF full
<1>4. full[p] \in Seq(Entry) /\ Len(full[p]) = Len(log[p]) + Len(writing[p])
      /\ (\A i \in 1..Len(log[p]) : full[p][i] = log[p][i])
      /\ \A k \in 1..Len(writing[p]) : full[p][Len(log[p]) + k] = writing[p][k]
  <2> DEFINE l == log[p] \o writing[p]
  <2>1. l \in Seq(Entry) /\ Len(l) = Len(log[p]) + Len(writing[p])
        /\ (\A i \in 1..Len(log[p]) : l[i] = log[p][i])
        /\ \A k \in 1..Len(writing[p]) : l[Len(log[p]) + k] = writing[p][k]
    BY <1>1, Joined
  <2> HIDE DEF l
  <2>2. full[p] = l
    BY <1>3 DEF l
  <2> QED  BY <2>1, <2>2
<1>5. \A i \in 1..Len(full[p]) : full[p][i] \in Entry /\ full[p][i].term \in Nat \ {0}
  BY <1>4, EntryOf
<1>6. ASSUME NEW i \in 1..Len(full[p]), i \notin 1..Len(log[p])
      PROVE  \E k \in 1..Len(writing[p]) : i = Len(log[p]) + k
  <2>1. i - Len(log[p]) \in 1..Len(writing[p]) /\ i = Len(log[p]) + (i - Len(log[p]))
    <3>1. i \in 1..Len(log[p]) + Len(writing[p])
      BY <1>4, <1>6
    <3> QED  BY <1>2, <1>6, <3>1, Between
  <2> QED  BY <2>1
<1>7. Len(full[p]) \in Nat /\ Len(log[p]) <= Len(full[p])
  BY <1>2, <1>4, Between
<1>8. \A i \in 1..Len(log[p]) : i \in 1..Len(full[p])
  BY <1>2, <1>4, Between
<1>9. \A k \in 1..Len(writing[p]) : Len(log[p]) + k \in 1..Len(full[p])
  BY <1>2, <1>4, Between
<1> QED  BY <1>1, <1>2, <1>3, <1>4, <1>5, <1>6, <1>7, <1>8, <1>9

LEMMA VotersMajority ==
  ASSUME NEW Q \in Voters
  PROVE  Majority(Q)
<1>1. Cardinality(Peer) \in Nat
  BY PeerAssumption, FS_CardinalityType
<1>2. 2 * (1 + Cardinality(Peer) \div 2) > Cardinality(Peer)
  BY <1>1
<1> QED  BY <1>2 DEF Voters, Majority

LEMMA StandLog ==
  ASSUME TypeOK, LogInv, NEW p \in Peer, NEW Q \in Voters, NEW el \in BOOLEAN, Stand(p, Q, el)
  PROVE  LogInv'
<1>0. TypeOK'
  BY StandType
<1>1. PICK t \in Nat \ {0} :
           /\ \A q \in Q : term[q] < t /\ term'[q] = t
           /\ \A u \in Nat : Held(term, u) => u < t
           /\ \A q \in Peer \ Q : term'[q] = term[q] /\ leads'[q] = leads[q]
           /\ \A q \in Q : leads'[q] = (q = p /\ el)
           /\ \/ writing' = writing
              \/ el /\ writing' = [writing EXCEPT ![p] = Append(@, [id |-> None, term |-> t])]
  BY StandFacts
<1>2. Q \in SUBSET Peer /\ p \in Q /\ log' = log /\ written' = written
  BY DEF Voters, Stand
<1>3. \A q \in Peer : term[q] \in Nat /\ term'[q] \in Nat
  BY <1>0 DEF TypeOK
<1>4. \A q \in Peer : term[q] <= term'[q]
  <2> SUFFICES ASSUME NEW q \in Peer  PROVE term[q] <= term'[q]
    OBVIOUS
  <2>1. CASE q \in Q
    BY <1>1, <1>3, <2>1
  <2>2. CASE q \notin Q
    BY <1>1, <1>3, <2>2
  <2> QED  BY <2>1, <2>2
<1>5. Grown(p)
  <2>1. \A q \in Peer : full[q] = log[q] \o writing[q] /\ full'[q] = log[q] \o writing'[q]
    BY <1>2 DEF full
  <2>2. CASE writing' = writing
    BY <2>1, <2>2 DEF Grown
  <2>3. CASE el /\ writing' = [writing EXCEPT ![p] = Append(@, [id |-> None, term |-> t])]
    <3> DEFINE e == [id |-> None, term |-> t]
    <3>1. e \in Entry /\ e.term = t
      BY DEF Entry
    <3> HIDE DEF e
    <3>2. writing \in [Peer -> Seq(Entry)] /\ log[p] \in Seq(Entry) /\ writing[p] \in Seq(Entry)
      BY DEF TypeOK
    <3>3. /\ writing'[p] = Append(writing[p], e)
          /\ \A q \in Peer \ {p} : writing'[q] = writing[q]
      BY <2>3, <3>2 DEF e
    <3>4. full'[p] = Append(full[p], e)
      <4>1. log[p] \o Append(writing[p], e) = Append(log[p] \o writing[p], e)
        BY <3>1, <3>2, JoinedAppend
      <4>2. full[p] = log[p] \o writing[p] /\ full'[p] = log[p] \o writing'[p]
        BY <2>1
      <4> QED  BY <3>3, <4>1, <4>2
    <3>5. e.term = term'[p] /\ leads'[p]
      BY <1>1, <1>2, <2>3, <3>1
    <3> QED  BY <2>1, <3>1, <3>3, <3>4, <3>5 DEF Grown
  <2> QED  BY <1>1, <2>2, <2>3
<1>6. Leads(p)
  <2>1. ASSUME NEW q \in Peer \ {p}, leads'[q]
        PROVE  leads[q] /\ term'[q] = term[q] /\ term[q] # term'[p]
    <3>1. q \notin Q
      BY <1>1, <2>1
    <3>2. leads[q] /\ term'[q] = term[q]
      BY <1>1, <2>1, <3>1
    <3>3. Held(term, term[q])
      BY <3>2 DEF LogInv, TermsInv
    <3> QED  BY <1>1, <1>2, <1>3, <3>2, <3>3
  <2>2. Held(term', t)
    <3>1. {q \in Peer : term'[q] >= t} \in SUBSET Peer /\ Q \subseteq {q \in Peer : term'[q] >= t}
      BY <1>1, <1>2
    <3> QED  BY <1>2, <3>1, VotersMajority, MajorityGrows DEF Held
  <2>3. \A q \in Peer : HasTerm(full[p], full[q], t)
    <3> SUFFICES ASSUME NEW q \in Peer, NEW j \in 1..Len(full[q]), full[q][j].term = t
                 PROVE  FALSE
      BY DEF HasTerm
    <3>1. Held(term, t)
      BY DEF LogInv, TermsInv
    <3>2. t < t
      BY <1>1, <3>1
    <3> QED  BY <3>2
  <2>4. term'[p] = t
    BY <1>1, <1>2
  <2> QED  BY <1>4, <2>1, <2>2, <2>3, <2>4 DEF Leads
<1>7. \A q \in Peer : \A k \in 1..Len(written'[q]) : written'[q][k].entry.term <= term'[q]
  <2> SUFFICES ASSUME NEW q \in Peer, NEW k \in 1..Len(written[q])
               PROVE  written[q][k].entry.term <= term'[q]
    BY <1>2
  <2>1. written[q] \in Seq(Written)
    BY DEF TypeOK
  <2>2. written[q][k] \in Written
    BY <2>1, ElementOfSeq
  <2>3. written[q][k].entry.term \in Nat
    BY <2>2 DEF Written, Entry
  <2>4. written[q][k].entry.term <= term[q]
    BY DEF LogInv, TermsInv
  <2> QED  BY <1>3, <1>4, <2>3, <2>4
<1> QED  BY <1>0, <1>5, <1>6, <1>7, LogGrows

LEMMA SameLogs ==
  ASSUME LogInv, full' = full, term' = term, leads' = leads,
         \A q \in Peer : \A k \in 1..Len(written'[q]) : written'[q][k].entry.term <= term'[q]
  PROVE  LogInv'
<1>1. TermsInv'
  BY DEF LogInv, TermsInv
<1>2. OneLeader' /\ InTerms' /\ LogsMatch' /\ LeadersHave'
  BY DEF LogInv, OneLeader, InTerms, LogsMatch, LeadersHave
<1> QED  BY <1>1, <1>2 DEF LogInv

LEMMA RequestUpdateLog ==
  ASSUME TypeOK, LogInv, NEW m \in asks, RequestUpdate(m)
  PROVE  LogInv'
<1> DEFINE p == m.to
<1>0. TypeOK'
  BY RequestUpdateType
<1>1. /\ UNCHANGED <<term, log, leads, written>> /\ p \in Peer /\ m.id \in Id
      /\ \/ UNCHANGED writing
         \/ leads[p] /\ writing' = [writing EXCEPT ![p] = Append(@, Mine(p, m.id))]
  BY RequestUpdateFacts DEF Entered
<1>2. Grown(p)
  <2>1. \A q \in Peer : full[q] = log[q] \o writing[q] /\ full'[q] = log[q] \o writing'[q]
    BY <1>1 DEF full
  <2>2. CASE writing' = writing
    BY <1>1, <2>1, <2>2 DEF Grown
  <2>3. CASE leads[p] /\ writing' = [writing EXCEPT ![p] = Append(@, Mine(p, m.id))]
    <3>1. Mine(p, m.id) \in Entry /\ Mine(p, m.id).term = term[p]
      BY <1>1 DEF Mine, Entry, TypeOK
    <3>2. writing \in [Peer -> Seq(Entry)] /\ log[p] \in Seq(Entry) /\ writing[p] \in Seq(Entry)
      BY <1>1 DEF TypeOK
    <3>3. /\ writing'[p] = Append(writing[p], Mine(p, m.id))
          /\ \A q \in Peer \ {p} : writing'[q] = writing[q]
      BY <1>1, <2>3, <3>2
    <3>4. full'[p] = Append(full[p], Mine(p, m.id))
      <4>1. full[p] = log[p] \o writing[p] /\ full'[p] = log[p] \o writing'[p]
        BY <1>1, <2>1
      <4> HIDE DEF p
      <4> QED  BY <3>1, <3>2, <3>3, <4>1, JoinedAppend
    <3>5. Mine(p, m.id).term = term'[p] /\ leads'[p]
      BY <1>1, <2>3, <3>1
    <3> QED  BY <2>1, <3>1, <3>3, <3>4, <3>5 DEF Grown
  <2> QED  BY <1>1, <2>2, <2>3
<1>3. Leads(p)
  <2>1. \A q \in Peer : term[q] \in Nat
    BY DEF TypeOK
  <2>2. \A q \in Peer : term[q] <= term'[q]
    BY <1>1, <2>1
  <2>3. leads[p] => Held(term, term[p]) /\ \A q \in Peer : HasTerm(full[p], full[q], term[p])
    BY <1>1 DEF LogInv, TermsInv, LeadersHave
  <2>4. \A q \in Peer \ {p} : leads[q] /\ leads[p] => term[q] # term[p]
    BY <1>1 DEF LogInv, OneLeader
  <2> QED  BY <1>1, <2>2, <2>3, <2>4 DEF Leads
<1>4. \A q \in Peer : \A k \in 1..Len(written'[q]) : written'[q][k].entry.term <= term'[q]
  BY <1>1 DEF LogInv, TermsInv
<1> QED  BY <1>0, <1>1, <1>2, <1>3, <1>4, LogGrows

LEMMA WriteLog ==
  ASSUME TypeOK, LogInv, NEW p \in Peer, Write(p)
  PROVE  LogInv'
<1>1. full' = full /\ term' = term /\ leads' = leads
  BY WriteFacts
<1>2. ASSUME NEW q \in Peer, NEW k \in 1..Len(written'[q])
      PROVE  written'[q][k].entry.term <= term[q]
  <2>1. CASE q # p \/ k \in 1..Len(written[p])
    <3>1. k \in 1..Len(written[q]) /\ written'[q][k] = written[q][k]
      BY <1>2, <2>1, WrittenGrows
    <3> QED  BY <3>1 DEF LogInv, TermsInv
  <2>2. CASE q = p /\ k \notin 1..Len(written[p])
    <3>1. Len(written[p]) \in Nat /\ Len(writing[p]) \in Nat
      BY LenProperties DEF TypeOK
    <3>2. k \in 1..Len(written[p]) + Len(writing[p])
      BY <1>2, <2>2, WrittenGrows
    <3>3. k - Len(written[p]) \in 1..Len(writing[p]) /\ k = Len(written[p]) + (k - Len(written[p]))
      BY <2>2, <3>1, <3>2, Between
    <3>4. PICK j \in 1..Len(writing[p]) : k = Len(written[p]) + j
      BY <3>3
    <3>5. written'[p][k] = [entry |-> writing[p][j], index |-> Len(log[p]) + j]
      BY <3>4, WrittenGrows
    <3>6. Len(log[p]) + j \in 1..Len(full[p]) /\ full[p][Len(log[p]) + j] = writing[p][j]
      BY FullOf
    <3>7. full[p][Len(log[p]) + j].term <= term[p]
      BY <3>6 DEF LogInv, TermsInv
    <3> QED  BY <2>2, <3>5, <3>6, <3>7
  <2> QED  BY <2>1, <2>2
<1> QED  BY <1>1, <1>2, SameLogs

LEMMA ResolveLog ==
  ASSUME TypeOK, LogInv, NEW p \in Peer, Resolve(p)
  PROVE  LogInv'
<1>1. /\ UNCHANGED <<term, log, leads, writing>>
      /\ \A r \in Peer \ {p} : written'[r] = written[r]
      /\ Len(written'[p]) = Len(written[p]) - 1
      /\ \A k \in 1..Len(written[p]) - 1 : written'[p][k] = written[p][k + 1]
  BY ResolveFacts
<1>2. full' = full
  BY <1>1 DEF full
<1>3. Len(written[p]) \in Nat
  BY LenProperties DEF TypeOK
<1>4. ASSUME NEW q \in Peer, NEW k \in 1..Len(written'[q])
      PROVE  written'[q][k].entry.term <= term[q]
  <2>1. CASE q # p
    BY <1>1, <1>4, <2>1 DEF LogInv, TermsInv
  <2>2. CASE q = p
    <3>1. k + 1 \in 1..Len(written[p]) /\ k \in 1..Len(written[p]) - 1
      BY <1>1, <1>3, <1>4, <2>2
    <3>2. written'[p][k] = written[p][k + 1]
      BY <1>1, <3>1
    <3>3. written[p][k + 1].entry.term <= term[p]
      BY <3>1 DEF LogInv, TermsInv
    <3> QED  BY <2>2, <3>2, <3>3
  <2> QED  BY <2>1, <2>2
<1> QED  BY <1>1, <1>2, <1>4, SameLogs

LEMMA ReplicateLog ==
  ASSUME TypeOK, LogInv, NEW p \in Peer, NEW q \in Peer, Replicate(p, q)
  PROVE  LogInv'
<1>0. TypeOK'
  BY ReplicateType
<1>1. /\ leads[p] /\ q # p /\ term[q] <= term[p] /\ writing[q] = <<>>
      /\ term' = [term EXCEPT ![q] = term[p]] /\ leads' = [leads EXCEPT ![q] = FALSE]
      /\ UNCHANGED <<writing, written>>
  BY ReplicateFacts
<1>2. log' = log \/ log' = [log EXCEPT ![q] = log[p]]
  BY ReplicateGives DEF Given
<1>3. term \in [Peer -> Nat] /\ leads \in [Peer -> BOOLEAN] /\ log \in [Peer -> Seq(Entry)]
  BY DEF TypeOK
<1>4. /\ \A r \in Peer : term[r] <= term'[r] /\ term[r] \in Nat /\ term'[r] \in Nat
      /\ \A r \in Peer : r # q => term'[r] = term[r] /\ leads'[r] = leads[r]
      /\ term'[q] = term[p] /\ ~leads'[q]
  BY <1>1, <1>3
\* Every log is what one was, or a beginning of it.
<1>5. /\ \A r \in Peer : r # q => full'[r] = full[r]
      /\ full'[q] = full[q] \/ full'[q] = log[p]
  <2>1. \A r \in Peer : full'[r] = log'[r] \o writing'[r] /\ full[r] = log[r] \o writing[r]
    BY DEF full
  <2>2. \A r \in Peer : r # q => full'[r] = full[r]
    BY <1>1, <1>2, <1>3, <2>1
  <2>3. CASE log' = log
    BY <1>1, <2>1, <2>2, <2>3
  <2>4. CASE log' = [log EXCEPT ![q] = log[p]]
    <3>1. full'[q] = log[p] \o <<>>
      BY <1>1, <1>3, <2>1, <2>4
    <3>2. log[p] \o <<>> = log[p]
      BY <1>3, ConcatEmptySeq
    <3> QED  BY <2>2, <3>1, <3>2
  <2> QED  BY <1>2, <2>3, <2>4
<1>6. /\ \A r \in Peer : Len(full[r]) \in Nat
      /\ \A r \in Peer : \A i \in 1..Len(full[r]) : full[r][i].term \in Nat
      /\ Len(log[p]) \in Nat /\ Len(log[p]) <= Len(full[p])
      /\ \A i \in 1..Len(log[p]) : i \in 1..Len(full[p]) /\ full[p][i] = log[p][i]
  BY FullOf
\* The log of r is now as that of from(r) was.
<1> DEFINE from(r) == IF r = q /\ full'[q] # full[q] THEN p ELSE r
<1>7. \A r \in Peer :
        /\ from(r) \in Peer
        /\ Len(full'[r]) \in Nat /\ Len(full'[r]) <= Len(full[from(r)])
        /\ \A i \in 1..Len(full'[r]) : i \in 1..Len(full[from(r)]) /\ full'[r][i] = full[from(r)][i]
        /\ term[from(r)] <= term'[r]
  <2> SUFFICES ASSUME NEW r \in Peer
               PROVE  /\ from(r) \in Peer
                      /\ Len(full'[r]) \in Nat /\ Len(full'[r]) <= Len(full[from(r)])
                      /\ \A i \in 1..Len(full'[r]) :
                           i \in 1..Len(full[from(r)]) /\ full'[r][i] = full[from(r)][i]
                      /\ term[from(r)] <= term'[r]
    OBVIOUS
  <2>1. CASE full'[r] = full[r]
    <3>1. from(r) = r
      BY <2>1
    <3> QED  BY <1>4, <1>6, <2>1, <3>1
  <2>2. CASE r = q /\ full'[q] # full[q]
    <3>1. from(r) = p /\ full'[r] = log[p]
      BY <1>5, <2>2
    <3> QED  BY <1>4, <1>6, <2>2, <3>1
  <2> QED  BY <1>5, <2>1, <2>2
<1> HIDE DEF from
<1>8. \A r, s \in Peer : \A j \in 1..Len(full'[s]) :
        j <= Len(full'[r]) /\ Agree(full[from(r)], full[from(s)], j) => Agree(full'[r], full'[s], j)
  <2> SUFFICES ASSUME NEW r \in Peer, NEW s \in Peer, NEW j \in 1..Len(full'[s]),
                      j <= Len(full'[r]), Agree(full[from(r)], full[from(s)], j)
               PROVE  Agree(full'[r], full'[s], j)
    OBVIOUS
  <2>1. \A k \in 1..j : k \in 1..Len(full'[r]) /\ k \in 1..Len(full'[s])
    BY <1>7
  <2>2. \A k \in 1..j : full[from(r)][k] = full[from(s)][k]
    BY DEF Agree
  <2>3. \A k \in 1..j : full'[r][k] = full'[s][k]
    BY <1>7, <2>1, <2>2
  <2>4. j <= Len(full'[s])
    BY <1>7
  <2> QED  BY <2>3, <2>4 DEF Agree
<1>9. TermsInv'
  <2>1. ASSUME NEW r \in Peer, leads'[r]  PROVE Held(term', term'[r])
    <3>1. leads[r] /\ term'[r] = term[r]
      BY <1>4, <2>1
    <3>2. Held(term, term[r])
      BY <3>1 DEF LogInv, TermsInv
    <3> QED  BY <1>4, <3>1, <3>2, HeldGrows
  <2>2. ASSUME NEW r \in Peer, NEW i \in 1..Len(full'[r])
        PROVE  full'[r][i].term <= term'[r] /\ Held(term', full'[r][i].term)
    <3>1. from(r) \in Peer /\ i \in 1..Len(full[from(r)]) /\ full'[r][i] = full[from(r)][i]
          /\ term[from(r)] <= term'[r]
      BY <1>7
    <3>2. full[from(r)][i].term <= term[from(r)] /\ Held(term, full[from(r)][i].term)
          /\ full[from(r)][i].term \in Nat
      BY <1>6, <3>1 DEF LogInv, TermsInv
    <3>3. Held(term', full[from(r)][i].term)
      BY <1>4, <3>2, HeldGrows
    <3>4. full[from(r)][i].term <= term'[r]
      BY <1>4, <3>1, <3>2
    <3> QED  BY <3>1, <3>3, <3>4
  <2>3. ASSUME NEW r \in Peer, NEW k \in 1..Len(written'[r])
        PROVE  written'[r][k].entry.term <= term'[r]
    <3>1. written[r] \in Seq(Written) /\ written' = written
      BY <1>1 DEF TypeOK
    <3>2. written[r][k] \in Written
      BY <2>3, <3>1, ElementOfSeq
    <3>3. written[r][k].entry.term \in Nat /\ written[r][k].entry.term <= term[r]
      BY <2>3, <3>1, <3>2 DEF Written, Entry, LogInv, TermsInv
    <3> QED  BY <1>4, <3>1, <3>3
  <2> QED  BY <2>1, <2>2, <2>3 DEF TermsInv
<1>10. OneLeader'
  BY <1>4 DEF LogInv, OneLeader
<1>11. InTerms'
  <2> SUFFICES ASSUME NEW r \in Peer, NEW i \in 1..Len(full'[r]), NEW j \in 1..Len(full'[r]), i <= j
               PROVE  full'[r][i].term <= full'[r][j].term
    BY DEF InTerms
  <2>1. from(r) \in Peer /\ i \in 1..Len(full[from(r)]) /\ full'[r][i] = full[from(r)][i]
        /\ j \in 1..Len(full[from(r)]) /\ full'[r][j] = full[from(r)][j]
    BY <1>7
  <2> QED  BY <2>1 DEF LogInv, InTerms
<1>12. LogsMatch'
  <2> SUFFICES ASSUME NEW r \in Peer, NEW s \in Peer, NEW i \in 1..Len(full'[r]),
                      NEW j \in 1..Len(full'[s]), j <= i, full'[r][i].term = full'[s][j].term
               PROVE  Agree(full'[r], full'[s], j)
    BY DEF LogsMatch, Matches
  <2>1. /\ from(r) \in Peer /\ i \in 1..Len(full[from(r)]) /\ full'[r][i] = full[from(r)][i]
        /\ from(s) \in Peer /\ j \in 1..Len(full[from(s)]) /\ full'[s][j] = full[from(s)][j]
    BY <1>7
  <2>2. Agree(full[from(r)], full[from(s)], j)
    BY <2>1 DEF LogInv, LogsMatch, Matches
  <2>3. j <= Len(full'[r])
    BY <1>7
  <2> QED  BY <1>8, <2>2, <2>3
<1>13. LeadersHave'
  <2> SUFFICES ASSUME NEW r \in Peer, NEW s \in Peer, leads'[r], NEW j \in 1..Len(full'[s]),
                      full'[s][j].term = term'[r]
               PROVE  Agree(full'[s], full'[r], j)
    BY DEF LeadersHave, HasTerm
  <2>1. r # q /\ leads[r] /\ term'[r] = term[r]
    BY <1>4
  <2>2. from(r) = r /\ full'[r] = full[r]
    BY <1>5, <2>1 DEF from
  <2>3. from(s) \in Peer /\ j \in 1..Len(full[from(s)]) /\ full'[s][j] = full[from(s)][j]
    BY <1>7
  <2>4. Agree(full[from(s)], full[r], j)
    BY <2>1, <2>3 DEF LogInv, LeadersHave, HasTerm
  <2>5. j <= Len(full'[r]) /\ j \in 1..Len(full'[r])
    BY <1>7, <2>2, <2>4 DEF Agree
  <2> QED  BY <1>7, <1>8, <2>2, <2>4, <2>5
<1> QED  BY <1>9, <1>10, <1>11, <1>12, <1>13 DEF LogInv

LEMMA QuietLog ==
  ASSUME LogInv, Quiet
  PROVE  LogInv'
<1>1. full' = full /\ term' = term /\ leads' = leads /\ written' = written
  BY DEF Quiet, full
<1>2. \A q \in Peer : \A k \in 1..Len(written'[q]) : written'[q][k].entry.term <= term'[q]
  BY <1>1 DEF LogInv, TermsInv
<1> QED  BY <1>1, <1>2, SameLogs

-----------------------------------------------------------------------------
(* What is committed stays. *)

\* Who has entry i of l keeps it, and who is new to a later term has it.
Keeps(l, i) ==
  /\ \A q \in Peer : Agree(log[q], l, i) => Agree(log'[q], l, i)
  /\ \A r \in Peer : Follows(r, l[i].term)' => Follows(r, l[i].term) \/ Agree(log'[r], l, i)
Settled == \A l \in Seq(Entry) : \A i \in 1..Len(l) : Chosen(l, i) => Keeps(l, i)

\* The commit index rises, and the log stays as it is up to it.
CommittedKept == \A p \in Peer : commit[p] <= commit'[p] /\ Agree(log'[p], log[p], commit[p])

LEMMA ChosenKept ==
  ASSUME NEW l \in Seq(Entry), NEW m, NEW i \in 1..Len(l), Agree(m, l, i), Chosen(l, i), Keeps(l, i),
         \A q \in Peer : term[q] \in Nat /\ term'[q] \in Nat /\ term[q] <= term'[q]
  PROVE  Chosen(m, i)'
<1>1. Len(l) \in Nat /\ l[i].term \in Nat
  BY EntryOf
<1>2. m[i] = l[i]
  BY <1>1 DEF Agree
<1>3. \A k : Agree(k, l, i) => Agree(k, m, i)
  BY DEF Agree
<1> DEFINE M == {q \in Peer : term[q] >= l[i].term /\ Agree(log[q], l, i)}
           N == {q \in Peer : term'[q] >= l[i].term /\ Agree(log'[q], m, i)}
<1>4. Majority(N)
  <2>1. M \subseteq N
    BY <1>1, <1>3 DEF Keeps
  <2>2. M \in SUBSET Peer /\ N \in SUBSET Peer /\ Majority(M)
    BY DEF Chosen
  <2> HIDE DEF M, N
  <2> QED  BY <2>1, <2>2, MajorityGrows
<1>5. ASSUME NEW r \in Peer, Follows(r, l[i].term)'  PROVE Agree(log'[r], m, i)
  <2>1. Follows(r, l[i].term) => Agree(log[r], l, i)
    BY DEF Chosen
  <2>2. Agree(log'[r], l, i)
    BY <1>5, <2>1 DEF Keeps
  <2> QED  BY <1>3, <2>2
<1> HIDE DEF M
<1> QED  BY <1>2, <1>4, <1>5 DEF Chosen

LEMMA CommitKept ==
  ASSUME TypeOK, TypeOK', CommitInv, Settled,
         \A p \in Peer : term[p] <= term'[p] /\ applied'[p] <= commit'[p] /\ commit[p] <= commit'[p],
         \A p \in Peer : \/ commit'[p] = commit[p]
                         \/ \E l \in Seq(Entry) : \E i \in 1..Len(l) :
                              Chosen(l, i) /\ commit'[p] = i /\ Agree(log'[p], l, i)
  PROVE  CommitInv' /\ CommittedKept
<1>1. \A p \in Peer : term[p] \in Nat /\ term'[p] \in Nat /\ term[p] <= term'[p]
                      /\ commit[p] \in Nat /\ commit'[p] \in Nat
                      /\ log[p] \in Seq(Entry) /\ log'[p] \in Seq(Entry)
                      /\ Len(log[p]) \in Nat /\ Len(log'[p]) \in Nat
  <2>1. \A p \in Peer : log[p] \in Seq(Entry) /\ log'[p] \in Seq(Entry)
    BY DEF TypeOK
  <2> QED  BY <2>1, LenProperties DEF TypeOK
<1>2. ASSUME NEW p \in Peer, commit[p] > 0
      PROVE  \E l \in Seq(Entry) : \E i \in 1..Len(l) :
               l = log[p] /\ Chosen(l, i) /\ commit[p] = i /\ Agree(log'[p], l, i)
  <2>1. commit[p] \in 1..Len(log[p]) /\ Chosen(log[p], commit[p])
    BY <1>1, <1>2 DEF CommitInv
  <2>2. Agree(log[p], log[p], commit[p])
    BY <1>1, <2>1 DEF Agree
  <2>3. Agree(log'[p], log[p], commit[p])
    BY <1>1, <2>1, <2>2 DEF Settled, Keeps
  <2> QED  BY <1>1, <2>1, <2>3
<1>3. ASSUME NEW p \in Peer, commit'[p] > 0
      PROVE  /\ commit'[p] <= Len(log'[p])
             /\ Chosen(log[p], commit[p])'
  <2>0. \E l \in Seq(Entry) : \E i \in 1..Len(l) :
               Chosen(l, i) /\ commit'[p] = i /\ Agree(log'[p], l, i)
    BY <1>2, <1>3
  <2>1. PICK l \in Seq(Entry) : \E i \in 1..Len(l) :
               Chosen(l, i) /\ commit'[p] = i /\ Agree(log'[p], l, i)
    BY <2>0
  <2>7. PICK i \in 1..Len(l) : Chosen(l, i) /\ commit'[p] = i /\ Agree(log'[p], l, i)
    BY <2>1
  <2>2. PICK m : m = log'[p]
    OBVIOUS
  <2>3. Keeps(l, i)
    BY <2>7 DEF Settled
  <2>4. Agree(m, l, i)
    BY <2>7, <2>2
  <2>5. Chosen(m, i)'
    BY <1>1, <2>7, <2>3, <2>4, ChosenKept
  <2>6. Chosen(log[p], commit[p])'
    BY <2>7, <2>2, <2>5 DEF Chosen
  <2> QED  BY <2>7, <2>6 DEF Agree
<1>4. CommitInv'
  <2> SUFFICES ASSUME NEW p \in Peer
               PROVE  /\ applied'[p] <= commit'[p] /\ commit'[p] <= Len(log'[p])
                      /\ commit'[p] > 0 => Chosen(log[p], commit[p])'
    BY DEF CommitInv
  <2>1. CASE commit'[p] > 0
    BY <1>3, <2>1
  <2>2. CASE ~ (commit'[p] > 0)
    <3>1. commit'[p] = 0
      BY <1>1, <2>2
    <3> QED  BY <1>1, <2>2, <3>1
  <2> QED  BY <2>1, <2>2
<1>5. CommittedKept
  <2> SUFFICES ASSUME NEW p \in Peer  PROVE Agree(log'[p], log[p], commit[p])
    BY DEF CommittedKept
  <2>1. CASE commit[p] > 0
    BY <1>2, <2>1
  <2>2. CASE ~ (commit[p] > 0)
    <3>1. commit[p] = 0
      BY <1>1, <2>2
    <3> QED  BY <1>1, <3>1 DEF Agree
  <2> QED  BY <2>1, <2>2
<1> QED  BY <1>4, <1>5

\* Nothing happens to the logs and to who leads.
LEMMA StillSettled ==
  ASSUME UNCHANGED <<term, leads, log, writing>>
  PROVE  Settled
<1>1. full' = full
  BY DEF full
<1>2. \A r \in Peer : \A t : Follows(r, t)' = Follows(r, t)
  BY <1>1 DEF Follows
<1> QED  BY <1>2 DEF Settled, Keeps

LEMMA QuietCommit ==
  ASSUME TypeOK, TypeOK', CommitInv, Quiet
  PROVE  CommitInv' /\ CommittedKept
<1>1. UNCHANGED <<term, leads, log, writing, commit, applied>>
  BY DEF Quiet
<1>2. Settled
  BY <1>1, StillSettled
<1>3. \A p \in Peer : term[p] \in Nat /\ commit[p] \in Nat
  BY DEF TypeOK
<1>4. \A p \in Peer : term[p] <= term'[p] /\ applied'[p] <= commit'[p] /\ commit[p] <= commit'[p]
  BY <1>1, <1>3 DEF CommitInv
<1> QED  BY <1>1, <1>2, <1>4, CommitKept

LEMMA ResolveCommit ==
  ASSUME TypeOK, CommitInv, NEW p \in Peer, Resolve(p)
  PROVE  CommitInv' /\ CommittedKept
<1>1. UNCHANGED <<term, leads, log, writing, commit, applied>>
  BY ResolveFacts
<1>2. Settled
  BY <1>1, StillSettled
<1>3. \A q \in Peer : term[q] \in Nat /\ commit[q] \in Nat
  BY DEF TypeOK
<1>4. \A q \in Peer : term[q] <= term'[q] /\ applied'[q] <= commit'[q] /\ commit[q] <= commit'[q]
  BY <1>1, <1>3 DEF CommitInv
<1>5. TypeOK'
  BY ResolveType
<1> QED  BY <1>1, <1>2, <1>4, <1>5, CommitKept

LEMMA ApplyCommit ==
  ASSUME TypeOK, CommitInv, NEW p \in Peer, Apply(p)
  PROVE  CommitInv' /\ CommittedKept
<1>1. UNCHANGED <<term, leads, log, writing, commit>> /\ applied' = [applied EXCEPT ![p] = commit[p]]
  BY DEF Apply
<1>2. Settled
  BY <1>1, StillSettled
<1>3. \A q \in Peer : term[q] \in Nat /\ commit[q] \in Nat
  BY DEF TypeOK
<1>4. \A q \in Peer : applied'[q] <= commit[q]
  BY <1>1, <1>3 DEF CommitInv, TypeOK
<1>5. \A q \in Peer : term[q] <= term'[q] /\ applied'[q] <= commit'[q] /\ commit[q] <= commit'[q]
  BY <1>1, <1>3, <1>4
<1>6. TypeOK'
  BY ApplyType
<1> QED  BY <1>1, <1>2, <1>5, <1>6, CommitKept

LEMMA WriteCommit ==
  ASSUME TypeOK, CommitInv, NEW p \in Peer, Write(p)
  PROVE  CommitInv' /\ CommittedKept
<1>1. UNCHANGED <<term, leads, commit, applied>> /\ log' = [log EXCEPT ![p] = @ \o writing[p]]
      /\ full' = full
  BY WriteFacts
<1>2. \A q \in Peer : /\ log[q] \in Seq(Entry) /\ Len(log[q]) \in Nat
                      /\ term[q] \in Nat /\ commit[q] \in Nat
  BY FullOf DEF TypeOK
<1>3. \A q \in Peer : /\ Len(log'[q]) \in Nat /\ Len(log[q]) <= Len(log'[q])
                      /\ \A k \in 1..Len(log[q]) : log'[q][k] = log[q][k]
  <2>1. log'[p] = full[p] /\ \A q \in Peer : q # p => log'[q] = log[q]
    BY <1>1 DEF TypeOK, full
  <2>2. /\ Len(full[p]) \in Nat /\ Len(log[p]) <= Len(full[p])
        /\ \A k \in 1..Len(log[p]) : full[p][k] = log[p][k]
    BY FullOf
  <2> QED  BY <1>2, <2>1, <2>2
<1>4. Settled
  <2> SUFFICES ASSUME NEW l \in Seq(Entry), NEW i \in 1..Len(l)  PROVE Keeps(l, i)
    BY DEF Settled
  <2>1. Len(l) \in Nat
    BY LenProperties
  <2>2. \A r \in Peer : Follows(r, l[i].term)' => Follows(r, l[i].term)
    BY <1>1 DEF Follows
  <2>3. ASSUME NEW q \in Peer, Agree(log[q], l, i)  PROVE Agree(log'[q], l, i)
    <3>1. i <= Len(log[q]) /\ i <= Len(l) /\ \A k \in 1..i : log[q][k] = l[k]
      BY <2>3 DEF Agree
    <3>2. \A k \in 1..i : k \in 1..Len(log[q])
      BY <1>2, <2>1, <3>1
    <3>3. i <= Len(log'[q])
      BY <1>2, <1>3, <2>1, <3>1
    <3> QED  BY <1>3, <3>1, <3>2, <3>3 DEF Agree
  <2> QED  BY <2>2, <2>3 DEF Keeps
<1>5. \A q \in Peer : term[q] <= term'[q] /\ applied'[q] <= commit'[q] /\ commit[q] <= commit'[q]
  BY <1>1, <1>2 DEF CommitInv
<1>6. TypeOK'
  BY WriteType
<1> QED  BY <1>1, <1>4, <1>5, <1>6, CommitKept

LEMMA RequestUpdateCommit ==
  ASSUME TypeOK, CommitInv, NEW m \in asks, RequestUpdate(m)
  PROVE  CommitInv' /\ CommittedKept
<1>1. /\ UNCHANGED <<term, log, leads, commit, applied>> /\ m.to \in Peer /\ m.id \in Id
      /\ \/ UNCHANGED writing
         \/ leads[m.to] /\ writing' = [writing EXCEPT ![m.to] = Append(@, Mine(m.to, m.id))]
  BY RequestUpdateFacts DEF Entered
<1>2. Settled
  <2>1. CASE UNCHANGED writing
    BY <1>1, <2>1, StillSettled
  <2>2. CASE leads[m.to] /\ writing' = [writing EXCEPT ![m.to] = Append(@, Mine(m.to, m.id))]
    <3>0. Mine(m.to, m.id) \in Entry /\ Mine(m.to, m.id).term = term[m.to] /\ term[m.to] \in Nat
      BY <1>1 DEF Mine, Entry, TypeOK
    <3>1. PICK p \in Peer, e \in Entry : p = m.to /\ e = Mine(m.to, m.id)
      BY <1>1, <3>0
    <3>2. e \in Entry /\ e.term = term[p] /\ term[p] \in Nat
      BY <3>0, <3>1
    <3>3. /\ writing \in [Peer -> Seq(Entry)] /\ log[p] \in Seq(Entry) /\ writing[p] \in Seq(Entry)
          /\ full[p] \in Seq(Entry) /\ Len(full[p]) \in Nat
      BY FullOf DEF TypeOK
    <3>4. /\ writing'[p] = Append(writing[p], e)
          /\ \A q \in Peer : q # p => writing'[q] = writing[q]
      BY <2>2, <3>1, <3>3
    <3>5. full'[p] = Append(full[p], e) /\ \A q \in Peer : q # p => full'[q] = full[q]
      <4>1. \A q \in Peer : full[q] = log[q] \o writing[q] /\ full'[q] = log[q] \o writing'[q]
        BY <1>1 DEF full
      <4>2. log[p] \o Append(writing[p], e) = Append(log[p] \o writing[p], e)
        BY <3>2, <3>3, JoinedAppend
      <4> QED  BY <3>4, <4>1, <4>2
    <3>6. /\ Len(full'[p]) = Len(full[p]) + 1 /\ full'[p][Len(full[p]) + 1] = e
          /\ \A i \in 1..Len(full[p]) : full'[p][i] = full[p][i]
      BY <3>2, <3>3, <3>5, Longer
    <3>7. ASSUME NEW r \in Peer, NEW t \in Nat, Follows(r, t)'  PROVE Follows(r, t)
      <4>1. CASE leads'[r] /\ term'[r] >= t
        BY <1>1, <4>1 DEF Follows
      <4>2. CASE \E j \in 1..Len(full'[r]) : full'[r][j].term > t
        <5>1. PICK j \in 1..Len(full'[r]) : full'[r][j].term > t
          BY <4>2
        <5>2. CASE r # p
          BY <3>5, <5>1, <5>2 DEF Follows
        <5>3. CASE r = p /\ j \in 1..Len(full[p])
          BY <3>6, <5>1, <5>3 DEF Follows
        <5>4. CASE r = p /\ j \notin 1..Len(full[p])
          <6>1. j = Len(full[p]) + 1
            BY <3>3, <3>6, <5>1, <5>4
          <6>2. term[p] > t
            BY <3>2, <3>6, <5>1, <5>4, <6>1
          <6> QED  BY <2>2, <3>1, <3>2, <5>4, <6>2 DEF Follows
        <5> QED  BY <5>2, <5>3, <5>4
      <4> QED  BY <3>7, <4>1, <4>2 DEF Follows
    <3>8. \A l \in Seq(Entry) : \A i \in 1..Len(l) : l[i].term \in Nat
      BY EntryOf
    <3> QED  BY <1>1, <3>7, <3>8 DEF Settled, Keeps
  <2> QED  BY <1>1, <2>1, <2>2
<1>3. \A q \in Peer : term[q] \in Nat /\ commit[q] \in Nat
  BY DEF TypeOK
<1>4. \A q \in Peer : term[q] <= term'[q] /\ applied'[q] <= commit'[q] /\ commit[q] <= commit'[q]
  BY <1>1, <1>3 DEF CommitInv
<1>5. TypeOK'
  BY RequestUpdateType
<1> QED  BY <1>1, <1>2, <1>4, <1>5, CommitKept

LEMMA LastTermIs ==
  ASSUME NEW l \in Seq(Entry), l # <<>>
  PROVE  Len(l) \in 1..Len(l) /\ LastTerm(l) = l[Len(l)].term
<1>1. Len(l) \in Nat /\ Len(l) # 0
  BY EmptySeq, LenProperties
<1> QED  BY <1>1 DEF LastTerm, Last

\* Who is elected has what is on a majority.
LEMMA ElectedHas ==
  ASSUME TypeOK, LogInv, NEW p \in Peer, NEW Q \in Voters, \A q \in Q : UpToDate(p, q),
         NEW l \in Seq(Entry), NEW i \in 1..Len(l), Chosen(l, i)
  PROVE  Agree(log[p], l, i)
<1> DEFINE t == l[i].term
           M == {q \in Peer : term[q] >= t /\ Agree(log[q], l, i)}
<1>1. t \in Nat \ {0} /\ i \in Nat /\ 1 <= i /\ Len(l) \in Nat
  BY EntryOf
<1> HIDE DEF t
<1>2. PICK q \in Q : q \in M
  <2>1. M \in SUBSET Peer /\ Majority(M)
    BY DEF Chosen, t
  <2> HIDE DEF M
  <2> QED  BY <2>1, Quorum
<1>3. q \in Peer /\ Agree(log[q], l, i)
  BY <1>2
<1>4. Follows(p, t) => Agree(log[p], l, i)
  BY DEF Chosen, t
<1>5. /\ log[p] \in Seq(Entry) /\ Len(log[p]) \in Nat /\ Len(full[p]) \in Nat
      /\ log[q] \in Seq(Entry) /\ Len(log[q]) \in Nat /\ Len(full[q]) \in Nat
      /\ \A k \in 1..Len(log[p]) : k \in 1..Len(full[p]) /\ full[p][k] = log[p][k]
      /\ \A k \in 1..Len(log[q]) : k \in 1..Len(full[q]) /\ full[q][k] = log[q][k]
      /\ \A k \in 1..Len(full[p]) : full[p][k].term \in Nat
      /\ \A k \in 1..Len(full[q]) : full[q][k].term \in Nat
  BY <1>3, FullOf
<1>6. i \in 1..Len(log[q]) /\ log[q][i] = l[i]
  BY <1>1, <1>3, <1>5 DEF Agree
<1>7. log[q] # <<>>
  <2>1. Len(log[q]) # 0
    BY <1>1, <1>5, <1>6
  <2> QED  BY <2>1
<1>8. /\ Len(log[q]) \in 1..Len(log[q])
      /\ LastTerm(log[q]) = log[q][Len(log[q])].term /\ LastTerm(log[q]) \in Nat
  BY <1>5, <1>7, LastTermIs
<1>9. t <= LastTerm(log[q])
  <2>1. i \in 1..Len(full[q]) /\ Len(log[q]) \in 1..Len(full[q]) /\ i <= Len(log[q])
    BY <1>5, <1>6, <1>8
  <2>2. full[q][i].term <= full[q][Len(log[q])].term
    BY <1>3, <2>1 DEF LogInv, InTerms
  <2>3. full[q][i].term = t /\ full[q][Len(log[q])].term = LastTerm(log[q])
    BY <1>5, <1>6, <1>8 DEF t
  <2> QED  BY <2>2, <2>3
<1>10. \/ LastTerm(log[p]) > LastTerm(log[q])
       \/ LastTerm(log[p]) = LastTerm(log[q]) /\ Len(log[p]) >= Len(log[q])
  BY <1>2 DEF UpToDate
<1>11. log[p] # <<>>
  <2> SUFFICES ASSUME log[p] = <<>>  PROVE FALSE
    OBVIOUS
  <2>1. LastTerm(log[p]) = 0 /\ Len(log[p]) = 0
    BY DEF LastTerm
  <2> QED  BY <1>5, <1>6, <1>8, <1>10, <2>1
<1>12. /\ Len(log[p]) \in 1..Len(log[p])
       /\ LastTerm(log[p]) = log[p][Len(log[p])].term /\ LastTerm(log[p]) \in Nat
  BY <1>5, <1>11, LastTermIs
<1>13. CASE LastTerm(log[p]) > t
  <2>1. full[p][Len(log[p])].term > t /\ Len(log[p]) \in 1..Len(full[p])
    BY <1>5, <1>12, <1>13
  <2>2. Follows(p, t)
    BY <2>1 DEF Follows
  <2> QED  BY <1>4, <2>2
<1>14. CASE ~ (LastTerm(log[p]) > t)
  <2>1. LastTerm(log[p]) = t /\ Len(log[p]) >= Len(log[q])
    BY <1>1, <1>8, <1>9, <1>10, <1>12, <1>14
  <2>2. Len(log[p]) \in 1..Len(full[p]) /\ i \in 1..Len(full[q]) /\ i <= Len(log[p])
    BY <1>5, <1>6, <1>12, <2>1
  <2>3. full[p][Len(log[p])].term = full[q][i].term
    BY <1>5, <1>6, <1>12, <2>1 DEF t
  <2>4. Agree(full[p], full[q], i)
    BY <1>3, <2>2, <2>3 DEF LogInv, LogsMatch, Matches
  <2>5. \A k \in 1..i : k \in 1..Len(log[p]) /\ k \in 1..Len(log[q])
    BY <1>5, <1>6, <2>2
  <2>6. \A k \in 1..i : log[p][k] = l[k]
    BY <1>3, <1>5, <2>4, <2>5 DEF Agree
  <2>7. i <= Len(l)
    BY <1>1
  <2> QED  BY <2>2, <2>6, <2>7 DEF Agree
<1> QED  BY <1>13, <1>14

LEMMA StandCommit ==
  ASSUME TypeOK, LogInv, CommitInv, NEW p \in Peer, NEW Q \in Voters, NEW el \in BOOLEAN, Stand(p, Q, el)
  PROVE  CommitInv' /\ CommittedKept
<1>1. PICK t \in Nat \ {0} :
           /\ \A q \in Q : term[q] < t /\ term'[q] = t
           /\ \A q \in Peer \ Q : term'[q] = term[q] /\ leads'[q] = leads[q]
           /\ \A q \in Q : leads'[q] = (q = p /\ el)
           /\ \/ writing' = writing
              \/ el /\ writing' = [writing EXCEPT ![p] = Append(@, [id |-> None, term |-> t])]
  BY StandFacts
<1>2. /\ UNCHANGED <<log, commit, applied>> /\ Q \in SUBSET Peer /\ p \in Q
      /\ el => \A q \in Q : UpToDate(p, q)
  BY DEF Stand, Voters
<1>3. TypeOK'
  BY StandType
<1>4. \A q \in Peer : term[q] \in Nat /\ term'[q] \in Nat /\ commit[q] \in Nat
  BY <1>3 DEF TypeOK
<1>5. \A q \in Peer : q # p \/ ~el => full'[q] = full[q]
  <2>1. \A q \in Peer : full[q] = log[q] \o writing[q] /\ full'[q] = log[q] \o writing'[q]
    BY <1>2 DEF full
  <2>2. \A q \in Peer : q # p \/ ~el => writing'[q] = writing[q]
    BY <1>1 DEF TypeOK
  <2> QED  BY <2>1, <2>2
<1>6. Settled
  <2> SUFFICES ASSUME NEW l \in Seq(Entry), NEW i \in 1..Len(l), Chosen(l, i)  PROVE Keeps(l, i)
    BY DEF Settled
  <2>1. ASSUME NEW r \in Peer, Follows(r, l[i].term)', r # p \/ ~el
        PROVE  Follows(r, l[i].term)
    <3>1. full'[r] = full[r]
      BY <1>5, <2>1
    <3>2. leads'[r] => r \notin Q
      BY <1>1, <2>1
    <3>3. leads'[r] => leads[r] /\ term'[r] = term[r]
      BY <1>1, <3>2
    <3> QED  BY <2>1, <3>1, <3>3 DEF Follows
  <2>2. el => Agree(log[p], l, i)
    BY <1>2, ElectedHas
  <2> QED  BY <1>2, <2>1, <2>2 DEF Keeps
<1>7. \A q \in Peer : term[q] <= term'[q] /\ applied'[q] <= commit'[q] /\ commit[q] <= commit'[q]
  <2>1. ASSUME NEW q \in Peer  PROVE term[q] <= term'[q]
    <3>1. CASE q \in Q
      BY <1>1, <1>4, <3>1
    <3>2. CASE q \notin Q
      BY <1>1, <1>4, <3>2
    <3> QED  BY <3>1, <3>2
  <2>2. \A q \in Peer : applied'[q] <= commit'[q] /\ commit[q] <= commit'[q]
    BY <1>2, <1>4 DEF CommitInv
  <2> QED  BY <2>1, <2>2
<1> QED  BY <1>2, <1>3, <1>6, <1>7, CommitKept

\* The log of a follower is its old one or that of its leader, whole.
LEMMA GivenLog ==
  ASSUME TypeOK, NEW p \in Peer, NEW q \in Peer, Replicate(p, q)
  PROVE  /\ \A r \in Peer : r # q => log'[r] = log[r] /\ full'[r] = full[r]
         /\ \/ log'[q] = log[q] /\ full'[q] = full[q]
            \/ log'[q] = log[p] /\ full'[q] = log[p]
         /\ Len(log[p]) <= Len(log'[q]) /\ \A k \in 1..Len(log[p]) : log'[q][k] = log[p][k]
<1>1. Given(p, q) /\ writing' = writing /\ writing[q] = <<>>
  BY ReplicateGives, ReplicateFacts
<1>2. \A r \in Peer : full[r] = log[r] \o writing[r] /\ full'[r] = log'[r] \o writing[r]
  BY <1>1 DEF full
<1>3. log \in [Peer -> Seq(Entry)] /\ Len(log[p]) \in Nat
  BY LenProperties DEF TypeOK
<1>4. CASE log' = log /\ Len(log[q]) >= Len(log[p]) /\ \A k \in 1..Len(log[p]) : log[q][k] = log[p][k]
  <2>1. \A r \in Peer : full'[r] = full[r]
    BY <1>2, <1>4
  <2>2. Len(log[q]) \in Nat
    BY <1>3, LenProperties
  <2> QED  BY <1>3, <1>4, <2>1, <2>2
<1>5. CASE log' = [log EXCEPT ![q] = log[p]]
  <2>1. log'[q] = log[p] /\ \A r \in Peer : r # q => log'[r] = log[r]
    BY <1>3, <1>5
  <2>2. log[p] \o <<>> = log[p]
    BY <1>3, ConcatEmptySeq
  <2>3. full'[q] = log[p] /\ \A r \in Peer : r # q => full'[r] = full[r]
    BY <1>1, <1>2, <2>1, <2>2
  <2> QED  BY <1>3, <2>1, <2>3
<1> QED  BY <1>1, <1>4, <1>5 DEF Given

LEMMA ReplicateCommit ==
  ASSUME TypeOK, LogInv, CommitInv, NEW p \in Peer, NEW q \in Peer, Replicate(p, q)
  PROVE  CommitInv' /\ CommittedKept
<1>0. TypeOK'
  BY ReplicateType
<1>1. /\ leads[p] /\ q # p /\ term[q] <= term[p]
      /\ term' = [term EXCEPT ![q] = term[p]] /\ leads' = [leads EXCEPT ![q] = FALSE]
      /\ applied' = applied
      /\ \A r \in Peer \ {q} : commit'[r] = commit[r]
      /\ commit[p] <= Len(log[p]) =>
              commit'[q] = IF commit[q] >= commit[p] THEN commit[q] ELSE commit[p]
  BY ReplicateFacts
<1>2. /\ \A r \in Peer : r # q => log'[r] = log[r] /\ full'[r] = full[r]
      /\ \/ log'[q] = log[q] /\ full'[q] = full[q]
         \/ log'[q] = log[p] /\ full'[q] = log[p]
      /\ Len(log[p]) <= Len(log'[q]) /\ \A k \in 1..Len(log[p]) : log'[q][k] = log[p][k]
  BY GivenLog
<1>3. \A r \in Peer : /\ term[r] \in Nat /\ term'[r] \in Nat /\ term[r] <= term'[r]
                      /\ r # q => term'[r] = term[r] /\ leads'[r] = leads[r]
  <2>1. term \in [Peer -> Nat] /\ term' \in [Peer -> Nat] /\ leads \in [Peer -> BOOLEAN]
    BY <1>0 DEF TypeOK
  <2>2. term'[q] = term[p] /\ \A r \in Peer : r # q => term'[r] = term[r] /\ leads'[r] = leads[r]
    BY <1>1, <2>1
  <2>3. \A r \in Peer : term[r] \in Nat /\ term'[r] \in Nat
    BY <2>1
  <2>4. \A r \in Peer : term[r] <= term'[r]
    BY <1>1, <2>2, <2>3
  <2> QED  BY <2>2, <2>3, <2>4
<1>4. ~leads'[q]
  BY <1>1 DEF TypeOK
<1>5. \A r \in Peer : /\ Len(log[r]) \in Nat /\ Len(full[r]) \in Nat
                      /\ \A k \in 1..Len(log[r]) : k \in 1..Len(full[r]) /\ full[r][k] = log[r][k]
                      /\ \A k \in 1..Len(full[r]) : full[r][k].term \in Nat
  BY FullOf
<1>6. Settled
  <2> SUFFICES ASSUME NEW l \in Seq(Entry), NEW i \in 1..Len(l), Chosen(l, i)  PROVE Keeps(l, i)
    BY DEF Settled
  <2>1. Len(l) \in Nat /\ l[i].term \in Nat /\ i \in Nat /\ 1 <= i
    BY EntryOf
  <2>2. Follows(p, l[i].term) => Agree(log[p], l, i)
    BY DEF Chosen
  <2>3. ASSUME NEW r \in Peer, Agree(log[r], l, i)  PROVE Agree(log'[r], l, i)
    <3>1. CASE log'[r] = log[r]
      BY <2>3, <3>1
    <3>2. CASE r = q /\ log'[q] = log[p]
      <4>1. i \in 1..Len(log[q]) /\ log[q][i] = l[i]
        BY <1>5, <2>1, <2>3, <3>2 DEF Agree
      <4>2. i \in 1..Len(full[q]) /\ full[q][i] = l[i]
        BY <1>5, <4>1
      <4>3. l[i].term <= term[q]
        BY <4>2 DEF LogInv, TermsInv
      <4>4. Follows(p, l[i].term)
        <5>1. term[p] >= l[i].term
          <6>1. term[q] \in Nat /\ term[p] \in Nat /\ l[i].term \in Nat
            BY <1>3, <2>1
          <6>2. l[i].term <= term[q] /\ term[q] <= term[p]
            BY <1>1, <4>3
          <6> HIDE DEF full
          <6> QED  BY ONLY <6>1, <6>2
        <5> QED  BY <1>1, <5>1 DEF Follows
      <4> QED  BY <2>2, <3>2, <4>4
    <3> QED  BY <1>2, <3>1, <3>2
  <2>4. ASSUME NEW r \in Peer, Follows(r, l[i].term)'
        PROVE  Follows(r, l[i].term) \/ Agree(log'[r], l, i)
    <3>1. CASE r # q
      BY <1>2, <1>3, <2>4, <3>1 DEF Follows
    <3>2. CASE r = q
      <4>1. PICK j \in 1..Len(full'[q]) : full'[q][j].term > l[i].term
        BY <1>4, <2>4, <3>2 DEF Follows
      <4>2. CASE full'[q] = full[q]
        BY <3>2, <4>1, <4>2 DEF Follows
      <4>3. CASE log'[q] = log[p] /\ full'[q] = log[p]
        <5>1. j \in 1..Len(full[p]) /\ full[p][j].term > l[i].term
          BY <1>5, <4>1, <4>3
        <5>2. Follows(p, l[i].term)
          BY <5>1 DEF Follows
        <5> QED  BY <2>2, <3>2, <4>3, <5>2
      <4> QED  BY <1>2, <4>2, <4>3
    <3> QED  BY <3>1, <3>2
  <2> QED  BY <2>3, <2>4 DEF Keeps
<1>7. \A r \in Peer : /\ commit[r] \in Nat /\ applied[r] \in Nat /\ applied[r] <= commit[r]
                      /\ commit[r] <= Len(log[r])
  BY DEF TypeOK, CommitInv
<1>8. \A r \in Peer : commit[r] <= commit'[r]
  <2>1. commit[q] <= commit'[q]
    BY <1>1, <1>7
  <2>2. \A r \in Peer : r # q => commit'[r] = commit[r]
    BY <1>1
  <2> QED  BY <1>7, <2>1, <2>2
<1>9. \A r \in Peer : term[r] <= term'[r] /\ applied'[r] <= commit'[r] /\ commit[r] <= commit'[r]
  <2>1. \A r \in Peer : commit'[r] \in Nat
    BY <1>0 DEF TypeOK
  <2>2. ASSUME NEW r \in Peer  PROVE applied'[r] <= commit'[r]
    BY <1>1, <1>7, <1>8, <2>1
  <2> QED  BY <1>3, <1>8, <2>2
<1>10. ASSUME NEW r \in Peer, commit'[r] # commit[r]
       PROVE  \E l \in Seq(Entry) : \E i \in 1..Len(l) :
                Chosen(l, i) /\ commit'[r] = i /\ Agree(log'[r], l, i)
  <2>1. r = q
    BY <1>1, <1>10
  <2>2. commit'[r] = commit[p] /\ commit[p] > 0
    BY <1>1, <1>7, <1>10, <2>1
  <2>3. log[p] \in Seq(Entry) /\ commit[p] \in 1..Len(log[p]) /\ Chosen(log[p], commit[p])
    <3>1. log[p] \in Seq(Entry)
      BY DEF TypeOK
    <3>2. Len(log[p]) \in Nat
      BY <3>1, LenProperties
    <3>3. commit[p] \in 1..Len(log[p])
      BY <1>7, <2>2, <3>2
    <3>4. Chosen(log[p], commit[p])
      BY <2>2 DEF CommitInv
    <3> QED  BY <3>1, <3>3, <3>4
  <2>4. Len(log'[q]) \in Nat
    BY <1>0, LenProperties DEF TypeOK
  <2>5. commit[p] <= Len(log'[q]) /\ \A k \in 1..commit[p] : k \in 1..Len(log[p])
    BY <1>2, <1>5, <1>7, <2>4
  <2>6. Agree(log'[q], log[p], commit[p])
    BY <1>2, <1>7, <2>5 DEF Agree
  <2> QED  BY <2>1, <2>2, <2>3, <2>6
<1> QED  BY <1>0, <1>6, <1>9, <1>10, CommitKept

\* No later term has a leader or an entry, when a majority is in a term.
LEMMA NoLater ==
  ASSUME TypeOK, NEW t \in Nat, NEW u \in Nat, Majority({q \in Peer : term[q] = t}), Held(term, u)
  PROVE  u <= t
<1> DEFINE M == {q \in Peer : term[q] = t}
           N == {q \in Peer : term[q] >= u}
<1>1. PICK q \in M : q \in N
  <2>1. M \in SUBSET Peer /\ N \in SUBSET Peer /\ Majority(M) /\ Majority(N)
    BY DEF Held
  <2> HIDE DEF M, N
  <2> QED  BY <2>1, Majorities
<1> QED  BY <1>1

LEMMA CommitChosen ==
  ASSUME TypeOK, LogInv, CommitInv, NEW p \in Peer, NEW i \in 1..Len(log[p]), Commit(p, i)
  PROVE  Chosen(log[p], i)
<1>1. leads[p] /\ log[p][i].term = term[p] /\ Majority({q \in Peer : Has(q, p, i)})
  BY DEF Commit
<1>2. term[p] \in Nat /\ i \in Nat /\ 1 <= i /\ i <= Len(log[p]) /\ Len(log[p]) \in Nat
  BY LenProperties DEF TypeOK
<1>3. \A r \in Peer : /\ Len(log[r]) \in Nat /\ Len(full[r]) \in Nat
                      /\ \A k \in 1..Len(log[r]) : k \in 1..Len(full[r]) /\ full[r][k] = log[r][k]
                      /\ \A k \in 1..Len(full[r]) : full[r][k].term \in Nat
                      /\ term[r] \in Nat
  BY FullOf DEF TypeOK
<1>4. ASSUME NEW q \in Peer, Has(q, p, i)  PROVE term[q] >= term[p] /\ Agree(log[q], log[p], i)
  <2>1. term[q] = term[p] /\ i \in 1..Len(log[q]) /\ log[q][i] = log[p][i]
    BY <1>2, <1>3, <1>4 DEF Has
  <2>2. i \in 1..Len(full[q]) /\ i \in 1..Len(full[p]) /\ full[q][i].term = full[p][i].term
    BY <1>3, <2>1
  <2>3. Agree(full[q], full[p], i)
    BY <1>2, <2>2 DEF LogInv, LogsMatch, Matches
  <2>4. \A k \in 1..i : k \in 1..Len(log[q]) /\ k \in 1..Len(log[p])
    BY <1>2, <1>3, <2>1
  <2>5. \A k \in 1..i : log[q][k] = log[p][k]
    BY <1>3, <2>3, <2>4 DEF Agree
  <2>6. i <= Len(log[q]) /\ i <= Len(log[p])
    BY <1>2, <1>3, <2>1
  <2>7. Agree(log[q], log[p], i)
    BY <2>5, <2>6 DEF Agree
  <2> QED  BY <1>3, <2>1, <2>7
<1>5. Majority({q \in Peer : term[q] >= term[p] /\ Agree(log[q], log[p], i)})
  <2> DEFINE M == {q \in Peer : Has(q, p, i)}
             N == {q \in Peer : term[q] >= term[p] /\ Agree(log[q], log[p], i)}
  <2>1. M \subseteq N /\ M \in SUBSET Peer /\ N \in SUBSET Peer
    BY <1>4
  <2>2. Majority(M)
    BY <1>1
  <2> HIDE DEF M, N
  <2>3. Majority(N)
    BY <2>1, <2>2, MajorityGrows
  <2> QED  BY <2>3 DEF N
<1>6. Majority({q \in Peer : term[q] = term[p]})
  <2> DEFINE M == {q \in Peer : Has(q, p, i)}
             N == {q \in Peer : term[q] = term[p]}
  <2>1. M \subseteq N /\ M \in SUBSET Peer /\ N \in SUBSET Peer
    BY DEF Has
  <2>2. Majority(M)
    BY <1>1
  <2> HIDE DEF M, N
  <2>3. Majority(N)
    BY <2>1, <2>2, MajorityGrows
  <2> QED  BY <2>3 DEF N
<1>7. ASSUME NEW r \in Peer, Follows(r, term[p])  PROVE Agree(log[r], log[p], i)
  <2>1. CASE leads[r] /\ term[r] >= term[p]
    <3>1. Held(term, term[r])
      BY <2>1 DEF LogInv, TermsInv
    <3>2. term[r] <= term[p]
      BY <1>3, <1>6, <3>1, NoLater
    <3>3. r = p
      BY <1>1, <1>3, <2>1, <3>2 DEF LogInv, OneLeader
    <3> QED  BY <1>2, <3>3 DEF Agree
  <2>2. CASE \E j \in 1..Len(full[r]) : full[r][j].term > term[p]
    <3>1. PICK j \in 1..Len(full[r]) : full[r][j].term > term[p]
      BY <2>2
    <3>2. Held(term, full[r][j].term) /\ full[r][j].term \in Nat
      BY <1>3 DEF LogInv, TermsInv
    <3>3. full[r][j].term <= term[p]
      BY <1>2, <1>6, <3>2, NoLater
    <3> QED  BY <1>2, <3>1, <3>2, <3>3
  <2> QED  BY <1>7, <2>1, <2>2 DEF Follows
<1> QED  BY <1>1, <1>5, <1>7 DEF Chosen

LEMMA CommitCommit ==
  ASSUME TypeOK, LogInv, CommitInv, NEW p \in Peer, NEW i \in 1..Len(log[p]), Commit(p, i)
  PROVE  CommitInv' /\ CommittedKept
<1>1. /\ UNCHANGED <<term, leads, log, writing, applied>> /\ commit' = [commit EXCEPT ![p] = i]
      /\ i \in commit[p] + 1 .. Len(log[p])
  BY DEF Commit
<1>2. Settled
  BY <1>1, StillSettled
<1>3. \A q \in Peer : term[q] \in Nat /\ commit[q] \in Nat /\ applied[q] \in Nat /\ applied[q] <= commit[q]
  BY DEF TypeOK, CommitInv
<1>4. Len(log[p]) \in Nat /\ log[p] \in Seq(Entry)
  BY LenProperties DEF TypeOK
<1>5. \A q \in Peer : commit'[q] = IF q = p THEN i ELSE commit[q]
  BY <1>1 DEF TypeOK
<1>6. \A q \in Peer : term[q] <= term'[q] /\ applied'[q] <= commit'[q] /\ commit[q] <= commit'[q]
  BY <1>1, <1>3, <1>4, <1>5
<1>7. Chosen(log[p], i) /\ Agree(log'[p], log[p], i)
  BY <1>1, <1>4, CommitChosen DEF Agree
<1>8. \A q \in Peer : \/ commit'[q] = commit[q]
                      \/ \E l \in Seq(Entry) : \E j \in 1..Len(l) :
                           Chosen(l, j) /\ commit'[q] = j /\ Agree(log'[q], l, j)
  BY <1>4, <1>5, <1>7
<1>9. TypeOK'
  BY CommitType
<1> QED  BY <1>2, <1>6, <1>8, <1>9, CommitKept

-----------------------------------------------------------------------------
(* Who waits is told: the table of the leader. *)

\* Nothing that the table of p depends on happens.
StillRight(p) ==
  /\ log'[p] = log[p] /\ rids'[p] = rids[p] /\ written'[p] = written[p]
  /\ applied'[p] = applied[p]
  /\ leads'[p] => leads[p] /\ term'[p] = term[p] /\ writing'[p] = writing[p]
  /\ \A id \in Id : Pending(p, id)' =>
       Pending(p, id) /\ leads'[p] /\ requests'[p][id].index = requests[p][id].index

LEMMA TableKept ==
  ASSUME TableInv, NEW p \in Peer, StillRight(p)
  PROVE  RidsRight(p)' /\ RequestsRight(p)' /\ WrittenRight(p)'
<1>1. RidsRight(p) /\ RequestsRight(p) /\ WrittenRight(p)
  BY DEF TableInv
<1>2. RidsRight(p)'
  BY <1>1 DEF RidsRight, StillRight
<1>3. WrittenRight(p)'
  BY <1>1 DEF WrittenRight, StillRight
<1>4. RequestsRight(p)'
  <2> SUFFICES ASSUME NEW id \in Id, Pending(p, id)'
               PROVE  /\ leads'[p]
                      /\ IF requests'[p][id].index = 0 THEN Waits(p, id)'
                         ELSE requests'[p][id].index \in applied'[p] + 1 .. Len(log'[p])
                              /\ log'[p][requests'[p][id].index].id = id
    BY DEF RequestsRight
  <2>1. Pending(p, id) /\ leads'[p] /\ requests'[p][id].index = requests[p][id].index
    BY DEF StillRight
  <2>2. Waits(p, id) => Waits(p, id)'
    BY <2>1 DEF Waits, Mine, StillRight
  <2>3. IF requests[p][id].index = 0 THEN Waits(p, id)
        ELSE requests[p][id].index \in applied[p] + 1 .. Len(log[p])
             /\ log[p][requests[p][id].index].id = id
    BY <1>1, <2>1 DEF RequestsRight
  <2> QED  BY <2>1, <2>2, <2>3 DEF StillRight
<1> QED  BY <1>2, <1>3, <1>4

\* Who steps down has told everybody.
LEMMA Cleaned ==
  ASSUME TypeOK, TableInv, NEW Q \in SUBSET Peer, StepDown(Q), NEW q \in Peer, NEW id \in Id, Pending(q, id)'
  PROVE  q \notin Q /\ requests'[q] = requests[q] /\ Pending(q, id) /\ leads[q]
<1>1. requests'[q] = IF q \in Q /\ leads[q] THEN [i \in Id |-> NoRequest] ELSE requests[q]
  BY RequestsCleared
<1>2. ~ (q \in Q /\ leads[q])
  BY <1>1 DEF Pending
<1>3. requests'[q] = requests[q] /\ Pending(q, id)
  BY <1>1, <1>2 DEF Pending
<1>4. leads[q]
  BY <1>3 DEF TableInv, RequestsRight
<1> QED  BY <1>2, <1>3, <1>4

LEMMA StandTable ==
  ASSUME TypeOK, LogInv, TableInv, NEW p \in Peer, NEW Q \in Voters, NEW el \in BOOLEAN, Stand(p, Q, el)
  PROVE  TableInv'
<1>1. PICK t \in Nat \ {0} :
           /\ \A q \in Q : term[q] < t /\ term'[q] = t
           /\ \A q \in Peer \ Q : term'[q] = term[q] /\ leads'[q] = leads[q]
           /\ \A q \in Q : leads'[q] = (q = p /\ el)
           /\ \/ writing' = writing
              \/ el /\ writing' = [writing EXCEPT ![p] = Append(@, [id |-> None, term |-> t])]
  BY StandFacts
<1>2. /\ UNCHANGED <<log, applied, written, rids>> /\ Q \in SUBSET Peer /\ p \in Q /\ StepDown(Q)
  BY DEF Stand, Voters
<1>3. ASSUME NEW q \in Peer, q \notin Q  PROVE StillRight(q)
  <2>1. writing'[q] = writing[q]
    BY <1>1, <1>2, <1>3 DEF TypeOK
  <2>2. \A id \in Id : Pending(q, id)' => Pending(q, id) /\ requests'[q] = requests[q] /\ leads[q]
    BY <1>2, Cleaned
  <2> QED  BY <1>1, <1>2, <1>3, <2>1, <2>2 DEF StillRight
<1>4. ASSUME NEW q \in Q
      PROVE  RidsRight(q)' /\ RequestsRight(q)' /\ WrittenRight(q)'
  <2>1. q \in Peer
    BY <1>2
  <2>2. RidsRight(q)'
    BY <1>2, <2>1 DEF TableInv, RidsRight
  <2>3. \A id \in Id : ~ Pending(q, id)'
    BY <1>2, <1>4, <2>1, Cleaned
  <2>4. RequestsRight(q)'
    BY <2>3 DEF RequestsRight
  <2>5. ASSUME NEW k \in 1..Len(written[q])  PROVE written[q][k].entry.term # t
    <3>1. written[q] \in Seq(Written) /\ term[q] \in Nat
      BY <2>1 DEF TypeOK
    <3>2. written[q][k] \in Written
      BY <3>1, ElementOfSeq
    <3>3. written[q][k].entry.term \in Nat /\ written[q][k].entry.term <= term[q]
      BY <2>1, <3>2 DEF Written, Entry, LogInv, TermsInv
    <3> QED  BY <1>1, <3>1, <3>3
  <2>6. WrittenRight(q)'
    BY <1>1, <1>2, <2>5 DEF WrittenRight
  <2> QED  BY <2>2, <2>4, <2>6
<1>5. \A q \in Peer : RidsRight(q)' /\ RequestsRight(q)' /\ WrittenRight(q)'
  BY <1>3, <1>4, TableKept
<1> QED  BY <1>5 DEF TableInv

LEMMA ReplicateTable ==
  ASSUME TypeOK, TableInv, NEW p \in Peer, NEW q \in Peer, Replicate(p, q)
  PROVE  TableInv'
<1>1. /\ q # p /\ term' = [term EXCEPT ![q] = term[p]] /\ leads' = [leads EXCEPT ![q] = FALSE]
      /\ UNCHANGED <<applied, writing, written>> /\ StepDown({q})
  BY ReplicateFacts
<1>2. /\ ~leads'[q] /\ \A r \in Peer : r # q => term'[r] = term[r] /\ leads'[r] = leads[r]
  BY <1>1 DEF TypeOK
<1>3. \A r \in Peer : r # q => log'[r] = log[r] /\ rids'[r] = rids[r]
  <2>1. \A r \in Peer : r # q => log'[r] = log[r]
    BY GivenLog
  <2>2. \A r \in Peer : r # q => rids'[r] = rids[r]
    <3>1. \/ rids' = rids
          \/ \E from \in Nat \ {0} :
               rids' = [rids EXCEPT ![q] = AddRids(DropRids(@, from), log[p], from)]
      BY ReplicateGives DEF Given
    <3>2. rids \in [Peer -> [Id -> Nat]]
      BY DEF TypeOK
    <3> QED  BY <3>1, <3>2
  <2> QED  BY <2>1, <2>2
<1>4. \A r \in Peer, id \in Id : Pending(r, id)' =>
        r # q /\ requests'[r] = requests[r] /\ Pending(r, id) /\ leads[r]
  <2>1. {q} \in SUBSET Peer
    OBVIOUS
  <2> QED  BY <1>1, <2>1, Cleaned
<1>5. ASSUME NEW r \in Peer, r # q  PROVE StillRight(r)
  BY <1>1, <1>2, <1>3, <1>4, <1>5 DEF StillRight
<1>6. RequestsRight(q)' /\ WrittenRight(q)'
  BY <1>2, <1>4 DEF RequestsRight, WrittenRight
<1>7. RidsRight(q)'
  <2>0. RidsRight(q)
    BY DEF TableInv
  <2>1. CASE log' = log /\ rids' = rids
    BY <2>0, <2>1 DEF RidsRight
  <2>2. CASE /\ log' = [log EXCEPT ![q] = log[p]]
             /\ \E from \in Nat \ {0} :
                  /\ \A k \in 1..Len(log[q]) : k < from => k <= Len(log[p]) /\ log[q][k] = log[p][k]
                  /\ rids' = [rids EXCEPT ![q] = AddRids(DropRids(@, from), log[p], from)]
    <3>1. PICK from \in Nat \ {0} :
            /\ \A k \in 1..Len(log[q]) : k < from => k <= Len(log[p]) /\ log[q][k] = log[p][k]
            /\ rids' = [rids EXCEPT ![q] = AddRids(DropRids(@, from), log[p], from)]
      BY <2>2
    <3>2. /\ rids[q] \in [Id -> Nat] /\ rids \in [Peer -> [Id -> Nat]]
          /\ log \in [Peer -> Seq(Entry)] /\ log[p] \in Seq(Entry)
          /\ Len(log[p]) \in Nat /\ Len(log[q]) \in Nat
      BY LenProperties DEF TypeOK
    <3> DEFINE d == DropRids(rids[q], from)
               a == AddRids(d, log[p], from)
    <3>3. d \in [Id -> Nat] /\ \A id \in Id : d[id] = IF rids[q][id] >= from THEN 0 ELSE rids[q][id]
      BY <3>2, RidsType
    <3>4. rids'[q] = a /\ log'[q] = log[p]
      BY <2>2, <3>1, <3>2
    <3>7. a = AddRids(d, log[p], from)
      OBVIOUS
    <3> HIDE DEF a, d
    <3>5. \A id \in Id : a[id] = d[id] \/ (a[id] \in from..Len(log[p]) /\ log[p][a[id]].id = id)
      <4> SUFFICES ASSUME NEW id \in Id
                   PROVE  a[id] = d[id] \/ (a[id] \in from..Len(log[p]) /\ log[p][a[id]].id = id)
        OBVIOUS
      <4>1. \/ a[id] = d[id] /\ (Forgotten \/ \A j \in from..Len(log[p]) : log[p][j].id # id)
            \/ ~Forgotten /\ a[id] \in from..Len(log[p]) /\ log[p][a[id]].id = id
        <5>1. PICK r \in [Id -> Nat] : r = d
          BY <3>3
        <5>2. PICK l \in Seq(Entry) : l = log[p]
          BY <3>2
        <5>3. PICK c : c = AddRids(r, l, from)
          OBVIOUS
        <5>4. \/ c[id] = r[id] /\ (Forgotten \/ \A j \in from..Len(l) : l[j].id # id)
              \/ ~Forgotten /\ c[id] \in from..Len(l) /\ l[c[id]].id = id
          BY <5>3, AddRidsIs
        <5>5. a = c
          BY <3>7, <5>1, <5>2, <5>3
        <5> QED  BY <5>1, <5>2, <5>4, <5>5
      <4> QED  BY <4>1
    <3>6. ASSUME NEW id \in Id, a[id] # 0  PROVE a[id] \in 1..Len(log[p]) /\ log[p][a[id]].id = id
      <4>1. CASE a[id] = d[id]
        <5>1. a[id] = rids[q][id] /\ a[id] < from /\ rids[q][id] # 0
          BY <3>2, <3>3, <3>6, <4>1
        <5>2. a[id] \in 1..Len(log[q]) /\ log[q][a[id]].id = id
          BY <2>0, <5>1 DEF RidsRight
        <5>3. a[id] <= Len(log[p]) /\ log[q][a[id]] = log[p][a[id]]
          BY <3>1, <5>1, <5>2
        <5> QED  BY <3>2, <5>2, <5>3
      <4>2. CASE a[id] \in from..Len(log[p]) /\ log[p][a[id]].id = id
        BY <3>2, <4>2
      <4> QED  BY <3>5, <4>1, <4>2
    <3> QED  BY <3>4, <3>6 DEF RidsRight
  <2>3. Given(p, q)
    BY ReplicateGives
  <2> QED  BY <2>1, <2>2, <2>3 DEF Given
<1>8. \A r \in Peer : RidsRight(r)' /\ RequestsRight(r)' /\ WrittenRight(r)'
  BY <1>5, <1>6, <1>7, TableKept
<1> QED  BY <1>8 DEF TableInv

LEMMA CommitTable ==
  ASSUME TableInv, NEW p \in Peer, NEW i, Commit(p, i)
  PROVE  TableInv'
<1>1. UNCHANGED <<term, log, leads, applied, writing, written, rids, requests>>
  BY DEF Commit
<1>2. \A r \in Peer, id \in Id : Pending(r, id)' => Pending(r, id) /\ leads[r]
  BY <1>1 DEF TableInv, RequestsRight, Pending
<1>3. \A r \in Peer : StillRight(r)
  BY <1>1, <1>2 DEF StillRight
<1>4. \A r \in Peer : RidsRight(r)' /\ RequestsRight(r)' /\ WrittenRight(r)'
  BY <1>3, TableKept
<1> QED  BY <1>4 DEF TableInv

LEMMA ApplyTable ==
  ASSUME TypeOK, CommitInv, TableInv, NEW p \in Peer, Apply(p)
  PROVE  TableInv'
<1>1. /\ UNCHANGED <<term, log, leads, writing, written, rids>>
      /\ applied' = [applied EXCEPT ![p] = commit[p]]
      /\ requests' = [requests EXCEPT ![p] =
                     [id \in Id |-> IF id \in Told(p, commit[p]) THEN NoRequest ELSE @[id]]]
  BY DEF Apply
<1>2. /\ \A r \in Peer : r # p => applied'[r] = applied[r] /\ requests'[r] = requests[r]
      /\ applied'[p] = commit[p]
      /\ \A id \in Id : requests'[p][id] = IF id \in Told(p, commit[p]) THEN NoRequest
                                           ELSE requests[p][id]
  BY <1>1 DEF TypeOK
<1>3. ASSUME NEW r \in Peer, r # p  PROVE StillRight(r)
  <2>1. \A id \in Id : Pending(r, id)' => Pending(r, id) /\ leads[r]
    BY <1>2, <1>3 DEF TableInv, RequestsRight, Pending
  <2> QED  BY <1>1, <1>2, <1>3, <2>1 DEF StillRight
<1>4. RidsRight(p)' /\ WrittenRight(p)'
  BY <1>1 DEF TableInv, RidsRight, WrittenRight
<1>5. RequestsRight(p)'
  <2> SUFFICES ASSUME NEW id \in Id, Pending(p, id)'
               PROVE  /\ leads[p]
                      /\ IF requests'[p][id].index = 0 THEN Waits(p, id)'
                         ELSE requests'[p][id].index \in commit[p] + 1 .. Len(log[p])
                              /\ log[p][requests'[p][id].index].id = id
    BY <1>1, <1>2 DEF RequestsRight
  <2>1. requests'[p][id] = requests[p][id] /\ Pending(p, id) /\ id \notin Told(p, commit[p])
    BY <1>2 DEF Pending
  <2>2. /\ leads[p]
        /\ IF requests[p][id].index = 0 THEN Waits(p, id)
           ELSE requests[p][id].index \in applied[p] + 1 .. Len(log[p])
                /\ log[p][requests[p][id].index].id = id
    BY <2>1 DEF TableInv, RequestsRight
  <2>3. Waits(p, id)' = Waits(p, id)
    BY <1>1 DEF Waits, Mine
  <2>4. ~ (requests[p][id].index \in 1..commit[p])
    BY <2>1 DEF Told
  <2>5. commit[p] \in Nat /\ applied[p] \in Nat /\ Len(log[p]) \in Nat
    BY LenProperties DEF TypeOK
  <2>6. ASSUME requests[p][id].index \in applied[p] + 1 .. Len(log[p])
        PROVE  requests[p][id].index \in commit[p] + 1 .. Len(log[p])
    BY <2>4, <2>5, <2>6
  <2> QED  BY <2>1, <2>2, <2>3, <2>6
<1>6. \A r \in Peer : RidsRight(r)' /\ RequestsRight(r)' /\ WrittenRight(r)'
  BY <1>3, <1>4, <1>5, TableKept
<1> QED  BY <1>6 DEF TableInv

LEMMA WriteTable ==
  ASSUME TypeOK, TableInv, NEW p \in Peer, Write(p)
  PROVE  TableInv'
<1>1. /\ UNCHANGED <<term, leads, applied, requests>> /\ log' = [log EXCEPT ![p] = @ \o writing[p]]
      /\ writing' = [writing EXCEPT ![p] = <<>>]
      /\ rids' = [rids EXCEPT ![p] = AddRids(@, log[p] \o writing[p], Len(log[p]) + 1)]
  BY WriteFacts
<1>2. /\ \A r \in Peer \ {p} : written'[r] = written[r]
      /\ Len(written'[p]) = Len(written[p]) + Len(writing[p])
      /\ \A k \in 1..Len(written[p]) : written'[p][k] = written[p][k]
      /\ \A k \in 1..Len(writing[p]) : written'[p][Len(written[p]) + k] =
                                         [entry |-> writing[p][k], index |-> Len(log[p]) + k]
  BY WrittenGrows
<1>3. /\ Len(log[p]) \in Nat /\ Len(writing[p]) \in Nat /\ Len(written[p]) \in Nat
      /\ full[p] \in Seq(Entry) /\ full[p] = log[p] \o writing[p]
      /\ Len(full[p]) = Len(log[p]) + Len(writing[p]) /\ Len(full[p]) \in Nat
      /\ \A i \in 1..Len(log[p]) : i \in 1..Len(full[p]) /\ full[p][i] = log[p][i]
      /\ \A k \in 1..Len(writing[p]) : Len(log[p]) + k \in 1..Len(full[p])
                                       /\ full[p][Len(log[p]) + k] = writing[p][k]
  BY FullOf, LenProperties DEF TypeOK
<1>4. /\ log'[p] = full[p] /\ rids'[p] = AddRids(rids[p], full[p], Len(log[p]) + 1)
      /\ \A r \in Peer : r # p => log'[r] = log[r] /\ rids'[r] = rids[r] /\ writing'[r] = writing[r]
  BY <1>1, <1>3 DEF TypeOK
<1>5. ASSUME NEW r \in Peer, r # p  PROVE StillRight(r)
  <2>1. \A id \in Id : Pending(r, id)' => Pending(r, id) /\ leads[r]
    BY <1>1 DEF TableInv, RequestsRight, Pending
  <2> QED  BY <1>1, <1>2, <1>4, <1>5, <2>1 DEF StillRight
<1>6. RidsRight(p) /\ RequestsRight(p) /\ WrittenRight(p)
  BY DEF TableInv
<1>7. RidsRight(p)'
  <2> DEFINE a == AddRids(rids[p], full[p], Len(log[p]) + 1)
  <2>0. a = AddRids(rids[p], full[p], Len(log[p]) + 1)
    OBVIOUS
  <2> HIDE DEF a
  <2>1. \A id \in Id : a[id] = rids[p][id]
                       \/ (a[id] \in Len(log[p]) + 1 .. Len(full[p]) /\ full[p][a[id]].id = id)
    <3>1. rids[p] \in [Id -> Nat] /\ Len(log[p]) + 1 \in Nat \ {0}
      BY <1>3 DEF TypeOK
    <3> SUFFICES ASSUME NEW id \in Id
                 PROVE  a[id] = rids[p][id]
                        \/ (a[id] \in Len(log[p]) + 1 .. Len(full[p]) /\ full[p][a[id]].id = id)
      OBVIOUS
    <3>2. \/ a[id] = rids[p][id] /\ (Forgotten \/ \A j \in Len(log[p]) + 1 .. Len(full[p]) : full[p][j].id # id)
          \/ ~Forgotten /\ a[id] \in Len(log[p]) + 1 .. Len(full[p]) /\ full[p][a[id]].id = id
      <4>1. PICK r \in [Id -> Nat] : r = rids[p]
        BY <3>1
      <4>2. PICK l \in Seq(Entry), i \in Nat \ {0} : l = full[p] /\ i = Len(log[p]) + 1
        BY <1>3, <3>1
      <4>3. PICK c : c = AddRids(r, l, i)
        OBVIOUS
      <4>4. \/ c[id] = r[id] /\ (Forgotten \/ \A j \in i..Len(l) : l[j].id # id)
            \/ ~Forgotten /\ c[id] \in i..Len(l) /\ l[c[id]].id = id
        BY <4>3, AddRidsIs
      <4>5. a = c
        BY <2>0, <4>1, <4>2, <4>3
      <4> QED  BY <4>1, <4>2, <4>4, <4>5
    <3> QED  BY <3>2
  <2>2. ASSUME NEW id \in Id, a[id] # 0  PROVE a[id] \in 1..Len(full[p]) /\ full[p][a[id]].id = id
    <3>1. CASE a[id] = rids[p][id]
      <4>1. a[id] \in 1..Len(log[p]) /\ log[p][a[id]].id = id
        BY <1>6, <2>2, <3>1 DEF RidsRight
      <4> QED  BY <1>3, <4>1
    <3>2. CASE a[id] \in Len(log[p]) + 1 .. Len(full[p]) /\ full[p][a[id]].id = id
      <4>1. a[id] \in 1..Len(full[p])
        <5>1. Len(full[p]) <= Len(full[p])
          BY <1>3
        <5> QED  BY <1>3, <3>2, <5>1, Above
      <4> QED  BY <3>2, <4>1
    <3> QED  BY <2>1, <3>1, <3>2
  <2>3. rids'[p] = a
    BY <1>4 DEF a
  <2> QED  BY <1>4, <2>2, <2>3 DEF RidsRight
<1>8. \A k \in 1..Len(written[p]) : k \in 1..Len(written'[p])
  BY <1>2, <1>3, Between
<1>9. \A k \in 1..Len(writing[p]) : Len(written[p]) + k \in 1..Len(written'[p])
  BY <1>2, <1>3, Between
<1>10. RequestsRight(p)'
  <2> SUFFICES ASSUME NEW id \in Id, Pending(p, id)
               PROVE  /\ leads[p]
                      /\ IF requests[p][id].index = 0 THEN Waits(p, id)'
                         ELSE requests[p][id].index \in applied[p] + 1 .. Len(full[p])
                              /\ full[p][requests[p][id].index].id = id
    BY <1>1, <1>4 DEF RequestsRight, Pending
  <2>1. /\ leads[p]
        /\ IF requests[p][id].index = 0 THEN Waits(p, id)
           ELSE requests[p][id].index \in applied[p] + 1 .. Len(log[p])
                /\ log[p][requests[p][id].index].id = id
    BY <1>6 DEF RequestsRight
  <2>2. Mine(p, id)' = Mine(p, id)
    BY <1>1 DEF Mine
  <2>3. ASSUME Waits(p, id)
        PROVE  \E k \in 1..Len(written'[p]) : written'[p][k].entry = Mine(p, id)
    <3>1. CASE \E k \in 1..Len(writing[p]) : writing[p][k] = Mine(p, id)
      <4>1. PICK k \in 1..Len(writing[p]) : writing[p][k] = Mine(p, id)
        BY <3>1
      <4>2. written'[p][Len(written[p]) + k].entry = Mine(p, id)
        <5>1. written'[p][Len(written[p]) + k] = [entry |-> writing[p][k], index |-> Len(log[p]) + k]
          BY <1>2
        <5> QED  BY <4>1, <5>1
      <4> QED  BY <1>9, <4>2
    <3>2. CASE \E k \in 1..Len(written[p]) : written[p][k].entry = Mine(p, id)
      BY <1>2, <1>8, <3>2
    <3> QED  BY <2>3, <3>1, <3>2 DEF Waits
  <2>4. Waits(p, id) => Waits(p, id)'
    BY <2>2, <2>3 DEF Waits
  <2>5. ASSUME NEW i \in applied[p] + 1 .. Len(log[p]), log[p][i].id = id
        PROVE  i \in applied[p] + 1 .. Len(full[p]) /\ full[p][i].id = id
    <3>1. applied[p] \in Nat
      BY DEF TypeOK
    <3>2. i \in 1..Len(log[p])
      BY <1>3, <3>1
    <3>3. i \in 1..Len(full[p]) /\ full[p][i] = log[p][i]
      BY <1>3, <3>2
    <3>4. Len(log[p]) <= Len(full[p])
      BY FullOf
    <3>5. i \in applied[p] + 1 .. Len(full[p])
      BY <1>3, <3>1, <3>4, Above
    <3> QED  BY <2>5, <3>3, <3>5
  <2> QED  BY <2>1, <2>4, <2>5
<1>11. WrittenRight(p)'
  <2> SUFFICES ASSUME leads[p], NEW k \in 1..Len(written'[p]), written'[p][k].entry.term = term[p]
               PROVE  written'[p][k].index \in 1..Len(full[p])
                      /\ full[p][written'[p][k].index] = written'[p][k].entry
    BY <1>1, <1>4 DEF WrittenRight
  <2>1. CASE k \in 1..Len(written[p])
    <3>1. written'[p][k] = written[p][k]
      BY <1>2, <2>1
    <3>2. written[p][k].index \in 1..Len(log[p]) /\ log[p][written[p][k].index] = written[p][k].entry
      BY <1>6, <2>1, <3>1 DEF WrittenRight
    <3> QED  BY <1>3, <3>1, <3>2
  <2>2. CASE k \notin 1..Len(written[p])
    <3>1. k - Len(written[p]) \in 1..Len(writing[p]) /\ k = Len(written[p]) + (k - Len(written[p]))
      <4>1. k \in 1..Len(written[p]) + Len(writing[p])
        BY <1>2
      <4>2. Len(written[p]) \in Nat /\ Len(writing[p]) \in Nat
        BY <1>3
      <4> QED  BY <2>2, <4>1, <4>2, Between
    <3>2. PICK j \in 1..Len(writing[p]) : k = Len(written[p]) + j
      BY <3>1
    <3>3. written'[p][k] = [entry |-> writing[p][j], index |-> Len(log[p]) + j]
      BY <1>2, <3>2
    <3>4. written'[p][k].index = Len(log[p]) + j /\ written'[p][k].entry = writing[p][j]
      BY <3>3
    <3>5. Len(log[p]) + j \in 1..Len(full[p]) /\ full[p][Len(log[p]) + j] = writing[p][j]
      BY <1>3
    <3> QED  BY <3>4, <3>5
  <2> QED  BY <2>1, <2>2
<1>12. \A r \in Peer : RidsRight(r)' /\ RequestsRight(r)' /\ WrittenRight(r)'
  BY <1>5, <1>7, <1>10, <1>11, TableKept
<1> QED  BY <1>12 DEF TableInv

LEMMA RequestUpdateTable ==
  ASSUME TypeOK, TableInv, NEW m \in asks, RequestUpdate(m)
  PROVE  TableInv'
<1>1. /\ UNCHANGED <<term, log, leads, applied, written, rids>> /\ m.to \in Peer /\ m.id \in Id
      /\ \/ UNCHANGED <<requests, writing>>
         \/ leads[m.to] /\ ~Pending(m.to, m.id) /\ Entered(m)
  BY RequestUpdateFacts
<1>2. PICK p \in Peer, n \in Id : p = m.to /\ n = m.id
  BY <1>1
<1>3. RidsRight(p) /\ RequestsRight(p) /\ WrittenRight(p)
  BY DEF TableInv
<1>4. \A r \in Peer, id \in Id : Pending(r, id) => leads[r]
  BY DEF TableInv, RequestsRight
<1>5. CASE UNCHANGED <<requests, writing>>
  <2>1. \A r \in Peer : StillRight(r)
    BY <1>1, <1>4, <1>5 DEF StillRight, Pending
  <2>2. \A r \in Peer : RidsRight(r)' /\ RequestsRight(r)' /\ WrittenRight(r)'
    BY <2>1, TableKept
  <2> QED  BY <2>2 DEF TableInv
<1>6. CASE leads[p] /\ Entered(m)
  <2>1. /\ requests \in [Peer -> [Id -> Requested]] /\ writing \in [Peer -> Seq(Entry)]
        /\ writing[p] \in Seq(Entry) /\ Len(writing[p]) \in Nat
    BY LenProperties DEF TypeOK
  <2>2. /\ Mine(p, n) \in Entry
        /\ Append(writing[p], Mine(p, n)) \in Seq(Entry)
        /\ Len(Append(writing[p], Mine(p, n))) = Len(writing[p]) + 1
        /\ \A i \in 1..Len(writing[p]) : Append(writing[p], Mine(p, n))[i] = writing[p][i]
        /\ Append(writing[p], Mine(p, n))[Len(writing[p]) + 1] = Mine(p, n)
    <3>1. Mine(p, n) \in Entry
      BY DEF TypeOK, Mine, Entry
    <3> QED  BY <2>1, <3>1, Longer
  <2>3. /\ \A r \in Peer : r # p => requests'[r] = requests[r] /\ writing'[r] = writing[r]
        /\ \A id \in Id : id # n => requests'[p][id] = requests[p][id]
        /\ \/ requests'[p][n].index = 0 /\ writing'[p] = Append(writing[p], Mine(p, n))
           \/ /\ rids[p][n] # 0 /\ ~ (rids[p][n] <= applied[p])
              /\ requests'[p][n].index = rids[p][n] /\ writing'[p] = writing[p]
    <3>1. CASE /\ requests' = [requests EXCEPT ![m.to][m.id] = [index |-> 0, live |-> m.live]]
               /\ writing' = [writing EXCEPT ![m.to] = Append(@, Mine(m.to, m.id))]
      BY <1>2, <2>1, <3>1
    <3>2. CASE /\ rids[m.to][m.id] # 0 /\ ~ (rids[m.to][m.id] <= applied[m.to])
               /\ requests' = [requests EXCEPT ![m.to][m.id] =
                                 [index |-> rids[m.to][m.id], live |-> m.live]]
               /\ UNCHANGED writing
      BY <1>2, <2>1, <3>2
    <3> QED  BY <1>6, <3>1, <3>2 DEF Entered
  <2>4. ASSUME NEW r \in Peer, r # p  PROVE StillRight(r)
    BY <1>1, <1>4, <2>3, <2>4 DEF StillRight, Pending
  <2>5. RidsRight(p)' /\ WrittenRight(p)'
    BY <1>1, <1>3 DEF RidsRight, WrittenRight
  <2>6. \A i \in 1..Len(writing[p]) : i \in 1..Len(writing'[p]) /\ writing'[p][i] = writing[p][i]
    <3>1. CASE writing'[p] = writing[p]
      BY <3>1
    <3>2. CASE writing'[p] = Append(writing[p], Mine(p, n))
      BY <2>1, <2>2, <3>2, Between
    <3> QED  BY <2>3, <3>1, <3>2
  <2>7. ASSUME NEW id \in Id, Waits(p, id)  PROVE Waits(p, id)'
    <3>1. Mine(p, id)' = Mine(p, id) /\ written'[p] = written[p]
      BY <1>1 DEF Mine
    <3> QED  BY <2>6, <2>7, <3>1 DEF Waits
  <2>8. RequestsRight(p)'
    <3> SUFFICES ASSUME NEW id \in Id, Pending(p, id)'
                 PROVE  IF requests'[p][id].index = 0 THEN Waits(p, id)'
                        ELSE requests'[p][id].index \in applied[p] + 1 .. Len(log[p])
                             /\ log[p][requests'[p][id].index].id = id
      BY <1>1, <1>6 DEF RequestsRight
    <3>1. CASE id # n
      <4>1. requests'[p][id] = requests[p][id] /\ Pending(p, id)
        BY <2>3, <3>1 DEF Pending
      <4>2. IF requests[p][id].index = 0 THEN Waits(p, id)
            ELSE requests[p][id].index \in applied[p] + 1 .. Len(log[p])
                 /\ log[p][requests[p][id].index].id = id
        BY <1>3, <4>1 DEF RequestsRight
      <4> QED  BY <2>7, <4>1, <4>2
    <3>2. CASE id = n /\ requests'[p][n].index = 0 /\ writing'[p] = Append(writing[p], Mine(p, n))
      <4>1. writing'[p][Len(writing[p]) + 1] = Mine(p, n) /\ Len(writing[p]) + 1 \in 1..Len(writing'[p])
        BY <2>1, <2>2, <3>2
      <4>2. Mine(p, id)' = Mine(p, n)
        BY <1>1, <3>2 DEF Mine
      <4> QED  BY <3>2, <4>1, <4>2 DEF Waits
    <3>3. CASE /\ id = n /\ rids[p][n] # 0 /\ ~ (rids[p][n] <= applied[p])
               /\ requests'[p][n].index = rids[p][n]
      <4>1. rids[p][n] \in 1..Len(log[p]) /\ log[p][rids[p][n]].id = n
        BY <1>3, <3>3 DEF RidsRight
      <4>2. rids[p][n] \in applied[p] + 1 .. Len(log[p])
        <5>1. rids[p][n] \in Nat /\ applied[p] \in Nat /\ Len(log[p]) \in Nat
          BY LenProperties DEF TypeOK
        <5> QED  BY <3>3, <4>1, <5>1
      <4> QED  BY <3>3, <4>1, <4>2
    <3> QED  BY <2>3, <3>1, <3>2, <3>3
  <2>9. \A r \in Peer : RidsRight(r)' /\ RequestsRight(r)' /\ WrittenRight(r)'
    BY <2>4, <2>5, <2>8, TableKept
  <2> QED  BY <2>9 DEF TableInv
<1> QED  BY <1>1, <1>2, <1>5, <1>6

LEMMA QuietTable ==
  ASSUME TableInv, Quiet
  PROVE  TableInv'
<1>1. /\ UNCHANGED <<term, log, leads, applied, writing, written>> /\ SameTable
      /\ rids' = rids \/ \A p \in Peer, id \in Id : rids'[p][id] = 0
  BY DEF Quiet
<1>2. ASSUME NEW p \in Peer  PROVE RidsRight(p)' /\ RequestsRight(p)' /\ WrittenRight(p)'
  <2>1. RidsRight(p) /\ RequestsRight(p) /\ WrittenRight(p)
    BY DEF TableInv
  <2>2. RidsRight(p)'
    BY <1>1, <2>1 DEF RidsRight
  <2>3. WrittenRight(p)'
    BY <1>1, <2>1 DEF WrittenRight
  <2>4. \A id \in Id : Waits(p, id)' = Waits(p, id)
    BY <1>1 DEF Waits, Mine
  <2>5. \A id \in Id : Pending(p, id)' = Pending(p, id) /\ requests'[p][id].index = requests[p][id].index
    BY <1>1 DEF SameTable, Pending
  <2>6. RequestsRight(p)'
    BY <1>1, <2>1, <2>4, <2>5 DEF RequestsRight
  <2> QED  BY <2>2, <2>3, <2>6
<1> QED  BY <1>2 DEF TableInv

LEMMA ResolveTable ==
  ASSUME TypeOK, TableInv, NEW p \in Peer, Resolve(p)
  PROVE  TableInv'
<1> DEFINE w == Head(written[p])
<1>1. /\ w = written[p][1] /\ w \in Written /\ Len(written[p]) > 0
      /\ \A r \in Peer \ {p} : written'[r] = written[r]
      /\ Len(written'[p]) = Len(written[p]) - 1
      /\ \A k \in 1..Len(written[p]) - 1 : written'[p][k] = written[p][k + 1]
      /\ UNCHANGED <<term, log, leads, applied, writing, rids>>
      /\ \/ UNCHANGED <<requests, answers>>
            /\ ~ (w.entry.id # None /\ leads[p] /\ term[p] = w.entry.term)
         \/ /\ w.entry.id \in Id /\ leads[p] /\ term[p] = w.entry.term
            /\ requests' = [requests EXCEPT ![p][w.entry.id] = NoRequest]
         \/ /\ w.entry.id \in Id /\ leads[p] /\ term[p] = w.entry.term
            /\ ~ (w.index <= applied[p])
            /\ requests' = [requests EXCEPT ![p][w.entry.id].index =
                               IF Pending(p, w.entry.id) THEN w.index ELSE @]
  BY ResolveFacts
<1> HIDE DEF w
<1>2. /\ requests \in [Peer -> [Id -> Requested]] /\ Len(written[p]) \in Nat
      /\ Len(log[p]) \in Nat /\ applied[p] \in Nat
  BY LenProperties DEF TypeOK
<1>3. RidsRight(p) /\ RequestsRight(p) /\ WrittenRight(p)
  BY DEF TableInv
<1>4. \A r \in Peer : r # p => requests'[r] = requests[r]
  BY <1>1, <1>2
<1>5. ASSUME NEW r \in Peer, r # p  PROVE StillRight(r)
  <2>1. \A id \in Id : Pending(r, id)' => Pending(r, id) /\ leads[r]
    BY <1>4, <1>5 DEF TableInv, RequestsRight, Pending
  <2> QED  BY <1>1, <1>4, <1>5, <2>1 DEF StillRight
<1>6. RidsRight(p)'
  BY <1>1, <1>3 DEF RidsRight
<1>7. \A k \in 2..Len(written[p]) : k - 1 \in 1..Len(written'[p]) /\ written'[p][k - 1] = written[p][k]
  <2> SUFFICES ASSUME NEW k \in 2..Len(written[p])
               PROVE  k - 1 \in 1..Len(written[p]) - 1 /\ written'[p][k - 1] = written[p][k]
    BY <1>1
  <2>1. k - 1 \in 1..Len(written[p]) - 1 /\ (k - 1) + 1 = k
    BY <1>2
  <2>2. written'[p][k - 1] = written[p][(k - 1) + 1]
    BY <1>1, <2>1
  <2> QED  BY <2>1, <2>2
<1>8. \A k \in 1..Len(written'[p]) : k + 1 \in 1..Len(written[p]) /\ written'[p][k] = written[p][k + 1]
  <2> SUFFICES ASSUME NEW k \in 1..Len(written[p]) - 1
               PROVE  k + 1 \in 1..Len(written[p]) /\ written'[p][k] = written[p][k + 1]
    BY <1>1
  <2>1. k + 1 \in 1..Len(written[p])
    BY <1>2
  <2> QED  BY <1>1, <2>1
<1>9. WrittenRight(p)'
  <2> SUFFICES ASSUME leads[p], NEW k \in 1..Len(written'[p]), written'[p][k].entry.term = term[p]
               PROVE  written'[p][k].index \in 1..Len(log[p])
                      /\ log[p][written'[p][k].index] = written'[p][k].entry
    BY <1>1 DEF WrittenRight
  <2>1. k + 1 \in 1..Len(written[p]) /\ written'[p][k] = written[p][k + 1]
    BY <1>8
  <2> QED  BY <1>3, <2>1 DEF WrittenRight
\* The entry that is resolved is one of the log, if it is of the term.
<1>10. leads[p] /\ term[p] = w.entry.term =>
         w.index \in 1..Len(log[p]) /\ log[p][w.index] = w.entry
  <2>1. 1 \in 1..Len(written[p])
    BY <1>1, <1>2
  <2> QED  BY <1>1, <1>3, <2>1 DEF WrittenRight
<1>11. ASSUME NEW id \in Id, leads[p], Waits(p, id),
              ~ (w.entry.id = id /\ term[p] = w.entry.term)
       PROVE  Waits(p, id)'
  <2>1. Mine(p, id)' = Mine(p, id) /\ writing' = writing
    BY <1>1 DEF Mine
  <2>2. CASE \E k \in 1..Len(writing[p]) : writing[p][k] = Mine(p, id)
    BY <2>1, <2>2 DEF Waits
  <2>3. CASE \E k \in 1..Len(written[p]) : written[p][k].entry = Mine(p, id)
    <3>1. PICK k \in 1..Len(written[p]) : written[p][k].entry = Mine(p, id)
      BY <2>3
    <3>2. k # 1
      <4>1. Mine(p, id).id = id /\ Mine(p, id).term = term[p]
        BY DEF Mine
      <4>2. written[p][k].entry.id = id /\ written[p][k].entry.term = term[p]
        BY <3>1, <4>1
      <4>3. w = written[p][1]
        BY <1>1
      <4> QED  BY <1>11, <4>2, <4>3
    <3>3. k \in 2..Len(written[p])
      BY <1>2, <3>2
    <3>4. written'[p][k - 1].entry = Mine(p, id) /\ k - 1 \in 1..Len(written'[p])
      BY <1>7, <3>1, <3>3
    <3> QED  BY <2>1, <3>4 DEF Waits
  <2> QED  BY <1>11, <2>2, <2>3 DEF Waits
<1>12. ASSUME NEW id \in Id, Pending(p, id)'
       PROVE  /\ leads[p]
              /\ IF requests'[p][id].index = 0 THEN Waits(p, id)'
                 ELSE requests'[p][id].index \in applied[p] + 1 .. Len(log[p])
                      /\ log[p][requests'[p][id].index].id = id
  <2>1. CASE requests'[p][id] = requests[p][id] /\ ~ (w.entry.id = id /\ leads[p] /\ term[p] = w.entry.term)
    <3>1. Pending(p, id)
      BY <1>12, <2>1 DEF Pending
    <3>2. /\ leads[p]
          /\ IF requests[p][id].index = 0 THEN Waits(p, id)
             ELSE requests[p][id].index \in applied[p] + 1 .. Len(log[p])
                  /\ log[p][requests[p][id].index].id = id
      BY <1>3, <3>1 DEF RequestsRight
    <3> QED  BY <1>11, <2>1, <3>2
  <2>2. CASE /\ w.entry.id = id /\ leads[p] /\ term[p] = w.entry.term /\ ~ (w.index <= applied[p])
             /\ requests'[p][id].index = w.index
    <3>1. w.index \in 1..Len(log[p]) /\ log[p][w.index].id = id
      BY <1>10, <2>2
    <3>2. w.index \in applied[p] + 1 .. Len(log[p])
      BY <1>2, <2>2, <3>1
    <3> QED  BY <1>2, <2>2, <3>1, <3>2
  <2>3. CASE UNCHANGED requests /\ ~ (w.entry.id # None /\ leads[p] /\ term[p] = w.entry.term)
    <3>1. id # None
      BY PeerAssumption
    <3> QED  BY <2>1, <2>3, <3>1
  <2>4. CASE /\ w.entry.id \in Id /\ requests' = [requests EXCEPT ![p][w.entry.id] = NoRequest]
    <3>1. id # w.entry.id
      BY <1>2, <1>12, <2>4 DEF Pending
    <3>2. requests'[p][id] = requests[p][id]
      BY <1>2, <2>4, <3>1
    <3> QED  BY <2>1, <3>1, <3>2
  <2>5. CASE /\ w.entry.id \in Id /\ leads[p] /\ term[p] = w.entry.term /\ ~ (w.index <= applied[p])
             /\ requests' = [requests EXCEPT ![p][w.entry.id].index =
                               IF Pending(p, w.entry.id) THEN w.index ELSE @]
    <3>1. CASE id # w.entry.id
      <4>1. requests'[p][id] = requests[p][id]
        BY <1>2, <2>5, <3>1
      <4> QED  BY <2>1, <3>1, <4>1
    <3>2. CASE id = w.entry.id
      <4>1. requests'[p][id] = [requests[p][id] EXCEPT !.index = IF Pending(p, id) THEN w.index ELSE @]
        BY <1>2, <2>5, <3>2
      <4>2. requests[p][id] \in Requested /\ w.index \in Nat
        <5>1. requests[p][id] \in Requested
          BY <1>2
        <5>2. w.index \in Nat
          BY <1>1 DEF Written
        <5> QED  BY <5>1, <5>2
      <4>3. Pending(p, id)
        <5> SUFFICES ASSUME ~Pending(p, id)  PROVE FALSE
          OBVIOUS
        <5>1. requests'[p][id] = [NoRequest EXCEPT !.index = NoRequest.index]
          BY <4>1 DEF Pending
        <5>2. NoRequest \in [index : {-1}, live : {FALSE}]
          BY DEF NoRequest
        <5>3. [NoRequest EXCEPT !.index = NoRequest.index] = NoRequest
          BY <5>2
        <5> QED  BY <1>12, <5>1, <5>3 DEF Pending
      <4>4. requests'[p][id].index = w.index
        BY <4>1, <4>2, <4>3, RequestedIs DEF Pending
      <4> QED  BY <2>2, <2>5, <3>2, <4>4
    <3> QED  BY <3>1, <3>2
  <2> QED  BY <1>1, <2>3, <2>4, <2>5
<1>13. RequestsRight(p)'
  BY <1>1, <1>12 DEF RequestsRight
<1>14. \A r \in Peer : RidsRight(r)' /\ RequestsRight(r)' /\ WrittenRight(r)'
  BY <1>5, <1>6, <1>9, <1>13, TableKept
<1> QED  BY <1>14 DEF TableInv

-----------------------------------------------------------------------------
(* The index that a client is told is right. *)

LEMMA RightKept ==
  ASSUME TypeOK, TypeOK', CommittedKept, NEW id, NEW i, IsRight(id, i)
  PROVE  IsRight(id, i)'
<1>1. PICK p \in Peer : i \in 1..commit[p] /\ log[p][i].id = id
  BY DEF IsRight
<1>2. commit[p] \in Nat /\ commit'[p] \in Nat /\ commit[p] <= commit'[p]
  BY DEF TypeOK, CommittedKept
<1>3. i \in 1..commit'[p]
  BY <1>1, <1>2
<1>4. log'[p][i] = log[p][i]
  BY <1>1 DEF CommittedKept, Agree
<1> QED  BY <1>1, <1>3, <1>4 DEF IsRight

LEMMA AnswersKept ==
  ASSUME TypeOK, TypeOK', CommittedKept, AnswerInv,
         \A m \in answers' : m \in answers \/ m.kind # "index" \/ IsRight(m.id, m.val),
         \A id \in Id : pc'[id] = "done" =>
           \/ pc[id] = "done" /\ result'[id] = result[id]
           \/ \E m \in answers : m.id = id /\ m.kind = "index" /\ result'[id] = m.val
  PROVE  AnswerInv'
<1>1. ASSUME NEW m \in answers', m.kind = "index"  PROVE IsRight(m.id, m.val)'
  <2>1. IsRight(m.id, m.val)
    BY <1>1 DEF AnswerInv
  <2> QED  BY <2>1, RightKept
<1>2. ASSUME NEW id \in Id, pc'[id] = "done"  PROVE IsRight(id, result[id])'
  <2>1. PICK v : v = result'[id]
    OBVIOUS
  <2>2. IsRight(id, v)
    BY <1>2, <2>1 DEF AnswerInv
  <2>3. IsRight(id, v)'
    BY <2>2, RightKept
  <2> QED  BY <2>1, <2>3 DEF IsRight
<1> QED  BY <1>1, <1>2 DEF AnswerInv

LEMMA StandAnswers ==
  ASSUME TypeOK, AnswerInv, CommittedKept, NEW p \in Peer, NEW Q \in Voters, NEW el \in BOOLEAN, Stand(p, Q, el)
  PROVE  AnswerInv'
<1>1. TypeOK' /\ UNCHANGED <<pc, result>> /\ Q \in SUBSET Peer /\ StepDown(Q)
  BY StandType DEF Stand, client, Voters
<1>2. \A m \in answers' : m \in answers \/ m.kind # "index"
  BY <1>1, RequestsCleared
<1> QED  BY <1>1, <1>2, AnswersKept

LEMMA ReplicateAnswers ==
  ASSUME TypeOK, AnswerInv, CommittedKept, NEW p \in Peer, NEW q \in Peer, Replicate(p, q)
  PROVE  AnswerInv'
<1>1. TypeOK' /\ UNCHANGED <<pc, result>> /\ {q} \in SUBSET Peer /\ StepDown({q})
  BY ReplicateType, ReplicateFacts
<1>2. \A m \in answers' : m \in answers \/ m.kind # "index"
  BY <1>1, RequestsCleared
<1> QED  BY <1>1, <1>2, AnswersKept

LEMMA CommitAnswers ==
  ASSUME TypeOK, AnswerInv, CommittedKept, NEW p \in Peer, NEW i \in 1..Len(log[p]), Commit(p, i)
  PROVE  AnswerInv'
<1>1. TypeOK' /\ UNCHANGED <<pc, result, answers>>
  BY CommitType DEF Commit, client, network
<1> QED  BY <1>1, AnswersKept

LEMMA ApplyAnswers ==
  ASSUME TypeOK, TableInv, AnswerInv, CommittedKept, NEW p \in Peer, Apply(p)
  PROVE  AnswerInv'
<1>1. TypeOK' /\ UNCHANGED <<pc, result>>
      /\ answers' = answers \union Answers(p, commit[p])
  BY ApplyType DEF Apply, client
<1>2. ASSUME NEW m \in answers', m \notin answers  PROVE IsRight(m.id, m.val)
  <2>1. PICK id \in Id : m = Done(id, p, requests[p][id].index)
                         /\ requests[p][id].index \in 1..commit[p]
    BY <1>1, <1>2 DEF Answers, Told
  <2>2. m.id = id /\ m.val = requests[p][id].index
    BY <2>1 DEF Done, Answer
  <2>3. Pending(p, id)
    <3>1. requests[p][id] \in Requested /\ requests[p][id].index \in Nat
      BY <2>1 DEF TypeOK
    <3> QED  BY <3>1, RequestedIs DEF Pending
  <2>4. requests[p][id].index # 0
    BY <2>1
  <2>5. log[p][requests[p][id].index].id = id
    BY <2>3, <2>4 DEF TableInv, RequestsRight
  <2> QED  BY <2>1, <2>2, <2>5 DEF IsRight
<1> QED  BY <1>1, <1>2, AnswersKept

LEMMA WriteAnswers ==
  ASSUME TypeOK, AnswerInv, CommittedKept, NEW p \in Peer, Write(p)
  PROVE  AnswerInv'
<1>1. TypeOK' /\ UNCHANGED <<pc, result, answers>>
  BY WriteType, WriteFacts
<1> QED  BY <1>1, AnswersKept

LEMMA ResolveAnswers ==
  ASSUME TypeOK, CommitInv, TableInv, AnswerInv, CommittedKept, NEW p \in Peer, Resolve(p)
  PROVE  AnswerInv'
<1> DEFINE w == Head(written[p])
<1>1. /\ w = written[p][1] /\ w \in Written /\ Len(written[p]) > 0
      /\ UNCHANGED <<pc, result>>
      /\ \/ UNCHANGED answers
         \/ /\ w.entry.id \in Id /\ leads[p] /\ term[p] = w.entry.term
            /\ w.index <= applied[p]
            /\ answers' \subseteq answers \union {Done(w.entry.id, p, w.index)}
  BY ResolveFacts
<1>2. TypeOK'
  BY ResolveType
<1> HIDE DEF w
<1>3. ASSUME NEW m \in answers', m \notin answers  PROVE IsRight(m.id, m.val)
  <2>1. /\ leads[p] /\ term[p] = w.entry.term /\ w.index <= applied[p]
        /\ m = Done(w.entry.id, p, w.index)
    BY <1>1, <1>3
  <2>2. m.id = w.entry.id /\ m.val = w.index
    BY <2>1 DEF Done, Answer
  <2>3. w.index \in 1..Len(log[p]) /\ log[p][w.index] = w.entry
    <3>1. 1 \in 1..Len(written[p])
      BY <1>1, LenProperties DEF TypeOK
    <3> QED  BY <1>1, <2>1, <3>1 DEF TableInv, WrittenRight
  <2>4. w.index \in 1..commit[p]
    <3>1. commit[p] \in Nat /\ applied[p] \in Nat /\ applied[p] <= commit[p] /\ Len(log[p]) \in Nat
      BY LenProperties DEF TypeOK, CommitInv
    <3> QED  BY <2>1, <2>3, <3>1
  <2> QED  BY <2>2, <2>3, <2>4 DEF IsRight
<1> QED  BY <1>1, <1>2, <1>3, AnswersKept

LEMMA RequestUpdateAnswers ==
  ASSUME TypeOK, CommitInv, TableInv, AnswerInv, CommittedKept, NEW m \in asks, RequestUpdate(m)
  PROVE  AnswerInv'
<1>1. /\ UNCHANGED <<pc, result>> /\ m.to \in Peer /\ m.id \in Id
      /\ \A a \in answers' :
           \/ a \in answers
           \/ a.id = m.id /\ (a.kind = "index" => a.val = rids[m.to][m.id] /\ a.val # 0
                                                  /\ a.val <= applied[m.to])
  BY RequestUpdateFacts
<1>2. TypeOK'
  BY RequestUpdateType
<1>3. ASSUME NEW a \in answers', a \notin answers, a.kind = "index"  PROVE IsRight(a.id, a.val)
  <2>1. PICK p \in Peer, id \in Id : p = m.to /\ id = m.id
    BY <1>1
  <2>2. a.id = id /\ a.val = rids[p][id] /\ a.val # 0 /\ a.val <= applied[p]
    BY <1>1, <1>3, <2>1
  <2>3. a.val \in 1..Len(log[p]) /\ log[p][a.val].id = id
    BY <2>2 DEF TableInv, RidsRight
  <2>4. a.val \in 1..commit[p]
    <3>1. commit[p] \in Nat /\ applied[p] \in Nat /\ applied[p] <= commit[p] /\ Len(log[p]) \in Nat
      BY LenProperties DEF TypeOK, CommitInv
    <3> QED  BY <2>2, <2>3, <3>1
  <2> QED  BY <2>2, <2>3, <2>4 DEF IsRight
<1> QED  BY <1>1, <1>2, <1>3, AnswersKept

LEMMA QuietAnswers ==
  ASSUME TypeOK, TypeOK', AnswerInv, CommittedKept, Quiet
  PROVE  AnswerInv'
<1>1. \A m \in answers' : m \in answers
  BY DEF Quiet
<1>2. \A id \in Id : pc'[id] = "done" =>
           \/ pc[id] = "done" /\ result'[id] = result[id]
           \/ \E m \in answers : m.id = id /\ m.kind = "index" /\ result'[id] = m.val
  BY DEF Quiet
<1> QED  BY <1>1, <1>2, AnswersKept

-----------------------------------------------------------------------------
(* The invariant holds. *)

LEMMA InitUpdates ==
  Init => UpdatesInv
<1> SUFFICES ASSUME Init  PROVE UpdatesInv
  OBVIOUS
<1>1. TypeOK
  BY InitType
<1>2. PICK p \in Peer : leads = [q \in Peer |-> q = p]
  BY DEF Init
<1>3. /\ term = [q \in Peer |-> 1] /\ log = [q \in Peer |-> <<>>] /\ writing = [q \in Peer |-> <<>>]
      /\ written = [q \in Peer |-> <<>>] /\ commit = [q \in Peer |-> 0] /\ applied = [q \in Peer |-> 0]
      /\ rids = [q \in Peer |-> [id \in Id |-> 0]] /\ requests = [q \in Peer |-> [id \in Id |-> NoRequest]]
      /\ answers = {} /\ pc = [id \in Id |-> "request"]
  BY DEF Init
<1>4. \A q \in Peer : Len(full[q]) = 0
  <2>1. \A q \in Peer : full[q] = <<>> \o <<>>
    BY <1>3 DEF full
  <2>2. <<>> \in Seq(Entry) /\ Len(<<>>) = 0
    OBVIOUS
  <2>3. <<>> \o <<>> = <<>>
    BY <2>2, ConcatEmptySeq
  <2> QED  BY <2>1, <2>2, <2>3
<1>5. Held(term, 1)
  <2>1. {q \in Peer : term[q] >= 1} = Peer
    BY <1>3
  <2>2. Cardinality(Peer) \in Nat /\ Cardinality(Peer) # 0
    BY PeerAssumption, FS_CardinalityType, FS_EmptySet
  <2> QED  BY <2>1, <2>2 DEF Held, Majority
<1>6. LogInv
  <2>1. TermsInv
    BY <1>3, <1>4, <1>5 DEF TermsInv
  <2>2. OneLeader
    BY <1>2 DEF OneLeader
  <2>3. InTerms /\ LogsMatch /\ LeadersHave
    BY <1>4 DEF InTerms, LogsMatch, Matches, LeadersHave, HasTerm
  <2> QED  BY <2>1, <2>2, <2>3 DEF LogInv
<1>7. CommitInv
  <2>1. \A q \in Peer : commit[q] = 0 /\ applied[q] = 0 /\ Len(log[q]) = 0
    BY <1>3
  <2> QED  BY <2>1 DEF CommitInv
<1>8. TableInv
  BY <1>3 DEF TableInv, RidsRight, RequestsRight, WrittenRight, Pending
<1>9. AnswerInv
  BY <1>3 DEF AnswerInv
<1> QED  BY <1>1, <1>6, <1>7, <1>8, <1>9 DEF UpdatesInv

LEMMA NextUpdates ==
  UpdatesInv /\ [Next]_vars => UpdatesInv'
<1> SUFFICES ASSUME UpdatesInv, [Next]_vars  PROVE UpdatesInv'
  OBVIOUS
<1>0. TypeOK /\ LogInv /\ CommitInv /\ TableInv /\ AnswerInv
  BY DEF UpdatesInv
<1>1. ASSUME NEW p \in Peer, NEW Q \in Voters, NEW el \in Elected, Stand(p, Q, el)
      PROVE  UpdatesInv'
  <2>1. el \in BOOLEAN
    BY ElectionAssumption
  <2>2. CommitInv' /\ CommittedKept
    BY <1>0, <1>1, <2>1, StandCommit
  <2> QED  BY <1>0, <1>1, <2>1, <2>2, StandType, StandLog, StandTable, StandAnswers DEF UpdatesInv
<1>2. ASSUME NEW p \in Peer, NEW q \in Peer, Replicate(p, q)  PROVE UpdatesInv'
  <2>1. CommitInv' /\ CommittedKept
    BY <1>0, <1>2, ReplicateCommit
  <2> QED  BY <1>0, <1>2, <2>1, ReplicateType, ReplicateLog, ReplicateTable, ReplicateAnswers
           DEF UpdatesInv
<1>3. ASSUME NEW p \in Peer, NEW i \in 1..Len(log[p]), Commit(p, i)  PROVE UpdatesInv'
  <2>1. CommitInv' /\ CommittedKept
    BY <1>0, <1>3, CommitCommit
  <2>2. LogInv'
    <3>1. full' = full /\ term' = term /\ leads' = leads /\ written' = written
      BY <1>3 DEF Commit, full
    <3>2. \A q \in Peer : \A k \in 1..Len(written'[q]) : written'[q][k].entry.term <= term'[q]
      BY <1>0, <3>1 DEF LogInv, TermsInv
    <3> QED  BY <1>0, <3>1, <3>2, SameLogs
  <2> QED  BY <1>0, <1>3, <2>1, <2>2, CommitType, CommitTable, CommitAnswers DEF UpdatesInv
<1>4. ASSUME NEW p \in Peer, Apply(p)  PROVE UpdatesInv'
  <2>1. CommitInv' /\ CommittedKept
    BY <1>0, <1>4, ApplyCommit
  <2>2. LogInv'
    <3>1. full' = full /\ term' = term /\ leads' = leads /\ written' = written
      BY <1>4 DEF Apply, full
    <3>2. \A q \in Peer : \A k \in 1..Len(written'[q]) : written'[q][k].entry.term <= term'[q]
      BY <1>0, <3>1 DEF LogInv, TermsInv
    <3> QED  BY <1>0, <3>1, <3>2, SameLogs
  <2> QED  BY <1>0, <1>4, <2>1, <2>2, ApplyType, ApplyTable, ApplyAnswers DEF UpdatesInv
<1>5. ASSUME NEW p \in Peer, Write(p)  PROVE UpdatesInv'
  <2>1. CommitInv' /\ CommittedKept
    BY <1>0, <1>5, WriteCommit
  <2> QED  BY <1>0, <1>5, <2>1, WriteType, WriteLog, WriteTable, WriteAnswers DEF UpdatesInv
<1>6. ASSUME NEW p \in Peer, Resolve(p)  PROVE UpdatesInv'
  <2>1. CommitInv' /\ CommittedKept
    BY <1>0, <1>6, ResolveCommit
  <2> QED  BY <1>0, <1>6, <2>1, ResolveType, ResolveLog, ResolveTable, ResolveAnswers DEF UpdatesInv
<1>7. ASSUME NEW m \in asks, RequestUpdate(m)  PROVE UpdatesInv'
  <2>1. CommitInv' /\ CommittedKept
    BY <1>0, <1>7, RequestUpdateCommit
  <2> QED  BY <1>0, <1>7, <2>1, RequestUpdateType, RequestUpdateLog, RequestUpdateTable,
              RequestUpdateAnswers DEF UpdatesInv
<1>8. ASSUME TypeOK', Quiet  PROVE UpdatesInv'
  <2>1. CommitInv' /\ CommittedKept
    BY <1>0, <1>8, QuietCommit
  <2> QED  BY <1>0, <1>8, <2>1, QuietLog, QuietTable, QuietAnswers DEF UpdatesInv
<1>9. CASE UNCHANGED vars
  <2>1. UNCHANGED requests /\ UNCHANGED cluster /\ UNCHANGED <<pc, result, asks, answers, age>>
    BY <1>9 DEF vars, client, network
  <2>2. /\ age \in Nat /\ pc \in [Id -> Doing] /\ asks \subseteq [id : Id, to : Peer, live : BOOLEAN]
    BY <1>0 DEF TypeOK
  <2>3. TypeOK' /\ Quiet
    BY <1>0, <2>1, <2>2, ClientQuiet DEF HearsNothing
  <2> QED  BY <1>8, <2>3
<1> QED  BY <1>0, <1>1, <1>2, <1>3, <1>4, <1>5, <1>6, <1>7, <1>8, <1>9, QuietSteps DEF Next

\* Logs match, what is committed is on a majority for good, the table of a
\* leader and the ids that a log knows are right, and so is every answer,
\* whatever is lost, late or answered by a peer that leads no more
\* (raft.js:466-536; raft_server.js:192-226; filelog.js:1045-1071).
THEOREM UpdatesInvariant == Spec => []UpdatesInv
<1>1. Init => UpdatesInv
  BY InitUpdates
<1>2. UpdatesInv /\ [Next]_vars => UpdatesInv'
  BY NextUpdates
<1> QED  BY <1>1, <1>2, PTL DEF Spec

\* Whoever waits for an update is told when it is applied: the entry is in the
\* log and not applied yet, or is written at last (raft_server.js:192-226).
THEOREM UpdatesAreTold == Spec => []WillBeTold
<1>1. ASSUME UpdatesInv  PROVE WillBeTold
  <2> SUFFICES ASSUME NEW p \in Peer, NEW id \in Id, Pending(p, id)
               PROVE  LET i == requests[p][id].index IN
                 IF i = 0 THEN \/ \E k \in 1..Len(writing[p]) : writing[p][k].id = id
                               \/ \E k \in 1..Len(written[p]) : written[p][k].entry.id = id
                 ELSE i \in applied[p] + 1 .. Len(log[p]) /\ log[p][i].id = id
    BY DEF WillBeTold
  <2>1. IF requests[p][id].index = 0 THEN Waits(p, id)
        ELSE requests[p][id].index \in applied[p] + 1 .. Len(log[p])
             /\ log[p][requests[p][id].index].id = id
    BY <1>1 DEF UpdatesInv, TableInv, RequestsRight
  <2>2. Mine(p, id).id = id
    BY DEF Mine
  <2> QED  BY <2>1, <2>2 DEF Waits
<1> QED  BY <1>1, UpdatesInvariant, PTL

\* The index a client is told is that of its entry (zmq_raft_client.js:411).
THEOREM IndexIsRight == Spec => []RightIndex
<1>1. UpdatesInv => RightIndex
  BY DEF UpdatesInv, AnswerInv, IsRight, RightIndex
<1> QED  BY <1>1, UpdatesInvariant, PTL

-----------------------------------------------------------------------------
(* Once. *)

LEMMA OneMore ==
  ASSUME NEW l \in Seq(Entry), NEW e \in Entry, OneOfEach(l),
         e.id = None \/ \A i \in 1..Len(l) : l[i].id # e.id
  PROVE  OneOfEach(Append(l, e))
<1>1. /\ Len(l) \in Nat /\ Len(Append(l, e)) = Len(l) + 1
      /\ \A i \in 1..Len(l) : Append(l, e)[i] = l[i]
      /\ Append(l, e)[Len(l) + 1] = e
  BY Longer, LenProperties
<1>2. PICK m : m = Append(l, e)
  OBVIOUS
<1>3. \A i \in 1..Len(m) : i \in 1..Len(l) \/ i = Len(l) + 1
  BY <1>1, <1>2
<1>4. ASSUME NEW i \in 1..Len(m), NEW j \in 1..Len(m), m[i].id = m[j].id, m[i].id # None
      PROVE  i = j
  <2>1. CASE i \in 1..Len(l) /\ j \in 1..Len(l)
    BY <1>1, <1>2, <1>4, <2>1 DEF OneOfEach
  <2>2. CASE i = Len(l) + 1 /\ j \in 1..Len(l)
    BY <1>1, <1>2, <1>4, <2>2
  <2>3. CASE i \in 1..Len(l) /\ j = Len(l) + 1
    BY <1>1, <1>2, <1>4, <2>3
  <2> QED  BY <1>3, <2>1, <2>2, <2>3
<1>5. OneOfEach(m)
  BY <1>4 DEF OneOfEach
<1> QED  BY <1>2, <1>5

\* An id that is in the log is not about to be written.
LEMMA NotWriting ==
  ASSUME TypeOK, NEW p \in Peer, OneOfEach(full[p]), NEW i \in 1..Len(log[p]),
         NEW k \in 1..Len(writing[p]), writing[p][k].id # None
  PROVE  log[p][i].id # writing[p][k].id
<1>1. /\ i \in 1..Len(full[p]) /\ full[p][i] = log[p][i]
      /\ Len(log[p]) + k \in 1..Len(full[p]) /\ full[p][Len(log[p]) + k] = writing[p][k]
      /\ Len(log[p]) \in Nat /\ Len(writing[p]) \in Nat
  BY FullOf
<1>2. i # Len(log[p]) + k
  BY <1>1
<1>3. PICK j \in 1..Len(full[p]) : j = Len(log[p]) + k
  BY <1>1
<1> QED  BY <1>1, <1>2, <1>3 DEF OneOfEach

LEMMA IdOf ==
  ASSUME TypeOK, NEW p \in Peer, NEW k \in 1..Len(writing[p]), writing[p][k].id # None
  PROVE  writing[p][k].id \in Id
<1>1. writing[p] \in Seq(Entry)
  BY DEF TypeOK
<1>2. writing[p][k] \in Entry
  BY <1>1, ElementOfSeq
<1> QED  BY <1>2 DEF Entry

StillOnce(p) ==
  /\ log'[p] = log[p] /\ rids'[p] = rids[p] /\ full'[p] = full[p] /\ age' = age
  /\ leads'[p] => /\ leads[p] /\ writing'[p] = writing[p]
                  /\ \A k \in 1..Len(writing[p]) : writing[p][k].id # None =>
                       (Pending(p, writing[p][k].id) => requests'[p][writing[p][k].id] # NoRequest)

LEMMA OnceKept ==
  ASSUME OnceInv, NEW p \in Peer, StillOnce(p)
  PROVE  OneOfEach(full[p])' /\ Knows(p)' /\ Lists(p)'
<1>0. OneOfEach(full[p]) /\ Knows(p) /\ Lists(p)
  BY DEF OnceInv
<1>1. OneOfEach(full[p])'
  BY <1>0 DEF StillOnce, OneOfEach
<1>2. Knows(p)'
  <2>1. Forgotten' = Forgotten
    BY DEF StillOnce, Forgotten
  <2> QED  BY <1>0, <2>1 DEF StillOnce, Knows
<1>3. Lists(p)'
  <2> SUFFICES ASSUME leads'[p], NEW k \in 1..Len(writing'[p]), writing'[p][k].id # None
               PROVE  requests'[p][writing'[p][k].id] # NoRequest
    BY DEF Lists, Pending, NoRequest
  <2>1. leads[p] /\ writing'[p] = writing[p]
    BY DEF StillOnce
  <2>2. Pending(p, writing[p][k].id)
    BY <1>0, <2>1 DEF Lists
  <2> QED  BY <2>1, <2>2 DEF StillOnce
<1> QED  BY <1>1, <1>2, <1>3

LEMMA CommitOnce ==
  ASSUME OnceInv, NEW p \in Peer, NEW i, Commit(p, i)
  PROVE  OnceInv'
<1>1. /\ UNCHANGED <<log, leads, writing, rids, requests, age>> /\ full' = full
  BY DEF Commit, full
<1>2. \A r \in Peer : StillOnce(r)
  BY <1>1 DEF StillOnce, Pending
<1> QED  BY <1>2, OnceKept DEF OnceInv

LEMMA ApplyOnce ==
  ASSUME TypeOK, CommitInv, TableInv, OnceInv, NEW p \in Peer, Apply(p)
  PROVE  OnceInv'
<1>1. /\ UNCHANGED <<log, leads, writing, rids, age>> /\ full' = full
      /\ requests' = [requests EXCEPT ![p] =
            [id \in Id |-> IF id \in Told(p, commit[p]) THEN NoRequest ELSE @[id]]]
  BY DEF Apply, full
<1>2. requests \in [Peer -> [Id -> Requested]]
  BY DEF TypeOK
<1>3. /\ \A r \in Peer : r # p => requests'[r] = requests[r]
      /\ \A id \in Id : id \notin Told(p, commit[p]) => requests'[p][id] = requests[p][id]
  BY <1>1, <1>2
<1>4. ASSUME NEW r \in Peer, r # p  PROVE StillOnce(r)
  BY <1>1, <1>3, <1>4 DEF StillOnce, Pending
<1>5. OneOfEach(full[p]) /\ RequestsRight(p) /\ commit[p] <= Len(log[p])
  BY DEF OnceInv, TableInv, CommitInv
<1>6. ASSUME NEW k \in 1..Len(writing[p]), writing[p][k].id # None
      PROVE  writing[p][k].id \in Id /\ writing[p][k].id \notin Told(p, commit[p])
  <2>1. writing[p][k].id \in Id
    BY <1>6, IdOf
  <2>2. PICK id \in Id : id = writing[p][k].id
    BY <2>1
  <2>3. ASSUME id \in Told(p, commit[p])  PROVE FALSE
    <3>1. requests[p][id].index \in 1..commit[p] /\ requests[p][id] \in Requested
      BY <1>2, <2>3 DEF Told
    <3>2. commit[p] \in Nat /\ Len(log[p]) \in Nat
      BY LenProperties DEF TypeOK
    <3>3. requests[p][id].index \in Nat /\ requests[p][id].index # 0
      BY <3>1, <3>2
    <3>4. Pending(p, id)
      BY <3>1, <3>3, RequestedIs DEF Pending
    <3>5. log[p][requests[p][id].index].id = id
      BY <1>5, <3>3, <3>4 DEF RequestsRight
    <3>6. requests[p][id].index \in 1..Len(log[p])
      BY <1>5, <3>1, <3>2
    <3> QED  BY <1>5, <1>6, <2>2, <3>5, <3>6, NotWriting
  <2> QED  BY <2>1, <2>2, <2>3
<1>7. StillOnce(p)
  BY <1>1, <1>3, <1>6 DEF StillOnce, Pending
<1> QED  BY <1>4, <1>7, OnceKept DEF OnceInv

LEMMA ResolveOnce ==
  ASSUME TypeOK, TableInv, OnceInv, NEW p \in Peer, Resolve(p)
  PROVE  OnceInv'
<1> DEFINE w == Head(written[p])
<1>1. /\ w = written[p][1] /\ w \in Written /\ Len(written[p]) > 0
      /\ UNCHANGED <<term, log, leads, applied, writing, rids, age>>
      /\ \/ UNCHANGED <<requests, answers>>
         \/ /\ w.entry.id \in Id /\ leads[p] /\ term[p] = w.entry.term
            /\ requests' = [requests EXCEPT ![p][w.entry.id] = NoRequest]
         \/ /\ w.entry.id \in Id
            /\ requests' = [requests EXCEPT ![p][w.entry.id].index =
                                  IF Pending(p, w.entry.id) THEN w.index ELSE @]
  BY ResolveFacts
<1> HIDE DEF w
<1>2. full' = full
  BY <1>1 DEF full
<1>3. requests \in [Peer -> [Id -> Requested]] /\ Len(written[p]) \in Nat /\ w.index \in Nat
  BY <1>1, LenProperties DEF TypeOK, Written
<1>4. CASE UNCHANGED requests
  <2>1. \A r \in Peer : StillOnce(r)
    BY <1>1, <1>2, <1>4 DEF StillOnce, Pending
  <2> QED  BY <2>1, OnceKept DEF OnceInv
<1>5. CASE /\ w.entry.id \in Id /\ leads[p] /\ term[p] = w.entry.term
           /\ requests' = [requests EXCEPT ![p][w.entry.id] = NoRequest]
  <2>1. /\ \A r \in Peer : r # p => requests'[r] = requests[r]
        /\ \A id \in Id : id # w.entry.id => requests'[p][id] = requests[p][id]
    BY <1>3, <1>5
  <2>2. w.index \in 1..Len(log[p]) /\ log[p][w.index] = w.entry
    <3>1. 1 \in 1..Len(written[p])
      BY <1>1, <1>3
    <3> QED  BY <1>1, <1>5, <3>1 DEF TableInv, WrittenRight
  <2>3. ASSUME NEW k \in 1..Len(writing[p]), writing[p][k].id # None
        PROVE  writing[p][k].id \in Id /\ writing[p][k].id # w.entry.id
    <3>1. OneOfEach(full[p])
      BY DEF OnceInv
    <3>2. writing[p][k].id \in Id
      BY <2>3, IdOf
    <3> QED  BY <2>2, <2>3, <3>1, <3>2, NotWriting
  <2>4. ASSUME NEW r \in Peer  PROVE StillOnce(r)
    <3>1. CASE r # p
      BY <1>1, <1>2, <2>1, <3>1 DEF StillOnce, Pending
    <3>2. CASE r = p
      <4>1. ASSUME NEW k \in 1..Len(writing[p]), writing[p][k].id # None,
                   Pending(p, writing[p][k].id)
            PROVE  requests'[p][writing[p][k].id] # NoRequest
        <5>1. requests'[p][writing[p][k].id] = requests[p][writing[p][k].id]
          BY <2>1, <2>3, <4>1
        <5> QED  BY <4>1, <5>1 DEF Pending
      <4> QED  BY <1>1, <1>2, <3>2, <4>1 DEF StillOnce
    <3> QED  BY <3>1, <3>2
  <2> QED  BY <2>4, OnceKept DEF OnceInv
<1>6. CASE /\ w.entry.id \in Id
           /\ requests' = [requests EXCEPT ![p][w.entry.id].index =
                                  IF Pending(p, w.entry.id) THEN w.index ELSE @]
  <2>1. /\ \A r \in Peer : r # p => requests'[r] = requests[r]
        /\ \A id \in Id : id # w.entry.id => requests'[p][id] = requests[p][id]
    BY <1>3, <1>6
  <2>2. ASSUME Pending(p, w.entry.id)  PROVE requests'[p][w.entry.id] # NoRequest
    <3>1. requests'[p][w.entry.id] = [requests[p][w.entry.id] EXCEPT !.index = w.index]
      BY <1>3, <1>6, <2>2
    <3>2. requests[p][w.entry.id] \in Requested /\ requests[p][w.entry.id] # NoRequest
      BY <1>3, <1>6, <2>2 DEF Pending
    <3>3. [requests[p][w.entry.id] EXCEPT !.index = w.index].index = w.index
          /\ [requests[p][w.entry.id] EXCEPT !.index = w.index] \in Requested
      BY <1>3, <3>2, RequestedIs
    <3> DEFINE e == [requests[p][w.entry.id] EXCEPT !.index = w.index]
    <3>4. e \in Requested /\ e.index \in Nat
      BY <1>3, <3>3
    <3> HIDE DEF e
    <3>5. e # NoRequest
      BY <3>4, RequestedIs
    <3> QED  BY <3>1, <3>5 DEF e
  <2>3. ASSUME NEW k \in 1..Len(writing[p]), writing[p][k].id # None,
               Pending(p, writing[p][k].id)
        PROVE  requests'[p][writing[p][k].id] # NoRequest
    <3>1. writing[p][k].id \in Id
      BY <2>3, IdOf
    <3>2. PICK id \in Id : id = writing[p][k].id
      BY <3>1
    <3>3. CASE id = w.entry.id
      BY <2>2, <2>3, <3>2, <3>3
    <3>4. CASE id # w.entry.id
      BY <2>1, <2>3, <3>2, <3>4 DEF Pending
    <3> QED  BY <3>3, <3>4
  <2>4. ASSUME NEW r \in Peer  PROVE StillOnce(r)
    <3>1. CASE r # p
      BY <1>1, <1>2, <2>1, <3>1 DEF StillOnce, Pending
    <3>2. CASE r = p
      BY <1>1, <1>2, <2>3, <3>2 DEF StillOnce
    <3> QED  BY <3>1, <3>2
  <2> QED  BY <2>4, OnceKept DEF OnceInv
<1> QED  BY <1>1, <1>4, <1>5, <1>6

\* A peer is elected while nothing of an earlier term waits to be written.
LEMMA StandOnce ==
  ASSUME SlowDisk = FALSE, TypeOK, OnceInv, NEW p \in Peer, NEW Q \in Voters, NEW el \in BOOLEAN,
         Stand(p, Q, el)
  PROVE  OnceInv'
<1>1. PICK t \in Nat \ {0} :
           /\ \A q \in Peer \ Q : leads'[q] = leads[q]
           /\ \A q \in Q : leads'[q] = (q = p /\ el)
           /\ \/ writing' = writing
              \/ el /\ writing' = [writing EXCEPT ![p] = Append(@, [id |-> None, term |-> t])]
  BY StandFacts
<1>2. /\ UNCHANGED <<log, rids, age>> /\ Q \in SUBSET Peer /\ p \in Q /\ StepDown(Q)
      /\ writing[p] = <<>>
  BY DEF Stand, Voters
<1>3. \A q \in Peer : q # p => writing'[q] = writing[q] /\ full'[q] = full[q]
  <2>1. \A q \in Peer : q # p => writing'[q] = writing[q]
    BY <1>1 DEF TypeOK
  <2> QED  BY <1>2, <2>1 DEF full
<1>4. ASSUME NEW q \in Peer, q # p  PROVE StillOnce(q)
  <2>1. CASE q \in Q
    BY <1>1, <1>2, <1>3, <1>4, <2>1 DEF StillOnce
  <2>2. CASE q \notin Q
    <3>1. requests'[q] = requests[q]
      BY <1>2, <2>2, RequestsCleared
    <3> QED  BY <1>1, <1>2, <1>3, <1>4, <2>2, <3>1 DEF StillOnce, Pending
  <2> QED  BY <2>1, <2>2
<1>5. OneOfEach(full[p]) /\ Knows(p)
  BY DEF OnceInv
<1>6. Knows(p)'
  BY <1>2, <1>5 DEF Knows, Forgotten
<1>7. OneOfEach(full[p])' /\ Lists(p)'
  <2>1. CASE writing' = writing
    <3>1. full'[p] = full[p]
      BY <1>2, <2>1 DEF full
    <3>2. OneOfEach(full[p])'
      BY <1>5, <3>1 DEF OneOfEach
    <3>3. Len(writing'[p]) = 0
      BY <1>2, <2>1
    <3> QED  BY <3>2, <3>3 DEF Lists
  <2>2. CASE writing' = [writing EXCEPT ![p] = Append(@, [id |-> None, term |-> t])]
    <3>1. PICK e \in Entry : e = [id |-> None, term |-> t]
      BY DEF Entry
    <3>2. /\ writing \in [Peer -> Seq(Entry)] /\ log[p] \in Seq(Entry)
          /\ writing[p] \in Seq(Entry) /\ Len(writing[p]) = 0
      BY <1>2 DEF TypeOK
    <3>3. writing'[p] = Append(writing[p], e)
      BY <2>2, <3>1, <3>2
    <3>4. full'[p] = Append(full[p], e) /\ full[p] \in Seq(Entry)
      <4>1. full[p] = log[p] \o writing[p] /\ full'[p] = log[p] \o writing'[p]
        BY <1>2 DEF full
      <4>2. log[p] \o Append(writing[p], e) = Append(log[p] \o writing[p], e)
        BY <3>2, JoinedAppend
      <4>3. full[p] \in Seq(Entry)
        BY FullOf
      <4> QED  BY <3>3, <4>1, <4>2, <4>3
    <3>5. e.id = None
      BY <3>1
    <3>6. OneOfEach(full[p])'
      <4>1. OneOfEach(Append(full[p], e))
        BY <1>5, <3>4, <3>5, OneMore
      <4> QED  BY <3>4, <4>1 DEF OneOfEach
    <3>7. Len(writing'[p]) = 1 /\ writing'[p][1] = e
      BY <3>2, <3>3, Longer
    <3>8. \A k \in 1..Len(writing'[p]) : writing'[p][k].id = None
      BY <3>5, <3>7
    <3> QED  BY <3>6, <3>8 DEF Lists
  <2> QED  BY <1>1, <2>1, <2>2
<1>8. \A q \in Peer : OneOfEach(full[q])' /\ Knows(q)' /\ Lists(q)'
  BY <1>4, <1>6, <1>7, OnceKept
<1> QED  BY <1>8 DEF OnceInv

\* An id that is taken is neither in the log nor about to be written.
LEMMA RequestUpdateOnce ==
  ASSUME TypeOK, OnceInv, NEW m \in asks, RequestUpdate(m)
  PROVE  OnceInv'
<1>1. /\ UNCHANGED <<log, leads, rids, age>> /\ m.to \in Peer /\ m.id \in Id
      /\ \/ UNCHANGED <<requests, writing>>
         \/ leads[m.to] /\ ~Pending(m.to, m.id) /\ Entered(m)
  BY RequestUpdateFacts
<1>2. PICK p \in Peer, n \in Id : p = m.to /\ n = m.id
  BY <1>1
<1>3. CASE UNCHANGED <<requests, writing>>
  <2>1. full' = full
    BY <1>1, <1>3 DEF full
  <2>2. \A r \in Peer : StillOnce(r)
    BY <1>1, <1>3, <2>1 DEF StillOnce, Pending
  <2> QED  BY <2>2, OnceKept DEF OnceInv
<1>4. CASE leads[p] /\ ~Pending(p, n) /\ Entered(m)
  <2>1. PICK i \in Nat : requests' = [requests EXCEPT ![p][n] = [index |-> i, live |-> m.live]]
    <3>1. rids[p][n] \in Nat
      BY DEF TypeOK
    <3> QED  BY <1>2, <1>4, <3>1 DEF Entered
  <2>2. /\ requests \in [Peer -> [Id -> Requested]] /\ writing \in [Peer -> Seq(Entry)]
        /\ log[p] \in Seq(Entry) /\ writing[p] \in Seq(Entry) /\ Len(writing[p]) \in Nat
        /\ m.live \in BOOLEAN
    BY LenProperties DEF TypeOK
  <2>3. /\ \A r \in Peer : r # p => requests'[r] = requests[r]
        /\ \A id \in Id : id # n => requests'[p][id] = requests[p][id]
        /\ requests'[p][n] # NoRequest
    <3>1. requests'[p][n] = [index |-> i, live |-> m.live]
      BY <2>1, <2>2
    <3>2. [index |-> i, live |-> m.live] # NoRequest
      <4>1. [index |-> i, live |-> m.live].index = i
        OBVIOUS
      <4> QED  BY <4>1 DEF NoRequest
    <3> QED  BY <2>1, <2>2, <3>1, <3>2
  <2>4. \A r \in Peer : r # p => writing'[r] = writing[r] /\ full'[r] = full[r]
    <3>1. \A r \in Peer : r # p => writing'[r] = writing[r]
      BY <1>2, <1>4, <2>2 DEF Entered
    <3> QED  BY <1>1, <3>1 DEF full
  <2>5. ASSUME NEW r \in Peer, r # p  PROVE StillOnce(r)
    BY <1>1, <2>3, <2>4, <2>5 DEF StillOnce, Pending
  <2>6. OneOfEach(full[p]) /\ Knows(p) /\ Lists(p)
    BY DEF OnceInv
  <2>7. ASSUME NEW k \in 1..Len(writing[p]), writing[p][k].id # None
        PROVE  requests'[p][writing[p][k].id] # NoRequest /\ writing[p][k].id # n
    <3>1. Pending(p, writing[p][k].id)
      BY <1>4, <2>6, <2>7 DEF Lists
    <3>2. writing[p][k].id \in Id
      BY <2>7, IdOf
    <3>3. writing[p][k].id # n
      BY <1>4, <3>1
    <3> QED  BY <2>3, <3>1, <3>2, <3>3 DEF Pending
  <2>8. CASE UNCHANGED writing
    <3>1. full' = full
      BY <1>1, <2>8 DEF full
    <3>2. StillOnce(p)
      BY <1>1, <1>4, <2>7, <2>8, <3>1 DEF StillOnce
    <3> QED  BY <2>5, <3>2, OnceKept DEF OnceInv
  <2>9. CASE rids[p][n] = 0 /\ Sane /\ writing' = [writing EXCEPT ![p] = Append(@, Mine(p, n))]
    <3>1. PICK e \in Entry : e = Mine(p, n) /\ e.id = n
      <4>1. term[p] \in Nat \ {0}
        BY DEF TypeOK
      <4>2. Mine(p, n) \in Entry /\ Mine(p, n).id = n
        BY <4>1 DEF Mine, Entry
      <4> QED  BY <4>2
    <3>2. writing'[p] = Append(writing[p], e)
      BY <2>2, <2>9, <3>1
    <3>3. full'[p] = Append(full[p], e) /\ full[p] \in Seq(Entry)
      <4>1. full[p] = log[p] \o writing[p] /\ full'[p] = log[p] \o writing'[p]
        BY <1>1 DEF full
      <4>2. log[p] \o Append(writing[p], e) = Append(log[p] \o writing[p], e)
        BY <2>2, JoinedAppend
      <4>3. full[p] \in Seq(Entry)
        BY FullOf
      <4> QED  BY <3>2, <4>1, <4>2, <4>3
    <3>4. ~Forgotten
      <4>1. age \in Nat
        BY DEF TypeOK
      <4> QED  BY <2>9, <4>1, TtlAssumption DEF Sane, Forgotten
    <3>5. n # None
      BY PeerAssumption
    <3>6. \A j \in 1..Len(log[p]) : log[p][j].id # n
      BY <2>6, <2>9, <3>4, <3>5 DEF Knows
    <3>7. \A k \in 1..Len(writing[p]) : writing[p][k].id # n
      BY <2>7, <3>5
    <3>8. \A j \in 1..Len(full[p]) : full[p][j].id # n
      <4>1. /\ \A j \in 1..Len(log[p]) : full[p][j] = log[p][j]
            /\ \A k \in 1..Len(writing[p]) : full[p][Len(log[p]) + k] = writing[p][k]
            /\ \A j \in 1..Len(full[p]) :
                 j \in 1..Len(log[p]) \/ \E k \in 1..Len(writing[p]) : j = Len(log[p]) + k
        BY FullOf
      <4> QED  BY <3>6, <3>7, <4>1
    <3>9. OneOfEach(full[p])'
      <4>1. OneOfEach(Append(full[p], e))
        BY <2>6, <3>1, <3>3, <3>8, OneMore
      <4> QED  BY <3>3, <4>1 DEF OneOfEach
    <3>10. Knows(p)'
      BY <1>1, <2>6 DEF Knows, Forgotten
    <3>11. Lists(p)'
      <4>1. /\ Len(writing'[p]) = Len(writing[p]) + 1 /\ writing'[p][Len(writing[p]) + 1] = e
            /\ \A k \in 1..Len(writing[p]) : writing'[p][k] = writing[p][k]
        BY <2>2, <3>2, Longer
      <4>2. ASSUME NEW k \in 1..Len(writing'[p]), writing'[p][k].id # None
            PROVE  requests'[p][writing'[p][k].id] # NoRequest
        <5>1. CASE k \in 1..Len(writing[p])
          BY <2>7, <4>1, <4>2, <5>1
        <5>2. CASE k = Len(writing[p]) + 1
          BY <2>3, <3>1, <4>1, <5>2
        <5> QED  BY <2>2, <4>1, <5>1, <5>2
      <4> QED  BY <4>2 DEF Lists, Pending, NoRequest
    <3>12. \A r \in Peer : OneOfEach(full[r])' /\ Knows(r)' /\ Lists(r)'
      BY <2>5, <3>9, <3>10, <3>11, OnceKept
    <3> QED  BY <3>12 DEF OnceInv
  <2> QED  BY <1>2, <1>4, <2>8, <2>9 DEF Entered
<1> QED  BY <1>1, <1>2, <1>3, <1>4

LEMMA QuietOnce ==
  ASSUME TypeOK, OnceInv, Quiet, age' \in Nat
  PROVE  OnceInv'
<1>1. /\ UNCHANGED <<log, leads, writing>> /\ SameTable /\ age <= age' /\ full' = full
      /\ rids' = rids \/ Forgotten
  BY DEF Quiet, full
<1>2. Forgotten => Forgotten'
  <2>1. age \in Nat
    BY DEF TypeOK
  <2> QED  BY <1>1, <2>1, TtlAssumption DEF Forgotten
<1>3. ASSUME NEW p \in Peer  PROVE OneOfEach(full[p])' /\ Knows(p)' /\ Lists(p)'
  <2>1. OneOfEach(full[p]) /\ Knows(p) /\ Lists(p)
    BY DEF OnceInv
  <2>2. OneOfEach(full[p])'
    BY <1>1, <2>1 DEF OneOfEach
  <2>3. Knows(p)'
    BY <1>1, <1>2, <2>1 DEF Knows
  <2>4. ASSUME leads'[p], NEW k \in 1..Len(writing'[p]), writing'[p][k].id # None
        PROVE  requests'[p][writing'[p][k].id] # NoRequest
    <3>1. writing'[p] = writing[p] /\ leads[p]
      BY <1>1, <2>4
    <3>2. requests[p][writing[p][k].id] # NoRequest
      BY <2>1, <2>4, <3>1 DEF Lists, Pending
    <3>3. writing[p][k].id \in Id
      BY <2>4, <3>1, IdOf
    <3> QED  BY <1>1, <3>1, <3>2, <3>3 DEF SameTable
  <2>5. Lists(p)'
    BY <2>4 DEF Lists, Pending, NoRequest
  <2> QED  BY <2>2, <2>3, <2>5
<1> QED  BY <1>3 DEF OnceInv

\* The entries of l before i are known in r, and the others are added.
LEMMA Known ==
  ASSUME NEW r \in [Id -> Nat], NEW l \in Seq(Entry), NEW i \in Nat \ {0}, NEW a,
         a = AddRids(r, l, i), ~Forgotten,
         \A k \in 1..Len(l) : k < i /\ l[k].id # None => r[l[k].id] # 0
  PROVE  \A k \in 1..Len(l) : l[k].id # None => a[l[k].id] # 0
<1> SUFFICES ASSUME NEW k \in 1..Len(l), l[k].id # None  PROVE a[l[k].id] # 0
  OBVIOUS
<1>1. l[k].id \in Id
  <2>1. l[k] \in Entry
    BY ElementOfSeq
  <2> QED  BY <2>1 DEF Entry
<1>2. PICK id \in Id : id = l[k].id
  BY <1>1
<1>3. \/ a[id] = r[id] /\ \A j \in i..Len(l) : l[j].id # id
      \/ a[id] \in i..Len(l)
  BY AddRidsIs
<1>4. Len(l) \in Nat
  BY LenProperties
<1>5. CASE a[id] = r[id] /\ \A j \in i..Len(l) : l[j].id # id
  <2>1. k \notin i..Len(l)
    BY <1>2, <1>5
  <2>2. k < i
    BY <1>4, <2>1
  <2> QED  BY <1>2, <1>5, <2>2
<1>6. CASE a[id] \in i..Len(l)
  BY <1>2, <1>4, <1>6
<1> QED  BY <1>3, <1>5, <1>6

LEMMA WriteOnce ==
  ASSUME TypeOK, OnceInv, NEW p \in Peer, Write(p)
  PROVE  OnceInv'
<1>1. /\ log' = [log EXCEPT ![p] = @ \o writing[p]] /\ writing' = [writing EXCEPT ![p] = <<>>]
      /\ full' = full /\ UNCHANGED <<leads, requests, age>>
      /\ rids' = [rids EXCEPT ![p] = AddRids(@, log[p] \o writing[p], Len(log[p]) + 1)]
  BY WriteFacts
<1>2. /\ full[p] = log[p] \o writing[p] /\ full[p] \in Seq(Entry)
      /\ Len(log[p]) \in Nat
      /\ \A i \in 1..Len(log[p]) : full[p][i] = log[p][i]
  BY FullOf
<1>3. /\ log'[p] = full[p] /\ rids'[p] = AddRids(rids[p], full[p], Len(log[p]) + 1)
      /\ writing'[p] = <<>>
      /\ \A r \in Peer : r # p => log'[r] = log[r] /\ rids'[r] = rids[r] /\ writing'[r] = writing[r]
  BY <1>1, <1>2 DEF TypeOK
<1>4. ASSUME NEW r \in Peer, r # p  PROVE StillOnce(r)
  BY <1>1, <1>3, <1>4 DEF StillOnce, Pending
<1>5. OneOfEach(full[p]) /\ Knows(p)
  BY DEF OnceInv
<1>6. OneOfEach(full[p])'
  BY <1>1, <1>5 DEF OneOfEach
<1>7. Lists(p)'
  <2>1. Len(writing'[p]) = 0
    BY <1>3
  <2> QED  BY <2>1 DEF Lists
<1>8. Knows(p)'
  <2> SUFFICES ASSUME ~Forgotten
               PROVE  \A k \in 1..Len(full[p]) : full[p][k].id # None => rids'[p][full[p][k].id] # 0
    BY <1>1, <1>3 DEF Knows, Forgotten
  <2>1. PICK r \in [Id -> Nat], l \in Seq(Entry), i \in Nat \ {0} :
          r = rids[p] /\ l = full[p] /\ i = Len(log[p]) + 1
    <3>1. rids[p] \in [Id -> Nat] /\ Len(log[p]) + 1 \in Nat \ {0}
      BY <1>2 DEF TypeOK
    <3> QED  BY <1>2, <3>1
  <2>2. PICK a : a = AddRids(r, l, i)
    OBVIOUS
  <2>3. rids'[p] = a
    BY <1>3, <2>1, <2>2
  <2>4. ASSUME NEW k \in 1..Len(l), k < i, l[k].id # None  PROVE r[l[k].id] # 0
    <3>1. k \in 1..Len(log[p])
      BY <1>2, <2>1, <2>4
    <3>2. l[k] = log[p][k]
      BY <1>2, <2>1, <3>1
    <3> QED  BY <1>5, <2>1, <2>4, <3>1, <3>2 DEF Knows
  <2>5. \A k \in 1..Len(l) : l[k].id # None => a[l[k].id] # 0
    BY <2>2, <2>4, Known
  <2> QED  BY <2>1, <2>3, <2>5
<1>9. \A r \in Peer : OneOfEach(full[r])' /\ Knows(r)' /\ Lists(r)'
  BY <1>4, <1>6, <1>7, <1>8, OnceKept
<1> QED  BY <1>9 DEF OnceInv

LEMMA ReplicateOnce ==
  ASSUME TypeOK, TableInv, OnceInv, NEW p \in Peer, NEW q \in Peer, Replicate(p, q)
  PROVE  OnceInv'
<1>1. /\ q # p /\ leads' = [leads EXCEPT ![q] = FALSE]
      /\ UNCHANGED <<writing, age>> /\ StepDown({q})
  BY ReplicateFacts
<1>2. ~leads'[q] /\ \A r \in Peer : r # q => leads'[r] = leads[r]
  BY <1>1 DEF TypeOK
<1>3. /\ \A r \in Peer : r # q => log'[r] = log[r] /\ full'[r] = full[r]
      /\ full'[q] = full[q] \/ full'[q] = log[p]
  BY GivenLog
<1>4. \A r \in Peer : r # q => rids'[r] = rids[r]
  <2>1. \/ rids' = rids
        \/ \E from \in Nat \ {0} :
             rids' = [rids EXCEPT ![q] = AddRids(DropRids(@, from), log[p], from)]
    BY ReplicateGives DEF Given
  <2> QED  BY <2>1 DEF TypeOK
<1>5. ASSUME NEW r \in Peer, r # q  PROVE StillOnce(r)
  <2>1. requests'[r] = requests[r]
    <3>1. {q} \in SUBSET Peer
      OBVIOUS
    <3> QED  BY <1>1, <1>5, <3>1, RequestsCleared
  <2> QED  BY <1>1, <1>2, <1>3, <1>4, <1>5, <2>1 DEF StillOnce, Pending
<1>6. OneOfEach(full[p]) /\ OneOfEach(full[q]) /\ Knows(q) /\ RidsRight(q)
  BY DEF OnceInv, TableInv
<1>7. OneOfEach(full[q])'
  <2>1. OneOfEach(log[p])
    <3>1. \A i \in 1..Len(log[p]) : i \in 1..Len(full[p]) /\ full[p][i] = log[p][i]
      BY FullOf
    <3> QED  BY <1>6, <3>1 DEF OneOfEach
  <2> QED  BY <1>3, <1>6, <2>1 DEF OneOfEach
<1>8. Lists(q)'
  BY <1>2 DEF Lists
<1>9. Knows(q)'
  <2>1. CASE log' = log /\ rids' = rids
    BY <1>1, <1>6, <2>1 DEF Knows, Forgotten
  <2>2. CASE /\ log' = [log EXCEPT ![q] = log[p]]
             /\ \E from \in Nat \ {0} :
                  /\ \A k \in 1..Len(log[p]) : k < from => k <= Len(log[q]) /\ log[q][k] = log[p][k]
                  /\ rids' = [rids EXCEPT ![q] = AddRids(DropRids(@, from), log[p], from)]
    <3>1. PICK from \in Nat \ {0} :
            /\ \A k \in 1..Len(log[p]) : k < from => k <= Len(log[q]) /\ log[q][k] = log[p][k]
            /\ rids' = [rids EXCEPT ![q] = AddRids(DropRids(@, from), log[p], from)]
      BY <2>2
    <3>2. /\ rids[q] \in [Id -> Nat] /\ rids \in [Peer -> [Id -> Nat]]
          /\ log \in [Peer -> Seq(Entry)] /\ log[p] \in Seq(Entry)
          /\ Len(log[p]) \in Nat /\ Len(log[q]) \in Nat
      BY LenProperties DEF TypeOK
    <3>3. rids'[q] = AddRids(DropRids(rids[q], from), log[p], from) /\ log'[q] = log[p]
      BY <2>2, <3>1, <3>2
    <3> SUFFICES ASSUME ~Forgotten
                 PROVE  \A k \in 1..Len(log[p]) : log[p][k].id # None => rids'[q][log[p][k].id] # 0
      BY <1>1, <3>3 DEF Knows, Forgotten
    <3>4. PICK d \in [Id -> Nat] :
            /\ d = DropRids(rids[q], from)
            /\ \A id \in Id : d[id] = IF rids[q][id] >= from THEN 0 ELSE rids[q][id]
      BY <3>2, RidsType
    <3>5. PICK l \in Seq(Entry) : l = log[p]
      BY <3>2
    <3>6. PICK a : a = AddRids(d, l, from)
      OBVIOUS
    <3>7. rids'[q] = a
      BY <3>3, <3>4, <3>5, <3>6
    <3>8. ASSUME NEW k \in 1..Len(l), k < from, l[k].id # None  PROVE d[l[k].id] # 0
      <4>1. k \in 1..Len(log[q]) /\ log[q][k] = l[k]
        <5>1. k <= Len(log[q]) /\ log[q][k] = log[p][k]
          BY <3>1, <3>5, <3>8
        <5> QED  BY <3>2, <3>5, <5>1
      <4>2. PICK id \in Id : id = l[k].id
        <5>1. l[k] \in Entry
          BY ElementOfSeq
        <5> QED  BY <3>8, <5>1 DEF Entry
      <4>3. rids[q][id] # 0
        BY <1>6, <3>8, <4>1, <4>2 DEF Knows
      <4>4. rids[q][id] \in 1..Len(log[q]) /\ log[q][rids[q][id]].id = id
        BY <1>6, <4>3 DEF RidsRight
      <4>5. rids[q][id] = k
        <5>1. PICK j \in 1..Len(log[q]) : j = rids[q][id]
          BY <4>4
        <5>2. /\ j \in 1..Len(full[q]) /\ full[q][j] = log[q][j]
              /\ k \in 1..Len(full[q]) /\ full[q][k] = log[q][k]
          BY <4>1, FullOf
        <5>3. full[q][j].id = full[q][k].id /\ full[q][k].id # None
          BY <3>8, <4>1, <4>2, <4>4, <5>1, <5>2
        <5> QED  BY <1>6, <5>1, <5>2, <5>3 DEF OneOfEach
      <4>6. ~ (rids[q][id] >= from)
        BY <3>2, <3>8, <4>1, <4>5
      <4> QED  BY <3>4, <4>2, <4>3, <4>6
    <3>9. \A k \in 1..Len(l) : l[k].id # None => a[l[k].id] # 0
      BY <3>6, <3>8, Known
    <3> QED  BY <3>5, <3>7, <3>9
  <2>3. Given(p, q)
    BY ReplicateGives
  <2> QED  BY <2>1, <2>2, <2>3 DEF Given
<1>10. \A r \in Peer : OneOfEach(full[r])' /\ Knows(r)' /\ Lists(r)'
  BY <1>5, <1>7, <1>8, <1>9, OnceKept
<1> QED  BY <1>10 DEF OnceInv

LEMMA InitOnce ==
  Init => OnceInv
<1> SUFFICES ASSUME Init, NEW p \in Peer  PROVE OneOfEach(full[p]) /\ Knows(p) /\ Lists(p)
  BY DEF OnceInv
<1>1. log[p] = <<>> /\ writing[p] = <<>>
  BY DEF Init
<1>2. TypeOK
  BY InitType
<1>3. Len(full[p]) = 0 /\ Len(log[p]) = 0 /\ Len(writing[p]) = 0
  <2>1. Len(full[p]) = Len(log[p]) + Len(writing[p])
    BY <1>2, FullOf
  <2> QED  BY <1>1, <2>1
<1> QED  BY <1>3 DEF OneOfEach, Knows, Lists

LEMMA NextOnce ==
  SlowDisk = FALSE /\ UpdatesInv /\ OnceInv /\ [Next]_vars => OnceInv'
<1> SUFFICES ASSUME SlowDisk = FALSE, UpdatesInv, OnceInv, [Next]_vars  PROVE OnceInv'
  OBVIOUS
<1>0. TypeOK /\ CommitInv /\ TableInv
  BY DEF UpdatesInv
<1>1. ASSUME NEW p \in Peer, NEW Q \in Voters, NEW el \in Elected, Stand(p, Q, el)  PROVE OnceInv'
  BY <1>0, <1>1, StandOnce, ElectionAssumption
<1>2. ASSUME NEW p \in Peer, NEW q \in Peer, Replicate(p, q)  PROVE OnceInv'
  BY <1>0, <1>2, ReplicateOnce
<1>3. ASSUME NEW p \in Peer, NEW i \in 1..Len(log[p]), Commit(p, i)  PROVE OnceInv'
  BY <1>0, <1>3, CommitOnce
<1>4. ASSUME NEW p \in Peer, Apply(p)  PROVE OnceInv'
  BY <1>0, <1>4, ApplyOnce
<1>5. ASSUME NEW p \in Peer, Write(p)  PROVE OnceInv'
  BY <1>0, <1>5, WriteOnce
<1>6. ASSUME NEW p \in Peer, Resolve(p)  PROVE OnceInv'
  BY <1>0, <1>6, ResolveOnce
<1>7. ASSUME NEW m \in asks, RequestUpdate(m)  PROVE OnceInv'
  BY <1>0, <1>7, RequestUpdateOnce
<1>8. ASSUME TypeOK', Quiet  PROVE OnceInv'
  <2>1. age' \in Nat
    BY <1>8 DEF TypeOK
  <2> QED  BY <1>0, <1>8, <2>1, QuietOnce
<1>9. CASE UNCHANGED vars
  <2>1. /\ UNCHANGED <<log, leads, writing, rids, requests, age>>
    BY <1>9 DEF vars, cluster
  <2>2. full' = full
    BY <2>1 DEF full
  <2>3. \A r \in Peer : StillOnce(r)
    BY <2>1, <2>2 DEF StillOnce, Pending
  <2> QED  BY <2>3, OnceKept DEF OnceInv
<1> QED  BY <1>0, <1>1, <1>2, <1>3, <1>4, <1>5, <1>6, <1>7, <1>8, <1>9, QuietSteps DEF Next

\* An update is applied once, however often the client repeats its request and
\* whoever it asks, as long as a peer that is elected has written what it
\* accepted when it led before (zmq_raft_client.js:426; raft_server.js:177-226;
\* filelog.js:1045-1071).
THEOREM UpdatesApplyOnce ==
  ASSUME SlowDisk = FALSE
  PROVE  Spec => []AppliedOnce
<1>1. Init => OnceInv
  BY InitOnce
<1>2. UpdatesInv /\ OnceInv /\ [Next]_vars => OnceInv'
  BY NextOnce
<1>3. UpdatesInv /\ OnceInv => AppliedOnce
  <2> SUFFICES ASSUME UpdatesInv, OnceInv, NEW p \in Peer,
                      NEW i \in 1..commit[p], NEW j \in 1..commit[p],
                      log[p][i].id = log[p][j].id, log[p][i].id # None
               PROVE  i = j
    BY DEF AppliedOnce
  <2>1. /\ commit[p] \in Nat /\ commit[p] <= Len(log[p])
        /\ \A k \in 1..Len(log[p]) : k \in 1..Len(full[p]) /\ full[p][k] = log[p][k]
        /\ Len(log[p]) \in Nat
    BY FullOf DEF UpdatesInv, TypeOK, CommitInv
  <2>2. i \in 1..Len(log[p]) /\ j \in 1..Len(log[p])
    BY <2>1
  <2>3. OneOfEach(full[p])
    BY DEF OnceInv
  <2> QED  BY <2>1, <2>2, <2>3 DEF OneOfEach
<1> QED  BY <1>1, <1>2, <1>3, UpdatesInvariant, PTL DEF Spec
=============================================================================
