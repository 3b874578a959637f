-------------------------- MODULE MCForgottenTerm --------------------------
(***************************************************************************)
(* One schedule of ZmqRaft with five peers.  Peer pk is told of a new term,*)
(* acts on it and ends before the term is on its disk; it then helps the   *)
(* leader of the earlier term to commit, and takes back what it stored for *)
(* the leader of the later one, which trusts the answer it got before.     *)
(***************************************************************************)
EXTENDS Scheduled

\* pa, pb and px lead the terms 2, 3 and 4.
CONSTANTS pa, pb, pk, px, py

\* c stands for election, and i and j vote for it; with the answer of j it is
\* elected.
Stand(c, i, j) == Candidacy(c) \o Vote(c, i) \o Tally(c, i) \o Vote(c, j)

\* i sends entries to j, which stores them and answers.
Replicate(i, j) == << <<"send", i, j>>, <<"append", i, j>>, <<"acked", i, j>> >>

Schedule ==
     Stand(pa, pb, px) \o Tally(pa, px)
  \o << <<"flush", pa, pa>>, <<"append", pa, pb>>, <<"acked", pa, pb>> >> \o Replicate(pa, pb)
  \* pk has no entries, and pa is about to send it all of its own
  \o << <<"append", pa, pk>>, <<"stored", pk, pa>>, <<"acked", pa, pk>>, <<"send", pa, pk>> >>
  \o Stand(pb, px, py) \o << <<"ask", pb, pk>> >> \o Tally(pb, py)
  \* pk answers pb before it has stored pb's term
  \o << <<"append", pb, pk>>, <<"crash", pk, pk>>, <<"acked", pb, pk>> >>
  \o << <<"append", pa, pk>>, <<"acked", pa, pk>> >>
  \o << <<"send", pb, pk>>, <<"append", pb, pk>>, <<"stored", pk, pb>> >>
  \o Stand(px, py, pk) \o Tally(px, pk)

\* All were stopped in term 1, which pa won without pk.  All but pk have stored an
\* entry of it.
ScheduledInit ==
  /\ Started([i \in Server |-> 1], [i \in Server |-> IF i = pk THEN None ELSE pa],
             [i \in Server |-> IF i = pk THEN <<>>
                               ELSE << [term |-> 1, val |-> CHOOSE v \in Value : TRUE] >>])
  /\ played = 0

ScheduledSpec == ScheduledInit /\ [][Play(Schedule)]_<<vars, played>>
=============================================================================
