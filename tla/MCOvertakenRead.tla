-------------------------- MODULE MCOvertakenRead --------------------------
(***************************************************************************)
(* One schedule of ZmqRaft with three peers.  While pb, a candidate, waits *)
(* for the log file on behalf of the leader of its own term, it learns of  *)
(* a later term, stands for election and wins; then the handler goes on    *)
(* and takes pb back to the term and the vote it captured, so that pb      *)
(* votes once more in the term that it leads.                              *)
(***************************************************************************)
EXTENDS Scheduled

\* pa leads the term 2; pb and pc both lead the term 4.
CONSTANTS pa, pb, pc

Schedule ==
     Candidacy(pa) \o Candidacy(pb)
  \o Vote(pa, pc) \o Tally(pa, pc)
  \* pb holds on to its term, so that pc may stand again; pc tells pb of its own
  \o Candidacy(pc) \o << <<"ask", pc, pb>> >> \o Tally(pc, pb)
  \o << <<"ask", pb, pc>> >>
  \o << <<"beginread", pa, pb>> >>
  \o Tally(pb, pc) \o << <<"queued", pb, pb>> >>
  \o Candidacy(pb) \o Vote(pb, pa) \o Tally(pb, pa)
  \o << <<"endread", pb, pb>>, <<"stored", pb, pa>> >>
  \o Candidacy(pc) \o Vote(pc, pb) \o Tally(pc, pb)

Update == [term |-> 1, val |-> CHOOSE v \in Value : TRUE]

\* All were stopped in term 1, whose leader pb had not replicated its last entry.
ScheduledInit ==
  /\ Started([i \in Server |-> 1], [i \in Server |-> pb],
             [i \in Server |-> IF i = pb THEN <<Update, Update>> ELSE <<Update>>])
  /\ played = 0

ScheduledSpec == ScheduledInit /\ [][Play(Schedule)]_<<vars, played>>
=============================================================================
