----------------------------- MODULE Scheduled -----------------------------
(***************************************************************************)
(* Behaviours of ZmqRaft in which the steps come in a given order: the     *)
(* counterexamples that are too long for a search.  Each step is an action *)
(* of ZmqRaft, taken at one or between two peers.                          *)
(***************************************************************************)
EXTENDS ZmqRaft

VARIABLE played   \* how many steps of the schedule have been taken

\* c stands for election.
Candidacy(c) == << <<"timeout", c, c>>, <<"persisted", c, c>> >>

\* c asks i, which has to store its vote before it answers.
Vote(c, i) == << <<"ask", c, i>>, <<"voted", i, c>> >>
Tally(c, i) == << <<"tally", c, i>> >>

Step(name, i, j) ==
  \/ name = "timeout"   /\ ElectionTimeout(i)
  \/ name = "persisted" /\ ElectionPersisted(i)
  \/ name = "ask"       /\ VoteRequest(i, j)
  \/ name = "voted"     /\ VotePersisted(i)
  \/ name = "tally"     /\ VoteResponse(i, j)
  \/ name = "flush"     /\ Flush(i)
  \/ name = "send"      /\ SendAppend(i, j)
  \/ name = "append"    /\ AppendRequest(i, j)
  \/ name = "stored"    /\ AppendPersisted(i)
  \/ name = "acked"     /\ AppendResponse(i, j)
  \/ name = "beginread" /\ BeginRead(i, j)
  \/ name = "endread"   /\ EndRead(i)
  \/ name = "queued"    /\ NothingPersisted(i)
  \/ name = "crash"     /\ Crash(i)

Play(schedule) ==
  /\ played < Len(schedule)
  /\ played' = played + 1
  /\ Step(schedule[played'][1], schedule[played'][2], schedule[played'][3])
=============================================================================
