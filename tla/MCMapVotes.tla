------------------------------ MODULE MCMapVotes ------------------------------
(* Instances of MapVotes for TLC. *)
EXTENDS MapVotes, TLC

CONSTANTS a1, a2, a3, v1, u1, u2, m1, m2, s1, s2, w1, w2

\* One ballot beside a person's actions; or up to three ballots that all end refused, for
\* the refusal brake. The automatic ballots are alike, so they are planned in the order of
\* their names.
Planned(v) == row[v] # NoRow
InOrder == (Planned(a2) => Planned(a1)) /\ (Planned(a3) => Planned(a2))
OneBallot == ~Planned(a2) /\ game.round <= 1
OnlyRefusals ==
  /\ \A v \in Existing : voteState[v] \in FinalStates => outcome[v] = "refused"
  /\ staffOp[s1] = "none" /\ game.revision = 0
StaffOrBrake == InOrder /\ (OneBallot \/ OnlyRefusals)

\* One ballot with two voters, two maps and one worker; or one voter, one map and two workers.
OneWorker == pc[w2] = "idle" /\ cur[w2] = NoVote /\ game.round = 0 /\ Len(order) <= 1
OneVoter == \A v \in Votes : ballots[v][u2] = NoChoice /\ m2 \notin {ballots[v][u1], winner[v]}
Mixed == OneWorker \/ OneVoter
===============================================================================
