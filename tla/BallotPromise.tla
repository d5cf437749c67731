----------------------------- MODULE BallotPromise -----------------------------
(***************************************************************************)
(* What voting promises members and staff, whatever its handlers do: one   *)
(* unfinished ballot at a time; choices are taken only while a ballot is   *)
(* open; the count is made once, from the choices as they then stand; a    *)
(* doubtful ballot never opens or counts again; a result is final.         *)
(***************************************************************************)
EXTENDS FiniteSets, Naturals

CONSTANTS Ballots, Users, Choices, NoChoice,
          Outright   \* choices that never win a tie

VARIABLES status, choice, winner
vars == <<status, choice, winner>>

Results == {"queued", "no_votes", "tied", "cancelled"}
Unfinished == {b \in Ballots : status[b] \notin Results \cup {"none"}}

VotersOf(b, c) == {u \in Users : choice[b][u] = c}
Leads(b, c) == /\ VotersOf(b, c) # {}
               /\ \A d \in Choices : Cardinality(VotersOf(b, d))
                                       <= Cardinality(VotersOf(b, c))
LeadsAlone(b, c) == Leads(b, c) /\ \A d \in Choices \ {c} : ~Leads(b, d)
\* A choice ahead of all others always wins; a tie has a winner or none.
MayWin(b, c) ==
  IF \E d \in Choices : LeadsAlone(b, d)
    THEN c \in Choices /\ LeadsAlone(b, c)
    ELSE c = NoChoice \/ (c \in Choices \ Outright /\ Leads(b, c))

Init == /\ status = [b \in Ballots |-> "none"]
        /\ choice = [b \in Ballots |-> [u \in Users |-> NoChoice]]
        /\ winner = [b \in Ballots |-> NoChoice]

Become(b, from, to) == status[b] \in from /\ status' = [status EXCEPT ![b] = to]

Create(b) == /\ Unfinished = {}
             /\ Become(b, {"none"}, "publishing")
             /\ UNCHANGED <<choice, winner>>
Open(b) == Become(b, {"publishing"}, "open") /\ UNCHANGED <<choice, winner>>
Vote(b, u, c) == /\ status[b] = "open"
                 /\ choice' = [choice EXCEPT ![b][u] = c]
                 /\ UNCHANGED <<status, winner>>
Count(b) == /\ Become(b, {"open"}, "closing")
            /\ \E c \in Choices \cup {NoChoice} :
                 MayWin(b, c) /\ winner' = [winner EXCEPT ![b] = c]
            /\ UNCHANGED choice
Doubt(b) == /\ Become(b, {"publishing", "closing"}, "needs_review")
            /\ UNCHANGED <<choice, winner>>
\* Only a ballot with a winner is queued, only one without it is tied or empty.
Conclude(b, result) ==
  /\ Become(b, {"closing", "needs_review"}, result)
  /\ result = "queued" => winner[b] # NoChoice
  /\ result \in {"tied", "no_votes"} => winner[b] = NoChoice /\ status[b] = "closing"
  /\ UNCHANGED <<choice, winner>>
Withdraw(b) == Become(b, {"open"}, "cancelled") /\ UNCHANGED <<choice, winner>>

Next == \E b \in Ballots :
          \/ Create(b) \/ Open(b) \/ Count(b) \/ Doubt(b) \/ Withdraw(b)
          \/ \E u \in Users, c \in Choices : Vote(b, u, c)
          \/ \E result \in Results : Conclude(b, result)

Spec == Init /\ [][Next]_vars
===============================================================================
