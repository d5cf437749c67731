------------------------------ MODULE MCPeople ------------------------------
(* Supporters and staff: the components are independent, and a behaviour explores one of
   them, named by part. *)
EXTENDS Founders, LinkPatreon, MemberSync, StaffActions, TLC

CONSTANTS patron1, patron2, donor1, account1, account2, steam1, steam2, n1, n2, k1, k2, i1, v1

\* n1, n2: transactions, flows and page reads; k1, k2: codes and changes.
Symmetric == Permutations({n1, n2}) \cup Permutations({k1, k2})
ApprovedApplications == {<<account1, steam1>>}
PendingApplications == {<<account1, steam2>>}
FirstPayments == (patron1 :> 1) @@ (patron2 :> 2) @@ (donor1 :> 1)
LinkOf(discord, from, steam, copied, reported) ==
  [discord |-> discord, from |-> from, steam |-> steam, copied |-> copied, reported |-> reported]
Opening(ofA, ofB, ofP, started) == [link |-> (patron1 :> ofA) @@ (patron2 :> ofB) @@ (donor1 :> ofP), founders |-> started]
RecordOpenings ==
  {Opening(Unlinked, Unlinked, Unlinked, {}),
   Opening(LinkOf(account1, "patreon", None, FALSE, account1), LinkOf(account2, "patreon", None, FALSE, account2),
           LinkOf(account1, "staff", None, FALSE, None), {}),
   Opening(LinkOf(account1, "patreon", None, FALSE, None), LinkOf(None, None, steam1, FALSE, None), Unlinked, {}),
   Opening(LinkOf(account1, "patreon", steam1, TRUE, account1), Unlinked, LinkOf(None, None, steam2, FALSE, None), {}),
   Opening(LinkOf(None, None, steam2, FALSE, None), Unlinked, LinkOf(account1, "staff", None, FALSE, None), {patron1, donor1})}
SameAction == (k1 :> i1) @@ (k2 :> i1)

VARIABLE part  \* the component this behaviour explores

Parts == {"founders", "link", "sync", "actions"}

\* The others stay in one of their initial states.
Init ==
  /\ part \in Parts
  /\ FoundersInit /\ (part # "founders" => link = [r \in Records |-> Unlinked])
  /\ LinkInit
  /\ MatchInit
  /\ StaffInit /\ (part # "actions" => roleNow = 0)

Next ==
  \/ /\ part = "founders" /\ FoundersNext
     /\ UNCHANGED <<part, linkVars, matchVars, staffVars>>
  \/ /\ part = "link" /\ LinkNext
     /\ UNCHANGED <<part, foundersVars, matchVars, staffVars>>
  \/ /\ part = "sync" /\ MatchNext
     /\ UNCHANGED <<part, foundersVars, linkVars, staffVars>>
  \/ /\ part = "actions" /\ StaffNext
     /\ UNCHANGED <<part, foundersVars, linkVars, matchVars>>
vars == <<part, foundersVars, linkVars, matchVars, staffVars>>
Spec == Init /\ [][Next]_vars

\* Every component keeps its types: founders, sign-ins, imports and staff requests.
TypeOK ==
  /\ part = "founders" => FoundersTypeOK
  /\ part = "link" => LinkTypeOK
  /\ part = "sync" => MatchTypeOK
  /\ part = "actions" => StaffTypeOK

\* What is recorded of founders holds: see Founders.
SupportersHold == TypeOK /\ (part = "founders" => FoundersHold)
======================================================================
