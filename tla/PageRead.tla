------------------------------ MODULE PageRead ------------------------------
(***************************************************************************)
(* A dashboard page's read of one resource (use-resource.ts): what is shown  *)
(* and whether a newer read is under way. A new read drops the one before. A *)
(* failed read keeps what is shown and locks the page until the next: to the *)
(* page it is a longer one. Between the server's answer and its arrival the  *)
(* page does nothing that depends on the difference, so they are one step.   *)
(***************************************************************************)
LOCAL INSTANCE Integers

Unread == [version |-> 0 - 1]

FirstRead == [data |-> Unread, asked |-> TRUE]
AskedAgain(r) == [r EXCEPT !.asked = TRUE]
ShownNow(snapshot) == [data |-> snapshot, asked |-> FALSE]

Shown(r) == r.data # Unread
\* loading and refreshing: a form may be filled in while a newer read is under way, but not saved.
Steady(r) == Shown(r) /\ ~r.asked
PageReads(Snapshots) == [data : Snapshots \cup {Unread}, asked : BOOLEAN]
=============================================================================
