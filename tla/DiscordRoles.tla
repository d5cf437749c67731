----------------------------- MODULE DiscordRoles -----------------------------
(***************************************************************************)
(* The earned Discord roles (src/discord-roles): the records that give a   *)
(* member a reason to hold a role, the members and staff of the Discord    *)
(* server, the ledger of role changes, the queues of members to check and  *)
(* the pass that checks them one by one.                                   *)
(*                                                                         *)
(* A pass reads all reasons once. For each member it then reads the roles  *)
(* from Discord and decides about each role from the newest ledger row; a  *)
(* change is recorded, sent and completed in three steps. Reasons, members *)
(* and staff change in between, and the process may be restarted anywhere. *)
(***************************************************************************)
EXTENDS Naturals, Sequences, FiniteSets

CONSTANTS
  Users,
  Nobody,
  Kinds,        \* the configured roles, among ROLE_KINDS
  QueueLimit,   \* MAX_QUEUED_USERS, 5000 in the code
  WriteBudget,  \* MAX_WRITES_PER_PASS, 50 in the code
  MaxStay       \* bound: times a member joins the server

ASSUME RolesAssumption ==
  /\ Nobody \notin Users /\ IsFiniteSet(Users)
  /\ Kinds \subseteq {"member", "founder", "supporter"}
  /\ {QueueLimit, WriteBudget, MaxStay} \subseteq Nat \ {0}

VARIABLES
  reason,    \* by member and role: "none", "holds" or, for an application, "revoked"
  stay,      \* how often the member has joined the server
  here,      \* members who are in the server
  has,       \* the roles a member has
  row,       \* newest applied, unknown or started ledger row of a member's role
  full, pending, deferred, resting,  \* fullPending, pendingUsers, deferredUsers, backoff
  step,      \* the pass's step
  origin,    \* what it was started for: "full", "users" or "staff"
  asked, todo, usable, writes, saw,  \* its members, those left, roles, changes, reasons
  user, view, left, job,  \* the member being checked, as read, roles left, the change
  answer,    \* what Discord said of it
  given,     \* history: who gave the role a member has
  noted,     \* history: the stay of the last note on a member's role
  owed,      \* history: members whose change was queued and not yet dealt with
  seen       \* history: those of them whose change the running pass has read

world == <<reason, stay, here, has, given>>
queues == <<full, pending, deferred, resting>>
passVars == <<origin, asked, todo, usable, writes, saw>>
checkVars == <<user, view, left, job, answer>>
debt == <<owed, seen>>
vars == <<world, row, queues, step, passVars, checkVars, noted, debt>>

Row(op, sure, at) == [op |-> op, sure |-> sure, stay |-> at]
NoRow == Row("none", TRUE, 0)
NoJob == [kind |-> "none", op |-> "none", old |-> NoRow]
NoView == [stay |-> 0, has |-> {}]
Reasons == [Kinds -> {"none", "holds", "revoked"}]
Blank == [k \in Kinds |-> "none"]

Init ==
  /\ reason \in [Users -> {r \in Reasons : \A k \in Kinds :
                             r[k] = "revoked" => k = "member"}]
  /\ stay = [u \in Users |-> 1] /\ here = Users
  /\ has = [u \in Users |-> {}] /\ row = [u \in Users |-> [k \in Kinds |-> NoRow]]
  /\ full = TRUE /\ pending = {} /\ deferred = {} /\ resting = {}
  /\ step = "idle" /\ origin = "full" /\ asked = {} /\ todo = {} /\ usable = {}
  /\ writes = 0 /\ saw = [u \in Users |-> Blank]
  /\ user = Nobody /\ view = NoView /\ left = {} /\ job = NoJob /\ answer = "none"
  /\ given = [u \in Users |-> [k \in Kinds |-> "none"]]
  /\ noted = [u \in Users |-> [k \in Kinds |-> 0]]
  /\ owed = {} /\ seen = {}

-------------------------------------------------------------------------------
(* Records, members and staff.                                              *)

\* A full queue drops the check; the safety pass covers the member later.
Enqueue(u) ==
  /\ pending' = IF Cardinality(pending) < QueueLimit THEN pending \cup {u} ELSE pending
  /\ owed' = owed \cup ({u} \cap pending')
  /\ seen' = seen \ ({u} \cap pending')
  /\ UNCHANGED <<full, deferred, resting>>

WorldOnly == UNCHANGED <<row, step, passVars, checkVars, noted>>

ReasonOf(k) == IF k = "member" THEN {"none", "holds", "revoked"} ELSE {"none", "holds"}
ReasonChanges(u, k) ==
  /\ \E r \in ReasonOf(k) \ {reason[u][k]} : reason' = [reason EXCEPT ![u][k] = r]
  /\ Enqueue(u)
  /\ UNCHANGED <<stay, here, has, given>> /\ WorldOnly
\* A 7- or 31-day window of support runs out: no event tells.
SupportRunsOut(u) ==
  /\ "supporter" \in Kinds /\ reason[u]["supporter"] = "holds"
  /\ reason' = [reason EXCEPT ![u]["supporter"] = "none"]
  /\ UNCHANGED <<stay, here, has, given, queues, debt>> /\ WorldOnly

Gives(u, k, who) == /\ has' = [has EXCEPT ![u] = @ \cup {k}]
                    /\ given' = [given EXCEPT ![u][k] = who]
Takes(u, ks) == /\ has' = [has EXCEPT ![u] = @ \ ks]
                /\ given' = [given EXCEPT ![u] = [k \in Kinds |->
                               IF k \in ks THEN "none" ELSE @[k]]]
StaffGive(u, k) ==
  /\ u \in here /\ k \notin has[u] /\ Gives(u, k, "staff")
  /\ UNCHANGED <<reason, stay, here, queues, debt>> /\ WorldOnly
StaffTake(u, k) ==
  /\ k \in has[u] /\ Takes(u, {k})
  /\ UNCHANGED <<reason, stay, here, queues, debt>> /\ WorldOnly
Leave(u) ==
  /\ u \in here /\ here' = here \ {u} /\ Takes(u, Kinds)
  /\ UNCHANGED <<reason, stay, queues, debt>> /\ WorldOnly
Join(u) ==
  /\ u \notin here /\ stay[u] < MaxStay
  /\ here' = here \cup {u} /\ stay' = [stay EXCEPT ![u] = @ + 1]
  /\ Enqueue(u)
  /\ UNCHANGED <<reason, has, given>> /\ WorldOnly

-------------------------------------------------------------------------------
(* Decisions about one role, from its reason, its presence and its ledger.  *)

\* Mutated form of Current: leaving the server forgets nothing.
AnyStay(entry, joined) == entry
\* Rows from before the member joined this time do not count.
Current(entry, joined) == IF entry.stay >= joined THEN entry ELSE NoRow
\* Mutated form of HeldRow: an unconfirmed removal is taken for a removal.
HeldAdd(entry) == entry.op = "add"
\* heldBasis: a role Gramps may still have to remove.
HeldRow(entry) == entry.op = "add" \/ (entry.op = "remove" /\ ~entry.sure)

\* Mutated form of Adds: only a role known to be Gramps' own is left alone.
AddsAgain(why, present, e) == why = "wanted" /\ ~present /\ (e.op = "add" => ~e.sure)
Adds(why, present, e) ==
  /\ why = "wanted" /\ ~present
  /\ e.op \in {"none", "remove"} \/ (e.op = "add" /\ ~e.sure)
Removes(why, present, e) == why = "ended" /\ present /\ HeldRow(e)
Confirms(why, present, e) ==
  /\ ~e.sure
  /\ \/ why = "wanted" /\ present /\ e.op = "add"
     \/ why = "ended" /\ ~present /\ e.op = "remove"
\* Mutated form of Notes: an unconfirmed removal is not told from a confirmed one.
NotesUnsure(why, present, e) ==
  \/ why = "wanted" /\ present /\ e.op \in {"none", "remove"}
  \/ why = "wanted" /\ ~present /\ e.sure /\ e.op = "add"
  \/ why = "ended" /\ ~present /\ e.op = "add"
Notes(why, present, e) ==
  \/ why = "wanted" /\ present /\ e.sure /\ e.op \in {"none", "remove"}
  \/ why = "wanted" /\ ~present /\ e.sure /\ e.op = "add"
  \/ why = "ended" /\ ~present /\ e.op = "add"

\* What a pass makes of the records: the founder role has no end.
Wanted(u, k) == reason[u][k] = "holds"
Ended(u, k) == \/ k = "member" /\ reason[u][k] = "revoked"
               \/ k = "supporter" /\ ~Wanted(u, k) /\ HeldRow(row[u][k])
Why(u, k) == IF Wanted(u, k) THEN "wanted" ELSE IF Ended(u, k) THEN "ended" ELSE "none"

-------------------------------------------------------------------------------
(* The timer: what is due, and which pass starts.                           *)

QueuesOnly == UNCHANGED <<world, row, step, passVars, checkVars, noted, debt>>

SafetyPass == ~full /\ full' = TRUE /\ UNCHANGED <<pending, deferred, resting>> /\ QueuesOnly
\* A deferred check is due, a backoff is over.
Due(u) == /\ u \in deferred /\ deferred' = deferred \ {u} /\ pending' = pending \cup {u}
          /\ UNCHANGED <<full, resting>> /\ QueuesOnly
Rested(u) == /\ u \in resting /\ resting' = resting \ {u}
             /\ UNCHANGED <<full, pending, deferred>> /\ QueuesOnly

Begin(from, users) ==
  /\ step = "idle" /\ step' = "read"
  /\ origin' = from /\ asked' = users /\ todo' = users
  /\ usable' = {} /\ writes' = 0 /\ saw' = [u \in Users |-> Blank]
  /\ UNCHANGED <<world, row, checkVars, noted, owed>> /\ seen' = {}
StartFull == /\ full /\ full' = FALSE /\ pending' = {} /\ Begin("full", Users)
             /\ UNCHANGED <<deferred, resting>>
StartUsers == /\ pending # {} /\ pending' = {} /\ Begin("users", pending)
              /\ UNCHANGED <<full, deferred, resting>>
\* reconcile: everyone or one member; the queues keep what they hold.
StaffRun == /\ \E users \in {Users} \cup {{u} : u \in Users} : Begin("staff", users)
            /\ UNCHANGED queues

-------------------------------------------------------------------------------
(* The pass.                                                                *)

PassSame == UNCHANGED <<origin, asked, usable, writes, saw>>
EndCheck == user' = Nobody /\ view' = NoView /\ left' = {} /\ job' = NoJob /\ answer' = "none"
\* The member's change was dealt with, unless another one came after the reading.
Settled(us) == owed' = owed \ (seen \cap us) /\ seen' = seen \ us
Over == /\ step' = "idle" /\ todo' = {} /\ usable' = {} /\ writes' = 0
        /\ origin' = "full" /\ asked' = {} /\ saw' = [u \in Users |-> Blank]
        /\ EndCheck

\* check: no role can be assigned. Staff have to fix the setup; nothing is queued again.
SetupRefused ==
  /\ step = "read" /\ step' = "next" /\ todo' = {}
  /\ owed' = owed \ (todo \ pending) /\ seen' = {}
  /\ PassSame /\ UNCHANGED <<world, row, queues, checkVars, noted>>
\* Only members with a reason for a role, or for losing one, are checked; who supports is
\* read only while that role can be assigned.
Read ==
  /\ step = "read" /\ step' = "next"
  /\ usable' \in SUBSET Kinds \ {{}}
  /\ saw' = [u \in Users |-> [k \in Kinds |->
               IF u \in todo /\ (k = "supporter" => k \in usable') THEN Why(u, k) ELSE "none"]]
  /\ todo' = {u \in todo : \E k \in Kinds : saw'[u][k] # "none"}
  /\ owed' = owed \ (todo \ (todo' \cup pending)) /\ seen' = owed \cap todo'
  /\ UNCHANGED <<world, row, queues, origin, asked, writes, checkVars, noted>>

\* Mutated form of Defer: nothing is queued for later.
DeferNot(u) == UNCHANGED <<full, pending, deferred>>
Defer(u) == deferred' = deferred \cup {u} /\ UNCHANGED <<full, pending>>
RetryLater(u) == Defer(u) /\ resting' = resting \cup {u}

\* Mutated form of BudgetLeft: one change too many.
BudgetOver == writes <= WriteBudget
BudgetLeft == writes < WriteBudget

NextUser(u) ==
  /\ step = "next" /\ u \in todo /\ todo' = todo \ {u}
  /\ PassSame /\ UNCHANGED <<world, row, noted>>
\* The member waits out a backoff, or the pass has made all the changes it may make.
Postpone(u) ==
  /\ u \in resting \/ ~BudgetLeft
  /\ NextUser(u) /\ Defer(u)
  /\ UNCHANGED <<resting, step, checkVars, debt>>
Fetch(u) ==
  /\ u \notin resting /\ BudgetLeft
  /\ u \in here
  /\ NextUser(u) /\ step' = "decide"
  /\ user' = u /\ view' = [stay |-> stay[u], has |-> has[u]] /\ left' = usable
  /\ UNCHANGED <<queues, job, answer, debt>>
FetchAbsent(u) ==
  /\ u \notin resting /\ BudgetLeft
  /\ u \notin here
  /\ NextUser(u) /\ Settled({u}) /\ UNCHANGED <<queues, step, checkVars>>
\* Discord did not return the member: "unread" is a lost answer, a refusal is final.
FetchFails(u) ==
  /\ u \notin resting /\ BudgetLeft
  /\ NextUser(u) /\ step' = "unread" /\ user' = u
  /\ \E a \in {"refused", "lost"} : answer' = a
  /\ UNCHANGED <<queues, view, left, job, debt>>
FetchFailed ==
  /\ step = "unread" /\ step' = "next" /\ EndCheck
  /\ \/ answer = "lost" /\ RetryLater(user) /\ UNCHANGED debt
     \/ answer = "refused" /\ Settled({user}) /\ UNCHANGED queues
  /\ todo' = todo /\ PassSame /\ UNCHANGED <<world, row, noted>>

RoleOrder == <<"member", "founder", "supporter">>
\* The next of the member's roles, in the order of ROLE_KINDS.
NextKind(k) == \E i \in 1 .. 3 : /\ k = RoleOrder[i] /\ k \in left
                                 /\ \A j \in 1 .. i - 1 : RoleOrder[j] \notin left
Entry(k) == Current(row[user][k], view.stay)
Deciding(k) == step = "decide" /\ NextKind(k) /\ todo' = todo /\ PassSame
Write(entry, k) == row' = [row EXCEPT ![user][k] = entry]

Nothing(k, why, present, e) ==
  ~ (\/ Adds(why, present, e) \/ Removes(why, present, e)
     \/ Confirms(why, present, e) \/ Notes(why, present, e))
DecideNothing(k) ==
  /\ Deciding(k) /\ Nothing(k, saw[user][k], k \in view.has, Entry(k))
  /\ left' = left \ {k}
  /\ UNCHANGED <<world, row, queues, step, user, view, job, answer, noted, debt>>
DecideConfirm(k) ==
  /\ Deciding(k) /\ Confirms(saw[user][k], k \in view.has, Entry(k))
  /\ Write([row[user][k] EXCEPT !.sure = TRUE], k)
  /\ left' = left \ {k}
  /\ UNCHANGED <<world, queues, step, user, view, job, answer, noted, debt>>
DecideNote(k) ==
  /\ Deciding(k) /\ Notes(saw[user][k], k \in view.has, Entry(k))
  /\ Write(Row("note", TRUE, stay[user]), k)
  /\ noted' = [noted EXCEPT ![user][k] = stay[user]]
  /\ left' = left \ {k}
  /\ UNCHANGED <<world, queues, step, user, view, job, answer, debt>>
\* A change is decided; the pass waits between changes before it records one.
DecideChange(k, op) ==
  /\ Deciding(k) /\ BudgetLeft
  /\ \/ op = "add" /\ Adds(saw[user][k], k \in view.has, Entry(k))
     \/ op = "remove" /\ Removes(saw[user][k], k \in view.has, Entry(k))
  /\ step' = "begin" /\ job' = [kind |-> k, op |-> op, old |-> row[user][k]]
  /\ UNCHANGED <<world, row, queues, user, view, left, answer, noted, debt>>
\* The member's other roles are left for a follow-up.
OverBudget(k) ==
  /\ Deciding(k) /\ ~BudgetLeft
  /\ \/ Adds(saw[user][k], k \in view.has, Entry(k))
     \/ Removes(saw[user][k], k \in view.has, Entry(k))
  /\ Defer(user) /\ EndCheck /\ step' = "next"
  /\ UNCHANGED <<world, row, resting, noted, debt>>
EndUser ==
  /\ step = "decide" /\ left = {} /\ step' = "next"
  /\ EndCheck /\ Settled({user})
  /\ todo' = todo /\ PassSame /\ UNCHANGED <<world, row, queues, noted>>

\* The row is committed before Discord is contacted; the commit's answer may be lost.
BeginChange ==
  /\ step = "begin" /\ writes' = writes + 1
  /\ \E s \in {"send", "error"} : step' = s
  /\ Write(Row(job.op, FALSE, stay[user]), job.kind)
  /\ UNCHANGED <<world, queues, origin, asked, todo, usable, saw, checkVars, noted, debt>>
\* A role given in a later stay than the row's is not one the ledger knows of.
Giver == IF row[user][job.kind].stay = stay[user] THEN "gramps" ELSE "stray"
Effect == /\ user \in here
          /\ \/ /\ job.op = "add"
                /\ IF job.kind \in has[user] THEN UNCHANGED <<has, given>>
                                             ELSE Gives(user, job.kind, Giver)
             \/ job.op = "remove" /\ Takes(user, {job.kind})
Answers(a) == /\ step = "send" /\ step' = "finish" /\ answer' = a
              /\ UNCHANGED <<reason, stay, here, row, queues, passVars, user, view, left,
                             job, noted, debt>>
SendDone == Answers("applied") /\ Effect
SendRefused == /\ \/ \E a \in {"permission", "rejected"} : Answers(a)
                  \/ user \notin here /\ Answers("left")
               /\ UNCHANGED <<has, given>>
SendLost == Answers("unknown") /\ (Effect \/ UNCHANGED <<has, given>>)

Finishing(a) == /\ step = "finish" /\ answer = a
                /\ todo' = todo /\ UNCHANGED <<world, origin, asked, writes, saw, noted>>
Resume == /\ step' = "decide" /\ left' = left \ {job.kind} /\ job' = NoJob /\ answer' = "none"
          /\ UNCHANGED <<user, view, queues, debt>>
FinishDone == /\ Finishing("applied") /\ Resume
              /\ Write([row[user][job.kind] EXCEPT !.sure = TRUE], job.kind)
              /\ usable' = usable
\* A refused change leaves the row before it as the newest that counts.
Refused == Write(job.old, job.kind)
FinishRejected == Finishing("rejected") /\ Resume /\ Refused /\ usable' = usable
FinishBlocked == /\ Finishing("permission") /\ Resume /\ Refused
                 /\ usable' = usable \ {job.kind}
FinishLeft == /\ Finishing("left") /\ Refused /\ step' = "next" /\ EndCheck
              /\ Settled({user}) /\ UNCHANGED <<queues, usable>>
FinishUnknown == /\ Finishing("unknown") /\ step' = "next" /\ EndCheck
                 /\ RetryLater(user) /\ UNCHANGED <<row, usable, debt>>

EndPass == /\ step = "next" /\ todo = {} /\ Over
           /\ UNCHANGED <<world, row, queues, noted, debt>>
\* Discord or the database is unavailable: the pass stops where it is.
PassStops == /\ step \in {"read", "decide", "begin", "finish"} /\ step' = "error"
             /\ UNCHANGED <<world, row, queues, passVars, checkVars, noted, debt>>
\* What the timer started is checked again; staff see the error and may repeat theirs.
PassError ==
  /\ step = "error" /\ Over /\ seen' = {}
  /\ full' = (full \/ origin = "full")
  /\ deferred' = IF origin = "users" THEN deferred \cup asked ELSE deferred
  /\ UNCHANGED <<world, row, pending, resting, noted, owed>>
\* A restart loses every queue; the startup pass covers everyone.
Crash == /\ step # "down" /\ step' = "down"
         /\ origin' = "full" /\ asked' = {} /\ todo' = {} /\ usable' = {} /\ writes' = 0
         /\ saw' = [u \in Users |-> Blank] /\ EndCheck
         /\ full' = TRUE /\ pending' = {} /\ deferred' = {} /\ resting' = {}
         /\ seen' = {} /\ UNCHANGED <<world, row, noted, owed>>
Startup == /\ step = "down" /\ step' = "idle"
           /\ UNCHANGED <<world, row, queues, passVars, checkVars, noted, debt>>

-------------------------------------------------------------------------------

RecordStep(u) == \/ \E k \in Kinds : \/ ReasonChanges(u, k) \/ StaffGive(u, k)
                                    \/ StaffTake(u, k)
                 \/ SupportRunsOut(u) \/ Leave(u) \/ Join(u)
TimerStep(u) == SafetyPass \/ Due(u) \/ Rested(u) \/ StartFull \/ StartUsers \/ StaffRun
CheckStep(u) == Postpone(u) \/ Fetch(u) \/ FetchAbsent(u) \/ FetchFails(u)
DecideStep(k) == \/ DecideNothing(k) \/ DecideConfirm(k) \/ DecideNote(k)
                 \/ \E op \in {"add", "remove"} : DecideChange(k, op)
                 \/ OverBudget(k)
SendStep == SendDone \/ SendRefused \/ SendLost
FinishStep == \/ FinishDone \/ FinishRejected \/ FinishBlocked \/ FinishLeft
              \/ FinishUnknown
PassStep == \/ SetupRefused \/ Read \/ FetchFailed \/ EndUser \/ BeginChange
            \/ SendStep \/ FinishStep \/ EndPass \/ PassError
            \/ \E u \in Users : CheckStep(u)
            \/ \E k \in Kinds : DecideStep(k)

Next == \/ \E u \in Users : RecordStep(u) \/ TimerStep(u)
        \/ PassStep \/ PassStops \/ Crash \/ Startup

Spec == Init /\ [][Next]_vars

\* Timers fire, every await of a pass ends, and a full check that is due starts between
\* two others. A member put off for the budget is followed up on, so not put off for ever.
Fairness ==
  /\ WF_vars(PassStep) /\ WF_vars(SafetyPass) /\ SF_vars(StartFull)
  /\ \A u \in Users : WF_vars(Rested(u)) /\ SF_vars(Fetch(u))
FairSpec == Spec /\ Fairness

-------------------------------------------------------------------------------
Ops == {"none", "add", "remove", "note"}
Rows == [op : Ops, sure : BOOLEAN, stay : 0 .. MaxStay]
\* Ledger rows, queues and the pass keep their shapes, and a pass stays in its budget.
TypeOK ==
  /\ reason \in [Users -> Reasons] /\ stay \in [Users -> 1 .. MaxStay]
  /\ here \subseteq Users /\ has \in [Users -> SUBSET Kinds]
  /\ row \in [Users -> [Kinds -> Rows]]
  /\ full \in BOOLEAN /\ pending \subseteq Users /\ deferred \subseteq Users
  /\ resting \subseteq Users
  /\ step \in {"idle", "read", "next", "unread", "decide", "begin", "send", "finish",
               "error", "down"}
  /\ origin \in {"full", "users", "staff"} /\ asked \subseteq Users /\ todo \subseteq Users
  /\ usable \subseteq Kinds /\ writes \in 0 .. WriteBudget
  /\ saw \in [Users -> [Kinds -> {"none", "wanted", "ended"}]]
  /\ user \in Users \cup {Nobody} /\ view \in [stay : 0 .. MaxStay, has : SUBSET Kinds]
  /\ left \subseteq Kinds
  /\ job \in [kind : Kinds \cup {"none"}, op : {"none", "add", "remove"}, old : Rows]
  /\ answer \in {"none", "applied", "permission", "rejected", "left", "unknown",
                 "refused", "lost"}
  /\ given \in [Users -> [Kinds -> {"none", "staff", "gramps", "stray"}]]
  /\ noted \in [Users -> [Kinds -> 0 .. MaxStay]]
  /\ owed \subseteq Users /\ seen \subseteq owed

\* Once a role was noted as staff's business, because it was there already or because
\* staff took it away, Gramps does not touch it until the member joins anew.
HandsOff == step = "send" => noted[user][job.kind] # view.stay
\* A role Gramps gave stays known as its own: whatever answer was lost, retried, refused
\* or cut off by a restart, its newest ledger row lets it be removed when its reason ends.
OwnStaysOwn == \A u \in Users : \A k \in has[u] :
  given[u][k] = "gramps" => HeldRow(row[u][k]) /\ row[u][k].stay = stay[u]
\* What belongs to staff is left to staff, and what is Gramps' own is known as such.
RolesKnown == HandsOff /\ OwnStaysOwn
\* A queued change is never lost on the way: it waits in a queue, is part of the check
\* that has read it, or a check of everyone is due.
NothingForgotten == \A u \in owed :
  \/ full \/ u \in pending \cup deferred
  \/ u \in todo \cup {user} /\ (step = "read" \/ u \in seen)
  \/ step = "error" /\ (origin = "full" \/ (origin = "users" /\ u \in asked))

\* Discord, the database or the process failed, or a role cannot be assigned.
Trouble == \/ step \in {"error", "unread", "down"} \/ answer \notin {"none", "applied"}
           \/ step \notin {"idle", "read", "down"} /\ usable # Kinds
Lapsed(u, k) == \/ k = "member" /\ reason[u][k] = "revoked"
                \/ k = "supporter" /\ ~Wanted(u, k)
\* Without an earned role that staff did not take away, or with one of Gramps' own too many.
OutOfStep(u, k) ==
  /\ u \in here
  /\ \/ Wanted(u, k) /\ k \notin has[u] /\ noted[u][k] # stay[u]
     \/ Lapsed(u, k) /\ k \in has[u] /\ given[u][k] = "gramps"
\* Roles follow the records: unless something keeps failing, no member who is in the
\* server stays without an earned role, or with one of Gramps' after its end.
RolesFollow == \A u \in Users, k \in Kinds : []<>Trouble \/ []<>~OutOfStep(u, k)
===============================================================================
