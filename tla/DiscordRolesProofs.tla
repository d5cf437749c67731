-------------------------- MODULE DiscordRolesProofs --------------------------
(***************************************************************************)
(* Proofs about DiscordRoles for any members, roles, queues and budgets.   *)
(* The inductive invariant RolesInv joins the types; what a pass holds at  *)
(* each step (PassShape); how the ledger relates to the notes about staff  *)
(* (LedgerInv), to the roles Gramps gave (OwnInv) and, for a change under  *)
(* way, to the row it replaced (ChangeInv); and where a queued change      *)
(* waits (QueueInv).                                                       *)
(***************************************************************************)
EXTENDS DiscordRoles, FiniteSetTheorems, TLAPS

CheckSteps == {"decide", "begin", "send", "finish"}
ChangeSteps == {"begin", "send", "finish"}
SentSteps == {"send", "finish"}

\* A pass checks one member at a time, a reading of the member is of a stay not later than
\* the present one, and the change under way is an addition or a removal of a role left.
PassShape ==
  /\ step \in CheckSteps \cup {"unread"} => user \in Users
  /\ step \in {"idle", "read", "next", "down"} => user = Nobody
  /\ step \in {"idle", "down"} => todo = {}
  /\ step \in {"idle", "read", "next", "unread", "decide", "down"} => job = NoJob
  /\ step \in CheckSteps => view.stay \in 1 .. stay[user]
  /\ step \in ChangeSteps => job.kind \in left /\ job.op \in {"add", "remove"}
  /\ step = "begin" => BudgetLeft
  /\ origin = "users" => (todo \cup {user}) \ {Nobody} \subseteq asked
  /\ \A u \in Users \ here : has[u] = {}

\* A row that tells of a note made in stay n: it is that note, or a row of a later stay.
Tells(entry, n) == n = 0 \/ entry.stay > n \/ (entry.op = "note" /\ entry.stay = n)
\* A note about staff stays the newest row of its stay.
LedgerInv ==
  /\ \A u \in Users, k \in Kinds : row[u][k].stay <= stay[u] /\ Tells(row[u][k], noted[u][k])
  /\ step \in CheckSteps => \A k \in left \ {job.kind} : row[user][k].stay <= view.stay
  /\ step \in ChangeSteps =>
       /\ job.old.stay <= stay[user] /\ Tells(job.old, noted[user][job.kind])
       /\ noted[user][job.kind] < view.stay

\* A role that Gramps gave and the member still has.
Own(u, k) == k \in has[u] /\ given[u][k] = "gramps"
Known(entry, at) == HeldRow(entry) /\ entry.stay = at
Reverts == {"permission", "rejected", "left"}
\* Gramps' own roles are known from the ledger. Of those left to check the reading shows
\* them; a change that is refused puts back a row that knew them, and a removal that was
\* confirmed took the role.
OwnInv ==
  /\ OwnStaysOwn
  /\ step \in CheckSteps => \A k \in left \ {job.kind} : Own(user, k) => k \in view.has
  /\ step \in ChangeSteps /\ Own(user, job.kind) =>
       /\ step # "finish" \/ answer \in Reverts => Known(job.old, stay[user])
       /\ step = "finish" /\ answer = "applied" => job.op = "add"
  /\ step \in SentSteps => row[user][job.kind].op = job.op /\ ~row[user][job.kind].sure

\* What a pass of the timer drops is queued again when it stops; a pass of staff leaves the
\* queues what they hold.
QueueInv ==
  /\ NothingForgotten
  /\ origin = "staff" => \A u \in owed : full \/ u \in pending \cup deferred

RolesInv == TypeOK /\ PassShape /\ LedgerInv /\ OwnInv /\ QueueInv
-------------------------------------------------------------------------------
(* Types.                                                                   *)

LEMMA RowsKept ==
  ASSUME NEW r \in [Users -> [Kinds -> Rows]], NEW u \in Users, NEW k \in Kinds, NEW e \in Rows
  PROVE  [r EXCEPT ![u][k] = e] \in [Users -> [Kinds -> Rows]]
OBVIOUS

LEMMA NoJobIsJob ==
  NoJob \in [kind : Kinds \cup {"none"}, op : {"none", "add", "remove"}, old : Rows]
BY RolesAssumption DEF NoJob, NoRow, Row, Rows, Ops

\* What members, staff and records do changes nothing of the pass.
LEMMA RecordTypes ==
  ASSUME TypeOK, NEW u \in Users, RecordStep(u)
  PROVE  TypeOK'
<1> USE RolesAssumption DEF TypeOK, WorldOnly, passVars, checkVars, queues, debt, Enqueue,
        Reasons
<1>1. ASSUME NEW k \in Kinds, ReasonChanges(u, k)
      PROVE  TypeOK'
  BY <1>1 DEF ReasonChanges, ReasonOf
<1>2. ASSUME NEW k \in Kinds, StaffGive(u, k) \/ StaffTake(u, k)
      PROVE  TypeOK'
  <2>1. CASE StaffGive(u, k)
    BY <1>2, <2>1 DEF StaffGive, Gives
  <2>2. CASE StaffTake(u, k)
    BY <1>2, <2>2 DEF StaffTake, Takes
  <2> QED BY <1>2, <2>1, <2>2
<1>3. CASE SupportRunsOut(u)
  BY <1>3 DEF SupportRunsOut
<1>4. CASE Leave(u)
  BY <1>4 DEF Leave, Takes
<1>5. CASE Join(u)
  BY <1>5 DEF Join
<1> QED BY <1>1, <1>2, <1>3, <1>4, <1>5 DEF RecordStep

LEMMA TimerTypes ==
  ASSUME TypeOK, NEW u \in Users, TimerStep(u)
  PROVE  TypeOK'
<1> USE RolesAssumption DEF TypeOK, world, checkVars, passVars, debt, queues
<1>1. CASE SafetyPass
  BY <1>1 DEF SafetyPass, QueuesOnly
<1>2. CASE Due(u)
  BY <1>2 DEF Due, QueuesOnly
<1>6. CASE Rested(u)
  BY <1>6 DEF Rested, QueuesOnly
<1>3. CASE StartFull
  <2>1. full' = FALSE /\ pending' = {} /\ Begin("full", Users)
    BY <1>3 DEF StartFull
  <2>2. full' \in BOOLEAN /\ UNCHANGED <<deferred, resting>>
    BY <1>3 DEF StartFull
  <2> QED BY <2>1, <2>2 DEF Begin, Blank
<1>4. CASE StartUsers
  BY <1>4 DEF StartUsers, Begin, Blank
<1>5. CASE StaffRun
  BY <1>5 DEF StaffRun, Begin, Blank
<1> QED BY <1>1, <1>2, <1>3, <1>4, <1>5, <1>6 DEF TimerStep

LEMMA CheckTypes ==
  ASSUME TypeOK, NEW u \in Users, CheckStep(u)
  PROVE  TypeOK'
<1> USE RolesAssumption DEF TypeOK, NextUser, PassSame, world, queues, checkVars, debt
<1>1. CASE Postpone(u)
  BY <1>1 DEF Postpone, Defer
<1>2. CASE Fetch(u)
  BY <1>2 DEF Fetch
<1>3. CASE FetchAbsent(u)
  BY <1>3 DEF FetchAbsent, Settled
<1>4. CASE FetchFails(u)
  BY <1>4 DEF FetchFails
<1> QED BY <1>1, <1>2, <1>3, <1>4 DEF CheckStep

LEMMA DecideTypes ==
  ASSUME TypeOK, PassShape, NEW k \in Kinds, DecideStep(k)
  PROVE  TypeOK'
<1> USE RolesAssumption DEF TypeOK, PassShape, CheckSteps, Deciding, PassSame, world, queues,
        debt, Rows, Row, Ops, Write
<1>1. CASE DecideNothing(k)
  BY <1>1 DEF DecideNothing
<1>2. CASE DecideConfirm(k)
  <2>1. user \in Users /\ row[user][k] \in Rows
    BY <1>2 DEF DecideConfirm
  <2> DEFINE confirmed == [row[user][k] EXCEPT !.sure = TRUE]
  <2>2. confirmed \in Rows
    BY <2>1
  <2>3. row' = [row EXCEPT ![user][k] = confirmed]
    BY <1>2 DEF DecideConfirm
  <2> HIDE DEF confirmed
  <2>4. row' \in [Users -> [Kinds -> Rows]]
    BY <2>1, <2>2, <2>3, RowsKept
  <2> QED BY <1>2, <2>4 DEF DecideConfirm
<1>3. CASE DecideNote(k)
  BY <1>3 DEF DecideNote
<1>4. ASSUME NEW op \in {"add", "remove"}, DecideChange(k, op)
      PROVE  TypeOK'
  BY <1>4 DEF DecideChange
<1>5. CASE OverBudget(k)
  BY <1>5 DEF OverBudget, Defer, EndCheck, NoView, NoJob, NoRow
<1> QED BY <1>1, <1>2, <1>3, <1>4, <1>5 DEF DecideStep

\* What sending a change touches: Discord may or may not have made it.
SentOnly == /\ step' = "finish"
            /\ answer' \in {"applied", "permission", "rejected", "left", "unknown"}
            /\ UNCHANGED <<reason, stay, here, row, full, pending, deferred, resting, origin,
                           asked, todo, usable, writes, saw, user, view, left, job, noted,
                           owed, seen>>
LEMMA SendFrame ==
  ASSUME SendStep
  PROVE  /\ step = "send" /\ SentOnly
         /\ \/ Effect /\ answer' \in {"applied", "unknown"}
            \/ answer' # "applied" /\ UNCHANGED <<has, given>>
BY DEF SendStep, SendDone, SendRefused, SendLost, Answers, SentOnly, queues, passVars, debt

LEMMA SendTypes ==
  ASSUME TypeOK, PassShape, SendStep
  PROVE  TypeOK'
<1> USE RolesAssumption DEF TypeOK, PassShape, CheckSteps, ChangeSteps, queues, passVars, debt
<1>1. step = "send" /\ user \in Users /\ job.kind \in Kinds /\ SentOnly
  BY SendFrame DEF PassShape
<1>2. CASE UNCHANGED <<has, given>>
  BY <1>1, <1>2 DEF SentOnly
<1>3. CASE Takes(user, {job.kind})
  BY <1>1, <1>3 DEF Takes, SentOnly
<1>4. CASE Gives(user, job.kind, Giver)
  BY <1>1, <1>4 DEF Gives, Giver, SentOnly
<1> QED BY <1>1, <1>2, <1>3, <1>4, SendFrame DEF Effect

LEMMA FinishTypes ==
  ASSUME TypeOK, PassShape, FinishStep
  PROVE  TypeOK'
<1> USE RolesAssumption DEF TypeOK, PassShape, CheckSteps, ChangeSteps, Finishing, world,
        queues, debt, Write, Rows, Ops
<1>1. CASE FinishDone
  <2>1. user \in Users /\ job.kind \in Kinds /\ row[user][job.kind] \in Rows
    BY <1>1 DEF FinishDone
  <2> DEFINE done == [row[user][job.kind] EXCEPT !.sure = TRUE]
  <2>2. done \in Rows
    BY <2>1
  <2>3. row' = [row EXCEPT ![user][job.kind] = done]
    BY <1>1 DEF FinishDone
  <2> HIDE DEF done
  <2>4. row' \in [Users -> [Kinds -> Rows]]
    BY <2>1, <2>2, <2>3
  <2> QED BY <1>1, <2>4 DEF FinishDone, Resume, NoJob, NoRow, Row
<1>2. CASE FinishRejected \/ FinishBlocked
  <2>4. user \in Users /\ job.kind \in Kinds /\ job.old \in Rows
    BY <1>2 DEF FinishRejected, FinishBlocked
  <2>5. row' = [row EXCEPT ![user][job.kind] = job.old]
    BY <1>2 DEF FinishRejected, FinishBlocked, Refused
  <2>1. row' \in [Users -> [Kinds -> Rows]]
    BY <2>4, <2>5, RowsKept
  <2>2. CASE FinishRejected
    BY <2>1, <2>2, NoJobIsJob DEF FinishRejected, Resume
  <2>3. CASE FinishBlocked
    BY <2>1, <2>3, NoJobIsJob DEF FinishBlocked, Resume
  <2> QED BY <1>2, <2>2, <2>3
<1>3. CASE FinishLeft
  BY <1>3 DEF FinishLeft, Refused, EndCheck, Settled, NoJob, NoRow, NoView, Row
<1>4. CASE FinishUnknown
  BY <1>4 DEF FinishUnknown, EndCheck, RetryLater, Defer, NoJob, NoRow, NoView, Row
<1> QED BY <1>1, <1>2, <1>3, <1>4 DEF FinishStep

LEMMA PassTypes ==
  ASSUME TypeOK, PassShape, PassStep
  PROVE  TypeOK'
<1> USE RolesAssumption DEF TypeOK, world, queues, checkVars, debt
<1>1. CASE SetupRefused
  BY <1>1 DEF SetupRefused, PassSame
<1>2. CASE Read
  BY <1>2 DEF Read, Why
<1>3. CASE FetchFailed
  BY <1>3 DEF FetchFailed, EndCheck, RetryLater, Defer, Settled, PassSame, NoJob, NoRow,
     NoView, Row, Rows, Ops, PassShape, CheckSteps
<1>4. CASE EndUser
  BY <1>4 DEF EndUser, EndCheck, Settled, PassSame, NoJob, NoRow, NoView, Row, Rows, Ops
<1>5. CASE BeginChange
  BY <1>5 DEF BeginChange, Write, Row, Rows, Ops, PassShape, CheckSteps, ChangeSteps,
     BudgetLeft
<1>6. CASE EndPass
  BY <1>6 DEF EndPass, Over, EndCheck, NoJob, NoRow, NoView, Row, Rows, Ops, Blank
<1>7. CASE PassError
  BY <1>7 DEF PassError, Over, EndCheck, NoJob, NoRow, NoView, Row, Rows, Ops, Blank
<1> QED BY <1>1, <1>2, <1>3, <1>4, <1>5, <1>6, <1>7, SendTypes, FinishTypes, CheckTypes,
           DecideTypes DEF PassStep

LEMMA StopTypes ==
  ASSUME TypeOK, PassStops \/ Crash \/ Startup
  PROVE  TypeOK'
<1> USE RolesAssumption DEF TypeOK, world, queues, passVars, checkVars, debt
<1>1. CASE PassStops \/ Startup
  BY <1>1 DEF PassStops, Startup
<1>2. CASE Crash
  BY <1>2 DEF Crash, EndCheck, NoJob, NoRow, NoView, Row, Rows, Ops, Blank
<1> QED BY <1>1, <1>2

LEMMA TypesKept ==
  ASSUME TypeOK, PassShape, [Next]_vars
  PROVE  TypeOK'
<1>1. CASE UNCHANGED vars
  BY <1>1 DEF TypeOK, vars, world, queues, passVars, checkVars, debt
<1> QED BY <1>1, RecordTypes, TimerTypes, PassTypes, StopTypes DEF Next
-------------------------------------------------------------------------------
(* What a step may touch.                                                   *)

\* Records, members and staff: nothing of the pass, no stay shorter, and no role of
\* Gramps' more.
RecordOnly ==
  /\ UNCHANGED <<row, step, origin, asked, todo, usable, writes, saw, user, view, left, job,
                 answer, noted>>
  /\ \A u \in Users : stay'[u] >= stay[u]
  /\ \A u \in Users \ here' : has'[u] = {}
  /\ \A u \in Users, k \in Kinds : Own(u, k)' => Own(u, k) /\ stay'[u] = stay[u]

LEMMA RecordFrame ==
  ASSUME TypeOK, PassShape, NEW u \in Users, RecordStep(u)
  PROVE  RecordOnly
<1> USE RolesAssumption DEF TypeOK, PassShape, RecordOnly, WorldOnly, passVars, checkVars, Own
<1>1. ASSUME NEW k \in Kinds, ReasonChanges(u, k)
      PROVE  RecordOnly
  BY <1>1 DEF ReasonChanges
<1>2. ASSUME NEW k \in Kinds, StaffGive(u, k)
      PROVE  RecordOnly
  BY <1>2 DEF StaffGive, Gives
<1>3. ASSUME NEW k \in Kinds, StaffTake(u, k)
      PROVE  RecordOnly
  BY <1>3 DEF StaffTake, Takes
<1>4. CASE SupportRunsOut(u)
  BY <1>4 DEF SupportRunsOut
<1>5. CASE Leave(u)
  BY <1>5 DEF Leave, Takes
<1>6. CASE Join(u)
  <2>1. \A w \in Users : stay'[w] = IF w = u THEN stay[w] + 1 ELSE stay[w]
    BY <1>6 DEF Join
  <2>2. \A k \in Kinds : ~Own(u, k)
    BY <1>6 DEF Join
  <2> QED BY <1>6, <2>1, <2>2 DEF Join
<1> QED BY <1>1, <1>2, <1>3, <1>4, <1>5, <1>6 DEF RecordStep

\* Steps that touch neither members nor the ledger, and either leave the check as it is or
\* are not in one afterwards.
Quiet == /\ UNCHANGED <<stay, here, has, given, row, noted>>
         /\ \/ step' \notin CheckSteps
            \/ UNCHANGED <<step, user, view, left, job, answer>>

LEMMA TimerQuiet ==
  ASSUME NEW u \in Users, TimerStep(u)
  PROVE  Quiet
<1> USE DEF Quiet, world, checkVars, CheckSteps
<1>1. CASE SafetyPass \/ Due(u) \/ Rested(u)
  BY <1>1 DEF SafetyPass, Due, Rested, QueuesOnly
<1>2. CASE StartFull \/ StartUsers \/ StaffRun
  BY <1>2 DEF StartFull, StartUsers, StaffRun, Begin
<1> QED BY <1>1, <1>2 DEF TimerStep

LEMMA StopQuiet ==
  ASSUME PassStops \/ Crash \/ Startup
  PROVE  Quiet
BY DEF Quiet, PassStops, Crash, Startup, world, CheckSteps

LEMMA PassQuiet ==
  ASSUME \/ SetupRefused \/ Read \/ FetchFailed \/ EndUser \/ EndPass \/ PassError
         \/ FinishUnknown
         \/ \E u \in Users : Postpone(u) \/ FetchAbsent(u) \/ FetchFails(u)
         \/ \E k \in Kinds : OverBudget(k)
  PROVE  Quiet
<1> USE DEF Quiet, world, checkVars, CheckSteps
<1>1. CASE SetupRefused \/ Read \/ FetchFailed \/ EndUser
  BY <1>1 DEF SetupRefused, Read, FetchFailed, EndUser
<1>2. CASE EndPass \/ PassError \/ FinishUnknown
  BY <1>2 DEF EndPass, PassError, Over, FinishUnknown, Finishing
<1>3. ASSUME NEW u \in Users, Postpone(u) \/ FetchAbsent(u) \/ FetchFails(u)
      PROVE  Quiet
  BY <1>3 DEF Postpone, FetchAbsent, FetchFails, NextUser
<1>4. ASSUME NEW k \in Kinds, OverBudget(k)
      PROVE  Quiet
  BY <1>4 DEF OverBudget, Deciding
<1> QED BY <1>1, <1>2, <1>3, <1>4

-------------------------------------------------------------------------------
(* The pass.                                                                *)

LEMMA RecordShape ==
  ASSUME TypeOK, TypeOK', PassShape, NEW u \in Users, RecordStep(u)
  PROVE  PassShape'
<1>1. RecordOnly
  BY RecordFrame
<1>2. step \in CheckSteps => stay'[user] >= stay[user] /\ view.stay \in 1 .. stay'[user]
  BY <1>1, RolesAssumption DEF RecordOnly, PassShape, TypeOK
<1> QED BY <1>1, <1>2 DEF RecordOnly, PassShape, BudgetLeft

LEMMA TimerShape ==
  ASSUME TypeOK, PassShape, NEW u \in Users, TimerStep(u)
  PROVE  PassShape'
<1> USE RolesAssumption DEF PassShape, world, passVars, checkVars, BudgetLeft, CheckSteps,
        ChangeSteps
<1>1. CASE SafetyPass \/ Due(u) \/ Rested(u)
  BY <1>1 DEF SafetyPass, Due, Rested, QueuesOnly
<1>2. CASE StartFull \/ StartUsers \/ StaffRun
  BY <1>2 DEF StartFull, StartUsers, StaffRun, Begin
<1> QED BY <1>1, <1>2 DEF TimerStep

LEMMA CheckShape ==
  ASSUME TypeOK, PassShape, NEW u \in Users, CheckStep(u)
  PROVE  PassShape'
<1> USE RolesAssumption DEF TypeOK, PassShape, NextUser, PassSame, world, checkVars,
        BudgetLeft, CheckSteps, ChangeSteps
<1>1. CASE Postpone(u) \/ FetchAbsent(u)
  BY <1>1 DEF Postpone, FetchAbsent
<1>2. CASE Fetch(u)
  BY <1>2 DEF Fetch
<1>3. CASE FetchFails(u)
  BY <1>3 DEF FetchFails
<1> QED BY <1>1, <1>2, <1>3 DEF CheckStep

LEMMA DecideShape ==
  ASSUME TypeOK, PassShape, NEW k \in Kinds, DecideStep(k)
  PROVE  PassShape'
<1> USE RolesAssumption DEF TypeOK, PassShape, Deciding, PassSame, world, BudgetLeft,
        CheckSteps, ChangeSteps
<1>1. CASE DecideNothing(k) \/ DecideConfirm(k) \/ DecideNote(k)
  BY <1>1 DEF DecideNothing, DecideConfirm, DecideNote
<1>2. ASSUME NEW op \in {"add", "remove"}, DecideChange(k, op)
      PROVE  PassShape'
  BY <1>2 DEF DecideChange, NextKind
<1>3. CASE OverBudget(k)
  BY <1>3 DEF OverBudget, EndCheck
<1> QED BY <1>1, <1>2, <1>3 DEF DecideStep

LEMMA FinishShape ==
  ASSUME TypeOK, PassShape, FinishStep
  PROVE  PassShape'
<1> USE RolesAssumption DEF TypeOK, PassShape, Finishing, world, BudgetLeft, CheckSteps,
        ChangeSteps
<1>1. CASE FinishDone \/ FinishRejected \/ FinishBlocked
  BY <1>1 DEF FinishDone, FinishRejected, FinishBlocked, Resume
<1>2. CASE FinishLeft \/ FinishUnknown
  BY <1>2 DEF FinishLeft, FinishUnknown, EndCheck
<1> QED BY <1>1, <1>2 DEF FinishStep

LEMMA SendShape ==
  ASSUME TypeOK, PassShape, SendStep
  PROVE  PassShape'
<1>1. step = "send" /\ user \in Users /\ SentOnly
  BY SendFrame DEF PassShape, CheckSteps
<1>2. \A w \in Users \ here : has'[w] = {}
  <2>1. CASE UNCHANGED <<has, given>>
    BY <2>1 DEF PassShape
  <2>2. CASE user \in here /\ (Gives(user, job.kind, Giver) \/ Takes(user, {job.kind}))
    BY <1>1, <2>2 DEF PassShape, TypeOK, Gives, Takes
  <2> QED BY <2>1, <2>2, SendFrame DEF Effect
<1> QED BY <1>1, <1>2 DEF SentOnly, PassShape, BudgetLeft, CheckSteps, ChangeSteps

LEMMA PassSteps ==
  ASSUME TypeOK, PassShape, PassStep
  PROVE  PassShape'
<1> USE RolesAssumption DEF PassShape, world, passVars, checkVars, BudgetLeft, CheckSteps,
        ChangeSteps
<1>1. CASE SetupRefused
  BY <1>1 DEF SetupRefused, PassSame
<1>2. CASE Read
  BY <1>2 DEF Read
<1>3. CASE FetchFailed
  BY <1>3 DEF FetchFailed, EndCheck, PassSame
<1>4. CASE EndUser
  BY <1>4 DEF EndUser, EndCheck, PassSame
<1>5. CASE BeginChange
  BY <1>5 DEF BeginChange
<1>6. CASE EndPass
  BY <1>6 DEF EndPass, Over, EndCheck
<1>7. CASE PassError
  BY <1>7 DEF PassError, Over, EndCheck
<1> QED BY <1>1, <1>2, <1>3, <1>4, <1>5, <1>6, <1>7, CheckShape, DecideShape, SendShape,
           FinishShape DEF PassStep

LEMMA ShapeKept ==
  ASSUME TypeOK, PassShape, [Next]_vars
  PROVE  PassShape'
<1> USE RolesAssumption DEF PassShape, world, passVars, checkVars, BudgetLeft, CheckSteps,
        ChangeSteps
<1>1. CASE UNCHANGED vars
  BY <1>1 DEF vars
<1>2. CASE PassStops \/ Startup
  BY <1>2 DEF PassStops, Startup
<1>3. CASE Crash
  BY <1>3 DEF Crash, EndCheck
<1> QED BY <1>1, <1>2, <1>3, RecordShape, TimerShape, PassSteps, TypesKept DEF Next
-------------------------------------------------------------------------------
(* The ledger and the notes about staff.                                    *)

LedgerKnown ==
  \A u \in Users, k \in Kinds : row[u][k].stay <= stay[u] /\ Tells(row[u][k], noted[u][k])

LEMMA LedgerWrite ==
  ASSUME TypeOK, LedgerKnown, user \in Users, NEW k \in Kinds, NEW e \in Rows,
         row' = [row EXCEPT ![user][k] = e], stay' = stay,
         noted' = noted \/ noted' = [noted EXCEPT ![user][k] = e.stay],
         e.stay <= stay[user], Tells(e, noted'[user][k])
  PROVE  LedgerKnown'
<1>1. \A u \in Users, j \in Kinds :
        /\ row'[u][j] = IF u = user /\ j = k THEN e ELSE row[u][j]
        /\ u # user \/ j # k => noted'[u][j] = noted[u][j]
  BY DEF TypeOK
<1>2. SUFFICES ASSUME NEW u \in Users, NEW j \in Kinds
               PROVE  row'[u][j].stay <= stay'[u] /\ Tells(row'[u][j], noted'[u][j])
  BY DEF LedgerKnown, Tells
<1>3. CASE u = user /\ j = k
  BY <1>1, <1>3
<1>4. CASE u # user \/ j # k
  <2>1. row'[u][j] = row[u][j] /\ noted'[u][j] = noted[u][j]
    BY <1>1, <1>4
  <2> QED BY <2>1 DEF LedgerKnown
<1> QED BY <1>3, <1>4

LEMMA LedgerFrame ==
  ASSUME TypeOK, TypeOK', PassShape, LedgerInv, RecordOnly \/ Quiet \/ Fetch(user')
  PROVE  LedgerInv'
<1> USE RolesAssumption DEF TypeOK, LedgerInv, PassShape
<1>1. CASE RecordOnly
  <2>1. \A u \in Users, k \in Kinds : row[u][k].stay \in Nat /\ stay[u] \in Nat
    BY DEF Rows
  <2>2. step \in ChangeSteps => user \in Users /\ job.old.stay \in Nat
    BY DEF Rows, CheckSteps, ChangeSteps
  <2>3. \A u \in Users : stay'[u] \in Nat /\ stay'[u] >= stay[u]
    BY <1>1 DEF RecordOnly
  <2>4. LedgerKnown'
    BY <1>1, <2>1, <2>3 DEF RecordOnly, LedgerKnown, Tells
  <2>5. step \in ChangeSteps => job.old.stay <= stay'[user]
    BY <2>1, <2>2, <2>3
  <2> QED BY <1>1, <2>4, <2>5 DEF RecordOnly, LedgerKnown, Tells
<1>2. CASE Quiet
  BY <1>2 DEF Quiet, CheckSteps, ChangeSteps
<1>3. CASE Fetch(user')
  BY <1>3 DEF Fetch, NextUser, PassSame, world, CheckSteps, ChangeSteps
<1> QED BY <1>1, <1>2, <1>3

LEMMA LedgerDecides ==
  ASSUME TypeOK, PassShape, LedgerInv, NEW k \in Kinds, DecideStep(k)
  PROVE  LedgerInv'
<1> USE RolesAssumption DEF Deciding
<1>1. CASE DecideNothing(k)
  BY <1>1 DEF DecideNothing, LedgerInv, world, CheckSteps, ChangeSteps
<1>2. CASE DecideConfirm(k)
  <2> DEFINE e == [row[user][k] EXCEPT !.sure = TRUE]
  <2>1. user \in Users /\ row[user][k] \in Rows /\ k \in left
    BY <1>2 DEF DecideConfirm, PassShape, CheckSteps, TypeOK, NextKind
  <2>2. e \in Rows /\ e.stay = row[user][k].stay /\ e.op = row[user][k].op
    BY <2>1 DEF Rows
  <2>3. row' = [row EXCEPT ![user][k] = e] /\ stay' = stay /\ noted' = noted
    BY <1>2 DEF DecideConfirm, Write, world
  <2>4. Tells(e, noted'[user][k]) /\ e.stay <= stay[user]
    BY <2>1, <2>2, <2>3 DEF LedgerInv, Tells
  <2> HIDE DEF e
  <2>5. LedgerKnown'
    BY <2>1, <2>2, <2>3, <2>4, LedgerWrite DEF LedgerInv, LedgerKnown
  <2>6. \A j \in left' : j # k /\ row'[user][j] = row[user][j]
    BY <1>2, <2>1, <2>3 DEF DecideConfirm, TypeOK
  <2>7. \A j \in left' \ {job'.kind} : row'[user'][j].stay <= view'.stay
    BY <1>2, <2>6 DEF DecideConfirm, LedgerInv, CheckSteps
  <2> QED BY <1>2, <2>5, <2>7 DEF DecideConfirm, LedgerInv, LedgerKnown, ChangeSteps
<1>3. CASE DecideNote(k)
  <2> DEFINE e == Row("note", TRUE, stay[user])
  <2>1. user \in Users /\ stay[user] \in 1 .. MaxStay /\ k \in left
    BY <1>3 DEF DecideNote, PassShape, CheckSteps, TypeOK, NextKind
  <2>2. e \in Rows /\ e.stay = stay[user] /\ e.op = "note"
    BY <2>1 DEF Row, Rows, Ops
  <2>3. /\ row' = [row EXCEPT ![user][k] = e] /\ stay' = stay
        /\ noted' = [noted EXCEPT ![user][k] = e.stay]
    BY <1>3, <2>2 DEF DecideNote, Write, world
  <2>8. noted'[user][k] = e.stay
    BY <2>1, <2>3 DEF TypeOK
  <2> HIDE DEF e
  <2>4. Tells(e, noted'[user][k]) /\ e.stay <= stay[user]
    BY <2>1, <2>2, <2>8 DEF Tells
  <2>5. LedgerKnown'
    BY <2>1, <2>2, <2>3, <2>4, LedgerWrite DEF LedgerInv, LedgerKnown
  <2>6. \A j \in left' : j # k /\ row'[user][j] = row[user][j]
    BY <1>3, <2>1, <2>3 DEF DecideNote, TypeOK
  <2>7. \A j \in left' \ {job'.kind} : row'[user'][j].stay <= view'.stay
    BY <1>3, <2>6 DEF DecideNote, LedgerInv, CheckSteps
  <2> QED BY <1>3, <2>5, <2>7 DEF DecideNote, LedgerInv, LedgerKnown, ChangeSteps
<1>4. ASSUME NEW op \in {"add", "remove"}, DecideChange(k, op)
      PROVE  LedgerInv'
  <2> DEFINE n == noted[user][k]
  <2> DEFINE r == row[user][k]
  <2>1. /\ user \in Users /\ k \in left /\ r \in Rows /\ n \in 0 .. MaxStay
        /\ step = "decide" /\ view.stay \in 1 .. stay[user] /\ stay[user] \in Nat
    BY <1>4 DEF DecideChange, PassShape, CheckSteps, TypeOK, NextKind
  <2>2. Current(r, view.stay).op # "note"
    BY <1>4 DEF DecideChange, Adds, Removes, HeldRow, Entry
  <2>3. r.stay <= stay[user] /\ Tells(r, n)
    BY <2>1 DEF LedgerInv
  <2>11. job.kind = "none" /\ left \subseteq Kinds
    BY <2>1 DEF PassShape, NoJob, TypeOK
  <2>12. \A j \in left : row[user][j].stay <= view.stay
    BY <2>1, <2>11 DEF LedgerInv, CheckSteps
  <2>4. r.stay <= view.stay
    BY <2>1, <2>12
  <2>5. n < view.stay
    <3>1. CASE r.stay < view.stay
      BY <2>1, <2>3, <3>1 DEF Tells, Rows
    <3>2. CASE r.stay >= view.stay
      <4>1. r.op # "note"
        BY <2>2, <3>2 DEF Current
      <4> QED BY <2>1, <2>3, <2>4, <4>1 DEF Tells, Rows
    <3> QED BY <2>1, <3>1, <3>2 DEF Rows
  <2>6. job' = [kind |-> k, op |-> op, old |-> r] /\ step' = "begin"
    BY <1>4 DEF DecideChange
  <2>7. UNCHANGED <<stay, row, noted, user, view, left>>
    BY <1>4 DEF DecideChange, world
  <2>8. job'.old = r /\ job'.kind = k
    BY <2>6
  <2>9. \A j \in left \ {k} : row[user][j].stay <= view.stay
    BY <2>12
  <2> HIDE DEF n, r
  <2>10. LedgerKnown'
    <3>1. LedgerKnown
      BY DEF LedgerInv, LedgerKnown
    <3>2. row' = row /\ stay' = stay /\ noted' = noted
      BY <2>7
    <3> QED BY <3>1, <3>2 DEF LedgerKnown, Tells
  <2> QED BY <2>3, <2>5, <2>6, <2>7, <2>8, <2>9, <2>10 DEF LedgerInv, LedgerKnown, n
<1>5. CASE OverBudget(k)
  BY <1>5, PassQuiet, LedgerFrame, DecideTypes
<1> QED BY <1>1, <1>2, <1>3, <1>4, <1>5 DEF DecideStep
LEMMA LedgerBegins ==
  ASSUME TypeOK, PassShape, LedgerInv, BeginChange
  PROVE  LedgerInv'
<1> DEFINE e == Row(job.op, FALSE, stay[user])
<1>9. /\ user \in Users /\ job.kind \in left /\ step = "begin"
      /\ view.stay \in 1 .. stay[user] /\ job.op \in {"add", "remove"}
  BY DEF BeginChange, PassShape, CheckSteps, ChangeSteps
<1>10. MaxStay \in Nat
  BY RolesAssumption
<1>1. /\ user \in Users /\ job.kind \in left /\ job.kind \in Kinds /\ step = "begin"
      /\ stay[user] \in 1 .. MaxStay /\ view.stay \in 1 .. stay[user] /\ MaxStay \in Nat
      /\ job.op \in {"add", "remove"} /\ noted[user][job.kind] \in 0 .. MaxStay
  BY <1>9, <1>10 DEF TypeOK
<1>2. e \in Rows /\ e.stay = stay[user]
  BY <1>1 DEF Row, Rows, Ops
<1>3. /\ row' = [row EXCEPT ![user][job.kind] = e]
      /\ UNCHANGED <<stay, noted, user, view, left, job>>
  BY DEF BeginChange, Write, world, checkVars
<1> HIDE DEF e
<1>4. noted[user][job.kind] < view.stay
  BY <1>1 DEF LedgerInv, ChangeSteps
<1>5. Tells(e, noted'[user][job.kind]) /\ e.stay <= stay[user]
  BY <1>1, <1>2, <1>3, <1>4 DEF Tells
<1>6. LedgerKnown'
  BY <1>1, <1>2, <1>3, <1>5, LedgerWrite DEF LedgerInv, LedgerKnown
<1>7. \A j \in left' \ {job'.kind} : row'[user'][j].stay <= view'.stay
  <2>1. \A j \in left \ {job.kind} : row'[user][j] = row[user][j]
    BY <1>1, <1>3 DEF TypeOK
  <2> QED BY <1>1, <1>3, <2>1 DEF LedgerInv, CheckSteps
<1>8. /\ job'.old.stay <= stay'[user'] /\ Tells(job'.old, noted'[user'][job'.kind])
      /\ noted'[user'][job'.kind] < view'.stay
  BY <1>1, <1>3 DEF LedgerInv, ChangeSteps, Tells
<1> QED BY <1>6, <1>7, <1>8 DEF LedgerInv, LedgerKnown

\* The last step of a change writes one row, or none, and ends the change.
Finished(e) == /\ row' = [row EXCEPT ![user][job.kind] = e]
               /\ UNCHANGED <<stay, here, has, given, noted>>
               /\ \/ step' \notin CheckSteps
                  \/ /\ UNCHANGED <<user, view>> /\ step' = "decide"
                     /\ left' = left \ {job.kind} /\ job' = NoJob

LEMMA FinishFrame ==
  ASSUME TypeOK, PassShape, FinishStep
  PROVE  /\ step = "finish" /\ user \in Users /\ job.kind \in Kinds /\ job.old \in Rows
         /\ row[user][job.kind] \in Rows
         /\ \/ answer = "unknown" /\ Quiet
            \/ answer = "applied" /\ Finished([row[user][job.kind] EXCEPT !.sure = TRUE])
            \/ answer \in Reverts /\ Finished(job.old)
<1>1. step = "finish" /\ user \in Users /\ job.kind \in Kinds /\ job.old \in Rows
  BY DEF FinishStep, FinishDone, FinishRejected, FinishBlocked, FinishLeft, FinishUnknown,
     Finishing, TypeOK, PassShape, CheckSteps, ChangeSteps
<1>2. row[user][job.kind] \in Rows
  BY <1>1 DEF TypeOK
<1>3. CASE FinishUnknown
  BY <1>1, <1>2, <1>3, PassQuiet DEF FinishUnknown, Finishing
<1>4. CASE FinishDone
  BY <1>1, <1>2, <1>4 DEF FinishDone, Finishing, Resume, Write, Finished, world
<1>5. CASE FinishRejected \/ FinishBlocked
  BY <1>1, <1>2, <1>5 DEF FinishRejected, FinishBlocked, Finishing, Resume, Refused, Write,
     Finished, Reverts, world
<1>6. CASE FinishLeft
  BY <1>1, <1>2, <1>6 DEF FinishLeft, Finishing, Refused, Write, Finished, Reverts, world,
     CheckSteps
<1> QED BY <1>3, <1>4, <1>5, <1>6 DEF FinishStep

LEMMA LedgerFinishes ==
  ASSUME TypeOK, TypeOK', PassShape, LedgerInv, FinishStep
  PROVE  LedgerInv'
<1>1. CASE Quiet
  BY <1>1, LedgerFrame
<1>2. ASSUME NEW e \in Rows, Finished(e), e.stay <= stay[user],
             Tells(e, noted[user][job.kind])
      PROVE  LedgerInv'
  <2>1. step = "finish" /\ user \in Users /\ job.kind \in Kinds
    BY FinishFrame
  <2>2. LedgerKnown'
    BY <1>2, <2>1, LedgerWrite DEF LedgerInv, LedgerKnown, Finished
  <2>3. \A j \in Kinds \ {job.kind} : row'[user][j] = row[user][j]
    BY <1>2, <2>1 DEF Finished, TypeOK
  <2>4. step' \in CheckSteps => \A j \in left' : row'[user'][j].stay <= view'.stay
    BY <1>2, <2>1, <2>3 DEF Finished, LedgerInv, CheckSteps, TypeOK
  <2> QED BY <1>2, <2>2, <2>4 DEF Finished, LedgerInv, LedgerKnown, CheckSteps, ChangeSteps
<1>3. /\ user \in Users /\ job.kind \in Kinds /\ row[user][job.kind] \in Rows
      /\ job.old \in Rows /\ step = "finish"
  BY FinishFrame
<1>4. ASSUME Finished([row[user][job.kind] EXCEPT !.sure = TRUE])
      PROVE  LedgerInv'
  <2> DEFINE e == [row[user][job.kind] EXCEPT !.sure = TRUE]
  <2>1. e \in Rows /\ e.stay = row[user][job.kind].stay /\ e.op = row[user][job.kind].op
    BY <1>3 DEF Rows
  <2>2. e.stay <= stay[user] /\ Tells(e, noted[user][job.kind])
    BY <1>3, <2>1 DEF LedgerInv, Tells
  <2> HIDE DEF e
  <2> QED BY <1>2, <1>4, <2>1, <2>2 DEF e
<1>5. ASSUME Finished(job.old)
      PROVE  LedgerInv'
  BY <1>2, <1>3, <1>5 DEF LedgerInv, ChangeSteps
<1> QED BY <1>1, <1>4, <1>5, FinishFrame

LEMMA LedgerSends ==
  ASSUME TypeOK, LedgerInv, SendStep
  PROVE  LedgerInv'
BY SendFrame DEF SentOnly, LedgerInv, CheckSteps, ChangeSteps, Tells

\* What staff settled stays noted in the ledger.
LEMMA LedgerKept ==
  ASSUME TypeOK, TypeOK', PassShape, LedgerInv, [Next]_vars
  PROVE  LedgerInv'
<1>1. CASE UNCHANGED vars
  BY <1>1 DEF vars, world, checkVars, LedgerInv, CheckSteps, ChangeSteps, Tells
<1>2. ASSUME NEW u \in Users, RecordStep(u) \/ TimerStep(u) \/ CheckStep(u)
      PROVE  LedgerInv'
  <2>1. CASE Fetch(u)
    <3>1. Fetch(user')
      BY <2>1 DEF Fetch
    <3> QED BY <3>1, LedgerFrame
  <2> QED BY <1>2, <2>1, RecordFrame, TimerQuiet, PassQuiet, LedgerFrame DEF CheckStep
<1>3. CASE PassStep
  BY <1>2, <1>3, PassQuiet, LedgerFrame, LedgerDecides, LedgerBegins, LedgerSends,
     LedgerFinishes DEF PassStep
<1> QED BY <1>1, <1>2, <1>3, StopQuiet, LedgerFrame DEF Next
-------------------------------------------------------------------------------
(* The roles Gramps gave.                                                   *)

LEMMA OwnFrame ==
  ASSUME TypeOK, TypeOK', PassShape, OwnInv, RecordOnly \/ Quiet
  PROVE  OwnInv'
<1>1. CASE RecordOnly
  <2>1. OwnStaysOwn'
    BY <1>1 DEF RecordOnly, OwnInv, OwnStaysOwn, Own, Known, HeldRow, TypeOK
  <2>2. /\ step \in CheckSteps => user \in Users
        /\ step \in ChangeSteps => user \in Users /\ job.kind \in Kinds
    BY DEF PassShape, TypeOK, CheckSteps, ChangeSteps
  <2>3. ASSUME NEW k \in Kinds, user \in Users, k \in has'[user], given'[user][k] = "gramps"
        PROVE  Own(user, k) /\ stay'[user] = stay[user]
    BY <1>1, <2>3 DEF RecordOnly, Own
  <2>4. ASSUME step \in CheckSteps, NEW k \in left \ {job.kind}, k \in has'[user],
               given'[user][k] = "gramps"
        PROVE  k \in view.has
    BY <2>2, <2>3, <2>4 DEF OwnInv, TypeOK
  <2>5. ASSUME step \in ChangeSteps, job.kind \in has'[user], given'[user][job.kind] = "gramps"
        PROVE  /\ step # "finish" \/ answer \in Reverts => Known(job.old, stay'[user])
               /\ step = "finish" /\ answer = "applied" => job.op = "add"
    <3>1. Own(user, job.kind) /\ stay'[user] = stay[user]
      BY <2>2, <2>3, <2>5
    <3> QED BY <2>5, <3>1 DEF OwnInv
  <2>6. UNCHANGED <<row, step, user, view, left, job, answer>>
    BY <1>1 DEF RecordOnly
  <2> QED BY <2>1, <2>4, <2>5, <2>6 DEF OwnInv, Own, Known, HeldRow, SentSteps
<1>2. CASE Quiet
  BY <1>2 DEF Quiet, OwnInv, OwnStaysOwn, Own, Known, HeldRow, CheckSteps, ChangeSteps,
     SentSteps
<1> QED BY <1>1, <1>2

LEMMA OwnWrite ==
  ASSUME TypeOK, OwnStaysOwn, user \in Users, NEW k \in Kinds, NEW e \in Rows,
         row' = [row EXCEPT ![user][k] = e], UNCHANGED <<stay, has, given>>,
         Own(user, k) => Known(e, stay[user])
  PROVE  OwnStaysOwn'
<1>1. \A u \in Users, j \in Kinds : row'[u][j] = IF u = user /\ j = k THEN e ELSE row[u][j]
  BY DEF TypeOK
<1>2. SUFFICES ASSUME NEW u \in Users, NEW j \in has[u], given[u][j] = "gramps"
               PROVE  HeldRow(row'[u][j]) /\ row'[u][j].stay = stay[u]
  BY DEF OwnStaysOwn, HeldRow
<1>3. j \in Kinds
  BY DEF TypeOK
<1>4. CASE u = user /\ j = k
  BY <1>1, <1>2, <1>3, <1>4 DEF Own, Known
<1>5. CASE u # user \/ j # k
  <2>1. row'[u][j] = row[u][j]
    BY <1>1, <1>3, <1>5
  <2> QED BY <1>2, <2>1 DEF OwnStaysOwn
<1> QED BY <1>4, <1>5

LEMMA OwnFetches ==
  ASSUME TypeOK, PassShape, OwnInv, NEW u \in Users, Fetch(u)
  PROVE  OwnInv'
BY DEF Fetch, NextUser, world, OwnInv, OwnStaysOwn, Own, CheckSteps, ChangeSteps, SentSteps,
   HeldRow, TypeOK

\* A decision about a role that Gramps gave finds it in the reading and the row that knows it.
LEMMA OwnSeen ==
  ASSUME TypeOK, PassShape, LedgerInv, OwnInv, NEW k \in Kinds, Deciding(k), Own(user, k)
  PROVE  /\ k \in view.has /\ Known(row[user][k], stay[user]) /\ Entry(k) = row[user][k]
<1>1. user \in Users /\ k \in left /\ k # job.kind /\ step = "decide"
  BY RolesAssumption DEF Deciding, NextKind, PassShape, CheckSteps, NoJob, TypeOK
<1>2. k \in view.has /\ Known(row[user][k], stay[user])
  BY <1>1 DEF OwnInv, OwnStaysOwn, Own, Known, CheckSteps
<1>3. row[user][k].stay >= view.stay
  BY <1>1, <1>2, RolesAssumption DEF Known, PassShape, CheckSteps, TypeOK
<1> QED BY <1>2, <1>3 DEF Entry, Current

LEMMA OwnDecides ==
  ASSUME TypeOK, TypeOK', PassShape, LedgerInv, OwnInv, NEW k \in Kinds, DecideStep(k)
  PROVE  OwnInv'
<1> USE RolesAssumption
<1>1. CASE OverBudget(k)
  BY <1>1, PassQuiet, OwnFrame
<1>2. SUFFICES ASSUME ~OverBudget(k)
               PROVE  OwnInv'
  BY <1>1
<1>3. Deciding(k) /\ user \in Users /\ step = "decide" /\ row[user][k] \in Rows
  <2>1. Deciding(k)
    BY <1>2 DEF DecideStep, DecideNothing, DecideConfirm, DecideNote, DecideChange
  <2>2. user \in Users /\ step = "decide"
    BY <2>1 DEF Deciding, PassShape, CheckSteps
  <2> QED BY <2>1, <2>2 DEF TypeOK
<1>4. UNCHANGED <<stay, has, given, user, view>> /\ left' \subseteq left
  BY <1>2 DEF DecideStep, DecideNothing, DecideConfirm, DecideNote, DecideChange, world
<1>5. \A j \in left' \ {job'.kind} : Own(user, j)' => j \in view'.has
  <2>2. job.kind = "none" /\ left \subseteq Kinds
    BY <1>3 DEF PassShape, NoJob, TypeOK
  <2>1. \A j \in left : Own(user, j) => j \in view.has
    BY <1>3, <2>2 DEF OwnInv, CheckSteps
  <2> QED BY <1>4, <2>1 DEF Own
<1>6. ASSUME NEW e \in Rows, row' = [row EXCEPT ![user][k] = e],
             ~Own(user, k) \/ Known(e, stay[user]), step' = "decide"
      PROVE  OwnInv'
  <2>1. OwnStaysOwn'
    BY <1>3, <1>4, <1>6, OwnWrite DEF OwnInv
  <2> QED BY <1>4, <1>5, <1>6, <2>1 DEF OwnInv, CheckSteps, ChangeSteps, SentSteps, Own
<1>7. CASE DecideNothing(k)
  <2>1. row' = row /\ step' = "decide"
    BY <1>3, <1>7 DEF DecideNothing
  <2> QED BY <1>4, <1>5, <2>1 DEF OwnInv, OwnStaysOwn, HeldRow, CheckSteps, ChangeSteps,
             SentSteps, Own
<1>8. CASE DecideConfirm(k)
  <2> DEFINE e == [row[user][k] EXCEPT !.sure = TRUE]
  <2>1. e \in Rows /\ e.stay = row[user][k].stay /\ e.op = row[user][k].op
    BY <1>3 DEF Rows
  <2>2. Own(user, k) => e.op = "add"
    BY <1>3, <1>8, <2>1, OwnSeen DEF DecideConfirm, Confirms
  <2>3. Own(user, k) => Known(e, stay[user])
    BY <1>3, <2>1, <2>2, OwnSeen DEF Known, HeldRow
  <2>4. row' = [row EXCEPT ![user][k] = e] /\ step' = "decide"
    BY <1>3, <1>8 DEF DecideConfirm, Write
  <2> HIDE DEF e
  <2> QED BY <1>6, <2>1, <2>3, <2>4
<1>9. CASE DecideNote(k)
  <2> DEFINE e == Row("note", TRUE, stay[user])
  <2>1. e \in Rows
    BY <1>3 DEF Row, Rows, Ops, TypeOK
  <2>2. ~Own(user, k)
    BY <1>3, <1>9, OwnSeen DEF DecideNote, Notes, Known, HeldRow
  <2>3. row' = [row EXCEPT ![user][k] = e] /\ step' = "decide"
    BY <1>3, <1>9 DEF DecideNote, Write
  <2> HIDE DEF e
  <2> QED BY <1>6, <2>1, <2>2, <2>3
<1>10. ASSUME NEW op \in {"add", "remove"}, DecideChange(k, op)
       PROVE  OwnInv'
  <2>1. row' = row /\ step' = "begin" /\ job' = [kind |-> k, op |-> op, old |-> row[user][k]]
    BY <1>10 DEF DecideChange, world
  <2>2. job'.kind = k /\ job'.old = row[user][k]
    BY <2>1
  <2>3. Own(user, k)' => Own(user, k)
    BY <1>4 DEF Own
  <2>4. Own(user, k) => Known(job'.old, stay[user])
    BY <1>3, <2>2, OwnSeen
  <2>5. OwnStaysOwn'
    BY <1>4, <2>1 DEF OwnInv, OwnStaysOwn, HeldRow
  <2> QED BY <1>4, <1>5, <2>1, <2>2, <2>3, <2>4, <2>5
          DEF OwnInv, CheckSteps, ChangeSteps, SentSteps, Own, Known
<1> QED BY <1>2, <1>7, <1>8, <1>9, <1>10 DEF DecideStep
LEMMA OwnBegins ==
  ASSUME TypeOK, PassShape, OwnInv, BeginChange
  PROVE  OwnInv'
<1> DEFINE e == Row(job.op, FALSE, stay[user])
<1>1. /\ user \in Users /\ job.kind \in left /\ step = "begin" /\ job.op \in {"add", "remove"}
      /\ job.kind \in Kinds
  BY DEF BeginChange, PassShape, CheckSteps, ChangeSteps, TypeOK
<1>2. e \in Rows /\ e.stay = stay[user] /\ e.op = job.op /\ ~e.sure
  BY <1>1, RolesAssumption DEF Row, Rows, Ops, TypeOK
<1>3. /\ row' = [row EXCEPT ![user][job.kind] = e] /\ step' \in {"send", "error"}
      /\ UNCHANGED <<stay, has, given, user, view, left, job, answer>>
  BY DEF BeginChange, Write, world, checkVars
<1>4. Known(e, stay[user])
  BY <1>1, <1>2 DEF Known, HeldRow
<1> HIDE DEF e
<1>5. OwnStaysOwn'
  BY <1>1, <1>2, <1>3, <1>4, OwnWrite DEF OwnInv
<1>6. row'[user][job.kind] = e
  BY <1>1, <1>3 DEF TypeOK
<1>7. \A j \in left \ {job.kind} : Own(user, j) => j \in view.has
  BY <1>1 DEF OwnInv, CheckSteps
<1>8. Own(user, job.kind) => Known(job.old, stay[user])
  BY <1>1 DEF OwnInv, ChangeSteps
<1> QED BY <1>2, <1>3, <1>5, <1>6, <1>7, <1>8
        DEF OwnInv, CheckSteps, ChangeSteps, SentSteps, Own, Known, HeldRow

\* The same after the step.
OwnNext(u, k) == k \in has'[u] /\ given'[u][k] = "gramps"

LEMMA SendGives ==
  ASSUME TypeOK, user \in Users, job.kind \in Kinds, SendStep
  PROVE  /\ \A u \in Users, j \in Kinds :
              OwnNext(u, j) => Own(u, j) \/ (u = user /\ j = job.kind)
         /\ OwnNext(user, job.kind) =>
              /\ \/ Own(user, job.kind)
                 \/ /\ job.op = "add" /\ row[user][job.kind].stay = stay[user]
                    /\ answer' \notin Reverts
              /\ answer' = "applied" => job.op = "add"
<1>1. CASE answer' # "applied" /\ UNCHANGED <<has, given>>
  BY <1>1 DEF Own, OwnNext
<1>2. CASE job.op = "add" /\ UNCHANGED <<has, given>>
  BY <1>2 DEF Own, OwnNext
<1>3. CASE Takes(user, {job.kind})
  <2>1. \A u \in Users : has'[u] = IF u = user THEN has[u] \ {job.kind} ELSE has[u]
    BY <1>3 DEF Takes, TypeOK
  <2>2. \A u \in Users, j \in Kinds : u # user \/ j # job.kind => given'[u][j] = given[u][j]
    BY <1>3 DEF Takes, TypeOK
  <2> QED BY <2>1, <2>2 DEF Own, OwnNext
<1>4. CASE job.op = "add" /\ answer' \in {"applied", "unknown"} /\ Gives(user, job.kind, Giver)
  <2>1. \A u \in Users : has'[u] = IF u = user THEN has[u] \cup {job.kind} ELSE has[u]
    BY <1>4 DEF Gives, TypeOK
  <2>2. \A u \in Users, j \in Kinds :
          given'[u][j] = IF u = user /\ j = job.kind THEN Giver ELSE given[u][j]
    BY <1>4 DEF Gives, TypeOK
  <2>3. Giver = "gramps" => row[user][job.kind].stay = stay[user]
    BY DEF Giver
  <2> QED BY <1>4, <2>1, <2>2, <2>3 DEF Own, OwnNext, Reverts
<1> QED BY <1>1, <1>2, <1>3, <1>4, SendFrame DEF Effect

LEMMA OwnSends ==
  ASSUME TypeOK, PassShape, OwnInv, SendStep
  PROVE  OwnInv'
<1>1. /\ step = "send" /\ SentOnly /\ user \in Users /\ job.kind \in left
      /\ job.kind \in Kinds /\ job.op \in {"add", "remove"}
  BY SendFrame DEF PassShape, CheckSteps, ChangeSteps, TypeOK
<1>2. UNCHANGED <<stay, row, user, view, left, job>> /\ step' = "finish"
  BY <1>1 DEF SentOnly
<1>3. row[user][job.kind].op = job.op /\ ~row[user][job.kind].sure
  BY <1>1 DEF OwnInv, SentSteps
<1>4. has' \in [Users -> SUBSET Kinds]
  BY SendTypes DEF TypeOK
<1>5. OwnStaysOwn'
  <2>1. HeldRow(row[user][job.kind])
    BY <1>1, <1>3 DEF HeldRow
  <2>2. SUFFICES ASSUME NEW u \in Users, NEW j \in Kinds, OwnNext(u, j)
                 PROVE  HeldRow(row[u][j]) /\ row[u][j].stay = stay[u]
    BY <1>2, <1>4 DEF OwnStaysOwn, HeldRow, OwnNext
  <2>3. Own(u, j) \/ (u = user /\ j = job.kind /\ row[u][j].stay = stay[u])
    BY <1>1, <2>2, SendGives
  <2> QED BY <2>1, <2>3 DEF OwnInv, OwnStaysOwn, Own
<1>6. \A j \in left \ {job.kind} : OwnNext(user, j) => j \in view.has
  <2>1. \A j \in left \ {job.kind} : Own(user, j) => j \in view.has
    BY <1>1 DEF OwnInv, CheckSteps
  <2> QED BY <1>1, <2>1, SendGives DEF TypeOK
<1>7. OwnNext(user, job.kind) =>
        /\ answer' \in Reverts => Known(job.old, stay[user])
        /\ answer' = "applied" => job.op = "add"
  BY <1>1, SendGives DEF OwnInv, ChangeSteps
<1> QED BY <1>2, <1>3, <1>5, <1>6, <1>7 DEF OwnInv, Own, OwnNext, Known, HeldRow, SentSteps

LEMMA OwnFinishes ==
  ASSUME TypeOK, TypeOK', PassShape, OwnInv, FinishStep
  PROVE  OwnInv'
<1>1. CASE Quiet
  BY <1>1, OwnFrame
<1>2. /\ user \in Users /\ job.kind \in Kinds /\ row[user][job.kind] \in Rows
      /\ job.old \in Rows /\ step = "finish"
  BY FinishFrame
<1>3. ASSUME NEW e \in Rows, Finished(e), Own(user, job.kind) => Known(e, stay[user])
      PROVE  OwnInv'
  <2>1. OwnStaysOwn'
    BY <1>2, <1>3, OwnWrite DEF OwnInv, Finished
  <2>2. \A j \in left \ {job.kind} : Own(user, j) => j \in view.has
    BY <1>2 DEF OwnInv, CheckSteps
  <2> QED BY <1>3, <2>1, <2>2 DEF Finished, OwnInv, Own, CheckSteps, ChangeSteps, SentSteps
<1>4. ASSUME Finished([row[user][job.kind] EXCEPT !.sure = TRUE]), answer = "applied"
      PROVE  OwnInv'
  <2> DEFINE e == [row[user][job.kind] EXCEPT !.sure = TRUE]
  <2>1. e \in Rows /\ e.stay = row[user][job.kind].stay /\ e.op = row[user][job.kind].op
    BY <1>2 DEF Rows
  <2>2. Own(user, job.kind) => e.op = "add"
    BY <1>2, <1>4, <2>1 DEF OwnInv, ChangeSteps, SentSteps
  <2>3. Own(user, job.kind) => Known(e, stay[user])
    BY <1>2, <2>1, <2>2 DEF OwnInv, OwnStaysOwn, Own, Known, HeldRow
  <2> HIDE DEF e
  <2> QED BY <1>3, <1>4, <2>1, <2>3 DEF e
<1>5. ASSUME Finished(job.old), answer \in Reverts
      PROVE  OwnInv'
  BY <1>2, <1>3, <1>5 DEF OwnInv, ChangeSteps
<1> QED BY <1>1, <1>4, <1>5, FinishFrame

LEMMA OwnKept ==
  ASSUME TypeOK, TypeOK', PassShape, LedgerInv, OwnInv, [Next]_vars
  PROVE  OwnInv'
<1>1. CASE UNCHANGED vars
  BY <1>1 DEF vars, world, checkVars, OwnInv, OwnStaysOwn, Own, Known, HeldRow, CheckSteps,
     ChangeSteps, SentSteps
<1>2. ASSUME NEW u \in Users, RecordStep(u) \/ TimerStep(u) \/ CheckStep(u)
      PROVE  OwnInv'
  BY <1>2, OwnFetches, RecordFrame, TimerQuiet, PassQuiet, OwnFrame DEF CheckStep
<1>3. CASE PassStep
  BY <1>2, <1>3, PassQuiet, OwnFrame, OwnDecides, OwnBegins, OwnSends, OwnFinishes
     DEF PassStep
<1> QED BY <1>1, <1>2, <1>3, StopQuiet, OwnFrame DEF Next

-------------------------------------------------------------------------------
(* Queued changes.                                                          *)

\* Members and records queue what they change, and leave everything else.
LEMMA QueueRecords ==
  ASSUME TypeOK, PassShape, QueueInv, NEW u \in Users, RecordStep(u)
  PROVE  QueueInv'
<1>1. RecordOnly
  BY RecordFrame
<1>2. UNCHANGED <<queues, debt>> \/ Enqueue(u)
  BY DEF RecordStep, ReasonChanges, SupportRunsOut, StaffGive, StaffTake, Leave, Join
<1>3. CASE UNCHANGED <<queues, debt>>
  BY <1>1, <1>3 DEF RecordOnly, queues, debt, QueueInv, NothingForgotten
<1>4. CASE Enqueue(u)
  BY <1>1, <1>4 DEF RecordOnly, Enqueue, QueueInv, NothingForgotten
<1> QED BY <1>2, <1>3, <1>4

LEMMA QueueTimer ==
  ASSUME TypeOK, PassShape, QueueInv, NEW u \in Users, TimerStep(u)
  PROVE  QueueInv'
<1> USE RolesAssumption DEF TypeOK, PassShape, QueueInv, NothingForgotten, world, passVars,
        checkVars, debt
<1>1. CASE SafetyPass \/ Due(u) \/ Rested(u)
  BY <1>1 DEF SafetyPass, Due, Rested, QueuesOnly
<1>2. CASE StartFull
  BY <1>2 DEF StartFull, Begin
<1>3. CASE StartUsers
  BY <1>3 DEF StartUsers, Begin
<1>4. CASE StaffRun
  <2>1. step = "idle" /\ UNCHANGED <<owed, full, pending, deferred>>
    BY <1>4 DEF StaffRun, Begin, queues
  <2>2. \A w \in owed : full \/ w \in pending \cup deferred
    BY <2>1
  <2> QED BY <2>1, <2>2
<1> QED BY <1>1, <1>2, <1>3, <1>4 DEF TimerStep

LEMMA QueueCheck ==
  ASSUME TypeOK, PassShape, QueueInv, NEW u \in Users, CheckStep(u)
  PROVE  QueueInv'
<1> USE RolesAssumption DEF TypeOK, PassShape, QueueInv, NothingForgotten, NextUser, PassSame,
        queues, checkVars, debt
<1>1. CASE Postpone(u)
  BY <1>1 DEF Postpone, Defer
<1>2. CASE Fetch(u)
  BY <1>2 DEF Fetch
<1>3. CASE FetchAbsent(u)
  BY <1>3 DEF FetchAbsent, Settled
<1>4. CASE FetchFails(u)
  BY <1>4 DEF FetchFails
<1> QED BY <1>1, <1>2, <1>3, <1>4 DEF CheckStep

LEMMA QueueDecides ==
  ASSUME TypeOK, PassShape, QueueInv, NEW k \in Kinds, DecideStep(k)
  PROVE  QueueInv'
<1> USE DEF PassShape, QueueInv, NothingForgotten, Deciding, PassSame, queues, debt
<1>1. CASE DecideNothing(k) \/ DecideConfirm(k) \/ DecideNote(k)
  <2>1. UNCHANGED <<full, pending, deferred, step, origin, asked, todo, user, owed, seen>>
    BY <1>1 DEF DecideNothing, DecideConfirm, DecideNote
  <2> QED BY <2>1
<1>2. ASSUME NEW op \in {"add", "remove"}, DecideChange(k, op)
      PROVE  QueueInv'
  BY <1>2 DEF DecideChange
<1>3. CASE OverBudget(k)
  BY <1>3 DEF OverBudget, Defer, EndCheck
<1> QED BY <1>1, <1>2, <1>3 DEF DecideStep

LEMMA QueueFinishes ==
  ASSUME TypeOK, PassShape, QueueInv, FinishStep
  PROVE  QueueInv'
<1> USE DEF TypeOK, QueueInv, NothingForgotten, Finishing, queues, debt
<1>1. CASE FinishDone \/ FinishRejected \/ FinishBlocked
  BY <1>1 DEF FinishDone, FinishRejected, FinishBlocked, Resume
<1>2. CASE FinishLeft
  BY <1>2 DEF FinishLeft, EndCheck, Settled
<1>3. CASE FinishUnknown
  BY <1>3 DEF FinishUnknown, EndCheck, RetryLater, Defer
<1> QED BY <1>1, <1>2, <1>3 DEF FinishStep

LEMMA QueuePass ==
  ASSUME TypeOK, PassShape, QueueInv, PassStep
  PROVE  QueueInv'
<1> USE RolesAssumption DEF TypeOK, PassShape, QueueInv, NothingForgotten, queues, checkVars,
        debt
<1>1. CASE SetupRefused
  BY <1>1 DEF SetupRefused, PassSame
<1>2. CASE Read
  <2>1. /\ step = "read" /\ step' = "next" /\ user = Nobody
        /\ UNCHANGED <<full, pending, deferred, origin, asked, user>>
        /\ owed' = owed \ (todo \ (todo' \cup pending)) /\ seen' = owed \cap todo'
    BY <1>2 DEF Read
  <2>2. \A w \in owed : full \/ w \in pending \cup deferred \/ w \in todo
    BY <2>1
  <2>3. NothingForgotten'
    BY <2>1, <2>2
  <2> QED BY <2>1, <2>3
<1>3. CASE FetchFailed
  BY <1>3 DEF FetchFailed, EndCheck, RetryLater, Defer, Settled, PassSame
<1>4. CASE EndUser
  BY <1>4 DEF EndUser, EndCheck, Settled, PassSame
<1>5. CASE BeginChange
  BY <1>5 DEF BeginChange
<1>6. CASE SendStep
  BY <1>6, SendFrame DEF SentOnly
<1>7. CASE EndPass
  BY <1>7 DEF EndPass, Over, EndCheck
<1>8. CASE PassError
  <2>1. /\ UNCHANGED <<pending, owed>> /\ origin' = "full" /\ full' = (full \/ origin = "full")
        /\ deferred' = IF origin = "users" THEN deferred \cup asked ELSE deferred
    BY <1>8 DEF PassError, Over
  <2>2. \A w \in owed : \/ full \/ origin = "full" \/ w \in pending \cup deferred
                        \/ origin = "users" /\ w \in asked
    <3>1. \A w \in owed : w # Nobody
      OBVIOUS
    <3> QED BY <3>1
  <2>3. \A w \in owed : full' \/ w \in pending' \cup deferred'
    BY <2>1, <2>2
  <2> QED BY <2>1, <2>3
<1> QED BY <1>1, <1>2, <1>3, <1>4, <1>5, <1>6, <1>7, <1>8, QueueCheck, QueueDecides,
           QueueFinishes DEF PassStep

LEMMA QueueKept ==
  ASSUME TypeOK, PassShape, QueueInv, [Next]_vars
  PROVE  QueueInv'
<1> USE RolesAssumption DEF TypeOK, PassShape, QueueInv, NothingForgotten, queues, passVars,
        checkVars, debt
<1>1. CASE UNCHANGED vars
  BY <1>1 DEF vars
<1>2. CASE PassStops
  BY <1>2 DEF PassStops
<1>3. CASE Crash
  BY <1>3 DEF Crash
<1>4. CASE Startup
  BY <1>4 DEF Startup
<1> QED BY <1>1, <1>2, <1>3, <1>4, QueueRecords, QueueTimer, QueuePass DEF Next

-------------------------------------------------------------------------------
(* The theorems.                                                            *)

LEMMA RolesInit == Init => RolesInv
<1> SUFFICES ASSUME Init PROVE RolesInv
  OBVIOUS
<1>1. TypeOK
  BY RolesAssumption, NoJobIsJob DEF Init, TypeOK, Reasons, NoRow, Row, Rows, Ops, NoView, Blank
<1>2. PassShape
  BY DEF Init, PassShape, CheckSteps, ChangeSteps
<1>3. LedgerInv
  BY DEF Init, LedgerInv, Tells, CheckSteps, ChangeSteps, NoRow, Row
<1>4. OwnInv
  BY DEF Init, OwnInv, OwnStaysOwn, CheckSteps, ChangeSteps, SentSteps
<1>5. QueueInv
  BY DEF Init, QueueInv, NothingForgotten
<1> QED BY <1>1, <1>2, <1>3, <1>4, <1>5 DEF RolesInv

LEMMA RolesInductive == Spec => []RolesInv
<1>1. RolesInv /\ [Next]_vars => RolesInv'
  BY TypesKept, ShapeKept, LedgerKept, OwnKept, QueueKept DEF RolesInv
<1> QED BY <1>1, RolesInit, PTL DEF Spec

\* Members, the ledger, the queues and the pass keep their shapes, a pass never makes more
\* changes than it may, and what it has read of is a part of what is owed.
THEOREM RolesTypeCorrect == Spec => []TypeOK
<1>1. RolesInv => TypeOK
  BY DEF RolesInv
<1> QED BY <1>1, RolesInductive, PTL

\* For any members, roles and numbers of joins, whatever answer is lost and wherever the
\* process stops: no change is sent for a role that was noted as staff's business in the
\* stay it was decided for, and the ledger knows every role that Gramps gave as its own.
THEOREM OwnAndStaffRoles == Spec => []RolesKnown
<1>1. RolesInv => HandsOff
  BY RolesAssumption DEF RolesInv, LedgerInv, HandsOff, ChangeSteps, CheckSteps, PassShape,
     TypeOK
<1>2. RolesInv => RolesKnown
  BY <1>1 DEF RolesInv, OwnInv, RolesKnown
<1> QED BY <1>2, RolesInductive, PTL

\* For any queue and budget: a change that was queued and not dealt with is in a queue, in
\* the check that has read it, or covered by a check of everyone that is due.
THEOREM ChangesWait == Spec => []NothingForgotten
<1>1. RolesInv => NothingForgotten
  BY DEF RolesInv, QueueInv
<1> QED BY <1>1, RolesInductive, PTL
===============================================================================
