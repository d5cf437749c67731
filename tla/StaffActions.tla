----------------------------- MODULE StaffActions -----------------------------
(***************************************************************************)
(* What a staff member's requests go through: the session and the role     *)
(* (admin.auth.ts), the receipt, the game and the result (admin.service.ts, *)
(* admin.store.ts), and pages read through a short cache. A request may be *)
(* sent again, and any call it waits for may fail or lose its answer.      *)
(***************************************************************************)
EXTENDS Integers

CONSTANTS PageReads,   \* bound: requests that read a page
          Changes,     \* bound: requests that change the game
          ActionIds,   \* action IDs
          ActionOf,    \* [Changes -> its action ID]
          MaxRoles     \* bound: changes of the role at Discord

StaffRequests == PageReads \cup Changes

ASSUME StaffActionsAssumption == MaxRoles \in Nat /\ ActionOf \in [Changes -> ActionIds] /\ PageReads \cap Changes = {}

VARIABLES
  roleNow,     \* the role Discord has: 0 none, 1 viewer, 2 admin
  roleChanges, \* bound
  signedIn,    \* admin_sessions has the session
  cached,      \* memberCache: the role, or 0
  throttled,   \* lastActions: the last action is less than a second old
  receipts,    \* admin_actions: [ActionIds -> its state]
  stepOf,      \* [StaffRequests -> its step]
  roleGot,     \* [StaffRequests -> the role it was given]
  shares,      \* [PageReads -> the request whose reading it waits for]
  gameSeen,    \* [StaffRequests -> the game as a page shows it, or as a change left it]
  outcome,     \* [StaffRequests -> what it was answered]
  page,        \* reads: the request whose reading is shared, or NoPage
  game,        \* changes the game has applied
  known,       \* history: what the game had applied with the changes answered as applied
  needs,       \* history: [StaffRequests -> known when it arrived]
  entitled,    \* history: requests under way whose account could make a change since they arrived
  sent,        \* history: [ActionIds -> times it was sent]
  applied      \* history: action IDs the game applied

requestVars == <<stepOf, roleGot, shares, gameSeen, outcome, needs, entitled>>
accountVars == <<roleNow, roleChanges, signedIn, cached, throttled>>
gameVars == <<receipts, game, known, sent, applied>>
staffVars == <<accountVars, requestVars, page, gameVars>>

NoPage == "none"
Unread == 0 - 1

StaffInit ==
  /\ roleNow \in 0 .. 2 /\ roleChanges = 0 /\ signedIn = FALSE /\ cached = 0 /\ throttled = FALSE
  /\ receipts = [i \in ActionIds |-> "none"]
  /\ stepOf = [q \in StaffRequests |-> "new"] /\ roleGot = [q \in StaffRequests |-> 0]
  /\ shares = [q \in PageReads |-> NoPage] /\ gameSeen = [q \in StaffRequests |-> Unread]
  /\ outcome = [q \in StaffRequests |-> "none"]
  /\ page = NoPage /\ game = 0 /\ known = 0
  /\ needs = [q \in StaffRequests |-> 0] /\ entitled = {}
  /\ sent = [i \in ActionIds |-> 0] /\ applied = {}

\* canAct, for an action only administrators have.
CanAct(role) == role = 2
UnderWay(q) == stepOf[q] \notin {"new", "done"}
Moves(q, step) == stepOf' = [stepOf EXCEPT ![q] = step]
\* A request is answered with its outcome.
Closes(q, result) == Moves(q, "done") /\ outcome' = [outcome EXCEPT ![q] = result] /\ entitled' = entitled \ {q}

-----------------------------------------------------------------------------
(* Sign-in and the role *)

RoleChanges ==
  /\ roleChanges < MaxRoles /\ roleChanges' = roleChanges + 1
  /\ roleNow' \in 0 .. 2 \ {roleNow}
  /\ entitled' = IF CanAct(roleNow') THEN {q \in Changes : UnderWay(q)} ELSE entitled
  /\ UNCHANGED <<signedIn, cached, throttled, stepOf, roleGot, shares, gameSeen, outcome, needs, page, gameVars>>

\* callback: a fresh role first, then the session.
SignsIn ==
  /\ roleNow > 0 /\ signedIn' = TRUE /\ cached' = roleNow
  /\ UNCHANGED <<roleNow, roleChanges, throttled, requestVars, page, gameVars>>
Logout ==
  /\ signedIn /\ signedIn' = FALSE
  /\ UNCHANGED <<roleNow, roleChanges, cached, throttled, requestVars, page, gameVars>>

\* Mutant: a change may use the role a page read cached.
AnyCached(q) == cached # 0
\* role: a read may use the cached role; a change asks Discord.
UsesCache(q) == q \in PageReads /\ cached # 0

\* authenticate, to the point where it waits for Discord or has the cached role.
RequestArrives(q) ==
  /\ stepOf[q] = "new" /\ signedIn
  /\ Moves(q, IF UsesCache(q) THEN "answered" ELSE "role")
  /\ roleGot' = [roleGot EXCEPT ![q] = IF UsesCache(q) THEN cached ELSE 0]
  /\ needs' = [needs EXCEPT ![q] = known]
  /\ entitled' = IF q \in Changes /\ CanAct(roleNow) THEN entitled \cup {q} ELSE entitled
  /\ cached' = IF UsesCache(q) THEN cached ELSE 0
  /\ UNCHANGED <<roleNow, roleChanges, signedIn, throttled, shares, gameSeen, outcome, page, gameVars>>

DiscordReads(q) ==
  /\ stepOf[q] = "role"
  /\ \/ /\ Moves(q, "answered") /\ roleGot' = [roleGot EXCEPT ![q] = roleNow]
        /\ UNCHANGED <<outcome, entitled>>
     \/ Closes(q, "refused") /\ UNCHANGED roleGot
  /\ UNCHANGED <<accountVars, shares, gameSeen, needs, page, gameVars>>

\* The role arrives: none ends the request; a change needs the right and the second since the last one.
TurnedDown(q) == roleGot[q] = 0 \/ (q \in Changes /\ (~CanAct(roleGot[q]) \/ throttled))
HasRole(q) ==
  /\ stepOf[q] = "answered"
  /\ cached' = roleGot[q]
  /\ \/ TurnedDown(q) /\ Closes(q, "refused") /\ UNCHANGED throttled
     \/ /\ ~TurnedDown(q) /\ Moves(q, IF q \in Changes THEN "record" ELSE "page")
        /\ throttled' = (throttled \/ q \in Changes) /\ UNCHANGED <<outcome, entitled>>
  /\ roleGot' = [roleGot EXCEPT ![q] = 0]
  /\ UNCHANGED <<roleNow, roleChanges, signedIn, shares, gameSeen, needs, page, gameVars>>

SecondPasses ==
  /\ throttled /\ throttled' = FALSE
  /\ UNCHANGED <<roleNow, roleChanges, signedIn, cached, requestVars, page, gameVars>>
CacheLapses ==
  /\ cached # 0 /\ cached' = 0
  /\ UNCHANGED <<roleNow, roleChanges, signedIn, throttled, requestVars, page, gameVars>>

-----------------------------------------------------------------------------
(* A change *)

\* Mutant: a receipt that has no result yet does not stop a repeat.
CreatesUnfinished(i) == receipts[i] \in {"none", "started"}
\* begin: the insert created the receipt.
Creates(i) == receipts[i] = "none"

RecordReceipt(q) ==
  LET i == ActionOf[q] IN
  /\ stepOf[q] = "record"
  /\ \/ Closes(q, "unrecorded") /\ UNCHANGED receipts
     \/ /\ Creates(i) /\ receipts' = [receipts EXCEPT ![i] = "started"] /\ Moves(q, "send")
        /\ UNCHANGED <<outcome, entitled>>
     \/ /\ ~Creates(i) /\ UNCHANGED receipts
        /\ Closes(q, IF receipts[i] = "started" THEN "unknown" ELSE receipts[i])
  /\ UNCHANGED <<accountVars, roleGot, shares, gameSeen, needs, page, game, known, sent, applied>>

\* execute: the game applies it or not; the answer says so, or is lost.
Sends(q) ==
  LET i == ActionOf[q] IN
  /\ stepOf[q] = "send" /\ Moves(q, "sent")
  /\ sent' = [sent EXCEPT ![i] = @ + 1]
  /\ \/ /\ game' = game + 1 /\ applied' = applied \cup {i}
        /\ \E said \in {"applied", "unknown"} : outcome' = [outcome EXCEPT ![q] = said]
     \/ /\ UNCHANGED <<game, applied>>
        /\ \E said \in {"failed", "unknown"} : outcome' = [outcome EXCEPT ![q] = said]
  /\ gameSeen' = [gameSeen EXCEPT ![q] = game']
  /\ UNCHANGED <<accountVars, roleGot, shares, needs, entitled, receipts, page, known>>

\* Mutant: cached pages stay when an action has finished.
KeepPages == page
\* The server's pages are read anew after the action.
ClearPages == NoPage
Answered(q) ==
  /\ stepOf[q] = "sent" /\ Moves(q, "finish") /\ page' = ClearPages
  /\ UNCHANGED <<accountVars, roleGot, shares, gameSeen, outcome, needs, entitled, gameVars>>

Finishes(q) ==
  LET i == ActionOf[q] IN
  /\ stepOf[q] = "finish"
  /\ \/ /\ receipts' = [receipts EXCEPT ![i] = outcome[q]] /\ Closes(q, outcome[q])
        /\ known' = IF outcome[q] = "applied" /\ gameSeen[q] > known THEN gameSeen[q] ELSE known
     \/ Closes(q, "unknown") /\ UNCHANGED <<receipts, known>>  \* the result could not be saved
  /\ UNCHANGED <<accountVars, roleGot, shares, gameSeen, needs, page, game, sent, applied>>

-----------------------------------------------------------------------------
(* A page *)

\* read: a reading under way or less than ten seconds old is shared.
ReadPage(q) ==
  /\ stepOf[q] = "page"
  /\ \/ page = NoPage /\ page' = q /\ Moves(q, "reading") /\ UNCHANGED <<shares, gameSeen>>
     \/ /\ page # NoPage /\ gameSeen[page] # Unread
        /\ Moves(q, "done") /\ gameSeen' = [gameSeen EXCEPT ![q] = gameSeen[page]] /\ UNCHANGED <<page, shares>>
     \/ /\ page # NoPage /\ gameSeen[page] = Unread
        /\ Moves(q, "joined") /\ shares' = [shares EXCEPT ![q] = page] /\ UNCHANGED <<page, gameSeen>>
  /\ UNCHANGED <<accountVars, roleGot, outcome, needs, entitled, gameVars>>

Waiting(q) == {r \in PageReads : stepOf[r] = "joined" /\ shares[r] = q}
\* The game answers, for everyone who shares the reading; a failed reading is not kept.
PageRead(q) ==
  LET readers == {q} \cup Waiting(q) IN
  /\ stepOf[q] = "reading"
  /\ stepOf' = [r \in StaffRequests |-> IF r \in readers THEN "done" ELSE stepOf[r]]
  /\ shares' = [r \in PageReads |-> IF r \in readers THEN NoPage ELSE shares[r]]
  /\ \/ /\ gameSeen' = [r \in StaffRequests |-> IF r \in readers THEN game ELSE gameSeen[r]]
        /\ UNCHANGED <<page, outcome>>
     \/ /\ outcome' = [r \in StaffRequests |-> IF r \in readers THEN "failed" ELSE outcome[r]]
        /\ page' = IF page = q THEN NoPage ELSE page
        /\ UNCHANGED gameSeen
  /\ UNCHANGED <<accountVars, roleGot, needs, entitled, gameVars>>

PageLapses ==
  /\ page # NoPage /\ page' = NoPage
  /\ UNCHANGED <<accountVars, requestVars, gameVars>>

\* A restart: what was under way is gone, receipts and sessions are not.
StaffRestart ==
  /\ stepOf' = [q \in StaffRequests |-> IF UnderWay(q) THEN "done" ELSE stepOf[q]]
  /\ outcome' = [q \in StaffRequests |-> IF UnderWay(q) THEN "unknown" ELSE outcome[q]]
  /\ roleGot' = [q \in StaffRequests |-> 0] /\ shares' = [q \in PageReads |-> NoPage] /\ entitled' = {}
  /\ cached' = 0 /\ throttled' = FALSE /\ page' = NoPage
  /\ UNCHANGED <<roleNow, roleChanges, signedIn, gameSeen, needs, gameVars>>

StaffNext ==
  \/ RoleChanges \/ SignsIn \/ Logout \/ SecondPasses \/ CacheLapses \/ PageLapses \/ StaffRestart
  \/ \E q \in StaffRequests : RequestArrives(q) \/ DiscordReads(q) \/ HasRole(q)
  \/ \E q \in Changes : RecordReceipt(q) \/ Sends(q) \/ Answered(q) \/ Finishes(q)
  \/ \E q \in PageReads : ReadPage(q) \/ PageRead(q)
StaffSpec == StaffInit /\ [][StaffNext]_staffVars

-----------------------------------------------------------------------------
(* Properties *)

RequestSteps == {"new", "role", "answered", "record", "send", "sent", "finish", "page", "reading", "joined", "done"}
ReceiptStates == {"none", "started", "applied", "failed", "unknown"}
Outcomes == {"none", "refused", "unrecorded", "unknown", "applied", "failed"}
StaffTypeOK ==
  /\ roleNow \in 0 .. 2 /\ cached \in 0 .. 2 /\ page \in PageReads \cup {NoPage}
  /\ game \in Nat /\ known \in Nat /\ known <= game
  /\ receipts \in [ActionIds -> ReceiptStates] /\ sent \in [ActionIds -> Nat] /\ applied \subseteq ActionIds
  /\ stepOf \in [StaffRequests -> RequestSteps] /\ outcome \in [StaffRequests -> Outcomes]
  /\ roleGot \in [StaffRequests -> 0 .. 2] /\ shares \in [PageReads -> PageReads \cup {NoPage}]
  /\ gameSeen \in [StaffRequests -> Nat \cup {Unread}] /\ needs \in [StaffRequests -> Nat] /\ entitled \subseteq Changes

\* However often a request is repeated, after a restart or a lost answer too, its action is sent to the
\* game at most once, and what any of them is told happened did happen.
SentOnceAndTold ==
  /\ \A i \in ActionIds : sent[i] <= 1
  /\ \A q \in Changes : /\ outcome[q] = "applied" => ActionOf[q] \in applied
                        /\ outcome[q] = "failed" => ActionOf[q] \notin applied

\* A page asked for after an action was answered as applied never shows the game before it, though pages
\* are shared for ten seconds and a reading may be under way meanwhile.
PagesFollowActions ==
  \A q \in PageReads : gameSeen[q] # Unread => gameSeen[q] >= needs[q]

\* A change is recorded and sent only for an account that could make it at some moment since the request
\* arrived: the role cached for page reads is never enough.
RecheckedForChange == \A q \in Changes : stepOf[q] \in {"record", "send", "sent", "finish"} => q \in entitled

\* A page shown and a person acting are never older than the actions and the roles they follow.
NeverStale == PagesFollowActions /\ RecheckedForChange

\* What staff send happens once, and what they are told and shown about it is so.
RequestsTrue == SentOnceAndTold /\ NeverStale
=============================================================================
