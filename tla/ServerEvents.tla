----------------------------- MODULE ServerEvents -----------------------------
(***************************************************************************)
(* One 50v50 event of a game server (src/server-events), from the moment   *)
(* it is recorded until it is complete: its row, the bot processes whose   *)
(* passes switch the team lock off, warn and move players and put the lock *)
(* back, the staff who stop it, restore the lock or edit the settings, and *)
(* the game.                                                               *)
(*                                                                         *)
(* A pass reads the row, then the game, and commits one decision; an       *)
(* operation is claimed in the row, checked, sent to the game and settled. *)
(* Other processes and staff act between these steps, and a process may    *)
(* stop at any of them. Waiting times (warnings, retry gaps, minutes until *)
(* an alert or a review) may end at any pass. The game is read in the step *)
(* that commits: a change of the row in between refuses the commit, or the *)
(* commit is a stop or a halt, which look at the row they find.            *)
(***************************************************************************)
EXTENDS Naturals, FiniteSets

CONSTANTS
  Workers,         \* bot processes that run the event worker
  Restores,        \* reviewed restorations by an administrator, each once
  Players,         \* players who may have to change teams
  Nobody,
  RetryLimit,      \* RETRY_LIMIT, 3 in the code
  RestoreAttempts, \* RESTORE_ATTEMPTS, 5 in the code
  PlannedRounds,   \* options.rounds of a voted event
  ForceRespawn,    \* options.forceRespawn
  PlayerMessages,  \* options.playerMessages: one player can be messaged
  MaxRound         \* bound: rounds the game plays after the event was armed

ASSUME HandlersAssumption ==
  /\ Workers \cap Restores = {}
  /\ Nobody \notin Workers \cup Restores \cup Players
ASSUME LimitsAssumption ==
  /\ {RetryLimit, RestoreAttempts, PlannedRounds} \subseteq Nat \ {0}
  /\ MaxRound \in Nat
ASSUME OptionsAssumption == {ForceRespawn, PlayerMessages} \subseteq BOOLEAN

VARIABLES
  vote, original,  \* the event: started by a ballot; the lock's value before it
  state, stop, op, progress,  \* its row; op is the handler of the claimed operation
  open,         \* handlers whose operation's receipt still says "started"
  lock, round,  \* the game: the saved team lock is on; rounds since the start
  step,         \* a handler's step
  current,      \* workers whose pass has read the present version of the row
  job,          \* a handler's operation: kind, players, round, whether it names the
                \* current settings revision, and the game's answer
  ours,         \* history: the lock is off because an event action switched it off
  past,         \* history: handlers about to send when the stop was recorded
  moved,        \* history: players whose move was confirmed in the running round
  doubtful      \* history: a voted event has settled a move of unknown result

rowVars == <<state, stop, op, progress, open>>
gameVars == <<lock, round>>
history == <<ours, moved, doubtful>>
vars == <<vote, original, rowVars, gameVars, step, current, job, past, history>>

Handlers == Workers \cup Restores
AfterStop == {"restore_lock", "ended"}
LockKinds == {"disable_lock", "restore_lock"}
PlayerKinds == {"player_warning", "move", "respawn"}
RoundKinds == PlayerKinds \cup {"round_warning", "ready"}
Kinds == AfterStop \cup LockKinds \cup RoundKinds \cup {"armed"}

NoJob == [kind |-> "none", who |-> {}, target |-> 0,
          fresh |-> FALSE, answer |-> "none"]
NewProgress == [round |-> 0, started |-> 0, disabled |-> FALSE, disables |-> 0,
                restores |-> 0, failures |-> 0, warning |-> FALSE, warned |-> {},
                moved |-> {}, respawn |-> Nobody, ready |-> FALSE, ended |-> FALSE,
                issue |-> FALSE]
\* nextRoundProgress: what belongs to one round starts over.
NextRoundProgress(p) ==
  [NewProgress EXCEPT !.round = p.round, !.started = p.started,
     !.disabled = p.disabled, !.disables = p.disables, !.failures = p.failures]

\* start, startFromVote: the event as recorded, in the running round.
Init ==
  /\ vote \in BOOLEAN /\ original \in BOOLEAN
  /\ state = "preparing" /\ stop = "none" /\ op = Nobody /\ progress = NewProgress
  /\ open = {} /\ lock = original /\ round = 0
  /\ step = [h \in Handlers |-> "idle"] /\ current = {}
  /\ job = [h \in Handlers |-> NoJob]
  /\ ours = FALSE /\ past = {} /\ moved = {} /\ doubtful = FALSE

GameSame == UNCHANGED <<vote, original, gameVars, history>>
To(h, s) == step' = [step EXCEPT ![h] = s]
Rest(h) == To(h, IF h \in Workers THEN "idle" ELSE "done")

-------------------------------------------------------------------------------
(* What is committed to the row (ServerEventsStore), each in one transaction. *)

\* The version is the one the pass read: every commit makes another.
Unchanged(w) == w \in current
NewVersion == current' = {}

\* observe
Observe(w, newState, newProgress) ==
  /\ Unchanged(w) /\ op = Nobody /\ state # "complete"
  /\ stop # "none" => newState \in {"stopping", "needs_review"}
  /\ state' = newState /\ progress' = newProgress
  /\ UNCHANGED <<stop, op, open, job, past>>
  /\ Rest(w) /\ NewVersion /\ GameSame
Review(w, newProgress) == Observe(w, "needs_review", newProgress)

\* completeRestored, completeUnchanged
Complete(w) ==
  /\ Unchanged(w) /\ op = Nobody /\ stop # "none"
  /\ state' = "complete"
  /\ UNCHANGED <<stop, op, progress, open, job, past>>
  /\ Rest(w) /\ NewVersion /\ GameSame

\* The operations that have passed their final check: they can no longer be held back.
Sending == {h \in Handlers : step[h] = "send"}

\* stop: the first one stands; a claimed operation or a review keeps the state.
RecordStop(why) ==
  /\ stop = "none" /\ state # "complete"
  /\ stop' = why /\ past' = Sending
  /\ state' = IF op # Nobody \/ state = "needs_review" THEN state ELSE "stopping"
  /\ UNCHANGED <<op, progress, open, job>> /\ NewVersion /\ GameSame

\* halt, as committed: an interrupted operation is released, its receipt unknown.
Halted(orphan) ==
  /\ stop' = IF stop = "none" THEN "other" ELSE stop
  /\ past' = IF stop = "none" THEN Sending ELSE past
  /\ state' = "stopping"
  /\ open' = open \ {orphan}
\* Mutated form of Release: the pointer to the interrupted operation stays.
ReleaseLater(orphan) == Halted(orphan) /\ op' = op
Release(orphan) == Halted(orphan) /\ op' = Nobody
\* halt
Halt(h, orphan) ==
  /\ IF state \notin {"complete", "needs_review"} /\ op = orphan
       THEN Release(orphan) /\ NewVersion
       ELSE UNCHANGED <<state, stop, op, open, past>> /\ current' = current \ {h}
  /\ UNCHANGED <<progress, job>>
  /\ Rest(h) /\ GameSame

\* Mutated form of MayClaim: a reviewed restoration supersedes an operation in any state.
MayClaimOver(k, manual) ==
  /\ op # Nobody => manual
  /\ state = "needs_review" => k = "restore_lock"
  /\ stop # "none" => k \in AfterStop
\* After a stop only the restore and the end-of-event notice are claimed; a review is
\* left, and an unresolved operation superseded, only by a reviewed restoration.
MayClaim(k, manual) ==
  /\ op # Nobody => manual /\ state = "needs_review" /\ k = "restore_lock"
  /\ state = "needs_review" => k = "restore_lock"
  /\ stop # "none" => k \in AfterStop
\* claim: the operation's receipt and the row that points to it.
Claim(h, k, players, fresh, newProgress, manual) ==
  /\ MayClaim(k, manual) /\ state # "complete"
  /\ op' = h /\ progress' = newProgress
  /\ open' = open \cup {h}
  /\ state' = IF k = "restore_lock" \/ stop # "none" THEN "stopping" ELSE state
  /\ job' = [job EXCEPT ![h] = [kind |-> k, who |-> players, fresh |-> fresh,
               answer |-> "none", target |-> IF k \in RoundKinds THEN round ELSE 0]]
  /\ To(h, "check")
  /\ UNCHANGED <<stop, past>> /\ NewVersion /\ GameSame
\* A lock change names the settings revision the pass read.
Start(w, k, players, newProgress) ==
  /\ Unchanged(w)
  /\ \E fresh \in BOOLEAN : (fresh <=> k \in LockKinds) /\ Claim(w, k, players, fresh, newProgress, FALSE)

-------------------------------------------------------------------------------
(* The pass of a worker (tick).                                             *)

\* tick: the row as read; a completed event and one awaiting review are left alone.
Look(w) ==
  /\ step[w] = "idle" /\ op = Nobody /\ state \notin {"complete", "needs_review"}
  /\ step' = [step EXCEPT ![w] = "pass"] /\ current' = current \cup {w}
  /\ UNCHANGED <<rowVars, job, past>> /\ GameSame
Passing(w) == step[w] = "pass"
\* The event's time is up, or voted events are held: the pass first records a stop.
Expire == (\E w \in Workers : step[w] = "idle") /\ RecordStop("other")
          /\ UNCHANGED step
StaffStop == RecordStop("other") /\ UNCHANGED step

\* Assumption on INTERRUPTED_MS: an operation that passed its final check is answered
\* and settled within two minutes of its claim, or its process has stopped.
Overdue == op # Nobody /\ step[op] \notin {"send", "settle"}
\* recover: a voted event stops itself and a restore is rechecked; others need review.
Takeover(w) ==
  /\ step[w] = "idle" /\ Overdue
  /\ IF vote \/ job[op].kind \in AfterStop THEN Halt(w, op)
     ELSE /\ state # "needs_review"
          /\ state' = "needs_review"
          /\ UNCHANGED <<stop, op, progress, open, job, step, past>>
          /\ NewVersion /\ GameSame

\* The pass decides nothing: something could not be read or checked, or waits.
Wait(w) ==
  /\ Passing(w) /\ Rest(w) /\ current' = current \ {w}
  /\ UNCHANGED <<rowVars, job, past>> /\ GameSame
\* Changed connection, or the administrator's access was lost.
Unreachable(w) == Passing(w) /\ Review(w, progress)

\* An issue is recorded at first, and reviewed when it has lasted.
Noted(w, newState) == Observe(w, newState, [progress EXCEPT !.issue = TRUE])
Lasting(w, newState) ==
  \/ Noted(w, newState)
  \/ progress.issue /\ Review(w, progress)
LockMayBeOff(p) == original /\ (p.disabled \/ p.disables > 0)
\* unreadableSettings: the settings as a whole could not be read.
Unreadable(w) ==
  /\ Passing(w) /\ LockMayBeOff(progress)
  /\ Lasting(w, state)

\* stopFor: staff switched the lock on.
LockChanged(w, p) ==
  \/ vote /\ RecordStop("other") /\ Rest(w)
  \/ ~vote /\ Review(w, p)
\* A voted event stops itself where one of staff waits for them.
Give(w, p) == IF vote THEN Halt(w, Nobody) ELSE Review(w, p)

\* tick with a stop and an original lock that was off.
FinishOff(w) == Passing(w) /\ stop # "none" /\ ~original /\ Complete(w)
Restorable(w) == Passing(w) /\ stop # "none" /\ original
\* restoreStep
SayEnded(w) ==
  /\ Restorable(w) /\ stop = "rounds" /\ ~progress.ended
  /\ Start(w, "ended", {}, [progress EXCEPT !.ended = TRUE])
RestoreStep(w) ==
  LET p == [progress EXCEPT !.issue = FALSE] IN
  /\ Restorable(w) /\ (stop = "rounds" => p.ended)
  /\ \/ lock /\ Complete(w)
     \/ ~lock /\ p.restores >= RestoreAttempts /\ Review(w, p)
     \/ /\ ~lock /\ p.restores < RestoreAttempts
        /\ Start(w, "restore_lock", {}, [p EXCEPT !.restores = @ + 1])
RestoreLater(w) ==
  LET p == [progress EXCEPT !.issue = FALSE] IN
  /\ Restorable(w) /\ (stop = "rounds" => p.ended)
  /\ \/ Lasting(w, "stopping")
     \/ ~lock /\ p.restores \in 1..(RestoreAttempts - 1) /\ Observe(w, "stopping", p)

\* Mutated form of AttemptsLeft: one attempt more.
AttemptsLeftAndOne(p) == p.disables <= RetryLimit
AttemptsLeft(p) == p.disables < RetryLimit
\* prepareStep: the lock is switched off, and the event announced.
Preparing(w) == Passing(w) /\ stop = "none" /\ state = "preparing"
PrepareStep(w) ==
  LET p == [progress EXCEPT !.issue = FALSE]
      off == [p EXCEPT !.disabled = @ \/ original]
  IN
  /\ Preparing(w)
  /\ \/ Noted(w, "preparing")
     \/ /\ progress.issue /\ Observe(w, "needs_review", progress)
     \/ lock /\ (~original \/ p.disabled) /\ LockChanged(w, p)
     \/ /\ lock /\ original /\ ~p.disabled
        /\ IF AttemptsLeft(p) THEN Start(w, "disable_lock", {}, [p EXCEPT !.disables = @ + 1])
           ELSE Give(w, p)
     \/ ~lock /\ (Observe(w, "preparing", off) \/ Start(w, "armed", {}, off))

\* runStep with the lock not read as off.
LockNotOff(w) ==
  LET p == progress IN
  \/ lock /\ LockChanged(w, p)
  \/ ~vote /\ Review(w, p)
  \/ vote /\ Noted(w, state)
  \/ vote /\ p.issue /\ Halt(w, Nobody)

Finished ==
  vote /\ progress.started >= PlannedRounds /\ state # "waiting_round"
Running(w) == Passing(w) /\ stop = "none" /\ state # "preparing"
Planning(w) == Running(w) /\ ~lock
\* The event ends by itself: its rounds are over, nobody plays, its team is absent.
PlanStop(w) ==
  /\ Planning(w) /\ vote
  /\ \/ Finished /\ RecordStop("rounds")
     \/ RecordStop("other")
  /\ Rest(w)
\* The roster is unsafe, the kept teams are full, or a moved player is still or again
\* on the closed team.
PlanGivesUp(w) == Planning(w) /\ Give(w, [progress EXCEPT !.issue = FALSE])

\* planEvent, where nothing is sent: connected are the players now on the server.
Plan(w, connected) ==
  LET p == [progress EXCEPT !.issue = FALSE, !.warned = @ \cap connected]
      told == IF PlayerMessages THEN p ELSE [p EXCEPT !.warned = connected]
      sorting == progress.round = round /\ state # "waiting_round"
  IN
  /\ Planning(w)
  /\ \/ Observe(w, state, [p EXCEPT !.warned = progress.warned])
     \/ Observe(w, state, p)
     \/ sorting /\ Observe(w, "warming", told)
     \/ /\ sorting /\ p.warning
        /\ \/ Observe(w, state, told)
           \/ Observe(w, "active", [told EXCEPT !.respawn = Nobody])
\* planEvent, the round's warning: a new round that the event still plays has begun.
PlanRound(w, connected) ==
  LET p == [progress EXCEPT !.issue = FALSE] IN
  /\ Planning(w) /\ p.round # round /\ ~Finished
  /\ Start(w, "round_warning", connected, NextRoundProgress(p))
\* Mutated form of Eligible: who has been moved is forgotten.
EligibleAgain(p, connected) == connected
Eligible(p, connected) == connected \ p.moved
\* planEvent, one player: warned, moved a while later, and respawned after a move.
PlanPlayer(w, connected) ==
  LET p == [progress EXCEPT !.issue = FALSE, !.warned =
              IF PlayerMessages THEN @ \cap connected ELSE connected]
  IN
  /\ Planning(w) /\ p.round = round /\ state # "waiting_round" /\ p.warning
  /\ \/ /\ ForceRespawn /\ p.respawn \in connected
        /\ Start(w, "respawn", {p.respawn}, p)
     \/ /\ p.respawn = Nobody
        /\ \E one \in Eligible(p, connected) :
             Start(w, IF one \in p.warned THEN "move" ELSE "player_warning", {one}, p)
     \/ /\ p.respawn = Nobody /\ ~p.ready /\ connected # {}
        /\ Start(w, "ready", {}, p)

-------------------------------------------------------------------------------
(* An operation: checked, sent and settled (execute).                       *)

\* restore: an administrator reviewed the lock at some revision and confirmed.
BeginRestore(h) ==
  /\ step[h] = "idle" /\ h \in Restores /\ stop # "none" /\ state \in {"needs_review", "stopping"}
  /\ \E fresh \in BOOLEAN : Claim(h, "restore_lock", {}, fresh, progress, TRUE)

\* Mutated form of Withdrawn: the last look at the row overlooks a stop.
WithdrawnBlind(h) == op # h \/ state = "needs_review"
\* The row no longer asks for the operation.
Withdrawn(h) ==
  op # h \/ state = "needs_review" \/ (stop # "none" /\ job[h].kind \notin AfterStop)

\* Mutated form of Told: a stop recorded meanwhile is written over.
ToldOver(newState) == newState
\* A stop recorded meanwhile stands.
Told(newState) ==
  IF stop # "none" /\ newState \notin {"complete", "needs_review"} THEN "stopping" ELSE newState
\* settle: the receipt keeps the answer, the row only if it still points to it.
Settle(h, newState, newProgress) ==
  /\ open' = open \ {h}
  /\ IF op = h /\ state # "needs_review"
       THEN /\ state' = Told(newState) /\ progress' = newProgress /\ op' = Nobody
            /\ NewVersion
       ELSE UNCHANGED <<state, progress, op, current>>
  /\ job' = IF op = h /\ state = "needs_review" THEN job ELSE [job EXCEPT ![h] = NoJob]
  /\ UNCHANGED <<stop, vote, original, gameVars, ours, moved, past>>

\* unsent, for a process that stops (`here`) or a connection that changed.
Unsent(h, here) ==
  /\ Settle(h, IF stop # "none" THEN "stopping" ELSE IF vote /\ here THEN state
                 ELSE "needs_review", progress)
  /\ UNCHANGED doubtful /\ Rest(h)
\* The first look at the row, the administrator and the round.
Check(h) ==
  LET k == job[h].kind IN
  /\ step[h] = "check"
  /\ \/ \E here \in BOOLEAN : Unsent(h, here)
     \* The administrator or the round could not be checked: not sent.
     \/ /\ ~Withdrawn(h)
        /\ Settle(h, IF k = "restore_lock" THEN "stopping" ELSE IF vote THEN state
                       ELSE "needs_review", progress)
        /\ UNCHANGED doubtful /\ Rest(h)
     \* The round changed, or its observation is stale.
     \/ /\ ~Withdrawn(h) /\ k \in RoundKinds
        /\ Settle(h, IF k = "round_warning" THEN state ELSE "active",
                  [progress EXCEPT !.respawn = Nobody])
        /\ UNCHANGED doubtful /\ Rest(h)
     \/ /\ ~Withdrawn(h) /\ (k \in RoundKinds => job[h].target = round)
        /\ To(h, "before") /\ UNCHANGED <<rowVars, current, job, past>> /\ GameSame
\* The last look at the row.
Before(h) ==
  /\ step[h] = "before"
  /\ \/ \E here \in BOOLEAN : Unsent(h, here)
     \/ /\ ~Withdrawn(h) /\ To(h, "send")
        /\ UNCHANGED <<rowVars, current, job, past>> /\ GameSame

\* What the action service can answer. "unknown" may or may not have taken effect.
Answers(k) ==
  CASE k = "move" -> {"confirmed", "unchanged", "precondition", "refused", "pending",
                      "unknown", "thrown"}
    [] k = "respawn" -> {"confirmed", "precondition", "refused", "unknown", "thrown"}
    [] OTHER -> {"confirmed", "unknown", "thrown"}
\* The saved lock changes only if the request names the current settings revision.
Stale == [h \in Handlers |-> [job[h] EXCEPT !.fresh = FALSE]]
Write(h, answer, told) ==
  IF job[h].kind \in LockKinds /\ job[h].fresh /\ answer = "confirmed"
    THEN /\ lock' = (job[h].kind = "restore_lock" /\ original)
         /\ ours' = (~lock' /\ (lock \/ ours))
         /\ job' = [Stale EXCEPT ![h].answer = told]
    ELSE UNCHANGED <<lock, ours>> /\ job' = [job EXCEPT ![h].answer = told]
\* The action: the game acts (or not) and answers (or the answer is lost).
Send(h) ==
  LET j == job[h] IN
  /\ step[h] = "send"
  /\ \E effect, answer \in Answers(j.kind) :
       /\ effect # answer => effect = "confirmed" /\ answer \in {"unknown", "thrown"}
       /\ answer = "confirmed" /\ j.kind \in LockKinds => j.fresh
       /\ Write(h, effect, answer)
       /\ moved' = IF j.kind = "move" /\ answer = "confirmed" /\ j.target = round
                     THEN moved \cup j.who ELSE moved
  /\ To(h, "settle") /\ past' = past \ {h}
  /\ UNCHANGED <<rowVars, current, vote, original, round, doubtful>>

\* Mutated form of Accepted: a lock change of unknown result counts as saved.
AcceptedUnknown(j) ==
  \/ j.answer = "confirmed"
  \/ j.kind \in LockKinds /\ j.answer = "unknown"
Accepted(j) == j.answer = "confirmed"
\* Who waits for a respawn after a move: the player, where moves are followed by one.
ToRespawn(j) ==
  IF ForceRespawn /\ j.answer = "confirmed" THEN CHOOSE one \in j.who : TRUE ELSE progress.respawn
\* completeEventOperation
Done(j) ==
  CASE j.kind = "round_warning" ->
         [progress EXCEPT !.round = j.target, !.started = @ + 1, !.warning = TRUE,
            !.warned = j.who, !.failures = 0]
    [] j.kind = "player_warning" -> [progress EXCEPT !.warned = @ \cup j.who, !.failures = 0]
    [] j.kind = "move" ->
         [progress EXCEPT !.moved = @ \cup j.who, !.failures = 0, !.respawn = ToRespawn(j)]
    [] j.kind = "respawn" -> [progress EXCEPT !.respawn = Nobody, !.failures = 0]
    [] j.kind = "ready" -> [progress EXCEPT !.ready = TRUE, !.failures = 0]
    [] j.kind = "disable_lock" -> [progress EXCEPT !.disabled = TRUE, !.failures = 0]
    [] j.kind = "ended" -> [progress EXCEPT !.ended = TRUE, !.failures = 0]
    [] OTHER -> [progress EXCEPT !.failures = 0]
After(k) ==
  CASE k = "restore_lock" -> "complete" [] k = "disable_lock" -> "preparing"
    [] k = "armed" -> "waiting_round" [] k = "round_warning" -> "warming"
    [] k = "ended" -> "stopping" [] OTHER -> "active"
\* outcome: the row's state and progress after an answer, and whether the event halts.
Outcome(h) ==
  LET j == job[h]
      cleared == [progress EXCEPT !.respawn = Nobody]
      \* Bound: past the limit the count tells nothing more.
      Counted == IF progress.failures < RetryLimit THEN progress.failures + 1 ELSE RetryLimit
      Then(s, p, halt) == [state |-> s, progress |-> p, halt |-> halt]
      Retry(s, p) == Then(s, [p EXCEPT !.failures = Counted], p.failures + 1 >= RetryLimit)
      Moved == IF j.answer = "pending" THEN Then("active", Done(j), FALSE)
               ELSE IF j.answer = "refused" THEN Retry("active", progress)
               ELSE Then("active", progress, TRUE)
      Voted ==
        CASE j.kind = "disable_lock" -> Then("preparing", progress, FALSE)
          [] j.kind = "move" -> Moved
          [] j.kind = "respawn" -> IF j.answer = "refused" THEN Retry("active", cleared)
                                   ELSE Then("active", cleared, TRUE)
          [] j.kind = "round_warning" -> Retry(state, progress)
          [] OTHER -> Then(After(j.kind), [Done(j) EXCEPT !.failures = progress.failures], FALSE)
  IN
  CASE j.answer = "precondition" -> IF vote THEN Retry("active", cleared) ELSE Then("active", cleared, FALSE)
    [] j.answer = "unchanged" -> Then("active", cleared, FALSE)
    [] OTHER -> IF Accepted(j) THEN Then(After(j.kind), Done(j), FALSE)
                ELSE IF j.kind = "restore_lock" THEN Then("stopping", progress, FALSE)
                ELSE IF ~vote THEN Then("needs_review", progress, FALSE)
                ELSE IF j.answer = "thrown" THEN Then(state, progress, TRUE) ELSE Voted
\* The end of execute: settled, and then halted in a transaction of its own.
SettleAnswer(h) ==
  /\ step[h] = "settle"
  /\ Settle(h, Outcome(h).state, Outcome(h).progress)
  /\ doubtful' = (doubtful \/ (vote /\ op = h /\ job[h].kind = "move"
                                 /\ job[h].answer \in {"unknown", "thrown"}))
  /\ IF Outcome(h).halt THEN To(h, "halt") ELSE Rest(h)
HaltAfter(h) == step[h] = "halt" /\ Halt(h, Nobody)

-------------------------------------------------------------------------------
(* The staff and the game; a process stops.                                 *)

\* A settings edit by staff: other requests name an old revision from now on.
Edit ==
  /\ lock' \in BOOLEAN /\ ours' = (ours /\ lock' = lock) /\ job' = Stale
  /\ UNCHANGED <<vote, original, round, moved, doubtful, rowVars, step, current, past>>
NextRound ==
  /\ round < MaxRound /\ round' = round + 1 /\ moved' = {}
  /\ UNCHANGED <<vote, original, lock, ours, doubtful, rowVars, step, current, job,
                 past>>
\* What the process was doing is lost; the row and its receipts are not.
Crash(h) ==
  /\ step[h] \notin {"idle", "done"} /\ Rest(h)
  /\ job' = IF op = h THEN job ELSE [job EXCEPT ![h] = NoJob]
  /\ past' = past \ {h} /\ current' = current \ {h}
  /\ UNCHANGED rowVars /\ GameSame

Pass(w) ==
  \/ Look(w) \/ Takeover(w) \/ Wait(w) \/ Unreachable(w) \/ Unreadable(w) \/ FinishOff(w)
  \/ SayEnded(w) \/ RestoreStep(w) \/ RestoreLater(w) \/ PrepareStep(w)
  \/ Running(w) /\ LockNotOff(w)
  \/ PlanStop(w) \/ PlanGivesUp(w)
  \/ \E connected \in SUBSET Players :
       Plan(w, connected) \/ PlanRound(w, connected) \/ PlanPlayer(w, connected)
Execute(h) == Check(h) \/ Before(h) \/ Send(h) \/ SettleAnswer(h) \/ HaltAfter(h)

Next ==
  \/ \E w \in Workers : Pass(w)
  \/ \E h \in Restores : BeginRestore(h)
  \/ \E h \in Handlers : Execute(h) \/ Crash(h)
  \/ Expire \/ StaffStop \/ Edit \/ NextRound
Spec == Init /\ [][Next]_vars

-------------------------------------------------------------------------------
(* Properties.                                                              *)

Progresses == [round : 0..MaxRound, started : Nat, disabled : BOOLEAN,
               disables : 0..RetryLimit, restores : 0..RestoreAttempts,
               failures : 0..RetryLimit, warning : BOOLEAN, warned : SUBSET Players,
               moved : SUBSET Players, respawn : Players \cup {Nobody},
               ready : BOOLEAN, ended : BOOLEAN, issue : BOOLEAN]
States == {"preparing", "waiting_round", "warming", "active", "stopping",
           "needs_review", "complete"}
Stops == {"none", "rounds", "other"}
TypeOK ==
  /\ {vote, original, lock, ours, doubtful} \subseteq BOOLEAN /\ round \in 0..MaxRound
  /\ state \in States /\ stop \in Stops /\ op \in Handlers \cup {Nobody}
  /\ progress \in Progresses
  /\ open \subseteq Handlers /\ past \subseteq Handlers /\ current \subseteq Workers /\ moved \subseteq Players
  /\ step \in [Handlers -> {"idle", "pass", "check", "before", "send", "settle", "halt",
                            "done"}]
  /\ job \in [Handlers -> [kind : Kinds \cup {"none"}, who : SUBSET Players,
                           target : 0..MaxRound, fresh : BOOLEAN, answer : Answers("move") \cup {"none"}]]

\* A completed event leaves no team lock off that one of its actions switched off: the
\* order of an unconfirmed switch, a stop, restores of unknown result and an interrupted
\* process does not matter (restoreStep, execute).
LockRestored == state = "complete" /\ original => ~ours

\* Two processes and a reviewed restoration never send an action of the event at the
\* same time (claim, recover).
OneSender == Cardinality(Sending) <= 1

\* Only an action that had passed its final check when the stop was recorded is still
\* sent after it, apart from the notice and the restore (execute).
StopHolds ==
  stop # "none" => \A h \in Sending : job[h].kind \in AfterStop \/ h \in past

\* A stop recorded while an operation is under way is not lost to the operation's result
\* (settle): no later pass plans moves again.
StopSticks ==
  stop # "none" /\ op = Nobody => state \in {"stopping", "needs_review", "complete"}

\* A stop is never undone, neither by a request that is sent after it nor by a late result.
StopsStay == StopHolds /\ StopSticks

\* A player whose move was confirmed is not moved again in the same round, by whichever
\* process (planEvent, claim): moved players who return are left to staff.
MovedOnce ==
  \A h \in Sending :
    job[h].kind = "move" /\ job[h].target = round => job[h].who \cap moved = {}

\* "An unconfirmed move result ... stop the event": no player is moved by a voted event
\* once a move of unknown result has been settled (execute).
UnconfirmedMoveStops == doubtful => \A h \in Sending : job[h].kind # "move"

\* Every pass starts again after a crash, the event's time ends, the settings are read
\* and an action is answered at some time; a reading fails no more than it succeeds.
Fairness ==
  /\ SF_vars(Expire)
  /\ \A w \in Workers :
       /\ SF_vars(Look(w)) /\ SF_vars(Takeover(w)) /\ SF_vars(FinishOff(w))
       /\ SF_vars(SayEnded(w)) /\ SF_vars(RestoreStep(w)) /\ WF_vars(Wait(w))
  /\ \A h \in Handlers : SF_vars(Execute(h))
FairSpec == Spec /\ Fairness

\* Every event ends, or waits for staff, again and again: no claimed operation, stop or
\* restore hangs (tick, recover, restoreStep).
EventEnds == []<>(state \in {"complete", "needs_review"})
===============================================================================
